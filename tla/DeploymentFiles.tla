-------------------------- MODULE DeploymentFiles --------------------------
(***************************************************************************)
(* The deployment files of contract_manager.py: where they are, what they  *)
(* hold, how the files of a chain are merged into one document.            *)
(*                                                                         *)
(* Only the current contracts version is followed, so a version is neither *)
(* part of a path nor of a document; block number and gas of a deployment  *)
(* are those of its transaction and stand with the transaction's hash.     *)
(***************************************************************************)
EXTENDS Naturals, Sequences

CONSTANTS
  Chains,           \* chain ids
  ID_TO_CHAINNAME   \* ID_TO_CHAINNAME[c]: the name of chain c, "private_net"
                    \* for every chain that has none

Modules == {"raiden", "services"}
Paths   == {ID_TO_CHAINNAME[c] : c \in Chains} \X Modules

contracts_deployed_path(c, module) == <<ID_TO_CHAINNAME[c], module>>

\* A file that is not there, and one whose content is no JSON.
Missing   == [unreadable |-> "missing"]
Corrupted == [unreadable |-> "corrupted"]
Readable(file) == file \notin {Missing, Corrupted}

NoDocument(c) == [chain_id |-> c, contracts |-> <<>>, token_networks |-> <<>>]

\* document with the entry of one more contract
Remember(document, name, entry) ==
  [document EXCEPT !.contracts =
    [n \in DOMAIN @ \cup {name} |-> IF n = name THEN entry ELSE @[n]]]

Mergeable(d1, d2) ==
  /\ DOMAIN d1.contracts \cap DOMAIN d2.contracts = {}
  /\ d1.chain_id = d2.chain_id

merge_deployment_data(d1, d2) ==
  [chain_id  |-> d1.chain_id,
   contracts |-> [n \in DOMAIN d1.contracts \cup DOMAIN d2.contracts |->
                    IF n \in DOMAIN d1.contracts THEN d1.contracts[n]
                    ELSE d2.contracts[n]],
   token_networks |-> <<>>]

\* What get_contracts_deployment_info takes over from a file.
Chosen(document) == [document EXCEPT !.token_networks = <<>>]

\* get_contracts_deployment_info for one module: Missing stands for None,
\* Corrupted for the exception.
ModuleInfo(files, c, module) ==
  LET file == files[contracts_deployed_path(c, module)]
  IN  IF Readable(file) THEN Chosen(file) ELSE file

\* get_contracts_deployment_info for all modules; Corrupted stands for any of
\* its exceptions.
get_contracts_deployment_info(files, c) ==
  LET raiden   == ModuleInfo(files, c, "raiden")
      services == ModuleInfo(files, c, "services")
  IN  CASE Corrupted \in {raiden, services}  -> Corrupted
        [] raiden = Missing                  -> services
        [] raiden # Missing /\ services = Missing -> raiden
        [] OTHER -> IF Mergeable(raiden, services)
                    THEN merge_deployment_data(raiden, services)
                    ELSE Corrupted
=============================================================================
