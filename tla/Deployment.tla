----------------------------- MODULE Deployment -----------------------------
(***************************************************************************)
(* The deployment scripts: operators, each with a key of its own, run the  *)
(* commands of deploy/__main__.py against chains that mine their           *)
(* transactions later, or not at all, and against one directory of         *)
(* deployment files.                                                       *)
(*                                                                         *)
(* An address is named by the transaction that deployed the contract:      *)
(* sender and nonce determine it, so the same address can exist on two     *)
(* chains.  A transaction's hash names the chain as well.                  *)
(***************************************************************************)
EXTENDS DeploymentFiles, FiniteSets

CONSTANTS
  Operators,        \* the accounts commands are run with
  Releaser,         \* the account of an earlier release
  ReleaseChain,     \* the chain that release is on
  Commands,         \* names of the commands that are run
  Tokens,           \* existing ERC20 tokens
  SettleTimeouts,   \* values of --settle-timeout
  Limits,           \* values of the deposit limits of a token network
  MaxTokenNetworks, \* --max-token-networks
  SaveInfo,         \* whether --save-info or --no-save-info is given
  ReuseFrom,        \* names of the deployment files contracts are reused from
  AnyRegistry,      \* whether register is given other registries than the
                    \* one in the deployment file
  MaxTxs            \* bound: transactions per operator and chain

ASSUME DeploymentAssumption ==
  /\ ReleaseChain \in Chains /\ Releaser \notin Operators
  /\ MaxTokenNetworks \in Nat \ {0} /\ MaxTxs \in Nat
  /\ SaveInfo \subseteq BOOLEAN /\ AnyRegistry \in BOOLEAN

VARIABLES
  txs,      \* the transactions each account has sent to each chain
  files,    \* the deployment files
  at,       \* where the operator's command is
  cmd,      \* the command
  doc,      \* deployed_contracts_info, as far as the command knows it
  step,     \* how many transactions of the command have been confirmed
  network   \* register: what is collected about the new token network

vars == <<txs, files, at, cmd, doc, step, network>>

Senders  == Operators \cup {Releaser}
Released == {"released"} \X Modules     \* the files of the earlier release

RaidenContracts  == {"SecretRegistry", "TokenNetworkRegistry"}
ServiceContracts == {"ServiceRegistry", "UserDeposit", "MonitoringService", "OneToN"}
ContractNames    == RaidenContracts \cup ServiceContracts \cup {"CustomToken"}

-----------------------------------------------------------------------------
(* The chains.                                                             *)

Address == [from : Senders, nonce : Nat]
address(hash) == [from |-> hash.from, nonce |-> hash.nonce]
NoCode  == [from |-> Releaser, nonce |-> 0]   \* an address without code

\* "spent": carried out, with exactly the gas it was given, which
\* check_successful_tx takes for running out of it.
SuccessfulAnyMutant(tx) == TRUE         \* mutant: only the receipt is awaited
Successful(tx) == tx.status = "mined"

Executed(tx) == tx.status \in {"mined", "spent"}

HasCode(c, a) ==
  /\ a.nonce \in DOMAIN txs[c][a.from]
  /\ Executed(txs[c][a.from][a.nonce])
  /\ txs[c][a.from][a.nonce].name \in ContractNames

IsContract(c, a, name) == HasCode(c, a) /\ txs[c][a.from][a.nonce].name = name

IsCurrent(c, a, name) ==
  IsContract(c, a, name) /\ txs[c][a.from][a.nonce].code = "current"

\* The constructor's arguments determine the getters the scripts call.
Args(c, a) == txs[c][a.from][a.nonce].args

\* The transactions that have done name at the contract at address a.
Calls(c, name, a) ==
  {hash \in [chain : {c}, from : Senders, nonce : 1 .. MaxTxs] :
     /\ hash.nonce \in DOMAIN txs[c][hash.from]
     /\ LET tx == txs[c][hash.from][hash.nonce]
        IN  Executed(tx) /\ tx.name = name /\ tx.to = a}

Networks(c, registry) == Calls(c, "createERC20TokenNetwork", registry)

NetworkToken(hash) == txs[hash.chain][hash.from][hash.nonce].args[1]

\* The arguments the registry created the token network with; its controller
\* is the registry's, who deployed it.
NetworkArguments(hash) ==
  LET tx == txs[hash.chain][hash.from][hash.nonce]
      registryArgs == Args(hash.chain, tx.to)
  IN  [token |-> tx.args[1], secret_registry |-> registryArgs[1],
       settle_timeout |-> registryArgs[2], controller |-> tx.to.from,
       limits |-> tx.args[2]]

\* Whether the transaction goes through: the requires of the constructors, of
\* UserDeposit.init and of createERC20TokenNetwork.  A call to an address that
\* has no code succeeds and does nothing.
CanExecute(c, tx) ==
  CASE tx.name = "TokenNetworkRegistry" -> HasCode(c, tx.args[1])
    [] tx.name = "MonitoringService" -> \A i \in {2, 3, 4} : HasCode(c, tx.args[i])
    [] tx.name = "init" ->
         /\ IsContract(c, tx.to, "UserDeposit")
         /\ Calls(c, "init", tx.to) = {}
         /\ HasCode(c, tx.args[1]) /\ HasCode(c, tx.args[2])
    [] tx.name = "createERC20TokenNetwork" ->
         \/ ~HasCode(c, tx.to)
         \/ /\ IsContract(c, tx.to, "TokenNetworkRegistry")
            /\ Cardinality(Networks(c, tx.to)) < Args(c, tx.to)[3]
            /\ \A hash \in Networks(c, tx.to) : NetworkToken(hash) # tx.args[1]
    [] OTHER -> TRUE

-----------------------------------------------------------------------------
(* ContractVerifier.                                                       *)

\* _verify_deployed_contract
Verified(c, document, name) ==
  LET entry == document.contracts[name]
      hash  == entry.transaction_hash
  IN  /\ name \in DOMAIN document.contracts
      /\ hash.chain = c
      /\ hash.nonce \in DOMAIN txs[c][hash.from]
      /\ address(hash) = entry.address
      /\ IsCurrent(c, entry.address, name)

verify_deployment_data(c, document) ==
  /\ Verified(c, document, "SecretRegistry")
  /\ Verified(c, document, "TokenNetworkRegistry")
  /\ LET registry == document.contracts["TokenNetworkRegistry"]
         secretRegistry == document.contracts["SecretRegistry"].address
     IN  /\ Args(c, registry.address)[1] = secretRegistry
         /\ registry.constructor_arguments[1] = secretRegistry
         /\ Args(c, registry.address)[2] = registry.constructor_arguments[2]

_verify_user_deposit_deployment(c, token, entry, msc, oneToN) ==
  /\ entry.constructor_arguments[1] = token /\ Args(c, entry.address)[1] = token
  /\ \E hash \in Calls(c, "init", entry.address) :
       txs[c][hash.from][hash.nonce].args = <<msc, oneToN>>

_verify_monitoring_service_deployment(c, token, entry, registry, userDeposit, tnr) ==
  LET expected == <<token, registry, userDeposit, tnr>>
  IN  Args(c, entry.address) = expected /\ entry.constructor_arguments = expected

\* Its service registry is only compared with the recorded arguments.
_verify_one_to_n_deployment(c, entry, userDeposit, registry) ==
  /\ Args(c, entry.address)[1] = userDeposit
  /\ entry.constructor_arguments = <<userDeposit, c, registry>>

\* mutant: the token of the contract is not compared
_verify_service_registry_priceMutant(c, token, entry) ==
  Args(c, entry.address)[2] = entry.constructor_arguments[2]

_verify_service_registry_deployment(c, token, entry) ==
  /\ Args(c, entry.address)[1] = token /\ entry.constructor_arguments[1] = token
  /\ Args(c, entry.address)[2] = entry.constructor_arguments[2]

verify_service_contracts_deployment_data(c, token, tnr, document) ==
  /\ document.chain_id = c
  /\ \A name \in ServiceContracts : Verified(c, document, name)
  /\ LET entry(name) == document.contracts[name]
         registry    == entry("ServiceRegistry").address
         userDeposit == entry("UserDeposit").address
     IN  /\ _verify_service_registry_deployment(c, token, entry("ServiceRegistry"))
         /\ _verify_user_deposit_deployment(c, token, entry("UserDeposit"),
              entry("MonitoringService").address, entry("OneToN").address)
         /\ _verify_monitoring_service_deployment(c, token,
              entry("MonitoringService"), registry, userDeposit, tnr)
         /\ _verify_one_to_n_deployment(c, entry("OneToN"), userDeposit, registry)

\* The checks a command ends with, on the document it has.
Correct(command, document) ==
  IF command.name = "services"
  THEN verify_service_contracts_deployment_data(
         command.chain, command.token, command.registry, document)
  ELSE verify_deployment_data(command.chain, document)
-----------------------------------------------------------------------------
(* The commands.                                                           *)

NoPath    == <<>>
NoCommand == [name |-> "none"]

PathsOf(module) ==
  {path \in Paths \cup Released : path[1] \in ReuseFrom /\ path[2] = module}
    \cup {NoPath}

RaidenCommands ==
  [name : {"raiden"}, chain : Chains, reuse : PathsOf("raiden"),
   save : SaveInfo, settle : SettleTimeouts]

\* The registries on chain c that the caller can name, or none at all.
Registries(c) ==
  {a \in [from : Senders, nonce : 1 .. MaxTxs] :
     IsContract(c, a, "TokenNetworkRegistry")} \cup {NoCode}

RecordedRegistry(c) ==
  LET file == files[contracts_deployed_path(c, "raiden")]
  IN  IF Readable(file) THEN {file.contracts["TokenNetworkRegistry"].address} ELSE {}

ServiceCommands(c) ==
  [name : {"services"}, chain : {c}, reuse : PathsOf("services"),
   save : SaveInfo, token : Tokens, registry : Registries(c)]

RegisterCommands(c) ==
  [name : {"register"}, chain : {c}, token : Tokens, limits : Limits,
   registry : IF AnyRegistry THEN Registries(c) ELSE RecordedRegistry(c)]

OtherCommands == [name : {"verify", "token"}, chain : Chains]

CommandLines ==
  {command \in RaidenCommands \cup OtherCommands
               \cup UNION {ServiceCommands(c) \cup RegisterCommands(c) : c \in Chains} :
     command.name \in Commands}

\* The module whose file the command writes and verifies.
ModuleOf(command) == IF command.name = "services" THEN "services" ELSE "raiden"

FileOf(command) == contracts_deployed_path(command.chain, ModuleOf(command))

Reused(command) ==
  IF command.name = "raiden" THEN "SecretRegistry" ELSE "ServiceRegistry"

Reuses(command) == command.name \in {"raiden", "services"} /\ command.reuse # NoPath

\* The transactions a command sends, in order.
Plan(command) ==
  CASE command.name = "raiden" ->
         (IF Reuses(command) THEN <<>> ELSE <<"SecretRegistry">>)
         \o <<"TokenNetworkRegistry">>
    [] command.name = "services" ->
         (IF Reuses(command) THEN <<>> ELSE <<"ServiceRegistry">>)
         \o <<"UserDeposit", "MonitoringService", "OneToN", "init">>
    [] command.name = "register" -> <<"createERC20TokenNetwork">>
    [] command.name = "token"    -> <<"CustomToken">>
    [] OTHER                     -> <<>>

\* The arguments of a transaction, computed from what is known so far.
ArgumentsOf(command, document, name, owner) ==
  LET of(contract) == document.contracts[contract].address
  IN  CASE name = "TokenNetworkRegistry" ->
             <<of("SecretRegistry"), command.settle, MaxTokenNetworks>>
        [] name = "ServiceRegistry"   -> <<command.token, owner>>
        [] name = "UserDeposit"       -> <<command.token>>
        [] name = "MonitoringService" ->
             <<command.token, of("ServiceRegistry"), of("UserDeposit"), command.registry>>
        [] name = "OneToN" ->
             <<of("UserDeposit"), command.chain, of("ServiceRegistry")>>
        [] name = "init" -> <<of("MonitoringService"), of("OneToN")>>
        [] name = "createERC20TokenNetwork" -> <<command.token, command.limits>>
        [] OTHER -> <<>>

\* The contract a transaction calls; a deployment calls none.
TargetOf(command, document, name) ==
  CASE name = "init" -> document.contracts["UserDeposit"].address
    [] name = "createERC20TokenNetwork" -> command.registry
    [] OTHER -> NoCode

Transaction(command, document, name, owner) ==
  [name |-> name, args |-> ArgumentsOf(command, document, name, owner),
   to |-> TargetOf(command, document, name), code |-> "current", status |-> "pending"]

\* The last transaction of operator p on the chain of its command.
LastHash(p) ==
  [chain |-> cmd[p].chain, from |-> p, nonce |-> Len(txs[cmd[p].chain][p])]

StatusOf(hash) == txs[hash.chain][hash.from][hash.nonce].status

\* _deployed_data_from_receipt
DeployedData(hash, arguments) ==
  [address |-> address(hash), transaction_hash |-> hash,
   constructor_arguments |-> arguments]
-----------------------------------------------------------------------------
(* The steps of a command.                                                 *)

GoTo(p, place) == at' = [at EXCEPT ![p] = place]
Move(p, from, to) == at[p] = from /\ GoTo(p, to)

\* The command starts; it reads the file it is to reuse a contract from.  A
\* command that setup_ctx refuses (no key, no balance) never starts.
Begin(p, command) ==
  /\ at[p] = "idle"
  /\ Len(txs[command.chain][p]) + Len(Plan(command)) =< MaxTxs
  /\ cmd' = [cmd EXCEPT ![p] = command]
  /\ LET c == command.chain
     IN  IF ~Reuses(command)
         THEN /\ GoTo(p, IF command.name = "verify" THEN "verify" ELSE "deploy")
              /\ doc' = [doc EXCEPT ![p] = NoDocument(c)]
         ELSE LET file == files[command.reuse]
                  name == Reused(command)
              IN  IF Readable(file) /\ name \in DOMAIN file.contracts
                  THEN /\ GoTo(p, "deploy")
                       /\ doc' = [doc EXCEPT ![p] =
                            Remember(NoDocument(c), name, file.contracts[name])]
                  ELSE GoTo(p, "failed") /\ UNCHANGED doc
  /\ UNCHANGED <<txs, files, step, network>>

\* send_deployment_transaction or transact: the node takes the transaction or
\* refuses it; a deployment that it refuses with code -32015 is sent again,
Send(p) ==
  LET c == cmd[p].chain
      name == Plan(cmd[p])[step[p] + 1]
      tx == Transaction(cmd[p], doc[p], name, p)
  IN  /\ \/ /\ Move(p, "deploy", "wait")
            /\ txs' = [txs EXCEPT ![c][p] = Append(@, tx)]
         \/ /\ Move(p, "deploy", "refused") /\ name \in ContractNames
            /\ UNCHANGED txs
         \/ Move(p, "deploy", "failed") /\ UNCHANGED txs
      /\ UNCHANGED <<files, cmd, doc, step, network>>

\* in a loop that counts no attempts.
Retry(p) ==
  /\ Move(p, "refused", "deploy")
  /\ UNCHANGED <<txs, files, cmd, doc, step, network>>

\* wait_for_transaction_receipt gives up.  The transaction stays with the node.
TimeOut(p) ==
  /\ Move(p, "wait", "failed")
  /\ StatusOf(LastHash(p)) = "pending"
  /\ UNCHANGED <<txs, files, cmd, doc, step, network>>

AfterPlan(command) ==
  CASE command.name = "register" -> "collect"
    [] command.name = "token"    -> "done"
    [] OTHER -> IF command.save THEN "store" ELSE "check"

\* check_successful_tx on the receipt; a contract's data are remembered.
Receive(p) ==
  LET hash == LastHash(p)
      name == Plan(cmd[p])[step[p] + 1]
      tx   == txs[hash.chain][hash.from][hash.nonce]
  IN  /\ at[p] = "wait" /\ tx.status # "pending"
      /\ IF ~Successful(tx)
         THEN GoTo(p, "failed") /\ UNCHANGED <<doc, step>>
         ELSE /\ GoTo(p, IF step[p] + 1 < Len(Plan(cmd[p])) THEN "deploy"
                         ELSE AfterPlan(cmd[p]))
              /\ step' = [step EXCEPT ![p] = @ + 1]
              /\ doc' = IF name \notin ContractNames THEN doc
                        ELSE [doc EXCEPT ![p] =
                               Remember(@, name, DeployedData(hash, tx.args))]
      /\ UNCHANGED <<txs, files, cmd, network>>

\* register_token_network collects the arguments for the deployment file.  The
\* registry is now the one in the file.
Collect(p) ==
  LET c == cmd[p].chain
      info == ModuleInfo(files, c, "raiden")
      registry == info.contracts["TokenNetworkRegistry"].address
  IN  /\ at[p] = "collect"
      /\ IF Readable(info) /\ IsContract(c, registry, "TokenNetworkRegistry")
         THEN /\ GoTo(p, "lookup")
              /\ network' = [network EXCEPT ![p] =
                   [registry |-> registry,
                    arguments |->
                      [token |-> cmd[p].token,
                       secret_registry |-> info.contracts["SecretRegistry"].address,
                       settle_timeout |-> Args(c, registry)[2],
                       controller |-> p, limits |-> cmd[p].limits]]]
         ELSE GoTo(p, "failed") /\ UNCHANGED network
      /\ UNCHANGED <<txs, files, cmd, doc, step>>

\* What the registry answers for the command's token.
NetworksFoundMutant(p, registry) == Networks(cmd[p].chain, registry)  \* any token's
NetworksFound(p, registry) ==
  {hash \in Networks(cmd[p].chain, registry) : NetworkToken(hash) = cmd[p].token}

\* The loop that asks the registry for the token network until there is one.
LookUp(p) ==
  /\ Move(p, "lookup", "append")
  /\ \E hash \in NetworksFound(p, network[p].registry) :
       network' = [network EXCEPT ![p] =
         [token_network_address |-> hash, constructor_arguments |-> @.arguments]]
  /\ UNCHANGED <<txs, files, cmd, doc, step>>

\* _add_token_network_deploy_info reads the file and appends the token network.
AddTokenNetwork(p) ==
  LET file == files[FileOf(cmd[p])]
  IN  /\ at[p] = "append"
      /\ IF Readable(file)
         THEN /\ GoTo(p, "store")
              /\ doc' = [doc EXCEPT ![p] =
                   [file EXCEPT !.token_networks = Append(@, network[p])]]
         ELSE GoTo(p, "failed") /\ UNCHANGED doc
      /\ UNCHANGED <<txs, files, cmd, step, network>>

\* _store_deployment_info opens the file, which empties it,
Truncate(p) ==
  /\ Move(p, "store", "write")
  /\ files' = [files EXCEPT ![FileOf(cmd[p])] = Corrupted]
  /\ UNCHANGED <<txs, cmd, doc, step, network>>

\* and then writes it.  Where others write the file, too, a document may leave
\* the tail of a longer one.
Write(p) ==
  /\ Move(p, "write", "verify")
  /\ \E content \in {doc[p]} \cup (IF Operators = {p} THEN {} ELSE {Corrupted}) :
       files' = [files EXCEPT ![FileOf(cmd[p])] = content]
  /\ UNCHANGED <<txs, cmd, doc, step, network>>

\* verify_deployed_contracts_in_filesystem and its sibling for the services.
\* From here on doc is the file's content.
Verify(p) ==
  LET file == files[FileOf(cmd[p])]
  IN  /\ at[p] = "verify"
      /\ IF Readable(file) /\ Correct(cmd[p], file)
         THEN GoTo(p, "done") /\ doc' = [doc EXCEPT ![p] = file]
         ELSE GoTo(p, "failed") /\ UNCHANGED doc
      /\ UNCHANGED <<txs, files, cmd, step, network>>

\* Without saving: services verifies what it has deployed; raiden calls
\* verify_deployment_data with an argument it does not have, a TypeError.
Check(p) ==
  /\ at[p] = "check"
  /\ GoTo(p, IF cmd[p].name = "services" /\ Correct(cmd[p], doc[p])
             THEN "done" ELSE "failed")
  /\ UNCHANGED <<txs, files, cmd, doc, step, network>>

Ended(p) == at[p] \in {"done", "failed"}

\* The command is killed, or the node does not answer a call.
Crash(p) ==
  /\ at[p] # "idle" /\ ~Ended(p) /\ GoTo(p, "failed")
  /\ UNCHANGED <<txs, files, cmd, doc, step, network>>

\* The process is gone with all it knew.
Finish(p) ==
  /\ Ended(p) /\ GoTo(p, "idle")
  /\ cmd' = [cmd EXCEPT ![p] = NoCommand]
  /\ doc' = [doc EXCEPT ![p] = Missing]
  /\ step' = [step EXCEPT ![p] = 0]
  /\ network' = [network EXCEPT ![p] = Missing]
  /\ UNCHANGED <<txs, files>>

\* The chain mines the oldest pending transaction of an account, or lets it run
\* out of gas.
Mine(c, p) ==
  \E nonce \in DOMAIN txs[c][p] :
    /\ txs[c][p][nonce].status = "pending"
    /\ \A n \in 1 .. nonce - 1 : txs[c][p][n].status # "pending"
    /\ \E status \in {"reverted"} \cup (IF CanExecute(c, txs[c][p][nonce])
                                        THEN {"mined", "spent"} ELSE {}) :
         txs' = [txs EXCEPT ![c][p][nonce].status = status]
    /\ UNCHANGED <<files, at, cmd, doc, step, network>>

-----------------------------------------------------------------------------

\* What an earlier release has deployed; its bytecode may have changed since.
Deployed(name, args, code) ==
  [name |-> name, args |-> args, to |-> NoCode, code |-> code, status |-> "mined"]

ReleaseAddress(nonce) == [from |-> Releaser, nonce |-> nonce]

ReleaseTransactions(code, token, settle) ==
  <<Deployed("SecretRegistry", <<>>, code),
    Deployed("TokenNetworkRegistry", <<ReleaseAddress(1), settle, MaxTokenNetworks>>, code),
    Deployed("ServiceRegistry", <<token, Releaser>>, code)>>

\* The entry of a document for the release's transaction at nonce.
ReleaseEntry(transactions, nonce) ==
  DeployedData([chain |-> ReleaseChain, from |-> Releaser, nonce |-> nonce],
               transactions[nonce].args)

ReleaseDocument(transactions, nonces) ==
  [NoDocument(ReleaseChain) EXCEPT !.contracts =
    [name \in {transactions[n].name : n \in nonces} |->
       ReleaseEntry(transactions,
         CHOOSE n \in nonces : transactions[n].name = name)]]

Init ==
  /\ \E code \in {"current", "older"}, token \in Tokens, settle \in SettleTimeouts :
       LET transactions == ReleaseTransactions(code, token, settle)
       IN  /\ txs = [c \in Chains |-> [p \in Senders |->
                       IF c = ReleaseChain /\ p = Releaser THEN transactions ELSE <<>>]]
           /\ files = [path \in Paths \cup Released |->
                         IF path \in Paths THEN Missing
                         ELSE ReleaseDocument(transactions,
                                IF path[2] = "raiden" THEN {1, 2} ELSE {3})]
  /\ at = [p \in Operators |-> "idle"]
  /\ cmd = [p \in Operators |-> NoCommand]
  /\ doc = [p \in Operators |-> Missing]
  /\ step = [p \in Operators |-> 0]
  /\ network = [p \in Operators |-> Missing]

\* The steps the script takes by itself.
Proceed(p) ==
  \/ Send(p) \/ Retry(p) \/ TimeOut(p) \/ Receive(p)
  \/ Collect(p) \/ LookUp(p) \/ AddTokenNetwork(p)
  \/ Truncate(p) \/ Write(p) \/ Verify(p) \/ Check(p)

Next ==
  \/ \E p \in Operators :
       \/ \E command \in CommandLines : Begin(p, command)
       \/ Proceed(p) \/ Crash(p) \/ Finish(p)
  \/ \E c \in Chains, p \in Operators : Mine(c, p)

Spec == Init /\ [][Next]_vars

\* The operating system runs the script, and the node answers.  Blocks are not
\* needed: a wait for a receipt times out.
FairSpec == Spec /\ \A p \in Operators : WF_vars(Proceed(p))

-----------------------------------------------------------------------------
(* Properties.                                                             *)

Entry == [address : Address, transaction_hash : [chain : Chains, from : Senders, nonce : Nat]]

TypeOK ==
  /\ \A c \in Chains, p \in Senders : \A i \in DOMAIN txs[c][p] :
       /\ txs[c][p][i].status \in {"pending", "mined", "spent", "reverted"}
       /\ txs[c][p][i].to \in Address
  /\ DOMAIN files = Paths \cup Released
  /\ at \in [Operators -> {"idle", "deploy", "refused", "wait", "collect", "lookup", "append",
                           "store", "write", "verify", "check", "done", "failed"}]
  /\ step \in [Operators -> 0 .. 5]
  /\ \A p \in Operators : IF at[p] = "idle" THEN step[p] = 0 /\ cmd[p] = NoCommand
                         ELSE cmd[p].name \in Commands

\* Whatever is stored, by commands that succeeded or failed, crashed or ran side
\* by side, and on whatever chain: a contract a deployment file lists was
\* deployed by the transaction it names, at the address and with the arguments
\* it gives.  (Receipts are awaited and checked before anything is remembered.)
FilesDescribeContracts ==
  \A path \in DOMAIN files : Readable(files[path]) =>
    \A name \in DOMAIN files[path].contracts :
      LET entry == files[path].contracts[name]
          c     == entry.transaction_hash.chain
      IN  /\ entry.address = address(entry.transaction_hash)
          /\ IsContract(c, entry.address, name)
          /\ Args(c, entry.address) = entry.constructor_arguments

RaidenWired(c, contracts) ==
  LET registry == contracts["TokenNetworkRegistry"].address
      secretRegistry == contracts["SecretRegistry"].address
  IN  /\ IsCurrent(c, registry, "TokenNetworkRegistry")
      /\ IsCurrent(c, secretRegistry, "SecretRegistry")
      /\ Args(c, registry)[1] = secretRegistry

ServicesWired(c, contracts) ==
  LET of(name) == contracts[name].address
      args(name) == Args(c, of(name))
  IN  /\ \A name \in ServiceContracts : IsCurrent(c, of(name), name)
      /\ \A name \in {"ServiceRegistry", "UserDeposit"} :
           args(name)[1] = args("MonitoringService")[1]
      /\ args("OneToN")[1] = of("UserDeposit") /\ args("OneToN")[3] = of("ServiceRegistry")
      /\ args("MonitoringService")[2] = of("ServiceRegistry")
      /\ args("MonitoringService")[3] = of("UserDeposit")
      /\ \A hash \in Calls(c, "init", of("UserDeposit")) :
           txs[c][hash.from][hash.nonce].args = <<of("MonitoringService"), of("OneToN")>>
      /\ Calls(c, "init", of("UserDeposit")) # {}

\* A command that reports success stands on contracts of its own chain, with
\* this version's code, that refer to each other: the registry gives its token
\* networks the recorded SecretRegistry; the services share one token, one
\* ServiceRegistry and one UserDeposit, which trusts exactly the recorded
\* MonitoringService and OneToN.  No check reads the chain of a raiden file, so
\* nothing is said of it.
SuccessMeansWired ==
  \A p \in Operators : at[p] = "done" =>
    CASE cmd[p].name = "services" -> ServicesWired(cmd[p].chain, doc[p].contracts)
      [] cmd[p].name = "token"    -> TRUE
      [] OTHER                    -> RaidenWired(cmd[p].chain, doc[p].contracts)

\* Every token network in a deployment file was created by the registry of that
\* file, with the arguments that are recorded, and each token occurs once, even
\* if commands fail halfway and are run again.
RecordedNetworksAreTrue ==
  \A path \in DOMAIN files : Readable(files[path]) =>
    LET document == files[path]
        networks == document.token_networks
    IN  \A i \in DOMAIN networks :
          /\ networks[i].token_network_address \in
               UNION {Networks(c, document.contracts["TokenNetworkRegistry"].address) :
                        c \in Chains}
          /\ NetworkArguments(networks[i].token_network_address) =
               networks[i].constructor_arguments
          /\ \A j \in DOMAIN networks \ {i} :
               networks[j].constructor_arguments.token #
                 networks[i].constructor_arguments.token

\* A register command that reports success has recorded the token network that
\* its own transaction created.
RegisteredIsRecorded ==
  \A p \in Operators : (at[p] = "done" /\ cmd[p].name = "register") =>
    \E i \in DOMAIN doc[p].token_networks :
      doc[p].token_networks[i].token_network_address = LastHash(p)

\* The files of a chain's modules can be merged: reading the deployment of all
\* modules fails only where a file is broken, or where chains without a name of
\* their own share the files and have saved one module each.
ModulesMerge ==
  \A c \in Chains :
    LET raiden   == files[contracts_deployed_path(c, "raiden")]
        services == files[contracts_deployed_path(c, "services")]
    IN  (/\ Corrupted \notin {raiden, services}
         /\ (Readable(raiden) /\ Readable(services)) => raiden.chain_id = services.chain_id)
        => get_contracts_deployment_info(files, c) # Corrupted

\* What the files say of contracts is so, and every reader can make use of it.
FilesAreSound == TypeOK /\ FilesDescribeContracts /\ ModulesMerge

\* What the files say of token networks is so, and what was registered is there.
NetworksAreRecorded == RecordedNetworksAreTrue /\ RegisteredIsRecorded

\* Again and again an operator has no command under way: every command ends,
\* whatever the chain does with its transactions, unless the node refuses a
\* deployment with -32015 for ever.  (The loop that asks for the token network
\* ends as well where register is given the registry in the file.)
Terminates ==
  \A p \in Operators :
    \/ []<>(at[p] = "idle" \/ Ended(p))
    \/ <>[](at[p] \in {"deploy", "refused"})
=============================================================================
