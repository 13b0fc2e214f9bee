--------------------------- MODULE SecretRegistry ---------------------------
(***************************************************************************)
(* The on-chain registry of hash time lock secrets (raiden/                *)
(* SecretRegistry.sol) and the clock it reads, block.timestamp.            *)
(*                                                                         *)
(* A secret and its sha256 hash determine one another here, so Secrethashes*)
(* stands for both.                                                        *)
(***************************************************************************)
EXTENDS Naturals

CONSTANTS
  Secrethashes,
  MaxTime          \* bound: the last timestamp of a behaviour

ASSUME MaxTimeIsNat == MaxTime \in Nat

VARIABLES
  timestamp,                 \* block.timestamp
  secrethash_to_timestamp    \* 0 until the secret is revealed

registryVars == <<timestamp, secrethash_to_timestamp>>

RegistryTypeOK ==
  /\ timestamp \in Nat \ {0}
  /\ secrethash_to_timestamp \in [Secrethashes -> Nat]

RegistryInit ==
  /\ timestamp = 1
  /\ secrethash_to_timestamp = [s \in Secrethashes |-> 0]

\* The reveal times once every secret of the set has been registered: the
\* first registration of a secret is the one that counts.
registered(secrets) ==
  [s \in Secrethashes |->
     IF s \in secrets /\ secrethash_to_timestamp[s] = 0
     THEN timestamp ELSE secrethash_to_timestamp[s]]

registerSecret(secret) ==
  /\ secrethash_to_timestamp' = registered({secret})
  /\ UNCHANGED timestamp

\* A batch is one transaction: all its secrets get the same timestamp, and
\* those already registered (or repeated in the batch) are passed over.
registerSecretBatch(secrets) ==
  /\ secrethash_to_timestamp' = registered(secrets)
  /\ UNCHANGED timestamp

getSecretRevealBlockTime(secrethash) == secrethash_to_timestamp[secrethash]

\* A new block.  Any number of transactions share a timestamp.
NewBlock ==
  /\ timestamp < MaxTime
  /\ timestamp' = timestamp + 1
  /\ UNCHANGED secrethash_to_timestamp
=============================================================================
