-------------------------- MODULE Package_proofs ----------------------------
(***************************************************************************)
(* Theorems about the package raiden_contracts: its deployment scripts,    *)
(* for any operators, chains, names of chains and bounds, and its other    *)
(* commands, for any sources, runners, accounts and plans.                 *)
(***************************************************************************)
EXTENDS Deployment, MCCommands, SequenceTheorems, WellFoundedInduction, Sums_proofs, TLAPS

(***************************************************************************)
(* The deployment.  What a transaction has done is never undone (Grown),   *)
(* and UserDeposit is initialised once (InitOnce), so a check that has     *)
(* passed stays true.  The rest of the invariant says what each command    *)
(* knows at each place it can be: what it has confirmed so far is what its *)
(* document lists, with the data of the transactions that are on the       *)
(* chain.                                                                  *)
(***************************************************************************)

\* What identifies a transaction: its chain, its sender and its nonce.
Hashes == [chain : Chains, from : Senders, nonce : Nat]

\* What a transaction's arguments are made of.
Argument ==
  Address \cup SettleTimeouts \cup {MaxTokenNetworks} \cup Tokens \cup Senders
    \cup Chains \cup Limits

TransactionRecords ==
  [name : ContractNames \cup {"init", "createERC20TokenNetwork"}, args : Seq(Argument),
   to : Address, code : {"current", "older"},
   status : {"pending", "mined", "spent", "reverted"}]

Ledgers == [Chains -> [Senders -> Seq(TransactionRecords)]]

\* A transaction may be mined, but stays what it is and is never undone.
Kept(t, u) ==
  /\ u.name = t.name /\ u.args = t.args /\ u.to = t.to /\ u.code = t.code
  /\ Executed(t) => Executed(u)

Grown(T, U) ==
  \A c \in Chains, q \in Senders :
    /\ Len(T[c][q]) <= Len(U[c][q])
    /\ \A i \in 1 .. Len(T[c][q]) : Kept(T[c][q][i], U[c][q][i])

\* The contract at address a of chain c, in the ledger T.
ContractIn(T, c, a, name) ==
  /\ a.nonce \in 1 .. Len(T[c][a.from])
  /\ Executed(T[c][a.from][a.nonce])
  /\ T[c][a.from][a.nonce].name = name

\* And it is of this version.
CurrentIn(T, c, a, name) ==
  ContractIn(T, c, a, name) /\ T[c][a.from][a.nonce].code = "current"

ArgsIn(T, c, a) == T[c][a.from][a.nonce].args

\* The executed calls of a method of the contract at address a.
CallsIn(T, c, name, a) ==
  {hash \in [chain : {c}, from : Senders, nonce : 1 .. MaxTxs] :
     /\ hash.nonce \in 1 .. Len(T[c][hash.from])
     /\ Executed(T[c][hash.from][hash.nonce])
     /\ T[c][hash.from][hash.nonce].name = name /\ T[c][hash.from][hash.nonce].to = a}

InitOnce(T) ==
  \A c \in Chains, a \in Address : \A g, h \in CallsIn(T, c, "init", a) : g = h

Entries == [address : Address, transaction_hash : Hashes, constructor_arguments : Seq(Argument)]

\* An entry of a document names the transaction that deployed its contract.
EntrySound(T, name, e) ==
  /\ e \in Entries /\ e.address = address(e.transaction_hash)
  /\ ContractIn(T, e.transaction_hash.chain, e.address, name)
  /\ ArgsIn(T, e.transaction_hash.chain, e.address) = e.constructor_arguments

DocumentSound(T, d) ==
  /\ DOMAIN d = {"chain_id", "contracts", "token_networks"} /\ d.chain_id \in Chains
  /\ DOMAIN d.contracts \subseteq ContractNames
  /\ \A name \in DOMAIN d.contracts : EntrySound(T, name, d.contracts[name])

ContractsOf(module) == IF module = "raiden" THEN RaidenContracts ELSE ServiceContracts

\* A deployment file holds all contracts of its module, on a chain of its name.
FileSound(T, path, d) ==
  /\ DocumentSound(T, d)
  /\ path \in Paths => /\ DOMAIN d.contracts = ContractsOf(path[2])
                       /\ ID_TO_CHAINNAME[d.chain_id] = path[1]

FilesSound(T, F) ==
  /\ DOMAIN F = Paths \cup Released
  /\ \A path \in DOMAIN F : Readable(F[path]) => FileSound(T, path, F[path])

CommandRecords ==
  RaidenCommands \cup OtherCommands
    \cup [name : {"services"}, chain : Chains, reuse : PathsOf("services"),
          save : SaveInfo, token : Tokens, registry : Address]
    \cup [name : {"register"}, chain : Chains, token : Tokens, limits : Limits,
          registry : Address]

\* The contracts a command has when n of its transactions are confirmed.
Confirmed(command, n) ==
  ({Plan(command)[i] : i \in 1 .. n} \cap ContractNames)
    \cup (IF Reuses(command) THEN {Reused(command)} ELSE {})

\* What verifying the deployment finds: the contracts refer to each other.
RaidenWiredIn(T, c, contracts) ==
  LET registry == contracts["TokenNetworkRegistry"].address
      secretRegistry == contracts["SecretRegistry"].address
  IN  /\ CurrentIn(T, c, registry, "TokenNetworkRegistry")
      /\ CurrentIn(T, c, secretRegistry, "SecretRegistry")
      /\ ArgsIn(T, c, registry)[1] = secretRegistry

ServicesWiredIn(T, c, contracts) ==
  LET of(name) == contracts[name].address
      args(name) == ArgsIn(T, c, of(name))
  IN  /\ \A name \in ServiceContracts : CurrentIn(T, c, of(name), name)
      /\ \A name \in {"ServiceRegistry", "UserDeposit"} :
           args(name)[1] = args("MonitoringService")[1]
      /\ args("OneToN")[1] = of("UserDeposit") /\ args("OneToN")[3] = of("ServiceRegistry")
      /\ args("MonitoringService")[2] = of("ServiceRegistry")
      /\ args("MonitoringService")[3] = of("UserDeposit")
      /\ \A hash \in CallsIn(T, c, "init", of("UserDeposit")) :
           T[c][hash.from][hash.nonce].args = <<of("MonitoringService"), of("OneToN")>>
      /\ CallsIn(T, c, "init", of("UserDeposit")) # {}

WiredIn(T, command, d) ==
  IF command.name = "services" THEN ServicesWiredIn(T, command.chain, d.contracts)
  ELSE RaidenWiredIn(T, command.chain, d.contracts)

Complete(T, command, d) ==
  DocumentSound(T, d) /\ DOMAIN d.contracts = ContractsOf(ModuleOf(command))

\* A command that deploys lists what is confirmed; its last transaction is the next
\* of its plan while it waits for it.
Deploying(T, p, place, command, d, n) ==
  /\ n < Len(Plan(command))
  /\ DocumentSound(T, d) /\ d.chain_id = command.chain
  /\ DOMAIN d.contracts = Confirmed(command, n)
  /\ place = "wait" =>
       LET sent == T[command.chain][p]
       IN  sent # <<>> /\ sent[Len(sent)].name = Plan(command)[n + 1]

\* What an operator's command knows at each place.
CommandSound(T, p, place, command, d, n) ==
  IF place = "idle" THEN command = NoCommand /\ n = 0
  ELSE /\ command \in CommandRecords /\ command.name \in Commands /\ n \in 0 .. 5
       /\ place \in {"deploy", "refused", "wait"} => Deploying(T, p, place, command, d, n)
       /\ place \in {"collect", "lookup", "append"} => command.name = "register"
       /\ place \in {"store", "write"} => FileSound(T, FileOf(command), d)
       /\ place = "check" => Complete(T, command, d)
       /\ place = "done" /\ command.name # "token" =>
            Complete(T, command, d) /\ WiredIn(T, command, d)

Places == {"idle", "deploy", "refused", "wait", "collect", "lookup", "append",
           "store", "write", "verify", "check", "done", "failed"}

DeploymentInv ==
  /\ txs \in Ledgers /\ InitOnce(txs)
  /\ FilesSound(txs, files)
  /\ at \in [Operators -> Places]
  /\ DOMAIN cmd = Operators /\ DOMAIN doc = Operators
  /\ step = [q \in Operators |-> step[q]]
  /\ \A p \in Operators : CommandSound(txs, p, at[p], cmd[p], doc[p], step[p])
-----------------------------------------------------------------------------

(***************************************************************************)
(* What has been mined stays as it is.                                     *)
(***************************************************************************)
LEMMA ContractStays ==
  ASSUME NEW T \in Ledgers, NEW U \in Ledgers, Grown(T, U),
         NEW c \in Chains, NEW a \in Address, NEW name, ContractIn(T, c, a, name)
  PROVE  /\ ContractIn(U, c, a, name)
         /\ ArgsIn(U, c, a) = ArgsIn(T, c, a)
         /\ CurrentIn(T, c, a, name) => CurrentIn(U, c, a, name)
<1>1. a.from \in Senders /\ a.nonce \in Nat
  BY DEF Address
<1>2. /\ Len(T[c][a.from]) \in Nat /\ Len(U[c][a.from]) \in Nat
      /\ Len(T[c][a.from]) <= Len(U[c][a.from])
      /\ a.nonce \in 1 .. Len(T[c][a.from])
      /\ Kept(T[c][a.from][a.nonce], U[c][a.from][a.nonce])
  BY <1>1 DEF Grown, ContractIn, Ledgers
<1>3. a.nonce \in 1 .. Len(U[c][a.from])
  BY <1>2
<1>. QED BY <1>2, <1>3 DEF ContractIn, CurrentIn, ArgsIn, Kept

LEMMA EntryStays ==
  ASSUME NEW T \in Ledgers, NEW U \in Ledgers, Grown(T, U), NEW name, NEW e,
         EntrySound(T, name, e)
  PROVE  EntrySound(U, name, e)
<1>1. e.transaction_hash.chain \in Chains /\ e.address \in Address
  BY DEF EntrySound, Entries, Hashes
<1>. QED BY <1>1, ContractStays DEF EntrySound

LEMMA DocumentStays ==
  ASSUME NEW T \in Ledgers, NEW U \in Ledgers, Grown(T, U), NEW d, DocumentSound(T, d)
  PROVE  DocumentSound(U, d)
BY EntryStays DEF DocumentSound

LEMMA FileStays ==
  ASSUME NEW T \in Ledgers, NEW U \in Ledgers, Grown(T, U), NEW path, NEW d,
         FileSound(T, path, d)
  PROVE  FileSound(U, path, d)
BY DocumentStays DEF FileSound

LEMMA FilesStay ==
  ASSUME NEW T \in Ledgers, NEW U \in Ledgers, Grown(T, U), NEW F, FilesSound(T, F)
  PROVE  FilesSound(U, F)
BY FileStays DEF FilesSound

LEMMA CallsStay ==
  ASSUME NEW T \in Ledgers, NEW U \in Ledgers, Grown(T, U),
         NEW c \in Chains, NEW name, NEW a
  PROVE  /\ CallsIn(T, c, name, a) \subseteq CallsIn(U, c, name, a)
         /\ \A hash \in CallsIn(T, c, name, a) :
              U[c][hash.from][hash.nonce].args = T[c][hash.from][hash.nonce].args
<1> SUFFICES ASSUME NEW hash \in CallsIn(T, c, name, a)
    PROVE  /\ hash \in CallsIn(U, c, name, a)
           /\ U[c][hash.from][hash.nonce].args = T[c][hash.from][hash.nonce].args
  OBVIOUS
<1>1. /\ hash \in [chain : {c}, from : Senders, nonce : 1 .. MaxTxs]
      /\ hash.nonce \in 1 .. Len(T[c][hash.from])
      /\ Executed(T[c][hash.from][hash.nonce])
      /\ T[c][hash.from][hash.nonce].name = name /\ T[c][hash.from][hash.nonce].to = a
  BY DEF CallsIn
<1>2. hash.from \in Senders
  BY <1>1
<1>3. /\ Len(T[c][hash.from]) \in Nat /\ Len(U[c][hash.from]) \in Nat
      /\ Len(T[c][hash.from]) <= Len(U[c][hash.from])
      /\ Kept(T[c][hash.from][hash.nonce], U[c][hash.from][hash.nonce])
  BY <1>1, <1>2 DEF Grown, Ledgers
<1>4. hash.nonce \in 1 .. Len(U[c][hash.from])
  BY <1>1, <1>3
<1>. QED BY <1>1, <1>3, <1>4 DEF CallsIn, Kept

\* The contracts a complete document lists have addresses.
LEMMA CompleteAddresses ==
  ASSUME NEW T, NEW command, NEW d, Complete(T, command, d), NEW name \in ContractsOf(ModuleOf(command))
  PROVE  d.contracts[name].address \in Address
BY DEF Complete, DocumentSound, EntrySound, Entries

LEMMA WiredStays ==
  ASSUME NEW T \in Ledgers, NEW U \in Ledgers, Grown(T, U), InitOnce(U),
         NEW command \in CommandRecords, NEW d,
         Complete(T, command, d), WiredIn(T, command, d)
  PROVE  WiredIn(U, command, d)
<1> DEFINE c == command.chain
           of(name) == d.contracts[name].address
<1>1. c \in Chains
  BY DEF CommandRecords, RaidenCommands, OtherCommands
<1>2. CASE command.name = "services"
  <2>1. \A name \in ServiceContracts : of(name) \in Address
    BY <1>2, CompleteAddresses DEF ContractsOf, ModuleOf
  <2>2. \A name \in ServiceContracts :
          /\ CurrentIn(U, c, of(name), name)
          /\ ArgsIn(U, c, of(name)) = ArgsIn(T, c, of(name))
    BY <1>1, <1>2, <2>1, ContractStays DEF WiredIn, ServicesWiredIn, CurrentIn
  <2>3. "UserDeposit" \in ServiceContracts /\ "MonitoringService" \in ServiceContracts
        /\ "OneToN" \in ServiceContracts /\ "ServiceRegistry" \in ServiceContracts
    BY DEF ServiceContracts
  <2>4. CallsIn(U, c, "init", of("UserDeposit")) = CallsIn(T, c, "init", of("UserDeposit"))
    <3>1. CallsIn(T, c, "init", of("UserDeposit")) # {}
      BY <1>2 DEF WiredIn, ServicesWiredIn
    <3>2. CallsIn(T, c, "init", of("UserDeposit")) \subseteq CallsIn(U, c, "init", of("UserDeposit"))
      BY <1>1, CallsStay
    <3>3. \A g, h \in CallsIn(U, c, "init", of("UserDeposit")) : g = h
      BY <1>1, <2>1, <2>3 DEF InitOnce
    <3>. QED BY <3>1, <3>2, <3>3
  <2>5. \A hash \in CallsIn(U, c, "init", of("UserDeposit")) :
          U[c][hash.from][hash.nonce].args = <<of("MonitoringService"), of("OneToN")>>
    <3>1. \A hash \in CallsIn(T, c, "init", of("UserDeposit")) :
            T[c][hash.from][hash.nonce].args = <<of("MonitoringService"), of("OneToN")>>
      BY <1>2 DEF WiredIn, ServicesWiredIn
    <3>2. \A hash \in CallsIn(T, c, "init", of("UserDeposit")) :
            U[c][hash.from][hash.nonce].args = T[c][hash.from][hash.nonce].args
      BY <1>1, CallsStay
    <3>. QED BY <2>4, <3>1, <3>2
  <2>6. ServicesWiredIn(U, c, d.contracts)
    BY <1>2, <2>2, <2>3, <2>4, <2>5 DEF WiredIn, ServicesWiredIn
  <2>. QED BY <1>2, <2>6 DEF WiredIn
<1>3. CASE command.name # "services"
  <2>1. of("TokenNetworkRegistry") \in Address /\ of("SecretRegistry") \in Address
    BY <1>3, CompleteAddresses DEF ContractsOf, ModuleOf, RaidenContracts
  <2>. QED BY <1>1, <1>3, <2>1, ContractStays DEF WiredIn, RaidenWiredIn, CurrentIn
<1>. QED BY <1>2, <1>3

LEMMA CommandStays ==
  ASSUME NEW T \in Ledgers, NEW U \in Ledgers, Grown(T, U), InitOnce(U),
         NEW p \in Operators, NEW place, NEW command, NEW d, NEW n,
         CommandSound(T, p, place, command, d, n),
         place = "wait" => Len(U[command.chain][p]) = Len(T[command.chain][p])
  PROVE  CommandSound(U, p, place, command, d, n)
<1> SUFFICES ASSUME place # "idle" PROVE CommandSound(U, p, place, command, d, n)
  BY DEF CommandSound
<1>1. command \in CommandRecords /\ command.name \in Commands /\ n \in 0 .. 5
  BY DEF CommandSound
<1>2. ASSUME place \in {"deploy", "refused", "wait"} PROVE Deploying(U, p, place, command, d, n)
  <2>1. Deploying(T, p, place, command, d, n)
    BY <1>2 DEF CommandSound
  <2>2. DocumentSound(U, d)
    BY <2>1, DocumentStays DEF Deploying
  <2>3. ASSUME place = "wait"
        PROVE  LET sent == U[command.chain][p]
               IN  sent # <<>> /\ sent[Len(sent)].name = Plan(command)[n + 1]
    <3> DEFINE old == T[command.chain][p]
               new == U[command.chain][p]
    <3>1. old # <<>> /\ old[Len(old)].name = Plan(command)[n + 1]
      BY <2>1, <2>3 DEF Deploying
    <3>2. command.chain \in Chains /\ p \in Senders
      BY <1>1 DEF CommandRecords, RaidenCommands, OtherCommands, Senders
    <3>3. old \in Seq(TransactionRecords) /\ new \in Seq(TransactionRecords)
      BY <3>2 DEF Ledgers
    <3>4. Len(old) \in Nat /\ Len(old) > 0 /\ Len(new) = Len(old)
      BY <2>3, <3>1, <3>3
    <3>5. Kept(old[Len(old)], new[Len(old)])
      BY <3>2, <3>4 DEF Grown
    <3>. QED BY <3>1, <3>3, <3>4, <3>5 DEF Kept
  <2>. QED BY <2>1, <2>2, <2>3 DEF Deploying
<1>3. place \in {"collect", "lookup", "append"} => command.name = "register"
  BY DEF CommandSound
<1>4. place \in {"store", "write"} => FileSound(U, FileOf(command), d)
  BY FileStays DEF CommandSound
<1>5. ASSUME Complete(T, command, d) PROVE Complete(U, command, d)
  BY <1>5, DocumentStays DEF Complete
<1>6. place = "check" => Complete(U, command, d)
  BY <1>5 DEF CommandSound
<1>7. place = "done" /\ command.name # "token" =>
        Complete(U, command, d) /\ WiredIn(U, command, d)
  BY <1>1, <1>5, WiredStays DEF CommandSound
<1>. QED BY <1>1, <1>2, <1>3, <1>4, <1>6, <1>7 DEF CommandSound

(***************************************************************************)
(* The two ways a ledger grows.                                            *)
(***************************************************************************)
LEMMA GrownReflexive ==
  ASSUME NEW T \in Ledgers PROVE Grown(T, T)
<1> SUFFICES ASSUME NEW c \in Chains, NEW q \in Senders
    PROVE  Len(T[c][q]) <= Len(T[c][q])
  BY DEF Grown, Kept
<1>1. Len(T[c][q]) \in Nat
  BY DEF Ledgers
<1>. QED BY <1>1

\* A transaction is appended.
Appended(T, U, b, p, tx) == U = [T EXCEPT ![b] = [T[b] EXCEPT ![p] = Append(T[b][p], tx)]]

LEMMA SendGrows ==
  ASSUME NEW T \in Ledgers, NEW b \in Chains, NEW p \in Senders,
         NEW tx \in TransactionRecords, ~Executed(tx),
         NEW U, Appended(T, U, b, p, tx)
  PROVE  /\ U \in Ledgers /\ Grown(T, U)
         /\ \A c \in Chains, q \in Senders : c # b \/ q # p => U[c][q] = T[c][q]
         /\ U[b][p] # <<>> /\ U[b][p][Len(U[b][p])] = tx
         /\ \A c \in Chains : \A name, a : CallsIn(U, c, name, a) = CallsIn(T, c, name, a)
<1> DEFINE old == T[b][p]
           new == Append(old, tx)
<1>1. /\ old \in Seq(TransactionRecords) /\ new \in Seq(TransactionRecords)
      /\ Len(old) \in Nat /\ Len(new) = Len(old) + 1
      /\ new[Len(new)] = tx /\ \A i \in 1 .. Len(old) : new[i] = old[i]
  BY DEF Ledgers
<1>2. /\ U \in Ledgers
      /\ \A c \in Chains, q \in Senders :
           U[c][q] = IF c = b /\ q = p THEN new ELSE T[c][q]
  BY <1>1 DEF Ledgers, Appended
<1>. HIDE DEF old, new
<1>3. T[b][p] = old /\ U[b][p] = new
  BY <1>2 DEF old
<1>4. \A c \in Chains, q \in Senders : c # b \/ q # p => U[c][q] = T[c][q]
  BY <1>2
<1>5. ASSUME NEW c \in Chains, NEW q \in Senders
      PROVE  /\ Len(T[c][q]) \in Nat /\ Len(U[c][q]) \in Nat
             /\ Len(T[c][q]) <= Len(U[c][q])
             /\ \A i \in 1 .. Len(T[c][q]) : U[c][q][i] = T[c][q][i]
             /\ \A i \in 1 .. Len(U[c][q]) : i \in 1 .. Len(T[c][q]) \/ U[c][q][i] = tx
  <2>1. CASE c = b /\ q = p
    BY <1>1, <1>3, <2>1
  <2>2. CASE ~(c = b /\ q = p)
    <3>1. U[c][q] = T[c][q] /\ Len(T[c][q]) \in Nat
      BY <1>4, <2>2 DEF Ledgers
    <3>. QED BY <3>1
  <2>. QED BY <2>1, <2>2
<1>6. Grown(T, U)
  BY <1>5 DEF Grown, Kept
<1>7. ASSUME NEW c \in Chains, NEW name, NEW a
      PROVE  CallsIn(U, c, name, a) = CallsIn(T, c, name, a)
  <2>1. ASSUME NEW hash \in [chain : {c}, from : Senders, nonce : 1 .. MaxTxs]
        PROVE  hash \in CallsIn(U, c, name, a) <=> hash \in CallsIn(T, c, name, a)
    <3>1. hash.from \in Senders
      OBVIOUS
    <3>2. /\ Len(T[c][hash.from]) \in Nat /\ Len(U[c][hash.from]) \in Nat
          /\ Len(T[c][hash.from]) <= Len(U[c][hash.from])
          /\ \A i \in 1 .. Len(T[c][hash.from]) : U[c][hash.from][i] = T[c][hash.from][i]
          /\ \A i \in 1 .. Len(U[c][hash.from]) :
               i \in 1 .. Len(T[c][hash.from]) \/ U[c][hash.from][i] = tx
      BY <1>5, <3>1
    <3>. QED BY <3>2 DEF CallsIn
  <2>. QED BY <2>1 DEF CallsIn
<1>8. new # <<>>
  BY <1>1
<1>. QED BY <1>1, <1>2, <1>3, <1>4, <1>6, <1>7, <1>8

\* A transaction is mined, or reverted.
MinedAs(T, U, b, p, k, status) ==
  /\ b \in Chains /\ p \in Senders /\ k \in 1 .. Len(T[b][p])
  /\ status \in {"mined", "spent", "reverted"} /\ T[b][p][k].status = "pending"
  /\ U = [T EXCEPT ![b] = [T[b] EXCEPT ![p] =
        [T[b][p] EXCEPT ![k] = [T[b][p][k] EXCEPT !.status = status]]]]

\* T and U differ at most in the transaction k that p has sent to b.
SameElsewhere(T, U, b, p, k) ==
  \A c \in Chains, q \in Senders :
    /\ Len(U[c][q]) = Len(T[c][q])
    /\ \A i \in 1 .. Len(T[c][q]) : c # b \/ q # p \/ i # k => U[c][q][i] = T[c][q][i]

LEMMA MineGrows ==
  ASSUME NEW T \in Ledgers, NEW U, NEW b, NEW p, NEW k, NEW status,
         MinedAs(T, U, b, p, k, status)
  PROVE  /\ U \in Ledgers /\ Grown(T, U)
         /\ SameElsewhere(T, U, b, p, k)
         /\ U[b][p][k] = [T[b][p][k] EXCEPT !.status = status]
<1> DEFINE old == T[b][p]
           tx == [old[k] EXCEPT !.status = status]
           new == [old EXCEPT ![k] = tx]
<1>0. /\ b \in Chains /\ p \in Senders /\ k \in 1 .. Len(T[b][p])
      /\ status \in {"mined", "spent", "reverted"} /\ T[b][p][k].status = "pending"
  BY DEF MinedAs
<1>1. old \in Seq(TransactionRecords) /\ old[k] \in TransactionRecords /\ Len(old) \in Nat
  BY <1>0 DEF Ledgers
<1>2. /\ tx \in TransactionRecords /\ tx.name = old[k].name /\ tx.args = old[k].args
      /\ tx.to = old[k].to /\ tx.code = old[k].code /\ ~Executed(old[k])
  BY <1>0, <1>1 DEF TransactionRecords, Executed
<1>. HIDE DEF tx
<1>3. /\ new \in Seq(TransactionRecords) /\ Len(new) = Len(old) /\ new[k] = tx
      /\ \A i \in 1 .. Len(old) : i # k => new[i] = old[i]
  BY <1>0, <1>1, <1>2
<1>. HIDE DEF new
<1>4. /\ U \in Ledgers
      /\ \A c \in Chains, q \in Senders :
           U[c][q] = IF c = b /\ q = p THEN new ELSE T[c][q]
  BY <1>0, <1>3 DEF Ledgers, new, tx, MinedAs
<1>5. T[b][p] = old /\ U[b][p] = new
  BY <1>0, <1>4
<1>. HIDE DEF old
<1>6. ASSUME NEW c \in Chains, NEW q \in Senders
      PROVE  /\ Len(T[c][q]) \in Nat /\ Len(U[c][q]) = Len(T[c][q])
             /\ \A i \in 1 .. Len(T[c][q]) :
                  /\ Kept(T[c][q][i], U[c][q][i])
                  /\ (c # b \/ q # p \/ i # k) => U[c][q][i] = T[c][q][i]
  <2>1. CASE c = b /\ q = p
    <3>1. T[c][q] = old /\ U[c][q] = new
      BY <1>5, <2>1
    <3>2. ASSUME NEW i \in 1 .. Len(old)
          PROVE  Kept(old[i], new[i]) /\ (i # k => new[i] = old[i])
      BY <1>2, <1>3 DEF Kept
    <3>. QED BY <1>1, <1>3, <2>1, <3>1, <3>2
  <2>2. CASE ~(c = b /\ q = p)
    <3>1. U[c][q] = T[c][q] /\ Len(T[c][q]) \in Nat
      BY <1>4, <2>2 DEF Ledgers
    <3>. QED BY <3>1 DEF Kept
  <2>. QED BY <2>1, <2>2
<1>7. Grown(T, U)
  BY <1>6 DEF Grown
<1>8. U[b][p][k] = [T[b][p][k] EXCEPT !.status = status]
  BY <1>0, <1>3, <1>5 DEF tx, old
<1>9. SameElsewhere(T, U, b, p, k)
  BY <1>6 DEF SameElsewhere
<1>. QED BY <1>4, <1>7, <1>8, <1>9

(***************************************************************************)
(* The plans of the commands.                                              *)
(***************************************************************************)
LEMMA CommandFields ==
  ASSUME NEW command \in CommandRecords
  PROVE  /\ command.chain \in Chains
         /\ command.name \in {"raiden", "services", "register", "verify", "token"}
         /\ command.name = "raiden" => command.settle \in SettleTimeouts
         /\ command.name \in {"services", "register"} =>
              command.token \in Tokens /\ command.registry \in Address
         /\ command.name = "register" => command.limits \in Limits
         /\ command.name \in {"raiden", "services"} =>
              command.reuse \in PathsOf(ModuleOf(command))
BY DEF CommandRecords, RaidenCommands, OtherCommands, ModuleOf

LEMMA PutBefore ==
  ASSUME NEW x, NEW a, NEW b, NEW c, NEW d
  PROVE  /\ <<x>> \o <<a>> = <<x, a>>
         /\ <<x>> \o <<a, b, c, d>> = <<x, a, b, c, d>>
<1> DEFINE S == {x, a, b, c, d}
           r == <<x>> \o <<a>>
           s == <<x>> \o <<a, b, c, d>>
<1>1. <<x>> \in Seq(S) /\ <<a>> \in Seq(S) /\ <<a, b, c, d>> \in Seq(S)
  OBVIOUS
<1>2. /\ r \in Seq(S) /\ Len(r) = 2 /\ r[1] = x /\ r[2] = a
  BY <1>1, ConcatProperties
<1>3. /\ s \in Seq(S) /\ Len(s) = 5
      /\ s[1] = x /\ s[2] = a /\ s[3] = b /\ s[4] = c /\ s[5] = d
  BY <1>1, ConcatProperties
<1>. HIDE DEF r, s
<1>4. r = <<x, a>>
  BY <1>2
<1>5. s = <<x, a, b, c, d>>
  BY <1>3
<1>. QED BY <1>4, <1>5 DEF r, s

LEMMA Plans ==
  ASSUME NEW command
  PROVE  /\ command.name = "raiden" =>
              Plan(command) = IF Reuses(command) THEN <<"TokenNetworkRegistry">>
                              ELSE <<"SecretRegistry", "TokenNetworkRegistry">>
         /\ command.name = "services" =>
              Plan(command) =
                IF Reuses(command)
                THEN <<"UserDeposit", "MonitoringService", "OneToN", "init">>
                ELSE <<"ServiceRegistry", "UserDeposit", "MonitoringService", "OneToN", "init">>
         /\ command.name = "register" => Plan(command) = <<"createERC20TokenNetwork">>
         /\ command.name = "token" => Plan(command) = <<"CustomToken">>
         /\ command.name = "verify" => Plan(command) = <<>>
<1> DEFINE raiden == <<"TokenNetworkRegistry">>
           services == <<"UserDeposit", "MonitoringService", "OneToN", "init">>
<1>0. raiden \in Seq(ContractNames \cup {"init"}) /\ services \in Seq(ContractNames \cup {"init"})
  BY DEF ContractNames, RaidenContracts, ServiceContracts
<1>1. <<>> \o raiden = raiden /\ <<>> \o services = services
  BY <1>0, ConcatSimplifications
<1>2. /\ <<"SecretRegistry">> \o raiden = <<"SecretRegistry", "TokenNetworkRegistry">>
      /\ <<"ServiceRegistry">> \o services
           = <<"ServiceRegistry", "UserDeposit", "MonitoringService", "OneToN", "init">>
  BY <1>0, PutBefore
<1>3. ASSUME command.name = "raiden"
      PROVE  Plan(command) = IF Reuses(command) THEN <<"TokenNetworkRegistry">>
                             ELSE <<"SecretRegistry", "TokenNetworkRegistry">>
  <2>1. Plan(command) =
          (IF Reuses(command) THEN <<>> ELSE <<"SecretRegistry">>) \o raiden
    BY <1>3 DEF Plan
  <2>. QED BY <1>1, <1>2, <2>1
<1>4. ASSUME command.name = "services"
      PROVE  Plan(command) =
               IF Reuses(command)
               THEN <<"UserDeposit", "MonitoringService", "OneToN", "init">>
               ELSE <<"ServiceRegistry", "UserDeposit", "MonitoringService", "OneToN", "init">>
  <2>1. Plan(command) =
          (IF Reuses(command) THEN <<>> ELSE <<"ServiceRegistry">>) \o services
    BY <1>4 DEF Plan
  <2>. QED BY <1>1, <1>2, <2>1
<1>5. /\ command.name = "register" => Plan(command) = <<"createERC20TokenNetwork">>
      /\ command.name = "token" => Plan(command) = <<"CustomToken">>
      /\ command.name = "verify" => Plan(command) = <<>>
  BY DEF Plan
<1>. QED BY <1>3, <1>4, <1>5

LEMMA PlanNotEmpty ==
  ASSUME NEW command, command.name \in {"raiden", "services", "register", "token"}
  PROVE  0 < Len(Plan(command))
<1>1. ASSUME command.name = "raiden" PROVE Len(Plan(command)) \in {1, 2}
  <2>1. \/ Plan(command) = <<"TokenNetworkRegistry">>
        \/ Plan(command) = <<"SecretRegistry", "TokenNetworkRegistry">>
    BY <1>1, Plans
  <2>. QED BY <2>1
<1>2. ASSUME command.name = "services" PROVE Len(Plan(command)) \in {4, 5}
  <2>1. \/ Plan(command) = <<"UserDeposit", "MonitoringService", "OneToN", "init">>
        \/ Plan(command) =
             <<"ServiceRegistry", "UserDeposit", "MonitoringService", "OneToN", "init">>
    BY <1>2, Plans
  <2>. QED BY <2>1
<1>3. ASSUME command.name \in {"register", "token"} PROVE Len(Plan(command)) = 1
  <2>1. Plan(command) \in {<<"createERC20TokenNetwork">>, <<"CustomToken">>}
    BY <1>3, Plans
  <2>. QED BY <2>1
<1>. QED BY <1>1, <1>2, <1>3

\* The contracts that the transaction name refers to.
Needed(name) ==
  CASE name = "TokenNetworkRegistry" -> {"SecretRegistry"}
    [] name \in {"MonitoringService", "OneToN"} -> {"ServiceRegistry", "UserDeposit"}
    [] name = "init" -> {"UserDeposit", "MonitoringService", "OneToN"}
    [] OTHER -> {}

\* Which command sends the transaction name.
SentBy(name) ==
  IF name \in RaidenContracts THEN "raiden"
  ELSE IF name \in ServiceContracts \cup {"init"} THEN "services"
  ELSE IF name = "createERC20TokenNetwork" THEN "register"
  ELSE "token"

LEMMA PlanLength ==
  ASSUME NEW command \in CommandRecords
  PROVE  Len(Plan(command)) \in 0 .. 5
<1>1. CASE command.name = "raiden"
  BY <1>1, Plans
<1>2. CASE command.name = "services"
  BY <1>2, Plans
<1>3. CASE command.name \in {"register", "token", "verify"}
  BY <1>3, Plans
<1>. QED BY <1>1, <1>2, <1>3, CommandFields

LEMMA PlanStep ==
  ASSUME NEW command \in CommandRecords, NEW n \in Nat, n < Len(Plan(command)),
         NEW name, name = Plan(command)[n + 1]
  PROVE  /\ name \in ContractNames \cup {"init", "createERC20TokenNetwork"}
         /\ command.name = SentBy(name)
         /\ Needed(name) \subseteq Confirmed(command, n)
<1> USE DEF Confirmed, Reused
<1>1. CASE command.name = "raiden"
  <2>1. CASE Reuses(command)
    <3>1. n = 0 /\ name = "TokenNetworkRegistry"
      BY <1>1, <2>1, Plans
    <3>2. "SecretRegistry" \in Confirmed(command, n)
      BY <1>1, <2>1
    <3>3. Needed(name) \subseteq Confirmed(command, n)
      BY <3>1, <3>2 DEF Needed
    <3>. QED BY <1>1, <3>1, <3>3 DEF ContractNames, RaidenContracts, SentBy
  <2>2. CASE ~Reuses(command)
    <3>1. /\ n = 0 => name = "SecretRegistry"
          /\ n > 0 => n = 1 /\ name = "TokenNetworkRegistry" /\ Plan(command)[1] = "SecretRegistry"
          /\ n = 0 \/ n > 0
      BY <1>1, <2>2, Plans
    <3>2. n = 1 => "SecretRegistry" \in Confirmed(command, n)
      BY <3>1 DEF ContractNames, RaidenContracts
    <3>3. Needed(name) \subseteq Confirmed(command, n)
      BY <3>1, <3>2 DEF Needed
    <3>. QED BY <1>1, <3>1, <3>3 DEF ContractNames, RaidenContracts, SentBy
  <2>. QED BY <2>1, <2>2
<1>2. CASE command.name = "services"
  <2>1. CASE Reuses(command)
    <3>1. /\ Plan(command)[1] = "UserDeposit" /\ Plan(command)[2] = "MonitoringService"
          /\ Plan(command)[3] = "OneToN" /\ Plan(command)[4] = "init"
          /\ n \in 0 .. 3
      BY <1>2, <2>1, Plans
    <3>2. name \in ServiceContracts \cup {"init"}
      BY <3>1 DEF ServiceContracts
    <3>3. Needed(name) \subseteq Confirmed(command, n)
      <4>1. CASE n = 0
        BY <3>1, <4>1 DEF Needed
      <4>2. CASE n = 1
        BY <1>2, <2>1, <3>1, <4>2 DEF Needed, ContractNames, ServiceContracts
      <4>3. CASE n = 2
        BY <1>2, <2>1, <3>1, <4>3 DEF Needed, ContractNames, ServiceContracts
      <4>4. CASE n = 3
        BY <1>2, <2>1, <3>1, <4>4 DEF Needed, ContractNames, ServiceContracts
      <4>. QED BY <3>1, <4>1, <4>2, <4>3, <4>4
    <3>. QED BY <1>2, <3>2, <3>3 DEF SentBy, ContractNames, ServiceContracts, RaidenContracts
  <2>2. CASE ~Reuses(command)
    <3>1. /\ Plan(command)[1] = "ServiceRegistry" /\ Plan(command)[2] = "UserDeposit"
          /\ Plan(command)[3] = "MonitoringService" /\ Plan(command)[4] = "OneToN"
          /\ Plan(command)[5] = "init" /\ n \in 0 .. 4
      BY <1>2, <2>2, Plans
    <3>2. name \in ServiceContracts \cup {"init"}
      BY <3>1 DEF ServiceContracts
    <3>3. Needed(name) \subseteq Confirmed(command, n)
      <4>1. CASE n = 0
        BY <3>1, <4>1 DEF Needed
      <4>2. CASE n = 1
        BY <3>1, <4>2 DEF Needed
      <4>3. CASE n = 2
        BY <3>1, <4>3 DEF Needed, ContractNames, ServiceContracts
      <4>4. CASE n = 3
        BY <3>1, <4>4 DEF Needed, ContractNames, ServiceContracts
      <4>5. CASE n = 4
        BY <3>1, <4>5 DEF Needed, ContractNames, ServiceContracts
      <4>. QED BY <3>1, <4>1, <4>2, <4>3, <4>4, <4>5
    <3>. QED BY <1>2, <3>2, <3>3 DEF SentBy, ContractNames, ServiceContracts, RaidenContracts
  <2>. QED BY <2>1, <2>2
<1>3. CASE command.name = "register"
  <2>1. n = 0 /\ name = "createERC20TokenNetwork"
    BY <1>3, Plans
  <2>. QED BY <1>3, <2>1 DEF SentBy, Needed, RaidenContracts, ServiceContracts
<1>4. CASE command.name = "token"
  <2>1. n = 0 /\ name = "CustomToken"
    BY <1>4, Plans
  <2>. QED BY <1>4, <2>1 DEF SentBy, Needed, RaidenContracts, ServiceContracts, ContractNames
<1>5. CASE command.name = "verify"
  BY <1>5, Plans
<1>. QED BY <1>1, <1>2, <1>3, <1>4, <1>5, CommandFields

\* A confirmed contract is added to those that are known,
LEMMA ConfirmedNext ==
  ASSUME NEW command, NEW n \in Nat, NEW name, name = Plan(command)[n + 1]
  PROVE  Confirmed(command, n + 1) =
           IF name \in ContractNames THEN Confirmed(command, n) \cup {name}
           ELSE Confirmed(command, n)
<1>1. 1 .. (n + 1) = (1 .. n) \cup {n + 1}
  OBVIOUS
<1>2. {Plan(command)[i] : i \in 1 .. (n + 1)} = {Plan(command)[i] : i \in 1 .. n} \cup {name}
  BY <1>1
<1>. QED BY <1>2 DEF Confirmed

\* and the last one completes the module.
LEMMA ConfirmedAll ==
  ASSUME NEW command, command.name \in {"raiden", "services"}
  PROVE  Confirmed(command, Len(Plan(command))) = ContractsOf(ModuleOf(command))
<1> USE DEF Confirmed, ContractsOf, ModuleOf, Reused
<1>1. CASE command.name = "raiden"
  <2>1. CASE Reuses(command)
    <3>1. Len(Plan(command)) = 1 /\ Plan(command)[1] = "TokenNetworkRegistry" /\ 1 .. 1 = {1}
      BY <1>1, <2>1, Plans
    <3>. QED BY <1>1, <2>1, <3>1 DEF ContractNames, RaidenContracts
  <2>2. CASE ~Reuses(command)
    <3>1. /\ Len(Plan(command)) = 2 /\ Plan(command)[1] = "SecretRegistry"
          /\ Plan(command)[2] = "TokenNetworkRegistry" /\ 1 .. 2 = {1, 2}
      BY <1>1, <2>2, Plans
    <3>. QED BY <1>1, <2>2, <3>1 DEF ContractNames, RaidenContracts
  <2>. QED BY <2>1, <2>2
<1>2. CASE command.name = "services"
  <2>1. CASE Reuses(command)
    <3>1. /\ Plan(command)[1] = "UserDeposit" /\ Plan(command)[2] = "MonitoringService"
          /\ Plan(command)[3] = "OneToN" /\ Plan(command)[4] = "init"
          /\ Len(Plan(command)) = 4 /\ 1 .. 4 = {1, 2, 3, 4}
      BY <1>2, <2>1, Plans
    <3>. QED BY <1>2, <2>1, <3>1 DEF ContractNames, ServiceContracts, RaidenContracts
  <2>2. CASE ~Reuses(command)
    <3>1. /\ Plan(command)[1] = "ServiceRegistry" /\ Plan(command)[2] = "UserDeposit"
          /\ Plan(command)[3] = "MonitoringService" /\ Plan(command)[4] = "OneToN"
          /\ Plan(command)[5] = "init"
          /\ Len(Plan(command)) = 5 /\ 1 .. 5 = {1, 2, 3, 4, 5}
      BY <1>2, <2>2, Plans
    <3>. QED BY <1>2, <2>2, <3>1 DEF ContractNames, ServiceContracts, RaidenContracts
  <2>. QED BY <2>1, <2>2
<1>. QED BY <1>1, <1>2

\* What a command sends is a transaction, and not yet carried out.
LEMMA SentTransaction ==
  ASSUME NEW T, NEW p \in Operators, NEW command \in CommandRecords, NEW d, NEW n \in Nat,
         n < Len(Plan(command)), DocumentSound(T, d),
         DOMAIN d.contracts = Confirmed(command, n),
         NEW name, name = Plan(command)[n + 1], NEW tx, tx = Transaction(command, d, name, p)
  PROVE  tx \in TransactionRecords /\ ~Executed(tx) /\ tx.name = name
<1>1. /\ name \in ContractNames \cup {"init", "createERC20TokenNetwork"}
      /\ command.name = SentBy(name) /\ Needed(name) \subseteq DOMAIN d.contracts
  BY PlanStep
<1>2. \A contract \in Needed(name) : d.contracts[contract].address \in Address
  BY <1>1 DEF DocumentSound, EntrySound, Entries
<1>3. NoCode \in Address
  BY DEF NoCode, Address, Senders
<1>4. TargetOf(command, d, name) \in Address
  <2>1. CASE name = "init"
    BY <1>2, <2>1 DEF TargetOf, Needed
  <2>2. CASE name = "createERC20TokenNetwork"
    <3>1. command.name = "register"
      BY <1>1, <2>2 DEF SentBy, RaidenContracts, ServiceContracts
    <3>. QED BY <2>2, <3>1, CommandFields DEF TargetOf
  <2>3. CASE name \notin {"init", "createERC20TokenNetwork"}
    BY <1>3, <2>3 DEF TargetOf
  <2>. QED BY <2>1, <2>2, <2>3
<1>5. ArgumentsOf(command, d, name, p) \in Seq(Argument)
  <2>1. CASE name = "TokenNetworkRegistry"
    <3>1. /\ d.contracts["SecretRegistry"].address \in Argument
          /\ command.settle \in Argument /\ MaxTokenNetworks \in Argument
      <4>1. command.settle \in SettleTimeouts
        <5>1. command.name = "raiden"
          BY <1>1, <2>1 DEF SentBy, RaidenContracts
        <5>. QED BY <5>1, CommandFields
      <4>. QED BY <1>2, <2>1, <4>1 DEF Needed, Argument
    <3>. QED BY <2>1, <3>1 DEF ArgumentsOf
  <2>2. CASE name \in {"ServiceRegistry", "UserDeposit"}
    <3>1. command.token \in Argument /\ p \in Argument
      <4>1. command.token \in Tokens
        BY <1>1, <2>2, CommandFields DEF SentBy, RaidenContracts, ServiceContracts
      <4>. QED BY <4>1 DEF Argument, Senders
    <3>. QED BY <2>2, <3>1 DEF ArgumentsOf
  <2>3. CASE name \in {"MonitoringService", "OneToN"}
    <3>1. /\ d.contracts["ServiceRegistry"].address \in Argument
          /\ d.contracts["UserDeposit"].address \in Argument
      BY <1>2, <2>3 DEF Needed, Argument
    <3>2. /\ command.token \in Argument /\ command.registry \in Argument
          /\ command.chain \in Argument
      <4>1. command.token \in Tokens /\ command.registry \in Address /\ command.chain \in Chains
        BY <1>1, <2>3, CommandFields DEF SentBy, RaidenContracts, ServiceContracts
      <4>. QED BY <4>1 DEF Argument
    <3>. QED BY <2>3, <3>1, <3>2 DEF ArgumentsOf
  <2>4. CASE name = "init"
    <3>1. /\ d.contracts["MonitoringService"].address \in Argument
          /\ d.contracts["OneToN"].address \in Argument
      BY <1>2, <2>4 DEF Needed, Argument
    <3>. QED BY <2>4, <3>1 DEF ArgumentsOf
  <2>5. CASE name = "createERC20TokenNetwork"
    <3>1. command.token \in Argument /\ command.limits \in Argument
      <4>1. command.token \in Tokens /\ command.limits \in Limits
        BY <1>1, <2>5, CommandFields DEF SentBy, RaidenContracts, ServiceContracts
      <4>. QED BY <4>1 DEF Argument
    <3>. QED BY <2>5, <3>1 DEF ArgumentsOf
  <2>6. CASE name \in {"SecretRegistry", "CustomToken"}
    BY <2>6 DEF ArgumentsOf
  <2>. QED BY <1>1, <2>1, <2>2, <2>3, <2>4, <2>5, <2>6
       DEF ContractNames, RaidenContracts, ServiceContracts
<1>. QED BY <1>1, <1>4, <1>5 DEF Transaction, TransactionRecords, Executed

(***************************************************************************)
(* The invariant, step by step.                                            *)
(***************************************************************************)
LEMMA InvParts ==
  ASSUME DeploymentInv
  PROVE  /\ txs \in Ledgers /\ InitOnce(txs) /\ FilesSound(txs, files)
         /\ at \in [Operators -> Places]
         /\ DOMAIN cmd = Operators /\ DOMAIN doc = Operators
         /\ step = [q \in Operators |-> step[q]]
         /\ \A p \in Operators : CommandSound(txs, p, at[p], cmd[p], doc[p], step[p])
BY DEF DeploymentInv

\* Only operator p's command goes on.
OthersStay(p) ==
  /\ at' \in [Operators -> Places]
  /\ DOMAIN cmd' = Operators /\ DOMAIN doc' = Operators
  /\ step' = [q \in Operators |-> step'[q]]
  /\ \A q \in Operators \ {p} :
       at'[q] = at[q] /\ cmd'[q] = cmd[q] /\ doc'[q] = doc[q] /\ step'[q] = step[q]

\* A step of an operator's command that sends nothing.
LEMMA OneCommandGoesOn ==
  ASSUME DeploymentInv, NEW p \in Operators, txs' = txs, OthersStay(p),
         FilesSound(txs, files'),
         CommandSound(txs, p, at'[p], cmd'[p], doc'[p], step'[p])
  PROVE  DeploymentInv'
<1>1. \A q \in Operators : CommandSound(txs, q, at'[q], cmd'[q], doc'[q], step'[q])
  <2> SUFFICES ASSUME NEW q \in Operators
      PROVE  CommandSound(txs, q, at'[q], cmd'[q], doc'[q], step'[q])
    OBVIOUS
  <2>1. CASE q = p
    BY <2>1
  <2>2. CASE q # p
    <3>1. at'[q] = at[q] /\ cmd'[q] = cmd[q] /\ doc'[q] = doc[q] /\ step'[q] = step[q]
      BY <2>2 DEF OthersStay
    <3>. QED BY <3>1, InvParts
  <2>. QED BY <2>1, <2>2
<1>. QED BY <1>1, InvParts DEF DeploymentInv, OthersStay

LEMMA GoesTo ==
  ASSUME DeploymentInv, NEW p \in Operators, NEW place \in Places, GoTo(p, place)
  PROVE  /\ at' \in [Operators -> Places] /\ at'[p] = place
         /\ \A q \in Operators \ {p} : at'[q] = at[q]
BY InvParts DEF GoTo

\* A command that ends is sound whatever it knew.
LEMMA FailedSound ==
  ASSUME NEW T, NEW p, NEW place, NEW command, NEW d, NEW n, NEW document,
         CommandSound(T, p, place, command, d, n), place # "idle"
  PROVE  CommandSound(T, p, "failed", command, document, n)
BY DEF CommandSound

LEMMA FileOfPath ==
  ASSUME NEW command \in CommandRecords
  PROVE  /\ FileOf(command) \in Paths /\ FileOf(command)[2] = ModuleOf(command)
         /\ FileOf(command)[1] = ID_TO_CHAINNAME[command.chain]
BY CommandFields DEF FileOf, contracts_deployed_path, Paths, Modules, ModuleOf

\* The file of a module's path is complete.
LEMMA FileComplete ==
  ASSUME NEW T, NEW F, FilesSound(T, F), NEW command \in CommandRecords,
         Readable(F[FileOf(command)])
  PROVE  /\ FileSound(T, FileOf(command), F[FileOf(command)])
         /\ Complete(T, command, F[FileOf(command)])
BY FileOfPath DEF FilesSound, FileSound, Complete

LEMMA RecordedAddress ==
  ASSUME DeploymentInv, NEW c \in Chains, NEW a \in RecordedRegistry(c)
  PROVE  a \in Address
<1> DEFINE path == contracts_deployed_path(c, "raiden")
<1>1. path \in Paths /\ path[2] = "raiden"
  BY DEF contracts_deployed_path, Paths, Modules
<1>2. Readable(files[path]) /\ a = files[path].contracts["TokenNetworkRegistry"].address
  BY DEF RecordedRegistry
<1>3. FileSound(txs, path, files[path])
  BY <1>1, <1>2, InvParts DEF FilesSound
<1>4. "TokenNetworkRegistry" \in DOMAIN files[path].contracts
  BY <1>1, <1>3 DEF FileSound, ContractsOf, RaidenContracts
<1>. QED BY <1>2, <1>3, <1>4 DEF FileSound, DocumentSound, EntrySound, Entries

LEMMA CommandLineTyped ==
  ASSUME DeploymentInv, NEW command \in CommandLines
  PROVE  command \in CommandRecords /\ command.name \in Commands
<1>1. command.name \in Commands
  BY DEF CommandLines
<1>2. \A c \in Chains : Registries(c) \subseteq Address
  BY DEF Registries, NoCode, Address, Senders
<1>3. \A c \in Chains : RecordedRegistry(c) \subseteq Address
  BY RecordedAddress
<1>4. \/ command \in RaidenCommands \cup OtherCommands
      \/ \E c \in Chains : command \in ServiceCommands(c)
      \/ \E c \in Chains : command \in RegisterCommands(c)
  BY DEF CommandLines
<1>5. CASE command \in RaidenCommands \cup OtherCommands
  BY <1>1, <1>5 DEF CommandRecords
<1>6. ASSUME NEW c \in Chains, command \in ServiceCommands(c) PROVE command \in CommandRecords
  BY <1>2, <1>6 DEF ServiceCommands, CommandRecords
<1>7. ASSUME NEW c \in Chains, command \in RegisterCommands(c) PROVE command \in CommandRecords
  BY <1>2, <1>3, <1>7 DEF RegisterCommands, CommandRecords
<1>. QED BY <1>1, <1>4, <1>5, <1>6, <1>7

LEMMA NoDocumentSound ==
  ASSUME NEW T, NEW c \in Chains
  PROVE  /\ DocumentSound(T, NoDocument(c)) /\ NoDocument(c).chain_id = c
         /\ DOMAIN NoDocument(c).contracts = {}
<1>1. DOMAIN NoDocument(c).contracts = {}
  BY DEF NoDocument
<1>. QED BY <1>1 DEF NoDocument, DocumentSound

LEMMA RememberSound ==
  ASSUME NEW T, NEW d, DocumentSound(T, d), NEW name \in ContractNames, NEW e,
         EntrySound(T, name, e)
  PROVE  /\ DocumentSound(T, Remember(d, name, e))
         /\ Remember(d, name, e).chain_id = d.chain_id
         /\ DOMAIN Remember(d, name, e).contracts = DOMAIN d.contracts \cup {name}
<1> DEFINE r == Remember(d, name, e)
           known == [n \in DOMAIN d.contracts \cup {name} |->
                       IF n = name THEN e ELSE d.contracts[n]]
<1>1. DOMAIN r = DOMAIN d /\ r.chain_id = d.chain_id /\ r.contracts = known
  BY DEF Remember, DocumentSound
<1>2. /\ DOMAIN known = DOMAIN d.contracts \cup {name}
      /\ \A n \in DOMAIN known : known[n] = IF n = name THEN e ELSE d.contracts[n]
  OBVIOUS
<1>. HIDE DEF r, known
<1>3. DocumentSound(T, r)
  BY <1>1, <1>2 DEF DocumentSound
<1>. QED BY <1>1, <1>2, <1>3 DEF r

LEMMA BeginStep ==
  ASSUME DeploymentInv, NEW p \in Operators, NEW command \in CommandLines, Begin(p, command)
  PROVE  DeploymentInv'
<1> DEFINE c == command.chain
           file == files[command.reuse]
           name == Reused(command)
<1>1. /\ at[p] = "idle" /\ txs' = txs /\ files' = files /\ step' = step
      /\ cmd' = [cmd EXCEPT ![p] = command]
  BY DEF Begin
<1>2. command \in CommandRecords /\ command.name \in Commands /\ c \in Chains
  BY CommandLineTyped, CommandFields
<1>3. step[p] = 0
  BY <1>1, InvParts DEF CommandSound
<1>4. /\ cmd'[p] = command /\ DOMAIN cmd' = Operators
      /\ \A q \in Operators \ {p} : cmd'[q] = cmd[q]
  BY <1>1, InvParts
<1>5. \/ GoTo(p, "deploy") \/ GoTo(p, "verify") \/ GoTo(p, "failed")
  BY DEF Begin
<1>6. OthersStay(p)
  <2>1. at' \in [Operators -> Places] /\ \A q \in Operators \ {p} : at'[q] = at[q]
    BY <1>5, GoesTo DEF Places
  <2>2. DOMAIN doc' = Operators /\ \A q \in Operators \ {p} : doc'[q] = doc[q]
    BY InvParts DEF Begin
  <2>. QED BY <1>1, <1>4, <2>1, <2>2, InvParts DEF OthersStay
<1>7. CommandSound(txs, p, at'[p], command, doc'[p], 0)
  <2>1. CASE ~Reuses(command) /\ command.name = "verify"
    <3>1. at'[p] = "verify"
      BY <2>1, GoesTo DEF Begin, Places
    <3>. QED BY <1>2, <3>1 DEF CommandSound
  <2>2. CASE ~Reuses(command) /\ command.name # "verify"
    <3>1. at'[p] = "deploy" /\ doc'[p] = NoDocument(c)
      <4>1. GoTo(p, "deploy") /\ doc' = [doc EXCEPT ![p] = NoDocument(c)]
        BY <2>2 DEF Begin
      <4>. QED BY <4>1, GoesTo, InvParts DEF Places
    <3>2. Confirmed(command, 0) = {}
      BY <2>2 DEF Confirmed
    <3>3. 0 < Len(Plan(command))
      BY <1>2, <2>2, CommandFields, PlanNotEmpty
    <3>4. Deploying(txs, p, "deploy", command, NoDocument(c), 0)
      BY <1>2, <3>2, <3>3, NoDocumentSound DEF Deploying
    <3>. QED BY <1>2, <3>1, <3>4 DEF CommandSound
  <2>3. CASE Reuses(command) /\ Readable(file) /\ name \in DOMAIN file.contracts
    <3> DEFINE e == file.contracts[name]
               d == Remember(NoDocument(c), name, e)
    <3>1. at'[p] = "deploy" /\ doc'[p] = d
      <4>1. GoTo(p, "deploy") /\ doc' = [doc EXCEPT ![p] = d]
        BY <2>3 DEF Begin
      <4>. QED BY <4>1, GoesTo, InvParts DEF Places
    <3>2. command.name \in {"raiden", "services"}
      BY <2>3 DEF Reuses
    <3>3. command.reuse \in DOMAIN files
      <4>1. command.reuse \in PathsOf(ModuleOf(command)) /\ command.reuse # NoPath
        BY <1>2, <2>3, <3>2, CommandFields DEF Reuses
      <4>2. command.reuse \in Paths \cup Released
        BY <4>1 DEF PathsOf
      <4>. QED BY <4>2, InvParts DEF FilesSound
    <3>4. name \in ContractNames /\ EntrySound(txs, name, e)
      <4>1. FileSound(txs, command.reuse, file)
        BY <2>3, <3>3, InvParts DEF FilesSound
      <4>. QED BY <2>3, <4>1 DEF FileSound, DocumentSound
    <3>5. DocumentSound(txs, d) /\ d.chain_id = c /\ DOMAIN d.contracts = {name}
      <4>1. /\ DocumentSound(txs, NoDocument(c)) /\ NoDocument(c).chain_id = c
            /\ DOMAIN NoDocument(c).contracts = {}
        BY <1>2, NoDocumentSound
      <4>. HIDE DEF c, name, e
      <4>. QED BY <3>4, <4>1, RememberSound
    <3>6. Confirmed(command, 0) = {name}
      BY <2>3 DEF Confirmed
    <3>7. 0 < Len(Plan(command))
      BY <3>2, PlanNotEmpty
    <3>. HIDE DEF d
    <3>8. Deploying(txs, p, "deploy", command, d, 0)
      BY <3>5, <3>6, <3>7 DEF Deploying
    <3>. QED BY <1>2, <3>1, <3>8 DEF CommandSound
  <2>4. CASE Reuses(command) /\ ~(Readable(file) /\ name \in DOMAIN file.contracts)
    <3>1. at'[p] = "failed"
      BY <2>4, GoesTo DEF Begin, Places
    <3>. QED BY <1>2, <3>1 DEF CommandSound
  <2>. QED BY <2>1, <2>2, <2>3, <2>4
<1>. QED BY <1>1, <1>3, <1>4, <1>6, <1>7, InvParts, OneCommandGoesOn

\* Steps that end the command or take it to a place of which nothing is asked.
LEMMA OnlyMoves ==
  ASSUME DeploymentInv, NEW p \in Operators, NEW place \in {"failed", "verify"}, GoTo(p, place),
         at[p] # "idle", UNCHANGED <<txs, files, cmd, doc, step>>
  PROVE  DeploymentInv'
<1>1. place \in Places
  BY DEF Places
<1>2. OthersStay(p) /\ at'[p] = place
  BY <1>1, GoesTo, InvParts DEF OthersStay
<1>3. CommandSound(txs, p, place, cmd[p], doc[p], step[p])
  BY InvParts DEF CommandSound
<1>. QED BY <1>2, <1>3, InvParts, OneCommandGoesOn

\* A deployment that is refused for now is sent again later.
LEMMA WaitsToRetry ==
  ASSUME DeploymentInv, NEW p \in Operators,
         \/ Move(p, "deploy", "refused") \/ Move(p, "refused", "deploy"),
         UNCHANGED <<txs, files, cmd, doc, step>>
  PROVE  DeploymentInv'
<1>1. PICK place \in {"deploy", "refused"} : GoTo(p, place)
  BY DEF Move
<1>2. at[p] \in {"deploy", "refused"} /\ place \in Places
  BY DEF Move, Places
<1>3. OthersStay(p) /\ at'[p] = place
  BY <1>1, <1>2, GoesTo, InvParts DEF OthersStay
<1>4. CommandSound(txs, p, at[p], cmd[p], doc[p], step[p])
  BY InvParts
<1>5. CommandSound(txs, p, place, cmd[p], doc[p], step[p])
  BY <1>2, <1>4 DEF CommandSound, Deploying
<1>. QED BY <1>3, <1>5, InvParts, OneCommandGoesOn

LEMMA RetryStep ==
  ASSUME DeploymentInv, NEW p \in Operators, Retry(p)
  PROVE  DeploymentInv'
BY WaitsToRetry DEF Retry

LEMMA SendStep ==
  ASSUME DeploymentInv, NEW p \in Operators, Send(p)
  PROVE  DeploymentInv'
<1> DEFINE c == cmd[p].chain
           command == cmd[p]
           name == Plan(cmd[p])[step[p] + 1]
           tx == Transaction(cmd[p], doc[p], Plan(cmd[p])[step[p] + 1], p)
<1>1. CASE Move(p, "deploy", "failed") /\ UNCHANGED txs
  BY <1>1, OnlyMoves DEF Send, Move
<1>2. CASE Move(p, "deploy", "wait") /\ txs' = [txs EXCEPT ![c][p] = Append(@, tx)]
  <2>1. at[p] = "deploy" /\ CommandSound(txs, p, "deploy", cmd[p], doc[p], step[p])
    BY <1>2, InvParts DEF Move
  <2>2. /\ cmd[p] \in CommandRecords /\ step[p] \in 0 .. 5
        /\ Deploying(txs, p, "deploy", cmd[p], doc[p], step[p])
    BY <2>1 DEF CommandSound
  <2>3. /\ step[p] \in Nat /\ step[p] < Len(Plan(cmd[p])) /\ DocumentSound(txs, doc[p])
        /\ DOMAIN doc[p].contracts = Confirmed(cmd[p], step[p])
    BY <2>2 DEF Deploying
  <2>4. c \in Chains /\ p \in Senders /\ txs \in Ledgers
    BY <2>2, CommandFields, InvParts DEF Senders
  <2>5. tx \in TransactionRecords /\ ~Executed(tx) /\ tx.name = name
    BY <2>2, <2>3, SentTransaction
  <2>6. Appended(txs, txs', c, p, tx)
    BY <1>2, <2>4 DEF Ledgers, Appended
  <2>. HIDE DEF tx
  <2>7. /\ txs' \in Ledgers /\ Grown(txs, txs')
        /\ \A b \in Chains, q \in Senders : b # c \/ q # p => txs'[b][q] = txs[b][q]
        /\ txs'[c][p] # <<>> /\ txs'[c][p][Len(txs'[c][p])] = tx
        /\ \A b \in Chains : \A m, a : CallsIn(txs', b, m, a) = CallsIn(txs, b, m, a)
    <3>1. txs' \in Ledgers /\ Grown(txs, txs')
      BY <2>4, <2>5, <2>6, SendGrows
    <3>2. \A b \in Chains, q \in Senders : b # c \/ q # p => txs'[b][q] = txs[b][q]
      BY <2>4, <2>5, <2>6, SendGrows
    <3>3. txs'[c][p] # <<>> /\ txs'[c][p][Len(txs'[c][p])] = tx
      BY <2>4, <2>5, <2>6, SendGrows
    <3>4. \A b \in Chains : \A m, a : CallsIn(txs', b, m, a) = CallsIn(txs, b, m, a)
      BY <2>4, <2>5, <2>6, SendGrows
    <3>. QED BY <3>1, <3>2, <3>3, <3>4
  <2>8. InitOnce(txs')
    BY <2>7, InvParts DEF InitOnce
  <2>9. FilesSound(txs', files')
    <3>1. files' = files
      BY DEF Send
    <3>. QED BY <2>4, <2>7, <3>1, InvParts, FilesStay
  <2>10. /\ at' \in [Operators -> Places] /\ at'[p] = "wait"
         /\ \A q \in Operators \ {p} : at'[q] = at[q]
    BY <1>2, GoesTo DEF Move, Places
  <2>11. cmd' = cmd /\ doc' = doc /\ step' = step
    BY DEF Send
  <2>12. ASSUME NEW q \in Operators
         PROVE  CommandSound(txs', q, at'[q], cmd[q], doc[q], step[q])
    <3>1. CASE q = p
      <4>1. DocumentSound(txs', doc[p])
        BY <2>3, <2>4, <2>7, DocumentStays
      <4>2. Deploying(txs', p, "wait", cmd[p], doc[p], step[p])
        BY <2>2, <2>5, <2>7, <4>1 DEF Deploying
      <4>. QED BY <2>1, <2>10, <3>1, <4>2 DEF CommandSound
    <3>2. CASE q # p
      <4>1. at'[q] = at[q] /\ q \in Senders
        BY <2>10, <3>2 DEF Senders
      <4>2. CommandSound(txs, q, at[q], cmd[q], doc[q], step[q])
        BY InvParts
      <4>3. at[q] = "wait" => Len(txs'[cmd[q].chain][q]) = Len(txs[cmd[q].chain][q])
        <5>1. at[q] = "wait" => cmd[q].chain \in Chains
          BY <4>2, CommandFields DEF CommandSound
        <5>. QED BY <2>7, <3>2, <4>1, <5>1
      <4>. QED BY <2>4, <2>7, <2>8, <4>1, <4>2, <4>3, CommandStays
    <3>. QED BY <3>1, <3>2
  <2>. QED BY <2>7, <2>8, <2>9, <2>10, <2>11, <2>12, InvParts DEF DeploymentInv
<1>3. CASE Move(p, "deploy", "refused") /\ UNCHANGED txs
  BY <1>3, WaitsToRetry DEF Send
<1>. QED BY <1>1, <1>2, <1>3 DEF Send

\* What a mined transaction of a command leaves in its document.
LEMMA DeployedSound ==
  ASSUME NEW T \in Ledgers, NEW b \in Chains, NEW p \in Senders, NEW k \in 1 .. Len(T[b][p]),
         Executed(T[b][p][k]), NEW hash, hash = [chain |-> b, from |-> p, nonce |-> k]
  PROVE  EntrySound(T, T[b][p][k].name, DeployedData(hash, T[b][p][k].args))
<1> DEFINE tx == T[b][p][k]
           e == DeployedData(hash, tx.args)
<1>1. tx \in TransactionRecords /\ k \in Nat
  BY DEF Ledgers
<1>2. /\ e.address = [from |-> p, nonce |-> k] /\ e.transaction_hash = hash
      /\ e.constructor_arguments = tx.args /\ hash.chain = b
      /\ e.address = address(e.transaction_hash)
  BY DEF DeployedData, address
<1>3. e \in Entries
  <2>1. tx.args \in Seq(Argument) /\ hash \in Hashes /\ address(hash) \in Address
    BY <1>1 DEF TransactionRecords, Hashes, address, Address
  <2>. QED BY <2>1 DEF DeployedData, Entries
<1>. HIDE DEF e
<1>4. ContractIn(T, b, e.address, tx.name) /\ ArgsIn(T, b, e.address) = tx.args
  BY <1>2 DEF ContractIn, ArgsIn
<1>. QED BY <1>2, <1>3, <1>4 DEF EntrySound, e

LEMMA ReceiveStep ==
  ASSUME DeploymentInv, NEW p \in Operators, Receive(p)
  PROVE  DeploymentInv'
<1> DEFINE command == cmd[p]
           c == command.chain
           n == step[p]
           d == doc[p]
           hash == LastHash(p)
           name == Plan(cmd[p])[step[p] + 1]
           tx == txs[hash.chain][hash.from][hash.nonce]
           next == Remember(doc[p], name, DeployedData(hash, tx.args))
           place == IF step[p] + 1 < Len(Plan(cmd[p])) THEN "deploy" ELSE AfterPlan(cmd[p])
<1>1. at[p] = "wait" /\ txs' = txs /\ files' = files /\ cmd' = cmd
  BY DEF Receive
<1>2. CommandSound(txs, p, "wait", command, d, n)
  BY <1>1, InvParts
<1>3. /\ command \in CommandRecords /\ command.name \in Commands /\ n \in 0 .. 5
      /\ Deploying(txs, p, "wait", command, d, n)
  BY <1>2 DEF CommandSound
<1>4. CASE ~Successful(tx)
  BY <1>1, <1>4, OnlyMoves DEF Receive
<1>5. CASE Successful(tx)
  <2>1. /\ GoTo(p, place) /\ step' = [step EXCEPT ![p] = @ + 1]
        /\ doc' = IF name \notin ContractNames THEN doc ELSE [doc EXCEPT ![p] = next]
    BY <1>5 DEF Receive
  <2>2. /\ n \in Nat /\ n < Len(Plan(command)) /\ DocumentSound(txs, d) /\ d.chain_id = c
        /\ DOMAIN d.contracts = Confirmed(command, n)
        /\ txs[c][p] # <<>> /\ txs[c][p][Len(txs[c][p])].name = name
    BY <1>3 DEF Deploying
  <2>3. c \in Chains /\ p \in Senders /\ txs \in Ledgers
    BY <1>3, CommandFields, InvParts DEF Senders
  <2>4. /\ hash = [chain |-> c, from |-> p, nonce |-> Len(txs[c][p])]
        /\ tx = txs[c][p][Len(txs[c][p])] /\ tx.name = name /\ Executed(tx)
        /\ Len(txs[c][p]) \in 1 .. Len(txs[c][p])
    <3>1. txs[c][p] \in Seq(TransactionRecords)
      BY <2>3 DEF Ledgers
    <3>2. Len(txs[c][p]) \in 1 .. Len(txs[c][p])
      BY <2>2, <3>1
    <3>. QED BY <1>5, <2>2, <3>2 DEF LastHash, Successful, Executed
  <2>5. EntrySound(txs, name, DeployedData(hash, tx.args))
    BY <2>3, <2>4, DeployedSound
  <2>6. /\ doc'[p] = IF name \in ContractNames THEN next ELSE d
        /\ step'[p] = n + 1 /\ DOMAIN doc' = Operators /\ step' = [q \in Operators |-> step'[q]]
        /\ \A q \in Operators \ {p} : doc'[q] = doc[q] /\ step'[q] = step[q]
    BY <2>1, InvParts
  <2>. HIDE DEF next, tx, hash, place
  <2>7. /\ DocumentSound(txs, doc'[p]) /\ doc'[p].chain_id = c
        /\ DOMAIN doc'[p].contracts = Confirmed(command, n + 1)
    <3>1. CASE name \in ContractNames
      <4>1. /\ DocumentSound(txs, next) /\ next.chain_id = d.chain_id
            /\ DOMAIN next.contracts = DOMAIN d.contracts \cup {name}
        BY <2>2, <2>5, <3>1, RememberSound DEF next
      <4>2. Confirmed(command, n + 1) = Confirmed(command, n) \cup {name}
        BY <2>2, <3>1, ConfirmedNext
      <4>. QED BY <2>2, <2>6, <3>1, <4>1, <4>2
    <3>2. CASE name \notin ContractNames
      <4>1. Confirmed(command, n + 1) = Confirmed(command, n)
        BY <2>2, <3>2, ConfirmedNext
      <4>. QED BY <2>2, <2>6, <3>2, <4>1
    <3>. QED BY <3>1, <3>2
  <2>8. n + 1 \in 0 .. 5 /\ Len(Plan(command)) \in 0 .. 5
    BY <1>3, <2>2, PlanLength
  <2>9. place \in Places /\ CommandSound(txs, p, place, command, doc'[p], n + 1)
    <3>1. CASE n + 1 < Len(Plan(command))
      <4>1. place = "deploy"
        BY <3>1 DEF place
      <4>2. Deploying(txs, p, "deploy", command, doc'[p], n + 1)
        BY <2>7, <3>1 DEF Deploying
      <4>. QED BY <1>3, <2>8, <4>1, <4>2 DEF CommandSound, Places
    <3>2. CASE ~(n + 1 < Len(Plan(command)))
      <4>1. n + 1 = Len(Plan(command)) /\ place = AfterPlan(command)
        BY <2>2, <2>8, <3>2 DEF place
      <4>2. CASE command.name = "register"
        <5>1. place = "collect"
          BY <4>1, <4>2 DEF AfterPlan
        <5>. QED BY <1>3, <2>8, <4>2, <5>1 DEF CommandSound, Places
      <4>3. CASE command.name = "token"
        <5>1. place = "done"
          BY <4>1, <4>3 DEF AfterPlan
        <5>. QED BY <1>3, <2>8, <4>3, <5>1 DEF CommandSound, Places
      <4>4. CASE command.name \in {"raiden", "services"}
        <5>1. place \in {"store", "check"}
          BY <4>1, <4>4 DEF AfterPlan
        <5>2. DOMAIN doc'[p].contracts = ContractsOf(ModuleOf(command))
          BY <2>7, <4>1, <4>4, ConfirmedAll
        <5>3. Complete(txs, command, doc'[p])
          BY <2>7, <5>2 DEF Complete
        <5>4. FileSound(txs, FileOf(command), doc'[p])
          BY <1>3, <2>7, <5>2, FileOfPath DEF FileSound
        <5>. QED BY <1>3, <2>8, <5>1, <5>3, <5>4 DEF CommandSound, Places
      <4>5. command.name # "verify"
        BY <2>2, Plans
      <4>. QED BY <1>3, <4>2, <4>3, <4>4, <4>5, CommandFields
    <3>. QED BY <3>1, <3>2
  <2>10. /\ at' \in [Operators -> Places] /\ at'[p] = place
         /\ \A q \in Operators \ {p} : at'[q] = at[q]
    BY <2>1, <2>9, GoesTo
  <2>11. OthersStay(p)
    BY <1>1, <2>6, <2>10, InvParts DEF OthersStay
  <2>. QED BY <1>1, <2>6, <2>9, <2>10, <2>11, InvParts, OneCommandGoesOn
<1>. QED BY <1>4, <1>5

LEMMA RegisterSteps ==
  ASSUME DeploymentInv, NEW p \in Operators, Collect(p) \/ LookUp(p)
  PROVE  DeploymentInv'
<1>1. /\ at[p] \in {"collect", "lookup"} /\ UNCHANGED <<txs, files, cmd, doc, step>>
      /\ GoTo(p, "lookup") \/ GoTo(p, "append") \/ GoTo(p, "failed")
  BY DEF Collect, LookUp, Move
<1>2. PICK place \in {"lookup", "append", "failed"} : GoTo(p, place)
  BY <1>1
<1>3. place \in Places
  BY DEF Places
<1>4. OthersStay(p) /\ at'[p] = place
  BY <1>1, <1>2, <1>3, GoesTo, InvParts DEF OthersStay
<1>5. CommandSound(txs, p, at[p], cmd[p], doc[p], step[p])
  BY InvParts
<1>6. CommandSound(txs, p, place, cmd[p], doc[p], step[p])
  BY <1>1, <1>5 DEF CommandSound
<1>. QED BY <1>1, <1>4, <1>6, InvParts, OneCommandGoesOn

LEMMA AddTokenNetworkStep ==
  ASSUME DeploymentInv, NEW p \in Operators, AddTokenNetwork(p)
  PROVE  DeploymentInv'
<1> DEFINE path == FileOf(cmd[p])
           file == files[path]
           document == [file EXCEPT !.token_networks = Append(@, network[p])]
<1>1. at[p] = "append" /\ UNCHANGED <<txs, files, cmd, step>>
  BY DEF AddTokenNetwork
<1>2. CASE ~Readable(file)
  BY <1>1, <1>2, OnlyMoves DEF AddTokenNetwork
<1>3. CASE Readable(file)
  <2>1. GoTo(p, "store") /\ doc' = [doc EXCEPT ![p] = document]
    BY <1>3 DEF AddTokenNetwork
  <2>2. /\ doc'[p] = document /\ DOMAIN doc' = Operators
        /\ \A q \in Operators \ {p} : doc'[q] = doc[q]
    BY <2>1, InvParts
  <2>3. CommandSound(txs, p, "append", cmd[p], doc[p], step[p])
    BY <1>1, InvParts
  <2>4. cmd[p] \in CommandRecords /\ cmd[p].name \in Commands /\ step[p] \in 0 .. 5
    BY <2>3 DEF CommandSound
  <2>5. FileSound(txs, path, file)
    BY <1>3, <2>4, InvParts, FileComplete
  <2>6. /\ DOMAIN document = DOMAIN file /\ document.chain_id = file.chain_id
        /\ document.contracts = file.contracts
    BY <2>5 DEF FileSound, DocumentSound
  <2>. HIDE DEF document, path, file
  <2>7. FileSound(txs, path, document)
    BY <2>5, <2>6 DEF FileSound, DocumentSound
  <2>8. CommandSound(txs, p, "store", cmd[p], document, step[p])
    BY <2>4, <2>7 DEF CommandSound, path
  <2>9. /\ at' \in [Operators -> Places] /\ at'[p] = "store"
        /\ \A q \in Operators \ {p} : at'[q] = at[q]
    BY <2>1, GoesTo DEF Places
  <2>10. OthersStay(p)
    BY <1>1, <2>2, <2>9, InvParts DEF OthersStay
  <2>. QED BY <1>1, <2>2, <2>8, <2>9, <2>10, InvParts, OneCommandGoesOn
<1>. QED BY <1>2, <1>3

\* The file is emptied, and written.
LEMMA StoreSteps ==
  ASSUME DeploymentInv, NEW p \in Operators, Truncate(p) \/ Write(p)
  PROVE  DeploymentInv'
<1> DEFINE path == FileOf(cmd[p])
<1>1. UNCHANGED <<txs, cmd, doc, step>>
  BY DEF Truncate, Write
<1>2. at[p] \in {"store", "write"}
  BY DEF Truncate, Write, Move
<1>3. CommandSound(txs, p, at[p], cmd[p], doc[p], step[p])
  BY InvParts
<1>4. /\ cmd[p] \in CommandRecords /\ cmd[p].name \in Commands /\ step[p] \in 0 .. 5
      /\ FileSound(txs, path, doc[p])
  BY <1>2, <1>3 DEF CommandSound
<1>5. path \in Paths
  BY <1>4, FileOfPath
<1>6. PICK content \in {Corrupted, doc[p]} : files' = [files EXCEPT ![path] = content]
  BY DEF Truncate, Write
<1>. HIDE DEF path
<1>7. FilesSound(txs, files')
  <2>1. /\ DOMAIN files' = DOMAIN files
        /\ \A other \in DOMAIN files : files'[other] = IF other = path THEN content ELSE files[other]
    BY <1>6
  <2>2. Readable(content) => FileSound(txs, path, content)
    BY <1>4 DEF Readable
  <2>. QED BY <2>1, <2>2, InvParts DEF FilesSound
<1>8. GoTo(p, "write") \/ GoTo(p, "verify")
  BY DEF Truncate, Write, Move
<1>9. PICK place \in {"write", "verify"} : GoTo(p, place)
  BY <1>8
<1>10. place \in Places
  BY DEF Places
<1>11. OthersStay(p) /\ at'[p] = place
  BY <1>1, <1>9, <1>10, GoesTo, InvParts DEF OthersStay
<1>12. CommandSound(txs, p, place, cmd[p], doc[p], step[p])
  BY <1>4 DEF CommandSound, path
<1>. QED BY <1>1, <1>7, <1>11, <1>12, OneCommandGoesOn

(***************************************************************************)
(* What the verifier compares suffices.                                    *)
(***************************************************************************)
LEMMA VerifiedCurrent ==
  ASSUME txs \in Ledgers, NEW c \in Chains, NEW d, DocumentSound(txs, d), NEW name,
         Verified(c, d, name)
  PROVE  /\ CurrentIn(txs, c, d.contracts[name].address, name)
         /\ d.contracts[name].address \in Address
         /\ ArgsIn(txs, c, d.contracts[name].address) = d.contracts[name].constructor_arguments
<1> DEFINE e == d.contracts[name]
<1>1. /\ name \in DOMAIN d.contracts /\ e.transaction_hash.chain = c
      /\ IsCurrent(c, e.address, name)
  BY DEF Verified
<1>2. EntrySound(txs, name, e)
  BY <1>1 DEF DocumentSound
<1>. HIDE DEF e
<1>3. e.address \in Address /\ ArgsIn(txs, c, e.address) = e.constructor_arguments
      /\ ContractIn(txs, c, e.address, name)
  BY <1>1, <1>2 DEF EntrySound, Entries
<1>4. CurrentIn(txs, c, e.address, name)
  BY <1>1, <1>3 DEF CurrentIn, IsCurrent
<1>. QED BY <1>3, <1>4 DEF e

LEMMA SameCalls ==
  ASSUME txs \in Ledgers, NEW c \in Chains, NEW name, NEW a
  PROVE  Calls(c, name, a) = CallsIn(txs, c, name, a)
<1> SUFFICES ASSUME NEW hash \in [chain : {c}, from : Senders, nonce : 1 .. MaxTxs]
    PROVE  hash.nonce \in DOMAIN txs[c][hash.from] <=> hash.nonce \in 1 .. Len(txs[c][hash.from])
  BY DEF Calls, CallsIn
<1>1. txs[c][hash.from] \in Seq(TransactionRecords)
  BY DEF Ledgers
<1>. QED BY <1>1

LEMMA CorrectMeansWired ==
  ASSUME txs \in Ledgers, InitOnce(txs), NEW command \in CommandRecords, NEW d,
         Complete(txs, command, d), Correct(command, d)
  PROVE  WiredIn(txs, command, d)
<1> DEFINE c == command.chain
           of(name) == d.contracts[name].address
           args(name) == ArgsIn(txs, c, of(name))
<1>1. c \in Chains /\ DocumentSound(txs, d)
  BY CommandFields DEF Complete
<1>2. CASE command.name # "services"
  <2>1. verify_deployment_data(c, d)
    BY <1>2 DEF Correct
  <2>2. Verified(c, d, "SecretRegistry") /\ Verified(c, d, "TokenNetworkRegistry")
    BY <2>1 DEF verify_deployment_data
  <2>3. /\ CurrentIn(txs, c, of("SecretRegistry"), "SecretRegistry")
        /\ CurrentIn(txs, c, of("TokenNetworkRegistry"), "TokenNetworkRegistry")
    BY <1>1, <2>2, VerifiedCurrent
  <2>4. args("TokenNetworkRegistry")[1] = of("SecretRegistry")
    BY <2>1 DEF verify_deployment_data, Args, ArgsIn
  <2>. QED BY <1>2, <2>3, <2>4 DEF WiredIn, RaidenWiredIn
<1>3. CASE command.name = "services"
  <2> DEFINE entry(name) == d.contracts[name]
             token == command.token
  <2>1. verify_service_contracts_deployment_data(c, token, command.registry, d)
    BY <1>3 DEF Correct
  <2>2. \A name \in ServiceContracts : Verified(c, d, name)
    BY <2>1 DEF verify_service_contracts_deployment_data
  <2>3. \A name \in ServiceContracts :
          /\ CurrentIn(txs, c, of(name), name) /\ of(name) \in Address
          /\ args(name) = entry(name).constructor_arguments
    BY <1>1, <2>2, VerifiedCurrent
  <2>4. /\ _verify_service_registry_deployment(c, token, entry("ServiceRegistry"))
        /\ _verify_user_deposit_deployment(c, token, entry("UserDeposit"),
             of("MonitoringService"), of("OneToN"))
        /\ _verify_monitoring_service_deployment(c, token, entry("MonitoringService"),
             of("ServiceRegistry"), of("UserDeposit"), command.registry)
        /\ _verify_one_to_n_deployment(c, entry("OneToN"), of("UserDeposit"),
             of("ServiceRegistry"))
    BY <2>1 DEF verify_service_contracts_deployment_data
  <2>5. args("ServiceRegistry")[1] = token
    BY <2>4 DEF _verify_service_registry_deployment, Args, ArgsIn
  <2>6. args("UserDeposit")[1] = token
    BY <2>4 DEF _verify_user_deposit_deployment, Args, ArgsIn
  <2>7. args("MonitoringService") =
          <<token, of("ServiceRegistry"), of("UserDeposit"), command.registry>>
    BY <2>4 DEF _verify_monitoring_service_deployment, Args, ArgsIn
  <2>8. /\ args("OneToN")[1] = of("UserDeposit")
        /\ entry("OneToN").constructor_arguments = <<of("UserDeposit"), c, of("ServiceRegistry")>>
    BY <2>4 DEF _verify_one_to_n_deployment, Args, ArgsIn
  <2>9. "OneToN" \in ServiceContracts /\ "UserDeposit" \in ServiceContracts
    BY DEF ServiceContracts
  <2>10. args("OneToN")[3] = of("ServiceRegistry")
    BY <2>3, <2>8, <2>9
  <2>11. PICK hash \in CallsIn(txs, c, "init", of("UserDeposit")) :
           txs[c][hash.from][hash.nonce].args = <<of("MonitoringService"), of("OneToN")>>
    <3>1. \E hash \in Calls(c, "init", of("UserDeposit")) :
            txs[c][hash.from][hash.nonce].args = <<of("MonitoringService"), of("OneToN")>>
      BY <2>4 DEF _verify_user_deposit_deployment
    <3>. QED BY <1>1, <3>1, SameCalls
  <2>12. \A g \in CallsIn(txs, c, "init", of("UserDeposit")) : g = hash
    BY <1>1, <2>3, <2>9, <2>11 DEF InitOnce
  <2>13. /\ CallsIn(txs, c, "init", of("UserDeposit")) # {}
         /\ \A g \in CallsIn(txs, c, "init", of("UserDeposit")) :
              txs[c][g.from][g.nonce].args = <<of("MonitoringService"), of("OneToN")>>
    BY <2>11, <2>12
  <2>14. ServicesWiredIn(txs, c, d.contracts)
    <3>1. /\ args("MonitoringService")[1] = token
          /\ args("MonitoringService")[2] = of("ServiceRegistry")
          /\ args("MonitoringService")[3] = of("UserDeposit")
      BY <2>7
    <3>. QED BY <2>3, <2>5, <2>6, <2>8, <2>10, <2>13, <3>1 DEF ServicesWiredIn
  <2>. QED BY <1>3, <2>14 DEF WiredIn
<1>. QED BY <1>2, <1>3

LEMMA VerifyStep ==
  ASSUME DeploymentInv, NEW p \in Operators, Verify(p)
  PROVE  DeploymentInv'
<1> DEFINE file == files[FileOf(cmd[p])]
<1>1. at[p] = "verify" /\ UNCHANGED <<txs, files, cmd, step>>
  BY DEF Verify
<1>2. CASE ~(Readable(file) /\ Correct(cmd[p], file))
  BY <1>1, <1>2, OnlyMoves DEF Verify
<1>3. CASE Readable(file) /\ Correct(cmd[p], file)
  <2>1. GoTo(p, "done") /\ doc' = [doc EXCEPT ![p] = file]
    BY <1>3 DEF Verify
  <2>2. /\ doc'[p] = file /\ DOMAIN doc' = Operators
        /\ \A q \in Operators \ {p} : doc'[q] = doc[q]
    BY <2>1, InvParts
  <2>3. CommandSound(txs, p, "verify", cmd[p], doc[p], step[p])
    BY <1>1, InvParts
  <2>4. cmd[p] \in CommandRecords /\ cmd[p].name \in Commands /\ step[p] \in 0 .. 5
    BY <2>3 DEF CommandSound
  <2>5. Complete(txs, cmd[p], file)
    BY <1>3, <2>4, InvParts, FileComplete
  <2>. HIDE DEF file
  <2>6. WiredIn(txs, cmd[p], file)
    BY <1>3, <2>4, <2>5, InvParts, CorrectMeansWired
  <2>7. CommandSound(txs, p, "done", cmd[p], file, step[p])
    BY <2>4, <2>5, <2>6 DEF CommandSound
  <2>8. /\ at' \in [Operators -> Places] /\ at'[p] = "done"
        /\ \A q \in Operators \ {p} : at'[q] = at[q]
    BY <2>1, GoesTo DEF Places
  <2>9. OthersStay(p)
    BY <1>1, <2>2, <2>8, InvParts DEF OthersStay
  <2>. QED BY <1>1, <2>2, <2>7, <2>8, <2>9, InvParts, OneCommandGoesOn
<1>. QED BY <1>2, <1>3

LEMMA CheckStep ==
  ASSUME DeploymentInv, NEW p \in Operators, Check(p)
  PROVE  DeploymentInv'
<1>1. at[p] = "check" /\ UNCHANGED <<txs, files, cmd, doc, step>>
  BY DEF Check
<1>2. CASE ~(cmd[p].name = "services" /\ Correct(cmd[p], doc[p]))
  BY <1>1, <1>2, OnlyMoves DEF Check
<1>3. CASE cmd[p].name = "services" /\ Correct(cmd[p], doc[p])
  <2>1. CommandSound(txs, p, "check", cmd[p], doc[p], step[p])
    BY <1>1, InvParts
  <2>2. /\ cmd[p] \in CommandRecords /\ cmd[p].name \in Commands /\ step[p] \in 0 .. 5
        /\ Complete(txs, cmd[p], doc[p])
    BY <2>1 DEF CommandSound
  <2>3. WiredIn(txs, cmd[p], doc[p])
    BY <1>3, <2>2, InvParts, CorrectMeansWired
  <2>4. CommandSound(txs, p, "done", cmd[p], doc[p], step[p])
    BY <2>2, <2>3 DEF CommandSound
  <2>5. /\ at' \in [Operators -> Places] /\ at'[p] = "done"
        /\ \A q \in Operators \ {p} : at'[q] = at[q]
    BY <1>3, GoesTo DEF Check, Places
  <2>6. OthersStay(p)
    BY <1>1, <2>5, InvParts DEF OthersStay
  <2>. QED BY <1>1, <2>4, <2>5, <2>6, InvParts, OneCommandGoesOn
<1>. QED BY <1>2, <1>3

LEMMA FinishStep ==
  ASSUME DeploymentInv, NEW p \in Operators, Finish(p)
  PROVE  DeploymentInv'
<1>1. /\ GoTo(p, "idle") /\ txs' = txs /\ files' = files
      /\ cmd' = [cmd EXCEPT ![p] = NoCommand] /\ doc' = [doc EXCEPT ![p] = Missing]
      /\ step' = [step EXCEPT ![p] = 0]
  BY DEF Finish
<1>2. /\ at' \in [Operators -> Places] /\ at'[p] = "idle"
      /\ \A q \in Operators \ {p} : at'[q] = at[q]
  BY <1>1, GoesTo DEF Places
<1>3. OthersStay(p) /\ cmd'[p] = NoCommand /\ step'[p] = 0
  BY <1>1, <1>2, InvParts DEF OthersStay
<1>4. CommandSound(txs, p, "idle", NoCommand, doc'[p], 0)
  BY DEF CommandSound
<1>. QED BY <1>1, <1>2, <1>3, <1>4, InvParts, OneCommandGoesOn

LEMMA EndSteps ==
  ASSUME DeploymentInv, NEW p \in Operators, TimeOut(p) \/ Crash(p)
  PROVE  DeploymentInv'
<1>1. at[p] # "idle" /\ GoTo(p, "failed") /\ UNCHANGED <<txs, files, cmd, doc, step>>
  BY DEF TimeOut, Crash, Move
<1>. QED BY <1>1, OnlyMoves

LEMMA MineStep ==
  ASSUME DeploymentInv, NEW c \in Chains, NEW p \in Operators, Mine(c, p)
  PROVE  DeploymentInv'
<1>1. c \in Chains /\ p \in Senders /\ txs \in Ledgers /\ txs[c][p] \in Seq(TransactionRecords)
  BY InvParts DEF Senders, Ledgers
<1>2. PICK k \in DOMAIN txs[c][p] :
        /\ txs[c][p][k].status = "pending"
        /\ \E status \in {"reverted"} \cup (IF CanExecute(c, txs[c][p][k])
                                            THEN {"mined", "spent"} ELSE {}) :
             txs' = [txs EXCEPT ![c][p][k].status = status]
        /\ UNCHANGED <<files, at, cmd, doc, step>>
  BY DEF Mine
<1>3. PICK status \in {"reverted"} \cup (IF CanExecute(c, txs[c][p][k])
                                         THEN {"mined", "spent"} ELSE {}) :
        txs' = [txs EXCEPT ![c][p][k].status = status]
  BY <1>2
<1>4. k \in 1 .. Len(txs[c][p]) /\ status \in {"mined", "spent", "reverted"}
  BY <1>1, <1>2, <1>3
<1>5. MinedAs(txs, txs', c, p, k, status)
  <2>1. txs[c][p][k].status = "pending"
    BY <1>2
  <2>. QED BY <1>1, <1>3, <1>4, <2>1 DEF MinedAs, Ledgers
<1>a. txs \in Ledgers
  BY <1>1
<1>b. txs' \in Ledgers /\ Grown(txs, txs')
  BY <1>5, <1>a, MineGrows
<1>c. SameElsewhere(txs, txs', c, p, k)
  BY <1>5, <1>a, MineGrows
<1>6. /\ txs' \in Ledgers /\ Grown(txs, txs')
      /\ \A b \in Chains, q \in Senders : Len(txs'[b][q]) = Len(txs[b][q])
  BY <1>b, <1>c DEF SameElsewhere
<1>d. txs'[c][p][k] = [txs[c][p][k] EXCEPT !.status = status]
  BY <1>5, <1>a, MineGrows
<1>7. /\ \A b \in Chains, q \in Senders, i \in Nat :
           i \in 1 .. Len(txs[b][q]) /\ (b # c \/ q # p \/ i # k) => txs'[b][q][i] = txs[b][q][i]
      /\ txs'[c][p][k] = [txs[c][p][k] EXCEPT !.status = status]
  BY <1>c, <1>d DEF SameElsewhere
<1>8. InitOnce(txs')
  <2> SUFFICES ASSUME NEW b \in Chains, NEW a \in Address,
                      NEW g \in CallsIn(txs', b, "init", a), NEW h \in CallsIn(txs', b, "init", a)
      PROVE  g = h
    BY DEF InitOnce
  <2> DEFINE this == [chain |-> c, from |-> p, nonce |-> k]
  <2>1. ASSUME NEW hash \in CallsIn(txs', b, "init", a), hash # this
        PROVE  hash \in CallsIn(txs, b, "init", a)
    <3>1. /\ hash \in [chain : {b}, from : Senders, nonce : 1 .. MaxTxs]
          /\ hash.nonce \in 1 .. Len(txs'[b][hash.from])
          /\ Executed(txs'[b][hash.from][hash.nonce])
          /\ txs'[b][hash.from][hash.nonce].name = "init"
          /\ txs'[b][hash.from][hash.nonce].to = a
      BY DEF CallsIn
    <3>2. hash.from \in Senders /\ hash.nonce \in Nat
      BY <3>1
    <3>3. b # c \/ hash.from # p \/ hash.nonce # k
      BY <2>1, <3>1
    <3>4. hash.nonce \in 1 .. Len(txs[b][hash.from])
      BY <1>6, <3>1, <3>2
    <3>5. txs'[b][hash.from][hash.nonce] = txs[b][hash.from][hash.nonce]
      BY <1>7, <3>2, <3>3, <3>4
    <3>. QED BY <3>1, <3>4, <3>5 DEF CallsIn
  <2>2. ASSUME this \in CallsIn(txs', b, "init", a)
        PROVE  CallsIn(txs, b, "init", a) = {}
    <3>1. /\ b = c /\ Executed(txs'[c][p][k]) /\ txs'[c][p][k].name = "init"
          /\ txs'[c][p][k].to = a
      BY <2>2 DEF CallsIn
    <3>2. txs[c][p][k] \in TransactionRecords
      BY <1>1, <1>4
    <3>3. /\ txs'[c][p][k].status = status /\ txs[c][p][k].name = "init"
          /\ txs[c][p][k].to = a
      BY <1>7, <3>1, <3>2 DEF TransactionRecords
    <3>4. CanExecute(c, txs[c][p][k])
      BY <1>3, <3>1, <3>3 DEF Executed
    <3>5. Calls(c, "init", a) = {}
      BY <3>3, <3>4 DEF CanExecute
    <3>. QED BY <1>1, <3>1, <3>5, SameCalls
  <2>3. \A x, y \in CallsIn(txs, b, "init", a) : x = y
    BY InvParts DEF InitOnce
  <2>. HIDE DEF this
  <2>. QED BY <2>1, <2>2, <2>3
<1>9. FilesSound(txs', files)
  BY <1>1, <1>6, InvParts, FilesStay
<1>10. ASSUME NEW q \in Operators
       PROVE  CommandSound(txs', q, at[q], cmd[q], doc[q], step[q])
  <2>1. CommandSound(txs, q, at[q], cmd[q], doc[q], step[q]) /\ q \in Senders
    BY InvParts DEF Senders
  <2>2. at[q] = "wait" => Len(txs'[cmd[q].chain][q]) = Len(txs[cmd[q].chain][q])
    <3>1. at[q] = "wait" => cmd[q].chain \in Chains
      BY <2>1, CommandFields DEF CommandSound
    <3>. QED BY <1>6, <2>1, <3>1
  <2>. QED BY <1>1, <1>6, <1>8, <2>1, <2>2, CommandStays
<1>. QED BY <1>2, <1>6, <1>8, <1>9, <1>10, InvParts DEF DeploymentInv

(***************************************************************************)
(* The release from which contracts are reused.                            *)
(***************************************************************************)
LEMMA ReleaseSound ==
  ASSUME NEW code \in {"current", "older"}, NEW token \in Tokens, NEW settle \in SettleTimeouts,
         NEW R, R = ReleaseTransactions(code, token, settle)
  PROVE  /\ R \in Seq(TransactionRecords) /\ Len(R) = 3
         /\ R[1].name = "SecretRegistry" /\ R[2].name = "TokenNetworkRegistry"
         /\ R[3].name = "ServiceRegistry"
         /\ \A i \in 1 .. 3 : Executed(R[i])
<1>1. NoCode \in Address /\ ReleaseAddress(1) \in Address
  BY DEF NoCode, ReleaseAddress, Address, Senders
<1> DEFINE r1 == Deployed("SecretRegistry", <<>>, code)
           r2 == Deployed("TokenNetworkRegistry", <<ReleaseAddress(1), settle, MaxTokenNetworks>>, code)
           r3 == Deployed("ServiceRegistry", <<token, Releaser>>, code)
<1>2. /\ <<>> \in Seq(Argument)
      /\ <<ReleaseAddress(1), settle, MaxTokenNetworks>> \in Seq(Argument)
      /\ <<token, Releaser>> \in Seq(Argument)
  BY <1>1 DEF Argument, Senders
<1>3. ASSUME NEW name \in ContractNames, NEW args \in Seq(Argument)
      PROVE  /\ Deployed(name, args, code) \in TransactionRecords
             /\ Deployed(name, args, code).name = name /\ Executed(Deployed(name, args, code))
  BY <1>1 DEF Deployed, TransactionRecords, Executed
<1>4. /\ r1 \in TransactionRecords /\ r1.name = "SecretRegistry" /\ Executed(r1)
      /\ r2 \in TransactionRecords /\ r2.name = "TokenNetworkRegistry" /\ Executed(r2)
      /\ r3 \in TransactionRecords /\ r3.name = "ServiceRegistry" /\ Executed(r3)
  BY <1>2, <1>3 DEF ContractNames, RaidenContracts, ServiceContracts
<1>5. R = <<r1, r2, r3>>
  BY DEF ReleaseTransactions
<1>. HIDE DEF r1, r2, r3
<1>. QED BY <1>4, <1>5

LEMMA ReleaseDocumentSound ==
  ASSUME NEW T \in Ledgers, NEW R \in Seq(TransactionRecords), Len(R) = 3,
         T[ReleaseChain][Releaser] = R, \A i \in 1 .. 3 : Executed(R[i]),
         NEW nonces, nonces \subseteq 1 .. 3, \A n \in nonces : R[n].name \in ContractNames
  PROVE  DocumentSound(T, ReleaseDocument(R, nonces))
<1> DEFINE d == ReleaseDocument(R, nonces)
           at1(name) == CHOOSE n \in nonces : R[n].name = name
           contracts == [name \in {R[n].name : n \in nonces} |-> ReleaseEntry(R, at1(name))]
<1>1. ReleaseChain \in Chains /\ Releaser \in Senders
  BY DeploymentAssumption DEF Senders
<1>2. /\ DOMAIN d = {"chain_id", "contracts", "token_networks"}
      /\ d.chain_id = ReleaseChain /\ d.contracts = contracts
  BY DEF ReleaseDocument, NoDocument
<1>3. ASSUME NEW name \in {R[n].name : n \in nonces}
      PROVE  name \in ContractNames /\ EntrySound(T, name, ReleaseEntry(R, at1(name)))
  <2>1. at1(name) \in nonces /\ R[at1(name)].name = name
    OBVIOUS
  <2>. HIDE DEF at1
  <2>2. at1(name) \in 1 .. 3 /\ at1(name) \in 1 .. Len(T[ReleaseChain][Releaser])
    BY <2>1
  <2>3. EntrySound(T, T[ReleaseChain][Releaser][at1(name)].name,
                   DeployedData([chain |-> ReleaseChain, from |-> Releaser, nonce |-> at1(name)],
                                T[ReleaseChain][Releaser][at1(name)].args))
    BY <1>1, <2>2, DeployedSound
  <2>. QED BY <2>1, <2>3 DEF ReleaseEntry
<1>4. /\ DOMAIN contracts = {R[n].name : n \in nonces}
      /\ \A name \in DOMAIN contracts : contracts[name] = ReleaseEntry(R, at1(name))
  OBVIOUS
<1>. HIDE DEF d, contracts, at1
<1>5. DOMAIN d.contracts \subseteq ContractNames
  BY <1>2, <1>3, <1>4
<1>6. \A name \in DOMAIN d.contracts : EntrySound(T, name, d.contracts[name])
  BY <1>2, <1>3, <1>4
<1>. QED BY <1>1, <1>2, <1>5, <1>6 DEF DocumentSound, d

LEMMA InitSound == Init => DeploymentInv
<1> SUFFICES ASSUME Init PROVE DeploymentInv
  OBVIOUS
<1>1. PICK code \in {"current", "older"}, token \in Tokens, settle \in SettleTimeouts :
        LET R == ReleaseTransactions(code, token, settle)
        IN  /\ txs = [c \in Chains |-> [p \in Senders |->
                        IF c = ReleaseChain /\ p = Releaser THEN R ELSE <<>>]]
            /\ files = [path \in Paths \cup Released |->
                          IF path \in Paths THEN Missing
                          ELSE ReleaseDocument(R, IF path[2] = "raiden" THEN {1, 2} ELSE {3})]
  BY DEF Init
<1> DEFINE R == ReleaseTransactions(code, token, settle)
<1>2. /\ R \in Seq(TransactionRecords) /\ Len(R) = 3
      /\ R[1].name = "SecretRegistry" /\ R[2].name = "TokenNetworkRegistry"
      /\ R[3].name = "ServiceRegistry" /\ \A i \in 1 .. 3 : Executed(R[i])
  BY ReleaseSound
<1>3. /\ txs = [c \in Chains |-> [p \in Senders |->
                  IF c = ReleaseChain /\ p = Releaser THEN R ELSE <<>>]]
      /\ files = [path \in Paths \cup Released |->
                    IF path \in Paths THEN Missing
                    ELSE ReleaseDocument(R, IF path[2] = "raiden" THEN {1, 2} ELSE {3})]
  BY <1>1
<1>. HIDE DEF R
<1>4. txs \in Ledgers
  BY <1>2, <1>3 DEF Ledgers
<1>5. txs[ReleaseChain][Releaser] = R
  BY <1>3, DeploymentAssumption DEF Senders
<1>6. InitOnce(txs)
  <2> SUFFICES ASSUME NEW c \in Chains, NEW a \in Address, NEW hash \in CallsIn(txs, c, "init", a)
      PROVE  FALSE
    BY DEF InitOnce
  <2>1. /\ hash.from \in Senders /\ hash.nonce \in 1 .. Len(txs[c][hash.from])
        /\ txs[c][hash.from][hash.nonce].name = "init"
    BY DEF CallsIn
  <2>2. txs[c][hash.from] \in {R, <<>>}
    BY <1>3, <2>1
  <2>3. txs[c][hash.from] = R /\ hash.nonce \in 1 .. 3
    BY <1>2, <2>1, <2>2
  <2>. QED BY <1>2, <2>1, <2>3
<1>7. FilesSound(txs, files)
  <2>1. \A n \in 1 .. 3 : R[n].name \in ContractNames
    BY <1>2 DEF ContractNames, RaidenContracts, ServiceContracts
  <2>a. ASSUME NEW nonces, nonces \subseteq 1 .. 3
        PROVE  DocumentSound(txs, ReleaseDocument(R, nonces))
    <3>1. /\ R \in Seq(TransactionRecords) /\ Len(R) = 3
          /\ \A i \in 1 .. 3 : Executed(R[i])
      BY <1>2
    <3>2. \A n \in nonces : R[n].name \in ContractNames
      BY <2>1, <2>a
    <3>. QED BY <1>4, <1>5, <2>a, <3>1, <3>2, ReleaseDocumentSound
  <2>b. {1, 2} \subseteq 1 .. 3 /\ {3} \subseteq 1 .. 3
    OBVIOUS
  <2>2. /\ DocumentSound(txs, ReleaseDocument(R, {1, 2}))
        /\ DocumentSound(txs, ReleaseDocument(R, {3}))
    BY <2>a, <2>b
  <2>3. ~Readable(Missing)
    BY DEF Readable
  <2>. QED BY <1>3, <2>2, <2>3 DEF FilesSound, FileSound
<1>8. /\ at = [p \in Operators |-> "idle"] /\ cmd = [p \in Operators |-> NoCommand]
      /\ doc = [p \in Operators |-> Missing] /\ step = [p \in Operators |-> 0]
  BY DEF Init
<1>9. \A p \in Operators : CommandSound(txs, p, at[p], cmd[p], doc[p], step[p])
  BY <1>8 DEF CommandSound
<1>. QED BY <1>4, <1>6, <1>7, <1>8, <1>9 DEF DeploymentInv, Places

LEMMA DeploymentStep == DeploymentInv /\ [Next]_vars => DeploymentInv'
<1> SUFFICES ASSUME DeploymentInv, [Next]_vars PROVE DeploymentInv'
  OBVIOUS
<1>1. ASSUME NEW p \in Operators, NEW command \in CommandLines, Begin(p, command)
      PROVE  DeploymentInv'
  BY <1>1, BeginStep
<1>2. ASSUME NEW p \in Operators, Proceed(p) PROVE DeploymentInv'
  BY <1>2, SendStep, RetryStep, EndSteps, ReceiveStep, RegisterSteps, AddTokenNetworkStep, StoreSteps,
     VerifyStep, CheckStep DEF Proceed
<1>3. ASSUME NEW p \in Operators, Crash(p) \/ Finish(p) PROVE DeploymentInv'
  BY <1>3, EndSteps, FinishStep
<1>4. ASSUME NEW c \in Chains, NEW p \in Operators, Mine(c, p) PROVE DeploymentInv'
  BY <1>4, MineStep
<1>5. CASE UNCHANGED vars
  BY <1>5, InvParts DEF vars, DeploymentInv
<1>. QED BY <1>1, <1>2, <1>3, <1>4, <1>5 DEF Next

\* Whatever the operators run, crash and repeat, and whenever their transactions are
\* mined, each command knows what the chain and the files hold.
THEOREM DeploymentInvariance == Spec => []DeploymentInv
BY InitSound, DeploymentStep, PTL DEF Spec

(***************************************************************************)
(* What follows from it.                                                   *)
(***************************************************************************)
LEMMA InvWired == DeploymentInv => SuccessMeansWired
<1> SUFFICES ASSUME DeploymentInv, NEW p \in Operators, at[p] = "done", cmd[p].name # "token"
    PROVE  IF cmd[p].name = "services" THEN ServicesWired(cmd[p].chain, doc[p].contracts)
           ELSE RaidenWired(cmd[p].chain, doc[p].contracts)
  BY DEF SuccessMeansWired
<1> DEFINE c == cmd[p].chain
           contracts == doc[p].contracts
<1>1. CommandSound(txs, p, "done", cmd[p], doc[p], step[p])
  BY InvParts
<1>2. /\ Complete(txs, cmd[p], doc[p]) /\ WiredIn(txs, cmd[p], doc[p])
      /\ cmd[p] \in CommandRecords
  BY <1>1 DEF CommandSound
<1>3. c \in Chains /\ txs \in Ledgers
  BY <1>2, CommandFields, InvParts
<1>4. ASSUME NEW a \in Address, NEW name \in ContractNames, CurrentIn(txs, c, a, name)
      PROVE  IsCurrent(c, a, name)
  <2>1. txs[c][a.from] \in Seq(TransactionRecords)
    BY <1>3 DEF Ledgers, Address
  <2>. QED BY <1>4, <2>1 DEF CurrentIn, ContractIn, IsCurrent, IsContract, HasCode
<1>5. \A name \in ContractsOf(ModuleOf(cmd[p])) : contracts[name].address \in Address
  BY <1>2, CompleteAddresses
<1>6. CASE cmd[p].name = "services"
  <2>1. ServicesWiredIn(txs, c, contracts)
    BY <1>2, <1>6 DEF WiredIn
  <2>2. \A name \in ServiceContracts : IsCurrent(c, contracts[name].address, name)
    BY <1>4, <1>5, <1>6, <2>1 DEF ServicesWiredIn, ContractsOf, ModuleOf, ContractNames
  <2>3. Calls(c, "init", contracts["UserDeposit"].address)
          = CallsIn(txs, c, "init", contracts["UserDeposit"].address)
    BY <1>3, SameCalls
  <2>. QED BY <1>6, <2>1, <2>2, <2>3 DEF ServicesWiredIn, ServicesWired, Args, ArgsIn
<1>7. CASE cmd[p].name # "services"
  <2>1. RaidenWiredIn(txs, c, contracts)
    BY <1>2, <1>7 DEF WiredIn
  <2>2. /\ contracts["TokenNetworkRegistry"].address \in Address
        /\ contracts["SecretRegistry"].address \in Address
    BY <1>5, <1>7 DEF ContractsOf, ModuleOf, RaidenContracts
  <2>. QED BY <1>4, <1>7, <2>1, <2>2 DEF RaidenWiredIn, RaidenWired, Args, ArgsIn, ContractNames,
       RaidenContracts
<1>. QED BY <1>6, <1>7

\* A deployment command that reports success stands on contracts of its own chain, of
\* this version, that refer to each other: whatever else the operators run, crash and
\* repeat, and whichever contracts are reused.
THEOREM DeploymentSuccess == Spec => []SuccessMeansWired
BY DeploymentInvariance, InvWired, PTL

LEMMA InvTyped == DeploymentInv => TypeOK
<1> SUFFICES ASSUME DeploymentInv PROVE TypeOK
  OBVIOUS
<1>1. ASSUME NEW c \in Chains, NEW p \in Senders, NEW i \in DOMAIN txs[c][p]
      PROVE  /\ txs[c][p][i].status \in {"pending", "mined", "spent", "reverted"}
             /\ txs[c][p][i].to \in Address
  <2>1. txs[c][p] \in Seq(TransactionRecords)
    BY InvParts DEF Ledgers
  <2>2. txs[c][p][i] \in TransactionRecords
    BY <2>1
  <2>. QED BY <2>2 DEF TransactionRecords
<1>2. DOMAIN files = Paths \cup Released
  BY InvParts DEF FilesSound
<1>3. at \in [Operators -> Places]
  BY InvParts
<1>4. ASSUME NEW p \in Operators
      PROVE  /\ step[p] \in 0 .. 5
             /\ IF at[p] = "idle" THEN step[p] = 0 /\ cmd[p] = NoCommand
                ELSE cmd[p].name \in Commands
  <2>1. CommandSound(txs, p, at[p], cmd[p], doc[p], step[p])
    BY InvParts
  <2>. QED BY <2>1 DEF CommandSound
<1>5. step \in [Operators -> 0 .. 5]
  <2>1. step = [q \in Operators |-> step[q]]
    BY InvParts
  <2>. QED BY <1>4, <2>1
<1>. QED BY <1>1, <1>2, <1>3, <1>4, <1>5 DEF TypeOK, Places

LEMMA InvDescribes == DeploymentInv => FilesDescribeContracts
<1> SUFFICES ASSUME DeploymentInv, NEW path \in DOMAIN files, Readable(files[path]),
                    NEW name \in DOMAIN files[path].contracts, NEW entry,
                    entry = files[path].contracts[name]
    PROVE  /\ entry.address = address(entry.transaction_hash)
           /\ IsContract(entry.transaction_hash.chain, entry.address, name)
           /\ Args(entry.transaction_hash.chain, entry.address) = entry.constructor_arguments
  BY DEF FilesDescribeContracts
<1>1. DocumentSound(txs, files[path]) /\ txs \in Ledgers
  BY InvParts DEF FilesSound, FileSound
<1>2. name \in ContractNames /\ EntrySound(txs, name, entry)
  BY <1>1 DEF DocumentSound
<1>3. entry.transaction_hash.chain \in Chains /\ entry.address \in Address
  BY <1>2 DEF EntrySound, Entries, Hashes
<1> DEFINE c == entry.transaction_hash.chain
           a == entry.address
<1>4. DOMAIN txs[c][a.from] = 1 .. Len(txs[c][a.from])
  BY <1>1, <1>3 DEF Ledgers, Address
<1>5. ContractIn(txs, c, a, name) /\ ArgsIn(txs, c, a) = entry.constructor_arguments
  BY <1>2 DEF EntrySound
<1>6. IsContract(c, a, name)
  BY <1>2, <1>4, <1>5 DEF ContractIn, IsContract, HasCode
<1>. QED BY <1>2, <1>5, <1>6 DEF EntrySound, ArgsIn, Args

LEMMA InvMerge == DeploymentInv => ModulesMerge
<1> SUFFICES ASSUME DeploymentInv, NEW c \in Chains, NEW raiden, NEW services,
                    raiden = files[contracts_deployed_path(c, "raiden")],
                    services = files[contracts_deployed_path(c, "services")],
                    Corrupted \notin {raiden, services},
                    (Readable(raiden) /\ Readable(services))
                       => raiden.chain_id = services.chain_id
    PROVE  get_contracts_deployment_info(files, c) # Corrupted
  BY DEF ModulesMerge
<1>1. ASSUME NEW module \in Modules
      PROVE  /\ contracts_deployed_path(c, module) \in DOMAIN files
             /\ contracts_deployed_path(c, module) \in Paths
             /\ contracts_deployed_path(c, module)[2] = module
  BY InvParts DEF FilesSound, contracts_deployed_path, Paths
<1>2. Readable(raiden) => /\ DocumentSound(txs, raiden)
                          /\ DOMAIN raiden.contracts = RaidenContracts
  BY <1>1, InvParts DEF FilesSound, FileSound, ContractsOf, Modules
<1>3. Readable(services) => /\ DocumentSound(txs, services)
                            /\ DOMAIN services.contracts = ServiceContracts
  BY <1>1, InvParts DEF FilesSound, FileSound, ContractsOf, Modules
<1>4. ASSUME NEW d, DocumentSound(txs, d)
      PROVE  /\ Chosen(d) \notin {Missing, Corrupted}
             /\ Chosen(d).chain_id = d.chain_id /\ Chosen(d).contracts = d.contracts
  <2>1. DOMAIN Chosen(d) = DOMAIN d /\ "chain_id" \in DOMAIN d
    BY <1>4 DEF DocumentSound, Chosen
  <2>2. "chain_id" \notin DOMAIN Missing /\ "chain_id" \notin DOMAIN Corrupted
    BY DEF Missing, Corrupted
  <2>3. Chosen(d).chain_id = d.chain_id /\ Chosen(d).contracts = d.contracts
    BY <1>4 DEF DocumentSound, Chosen
  <2>. QED BY <2>1, <2>2, <2>3
<1>5. Missing # Corrupted
  BY DEF Missing, Corrupted
<1> DEFINE r == ModuleInfo(files, c, "raiden")
           s == ModuleInfo(files, c, "services")
<1>6. /\ r = IF Readable(raiden) THEN Chosen(raiden) ELSE raiden
      /\ s = IF Readable(services) THEN Chosen(services) ELSE services
  BY DEF ModuleInfo
<1>7. r # Corrupted /\ s # Corrupted
  BY <1>2, <1>3, <1>4, <1>6 DEF Readable
<1>8. r # Missing => Readable(raiden) /\ r = Chosen(raiden)
  BY <1>6, <1>7 DEF Readable
<1>9. s # Missing => Readable(services) /\ s = Chosen(services)
  BY <1>6, <1>7 DEF Readable
<1>10. ASSUME r # Missing, s # Missing
       PROVE  Mergeable(r, s) /\ merge_deployment_data(r, s) # Corrupted
  <2>1. /\ r.contracts = raiden.contracts /\ s.contracts = services.contracts
        /\ r.chain_id = raiden.chain_id /\ s.chain_id = services.chain_id
        /\ raiden.chain_id = services.chain_id
    BY <1>2, <1>3, <1>4, <1>8, <1>9, <1>10
  <2>2. RaidenContracts \cap ServiceContracts = {}
    BY DEF RaidenContracts, ServiceContracts
  <2>3. Mergeable(r, s)
    BY <1>2, <1>3, <1>8, <1>9, <1>10, <2>1, <2>2 DEF Mergeable
  <2>4. /\ "chain_id" \in DOMAIN merge_deployment_data(r, s)
        /\ "chain_id" \notin DOMAIN Corrupted
    BY DEF merge_deployment_data, Corrupted
  <2>. QED BY <2>3, <2>4
<1>11. get_contracts_deployment_info(files, c)
         = IF r = Missing THEN s ELSE IF s = Missing THEN r
           ELSE IF Mergeable(r, s) THEN merge_deployment_data(r, s) ELSE Corrupted
  <2>. HIDE DEF r, s
  <2>1. Corrupted \notin {r, s}
    BY <1>7
  <2>. QED BY <1>5, <2>1 DEF get_contracts_deployment_info, r, s
<1>. HIDE DEF r, s
<1>. QED BY <1>7, <1>10, <1>11

\* Whatever the commands do, crash or repeat, on whatever chains: each contract a
\* deployment file lists was deployed by the transaction it names, at the address and
\* with the arguments it gives, and the files of a chain's modules can be merged.
THEOREM FilesSafety == Spec => []FilesAreSound
<1>1. DeploymentInv => FilesAreSound
  BY InvTyped, InvDescribes, InvMerge DEF FilesAreSound
<1>. QED BY DeploymentInvariance, <1>1, PTL

\* Where every chain has a name of its own, its files hold what was deployed on it,
\* and nothing else; private chains share a name, and their files.
FilesOfTheChain ==
  \A c \in Chains, module \in Modules :
    LET file == files[contracts_deployed_path(c, module)]
    IN  Readable(file) => file.chain_id = c

\* Where every chain has a name of its own, no command of any operator leaves the
\* deployment of one chain in the file of another.
THEOREM NamedChains ==
  ASSUME \A c, d \in Chains : ID_TO_CHAINNAME[c] = ID_TO_CHAINNAME[d] => c = d
  PROVE  Spec => []FilesOfTheChain
<1>1. ASSUME DeploymentInv PROVE FilesOfTheChain
  <2> SUFFICES ASSUME NEW c \in Chains, NEW module \in Modules, NEW file,
                      file = files[contracts_deployed_path(c, module)], Readable(file)
      PROVE  file.chain_id = c
    BY DEF FilesOfTheChain
  <2>1. /\ contracts_deployed_path(c, module) \in DOMAIN files
        /\ contracts_deployed_path(c, module) \in Paths
        /\ contracts_deployed_path(c, module)[1] = ID_TO_CHAINNAME[c]
    BY <1>1, InvParts DEF FilesSound, contracts_deployed_path, Paths
  <2>2. DocumentSound(txs, file) /\ ID_TO_CHAINNAME[file.chain_id] = ID_TO_CHAINNAME[c]
    BY <1>1, <2>1, InvParts DEF FilesSound, FileSound
  <2>. QED BY <2>2 DEF DocumentSound
<1>. QED BY DeploymentInvariance, <1>1, PTL

(***************************************************************************)
(* Etherscan: the explorer passes a contract with its own source only, and *)
(* a runner goes on to the next contract when the explorer has passed one. *)
(***************************************************************************)
RunnerPlaces == {"idle", "join", "read", "submit", "poll", "ok", "failed"}

VerdictsSound ==
  \A c \in Explorer!Deployed, s \in Explorer!Sources :
    verdict[c][s] = "pass" => s = SourceOf[c]

PassedOwn(i) == verdict[CONTRACT_LIST[i]][SourceOf[CONTRACT_LIST[i]]] = "pass"

ExplorerInv ==
  /\ verdict \in [Explorer!Deployed -> [Explorer!Sources -> {"none", "pending", "pass", "fail"}]]
  /\ joined \in Explorer!Sources \cup {"none"}
  /\ runnerAt \in [Runners -> RunnerPlaces]
  /\ wanted \in [Runners -> SUBSET DOMAIN CONTRACT_LIST]
  /\ left \in [Runners -> SUBSET DOMAIN CONTRACT_LIST]
  /\ joinedSource \in [Runners -> Explorer!Sources \cup {"none"}]
  /\ retries \in [Runners -> 0 .. Retries]
  /\ VerdictsSound
  /\ \A p \in Runners :
       /\ runnerAt[p] \notin {"idle", "ok"} => left[p] # {}
       /\ runnerAt[p] = "ok" => left[p] = {}
       /\ runnerAt[p] = "read" => joined \in Explorer!Sources
       /\ runnerAt[p] \in {"submit", "poll"} => joinedSource[p] \in Explorer!Sources
       /\ runnerAt[p] = "poll" => retries[p] > 0
       /\ \A i \in wanted[p] \ left[p] : PassedOwn(i)

LEMMA LeastElement ==
  ASSUME NEW L, L \subseteq Nat, L # {}
  PROVE  \E i \in L : \A j \in L : i <= j
<1> SUFFICES ASSUME \A i \in L : \E j \in L : ~(i <= j) PROVE FALSE
  OBVIOUS
<1> DEFINE S == {n \in Nat : \A j \in L : n < j}
<1>1. 0 \in S
  OBVIOUS
<1>2. \A n \in S \cap Nat : n + 1 \in S
  <2> SUFFICES ASSUME NEW n \in Nat, \A j \in L : n < j, NEW j \in L PROVE n + 1 < j
    OBVIOUS
  <2>1. n + 1 \in L => \E k \in L : k < n + 1
    OBVIOUS
  <2>2. n + 1 \notin L
    BY <2>1
  <2>. QED BY <2>2
<1>. HIDE DEF S
<1>3. Nat \subseteq S
  BY <1>1, <1>2, NatSetInduction
<1>4. PICK j \in L : TRUE
  OBVIOUS
<1>5. j \in S
  BY <1>3
<1>. QED BY <1>4, <1>5 DEF S

LEMMA ExplorerTypes ==
  ASSUME Explorer!EtherscanAssumption
  PROVE  /\ DOMAIN CONTRACT_LIST \subseteq Nat /\ DOMAIN CONTRACT_LIST # {}
         /\ \A i \in DOMAIN CONTRACT_LIST :
              CONTRACT_LIST[i] \in Explorer!Deployed /\ SourceOf[CONTRACT_LIST[i]] \in Explorer!Sources
         /\ Retries \in Nat /\ Retries > 0
<1>1. /\ CONTRACT_LIST \in Seq(DOMAIN SourceOf) /\ CONTRACT_LIST # <<>>
      /\ Retries \in Nat /\ Retries > 0
  BY DEF Explorer!EtherscanAssumption
<1>2. DOMAIN CONTRACT_LIST = 1 .. Len(CONTRACT_LIST) /\ Len(CONTRACT_LIST) \in Nat \ {0}
  BY <1>1
<1>3. DOMAIN CONTRACT_LIST \subseteq Nat /\ DOMAIN CONTRACT_LIST # {}
  BY <1>2
<1>4. \A i \in DOMAIN CONTRACT_LIST :
        CONTRACT_LIST[i] \in Explorer!Deployed /\ SourceOf[CONTRACT_LIST[i]] \in Explorer!Sources
  BY DEF Explorer!Deployed, Explorer!Sources
<1>. QED BY <1>1, <1>3, <1>4

LEMMA CurrentContract ==
  ASSUME Explorer!EtherscanAssumption, ExplorerInv, NEW p \in Runners, left[p] # {}
  PROVE  /\ Explorer!Position(p) \in left[p] /\ Explorer!Position(p) \in DOMAIN CONTRACT_LIST
         /\ Explorer!Current(p) = CONTRACT_LIST[Explorer!Position(p)]
         /\ Explorer!Current(p) \in Explorer!Deployed
         /\ SourceOf[Explorer!Current(p)] \in Explorer!Sources
<1>1. left[p] \subseteq DOMAIN CONTRACT_LIST
  BY DEF ExplorerInv
<1>2. \E i \in left[p] : \A j \in left[p] : i <= j
  BY <1>1, ExplorerTypes, LeastElement
<1>3. Explorer!Position(p) \in left[p]
  BY <1>2 DEF Explorer!Position
<1>. QED BY <1>1, <1>3, ExplorerTypes DEF Explorer!Current

LEMMA ExplorerStarts ==
  ASSUME Explorer!EtherscanAssumption, Explorer!Init PROVE ExplorerInv
BY ExplorerTypes DEF Explorer!Init, ExplorerInv, RunnerPlaces, VerdictsSound, PassedOwn, Explorer!NoSource

\* A runner that goes from one place to another; only what is its own changes.
RunnerMoves(p) ==
  /\ runnerAt' \in [Runners -> RunnerPlaces]
  /\ wanted' \in [Runners -> SUBSET DOMAIN CONTRACT_LIST]
  /\ left' \in [Runners -> SUBSET DOMAIN CONTRACT_LIST]
  /\ joinedSource' \in [Runners -> Explorer!Sources \cup {"none"}]
  /\ retries' \in [Runners -> 0 .. Retries]
  /\ \A q \in Runners \ {p} :
       /\ runnerAt'[q] = runnerAt[q] /\ wanted'[q] = wanted[q] /\ left'[q] = left[q]
       /\ joinedSource'[q] = joinedSource[q] /\ retries'[q] = retries[q]

RunnerSound(p, place, wants, leaves, has, tries) ==
  /\ place \notin {"idle", "ok"} => leaves # {}
  /\ place = "ok" => leaves = {}
  /\ place = "read" => joined \in Explorer!Sources
  /\ place \in {"submit", "poll"} => has \in Explorer!Sources
  /\ place = "poll" => tries > 0
  /\ \A i \in wants \ leaves : PassedOwn(i)

LEMMA RunnerGoesOn ==
  ASSUME ExplorerInv, NEW p \in Runners, RunnerMoves(p), UNCHANGED <<verdict, joined>>,
         RunnerSound(p, runnerAt'[p], wanted'[p], left'[p], joinedSource'[p], retries'[p])
  PROVE  ExplorerInv'
<1>1. ASSUME NEW q \in Runners
      PROVE  RunnerSound(q, runnerAt'[q], wanted'[q], left'[q], joinedSource'[q], retries'[q])
  BY DEF RunnerMoves, RunnerSound, ExplorerInv
<1>2. VerdictsSound' /\ \A i : PassedOwn(i)' <=> PassedOwn(i)
  BY DEF VerdictsSound, PassedOwn, ExplorerInv
<1>. QED BY <1>1, <1>2 DEF ExplorerInv, RunnerMoves, RunnerSound

LEMMA ExplorerParts ==
  ASSUME ExplorerInv
  PROVE  /\ runnerAt \in [Runners -> RunnerPlaces]
         /\ wanted \in [Runners -> SUBSET DOMAIN CONTRACT_LIST]
         /\ left \in [Runners -> SUBSET DOMAIN CONTRACT_LIST]
         /\ joinedSource \in [Runners -> Explorer!Sources \cup {"none"}]
         /\ retries \in [Runners -> 0 .. Retries]
         /\ \A p \in Runners :
              RunnerSound(p, runnerAt[p], wanted[p], left[p], joinedSource[p], retries[p])
BY DEF ExplorerInv, RunnerSound

LEMMA RunnerGoes ==
  ASSUME ExplorerInv, NEW p \in Runners, NEW place \in RunnerPlaces, Explorer!GoTo(p, place)
  PROVE  /\ runnerAt' \in [Runners -> RunnerPlaces] /\ runnerAt'[p] = place
         /\ \A q \in Runners \ {p} : runnerAt'[q] = runnerAt[q]
BY ExplorerParts DEF Explorer!GoTo

LEMMA ExplorerBegin ==
  ASSUME Explorer!EtherscanAssumption, ExplorerInv, NEW p \in Runners,
         NEW request \in Explorer!Requests, Explorer!Begin(p, request)
  PROVE  ExplorerInv'
<1>1. request \subseteq DOMAIN CONTRACT_LIST /\ request # {}
  BY ExplorerTypes DEF Explorer!Requests, Explorer!RequestsNamed, Explorer!Sources,
     Explorer!Deployed
<1>2. /\ Explorer!GoTo(p, "join") /\ UNCHANGED <<verdict, joined, joinedSource, retries>>
      /\ wanted' = [wanted EXCEPT ![p] = request] /\ left' = [left EXCEPT ![p] = request]
  BY DEF Explorer!Begin
<1>3. /\ runnerAt' \in [Runners -> RunnerPlaces] /\ runnerAt'[p] = "join"
      /\ \A q \in Runners \ {p} : runnerAt'[q] = runnerAt[q]
  BY <1>2, RunnerGoes DEF RunnerPlaces
<1>4. RunnerMoves(p) /\ wanted'[p] = request /\ left'[p] = request
  BY <1>1, <1>2, <1>3, ExplorerParts DEF RunnerMoves
<1>5. RunnerSound(p, "join", request, request, joinedSource'[p], retries'[p])
  BY <1>1 DEF RunnerSound
<1>. QED BY <1>2, <1>3, <1>4, <1>5, RunnerGoesOn

LEMMA ExplorerJoin ==
  ASSUME Explorer!EtherscanAssumption, ExplorerInv, NEW p \in Runners, Explorer!JoinContracts(p)
  PROVE  ExplorerInv'
<1>1. /\ runnerAt[p] = "join" /\ Explorer!GoTo(p, "read")
      /\ joined' = SourceOf[Explorer!Current(p)]
      /\ UNCHANGED <<verdict, wanted, left, joinedSource, retries>>
  BY DEF Explorer!JoinContracts
<1>2. left[p] # {}
  BY <1>1, ExplorerParts DEF RunnerSound
<1>3. joined' \in Explorer!Sources
  BY <1>1, <1>2, CurrentContract
<1>4. /\ runnerAt' \in [Runners -> RunnerPlaces] /\ runnerAt'[p] = "read"
      /\ \A q \in Runners \ {p} : runnerAt'[q] = runnerAt[q]
  BY <1>1, RunnerGoes DEF RunnerPlaces
<1>5. VerdictsSound' /\ \A i : PassedOwn(i)' <=> PassedOwn(i)
  BY <1>1 DEF VerdictsSound, PassedOwn, ExplorerInv
<1>. QED BY <1>1, <1>2, <1>3, <1>4, <1>5 DEF ExplorerInv

LEMMA ExplorerRead ==
  ASSUME ExplorerInv, NEW p \in Runners, Explorer!ReadJoined(p)
  PROVE  ExplorerInv'
<1>1. /\ runnerAt[p] = "read" /\ Explorer!GoTo(p, "submit")
      /\ joinedSource' = [joinedSource EXCEPT ![p] = joined]
      /\ UNCHANGED <<verdict, joined, wanted, left, retries>>
  BY DEF Explorer!ReadJoined
<1>2. /\ runnerAt' \in [Runners -> RunnerPlaces] /\ runnerAt'[p] = "submit"
      /\ \A q \in Runners \ {p} : runnerAt'[q] = runnerAt[q]
  BY <1>1, RunnerGoes DEF RunnerPlaces
<1>3. RunnerSound(p, "read", wanted[p], left[p], joinedSource[p], retries[p])
  BY <1>1, ExplorerParts
<1>4. joined \in Explorer!Sources /\ joinedSource'[p] = joined
  BY <1>1, <1>3, ExplorerParts DEF RunnerSound
<1>5. RunnerMoves(p)
  BY <1>1, <1>2, <1>4, ExplorerParts DEF RunnerMoves
<1>6. RunnerSound(p, "submit", wanted[p], left[p], joined, retries[p])
  BY <1>3, <1>4 DEF RunnerSound
<1>. QED BY <1>1, <1>2, <1>4, <1>5, <1>6, RunnerGoesOn

\* The contract that is done with has been passed with its own source.
LEMMA RunnerNext ==
  ASSUME Explorer!EtherscanAssumption, ExplorerInv, NEW p \in Runners,
         runnerAt[p] \in {"submit", "poll"}, Explorer!NextContract(p),
         Explorer!AlreadyVerified(Explorer!Current(p)),
         UNCHANGED <<verdict, joined, wanted, joinedSource>>,
         retries' \in [Runners -> 0 .. Retries],
         \A q \in Runners \ {p} : retries'[q] = retries[q]
  PROVE  ExplorerInv'
<1> DEFINE i == Explorer!Position(p)
           place == IF left[p] = {i} THEN "ok" ELSE "join"
<1>1. RunnerSound(p, runnerAt[p], wanted[p], left[p], joinedSource[p], retries[p])
  BY ExplorerParts
<1>2. left[p] # {}
  BY <1>1 DEF RunnerSound
<1>3. /\ i \in left[p] /\ i \in DOMAIN CONTRACT_LIST
      /\ Explorer!Current(p) = CONTRACT_LIST[i]
      /\ Explorer!Current(p) \in Explorer!Deployed
  BY <1>2, CurrentContract
<1>4. PassedOwn(i)
  BY <1>3 DEF Explorer!AlreadyVerified, ExplorerInv, VerdictsSound, PassedOwn
<1>5. /\ left' = [left EXCEPT ![p] = @ \ {i}] /\ Explorer!GoTo(p, place)
      /\ place \in {"ok", "join"}
  BY DEF Explorer!NextContract
<1>6. /\ runnerAt' \in [Runners -> RunnerPlaces] /\ runnerAt'[p] = place
      /\ \A q \in Runners \ {p} : runnerAt'[q] = runnerAt[q]
  BY <1>5, RunnerGoes DEF RunnerPlaces
<1>7. left'[p] = left[p] \ {i} /\ RunnerMoves(p)
  BY <1>5, <1>6, ExplorerParts DEF RunnerMoves
<1>8. RunnerSound(p, place, wanted[p], left[p] \ {i}, joinedSource[p], retries'[p])
  BY <1>1, <1>3, <1>4, <1>5 DEF RunnerSound
<1>. QED BY <1>6, <1>7, <1>8, RunnerGoesOn

LEMMA VerdictTyped ==
  ASSUME ExplorerInv, NEW c \in Explorer!Deployed, NEW s \in Explorer!Sources,
         NEW result \in {"none", "pending", "pass", "fail"},
         verdict' = [verdict EXCEPT ![c][s] = result],
         verdict[c][s] # "pass", result = "pass" => s = SourceOf[c]
  PROVE  /\ verdict' \in [Explorer!Deployed -> [Explorer!Sources -> {"none", "pending", "pass", "fail"}]]
         /\ VerdictsSound'
         /\ \A i \in DOMAIN CONTRACT_LIST : PassedOwn(i) => PassedOwn(i)'
<1>1. verdict \in [Explorer!Deployed -> [Explorer!Sources -> {"none", "pending", "pass", "fail"}]]
  BY DEF ExplorerInv
<1>2. \A d \in Explorer!Deployed, t \in Explorer!Sources :
        verdict'[d][t] = IF d = c /\ t = s THEN result ELSE verdict[d][t]
  BY <1>1
<1>3. VerdictsSound'
  BY <1>2 DEF VerdictsSound, ExplorerInv
<1>4. \A i \in DOMAIN CONTRACT_LIST : PassedOwn(i) => PassedOwn(i)'
  <2> SUFFICES ASSUME NEW i \in DOMAIN CONTRACT_LIST, PassedOwn(i) PROVE PassedOwn(i)'
    OBVIOUS
  <2>1. CONTRACT_LIST[i] \in Explorer!Deployed /\ SourceOf[CONTRACT_LIST[i]] \in Explorer!Sources
    BY DEF Explorer!Deployed, Explorer!Sources
  <2>. QED BY <1>2, <2>1 DEF PassedOwn
<1>. QED BY <1>1, <1>3, <1>4

LEMMA ExplorerSubmit ==
  ASSUME Explorer!EtherscanAssumption, ExplorerInv, NEW p \in Runners, Explorer!Submit(p)
  PROVE  ExplorerInv'
<1> DEFINE c == Explorer!Current(p)
           s == joinedSource[p]
<1>1. runnerAt[p] = "submit" /\ UNCHANGED <<joined, wanted, joinedSource>>
  BY DEF Explorer!Submit
<1>2. RunnerSound(p, "submit", wanted[p], left[p], s, retries[p])
  BY <1>1, ExplorerParts
<1>3. left[p] # {} /\ s \in Explorer!Sources
  BY <1>2 DEF RunnerSound
<1>4. c \in Explorer!Deployed
  BY <1>3, CurrentContract
<1>5. CASE /\ Explorer!AlreadyVerified(c)
           /\ Explorer!NextContract(p) /\ UNCHANGED <<verdict, retries>>
  BY <1>1, <1>5, ExplorerParts, RunnerNext
<1>6. CASE /\ ~Explorer!AlreadyVerified(c)
           /\ verdict' = [verdict EXCEPT ![c][s] = "pending"]
           /\ retries' = [retries EXCEPT ![p] = Retries]
           /\ Explorer!GoTo(p, "poll") /\ UNCHANGED left
  <2>1. verdict[c][s] # "pass"
    BY <1>3, <1>6 DEF Explorer!AlreadyVerified
  <2>2. /\ verdict' \in [Explorer!Deployed -> [Explorer!Sources -> {"none", "pending", "pass", "fail"}]]
        /\ VerdictsSound'
        /\ \A i \in DOMAIN CONTRACT_LIST : PassedOwn(i) => PassedOwn(i)'
    BY <1>3, <1>4, <1>6, <2>1, VerdictTyped
  <2>3. /\ runnerAt' \in [Runners -> RunnerPlaces] /\ runnerAt'[p] = "poll"
        /\ \A q \in Runners \ {p} : runnerAt'[q] = runnerAt[q]
    BY <1>6, RunnerGoes DEF RunnerPlaces
  <2>4. /\ retries' \in [Runners -> 0 .. Retries] /\ retries'[p] > 0
        /\ \A q \in Runners \ {p} : retries'[q] = retries[q]
    BY <1>6, ExplorerParts, ExplorerTypes
  <2>5. ASSUME NEW q \in Runners
        PROVE  /\ runnerAt'[q] \notin {"idle", "ok"} => left[q] # {}
               /\ runnerAt'[q] = "ok" => left[q] = {}
               /\ runnerAt'[q] = "read" => joined \in Explorer!Sources
               /\ runnerAt'[q] \in {"submit", "poll"} => joinedSource[q] \in Explorer!Sources
               /\ runnerAt'[q] = "poll" => retries'[q] > 0
               /\ \A i \in wanted[q] \ left[q] : PassedOwn(i)'
    <3>1. /\ RunnerSound(q, runnerAt[q], wanted[q], left[q], joinedSource[q], retries[q])
          /\ wanted[q] \subseteq DOMAIN CONTRACT_LIST
      BY ExplorerParts
    <3>2. \A i \in wanted[q] \ left[q] : PassedOwn(i)'
      BY <2>2, <3>1 DEF RunnerSound
    <3>3. CASE q = p
      BY <1>3, <2>3, <2>4, <3>2, <3>3
    <3>4. CASE q # p
      BY <2>3, <2>4, <3>1, <3>2, <3>4 DEF RunnerSound
    <3>. QED BY <3>3, <3>4
  <2>. QED BY <1>1, <1>6, <2>2, <2>3, <2>4, <2>5 DEF ExplorerInv
<1>7. CASE Explorer!GoTo(p, "failed") /\ UNCHANGED <<verdict, left, retries>>
  <2>1. /\ runnerAt' \in [Runners -> RunnerPlaces] /\ runnerAt'[p] = "failed"
        /\ \A q \in Runners \ {p} : runnerAt'[q] = runnerAt[q]
    BY <1>7, RunnerGoes DEF RunnerPlaces
  <2>2. RunnerMoves(p)
    BY <1>1, <1>7, <2>1, ExplorerParts DEF RunnerMoves
  <2>3. RunnerSound(p, "failed", wanted[p], left[p], s, retries[p])
    BY <1>2 DEF RunnerSound
  <2>. QED BY <1>1, <1>7, <2>1, <2>2, <2>3, RunnerGoesOn
<1>. QED BY <1>5, <1>6, <1>7 DEF Explorer!Submit

LEMMA ExplorerPoll ==
  ASSUME Explorer!EtherscanAssumption, ExplorerInv, NEW p \in Runners, Explorer!Poll(p)
  PROVE  ExplorerInv'
<1> DEFINE c == Explorer!Current(p)
           s == joinedSource[p]
<1>1. /\ runnerAt[p] = "poll" /\ UNCHANGED <<verdict, joined, wanted, joinedSource>>
      /\ retries' = [retries EXCEPT ![p] = retries[p] - 1]
  BY DEF Explorer!Poll, Explorer!RetriesLeft
<1>2. RunnerSound(p, "poll", wanted[p], left[p], s, retries[p])
  BY <1>1, ExplorerParts
<1>3. left[p] # {} /\ s \in Explorer!Sources /\ retries[p] > 0
  BY <1>2 DEF RunnerSound
<1>4. /\ retries' \in [Runners -> 0 .. Retries] /\ retries'[p] = retries[p] - 1
      /\ \A q \in Runners \ {p} : retries'[q] = retries[q]
  BY <1>1, <1>3, ExplorerParts, ExplorerTypes
<1>5. CASE Explorer!Passed(c, s) /\ Explorer!NextContract(p)
  <2>1. Explorer!AlreadyVerified(c)
    BY <1>3, <1>5 DEF Explorer!Passed, Explorer!AlreadyVerified
  <2>. QED BY <1>1, <1>4, <1>5, <2>1, RunnerNext
<1>6. ASSUME NEW place \in {"poll", "failed"}, Explorer!GoTo(p, place), UNCHANGED left,
             place = "poll" => retries[p] - 1 > 0
      PROVE  ExplorerInv'
  <2>1. /\ runnerAt' \in [Runners -> RunnerPlaces] /\ runnerAt'[p] = place
        /\ \A q \in Runners \ {p} : runnerAt'[q] = runnerAt[q]
    BY <1>6, RunnerGoes DEF RunnerPlaces
  <2>2. RunnerMoves(p)
    BY <1>1, <1>4, <1>6, <2>1, ExplorerParts DEF RunnerMoves
  <2>3. RunnerSound(p, place, wanted[p], left[p], s, retries'[p])
    BY <1>2, <1>4, <1>6 DEF RunnerSound
  <2>. QED BY <1>1, <1>6, <2>1, <2>2, <2>3, RunnerGoesOn
<1>7. CASE Explorer!GoTo(p, "failed") /\ UNCHANGED left
  BY <1>6, <1>7
<1>8. CASE /\ Explorer!GoTo(p, IF Explorer!RetriesLeft(p) > 0 THEN "poll" ELSE "failed")
           /\ UNCHANGED left
  BY <1>6, <1>8 DEF Explorer!RetriesLeft
<1>. QED BY <1>5, <1>7, <1>8 DEF Explorer!Poll

LEMMA ExplorerExit ==
  ASSUME Explorer!EtherscanAssumption, ExplorerInv, NEW p \in Runners, Explorer!Exit(p)
  PROVE  ExplorerInv'
<1>1. /\ Explorer!GoTo(p, "idle") /\ UNCHANGED <<verdict, joined>>
      /\ wanted' = [wanted EXCEPT ![p] = {}] /\ left' = [left EXCEPT ![p] = {}]
      /\ joinedSource' = [joinedSource EXCEPT ![p] = "none"] /\ retries' = [retries EXCEPT ![p] = 0]
  BY DEF Explorer!Exit, Explorer!NoSource
<1>2. /\ runnerAt' \in [Runners -> RunnerPlaces] /\ runnerAt'[p] = "idle"
      /\ \A q \in Runners \ {p} : runnerAt'[q] = runnerAt[q]
  BY <1>1, RunnerGoes DEF RunnerPlaces
<1>3. RunnerMoves(p) /\ wanted'[p] = {} /\ left'[p] = {}
  BY <1>1, <1>2, ExplorerParts, ExplorerTypes DEF RunnerMoves
<1>4. RunnerSound(p, "idle", {}, {}, joinedSource'[p], retries'[p])
  BY DEF RunnerSound
<1>. QED BY <1>1, <1>2, <1>3, <1>4, RunnerGoesOn

LEMMA ExplorerDecides ==
  ASSUME ExplorerInv, NEW c \in Explorer!Deployed, NEW s \in Explorer!Sources, Explorer!Decide(c, s)
  PROVE  ExplorerInv'
<1>1. PICK result \in {"fail", "pass"} :
        /\ result = "pass" => s = SourceOf[c]
        /\ verdict' = [verdict EXCEPT ![c][s] = result]
  BY DEF Explorer!Decide
<1>2. /\ verdict[c][s] = "pending"
      /\ UNCHANGED <<joined, runnerAt, wanted, left, joinedSource, retries>>
  BY DEF Explorer!Decide
<1>3. /\ verdict' \in [Explorer!Deployed -> [Explorer!Sources -> {"none", "pending", "pass", "fail"}]]
      /\ VerdictsSound'
      /\ \A i \in DOMAIN CONTRACT_LIST : PassedOwn(i) => PassedOwn(i)'
  BY <1>1, <1>2, VerdictTyped
<1>4. \A p \in Runners : \A i \in wanted[p] \ left[p] : PassedOwn(i)'
  BY <1>3 DEF ExplorerInv
<1>. QED BY <1>2, <1>3, <1>4 DEF ExplorerInv

LEMMA ExplorerStep ==
  ASSUME Explorer!EtherscanAssumption, ExplorerInv, [Explorer!Next]_(Explorer!vars)
  PROVE  ExplorerInv'
<1>1. CASE UNCHANGED Explorer!vars
  BY <1>1 DEF Explorer!vars, ExplorerInv, VerdictsSound, PassedOwn
<1>2. ASSUME NEW p \in Runners, Explorer!Proceed(p) PROVE ExplorerInv'
  BY <1>2, ExplorerJoin, ExplorerRead, ExplorerSubmit, ExplorerPoll DEF Explorer!Proceed
<1>. QED BY <1>1, <1>2, ExplorerBegin, ExplorerExit, ExplorerDecides DEF Explorer!Next

(***************************************************************************)
(* The compilation.  What the compiler has read, and compiled so far, is   *)
(* what the sources are, unless they were edited meanwhile, and then       *)
(* contracts.json says so (steady).  After each directory the checksums    *)
(* are those of the directories so far, where a later file of a name hides *)
(* an earlier one.                                                         *)
(***************************************************************************)
\* A set of positions that is not empty has a last one.
LEMMA LastExists ==
  ASSUME NEW n \in Nat, NEW S \in SUBSET (1 .. n), S # {}
  PROVE  Compilation!LastOf(S) \in S
<1> DEFINE R == OpToRel(<, Nat)
           T == {n - i : i \in S}
<1>1. IsWellFoundedOn(R, Nat)
  BY NatLessThanWellFounded, Zenon
<1>2. /\ \A i \in S : n - i \in Nat
      /\ T \subseteq Nat /\ T # {}
  <2>1. \A i \in S : n - i \in Nat
    OBVIOUS
  <2>2. PICK i \in S : TRUE
    OBVIOUS
  <2>3. n - i \in T
    OBVIOUS
  <2>. QED BY <2>1, <2>3
<1>3. \A x, y \in Nat : x < y => <<x, y>> \in R
  BY DEF OpToRel
<1>. HIDE DEF R
<1>4. \E x \in T : \A y \in T : ~ (<<y, x>> \in R)
  BY <1>1, <1>2, WFMin
<1>5. PICK x \in T : \A y \in T : ~ (<<y, x>> \in R)
  BY <1>4
<1>6. \A y \in T : ~(y < x)
  BY <1>2, <1>3, <1>5
<1>7. PICK i \in S : x = n - i
  BY <1>5
<1>8. \A j \in S : ~(n - j < n - i)
  BY <1>6, <1>7
<1>9. \A j \in S : j =< i
  BY <1>8
<1>. QED BY <1>9 DEF Compilation!LastOf

\* The last directory read, if it has the file, is the last that has it.
LEMMA LastRead ==
  ASSUME NEW n \in Nat, NEW S \in SUBSET (1 .. n + 1), n + 1 \in S
  PROVE  Compilation!LastOf(S) = n + 1
<1>1. \A j \in S : j =< n + 1
  OBVIOUS
<1>2. ASSUME NEW i \in S, \A j \in S : j =< i PROVE i = n + 1
  BY <1>1, <1>2
<1>. QED BY <1>1, <1>2 DEF Compilation!LastOf

LEMMA HavingNext ==
  ASSUME NEW texts, NEW f, NEW n \in Nat
  PROVE  Compilation!Having(texts, f, n + 1) =
           Compilation!Having(texts, f, n) \cup
           (IF f \in Compilation!Glob(texts, DirOrder[n + 1]) THEN {n + 1} ELSE {})
<1>1. 1 .. n + 1 = (1 .. n) \cup {n + 1}
  OBVIOUS
<1>. QED BY <1>1 DEF Compilation!Having

\* Reading one directory more.
LEMMA NextDirectory ==
  ASSUME NEW texts, NEW n \in Nat
  PROVE  /\ Compilation!NamesUpTo(texts, n + 1) =
              Compilation!NamesUpTo(texts, n) \cup Compilation!Glob(texts, DirOrder[n + 1])
         /\ Compilation!contracts_checksums(texts, n + 1) =
              Compilation!update(Compilation!contracts_checksums(texts, n),
                [f \in Compilation!Glob(texts, DirOrder[n + 1]) |-> texts[<<DirOrder[n + 1], f>>]])
<1> DEFINE dir == DirOrder[n + 1]
           G == Compilation!Glob(texts, dir)
           H(f, k) == Compilation!Having(texts, f, k)
           U(k) == Compilation!NamesUpTo(texts, k)
           new == [f \in G |-> texts[<<dir, f>>]]
<1>1. G \subseteq Compilation!FileNames
  BY DEF Compilation!Glob
<1>2. \A f : H(f, n + 1) = H(f, n) \cup (IF f \in G THEN {n + 1} ELSE {})
  BY HavingNext
<1>3. \A k \in Nat : \A f : H(f, k) \subseteq 1 .. k
  BY DEF Compilation!Having
<1>4. \A k : U(k) = {f \in Compilation!FileNames : H(f, k) # {}}
  BY DEF Compilation!NamesUpTo
<1>5. \A k : Compilation!contracts_checksums(texts, k) =
        [f \in U(k) |-> texts[<<DirOrder[Compilation!LastOf(H(f, k))], f>>]]
  BY DEF Compilation!contracts_checksums
<1>. HIDE DEF G, H, U
<1>6. U(n + 1) = U(n) \cup G
  BY <1>1, <1>2, <1>4
<1>7. ASSUME NEW f \in G PROVE Compilation!LastOf(H(f, n + 1)) = n + 1
  <2>1. n + 1 \in H(f, n + 1) /\ H(f, n + 1) \in SUBSET (1 .. n + 1)
    BY <1>2, <1>3
  <2>. QED BY <2>1, LastRead
<1>8. ASSUME NEW f, f \notin G PROVE H(f, n + 1) = H(f, n)
  BY <1>2, <1>8
<1>9. Compilation!update(Compilation!contracts_checksums(texts, n), new) =
        [f \in U(n) \cup G |->
           IF f \in G THEN texts[<<dir, f>>]
           ELSE texts[<<DirOrder[Compilation!LastOf(H(f, n))], f>>]]
  <2>1. PICK sums : sums = [f \in U(n) |-> texts[<<DirOrder[Compilation!LastOf(H(f, n))], f>>]]
    OBVIOUS
  <2>2. Compilation!contracts_checksums(texts, n) = sums
    BY <1>5, <2>1
  <2>3. DOMAIN sums = U(n) /\ DOMAIN new = G
    BY <2>1
  <2>4. \A f \in G : new[f] = texts[<<dir, f>>]
    OBVIOUS
  <2>5. \A f \in U(n) : sums[f] = texts[<<DirOrder[Compilation!LastOf(H(f, n))], f>>]
    BY <2>1
  <2>6. Compilation!update(sums, new) = [f \in U(n) \cup G |-> IF f \in G THEN new[f] ELSE sums[f]]
    BY <2>3 DEF Compilation!update
  <2>. HIDE DEF new
  <2>. QED BY <2>2, <2>4, <2>5, <2>6
<1>10. \A f \in U(n) \cup G :
         texts[<<DirOrder[Compilation!LastOf(H(f, n + 1))], f>>] =
           IF f \in G THEN texts[<<dir, f>>]
           ELSE texts[<<DirOrder[Compilation!LastOf(H(f, n))], f>>]
  BY <1>7, <1>8
<1>11. Compilation!contracts_checksums(texts, n + 1) =
         [f \in U(n) \cup G |-> texts[<<DirOrder[Compilation!LastOf(H(f, n + 1))], f>>]]
  BY <1>5, <1>6
<1>12. Compilation!contracts_checksums(texts, n + 1) =
         Compilation!update(Compilation!contracts_checksums(texts, n), new)
  BY <1>9, <1>10, <1>11
<1>. QED BY <1>6, <1>12 DEF U, G

LEMMA ChecksumsTyped ==
  ASSUME NEW texts \in Compilation!Sources, NEW n \in Nat
  PROVE  Compilation!contracts_checksums(texts, n) \in Compilation!Sums
<1> DEFINE U == Compilation!NamesUpTo(texts, n)
           last(f) == Compilation!LastOf(Compilation!Having(texts, f, n))
<1>1. U \subseteq Compilation!FileNames
  BY DEF Compilation!NamesUpTo
<1>2. ASSUME NEW f \in U PROVE texts[<<DirOrder[last(f)], f>>] \in Contents
  <2>1. /\ Compilation!Having(texts, f, n) # {}
        /\ Compilation!Having(texts, f, n) \in SUBSET (1 .. n)
    BY DEF Compilation!NamesUpTo, Compilation!Having
  <2>2. last(f) \in Compilation!Having(texts, f, n)
    BY <2>1, LastExists
  <2>3. <<DirOrder[last(f)], f>> \in DOMAIN texts
    BY <2>2 DEF Compilation!Having, Compilation!Glob
  <2>. QED BY <2>3 DEF Compilation!Sources
<1>3. Compilation!contracts_checksums(texts, n) \in [U -> Contents]
  BY <1>2 DEF Compilation!contracts_checksums
<1>. QED BY <1>1, <1>3 DEF Compilation!Sums

CompilerPlaces == {"idle", "compile", "open", "write", "load", "done",
                   "checksums", "verify", "verified", "failed"}

\* The contracts were compiled from sources with these checksums, and no other.
ContractsFit(contracts, sums) ==
  /\ DOMAIN contracts = DOMAIN sums
  /\ \A f \in DOMAIN contracts : Compilation!ChecksumsOf(contracts[f].sources) = sums

ContentSound(content) ==
  /\ Compilation!Manager(content)
  /\ Compilation!check_runtime_codesize(content.contracts)
  /\ content.steady => ContractsFit(content.contracts, content.contracts_checksums)

ManagerSound(place, m) ==
  /\ Compilation!Manager(m) /\ m.directories \in 0 .. Len(DirOrder)
  /\ place = "idle" => m = Compilation!NoManager
  /\ place = "checksums" => m.directories < Len(DirOrder)

\* What the compiler has read and compiled at its place, if nothing was edited.
ReadSound(place, m) ==
  /\ place \in {"checksums", "compile"} =>
       m.contracts_checksums = Compilation!contracts_checksums(sources, m.directories)
  /\ place = "compile" =>
       /\ m.directories = Len(DirOrder)
       /\ DOMAIN compiled.contracts = Compilation!NamesUpTo(sources, compiled.directories)
       /\ \A f \in DOMAIN compiled.contracts : compiled.contracts[f].sources = sources
  /\ place \in {"open", "write"} => ContractsFit(compiled.contracts, m.contracts_checksums)

CompilerSound(place, m) ==
  /\ compiled.directories \in 0 .. Len(DirOrder)
  /\ place \in {"idle", "checksums"} => compiled = Compilation!NothingCompiled
  /\ place = "compile" => compiled.directories < Len(DirOrder)
  /\ place = "write" => Compilation!check_runtime_codesize(compiled.contracts)
  /\ steady => ReadSound(place, m)

CheckerSound(place, m, seen) ==
  /\ place \in {"idle", "checksums", "verify", "verified", "failed"}
  /\ place = "verified" =>
       /\ Compilation!check_runtime_codesize(seen.contracts)
       /\ seen.steady => ContractsFit(seen.contracts, m.contracts_checksums)

CompilationInv ==
  /\ sources \in Compilation!Sources /\ steady \in BOOLEAN
  /\ precompiled # Compilation!Corrupted => ContentSound(precompiled)
  /\ compilerAt \in [Compilation!Processes -> CompilerPlaces]
  /\ DOMAIN manager = Compilation!Processes /\ DOMAIN checked = Compilation!Processes
  /\ \A p \in Compilation!Processes : ManagerSound(compilerAt[p], manager[p])
  /\ CompilerSound(compilerAt[Compiler], manager[Compiler])
  /\ \A p \in Checkers : CheckerSound(compilerAt[p], manager[p], checked[p])

LEMMA CompilationCardinality ==
  ASSUME NEW S PROVE Compilation!Cardinality(S) = Cardinality(S)
BY DEF Compilation!Cardinality, Cardinality

\* The overall checksum tells how many names there are, and the others which.
LEMMA SameSources ==
  ASSUME Compilation!PrecompiledAssumption, NEW m, NEW content,
         Compilation!Manager(m), Compilation!Manager(content),
         Compilation!verify_precompiled_checksums(m, content)
  PROVE  content.contracts_checksums = m.contracts_checksums
<1> DEFINE f == m.contracts_checksums
           g == content.contracts_checksums
<1>1. /\ f \in Compilation!Sums /\ g \in Compilation!Sums
      /\ Compilation!overall_checksum(f) = Compilation!overall_checksum(g)
      /\ \A n \in DOMAIN f : n \in DOMAIN g /\ g[n] = f[n]
  BY DEF Compilation!Manager, Compilation!verify_precompiled_checksums
<1>2. /\ f \in [DOMAIN f -> Contents] /\ g \in [DOMAIN g -> Contents]
      /\ DOMAIN f \subseteq Compilation!FileNames /\ DOMAIN g \subseteq Compilation!FileNames
  BY <1>1 DEF Compilation!Sums
<1>. HIDE DEF f, g
<1>3. \A h : DOMAIN Compilation!overall_checksum(h) = 1 .. Cardinality(Compilation!Present(h))
  BY CompilationCardinality DEF Compilation!overall_checksum
<1>4. IsFiniteSet(DOMAIN FileOrder)
  <2>1. FileOrder \in Seq(STRING)
    BY DEF Compilation!PrecompiledAssumption
  <2>2. DOMAIN FileOrder = 1 .. Len(FileOrder) /\ Len(FileOrder) \in Nat
    BY <2>1
  <2>. QED BY <2>2, FS_Interval
<1>5. IsFiniteSet(Compilation!Present(g)) /\ Compilation!Present(f) \subseteq Compilation!Present(g)
  <2>1. Compilation!Present(g) \subseteq DOMAIN FileOrder /\ Compilation!Present(f) \subseteq Compilation!Present(g)
    BY <1>1 DEF Compilation!Present
  <2>. QED BY <1>4, <2>1, FS_Subset
<1>6. /\ Cardinality(Compilation!Present(f)) \in Nat /\ Cardinality(Compilation!Present(g)) \in Nat
  BY <1>5, FS_Subset, FS_CardinalityType
<1>7. Cardinality(Compilation!Present(f)) = Cardinality(Compilation!Present(g))
  <2> DEFINE x == Cardinality(Compilation!Present(f))
             y == Cardinality(Compilation!Present(g))
  <2>1. 1 .. x = 1 .. y /\ x \in Nat /\ y \in Nat
    BY <1>1, <1>3, <1>6
  <2>. HIDE DEF x, y
  <2>2. (y > 0 => y \in 1 .. x) /\ (x > 0 => x \in 1 .. y)
    BY <2>1
  <2>3. x = y
    BY <2>1, <2>2
  <2>. QED BY <2>3 DEF x, y
<1>8. Compilation!Present(f) = Compilation!Present(g)
  BY <1>5, <1>7, FS_Subset
<1>9. DOMAIN g \subseteq DOMAIN f
  <2> SUFFICES ASSUME NEW n \in DOMAIN g PROVE n \in DOMAIN f
    OBVIOUS
  <2>1. PICK i \in DOMAIN FileOrder : FileOrder[i] = n
    BY <1>2 DEF Compilation!FileNames
  <2>. QED BY <1>8, <2>1 DEF Compilation!Present
<1>10. DOMAIN f = DOMAIN g
  BY <1>1, <1>9
<1>11. f = g
  BY <1>1, <1>2, <1>10
<1>. QED BY <1>11 DEF f, g

LEMMA ChecksumsFields ==
  ASSUME NEW sums \in Compilation!Sums, NEW n
  PROVE  /\ Compilation!Checksums(sums, n).contracts_checksums = sums
         /\ Compilation!Checksums(sums, n).directories = n
         /\ Compilation!Manager(Compilation!Checksums(sums, n))
BY DEF Compilation!Manager, Compilation!Checksums

\* Before the first directory nothing has been read.
LEMMA NothingRead ==
  ASSUME NEW texts
  PROVE  /\ Compilation!NamesUpTo(texts, 0) = {}
         /\ Compilation!contracts_checksums(texts, 0) = <<>>
         /\ Compilation!NoManager.contracts_checksums = <<>> /\ Compilation!NoManager.directories = 0
         /\ Compilation!Manager(Compilation!NoManager)
         /\ Compilation!NothingCompiled.directories = 0
         /\ DOMAIN Compilation!NothingCompiled.contracts = {}
<1>1. Compilation!NamesUpTo(texts, 0) = {}
  BY DEF Compilation!NamesUpTo, Compilation!Having
<1>2. Compilation!contracts_checksums(texts, 0) = <<>>
  BY <1>1 DEF Compilation!contracts_checksums
<1>3. <<>> \in Compilation!Sums
  <2>1. <<>> \in [{} -> Contents]
    OBVIOUS
  <2>. QED BY <2>1 DEF Compilation!Sums
<1>. QED BY <1>1, <1>2, <1>3, ChecksumsFields DEF Compilation!NoManager, Compilation!NothingCompiled

LEMMA UpdateTyped ==
  ASSUME NEW sums \in Compilation!Sums, NEW texts \in Compilation!Sources, NEW dir
  PROVE  Compilation!update(sums, [f \in Compilation!Glob(texts, dir) |-> texts[<<dir, f>>]])
           \in Compilation!Sums
<1> DEFINE G == Compilation!Glob(texts, dir)
           new == [f \in G |-> texts[<<dir, f>>]]
<1>1. G \subseteq Compilation!FileNames /\ \A f \in G : <<dir, f>> \in DOMAIN texts
  BY DEF Compilation!Glob
<1>2. \A file \in DOMAIN texts : texts[file] \in Contents
  BY DEF Compilation!Sources
<1>3. DOMAIN sums \subseteq Compilation!FileNames /\ \A f \in DOMAIN sums : sums[f] \in Contents
  BY DEF Compilation!Sums
<1>4. DOMAIN new = G /\ \A f \in G : new[f] \in Contents
  BY <1>1, <1>2
<1>. HIDE DEF G, new
<1>5. Compilation!update(sums, new) \in [DOMAIN sums \cup G -> Contents]
  BY <1>3, <1>4 DEF Compilation!update
<1>6. DOMAIN sums \cup G \in SUBSET Compilation!FileNames
  BY <1>1, <1>3
<1>7. Compilation!update(sums, new) \in Compilation!Sums
  BY <1>5, <1>6 DEF Compilation!Sums
<1>. QED BY <1>7 DEF G, new

\* One directory more for a ContractSourceManager.
LEMMA ManagerReads ==
  ASSUME Compilation!PrecompiledAssumption, NEW texts \in Compilation!Sources, NEW m,
         Compilation!Manager(m), m.directories \in 0 .. Len(DirOrder), m.directories < Len(DirOrder),
         NEW next, next = Compilation!_checksum_contracts(m, texts)
  PROVE  /\ Compilation!Manager(next) /\ next.directories = m.directories + 1
         /\ next.directories \in 0 .. Len(DirOrder)
         /\ m.contracts_checksums = Compilation!contracts_checksums(texts, m.directories) =>
              next.contracts_checksums = Compilation!contracts_checksums(texts, next.directories)
<1>1. Len(DirOrder) \in Nat /\ m.directories \in Nat
  BY DEF Compilation!PrecompiledAssumption
<1>2. PICK sums : sums = Compilation!update(m.contracts_checksums,
                [f \in Compilation!Glob(texts, DirOrder[m.directories + 1])
                   |-> texts[<<DirOrder[m.directories + 1], f>>]])
  OBVIOUS
<1>3. sums \in Compilation!Sums
  BY <1>2, UpdateTyped DEF Compilation!Manager
<1>4. next = Compilation!Checksums(sums, m.directories + 1)
  BY <1>2 DEF Compilation!_checksum_contracts
<1>5. /\ Compilation!Manager(next) /\ next.directories = m.directories + 1
      /\ next.contracts_checksums = sums
  BY <1>3, <1>4, ChecksumsFields
<1>6. m.contracts_checksums = Compilation!contracts_checksums(texts, m.directories) =>
        sums = Compilation!contracts_checksums(texts, m.directories + 1)
  BY <1>1, <1>2, NextDirectory
<1>. QED BY <1>1, <1>5, <1>6

LEMMA CompilationStarts ==
  ASSUME Compilation!PrecompiledAssumption, Compilation!Init PROVE CompilationInv
<1>1. Len(DirOrder) \in Nat /\ Len(DirOrder) > 0
  BY DEF Compilation!PrecompiledAssumption
<1>2. /\ sources \in Compilation!Sources
      /\ precompiled.contracts = Compilation!ContractsOf(sources)
      /\ precompiled.contracts_checksums = Compilation!ChecksumsOf(sources)
      /\ precompiled.overall_checksum = Compilation!overall_checksum(Compilation!ChecksumsOf(sources))
      /\ Compilation!check_runtime_codesize(precompiled.contracts)
      /\ steady = TRUE /\ compiled = Compilation!NothingCompiled
      /\ compilerAt = [p \in Compilation!Processes |-> "idle"]
      /\ manager = [p \in Compilation!Processes |-> Compilation!NoManager]
      /\ checked = [p \in Compilation!Processes |-> Compilation!NoManager]
  BY DEF Compilation!Init
<1>3. Compilation!Manager(precompiled)
  BY <1>1, <1>2, ChecksumsTyped DEF Compilation!Manager, Compilation!ChecksumsOf
<1>4. ContractsFit(precompiled.contracts, precompiled.contracts_checksums)
  BY <1>2 DEF ContractsFit, Compilation!ContractsOf
<1>5. ContentSound(precompiled)
  BY <1>2, <1>3, <1>4 DEF ContentSound
<1>6. ManagerSound("idle", Compilation!NoManager)
  BY <1>1, NothingRead DEF ManagerSound
<1>7. CompilerSound("idle", Compilation!NoManager)
  BY <1>1, <1>2, NothingRead DEF CompilerSound, ReadSound
<1>8. CheckerSound("idle", Compilation!NoManager, Compilation!NoManager)
  BY DEF CheckerSound
<1>. QED BY <1>2, <1>5, <1>6, <1>7, <1>8 DEF CompilationInv, CompilerPlaces, Compilation!Processes

LEMMA CompilationParts ==
  ASSUME CompilationInv
  PROVE  /\ sources \in Compilation!Sources /\ steady \in BOOLEAN
         /\ precompiled # Compilation!Corrupted => ContentSound(precompiled)
         /\ compilerAt \in [Compilation!Processes -> CompilerPlaces]
         /\ DOMAIN manager = Compilation!Processes /\ DOMAIN checked = Compilation!Processes
         /\ \A p \in Compilation!Processes : ManagerSound(compilerAt[p], manager[p])
         /\ CompilerSound(compilerAt[Compiler], manager[Compiler])
         /\ \A p \in Checkers : CheckerSound(compilerAt[p], manager[p], checked[p])
BY DEF CompilationInv

LEMMA ProcessGoes ==
  ASSUME CompilationInv, NEW p \in Compilation!Processes, NEW place \in CompilerPlaces,
         Compilation!GoTo(p, place)
  PROVE  /\ compilerAt' \in [Compilation!Processes -> CompilerPlaces] /\ compilerAt'[p] = place
         /\ \A q \in Compilation!Processes \ {p} : compilerAt'[q] = compilerAt[q]
BY CompilationParts DEF Compilation!GoTo

\* A step of the compiler; the checkers know what they knew.
LEMMA CompilerMoves ==
  ASSUME Compilation!PrecompiledAssumption, CompilationInv,
         NEW place \in CompilerPlaces, Compilation!GoTo(Compiler, place), UNCHANGED <<sources, checked>>,
         steady' \in BOOLEAN,
         precompiled' # Compilation!Corrupted => ContentSound(precompiled'),
         DOMAIN manager' = Compilation!Processes,
         \A q \in Checkers : manager'[q] = manager[q],
         ManagerSound(place, manager'[Compiler]),
         CompilerSound(place, manager[Compiler])'
  PROVE  CompilationInv'
<1>1. Compiler \notin Checkers /\ Compiler \in Compilation!Processes
  BY DEF Compilation!PrecompiledAssumption, Compilation!Processes
<1>2. /\ compilerAt' \in [Compilation!Processes -> CompilerPlaces] /\ compilerAt'[Compiler] = place
      /\ \A q \in Compilation!Processes \ {Compiler} : compilerAt'[q] = compilerAt[q]
  BY <1>1, ProcessGoes
<1>3. \A q \in Checkers : CheckerSound(compilerAt[q], manager[q], checked[q])
  BY CompilationParts
<1>4. \A q \in Checkers : CheckerSound(compilerAt'[q], manager'[q], checked'[q])
  BY <1>1, <1>2, <1>3 DEF Compilation!Processes
<1>5. \A q \in Compilation!Processes : ManagerSound(compilerAt'[q], manager'[q])
  BY <1>1, <1>2, CompilationParts DEF Compilation!Processes
<1>6. CompilerSound(compilerAt[Compiler], manager[Compiler])'
  BY <1>2 DEF CompilerSound, ReadSound
<1>7. sources' \in Compilation!Sources /\ DOMAIN checked' = Compilation!Processes
  BY CompilationParts
<1>. QED BY <1>2, <1>4, <1>5, <1>6, <1>7 DEF CompilationInv

\* A step of a checker; the compiler knows what it knew.
LEMMA CheckerMoves ==
  ASSUME Compilation!PrecompiledAssumption, CompilationInv, NEW p \in Checkers,
         NEW place \in CompilerPlaces, Compilation!GoTo(p, place),
         UNCHANGED <<sources, precompiled, compiled, steady>>,
         DOMAIN manager' = Compilation!Processes, DOMAIN checked' = Compilation!Processes,
         \A q \in Compilation!Processes \ {p} : manager'[q] = manager[q] /\ checked'[q] = checked[q],
         ManagerSound(place, manager'[p]), CheckerSound(place, manager'[p], checked'[p])
  PROVE  CompilationInv'
<1>1. /\ Compiler # p /\ Compiler \in Compilation!Processes /\ p \in Compilation!Processes
      /\ Checkers \subseteq Compilation!Processes
  BY DEF Compilation!PrecompiledAssumption, Compilation!Processes
<1>2. /\ compilerAt' \in [Compilation!Processes -> CompilerPlaces] /\ compilerAt'[p] = place
      /\ \A q \in Compilation!Processes \ {p} : compilerAt'[q] = compilerAt[q]
  BY <1>1, ProcessGoes
<1>3. \A q \in Checkers : CheckerSound(compilerAt'[q], manager'[q], checked'[q])
  BY <1>1, <1>2, CompilationParts
<1>4. \A q \in Compilation!Processes : ManagerSound(compilerAt'[q], manager'[q])
  BY <1>2, CompilationParts
<1>5. CompilerSound(compilerAt[Compiler], manager[Compiler])'
  BY <1>1, <1>2, CompilationParts DEF CompilerSound, ReadSound
<1>6. /\ sources' \in Compilation!Sources /\ steady' \in BOOLEAN
      /\ (precompiled' # Compilation!Corrupted => ContentSound(precompiled'))
  BY CompilationParts
<1>. QED BY <1>2, <1>3, <1>4, <1>5, <1>6 DEF CompilationInv

\* The sources the compiler has yet to read may change: then it is not steady.
LEMMA EditStep ==
  ASSUME CompilationInv, NEW file \in Compilation!Dirs \X Compilation!FileNames,
         Compilation!Edit(file)
  PROVE  CompilationInv'
<1>1. /\ steady' = (steady /\ compilerAt[Compiler] \notin {"checksums", "compile"})
      /\ UNCHANGED <<precompiled, compilerAt, manager, compiled, checked>>
  BY DEF Compilation!Edit, Compilation!Compiling
<1>2. sources' \in Compilation!Sources
  <2>1. PICK present \in SUBSET (Compilation!Dirs \X Compilation!FileNames) : sources \in [present -> Contents]
    BY CompilationParts DEF Compilation!Sources
  <2>2. CASE \E text \in Contents :
               sources' = [f \in DOMAIN sources \cup {file} |-> IF f = file THEN text ELSE sources[f]]
    <3>1. sources' \in [present \cup {file} -> Contents]
      BY <2>1, <2>2
    <3>2. present \cup {file} \in SUBSET (Compilation!Dirs \X Compilation!FileNames)
      OBVIOUS
    <3>. QED BY <3>1, <3>2 DEF Compilation!Sources
  <2>3. CASE sources' = [f \in DOMAIN sources \ {file} |-> sources[f]]
    <3>1. sources' \in [present \ {file} -> Contents]
      BY <2>1, <2>3
    <3>2. present \ {file} \in SUBSET (Compilation!Dirs \X Compilation!FileNames)
      OBVIOUS
    <3>. QED BY <3>1, <3>2 DEF Compilation!Sources
  <2>. QED BY <2>2, <2>3 DEF Compilation!Edit
<1>3. CompilerSound(compilerAt[Compiler], manager[Compiler])
  BY CompilationParts
<1>4. steady' => ReadSound(compilerAt[Compiler], manager[Compiler])'
  BY <1>1, <1>3 DEF CompilerSound, ReadSound
<1>5. CompilerSound(compilerAt[Compiler], manager[Compiler])'
  BY <1>1, <1>3, <1>4 DEF CompilerSound
<1>6. steady' \in BOOLEAN
  BY <1>1
<1>. QED BY <1>1, <1>2, <1>5, <1>6, CompilationParts DEF CompilationInv

\* Nothing changes but where the compiler is, or that it starts.
LEMMA CompilerStays ==
  ASSUME Compilation!PrecompiledAssumption, CompilationInv
  PROVE  /\ Compiler \in Compilation!Processes /\ Compiler \notin Checkers
         /\ Len(DirOrder) \in Nat /\ Len(DirOrder) > 0
         /\ ManagerSound(compilerAt[Compiler], manager[Compiler])
         /\ Compilation!Manager(manager[Compiler])
         /\ manager[Compiler].directories \in 0 .. Len(DirOrder)
BY CompilationParts DEF Compilation!PrecompiledAssumption, Compilation!Processes, ManagerSound

LEMMA StartCompileStep ==
  ASSUME Compilation!PrecompiledAssumption, CompilationInv, Compilation!StartCompile
  PROVE  CompilationInv'
<1>1. /\ compilerAt[Compiler] = "idle" /\ Compilation!GoTo(Compiler, "checksums") /\ steady' = TRUE
      /\ UNCHANGED <<sources, precompiled, manager, compiled, checked>>
  BY DEF Compilation!StartCompile
<1>2. /\ manager[Compiler] = Compilation!NoManager /\ compiled = Compilation!NothingCompiled
  BY <1>1, CompilationParts, CompilerStays DEF ManagerSound, CompilerSound
<1>3. ManagerSound("checksums", manager'[Compiler])
  BY <1>1, <1>2, CompilerStays, NothingRead DEF ManagerSound
<1>4. ReadSound("checksums", manager[Compiler])'
  <2>1. manager'[Compiler].contracts_checksums = Compilation!contracts_checksums(sources, 0)
    BY <1>1, <1>2, NothingRead
  <2>2. manager'[Compiler].directories = 0 /\ sources' = sources
    BY <1>1, <1>2, NothingRead
  <2>3. PICK m : m = manager'[Compiler]
    OBVIOUS
  <2>4. m.contracts_checksums = Compilation!contracts_checksums(sources', m.directories)
    BY <2>1, <2>2, <2>3
  <2>. QED BY <2>3, <2>4 DEF ReadSound
<1>5. CompilerSound("checksums", manager[Compiler])'
  BY <1>1, <1>2, <1>4, CompilerStays, NothingRead DEF CompilerSound
<1>6. /\ DOMAIN manager' = Compilation!Processes /\ \A q \in Checkers : manager'[q] = manager[q]
      /\ UNCHANGED <<sources, checked>> /\ (precompiled' # Compilation!Corrupted => ContentSound(precompiled'))
      /\ steady' \in BOOLEAN
  BY <1>1, CompilationParts
<1>. QED BY <1>1, <1>3, <1>5, <1>6, CompilerMoves DEF CompilerPlaces

\* One directory's checksums more, for the compiler as for a checker.
LEMMA TakesNext ==
  ASSUME Compilation!PrecompiledAssumption, CompilationInv, NEW p \in Compilation!Processes, NEW next,
         Compilation!TakeChecksums(p, next)
  PROVE  \E m :
           /\ manager' = [manager EXCEPT ![p] = m]
           /\ Compilation!GoTo(p, IF m.directories < Len(DirOrder) THEN "checksums" ELSE next)
           /\ compilerAt[p] = "checksums"
           /\ UNCHANGED <<sources, precompiled, compiled, checked, steady>>
           /\ Compilation!Manager(m) /\ m.directories \in 0 .. Len(DirOrder)
           /\ manager[p].contracts_checksums = Compilation!contracts_checksums(sources, manager[p].directories) =>
                m.contracts_checksums = Compilation!contracts_checksums(sources, m.directories)
<1>1. PICK m : m = Compilation!_checksum_contracts(manager[p], sources)
  OBVIOUS
<1>2. /\ manager' = [manager EXCEPT ![p] = m] /\ compilerAt[p] = "checksums"
      /\ Compilation!GoTo(p, IF m.directories < Len(DirOrder) THEN "checksums" ELSE next)
      /\ UNCHANGED <<sources, precompiled, compiled, checked, steady>>
  BY <1>1 DEF Compilation!TakeChecksums
<1>3. /\ Compilation!Manager(manager[p]) /\ manager[p].directories \in 0 .. Len(DirOrder)
      /\ manager[p].directories < Len(DirOrder) /\ sources \in Compilation!Sources
  BY <1>2, CompilationParts DEF ManagerSound
<1>4. /\ Compilation!Manager(m) /\ m.directories \in 0 .. Len(DirOrder)
      /\ (manager[p].contracts_checksums = Compilation!contracts_checksums(sources, manager[p].directories) =>
            m.contracts_checksums = Compilation!contracts_checksums(sources, m.directories))
  BY <1>1, <1>3, ManagerReads
<1>. QED BY <1>2, <1>4

LEMMA CompilerTakesStep ==
  ASSUME Compilation!PrecompiledAssumption, CompilationInv,
         Compilation!TakeChecksums(Compiler, "compile")
  PROVE  CompilationInv'
<1>1. PICK m :
        /\ manager' = [manager EXCEPT ![Compiler] = m]
        /\ Compilation!GoTo(Compiler, IF m.directories < Len(DirOrder) THEN "checksums" ELSE "compile")
        /\ compilerAt[Compiler] = "checksums"
        /\ UNCHANGED <<sources, precompiled, compiled, checked, steady>>
        /\ Compilation!Manager(m) /\ m.directories \in 0 .. Len(DirOrder)
        /\ (manager[Compiler].contracts_checksums
              = Compilation!contracts_checksums(sources, manager[Compiler].directories) =>
            m.contracts_checksums = Compilation!contracts_checksums(sources, m.directories))
  BY TakesNext, CompilerStays
<1>2. /\ compiled = Compilation!NothingCompiled
      /\ (steady => ReadSound("checksums", manager[Compiler]))
  BY <1>1, CompilationParts DEF CompilerSound
<1>3. /\ DOMAIN manager' = Compilation!Processes /\ manager'[Compiler] = m
      /\ \A q \in Checkers : manager'[q] = manager[q]
      /\ UNCHANGED <<sources, checked>> /\ (precompiled' # Compilation!Corrupted => ContentSound(precompiled'))
      /\ steady' \in BOOLEAN
  BY <1>1, CompilerStays, CompilationParts
<1>4. steady => m.contracts_checksums = Compilation!contracts_checksums(sources, m.directories)
  BY <1>1, <1>2 DEF ReadSound
<1>5. CASE m.directories < Len(DirOrder)
  <2>1. Compilation!GoTo(Compiler, "checksums")
    BY <1>1, <1>5
  <2>2. ManagerSound("checksums", manager'[Compiler])
    BY <1>1, <1>3, <1>5 DEF ManagerSound
  <2>3. steady => ReadSound("checksums", m)'
    BY <1>1, <1>4 DEF ReadSound
  <2>4. CompilerSound("checksums", m)'
    BY <1>1, <1>2, <2>3, CompilerStays, NothingRead DEF CompilerSound
  <2>5. CompilerSound("checksums", manager[Compiler])'
    BY <1>3, <2>4 DEF CompilerSound, ReadSound
  <2>. QED BY <1>3, <2>1, <2>2, <2>5, CompilerMoves DEF CompilerPlaces
<1>6. CASE ~(m.directories < Len(DirOrder))
  <2>1. Compilation!GoTo(Compiler, "compile")
    BY <1>1, <1>6
  <2>2. ManagerSound("compile", manager'[Compiler])
    BY <1>1, <1>3 DEF ManagerSound
  <2>3. m.directories = Len(DirOrder)
    BY <1>1, <1>6, CompilerStays
  <2>4. /\ DOMAIN compiled.contracts = Compilation!NamesUpTo(sources, compiled.directories)
        /\ DOMAIN compiled.contracts = {} /\ compiled.directories = 0
    BY <1>2, NothingRead
  <2>5. steady => ReadSound("compile", m)'
    BY <1>1, <1>4, <2>3, <2>4 DEF ReadSound
  <2>6. CompilerSound("compile", m)'
    BY <1>1, <1>2, <2>4, <2>5, CompilerStays DEF CompilerSound
  <2>7. CompilerSound("compile", manager[Compiler])'
    BY <1>3, <2>6 DEF CompilerSound, ReadSound
  <2>. QED BY <1>3, <2>1, <2>2, <2>7, CompilerMoves DEF CompilerPlaces
<1>. QED BY <1>5, <1>6

LEMMA CompileDirectoryStep ==
  ASSUME Compilation!PrecompiledAssumption, CompilationInv, Compilation!CompileDirectory
  PROVE  CompilationInv'
<1> DEFINE dir == DirOrder[compiled.directories + 1]
           G == Compilation!Glob(sources, dir)
           new == [f \in G |-> [directory |-> dir, sources |-> sources]]
           n == compiled.directories
           m == manager[Compiler]
<1>1. /\ compilerAt[Compiler] = "compile" /\ UNCHANGED <<sources, precompiled, manager, checked, steady>>
  BY DEF Compilation!CompileDirectory
<1>2. CompilerSound("compile", m)
  BY <1>1, CompilationParts
<1>3. n \in 0 .. Len(DirOrder) /\ n < Len(DirOrder) /\ (steady => ReadSound("compile", m))
  BY <1>2 DEF CompilerSound
<1>4. n \in Nat /\ n + 1 \in 0 .. Len(DirOrder)
  BY <1>3, CompilerStays
<1>5. /\ DOMAIN manager' = Compilation!Processes /\ manager'[Compiler] = m
      /\ \A q \in Checkers : manager'[q] = manager[q]
      /\ UNCHANGED <<sources, checked>> /\ (precompiled' # Compilation!Corrupted => ContentSound(precompiled'))
      /\ steady' \in BOOLEAN
  BY <1>1, CompilationParts
<1>6. \A place \in {"compile", "open", "failed"} : ManagerSound(place, manager'[Compiler])
  BY <1>5, CompilerStays DEF ManagerSound
<1>7. CASE Compilation!GoTo(Compiler, "failed") /\ UNCHANGED compiled
  <2>1. CompilerSound("failed", m)'
    BY <1>1, <1>3, <1>7 DEF CompilerSound, ReadSound
  <2>2. CompilerSound("failed", manager[Compiler])'
    BY <1>5, <2>1 DEF CompilerSound, ReadSound
  <2>. QED BY <1>5, <1>6, <1>7, <2>2, CompilerMoves DEF CompilerPlaces
<1>8. CASE /\ compiled' = [directories |-> n + 1, contracts |-> Compilation!update(compiled.contracts, new)]
           /\ Compilation!GoTo(Compiler, IF compiled'.directories < Len(DirOrder) THEN "compile" ELSE "open")
  <2>1. compiled'.directories = n + 1 /\ compiled'.contracts = Compilation!update(compiled.contracts, new)
    BY <1>8
  <2>2. ASSUME steady
        PROVE  /\ m.contracts_checksums = Compilation!contracts_checksums(sources, Len(DirOrder))
               /\ DOMAIN compiled'.contracts = Compilation!NamesUpTo(sources, n + 1)
               /\ \A f \in DOMAIN compiled'.contracts : compiled'.contracts[f].sources = sources
    <3>1. /\ m.contracts_checksums = Compilation!contracts_checksums(sources, Len(DirOrder))
          /\ DOMAIN compiled.contracts = Compilation!NamesUpTo(sources, n)
          /\ \A f \in DOMAIN compiled.contracts : compiled.contracts[f].sources = sources
      <4>1. ReadSound("compile", m)
        BY <1>3, <2>2
      <4>. QED BY <4>1 DEF ReadSound
    <3>2. DOMAIN new = G /\ \A f \in G : new[f].sources = sources
      OBVIOUS
    <3>3. Compilation!NamesUpTo(sources, n + 1) = Compilation!NamesUpTo(sources, n) \cup G
      BY <1>4, NextDirectory
    <3>. HIDE DEF new, G
    <3>4. compiled'.contracts =
            [f \in DOMAIN compiled.contracts \cup G |-> IF f \in G THEN new[f] ELSE compiled.contracts[f]]
      BY <2>1, <3>2 DEF Compilation!update
    <3>5. DOMAIN compiled'.contracts = DOMAIN compiled.contracts \cup G
      BY <3>4
    <3>6. ASSUME NEW f \in DOMAIN compiled'.contracts PROVE compiled'.contracts[f].sources = sources
      BY <3>1, <3>2, <3>4, <3>5
    <3>. QED BY <3>1, <3>3, <3>5, <3>6
  <2>3. CASE n + 1 < Len(DirOrder)
    <3>1. Compilation!GoTo(Compiler, "compile")
      BY <1>8, <2>1, <2>3
    <3>2. steady => ReadSound("compile", m)'
      <4>1. steady => m.directories = Len(DirOrder)
        BY <1>3 DEF ReadSound
      <4>. QED BY <1>1, <2>1, <2>2, <4>1 DEF ReadSound
    <3>3. CompilerSound("compile", m)'
      BY <1>1, <1>4, <2>1, <2>3, <3>2 DEF CompilerSound
    <3>4. CompilerSound("compile", manager[Compiler])'
      BY <1>5, <3>3 DEF CompilerSound, ReadSound
    <3>. QED BY <1>5, <1>6, <3>1, <3>4, CompilerMoves DEF CompilerPlaces
  <2>4. CASE ~(n + 1 < Len(DirOrder))
    <3>1. Compilation!GoTo(Compiler, "open") /\ n + 1 = Len(DirOrder)
      BY <1>4, <1>8, <2>1, <2>4, CompilerStays
    <3>2. ASSUME steady PROVE ContractsFit(compiled'.contracts, m.contracts_checksums)
      <4>1. m.contracts_checksums = Compilation!ChecksumsOf(sources)
        BY <2>2, <3>2 DEF Compilation!ChecksumsOf
      <4>2. DOMAIN Compilation!ChecksumsOf(sources) = Compilation!NamesUpTo(sources, Len(DirOrder))
        BY DEF Compilation!ChecksumsOf, Compilation!contracts_checksums
      <4>. QED BY <2>2, <3>1, <3>2, <4>1, <4>2 DEF ContractsFit
    <3>3. steady => ReadSound("open", m)'
      BY <1>1, <3>2 DEF ReadSound
    <3>4. CompilerSound("open", m)'
      BY <1>1, <1>4, <2>1, <3>3 DEF CompilerSound
    <3>5. CompilerSound("open", manager[Compiler])'
      BY <1>5, <3>4 DEF CompilerSound, ReadSound
    <3>. QED BY <1>5, <1>6, <3>1, <3>5, CompilerMoves DEF CompilerPlaces
  <2>. QED BY <2>3, <2>4
<1>. QED BY <1>7, <1>8 DEF Compilation!CompileDirectory

LEMMA OpenTargetStep ==
  ASSUME Compilation!PrecompiledAssumption, CompilationInv, Compilation!OpenTarget
  PROVE  CompilationInv'
<1> DEFINE m == manager[Compiler]
<1>1. /\ compilerAt[Compiler] = "open" /\ UNCHANGED <<sources, manager, compiled, checked, steady>>
  BY DEF Compilation!OpenTarget
<1>2. CompilerSound("open", m)
  BY <1>1, CompilationParts
<1>3. /\ DOMAIN manager' = Compilation!Processes /\ manager'[Compiler] = m
      /\ \A q \in Checkers : manager'[q] = manager[q] /\ UNCHANGED <<sources, checked>>
      /\ steady' \in BOOLEAN
  BY <1>1, CompilationParts
<1>4. ManagerSound("write", manager'[Compiler]) /\ ManagerSound("failed", manager'[Compiler])
  BY <1>3, CompilerStays DEF ManagerSound
<1>5. CASE /\ Compilation!check_runtime_codesize(compiled.contracts)
           /\ Compilation!GoTo(Compiler, "write") /\ precompiled' = Compilation!Corrupted
  <2>1. CompilerSound("write", m)'
    BY <1>1, <1>2, <1>5 DEF CompilerSound, ReadSound
  <2>2. CompilerSound("write", manager[Compiler])'
    BY <1>3, <2>1 DEF CompilerSound, ReadSound
  <2>. QED BY <1>1, <1>3, <1>4, <1>5, <2>2, CompilerMoves DEF CompilerPlaces
<1>6. CASE Compilation!GoTo(Compiler, "failed") /\ UNCHANGED precompiled
  <2>1. CompilerSound("failed", m)'
    BY <1>1, <1>2 DEF CompilerSound, ReadSound
  <2>2. CompilerSound("failed", manager[Compiler])'
    BY <1>3, <2>1 DEF CompilerSound, ReadSound
  <2>. QED BY <1>1, <1>3, <1>4, <1>6, <2>2, CompilationParts, CompilerMoves DEF CompilerPlaces
<1>. QED BY <1>5, <1>6 DEF Compilation!OpenTarget

LEMMA WriteTargetStep ==
  ASSUME Compilation!PrecompiledAssumption, CompilationInv, Compilation!WriteTarget
  PROVE  CompilationInv'
<1> DEFINE m == manager[Compiler]
<1>1. /\ compilerAt[Compiler] = "write" /\ Compilation!GoTo(Compiler, "load")
      /\ precompiled'.contracts = compiled.contracts /\ precompiled'.steady = steady
      /\ precompiled'.contracts_checksums = m.contracts_checksums
      /\ precompiled'.overall_checksum = m.overall_checksum
      /\ UNCHANGED <<sources, manager, compiled, checked, steady>>
  BY DEF Compilation!WriteTarget
<1>2. CompilerSound("write", m)
  BY <1>1, CompilationParts
<1>3. /\ Compilation!check_runtime_codesize(compiled.contracts)
      /\ (steady => ContractsFit(compiled.contracts, m.contracts_checksums))
  BY <1>2 DEF CompilerSound, ReadSound
<1>4. Compilation!Manager(precompiled')
  BY <1>1, CompilerStays DEF Compilation!Manager
<1>5. ContentSound(precompiled')
  BY <1>1, <1>3, <1>4 DEF ContentSound
<1>6. CompilerSound("load", m)'
  BY <1>1, <1>2 DEF CompilerSound, ReadSound
<1>7. /\ DOMAIN manager' = Compilation!Processes /\ manager'[Compiler] = m
      /\ \A q \in Checkers : manager'[q] = manager[q] /\ UNCHANGED <<sources, checked>>
      /\ steady' \in BOOLEAN
  BY <1>1, CompilationParts
<1>8. CompilerSound("load", manager[Compiler])'
  BY <1>6, <1>7 DEF CompilerSound, ReadSound
<1>9. ManagerSound("load", manager'[Compiler])
  BY <1>7, CompilerStays DEF ManagerSound
<1>. QED BY <1>1, <1>5, <1>7, <1>8, <1>9, CompilerMoves DEF CompilerPlaces

LEMMA LoadCompiledStep ==
  ASSUME Compilation!PrecompiledAssumption, CompilationInv, Compilation!LoadCompiled
  PROVE  CompilationInv'
<1>1. /\ compilerAt[Compiler] = "load"
      /\ UNCHANGED <<sources, precompiled, manager, compiled, checked, steady>>
      /\ Compilation!GoTo(Compiler, "done") \/ Compilation!GoTo(Compiler, "failed")
  BY DEF Compilation!LoadCompiled, Compilation!Load
<1>2. /\ DOMAIN manager' = Compilation!Processes /\ manager'[Compiler] = manager[Compiler]
      /\ \A q \in Checkers : manager'[q] = manager[q]
      /\ UNCHANGED <<sources, checked>> /\ (precompiled' # Compilation!Corrupted => ContentSound(precompiled'))
      /\ steady' \in BOOLEAN
  BY <1>1, CompilationParts
<1>3. ASSUME NEW place \in {"done", "failed"}, Compilation!GoTo(Compiler, place) PROVE CompilationInv'
  <2>1. CompilerSound("load", manager[Compiler])
    BY <1>1, CompilationParts
  <2>2. CompilerSound(place, manager[Compiler])'
    BY <1>1, <1>2, <1>3, <2>1 DEF CompilerSound, ReadSound
  <2>3. ManagerSound(place, manager'[Compiler])
    BY <1>2, <1>3, CompilerStays DEF ManagerSound
  <2>. QED BY <1>2, <1>3, <2>2, <2>3, CompilerMoves DEF CompilerPlaces
<1>. QED BY <1>1, <1>3

LEMMA CheckerStays ==
  ASSUME Compilation!PrecompiledAssumption, CompilationInv, NEW p \in Checkers
  PROVE  /\ p \in Compilation!Processes /\ p # Compiler
         /\ ManagerSound(compilerAt[p], manager[p])
         /\ Compilation!Manager(manager[p])
         /\ manager[p].directories \in 0 .. Len(DirOrder)
         /\ CheckerSound(compilerAt[p], manager[p], checked[p])
BY CompilationParts DEF Compilation!PrecompiledAssumption, Compilation!Processes, ManagerSound

\* The first steps of a checker.
LEMMA CheckerStarts ==
  ASSUME Compilation!PrecompiledAssumption, CompilationInv, NEW p \in Checkers,
         Compilation!StartVerify(p) \/ Compilation!StartDeployer(p)
  PROVE  CompilationInv'
<1>1. compilerAt[p] = "idle" /\ UNCHANGED <<sources, precompiled, manager, compiled, checked, steady>>
  BY DEF Compilation!StartVerify, Compilation!StartDeployer, Compilation!Load
<1>2. Compilation!GoTo(p, "checksums") \/ Compilation!GoTo(p, "failed")
  BY DEF Compilation!StartVerify, Compilation!StartDeployer, Compilation!Load
<1>3. /\ DOMAIN manager' = Compilation!Processes /\ DOMAIN checked' = Compilation!Processes
      /\ \A q \in Compilation!Processes \ {p} : manager'[q] = manager[q] /\ checked'[q] = checked[q]
  BY <1>1, CompilationParts
<1>4. manager'[p] = Compilation!NoManager
  BY <1>1, CheckerStays DEF ManagerSound
<1>5. ManagerSound("checksums", manager'[p]) /\ ManagerSound("failed", manager'[p])
  BY <1>4, CompilerStays, NothingRead DEF ManagerSound
<1>6. CheckerSound("checksums", manager'[p], checked'[p]) /\ CheckerSound("failed", manager'[p], checked'[p])
  BY DEF CheckerSound
<1>7. CASE Compilation!GoTo(p, "checksums")
  BY <1>1, <1>3, <1>5, <1>6, <1>7, CheckerMoves DEF CompilerPlaces
<1>8. CASE Compilation!GoTo(p, "failed")
  BY <1>1, <1>3, <1>5, <1>6, <1>8, CheckerMoves DEF CompilerPlaces
<1>. QED BY <1>2, <1>7, <1>8

LEMMA TakeChecksumsStep ==
  ASSUME Compilation!PrecompiledAssumption, CompilationInv, NEW p \in Checkers,
         Compilation!TakeChecksums(p, "verify")
  PROVE  CompilationInv'
<1>1. PICK m :
        /\ manager' = [manager EXCEPT ![p] = m]
        /\ Compilation!GoTo(p, IF m.directories < Len(DirOrder) THEN "checksums" ELSE "verify")
        /\ UNCHANGED <<sources, precompiled, compiled, checked, steady>>
        /\ Compilation!Manager(m) /\ m.directories \in 0 .. Len(DirOrder)
  BY TakesNext, CheckerStays
<1>2. /\ DOMAIN manager' = Compilation!Processes /\ DOMAIN checked' = Compilation!Processes
      /\ \A q \in Compilation!Processes \ {p} : manager'[q] = manager[q] /\ checked'[q] = checked[q]
      /\ manager'[p] = m
  BY <1>1, CheckerStays, CompilationParts
<1>3. CheckerSound("checksums", manager'[p], checked'[p]) /\ CheckerSound("verify", manager'[p], checked'[p])
  BY DEF CheckerSound
<1>4. CASE m.directories < Len(DirOrder)
  <2>1. Compilation!GoTo(p, "checksums") /\ ManagerSound("checksums", manager'[p])
    BY <1>1, <1>2, <1>4 DEF ManagerSound
  <2>. QED BY <1>1, <1>2, <1>3, <2>1, CheckerMoves DEF CompilerPlaces
<1>5. CASE ~(m.directories < Len(DirOrder))
  <2>1. Compilation!GoTo(p, "verify") /\ ManagerSound("verify", manager'[p])
    BY <1>1, <1>2, <1>5 DEF ManagerSound
  <2>. QED BY <1>1, <1>2, <1>3, <2>1, CheckerMoves DEF CompilerPlaces
<1>. QED BY <1>4, <1>5

LEMMA VerifyChecksumsStep ==
  ASSUME Compilation!PrecompiledAssumption, CompilationInv, NEW p \in Checkers,
         Compilation!Verify(p)
  PROVE  CompilationInv'
<1>1. compilerAt[p] = "verify" /\ UNCHANGED <<sources, precompiled, manager, compiled, steady>>
  BY DEF Compilation!Verify
<1>2. DOMAIN manager' = Compilation!Processes /\ manager' = manager
  BY <1>1, CompilationParts
<1>3. ManagerSound("verified", manager'[p]) /\ ManagerSound("failed", manager'[p])
  BY <1>2, CheckerStays DEF ManagerSound
<1>4. CASE /\ Compilation!Readable(precompiled)
           /\ Compilation!verify_precompiled_checksums(manager[p], precompiled)
           /\ Compilation!GoTo(p, "verified")
           /\ checked' = [checked EXCEPT ![p] = precompiled]
  <2>1. ContentSound(precompiled)
    BY <1>4, CompilationParts DEF Compilation!Readable
  <2>2. precompiled.contracts_checksums = manager[p].contracts_checksums
    BY <1>4, <2>1, CheckerStays, SameSources DEF ContentSound
  <2>3. /\ checked'[p] = precompiled /\ DOMAIN checked' = Compilation!Processes
        /\ \A q \in Compilation!Processes \ {p} : checked'[q] = checked[q]
    BY <1>4, CheckerStays, CompilationParts
  <2>4. CheckerSound("verified", manager'[p], checked'[p])
    BY <1>2, <2>1, <2>2, <2>3 DEF CheckerSound, ContentSound
  <2>. QED BY <1>1, <1>2, <1>3, <1>4, <2>3, <2>4, CheckerMoves DEF CompilerPlaces
<1>5. CASE Compilation!GoTo(p, "failed") /\ UNCHANGED checked
  <2>1. CheckerSound("failed", manager'[p], checked'[p])
    BY DEF CheckerSound
  <2>. QED BY <1>1, <1>2, <1>3, <1>5, <2>1, CompilationParts, CheckerMoves DEF CompilerPlaces
<1>. QED BY <1>4, <1>5 DEF Compilation!Verify

LEMMA CompilationExit ==
  ASSUME Compilation!PrecompiledAssumption, CompilationInv, NEW p \in Compilation!Processes,
         Compilation!Exit(p)
  PROVE  CompilationInv'
<1>1. /\ Compilation!GoTo(p, "idle") /\ UNCHANGED <<sources, precompiled, steady>>
      /\ manager' = [manager EXCEPT ![p] = Compilation!NoManager]
      /\ checked' = [checked EXCEPT ![p] = Compilation!NoManager]
      /\ compiled' = IF p = Compiler THEN Compilation!NothingCompiled ELSE compiled
  BY DEF Compilation!Exit
<1>2. /\ compilerAt' \in [Compilation!Processes -> CompilerPlaces] /\ compilerAt'[p] = "idle"
      /\ \A q \in Compilation!Processes \ {p} : compilerAt'[q] = compilerAt[q]
  BY <1>1, ProcessGoes DEF CompilerPlaces
<1>3. /\ DOMAIN manager' = Compilation!Processes /\ DOMAIN checked' = Compilation!Processes
      /\ \A q \in Compilation!Processes \ {p} : manager'[q] = manager[q] /\ checked'[q] = checked[q]
      /\ manager'[p] = Compilation!NoManager
  BY <1>1, CompilationParts
<1>4. \A q \in Checkers : CheckerSound(compilerAt'[q], manager'[q], checked'[q])
  <2> SUFFICES ASSUME NEW q \in Checkers PROVE CheckerSound(compilerAt'[q], manager'[q], checked'[q])
    OBVIOUS
  <2>1. CASE q = p
    BY <1>2, <2>1 DEF CheckerSound
  <2>2. CASE q # p
    <3>1. compilerAt'[q] = compilerAt[q] /\ manager'[q] = manager[q] /\ checked'[q] = checked[q]
      BY <1>2, <1>3, <2>2 DEF Compilation!Processes
    <3>. QED BY <3>1, CompilationParts
  <2>. QED BY <2>1, <2>2
<1>5. ManagerSound("idle", Compilation!NoManager)
  BY CompilerStays, NothingRead DEF ManagerSound
<1>6. \A q \in Compilation!Processes : ManagerSound(compilerAt'[q], manager'[q])
  BY <1>2, <1>3, <1>5, CompilationParts
<1>7. CompilerSound(compilerAt[Compiler], manager[Compiler])'
  <2>1. CASE p = Compiler
    <3>1. compiled' = Compilation!NothingCompiled /\ compilerAt'[Compiler] = "idle"
      BY <1>1, <1>2, <2>1
    <3>2. compiled'.directories \in 0 .. Len(DirOrder)
      BY <3>1, CompilerStays, NothingRead
    <3>. QED BY <3>1, <3>2 DEF CompilerSound, ReadSound
  <2>2. CASE p # Compiler
    BY <1>1, <1>2, <1>3, <2>2, CompilationParts DEF CompilerSound, ReadSound, Compilation!Processes
  <2>. QED BY <2>1, <2>2
<1>8. /\ sources' \in Compilation!Sources /\ steady' \in BOOLEAN
      /\ (precompiled' # Compilation!Corrupted => ContentSound(precompiled'))
  BY <1>1, CompilationParts
<1>. QED BY <1>2, <1>3, <1>4, <1>6, <1>7, <1>8 DEF CompilationInv

LEMMA CompilationStep ==
  ASSUME Compilation!PrecompiledAssumption, CompilationInv, [Compilation!Next]_(Compilation!vars)
  PROVE  CompilationInv'
<1>1. CASE UNCHANGED Compilation!vars
  <2>1. UNCHANGED <<sources, precompiled, compilerAt, manager, compiled, checked, steady>>
    BY <1>1 DEF Compilation!vars
  <2>2. CompilerSound(compilerAt[Compiler], manager[Compiler])'
    BY <2>1, CompilationParts DEF CompilerSound, ReadSound
  <2>. QED BY <2>1, <2>2, CompilationParts DEF CompilationInv
<1>2. ASSUME NEW p \in Checkers,
             \/ Compilation!StartVerify(p) \/ Compilation!StartDeployer(p)
             \/ Compilation!TakeChecksums(p, "verify") \/ Compilation!Verify(p)
      PROVE  CompilationInv'
  BY <1>2, CheckerStarts, TakeChecksumsStep, VerifyChecksumsStep
<1>3. CASE Compilation!Next
  BY <1>2, <1>3, EditStep, StartCompileStep, CompilerTakesStep, CompileDirectoryStep, OpenTargetStep,
     WriteTargetStep, LoadCompiledStep, CompilationExit DEF Compilation!Next
<1>. QED BY <1>1, <1>3

LEMMA CompilationSafe ==
  ASSUME Compilation!PrecompiledAssumption, CompilationInv
  PROVE  Compilation!TypeOK /\ Compilation!VerifiedMeansCompiled
<1>1. Compilation!TypeOK
  BY CompilationParts
     DEF Compilation!TypeOK, ContentSound, ManagerSound, CompilerSound, CompilerPlaces
<1>2. Compilation!VerifiedMeansCompiled
  BY CompilationParts
     DEF Compilation!VerifiedMeansCompiled, CheckerSound, ContractsFit
<1>. QED BY <1>1, <1>2

LEMMA ExplorerSafe ==
  ASSUME Explorer!EtherscanAssumption, ExplorerInv
  PROVE  Explorer!TypeOK /\ Explorer!SuccessMeansVerified
<1>1. Explorer!TypeOK
  BY ExplorerParts DEF ExplorerInv, RunnerSound, RunnerPlaces, Explorer!TypeOK, Explorer!NoSource
<1>2. Explorer!SuccessMeansVerified
  BY ExplorerParts DEF RunnerSound, PassedOwn, Explorer!SuccessMeansVerified
<1>. QED BY <1>1, <1>2

(***************************************************************************)
(* The token commands: what a receipt does not tell is known from the      *)
(* check before it, as long as the command was not overtaken.              *)
(***************************************************************************)
Assets == {"token", "weth", "ether"}

Balances == [Assets -> [Accounts -> 0 .. UINT256_MAX]]

\* A command's transaction, as it stands with the node.
PendingSound(a, entry) ==
  /\ TokenPlan[entry[1]].owner = a /\ entry[2] <= runs[entry[1]]
  /\ commandAt[entry[1]] = "checked" => entry[2] < runs[entry[1]]
  /\ (commandAt[entry[1]] = "sent" /\ receipt[entry[1]].status # "none")
       => entry[2] < runs[entry[1]]

\* What is known of a command that has not ended, or has succeeded.
OperationSound(c, place, paper, late) ==
  /\ place = "checked" => paper.status = "none"
  /\ (place \in {"checked", "sent"} /\ paper.status = "none"
        /\ TokenPlan[c].operation = "transfer")
       => late \/ balances["token"][TokenPlan[c].owner] >= TokenPlan[c].amount
  /\ (place = "ok" \/ (place = "sent" /\ paper.status = "ok"))
       => paper.moved \/ late \/ TokenPlan[c].amount = 0

Conserved(b) ==
  \A a \in Accounts : b["weth"][a] + b["ether"][a] = Held["weth"][a] + Held["ether"][a]

OperationsInv ==
  /\ balances \in Balances /\ _total_supply \in 0 .. UINT256_MAX
  /\ pending \in [Accounts -> Seq(TokenCommands \X (1 .. MaxRuns))]
  /\ commandAt \in [TokenCommands -> {"idle", "checked", "sent", "ok", "failed"}]
  /\ receipt \in [TokenCommands -> [status : {"none", "ok", "reverted"}, moved : BOOLEAN]]
  /\ overtaken \in [TokenCommands -> BOOLEAN]
  /\ runs \in [TokenCommands -> 0 .. MaxRuns]
  /\ _total_supply = Total(balances["token"]) /\ Conserved(balances)
  /\ \A a \in Accounts : \A i \in 1 .. Len(pending[a]) :
       /\ PendingSound(a, pending[a][i])
       /\ \A j \in 1 .. Len(pending[a]) : pending[a][i] = pending[a][j] => i = j
  /\ \A c \in TokenCommands : commandAt[c] # "idle" => runs[c] > 0
  /\ \A c \in TokenCommands : OperationSound(c, commandAt[c], receipt[c], overtaken[c])

LEMMA OperationsTotal ==
  ASSUME NEW f PROVE Operations!Total(f) = Total(f)
<1>1. \A S : Operations!Cardinality(S) = Cardinality(S)
  BY DEF Operations!Cardinality, Cardinality
<1>2. Operations!Units(f) = Units(f)
  BY DEF Operations!Units, Operations!UnitsAt, Units, UnitsAt
<1>. QED BY <1>1, <1>2 DEF Operations!Total, Total

LEMMA OperationsTypes ==
  ASSUME Operations!CommandsAssumption
  PROVE  /\ UINT256_MAX \in Nat /\ MaxRuns \in Nat /\ IsFiniteSet(Accounts)
         /\ Held \in Balances /\ Total(Held["token"]) \in 0 .. UINT256_MAX
         /\ \A a \in Accounts : Held["weth"][a] + Held["ether"][a] <= UINT256_MAX
         /\ \A c \in TokenCommands :
              /\ TokenPlan[c].operation \in {"mint", "weth", "transfer"}
              /\ TokenPlan[c].owner \in Accounts /\ TokenPlan[c].dest \in Accounts
              /\ TokenPlan[c].amount \in 0 .. UINT256_MAX
<1>1. /\ UINT256_MAX \in Nat /\ MaxRuns \in Nat /\ Operations!IsFiniteSet(Accounts)
      /\ Held \in Balances /\ Operations!Total(Held["token"]) <= UINT256_MAX
      /\ \A a \in Accounts : Held["weth"][a] + Held["ether"][a] <= UINT256_MAX
      /\ TokenPlan \in [TokenCommands -> [operation : {"mint", "weth", "transfer"},
                          owner : Accounts, dest : Accounts, amount : 0 .. UINT256_MAX]]
  BY DEF Operations!CommandsAssumption, Balances, Assets
<1>2. IsFiniteSet(Accounts)
  BY <1>1 DEF Operations!IsFiniteSet, IsFiniteSet
<1>3. Held["token"] \in [Accounts -> Nat]
  BY <1>1 DEF Balances, Assets
<1>4. Total(Held["token"]) \in 0 .. UINT256_MAX
  BY <1>1, <1>2, <1>3, TotalIsNat, OperationsTotal
<1>. QED BY <1>1, <1>2, <1>4

LEMMA OperationsStart ==
  ASSUME Operations!CommandsAssumption, Operations!Init PROVE OperationsInv
<1>1. /\ balances = Held /\ _total_supply = Total(Held["token"])
      /\ pending = [a \in Accounts |-> <<>>]
      /\ commandAt = [c \in TokenCommands |-> "idle"]
      /\ receipt = [c \in TokenCommands |-> [status |-> "none", moved |-> FALSE]]
      /\ overtaken = [c \in TokenCommands |-> FALSE]
      /\ runs = [c \in TokenCommands |-> 0]
  BY OperationsTotal DEF Operations!Init, Operations!tokensHeld, Operations!NoReceipt
<1>2. \A a \in Accounts : Len(pending[a]) = 0 /\ pending[a] \in Seq(TokenCommands \X (1 .. MaxRuns))
  BY <1>1
<1>3. \A c \in TokenCommands : OperationSound(c, commandAt[c], receipt[c], overtaken[c])
  BY <1>1 DEF OperationSound
<1>4. /\ balances \in Balances /\ _total_supply \in 0 .. UINT256_MAX
      /\ _total_supply = Total(balances["token"]) /\ Conserved(balances)
  BY <1>1, OperationsTypes DEF Conserved
<1>5. /\ pending \in [Accounts -> Seq(TokenCommands \X (1 .. MaxRuns))]
      /\ commandAt \in [TokenCommands -> {"idle", "checked", "sent", "ok", "failed"}]
      /\ receipt \in [TokenCommands -> [status : {"none", "ok", "reverted"}, moved : BOOLEAN]]
      /\ overtaken \in [TokenCommands -> BOOLEAN]
      /\ runs \in [TokenCommands -> 0 .. MaxRuns]
  BY <1>1, <1>2, OperationsTypes
<1>6. /\ \A a \in Accounts : 1 .. Len(pending[a]) = {}
      /\ \A c \in TokenCommands : commandAt[c] = "idle"
  BY <1>1, <1>2
<1>. QED BY <1>3, <1>4, <1>5, <1>6 DEF OperationsInv

\* What a mined transaction of the command leaves, and what it reports.
ExecutedSound(c, result) ==
  LET owner == TokenPlan[c].owner
      amount == TokenPlan[c].amount
  IN  /\ result.balances \in Balances /\ result.supply \in 0 .. UINT256_MAX
      /\ result.supply = Total(result.balances["token"]) /\ Conserved(result.balances)
      /\ result.status \in {"ok", "reverted"} /\ result.moved \in BOOLEAN
      /\ \A a \in Accounts : a # owner \/ TokenPlan[c].operation # "transfer"
           => result.balances["token"][a] >= balances["token"][a]
      /\ (TokenPlan[c].operation # "transfer" /\ result.status = "ok") => result.moved
      /\ (TokenPlan[c].operation = "transfer" /\ balances["token"][owner] >= amount)
           => result.moved \/ amount = 0

LEMMA NothingDone ==
  ASSUME Operations!CommandsAssumption, OperationsInv, NEW c \in TokenCommands,
         NEW status \in {"ok", "reverted"}, NEW result,
         result = [balances |-> balances, supply |-> _total_supply, moved |-> FALSE,
                   status |-> status],
         TokenPlan[c].operation # "transfer" => status = "reverted",
         TokenPlan[c].operation = "transfer" =>
           ~(balances["token"][TokenPlan[c].owner] >= TokenPlan[c].amount)
             \/ TokenPlan[c].amount = 0
  PROVE  ExecutedSound(c, result)
<1>1. \A a \in Accounts : balances["token"][a] \in Nat
  BY DEF OperationsInv, Balances, Assets
<1>. QED BY <1>1 DEF OperationsInv, ExecutedSound

LEMMA OperationsParts ==
  ASSUME Operations!CommandsAssumption, OperationsInv
  PROVE  /\ balances \in Balances /\ Conserved(balances)
         /\ balances["token"] \in [Accounts -> 0 .. UINT256_MAX]
         /\ balances["weth"] \in [Accounts -> 0 .. UINT256_MAX]
         /\ balances["ether"] \in [Accounts -> 0 .. UINT256_MAX]
         /\ _total_supply = Total(balances["token"]) /\ _total_supply \in 0 .. UINT256_MAX
<1>1. balances \in Balances
  BY DEF OperationsInv
<1>. QED BY <1>1 DEF OperationsInv, Balances, Assets

LEMMA MintExecuted ==
  ASSUME Operations!CommandsAssumption, OperationsInv, NEW c \in TokenCommands,
         TokenPlan[c].operation = "mint",
         _total_supply + TokenPlan[c].amount <= UINT256_MAX, NEW result,
         result.balances = [balances EXCEPT !["token"] =
           [balances["token"] EXCEPT ![TokenPlan[c].owner] = @ + TokenPlan[c].amount]],
         result.supply = _total_supply + TokenPlan[c].amount,
         result.moved = TRUE, result.status = "ok"
  PROVE  ExecutedSound(c, result)
<1> DEFINE owner == TokenPlan[c].owner
           amount == TokenPlan[c].amount
           old == balances["token"]
           new == [old EXCEPT ![owner] = @ + amount]
<1>a. owner \in Accounts /\ amount \in Nat /\ UINT256_MAX \in Nat /\ IsFiniteSet(Accounts)
  BY OperationsTypes
<1>b. /\ old \in [Accounts -> 0 .. UINT256_MAX] /\ _total_supply = Total(old)
      /\ _total_supply \in Nat /\ balances \in Balances /\ Conserved(balances)
  BY <1>a, OperationsParts
<1>1. /\ owner \in Accounts /\ amount \in Nat /\ UINT256_MAX \in Nat /\ IsFiniteSet(Accounts)
      /\ old \in [Accounts -> 0 .. UINT256_MAX] /\ _total_supply = Total(old)
      /\ _total_supply \in Nat /\ balances \in Balances /\ Conserved(balances)
  BY <1>a, <1>b
<1>2. old \in [Accounts -> Nat] /\ new \in [Accounts -> Nat] /\ new[owner] = old[owner] + amount
  BY <1>1
<1>. HIDE DEF owner, amount, old
<1>3. \A a \in Accounts \ {owner} : new[a] = old[a]
  BY <1>1
<1>4. Total(new) = Total(old) - old[owner] + new[owner] /\ Total(old) \in Nat
  <2>1. IsFiniteSet(Accounts) /\ owner \in Accounts
    BY <1>1
  <2>2. old \in [Accounts -> Nat] /\ new \in [Accounts -> Nat]
    BY <1>2
  <2>. HIDE DEF new
  <2>3. Total(new) = Total(old) - old[owner] + new[owner]
    BY <1>3, <2>1, <2>2, TotalUpdate
  <2>. QED BY <2>1, <2>2, <2>3, TotalIsNat
<1>5. Total(new) = _total_supply + amount
  BY <1>1, <1>2, <1>4
<1>6. \A a \in Accounts : new[a] <= Total(new)
  BY <1>1, <1>2, TermWithinTotal
<1>7. result.balances = [balances EXCEPT !["token"] = new] /\ Total(new) <= UINT256_MAX
  BY <1>1, <1>5 DEF old, owner, amount
<1>. HIDE DEF new
<1>8. Total(new) \in Nat
  BY <1>1, <1>5
<1>9. new \in [Accounts -> 0 .. UINT256_MAX]
  BY <1>1, <1>2, <1>6, <1>7, <1>8
<1>10. /\ result.balances \in Balances /\ result.balances["token"] = new
       /\ result.balances["weth"] = balances["weth"] /\ result.balances["ether"] = balances["ether"]
  BY <1>1, <1>7, <1>9 DEF Balances, Assets
<1>11. Conserved(result.balances)
  BY <1>1, <1>10 DEF Conserved
<1>12. \A a \in Accounts : new[a] >= old[a]
  BY <1>1, <1>2, <1>3
<1>13. result.supply = Total(new) /\ result.supply \in 0 .. UINT256_MAX
  BY <1>1, <1>5, <1>7, <1>8 DEF amount
<1>. QED BY <1>10, <1>11, <1>12, <1>13 DEF ExecutedSound, old

LEMMA DepositExecuted ==
  ASSUME Operations!CommandsAssumption, OperationsInv, NEW c \in TokenCommands,
         TokenPlan[c].operation = "weth",
         balances["ether"][TokenPlan[c].owner] >= TokenPlan[c].amount, NEW result,
         result.balances = [balances EXCEPT
           !["ether"] = [balances["ether"] EXCEPT ![TokenPlan[c].owner] = @ - TokenPlan[c].amount],
           !["weth"] = [balances["weth"] EXCEPT ![TokenPlan[c].owner] = @ + TokenPlan[c].amount]],
         result.supply = _total_supply,
         result.moved = TRUE, result.status = "ok"
  PROVE  ExecutedSound(c, result)
<1> DEFINE owner == TokenPlan[c].owner
           amount == TokenPlan[c].amount
           ether == [balances["ether"] EXCEPT ![owner] = @ - amount]
           weth == [balances["weth"] EXCEPT ![owner] = @ + amount]
<1>a. owner \in Accounts /\ amount \in Nat /\ UINT256_MAX \in Nat
  BY OperationsTypes
<1>1. /\ owner \in Accounts /\ amount \in Nat /\ UINT256_MAX \in Nat
      /\ balances["ether"] \in [Accounts -> 0 .. UINT256_MAX]
      /\ balances["weth"] \in [Accounts -> 0 .. UINT256_MAX]
      /\ balances["token"] \in [Accounts -> 0 .. UINT256_MAX]
      /\ balances \in Balances /\ Conserved(balances)
      /\ _total_supply = Total(balances["token"]) /\ _total_supply \in 0 .. UINT256_MAX
  BY <1>a, OperationsParts
<1>2. /\ balances["weth"][owner] + balances["ether"][owner] = Held["weth"][owner] + Held["ether"][owner]
      /\ Held["weth"][owner] + Held["ether"][owner] <= UINT256_MAX
      /\ balances["ether"][owner] >= amount
  BY <1>1, OperationsTypes DEF Conserved
<1>. HIDE DEF owner, amount
<1>3. /\ ether \in [Accounts -> 0 .. UINT256_MAX]
      /\ ether[owner] = balances["ether"][owner] - amount
      /\ \A a \in Accounts \ {owner} : ether[a] = balances["ether"][a]
  BY <1>1, <1>2
<1>4. /\ weth \in [Accounts -> 0 .. UINT256_MAX]
      /\ weth[owner] = balances["weth"][owner] + amount
      /\ \A a \in Accounts \ {owner} : weth[a] = balances["weth"][a]
  BY <1>1, <1>2
<1>5. result.balances = [balances EXCEPT !["ether"] = ether, !["weth"] = weth]
  BY DEF owner, amount
<1>. HIDE DEF ether, weth
<1>6. /\ result.balances \in Balances /\ result.balances["token"] = balances["token"]
      /\ result.balances["weth"] = weth /\ result.balances["ether"] = ether
  <2> DEFINE half == [balances EXCEPT !["ether"] = ether]
  <2>1. /\ half \in Balances /\ half["ether"] = ether
        /\ half["token"] = balances["token"] /\ half["weth"] = balances["weth"]
    BY <1>1, <1>3 DEF Balances, Assets
  <2>2. result.balances = [half EXCEPT !["weth"] = weth]
    BY <1>5
  <2>. HIDE DEF half
  <2>3. half \in [Assets -> [Accounts -> 0 .. UINT256_MAX]] /\ "weth" \in Assets
    BY <2>1 DEF Balances, Assets
  <2>4. /\ result.balances \in [Assets -> [Accounts -> 0 .. UINT256_MAX]]
        /\ result.balances["weth"] = weth
    BY <1>4, <2>2, <2>3
  <2>5. /\ result.balances["token"] = half["token"] /\ result.balances["ether"] = half["ether"]
    BY <2>2, <2>3 DEF Assets
  <2>. QED BY <2>1, <2>4, <2>5 DEF Balances
<1>7. Conserved(result.balances)
  <2> SUFFICES ASSUME NEW a \in Accounts
      PROVE  weth[a] + ether[a] = Held["weth"][a] + Held["ether"][a]
    BY <1>6 DEF Conserved
  <2>1. balances["weth"][a] + balances["ether"][a] = Held["weth"][a] + Held["ether"][a]
    BY <1>1 DEF Conserved
  <2>. QED BY <1>1, <1>2, <1>3, <1>4, <2>1
<1>8. \A a \in Accounts : result.balances["token"][a] >= balances["token"][a]
  BY <1>1, <1>6
<1>9. result.supply = Total(result.balances["token"]) /\ result.supply \in 0 .. UINT256_MAX
  BY <1>1, <1>6
<1>. QED BY <1>6, <1>7, <1>8, <1>9 DEF ExecutedSound

LEMMA TransferExecuted ==
  ASSUME Operations!CommandsAssumption, OperationsInv, NEW c \in TokenCommands,
         TokenPlan[c].operation = "transfer",
         balances["token"][TokenPlan[c].owner] >= TokenPlan[c].amount, NEW result,
         result.balances = [balances EXCEPT !["token"] =
           Operations!transferred(balances["token"], TokenPlan[c].owner, TokenPlan[c].dest,
                                  TokenPlan[c].amount)],
         result.supply = _total_supply,
         result.moved = TRUE, result.status = "ok"
  PROVE  ExecutedSound(c, result)
<1> DEFINE owner == TokenPlan[c].owner
           dest == TokenPlan[c].dest
           amount == TokenPlan[c].amount
           old == balances["token"]
           new == Operations!transferred(old, owner, dest, amount)
<1>1. /\ owner \in Accounts /\ dest \in Accounts /\ amount \in Nat
      /\ UINT256_MAX \in Nat /\ IsFiniteSet(Accounts)
      /\ old \in [Accounts -> 0 .. UINT256_MAX] /\ _total_supply = Total(old)
      /\ _total_supply \in 0 .. UINT256_MAX /\ balances \in Balances /\ Conserved(balances)
      /\ old[owner] >= amount
  BY OperationsTypes DEF OperationsInv, Balances, Assets
<1>2. result.balances = [balances EXCEPT !["token"] = new]
  OBVIOUS
<1>. HIDE DEF owner, dest, amount, old, new
<1>3. /\ new \in [Accounts -> Nat] /\ Total(new) = Total(old)
      /\ \A a \in Accounts : a # owner => new[a] >= old[a]
  <2>1. old \in [Accounts -> Nat]
    BY <1>1
  <2>2. CASE owner = dest
    <3> DEFINE less == [old EXCEPT ![owner] = old[owner] - amount]
    <3>1. old[owner] \in Nat /\ old[owner] - amount \in Nat
      BY <1>1, <2>1
    <3>2. /\ less \in [Accounts -> Nat] /\ less[owner] = old[owner] - amount
          /\ \A a \in Accounts \ {owner} : less[a] = old[a]
      BY <1>1, <2>1, <3>1
    <3>3. new = [less EXCEPT ![owner] = @ + amount]
      BY Zenon, <2>2 DEF new, Operations!transferred
    <3>. HIDE DEF less, new
    <3>4. /\ new \in [Accounts -> Nat] /\ new[owner] = old[owner]
          /\ \A a \in Accounts \ {owner} : new[a] = old[a]
      BY <1>1, <3>1, <3>2, <3>3
    <3>5. new = old
      BY <2>1, <3>4
    <3>. QED BY <2>1, <3>5
  <2>3. CASE owner # dest
    <3>1. /\ new \in [Accounts -> Nat] /\ new[owner] = old[owner] - amount
          /\ new[dest] = old[dest] + amount
          /\ \A a \in Accounts \ {owner, dest} : new[a] = old[a]
      BY <1>1, <2>1, <2>3 DEF new, Operations!transferred
    <3>2. Total(new) = Total(old) - old[owner] - old[dest] + new[owner] + new[dest]
      BY <1>1, <2>1, <2>3, <3>1, TotalUpdate2
    <3>3. Total(old) \in Nat /\ old[owner] \in Nat /\ old[dest] \in Nat
      BY <1>1, <2>1, TotalIsNat
    <3>4. Total(new) = Total(old)
      BY <1>1, <3>1, <3>2, <3>3
    <3>5. \A a \in Accounts : a # owner => new[a] >= old[a]
      BY <1>1, <2>1, <3>1
    <3>. QED BY <3>1, <3>4, <3>5
  <2>. QED BY <2>2, <2>3
<1>4. \A a \in Accounts : new[a] <= Total(new)
  BY <1>1, <1>3, TermWithinTotal
<1>5. new \in [Accounts -> 0 .. UINT256_MAX]
  BY <1>1, <1>3, <1>4
<1>6. /\ result.balances \in Balances /\ result.balances["token"] = new
      /\ result.balances["weth"] = balances["weth"] /\ result.balances["ether"] = balances["ether"]
  BY <1>1, <1>2, <1>5 DEF Balances, Assets
<1>7. Conserved(result.balances)
  BY <1>1, <1>6 DEF Conserved
<1>. QED BY <1>1, <1>3, <1>6, <1>7 DEF ExecutedSound, owner, old

LEMMA CommandExecuted ==
  ASSUME Operations!CommandsAssumption, OperationsInv, NEW c \in TokenCommands,
         Operations!executed(c).status # "unfunded"
  PROVE  ExecutedSound(c, Operations!executed(c))
<1> DEFINE result == Operations!executed(c)
           owner == TokenPlan[c].owner
           dest == TokenPlan[c].dest
           amount == TokenPlan[c].amount
<1>1. CASE TokenPlan[c].operation = "mint"
  <2>1. result = Operations!mintFor(owner, amount)
    BY <1>1 DEF Operations!executed
  <2>2. CASE _total_supply + amount > UINT256_MAX
    <3>1. result = [balances |-> balances, supply |-> _total_supply, moved |-> FALSE,
                    status |-> "reverted"]
      BY <2>1, <2>2 DEF Operations!mintFor, Operations!nothingDone
    <3>. QED BY <1>1, <3>1, NothingDone
  <2>3. CASE ~(_total_supply + amount > UINT256_MAX)
    <3>1. /\ result.balances = [balances EXCEPT !["token"] =
                                  [balances["token"] EXCEPT ![owner] = @ + amount]]
          /\ result.supply = _total_supply + amount
          /\ result.moved = TRUE /\ result.status = "ok"
      BY <2>1, <2>3 DEF Operations!mintFor, Operations!nothingDone
    <3>2. _total_supply + amount <= UINT256_MAX
      BY <2>3, OperationsTypes DEF OperationsInv
    <3>. HIDE DEF result
    <3>3. ExecutedSound(c, result)
      BY <1>1, <3>1, <3>2, MintExecuted
    <3>. QED BY <3>3 DEF result
  <2>. QED BY <2>2, <2>3
<1>2. CASE TokenPlan[c].operation = "weth"
  <2>1. result = Operations!deposit(owner, amount)
    BY <1>2 DEF Operations!executed
  <2>2. ~(balances["ether"][owner] < amount)
    BY <2>1 DEF Operations!deposit, Operations!nothingDone
  <2>3. /\ result.balances = [balances EXCEPT
             !["ether"] = [balances["ether"] EXCEPT ![owner] = @ - amount],
             !["weth"] = [balances["weth"] EXCEPT ![owner] = @ + amount]]
        /\ result.supply = _total_supply /\ result.moved = TRUE /\ result.status = "ok"
    BY <2>1, <2>2 DEF Operations!deposit, Operations!nothingDone
  <2>4. balances["ether"][owner] >= amount
    BY <2>2, OperationsTypes DEF OperationsInv, Balances, Assets
  <2>. HIDE DEF result
  <2>5. ExecutedSound(c, result)
    BY <1>2, <2>3, <2>4, DepositExecuted
  <2>. QED BY <2>5 DEF result
<1>3. CASE TokenPlan[c].operation = "transfer"
  <2>1. result = Operations!transfer(owner, dest, amount)
    BY <1>3 DEF Operations!executed
  <2>2. amount \in Nat
    BY OperationsTypes
  <2>3. CASE balances["token"][owner] >= amount /\ amount > 0
    <3>1. /\ result.balances = [balances EXCEPT !["token"] =
               Operations!transferred(balances["token"], owner, dest, amount)]
          /\ result.supply = _total_supply /\ result.moved = TRUE /\ result.status = "ok"
      BY <2>1, <2>3 DEF Operations!transfer, Operations!nothingDone
    <3>. HIDE DEF result
    <3>2. ExecutedSound(c, result)
      BY <1>3, <2>3, <3>1, TransferExecuted
    <3>. QED BY <3>2 DEF result
  <2>4. CASE ~(balances["token"][owner] >= amount /\ amount > 0)
    <3>1. result = [balances |-> balances, supply |-> _total_supply, moved |-> FALSE,
                    status |-> "ok"]
      BY <2>1, <2>4 DEF Operations!transfer, Operations!nothingDone
    <3>2. ~(balances["token"][owner] >= amount) \/ amount = 0
      BY <2>2, <2>4
    <3>. QED BY <1>3, <3>1, <3>2, NothingDone
  <2>. QED BY <2>3, <2>4
<1>. QED BY <1>1, <1>2, <1>3, OperationsTypes

LEMMA OperationsPlaces ==
  ASSUME OperationsInv
  PROVE  /\ pending \in [Accounts -> Seq(TokenCommands \X (1 .. MaxRuns))]
         /\ commandAt \in [TokenCommands -> {"idle", "checked", "sent", "ok", "failed"}]
         /\ receipt \in [TokenCommands -> [status : {"none", "ok", "reverted"}, moved : BOOLEAN]]
         /\ overtaken \in [TokenCommands -> BOOLEAN]
         /\ runs \in [TokenCommands -> 0 .. MaxRuns]
         /\ \A a \in Accounts : \A i \in 1 .. Len(pending[a]) :
              /\ PendingSound(a, pending[a][i])
              /\ \A j \in 1 .. Len(pending[a]) : pending[a][i] = pending[a][j] => i = j
         /\ \A c \in TokenCommands : commandAt[c] # "idle" => runs[c] > 0
         /\ \A c \in TokenCommands : OperationSound(c, commandAt[c], receipt[c], overtaken[c])
BY DEF OperationsInv

\* What a pending transaction is: a run of a command of its own.
LEMMA PendingTyped ==
  ASSUME Operations!CommandsAssumption, OperationsInv, NEW a \in Accounts,
         NEW i \in 1 .. Len(pending[a])
  PROVE  /\ pending[a][i][1] \in TokenCommands /\ pending[a][i][2] \in Nat
         /\ pending[a][i] = <<pending[a][i][1], pending[a][i][2]>>
         /\ runs[pending[a][i][1]] \in Nat
<1>1. MaxRuns \in Nat /\ pending[a] \in Seq(TokenCommands \X (1 .. MaxRuns))
  BY OperationsPlaces, OperationsTypes
<1>2. pending[a][i] \in TokenCommands \X (1 .. MaxRuns)
  BY <1>1
<1>. QED BY <1>1, <1>2, OperationsPlaces

\* A pending transaction stands as it did, as long as its command does, or has
\* started again.
LEMMA PendingGoes ==
  ASSUME NEW a \in Accounts, NEW entry, PendingSound(a, entry), UNCHANGED runs,
         entry[2] < runs[entry[1]]
           \/ (commandAt'[entry[1]] = commandAt[entry[1]] /\ receipt'[entry[1]] = receipt[entry[1]])
  PROVE  PendingSound(a, entry)'
BY DEF PendingSound

\* A step of a command that moves nothing, sends nothing and takes nothing back.
LEMMA OperationMoves ==
  ASSUME Operations!CommandsAssumption, OperationsInv, NEW c \in TokenCommands,
         UNCHANGED <<balances, _total_supply, pending>>,
         commandAt' \in [TokenCommands -> {"idle", "checked", "sent", "ok", "failed"}],
         receipt' \in [TokenCommands -> [status : {"none", "ok", "reverted"}, moved : BOOLEAN]],
         overtaken' \in [TokenCommands -> BOOLEAN],
         runs' \in [TokenCommands -> 0 .. MaxRuns],
         \A d \in TokenCommands \ {c} :
           /\ commandAt'[d] = commandAt[d] /\ receipt'[d] = receipt[d]
           /\ overtaken'[d] = overtaken[d] /\ runs'[d] = runs[d],
         runs'[c] > runs[c] \/ (runs'[c] = runs[c] /\ commandAt'[c] \notin {"checked", "sent"}),
         runs'[c] > 0,
         OperationSound(c, commandAt'[c], receipt'[c], overtaken'[c])
  PROVE  OperationsInv'
<1>1. ASSUME NEW a \in Accounts, NEW i \in 1 .. Len(pending[a]) PROVE PendingSound(a, pending[a][i])'
  <2> DEFINE d == pending[a][i][1]
             r == pending[a][i][2]
  <2>1. d \in TokenCommands /\ r \in Nat /\ runs[d] \in Nat /\ runs'[d] \in Nat
    BY <1>1, PendingTyped, OperationsTypes
  <2>2. PendingSound(a, pending[a][i])
    BY <1>1, OperationsPlaces
  <2>3. CASE d = c
    BY <2>1, <2>2, <2>3 DEF PendingSound
  <2>4. CASE d # c
    BY <2>1, <2>2, <2>4 DEF PendingSound
  <2>. QED BY <2>3, <2>4
<1>2. \A d \in TokenCommands : OperationSound(d, commandAt'[d], receipt'[d], overtaken'[d])
  BY OperationsPlaces
<1>3. \A d \in TokenCommands : OperationSound(d, commandAt[d], receipt[d], overtaken[d])'
  BY <1>2 DEF OperationSound
<1>4. \A d \in TokenCommands : commandAt'[d] # "idle" => runs'[d] > 0
  BY OperationsPlaces
<1>. QED BY <1>1, <1>3, <1>4 DEF OperationsInv, Conserved

LEMMA StartStep ==
  ASSUME Operations!CommandsAssumption, OperationsInv, NEW c \in TokenCommands, Operations!Start(c)
  PROVE  OperationsInv'
<1> DEFINE place == IF Operations!assertsBalance(c) THEN "checked" ELSE "failed"
<1>1. /\ runs[c] < MaxRuns /\ runs' = [runs EXCEPT ![c] = @ + 1]
      /\ receipt' = [receipt EXCEPT ![c] = [status |-> "none", moved |-> FALSE]]
      /\ overtaken' = [overtaken EXCEPT ![c] = FALSE]
      /\ commandAt' = [commandAt EXCEPT ![c] = place]
      /\ UNCHANGED <<balances, _total_supply, pending>>
  BY DEF Operations!Start, Operations!NoReceipt, Operations!chainVars
<1>2. MaxRuns \in Nat /\ runs[c] \in Nat
  BY OperationsTypes, OperationsPlaces
<1>3. /\ runs' \in [TokenCommands -> 0 .. MaxRuns] /\ runs'[c] > runs[c] /\ runs'[c] > 0
      /\ \A d \in TokenCommands \ {c} : runs'[d] = runs[d]
  BY <1>1, <1>2, OperationsPlaces
<1>4. /\ receipt' \in [TokenCommands -> [status : {"none", "ok", "reverted"}, moved : BOOLEAN]]
      /\ overtaken' \in [TokenCommands -> BOOLEAN]
      /\ receipt'[c].status = "none"
      /\ \A d \in TokenCommands \ {c} : receipt'[d] = receipt[d] /\ overtaken'[d] = overtaken[d]
  BY <1>1, OperationsPlaces
<1>5. /\ commandAt' \in [TokenCommands -> {"idle", "checked", "sent", "ok", "failed"}]
      /\ commandAt'[c] = place /\ \A d \in TokenCommands \ {c} : commandAt'[d] = commandAt[d]
  BY <1>1, OperationsPlaces
<1>6. (place = "checked" /\ TokenPlan[c].operation = "transfer")
        => balances["token"][TokenPlan[c].owner] >= TokenPlan[c].amount
  BY DEF Operations!assertsBalance
<1>7. place \in {"checked", "failed"}
  OBVIOUS
<1>. HIDE DEF place
<1>8. OperationSound(c, place, receipt'[c], overtaken'[c])
  BY <1>4, <1>6, <1>7 DEF OperationSound
<1>. QED BY <1>1, <1>3, <1>4, <1>5, <1>8, OperationMoves

LEMMA EndStep ==
  ASSUME Operations!CommandsAssumption, OperationsInv, NEW c \in TokenCommands,
         Operations!check_successful_tx(c) \/ Operations!TimesOut(c)
  PROVE  OperationsInv'
<1>1. /\ commandAt[c] = "sent" /\ UNCHANGED <<balances, _total_supply, pending, receipt, overtaken, runs>>
      /\ \/ receipt[c].status = "ok" /\ commandAt' = [commandAt EXCEPT ![c] = "ok"]
         \/ commandAt' = [commandAt EXCEPT ![c] = "failed"]
  BY DEF Operations!check_successful_tx, Operations!TimesOut, Operations!chainVars
<1>2. /\ commandAt' \in [TokenCommands -> {"idle", "checked", "sent", "ok", "failed"}]
      /\ \A d \in TokenCommands \ {c} : commandAt'[d] = commandAt[d]
      /\ commandAt'[c] = "failed" \/ (commandAt'[c] = "ok" /\ receipt[c].status = "ok")
  BY <1>1, OperationsPlaces
<1>3. OperationSound(c, "sent", receipt[c], overtaken[c])
  BY <1>1, OperationsPlaces
<1>4. OperationSound(c, commandAt'[c], receipt[c], overtaken[c])
  BY <1>2, <1>3 DEF OperationSound
<1>5. runs[c] > 0
  BY <1>1, OperationsPlaces
<1>. QED BY <1>1, <1>2, <1>4, <1>5, OperationMoves, OperationsPlaces

LEMMA SendTransactionStep ==
  ASSUME Operations!CommandsAssumption, OperationsInv, NEW c \in TokenCommands, Operations!Send(c)
  PROVE  OperationsInv'
<1> DEFINE owner == TokenPlan[c].owner
           entry == <<c, runs[c]>>
           send == [pending EXCEPT ![owner] = Append(@, entry)]
<1>1. /\ commandAt[c] = "checked" /\ UNCHANGED <<balances, _total_supply, receipt, overtaken, runs>>
      /\ pending' \in {pending, send}
      /\ commandAt' = [commandAt EXCEPT ![c] = "sent"] \/ commandAt' = [commandAt EXCEPT ![c] = "failed"]
  BY DEF Operations!Send
<1>2. /\ commandAt' \in [TokenCommands -> {"idle", "checked", "sent", "ok", "failed"}]
      /\ \A d \in TokenCommands \ {c} : commandAt'[d] = commandAt[d]
      /\ commandAt'[c] \in {"sent", "failed"}
  BY <1>1, OperationsPlaces
<1>3. OperationSound(c, "checked", receipt[c], overtaken[c])
  BY <1>1, OperationsPlaces
<1>4. receipt[c].status = "none" /\ OperationSound(c, commandAt'[c], receipt[c], overtaken[c])
  BY <1>2, <1>3 DEF OperationSound
<1>5. \A d \in TokenCommands : OperationSound(d, commandAt'[d], receipt[d], overtaken[d])
  BY <1>2, <1>4, OperationsPlaces
<1>6. \A d \in TokenCommands : OperationSound(d, commandAt[d], receipt[d], overtaken[d])'
  BY <1>1, <1>5 DEF OperationSound
<1>7. /\ owner \in Accounts /\ MaxRuns \in Nat /\ runs[c] \in 0 .. MaxRuns
  BY OperationsTypes, OperationsPlaces
<1>8. ASSUME NEW a \in Accounts, NEW i \in 1 .. Len(pending[a])
      PROVE  /\ PendingSound(a, pending[a][i]) /\ pending[a][i] # entry
             /\ (pending[a][i][1] = c => pending[a][i][2] < runs[c])
  <2>1. PendingSound(a, pending[a][i])
    BY <1>8, OperationsPlaces
  <2>2. pending[a][i][1] = c => pending[a][i][2] < runs[c]
    BY <1>1, <2>1 DEF PendingSound
  <2>3. pending[a][i] # entry
    BY <1>7, <2>2
  <2>. QED BY <2>1, <2>2, <2>3
<1>9. ASSUME NEW a \in Accounts, NEW e, PendingSound(a, e), e[1] \in TokenCommands,
             e[1] = c => e[2] < runs[c]
      PROVE  PendingSound(a, e)'
  <2>1. e[2] < runs[e[1]]
          \/ (commandAt'[e[1]] = commandAt[e[1]] /\ receipt'[e[1]] = receipt[e[1]])
    BY <1>1, <1>2, <1>9
  <2>. QED BY <1>1, <1>9, <2>1, PendingGoes
<1>10. ASSUME NEW a \in Accounts, NEW e, NEW i \in 1 .. Len(pending[a]), e = pending[a][i]
       PROVE  PendingSound(a, e)'
  BY <1>8, <1>9, <1>10, PendingTyped
<1>11. \A d \in TokenCommands : commandAt'[d] # "idle" => runs'[d] > 0
  BY <1>1, <1>2, OperationsPlaces
<1>12. CASE pending' = pending
  <2>1. pending' \in [Accounts -> Seq(TokenCommands \X (1 .. MaxRuns))]
    BY <1>12, OperationsPlaces
  <2>2. ASSUME NEW a \in Accounts, NEW i \in 1 .. Len(pending'[a])
        PROVE  /\ PendingSound(a, pending[a][i])'
               /\ \A j \in 1 .. Len(pending'[a]) : pending'[a][i] = pending'[a][j] => i = j
    <3>1. PICK e : e = pending[a][i]
      OBVIOUS
    <3>2. PendingSound(a, e)' /\ e = pending'[a][i]
      BY <1>10, <1>12, <2>2, <3>1
    <3>. QED BY <1>12, <2>2, <3>2, OperationsPlaces DEF PendingSound
  <2>. QED BY <1>1, <1>2, <1>6, <1>11, <2>1, <2>2, OperationsPlaces, OperationsParts
           DEF OperationsInv, Conserved
<1>13. CASE pending' = send
  <2>1. entry \in TokenCommands \X (1 .. MaxRuns)
    <3>1. commandAt[c] # "idle"
      BY <1>1
    <3>2. runs[c] > 0
      BY <3>1, OperationsPlaces
    <3>3. runs[c] \in 1 .. MaxRuns
      BY <1>7, <3>2
    <3>. QED BY <3>3
  <2>. HIDE DEF entry
  <2>2. /\ \A a \in Accounts : pending[a] \in Seq(TokenCommands \X (1 .. MaxRuns))
        /\ \A a \in Accounts : pending'[a] = IF a = owner THEN Append(pending[a], entry) ELSE pending[a]
    BY <1>13, OperationsPlaces
  <2>3. pending' \in [Accounts -> Seq(TokenCommands \X (1 .. MaxRuns))]
    <3>1. ASSUME NEW a \in Accounts PROVE pending'[a] \in Seq(TokenCommands \X (1 .. MaxRuns))
      <4>1. pending[a] \in Seq(TokenCommands \X (1 .. MaxRuns))
        BY <2>2
      <4>2. Append(pending[a], entry) \in Seq(TokenCommands \X (1 .. MaxRuns))
        BY <2>1, <4>1
      <4>. QED BY <2>2, <4>1, <4>2
    <3>2. pending \in [Accounts -> Seq(TokenCommands \X (1 .. MaxRuns))]
      BY OperationsPlaces
    <3>3. pending' = [a \in Accounts |-> pending'[a]]
      BY <1>13, <3>2
    <3>. QED BY <3>1, <3>3
  <2>4. ASSUME NEW e, e = entry PROVE PendingSound(owner, e)'
    <3>1. e[1] = c /\ e[2] = runs[c]
      BY <2>4 DEF entry
    <3>. QED BY <1>1, <1>2, <1>4, <1>7, <3>1 DEF PendingSound
  <2>5. ASSUME NEW a \in Accounts, NEW i \in 1 .. Len(pending'[a])
        PROVE  /\ PendingSound(a, pending[a][i])'
               /\ \A j \in 1 .. Len(pending'[a]) : pending'[a][i] = pending'[a][j] => i = j
    <3>1. CASE a # owner
      <4>1. pending'[a] = pending[a]
        BY <2>2, <3>1
      <4>2. PICK e : e = pending[a][i]
        OBVIOUS
      <4>3. PendingSound(a, e)' /\ e = pending'[a][i]
        BY <1>10, <2>5, <4>1, <4>2
      <4>. QED BY <2>5, <4>1, <4>3, OperationsPlaces DEF PendingSound
    <3>2. CASE a = owner
      <4>1. /\ pending[a] \in Seq(TokenCommands \X (1 .. MaxRuns))
            /\ pending'[a] = Append(pending[a], entry)
        BY <2>2, <3>2
      <4>2. /\ Len(pending[a]) \in Nat /\ Len(pending'[a]) = Len(pending[a]) + 1
            /\ \A j \in 1 .. Len(pending[a]) : pending'[a][j] = pending[a][j]
            /\ pending'[a][Len(pending[a]) + 1] = entry
        BY <2>1, <4>1
      <4>3. \A j \in 1 .. Len(pending[a]) : pending[a][j] # entry
        BY <1>8
      <4>4. \A j, k \in 1 .. Len(pending[a]) : pending[a][j] = pending[a][k] => j = k
        BY OperationsPlaces
      <4>5. ASSUME NEW j \in 1 .. Len(pending'[a]), pending'[a][i] = pending'[a][j] PROVE i = j
        <5>1. CASE i \in 1 .. Len(pending[a]) /\ j \in 1 .. Len(pending[a])
          BY <4>2, <4>4, <4>5, <5>1
        <5>2. CASE i = Len(pending[a]) + 1 /\ j \in 1 .. Len(pending[a])
          BY <4>2, <4>3, <4>5, <5>2
        <5>3. CASE i \in 1 .. Len(pending[a]) /\ j = Len(pending[a]) + 1
          BY <4>2, <4>3, <4>5, <5>3
        <5>4. CASE i = Len(pending[a]) + 1 /\ j = Len(pending[a]) + 1
          BY <5>4
        <5>. QED BY <2>5, <4>2, <5>1, <5>2, <5>3, <5>4
      <4>6. CASE i \in 1 .. Len(pending[a])
        <5>1. PICK e : e = pending[a][i]
          OBVIOUS
        <5>2. PendingSound(a, e)' /\ e = pending'[a][i]
          BY <1>10, <4>2, <4>6, <5>1
        <5>. QED BY <4>5, <5>2 DEF PendingSound
      <4>7. CASE i = Len(pending[a]) + 1
        <5>1. PICK e : e = entry
          OBVIOUS
        <5>2. PendingSound(a, e)' /\ e = pending'[a][i]
          BY <2>4, <3>2, <4>2, <4>7, <5>1
        <5>. QED BY <4>5, <5>2 DEF PendingSound
      <4>. QED BY <2>5, <4>2, <4>6, <4>7
    <3>. QED BY <3>1, <3>2
  <2>. QED BY <1>1, <1>2, <1>6, <1>11, <2>3, <2>5, OperationsPlaces, OperationsParts
           DEF OperationsInv, Conserved
<1>. QED BY <1>1, <1>12, <1>13

\* Where a mined transaction's receipt goes, and whom it overtakes.
LEMMA MinedSound ==
  ASSUME Operations!CommandsAssumption, OperationsInv, NEW c \in TokenCommands, NEW run \in Nat,
         NEW result, ExecutedSound(c, result), PendingSound(TokenPlan[c].owner, <<c, run>>),
         commandAt' = commandAt, balances' = result.balances,
         receipt' = IF run = runs[c] /\ commandAt[c] = "sent"
                    THEN [receipt EXCEPT ![c] = [status |-> result.status, moved |-> result.moved]]
                    ELSE receipt,
         NEW d \in TokenCommands,
         overtaken'[d] = \/ overtaken[d]
                         \/ /\ commandAt[d] \in {"checked", "sent"} /\ receipt[d].status = "none"
                            /\ <<d, runs[d]>> # <<c, run>>
                            /\ TokenPlan[d].owner = TokenPlan[c].owner
                            /\ TokenPlan[c].operation = "transfer"
  PROVE  OperationSound(d, commandAt[d], receipt[d], overtaken[d])'
<1> DEFINE own == run = runs[c] /\ commandAt[c] = "sent"
           owner == TokenPlan[d].owner
           amount == TokenPlan[d].amount
<1>1. OperationSound(d, commandAt[d], receipt[d], overtaken[d])
  BY OperationsPlaces
<1>2. owner \in Accounts /\ amount \in Nat /\ receipt \in [TokenCommands ->
        [status : {"none", "ok", "reverted"}, moved : BOOLEAN]]
  BY OperationsTypes, OperationsPlaces
<1>3. overtaken[d] => overtaken'[d]
  OBVIOUS
<1>4. balances["token"][owner] \in Nat /\ result.balances["token"][owner] \in Nat
  BY <1>2, OperationsParts DEF ExecutedSound, Balances, Assets
<1>5. CASE d = c /\ own
  <2>1. receipt[c].status = "none"
    BY <1>5, OperationsPlaces DEF PendingSound
  <2>2. receipt'[c] = [status |-> result.status, moved |-> result.moved]
    BY <1>2, <1>5
  <2>3. result.status \in {"ok", "reverted"}
    BY DEF ExecutedSound
  <2>4. TokenPlan[c].operation = "transfer"
          => overtaken[c] \/ balances["token"][TokenPlan[c].owner] >= TokenPlan[c].amount
    BY <1>1, <1>5, <2>1 DEF OperationSound
  <2>5. result.status = "ok" => result.moved \/ overtaken[c] \/ TokenPlan[c].amount = 0
    BY <2>4 DEF ExecutedSound
  <2>. QED BY <1>3, <1>5, <2>2, <2>3, <2>5 DEF OperationSound
<1>6. CASE ~(d = c /\ own)
  <2>1. receipt'[d] = receipt[d]
    BY <1>2, <1>6
  <2>2. ASSUME commandAt[d] \in {"checked", "sent"}, receipt[d].status = "none",
               TokenPlan[d].operation = "transfer"
        PROVE  overtaken'[d] \/ result.balances["token"][owner] >= amount
    <3>1. overtaken[d] \/ balances["token"][owner] >= amount
      BY <1>1, <2>2 DEF OperationSound
    <3>2. CASE owner # TokenPlan[c].owner \/ TokenPlan[c].operation # "transfer"
      <4>1. result.balances["token"][owner] >= balances["token"][owner]
        BY <1>2, <3>2 DEF ExecutedSound
      <4>. QED BY <1>2, <1>4, <3>1, <4>1
    <3>3. CASE owner = TokenPlan[c].owner /\ TokenPlan[c].operation = "transfer"
      <4>1. ~(d = c /\ run = runs[d])
        BY <1>6, <2>2 DEF PendingSound
      <4>2. <<d, runs[d]>> # <<c, run>>
        BY <4>1
      <4>. QED BY <2>2, <3>3, <4>2
    <3>. QED BY <3>2, <3>3
  <2>3. /\ commandAt[d] = "checked" => receipt[d].status = "none"
        /\ (commandAt[d] = "ok" \/ (commandAt[d] = "sent" /\ receipt[d].status = "ok"))
             => receipt[d].moved \/ overtaken[d] \/ amount = 0
    BY <1>1 DEF OperationSound
  <2>. QED BY <1>3, <2>1, <2>2, <2>3 DEF OperationSound
<1>. QED BY <1>5, <1>6

LEMMA TransactionMined ==
  ASSUME Operations!CommandsAssumption, OperationsInv, NEW a \in Accounts, Operations!Mine(a)
  PROVE  OperationsInv'
<1> DEFINE c == Head(pending[a])[1]
           run == Head(pending[a])[2]
           result == Operations!executed(c)
<1>1. /\ pending[a] # <<>> /\ UNCHANGED <<commandAt, runs>>
      /\ result.status # "unfunded" /\ balances' = result.balances
      /\ _total_supply' = result.supply
      /\ pending' = [pending EXCEPT ![a] = Tail(@)]
  BY DEF Operations!Mine
<1>2. receipt' = IF run = runs[c] /\ commandAt[c] = "sent"
                 THEN [receipt EXCEPT ![c] = [status |-> result.status, moved |-> result.moved]]
                 ELSE receipt
  BY DEF Operations!Mine
<1>3. overtaken' = [d \in TokenCommands |->
        \/ overtaken[d]
        \/ /\ commandAt[d] \in {"checked", "sent"} /\ receipt[d].status = "none"
           /\ <<d, runs[d]>> # <<c, run>>
           /\ TokenPlan[d].owner = a /\ TokenPlan[c].operation = "transfer"]
  BY DEF Operations!Mine
<1>4. pending[a] \in Seq(TokenCommands \X (1 .. MaxRuns)) /\ MaxRuns \in Nat
  BY OperationsPlaces, OperationsTypes
<1>5. 1 \in 1 .. Len(pending[a]) /\ Head(pending[a]) = pending[a][1]
  BY <1>1, <1>4
<1>6. c \in TokenCommands /\ run \in Nat /\ Head(pending[a]) = <<c, run>>
  BY <1>5, PendingTyped
<1>7. PendingSound(a, <<c, run>>)
  <2>1. PendingSound(a, pending[a][1])
    BY <1>5, OperationsPlaces
  <2>2. PICK e : e = pending[a][1]
    OBVIOUS
  <2>3. e = <<c, run>> /\ PendingSound(a, e)
    BY <1>5, <1>6, <2>1, <2>2
  <2>. HIDE DEF c, run
  <2>. QED BY <2>3
<1>8. TokenPlan[c].owner = a
  BY <1>7 DEF PendingSound
<1>9. ExecutedSound(c, result)
  BY <1>1, <1>6, CommandExecuted
<1>10. result.status \in {"ok", "reverted"} /\ result.moved \in BOOLEAN
  BY <1>9 DEF ExecutedSound
<1>11. /\ \A b \in Accounts \ {a} : pending'[b] = pending[b]
       /\ pending'[a] = Tail(pending[a]) /\ pending' = [b \in Accounts |-> pending'[b]]
  BY <1>1, OperationsPlaces
<1>12. /\ pending'[a] \in Seq(TokenCommands \X (1 .. MaxRuns))
       /\ Len(pending'[a]) = Len(pending[a]) - 1
       /\ \A i \in 1 .. Len(pending'[a]) : /\ i + 1 \in 1 .. Len(pending[a])
                                           /\ pending'[a][i] = pending[a][i + 1]
  <2>1. pending[a] # <<>> /\ pending[a] \in Seq(TokenCommands \X (1 .. MaxRuns))
    BY <1>1, <1>4
  <2>2. Len(pending[a]) \in Nat /\ Len(pending[a]) # 0
    BY <2>1
  <2>3. /\ Tail(pending[a]) \in Seq(TokenCommands \X (1 .. MaxRuns))
        /\ Len(Tail(pending[a])) = Len(pending[a]) - 1
        /\ \A i \in 1 .. Len(pending[a]) - 1 : Tail(pending[a])[i] = pending[a][i + 1]
    BY <2>1, <2>2
  <2>4. \A i \in 1 .. Len(pending[a]) - 1 : i + 1 \in 1 .. Len(pending[a])
    BY <2>2
  <2>. QED BY <1>11, <2>2, <2>3, <2>4
<1>. HIDE DEF c, run, result
<1>13. pending' \in [Accounts -> Seq(TokenCommands \X (1 .. MaxRuns))]
  <2>1. ASSUME NEW b \in Accounts PROVE pending'[b] \in Seq(TokenCommands \X (1 .. MaxRuns))
    BY <1>11, <1>12, OperationsPlaces
  <2>. QED BY <1>11, <2>1
<1>14. ASSUME NEW b \in Accounts, NEW e, PendingSound(b, e), e[1] \in TokenCommands,
              e[1] = c => e[2] < runs[c] \/ run # runs[c]
       PROVE  PendingSound(b, e)'
  <2>1. e[2] < runs[e[1]]
          \/ (commandAt'[e[1]] = commandAt[e[1]] /\ receipt'[e[1]] = receipt[e[1]])
    BY <1>1, <1>2, <1>14, OperationsPlaces
  <2>. QED BY <1>1, <1>14, <2>1, PendingGoes
<1>15. ASSUME NEW b \in Accounts, NEW i \in 1 .. Len(pending[b]), NEW e, e = pending[b][i],
              b # a \/ i # 1
       PROVE  PendingSound(b, e)'
  <2>1. PendingSound(b, e) /\ e[1] \in TokenCommands /\ e[2] \in Nat /\ e = <<e[1], e[2]>>
    BY <1>15, PendingTyped, OperationsPlaces
  <2>2. CASE b = a
    <3>1. e # <<c, run>>
      <4>1. pending[a][1] = <<c, run>> /\ i \in 1 .. Len(pending[a]) /\ e = pending[a][i] /\ i # 1
        BY <1>5, <1>6, <1>15, <2>2
      <4>2. pending[a][i] = pending[a][1] => i = 1
        BY <1>5, <4>1, OperationsPlaces
      <4>. QED BY <4>1, <4>2
    <3>2. e[1] = c => e[2] <= runs[c] /\ e[2] # run /\ runs[c] \in Nat
      BY <2>1, <3>1, OperationsPlaces DEF PendingSound
    <3>3. e[1] = c => e[2] < runs[c] \/ run # runs[c]
      BY <2>1, <3>2
    <3>. QED BY <1>14, <2>1, <3>3
  <2>3. CASE b # a
    <3>1. e[1] # c
      BY <1>8, <2>1, <2>3 DEF PendingSound
    <3>. QED BY <1>14, <2>1, <3>1
  <2>. QED BY <2>2, <2>3
<1>16. ASSUME NEW b \in Accounts, NEW i \in 1 .. Len(pending'[b])
       PROVE  /\ PendingSound(b, pending[b][i])'
              /\ \A j \in 1 .. Len(pending'[b]) : pending'[b][i] = pending'[b][j] => i = j
  <2>1. CASE b # a
    <3>1. pending'[b] = pending[b]
      BY <1>11, <2>1
    <3>2. PICK e : e = pending[b][i]
      OBVIOUS
    <3>3. PendingSound(b, e)' /\ e = pending'[b][i]
      BY <1>15, <1>16, <2>1, <3>1, <3>2
    <3>. QED BY <1>16, <3>1, <3>3, OperationsPlaces DEF PendingSound
  <2>2. CASE b = a
    <3>1. i \in Nat /\ i + 1 # 1 /\ i + 1 \in 1 .. Len(pending[b]) /\ pending'[b][i] = pending[b][i + 1]
      <4>1. i \in 1 .. Len(pending'[a]) /\ i \in Nat
        BY <1>16, <2>2
      <4>2. i + 1 \in 1 .. Len(pending[a]) /\ pending'[a][i] = pending[a][i + 1]
        BY <1>12, <4>1
      <4>. QED BY <2>2, <4>1, <4>2
    <3>2. PICK e : e = pending[b][i + 1]
      OBVIOUS
    <3>3. PendingSound(b, e)' /\ e = pending'[b][i]
      BY <1>15, <3>1, <3>2
    <3>4. ASSUME NEW j \in 1 .. Len(pending'[b]), pending'[b][i] = pending'[b][j] PROVE i = j
      <4>1. j \in Nat /\ j + 1 \in 1 .. Len(pending[b]) /\ pending'[b][j] = pending[b][j + 1]
        BY <1>12, <2>2, <3>4
      <4>2. pending[b][i + 1] = pending[b][j + 1]
        BY <3>1, <3>4, <4>1
      <4>3. i + 1 = j + 1
        BY <3>1, <4>1, <4>2, OperationsPlaces
      <4>. QED BY <3>1, <4>1, <4>3
    <3>. QED BY <3>3, <3>4 DEF PendingSound
  <2>. QED BY <2>1, <2>2
<1>17. \A d \in TokenCommands : overtaken'[d] =
         \/ overtaken[d]
         \/ /\ commandAt[d] \in {"checked", "sent"} /\ receipt[d].status = "none"
            /\ <<d, runs[d]>> # <<c, run>>
            /\ TokenPlan[d].owner = TokenPlan[c].owner
            /\ TokenPlan[c].operation = "transfer"
  BY <1>3, <1>8
<1>18. \A d \in TokenCommands : OperationSound(d, commandAt[d], receipt[d], overtaken[d])'
  BY <1>1, <1>2, <1>6, <1>7, <1>8, <1>9, <1>17, MinedSound
<1>19. /\ balances' \in Balances /\ _total_supply' \in 0 .. UINT256_MAX
       /\ _total_supply' = Total(balances["token"])' /\ Conserved(balances)'
  BY <1>1, <1>9 DEF ExecutedSound, Conserved
<1>20. receipt' \in [TokenCommands -> [status : {"none", "ok", "reverted"}, moved : BOOLEAN]]
  BY <1>2, <1>10, OperationsPlaces
<1>21. overtaken' \in [TokenCommands -> BOOLEAN]
  BY <1>3, OperationsPlaces
<1>22. /\ commandAt' \in [TokenCommands -> {"idle", "checked", "sent", "ok", "failed"}]
       /\ runs' \in [TokenCommands -> 0 .. MaxRuns]
       /\ \A d \in TokenCommands : commandAt'[d] # "idle" => runs'[d] > 0
  BY <1>1, OperationsPlaces
<1>. QED BY <1>13, <1>16, <1>18, <1>19, <1>20, <1>21, <1>22 DEF OperationsInv, Balances, Assets

LEMMA OperationsStep ==
  ASSUME Operations!CommandsAssumption, OperationsInv, [Operations!Next]_(Operations!vars)
  PROVE  OperationsInv'
<1>1. CASE UNCHANGED Operations!vars
  BY <1>1 DEF Operations!vars, OperationsInv, PendingSound, OperationSound, Conserved, Balances, Assets
<1>2. CASE Operations!Next
  BY <1>2, StartStep, SendTransactionStep, EndStep, TransactionMined
     DEF Operations!Next, Operations!Proceed
<1>. QED BY <1>1, <1>2

LEMMA OperationsSafe ==
  ASSUME Operations!CommandsAssumption, OperationsInv
  PROVE  Operations!TypeOK /\ Operations!SuccessMeansMoved /\ Operations!NothingFromNothing
<1>1. Operations!TypeOK
  BY DEF OperationsInv, Operations!TypeOK, Balances, Assets
<1>2. Operations!SuccessMeansMoved
  BY DEF OperationsInv, OperationSound, Operations!SuccessMeansMoved
<1>3. Operations!NothingFromNothing
  BY OperationsTotal
     DEF OperationsInv, Conserved, Operations!NothingFromNothing, Operations!tokensHeld
<1>. QED BY <1>1, <1>2, <1>3

-----------------------------------------------------------------------------
\* Editors, compilations, checks and deployments interleave in any order, and any step
\* can fail.  Still whoever verifies contracts.json has contracts within the size limit
\* and, unless a source was edited while the compiler read them, one for each checksum
\* and no other, compiled from sources with just these checksums: for any directories
\* and names, files of the same name in several directories among them.
THEOREM CompilationSafety ==
  Compilation!Spec => [](Compilation!TypeOK /\ Compilation!VerifiedMeansCompiled)
<1>1. Compilation!Init => CompilationInv
  BY CompilationStarts, CommandsAssumptions
<1>2. CompilationInv /\ [Compilation!Next]_(Compilation!vars) => CompilationInv'
  BY CompilationStep, CommandsAssumptions
<1>3. CompilationInv => Compilation!TypeOK /\ Compilation!VerifiedMeansCompiled
  BY CompilationSafe, CommandsAssumptions
<1>. QED BY <1>1, <1>2, <1>3, PTL DEF Compilation!Spec

\* However many runners overwrite the joined source for each other, whatever the
\* explorer answers and however often it is asked: a run that reports success has
\* had every contract it was asked for passed, with its own source.
THEOREM ExplorerSafety ==
  Explorer!Spec => [](Explorer!TypeOK /\ Explorer!SuccessMeansVerified)
<1>1. Explorer!Init => ExplorerInv
  BY ExplorerStarts, CommandsAssumptions
<1>2. ExplorerInv /\ [Explorer!Next]_(Explorer!vars) => ExplorerInv'
  BY ExplorerStep, CommandsAssumptions
<1>3. ExplorerInv => Explorer!TypeOK /\ Explorer!SuccessMeansVerified
  BY ExplorerSafe, CommandsAssumptions
<1>. QED BY <1>1, <1>2, <1>3, PTL DEF Explorer!Spec

\* For any commands of any accounts, any amounts and any order of mining: a command
\* reported as done has moved its amount or was overtaken, the supply is what the
\* accounts hold, and ether leaves an account only as WETH.
THEOREM OperationsSafety ==
  Operations!Spec =>
    [](Operations!TypeOK /\ Operations!SuccessMeansMoved /\ Operations!NothingFromNothing)
<1>1. Operations!Init => OperationsInv
  BY OperationsStart, CommandsAssumptions
<1>2. OperationsInv /\ [Operations!Next]_(Operations!vars) => OperationsInv'
  BY OperationsStep, CommandsAssumptions
<1>3. OperationsInv =>
        Operations!TypeOK /\ Operations!SuccessMeansMoved /\ Operations!NothingFromNothing
  BY OperationsSafe, CommandsAssumptions
<1>. QED BY <1>1, <1>2, <1>3, PTL DEF Operations!Spec

-----------------------------------------------------------------------------
(* The three of them together, as MCCommands checks them.                  *)
CommandsInv == CompilationInv /\ ExplorerInv /\ OperationsInv

\* Every step of the three is a step of one of them, and changes nothing of the others.
LEMMA CommandsStep ==
  ASSUME [MCNext]_allVars
  PROVE  /\ [Compilation!Next]_(Compilation!vars)
         /\ [Explorer!Next]_(Explorer!vars)
         /\ [Operations!Next]_(Operations!vars)
<1>1. compileVars = Compilation!vars
  BY DEF compileVars, Compilation!vars
<1>2. explorerVars = Explorer!vars
  BY DEF explorerVars, Explorer!vars
<1>3. tokenVars = Operations!vars
  BY DEF tokenVars, Operations!vars
<1>4. UNCHANGED compileVars \/ Compilation!Next
  BY DEF MCNext, allVars
<1>5. UNCHANGED explorerVars \/ Explorer!Next
  BY DEF MCNext, allVars
<1>6. UNCHANGED tokenVars \/ Operations!Next
  BY DEF MCNext, allVars
<1>. QED BY <1>1, <1>2, <1>3, <1>4, <1>5, <1>6
     DEF compileVars, explorerVars, tokenVars, Compilation!vars, Explorer!vars, Operations!vars

\* The invariants of the three components hold of every behaviour MCCommands checks.
THEOREM CommandsInvariance == MCFairSpec => []CommandsInv
<1>1. MCInit => CommandsInv
  BY CompilationStarts, ExplorerStarts, OperationsStart, CommandsAssumptions
     DEF MCInit, CommandsInv
<1>2. CommandsInv /\ [MCNext]_allVars => CommandsInv'
  BY CommandsStep, CompilationStep, ExplorerStep, OperationsStep, CommandsAssumptions
     DEF CommandsInv
<1>. QED BY <1>1, <1>2, PTL DEF MCFairSpec

LEMMA CommandsSafe ==
  CommandsInv => VerifiedMeansCompiled /\ SuccessMeansVerified /\ SuccessMeansMoved
BY CompilationSafe, ExplorerSafe, OperationsSafe, CommandsAssumptions
   DEF CommandsInv, VerifiedMeansCompiled, SuccessMeansVerified, SuccessMeansMoved

\* What MCCommands checks of those who rely on contracts.json: the same, for all of its
\* constants, of the behaviours in which the other commands run, too.
THEOREM VerifiedSafety == MCFairSpec => []VerifiedMeansCompiled
BY CommandsInvariance, CommandsSafe, PTL

\* And of the runners of etherscan_verify.
THEOREM RunnersSafety == MCFairSpec => []SuccessMeansVerified
BY CommandsInvariance, CommandsSafe, PTL

\* And of the token commands.
THEOREM MovedSafety == MCFairSpec => []SuccessMeansMoved
BY CommandsInvariance, CommandsSafe, PTL
=============================================================================
