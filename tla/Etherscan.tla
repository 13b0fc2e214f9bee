----------------------------- MODULE Etherscan -----------------------------
(***************************************************************************)
(* etherscan_verify.py: runners submit the joined sources of contract      *)
(* after contract to a block explorer and poll for the verdict.  Runners   *)
(* share one file, joined.sol, and the explorer, which remembers what was  *)
(* submitted in earlier, perhaps interrupted, runs.                        *)
(***************************************************************************)
EXTENDS Naturals, Sequences

CONSTANTS
  Runners,        \* processes that run the script
  CONTRACT_LIST,  \* the deployed contracts, in the order they are submitted,
                  \* every token network one of its own
  SourceOf,       \* SourceOf[c]: the name of the source file of contract c
  Retries         \* how often a verdict is asked for

EtherscanAssumption ==
  /\ CONTRACT_LIST \in Seq(DOMAIN SourceOf) /\ CONTRACT_LIST # <<>>
  /\ Retries \in Nat \ {0}

VARIABLES
  verdict, \* verdict[c][s]: what the explorer says of source s for contract c
  joined,  \* the content of joined.sol: the source that was joined last
  at,      \* where a runner is
  wanted,  \* the positions in the list that the runner was asked to verify
  left,    \* those it has yet to verify
  source,  \* the source it has read
  retries  \* how often it may still ask

vars == <<verdict, joined, at, wanted, left, source, retries>>

Deployed == {CONTRACT_LIST[i] : i \in DOMAIN CONTRACT_LIST}
Sources  == {SourceOf[c] : c \in Deployed}
NoSource == "none"

\* --contract-name submits the contracts of one name only.
RequestsNamed(name) == {i \in DOMAIN CONTRACT_LIST : SourceOf[CONTRACT_LIST[i]] = name}
Requests == {DOMAIN CONTRACT_LIST} \cup {RequestsNamed(name) : name \in Sources}

AlreadyVerified(c) == \E s \in Sources : verdict[c][s] = "pass"

GoTo(p, place) == at' = [at EXCEPT ![p] = place]

\* The loop takes the contracts in the order of the list.
Position(p) == CHOOSE i \in left[p] : \A j \in left[p] : i <= j
Current(p)  == CONTRACT_LIST[Position(p)]

Begin(p, request) ==
  /\ at[p] = "idle" /\ GoTo(p, "join")
  /\ wanted' = [wanted EXCEPT ![p] = request]
  /\ left' = [left EXCEPT ![p] = request]
  /\ UNCHANGED <<verdict, joined, source, retries>>

\* join_sources runs join_contracts.py, which writes joined.sol,
JoinContracts(p) ==
  /\ at[p] = "join" /\ GoTo(p, "read")
  /\ joined' = SourceOf[Current(p)]
  /\ UNCHANGED <<verdict, wanted, left, source, retries>>

\* and reads the file once the process has ended.
ReadJoined(p) ==
  /\ at[p] = "read" /\ GoTo(p, "submit")
  /\ source' = [source EXCEPT ![p] = joined]
  /\ UNCHANGED <<verdict, joined, wanted, left, retries>>

\* The current contract is done with; the next one follows.
NextContract(p) ==
  /\ left' = [left EXCEPT ![p] = @ \ {Position(p)}]
  /\ GoTo(p, IF left[p] = {Position(p)} THEN "ok" ELSE "join")

\* The explorer takes the source and returns a GUID, refuses it, or has another
\* one for this contract already.
Submit(p) ==
  LET c == Current(p)
  IN  /\ at[p] = "submit"
      /\ \/ /\ AlreadyVerified(c)
            /\ NextContract(p) /\ UNCHANGED <<verdict, retries>>
         \/ /\ ~AlreadyVerified(c)
            /\ verdict' = [verdict EXCEPT ![c][source[p]] = "pending"]
            /\ retries' = [retries EXCEPT ![p] = Retries]
            /\ GoTo(p, "poll") /\ UNCHANGED left
         \/ GoTo(p, "failed") /\ UNCHANGED <<verdict, left, retries>>
      /\ UNCHANGED <<joined, wanted, source>>

\* mutant: any verdict ends the loop
PassedAnyMutant(c, s) == verdict[c][s] \in {"pass", "fail"}

\* "Pass - Verified"
Passed(c, s) == verdict[c][s] = "pass"

RetriesLeft(p) == retries[p] - 1

\* guid_status in the loop of etherscan_verify_contract.
Poll(p) ==
  LET c == Current(p)
  IN  /\ at[p] = "poll"
      /\ retries' = [retries EXCEPT ![p] = RetriesLeft(p)]
      /\ \/ Passed(c, source[p]) /\ NextContract(p)
         \/ /\ ~Passed(c, source[p]) /\ verdict[c][source[p]] = "fail"
            /\ GoTo(p, "failed") /\ UNCHANGED left
         \/ /\ verdict[c][source[p]] = "pending"
            /\ GoTo(p, IF RetriesLeft(p) > 0 THEN "poll" ELSE "failed")   \* TimeoutError
            /\ UNCHANGED left
      /\ UNCHANGED <<verdict, joined, wanted, source>>

Ended(p) == at[p] \in {"ok", "failed"}

\* A runner ends, or is killed.
Exit(p) ==
  /\ at[p] # "idle" /\ GoTo(p, "idle")
  /\ wanted' = [wanted EXCEPT ![p] = {}] /\ left' = [left EXCEPT ![p] = {}]
  /\ source' = [source EXCEPT ![p] = NoSource] /\ retries' = [retries EXCEPT ![p] = 0]
  /\ UNCHANGED <<verdict, joined>>

\* The explorer compiles what was submitted and compares it with the bytecode
\* at the address.  A contract's own source passes; it may also fail, for
\* instance for wrong constructor arguments.
Decide(c, s) ==
  /\ verdict[c][s] = "pending"
  /\ \E result \in {"fail"} \cup (IF s = SourceOf[c] THEN {"pass"} ELSE {}) :
       verdict' = [verdict EXCEPT ![c][s] = result]
  /\ UNCHANGED <<joined, at, wanted, left, source, retries>>

Init ==
  /\ verdict = [c \in Deployed |-> [s \in Sources |-> "none"]]
  /\ joined = NoSource
  /\ at = [p \in Runners |-> "idle"]
  /\ wanted = [p \in Runners |-> {}] /\ left = [p \in Runners |-> {}]
  /\ source = [p \in Runners |-> NoSource] /\ retries = [p \in Runners |-> 0]

Proceed(p) == JoinContracts(p) \/ ReadJoined(p) \/ Submit(p) \/ Poll(p)

Next ==
  \/ \E p \in Runners : (\E request \in Requests : Begin(p, request)) \/ Proceed(p) \/ Exit(p)
  \/ \E c \in Deployed, s \in Sources : Decide(c, s)

Spec == Init /\ [][Next]_vars

\* A runner is scheduled, and the explorer answers its requests.  It need not
\* ever reach a verdict.
FairSpec == Spec /\ \A p \in Runners : WF_vars(Proceed(p))

-----------------------------------------------------------------------------
(* Properties.                                                             *)

TypeOK ==
  /\ verdict \in [Deployed -> [Sources -> {"none", "pending", "pass", "fail"}]]
  /\ joined \in Sources \cup {NoSource}
  /\ at \in [Runners -> {"idle", "join", "read", "submit", "poll", "ok", "failed"}]
  /\ \A p \in Runners : (at[p] \notin {"idle", "ok"}) => left[p] # {}
  /\ source \in [Runners -> Sources \cup {NoSource}]
  /\ retries \in [Runners -> 0 .. Retries]

\* If the command exits with status code 0, Etherscan has verified all contracts
\* it was asked to verify against their own Solidity sources, although another
\* runner may replace joined.sol before it is read.
SuccessMeansVerified ==
  \A p \in Runners : at[p] = "ok" =>
    \A i \in wanted[p] :
      LET c == CONTRACT_LIST[i] IN verdict[c][SourceOf[c]] = "pass"

\* Again and again a runner is idle or has ended: every run ends, even if the
\* explorer never reaches a verdict.
RunsEnd == \A p \in Runners : []<>(at[p] = "idle" \/ Ended(p))
=============================================================================
