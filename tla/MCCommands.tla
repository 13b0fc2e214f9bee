----------------------------- MODULE MCCommands -----------------------------
(***************************************************************************)
(* The commands besides the deployment: compiling and verifying the        *)
(* sources, submitting them to a block explorer, and moving tokens.  They  *)
(* share nothing that any of them changes, so a behaviour is about one;    *)
(* the variables of the others keep their first value.                     *)
(***************************************************************************)
EXTENDS Naturals, Sequences, FiniteSets, TLC

CONSTANTS
  Compiler, Checkers, DirOrder, FileOrder, Contents, Oversized, MaxEdits,
  Runners, CONTRACT_LIST, SourceOf, Retries,
  Accounts, TokenCommands, TokenPlan, Held, UINT256_MAX, MaxRuns,
  alice, bob

VARIABLES
  about,
  sources, precompiled, compilerAt, manager, compiled, checked, steady, edits,
  verdict, joined, runnerAt, wanted, left, joinedSource, retries,
  balances, _total_supply, pending, commandAt, receipt, overtaken, runs

compileVars == <<sources, precompiled, compilerAt, manager, compiled, checked, steady,
                 edits>>
explorerVars == <<verdict, joined, runnerAt, wanted, left, joinedSource, retries>>
tokenVars == <<balances, _total_supply, pending, commandAt, receipt, overtaken, runs>>
allVars == <<about, compileVars, explorerVars, tokenVars>>

Compilation == INSTANCE Precompiled WITH source <- sources, at <- compilerAt
Explorer    == INSTANCE Etherscan WITH source <- joinedSource, at <- runnerAt
Operations  == INSTANCE TokenOperations WITH
  at <- commandAt, Commands <- TokenCommands, Plan <- TokenPlan

ASSUME CommandsAssumptions ==
  /\ Compilation!PrecompiledAssumption
  /\ Explorer!EtherscanAssumption
  /\ Operations!CommandsAssumption

-----------------------------------------------------------------------------
\* Files of two names in two directories; one can grow too large.
TwoDirectories == <<"raiden", "services">>
TwoFiles == <<"OneToN.sol", "Utils.sol">>

\* One of them in each.
OneFileEach == <<"raiden", "Utils.sol">> :> "v1" @@ <<"services", "OneToN.sol">> :> "v1"

\* A SecretRegistry and a token network.  One runner at a time submits both, and
\* one of them at most gets the source of the other.
AtMostOne(S) == Cardinality(S) <= 1
TwoContracts == <<"SecretRegistry", "TokenNetwork1">>
TwoSources == [SecretRegistry |-> "SecretRegistry", TokenNetwork1 |-> "TokenNetwork"]

\* Transfers there and back and a mint; two transfers from one account, one to
\* itself; the latter with a deposit into WETH.
MCAccounts == {alice, bob}
MCPlan ==
  [pay    |-> [operation |-> "transfer", owner |-> alice, dest |-> bob, amount |-> 2],
   return |-> [operation |-> "transfer", owner |-> bob, dest |-> alice, amount |-> 1],
   refill |-> [operation |-> "mint", owner |-> alice, dest |-> alice, amount |-> 2],
   self   |-> [operation |-> "transfer", owner |-> alice, dest |-> alice, amount |-> 1],
   wrap   |-> [operation |-> "weth", owner |-> alice, dest |-> alice, amount |-> 2]]
MCCommandNames == DOMAIN MCPlan

MCHeld ==
  [token |-> (alice :> 2 @@ bob :> 0),
   weth  |-> (alice :> 0 @@ bob :> 0),
   ether |-> (alice :> 3 @@ bob :> 0)]

Subjects == {{"compile"}, {"verify"}, {"pay", "return", "refill"}, {"pay", "self"}, {"self", "wrap"}}

-----------------------------------------------------------------------------
MCInit ==
  /\ about \in Subjects
  /\ Compilation!Init /\ Explorer!Init /\ Operations!Init
  /\ sources = OneFileEach

MCNext ==
  \/ /\ about = {"compile"} /\ Compilation!Next
     /\ UNCHANGED <<about, explorerVars, tokenVars>>
  \/ /\ about = {"verify"} /\ Explorer!Next
     /\ AtMostOne({p \in Runners : wanted'[p] = DOMAIN CONTRACT_LIST})
     /\ AtMostOne({c \in DOMAIN SourceOf : \E s \in DOMAIN verdict[c] \ {SourceOf[c]} :
                                              verdict'[c][s] # "none"})
     /\ UNCHANGED <<about, compileVars, tokenVars>>
  \/ /\ about \subseteq TokenCommands
     /\ Operations!Next /\ \A c \in TokenCommands \ about : runs'[c] = 0
     /\ UNCHANGED <<about, compileVars, explorerVars>>

\* What the modules assume: a run or a command goes on, nothing else need happen.
MCFairSpec ==
  /\ MCInit /\ [][MCNext]_allVars
  /\ \A p \in Runners : WF_explorerVars(Explorer!Proceed(p))
  /\ \A c \in TokenCommands : WF_tokenVars(Operations!Proceed(c))

-----------------------------------------------------------------------------
\* Who verifies contracts.json has bytecode compiled from its own sources.
VerifiedMeansCompiled ==
  about = {"compile"} => Compilation!TypeOK /\ Compilation!VerifiedMeansCompiled

\* A run that succeeds has every contract verified against its own source.
SuccessMeansVerified ==
  about = {"verify"} => Explorer!TypeOK /\ Explorer!SuccessMeansVerified

\* A transfer reported as done has moved its amount, unless it was overtaken,
\* and no command makes tokens or ether out of nothing.
SuccessMeansMoved ==
  about \subseteq TokenCommands =>
    Operations!TypeOK /\ Operations!SuccessMeansMoved /\ Operations!NothingFromNothing

\* Every run of a runner ends, and every command, whatever the explorer and the
\* chain do.
CommandsEnd == Explorer!RunsEnd /\ Operations!CommandsEnd
=============================================================================
