---------------------------- MODULE MCTestSupport ----------------------------
(***************************************************************************)
(* What the tests of the contracts rely on: a handler that waits for       *)
(* events, and the pending transfers a settlement is tried with.  They do  *)
(* not meet, so a behaviour is about one of them.                          *)
(***************************************************************************)
EXTENDS Naturals, Sequences, TLC

CONSTANTS deposit, settled, tx1, tx2, a1, a2

CONSTANTS
  Events, Transactions, Args, NoArgs, Counts, MaxLogs, MaxWaiting, MaxChecks,
  Secrethashes, UnlockableSums, ExpiredSums, Deltas, TEST_SETTLE_TIMEOUT, MaxTime

VARIABLES
  ofEvents,             \* whether this is about the handler
  logs, event_waiting, event_filters, event_count, event_unknown, outcome, checks,
  timestamp, secrethash_to_timestamp, asked, unlockable_amounts, expired_amounts, tree

handlerVars == <<logs, event_waiting, event_filters, event_count, event_unknown, outcome,
                 checks>>
transferVars == <<timestamp, secrethash_to_timestamp, asked, unlockable_amounts,
                  expired_amounts, tree>>

Handler   == INSTANCE LogHandler
Transfers == INSTANCE PendingTransfers

ASSUME Handler!HandlerAssumption /\ Transfers!PendingAssumption

\* Events, transactions and arguments are alike.
EventSymmetry ==
  Permutations(Events) \cup Permutations(Transactions) \cup Permutations(Args)

NothingAsked ==
  [unlockable |-> 0, expired |-> 0, min_expiration_delta |-> 0, max_expiration_delta |-> 0]

MCInit ==
  /\ ofEvents \in BOOLEAN
  /\ Handler!Init
  /\ Transfers!Init
  /\ ofEvents => asked = NothingAsked

\* Secrets are registered that some lock has.
SecretsOfLocks ==
  \A i \in Secrethashes :
    secrethash_to_timestamp[i] # 0 => i <= Len(unlockable_amounts) + Len(expired_amounts)

MCNext ==
  \/ ofEvents /\ Handler!Next /\ UNCHANGED <<ofEvents, transferVars>>
  \/ ~ofEvents /\ Transfers!Next /\ SecretsOfLocks' /\ UNCHANGED <<ofEvents, handlerVars>>

MCSpec == MCInit /\ [][MCNext]_<<ofEvents, handlerVars, transferVars>>

\* A check that returns in time has seen each event it was asked for, in numbers
\* that count those of earlier checks, and what is there is found at once.
AssertionsAreTrue ==
  Handler!TypeOK /\ Handler!PromptReturnMeansEmitted /\ Handler!EmittedIsFound

\* The pending transfers lock what was asked for; the contract unlocks what was
\* made to be unlocked, and nothing that was made to expire.
UnlockedAsPlanned ==
  /\ Transfers!LocksWhatWasAsked
  /\ Transfers!UnlockableIsUnlocked /\ Transfers!ExpiredIsNeverUnlocked
=============================================================================
