----------------------------- MODULE LogHandler -----------------------------
(***************************************************************************)
(* How the tests assert events: utils/logs.py.  A LogHandler remembers     *)
(* which event it waits for from which transaction; check reads all logs   *)
(* of these events from the genesis block on, and what is still missing    *)
(* after the timeout is compared with the number of other events found.    *)
(***************************************************************************)
EXTENDS Naturals, SequencesExt, FiniteSetsExt

CONSTANTS
  Events,        \* names of events
  Transactions,
  Args,          \* arguments of an event
  NoArgs,        \* no callback that compares the arguments
  Counts,        \* how many events an expectation asks for
  MaxLogs,       \* bound: logs of the contract
  MaxWaiting,    \* bound: expectations at a time
  MaxChecks      \* bound: calls of check

HandlerAssumption ==
  /\ Counts \subseteq Nat \ {0} /\ {MaxLogs, MaxWaiting, MaxChecks} \subseteq Nat
  /\ NoArgs \notin Args

Keys == Events \X Transactions

VARIABLES
  logs,            \* of the contract, in the order of the chain
  event_waiting,   \* from (event, transaction) to what is expected
  event_filters,   \* the names of events that are read
  event_count,     \* events counted for each key, over all calls
  event_unknown,   \* how many events nobody waited for were read, over all calls
  outcome,         \* of the last check, and what it was asked for
  checks

vars == <<logs, event_waiting, event_filters, event_count, event_unknown, outcome, checks>>

Expectations == [count : Counts, args : Args \cup {NoArgs}]

NoExpectations == [key \in {} |-> {}]

NoOutcome == [result |-> "none", expected |-> NoExpectations, counted |-> NoExpectations]

TypeOK ==
  /\ logs \in Seq([key : Keys, args : Args]) /\ Len(logs) <= MaxLogs
  /\ DOMAIN event_waiting \subseteq Keys
  /\ \A key \in DOMAIN event_waiting :
       event_waiting[key] \in Expectations /\ key[1] \in event_filters
  /\ event_filters \subseteq Events
  /\ event_count \in [Keys -> Nat]
  /\ event_unknown \in Nat
  /\ outcome.result \in {"none", "returned", "timed out, returned", "raised"}
  /\ checks \in 0 .. MaxChecks

Init ==
  /\ logs = <<>>
  /\ event_waiting = NoExpectations /\ event_filters = {}
  /\ event_count = [key \in Keys |-> 0]
  /\ event_unknown = 0
  /\ outcome = NoOutcome
  /\ checks = 0

Emit(log) ==
  /\ Len(logs) < MaxLogs
  /\ logs' = Append(logs, log)
  /\ outcome' = NoOutcome
  /\ UNCHANGED <<event_waiting, event_filters, event_count, event_unknown, checks>>

\* An expectation of the same event from the same transaction is overwritten.
add(key, expectation) ==
  /\ checks < MaxChecks
  /\ Cardinality(DOMAIN event_waiting \cup {key}) <= MaxWaiting
  /\ event_waiting' = (key :> expectation) @@ event_waiting
  /\ event_filters' = event_filters \cup {key[1]}
  /\ outcome' = NoOutcome
  /\ UNCHANGED <<logs, event_count, event_unknown, checks>>

-----------------------------------------------------------------------------
(* Reading the logs.  The handler's state is a record while they are read; *)
(* an assertion that fails in a callback stops the reading.                *)
handler ==
  [waiting |-> event_waiting, filters |-> event_filters, count |-> event_count,
   unknown |-> event_unknown, failed |-> FALSE]

_handle_waited_log(h, log) ==
  LET entry == h.waiting[log.key]
      met   == entry.count = h.count[log.key] + 1
  IN  [h EXCEPT !.count[log.key] = @ + 1,
                !.waiting = IF met THEN Restrict(@, DOMAIN @ \ {log.key}) ELSE @,
                !.failed = entry.args \notin {NoArgs, log.args}]

\* Once nothing is expected of an event any more, it is no longer read; unless
\* the exception of a callback comes before.
forgetMet(h, event) ==
  IF h.failed \/ \E key \in DOMAIN h.waiting : key[1] = event THEN h
  ELSE [h EXCEPT !.filters = @ \ {event}]

\* The mutant gives up on an expectation when another event of its name comes.
handleAnyLogMutant(h, log) ==
  IF h.failed \/ log.key[1] \notin h.filters THEN h
  ELSE forgetMet(
         IF log.key \in DOMAIN h.waiting THEN _handle_waited_log(h, log)
         ELSE [h EXCEPT !.unknown = @ + 1,
                        !.waiting = Restrict(@, {key \in DOMAIN @ : key[1] # log.key[1]})],
         log.key[1])

handle_log(h, log) ==
  IF h.failed \/ log.key[1] \notin h.filters THEN h
  ELSE forgetMet(
         IF log.key \in DOMAIN h.waiting THEN _handle_waited_log(h, log)
         ELSE [h EXCEPT !.unknown = @ + 1],
         log.key[1])

get_logs(event) == SelectSeq(logs, LAMBDA log : log.key[1] = event)

\* All filters, one event after the other.
read(order) ==
  FoldLeft(LAMBDA h, event : FoldLeft(handle_log, h, get_logs(event)), handler, order)

\* After the timeout, as many unknown events as are still missing will do.
result(h) ==
  IF h.failed THEN "raised"
  ELSE IF h.filters = {} THEN "returned"
  ELSE IF Cardinality(DOMAIN h.waiting) = h.unknown THEN "timed out, returned"
  ELSE "raised"

check(order) ==
  LET h == read(order)
  IN  /\ checks < MaxChecks
      /\ checks' = checks + 1
      /\ event_waiting' = h.waiting /\ event_filters' = h.filters
      /\ event_count' = h.count
      /\ event_unknown' = h.unknown
      /\ outcome' = [result   |-> result(h),
                     expected |-> event_waiting,
                     counted  |-> Restrict(event_count, DOMAIN event_waiting)]
      /\ UNCHANGED logs

Next ==
  \/ \E key \in Keys, args \in Args : Emit([key |-> key, args |-> args])
  \/ \E key \in Keys, expectation \in Expectations : add(key, expectation)
  \/ \E order \in SetToSeqs(event_filters) : check(order)

Spec == Init /\ [][Next]_vars

-----------------------------------------------------------------------------
emitted(key) == {i \in DOMAIN logs : logs[i].key = key}

asExpected(key, entry) ==
  \A i \in emitted(key) : entry.args \in {NoArgs, logs[i].args}

\* A check that returns before its timeout has seen each event it was asked for,
\* from the very transaction and with the arguments given, and as often as asked
\* if none was counted before.  Counts are kept and logs are read again from the
\* genesis block on: what is counted before and what there is make up the number,
\* so that a check for two may pass, the second time, with one.
PromptReturnMeansEmitted ==
  outcome.result = "returned" =>
    \A key \in DOMAIN outcome.expected :
      LET expectation == outcome.expected[key]
          seen == {i \in emitted(key) : expectation.args \in {NoArgs, logs[i].args}}
      IN  /\ seen # {}
          /\ outcome.counted[key] + Cardinality(seen) >= expectation.count

\* The first check for events that are there, in the numbers and with the
\* arguments expected, returns at once: whatever other events there are, and
\* however long ago they were emitted.
EmittedIsFound ==
  LET expected == outcome.expected
  IN  /\ outcome.result # "none"
      /\ \A key \in DOMAIN expected :
           /\ outcome.counted[key] = 0
           /\ Cardinality(emitted(key)) >= expected[key].count
           /\ asExpected(key, expected[key])
      => outcome.result = "returned"
=============================================================================
