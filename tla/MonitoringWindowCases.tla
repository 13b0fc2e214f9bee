------------------------ MODULE MonitoringWindowCases ------------------------
(***************************************************************************)
(* Every closing time, settlement window and sum of addresses up to a      *)
(* bound.                                                                  *)
(***************************************************************************)
EXTENDS MonitoringWindow

CONSTANTS MaxClosed, MaxTimeout, MaxAddresses

ASSUME WindowAssumption == MaxClosed \in Nat /\ MaxTimeout \in Nat /\ MaxAddresses \in Nat

VARIABLES closed_at, settle_timeout, addresses

windowVars == <<closed_at, settle_timeout, addresses>>

WindowInit ==
  /\ closed_at \in 0 .. MaxClosed
  /\ settle_timeout \in 1 .. MaxTimeout
  /\ addresses \in 0 .. MaxAddresses

WindowSpec == WindowInit /\ [][UNCHANGED windowVars]_windowVars

-----------------------------------------------------------------------------
first == firstTimestampAllowedToMonitor(closed_at, settle_timeout, addresses)

\* Every service gets its turn while the window runs: not before three tenths
\* of it (rounded down), when the participant itself is expected to act, and
\* at least one second before anybody may settle the channel.  Only a window of
\* a single second, which the registry accepts, is too short: its range is
\* empty, and the modulo by zero reverts every monitor.
EveryServiceHasTime ==
  /\ monitorable(settle_timeout) <=> settle_timeout >= 2
  /\ monitorable(settle_timeout) =>
       /\ first >= closed_at + (BEST_CASE * settle_timeout) \div 100
       /\ first < closed_at + settle_timeout
=============================================================================
