-------------------------- MODULE MonitoringWindow --------------------------
(***************************************************************************)
(* From when on a MonitoringService lets a service act on a closed channel.*)
(* The settlement window is settle_timeout long; addresses is the sum of   *)
(* the three addresses that spread the services over it.                   *)
(***************************************************************************)
EXTENDS Naturals

BEST_CASE  == 30
WORST_CASE == 80

\* The mutant divides the percentage before it multiplies.
rangeDividedFirstMutant(settle_timeout) == ((WORST_CASE - BEST_CASE) \div 100) * settle_timeout

range_length(settle_timeout) == ((WORST_CASE - BEST_CASE) * settle_timeout) \div 100

firstTimestampAllowedToMonitor(closed_at, settle_timeout, addresses) ==
  closed_at + (BEST_CASE * settle_timeout) \div 100 + (addresses % range_length(settle_timeout))

\* Without a range the modulo by zero reverts: no service may ever monitor.
monitorable(settle_timeout) == range_length(settle_timeout) > 0
=============================================================================
