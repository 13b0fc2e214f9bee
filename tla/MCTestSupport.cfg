\* Two events and two transactions, checked twice; up to four locks, whose
\* secrets are registered in any order within five seconds.
CONSTANTS
  deposit = deposit
  settled = settled
  tx1 = tx1
  tx2 = tx2
  a1 = a1
  a2 = a2
  Events = {deposit, settled}
  Transactions = {tx1, tx2}
  Args = {a1, a2}
  NoArgs = NoArgs
  Counts = {1, 2}
  MaxLogs = 3
  MaxWaiting = 2
  MaxChecks = 2
  Secrethashes = {1, 2, 3, 4}
  UnlockableSums = {0, 2, 3}
  ExpiredSums = {0, 1}
  Deltas = {0, 2}
  TEST_SETTLE_TIMEOUT = 1
  MaxTime = 5
SYMMETRY EventSymmetry
SPECIFICATION MCSpec
INVARIANTS
  AssertionsAreTrue
  UnlockedAsPlanned
CHECK_DEADLOCK FALSE
