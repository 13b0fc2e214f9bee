\* Two clients, three payments, deposits and withdraws.
CONSTANTS
  MAX_SAFE_UINT256 = 8
  A = A
  B = B
  x1 = x1
  x2 = x2
  x3 = x3
  Payments <- MCPayments
  amount <- MCAmount
  TotalDeposits = {4}
  TotalWithdraws = {1}
SPECIFICATION Spec
INVARIANTS
  LatestProofsPayExactly
  OldDataHardlyPays
CHECK_DEADLOCK FALSE
