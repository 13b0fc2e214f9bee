\* Every settlement over 0 .. 4; every message with fields of two values; all
\* import graphs of three files; every window up to two minutes.
CONSTANTS
  MAX_SAFE_UINT256 = 4
  Values = {0, 1}
  Files = {"A", "B", "C"}
  MaxImports = 2
  MaxClosed = 3
  MaxTimeout = 120
  MaxAddresses = 70
SPECIFICATION MCSpec
INVARIANTS
  MatchesReference
  OrderDoesNotAffectResult
  ValidProofsSettleExactly
  OldProofNeverCostsItsSender
  AcceptedForItselfOnly
  JoinedOnce
  EveryServiceHasTime
CHECK_DEADLOCK FALSE
