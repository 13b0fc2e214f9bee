\* Two participants, two successive channels, every operation.
CONSTANTS
  MAX_SAFE_UINT256 = 3
  alice = alice
  bob = bob
  secret = secret
  Participants <- MCParticipants
  this = network
  Controllers = {owner}
  ControllerCalls = {}
  MaxChannels = 2
  MaxStuck = 0
  MaxTime = 5
  SettleTimeout = 1
  ParticipantDepositLimit = 2
  NetworkDepositLimit = 3
  InitialTokens <- MCInitialTokens
  Amounts = {1, 2}
  Secrethashes = {secret}
  LockLists <- MCLockLists
  BalanceData <- MCBalanceData
  ZeroHash = ZeroHash
  BalanceProofs <- MCBalanceProofs
  CounterSignatures <- MCCounterSignatures
  WithdrawMessages <- MCWithdrawMessages
SPECIFICATION Spec
INVARIANTS
  TypeOK
  Solvency
  PaymentsNeverStuck
  StoredDataIsSigned
PROPERTIES
  AccountsOnlyGrow
  ClaimsAreFinalAfterExpiry
  ImplementsChannels
CHECK_DEADLOCK FALSE
