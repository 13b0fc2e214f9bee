\* Three participants, two concurrent channels, the controller and tokens
\* sent directly.
CONSTANTS
  MAX_SAFE_UINT256 = 4
  alice = alice
  bob = bob
  carol = carol
  secret = secret
  Participants <- MCParticipants
  this = network
  Controllers = {owner}
  ControllerCalls = {"removeLimits"}
  MaxChannels = 2
  MaxStuck = 1
  MaxTime = 3
  SettleTimeout = 1
  ParticipantDepositLimit = 1
  NetworkDepositLimit = 2
  InitialTokens <- MCInitialTokens
  Amounts = {1, 2}
  Secrethashes = {secret}
  LockLists <- MCLockLists
  BalanceData <- MCBalanceData
  ZeroHash = ZeroHash
  BalanceProofs <- MCBalanceProofs
  CounterSignatures <- MCCounterSignatures
  WithdrawMessages <- MCWithdrawMessages
SPECIFICATION Spec
INVARIANTS
  ChannelPairsConsistent
  NothingLeftBehind
  OwedWithinLimit
PROPERTIES
  PayoutsStayInChannel
CHECK_DEADLOCK FALSE
