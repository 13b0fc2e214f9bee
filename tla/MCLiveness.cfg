\* Two participants, two successive channels: every closed channel is paid out.
CONSTANTS
  MAX_SAFE_UINT256 = 3
  alice = alice
  bob = bob
  secret = secret
  Participants <- MCParticipants
  this = network
  Controllers = {owner}
  ControllerCalls = {"deprecate", "changeController"}
  MaxChannels = 2
  MaxStuck = 0
  MaxTime = 4
  SettleTimeout = 1
  ParticipantDepositLimit = 2
  NetworkDepositLimit = 3
  InitialTokens <- MCInitialTokens
  Amounts = {2}
  Secrethashes = {secret}
  LockLists <- MCLockLists
  BalanceData <- MCBalanceData
  ZeroHash = ZeroHash
  BalanceProofs <- MCBalanceProofs
  CounterSignatures <- MCCounterSignatures
  WithdrawMessages <- MCWithdrawMessages
SPECIFICATION FairSpec
PROPERTIES
  ClosedChannelsDrain
CHECK_DEADLOCK FALSE
