\* Is a reward claimed once per channel?
CONSTANTS
  client = client
  s1 = s1
  s2 = s2
  Users = {client, s1, s2}
  udc = udc
  Services = {s1, s2}
  Watched = {client}
  InitialTokens <- MCInitialTokens
  whole_balance_limit = 3
  withdraw_timeout = 2
  TotalDeposits = {2, 3}
  WithdrawAmounts = {1, 2}
  Durations = {3, 5}
  MaxValidTill = 7
  IOUs <- MCIOUs
  Bulks <- MCBulks
  ChannelIds = {1}
  Nonces = {1, 2}
  SettleTimeout = 4
  Addresses <- MCAddresses
  NonClosing <- MCNonClosing
  Closing <- MCClosing
  RewardProofs <- MCRewardProofs
  MaxTime = 6
SPECIFICATION MCSpec
INVARIANTS
  ClaimedOncePerChannel
CHECK_DEADLOCK FALSE
