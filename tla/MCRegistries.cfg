\* Prices in proportion: PriceCap * P < UintMax as in the code.  Three tokens
\* and one without supply, two controllers, at most two token networks until
\* the limit is lifted.
CONSTANTS
  Services = {"s1", "s2"}
  InitialTokens <- MCInitialTokens
  UintMax = 2047
  PriceCap = 4
  ParameterCap = 3
  DefaultMinPrice = 1
  InitialPrice = 3
  Bumps <- MCBumps
  DecayConstants = {0, 1, 2}
  MinPrices = {1, 2}
  Durations = {1, 2}
  MaxDeposits = 3
  MaxValidTill = 5
  MaxChanges = 1
  MaxTime = 4
  Tokens = {"t1", "t2", "t3", "t4"}
  NoTokens = {"t4"}
  Accounts = {"owner", "heir"}
  Zero = "zero"
  MAX_SAFE_UINT256 = 9
  Limits = {0, 1, 9}
  MaxTokenNetworks = 2
SPECIFICATION MCSpec
INVARIANTS
  RegistrationIsBacked
  PriceAlwaysComputable
  NetworksFollowRegistry
PROPERTIES
  PriceMovesAsPromised
  ImplementsRegistrations
CHECK_DEADLOCK FALSE
