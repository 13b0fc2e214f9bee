\* One developer compiles while another verifies and sources of two names in two
\* directories are edited; two runners submit sources;
\* every token command is run twice at most, and a second mint overflows, so it reverts.
CONSTANTS
  Compiler = compiler
  Checkers = {checker}
  DirOrder <- TwoDirectories
  FileOrder <- TwoFiles
  Contents = {"v1", "large"}
  Oversized = {"large"}
  MaxEdits = 2
  Runners = {a, b}
  CONTRACT_LIST <- TwoContracts
  SourceOf <- TwoSources
  Retries = 2
  alice = alice
  bob = bob
  Accounts <- MCAccounts
  TokenCommands <- MCCommandNames
  TokenPlan <- MCPlan
  Held <- MCHeld
  UINT256_MAX = 5
  MaxRuns = 2
SPECIFICATION MCFairSpec
INVARIANTS
  VerifiedMeansCompiled
  SuccessMeansVerified
  SuccessMeansMoved
PROPERTIES
  CommandsEnd
CHECK_DEADLOCK FALSE
