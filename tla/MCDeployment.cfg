\* Every scenario of the deployment scripts.
CONSTANTS
  a = a
  b = b
  releaser = releaser
  t1 = t1
  t2 = t2
  Chains = {1, 2}
  ID_TO_CHAINNAME <- PrivateNets
  Operators = {a, b}
  Releaser = releaser
  ReleaseChain = 1
  Commands = {"raiden", "services", "register", "verify", "token"}
  Tokens = {t1, t2}
  SettleTimeouts = {1}
  Limits = {1}
  MaxTokenNetworks = 2
  SaveInfo = {TRUE, FALSE}
  ReuseFrom = {"released", "private_net"}
  AnyRegistry = FALSE
  MaxTxs = 7
SPECIFICATION MCFairSpec
INVARIANTS
  FilesAreSound
  NetworksAreRecorded
  SuccessMeansWired
PROPERTIES
  Terminates
