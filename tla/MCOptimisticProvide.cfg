CONSTANTS
  Calls = {v1, v2}
  NumPeers = 3
  K = 2
  Thresholds = {1, 2}
  PoolSize = 1
SPECIFICATION ProvideSpec
INVARIANTS ProvideInv ReturnsSound
PROPERTIES ProvideReturns
CHECK_DEADLOCK FALSE
