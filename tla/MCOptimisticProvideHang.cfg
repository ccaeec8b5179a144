CONSTANTS
  Calls = {v1}
  NumPeers = 3
  K = 2
  Thresholds = {2}
  PoolSize = 1
SPECIFICATION ProvideSpec
PROPERTIES WaitEnds
CHECK_DEADLOCK FALSE
