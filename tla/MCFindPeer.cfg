CONSTANTS
  N = 3
  Peers <- MCPeers
  Self = 0
  Dist <- MCDist
  Alpha = 2
  Beta = 2
  K = 3
  Accepted = {1, 3}
  Faulty = {2}
  Target = 1
SPECIFICATION Spec
INVARIANTS QueriesAccounted ReturnSound ContactedTargetFound
PROPERTIES EvictOnlyFaulty LookupReturns
CHECK_DEADLOCK FALSE
