CONSTANTS
  Peers = {p1, p2}
  Self = self
  Values = {1, 2}
  Alpha = 2
  Quorums = {0, 1}
SPECIFICATION Spec
INVARIANTS Inv SearchFindsBest HoldersNotUpdated
PROPERTIES SearchEnds
CHECK_DEADLOCK FALSE
