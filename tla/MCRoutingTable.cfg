CONSTANTS
  Peers = {p1, p2}
  Cpl <- MCCpl
  BucketSize = 1
  Callers = {c1}
  Forcing = {c1}
  Stopping = {p1}
SPECIFICATION Spec
INVARIANTS Inv FreezeAhead
PROPERTIES RefreshAnswered StoppedLeave
