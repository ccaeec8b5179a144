CONSTANTS
  Clients = {c1}
  Provs = {p1, p2}
SPECIFICATION Spec
INVARIANTS Inv
PROPERTIES LiveNeverCollected ExpiredLeavesCache CallsServed
CHECK_DEADLOCK FALSE
