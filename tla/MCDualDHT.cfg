CONSTANTS
  Peers = {w1, w2}
  Self = self
  Provs = {p1, p2}
  Alpha = 2
  Counts = {0, 1}
  MaxEntries <- MCMaxEntries
  MaxLan = 1
SPECIFICATION Spec
INVARIANTS Inv SearchFinds DualFinds
PROPERTIES CallsEnd
CHECK_DEADLOCK FALSE
