CONSTANTS
  MaxSeq = 2
  Tasks = {t1, t2}
  Values <- MCValues
  Rank <- MCRank
  None = None
SPECIFICATION ServerSpec
INVARIANTS ServerInv
PROPERTIES HandlersKeepNewest ServerLive
CHECK_DEADLOCK FALSE
