CONSTANTS
  Peers = {1, 2, 3}
  Workers = {w1, w2}
  NoPeer = NoPeer
  Names <- MCNames
  bootstrapPeers <- MCBootstrap
  K = 1
  Callers = {c1}
SPECIFICATION FullRTSpec
INVARIANTS FullRTInv ReadsSteady
PROPERTIES CrawlsEnd
CHECK_DEADLOCK FALSE
