CONSTANTS
  Peers <- MCPeers
  Self = 0
  Referrers = {0, 1}
  Dist <- MCDist
  Asked <- MCAsked
SPECIFICATION PeersetSpec
INVARIANTS PeersetInv
PROPERTIES ImplementsMap
