SPECIFICATION FairSpec
CONSTANTS
  L1 = L1
  L2 = L2
  S1 = S1
  S2 = S2
  T = T
  Node <- DiamondNode
  Tier <- DiamondTier
  Port <- DiamondPort
  Peer <- DiamondPeer
  Root <- DiamondRoot
  TopSpine <- Top
  MaxDrops = 0
  MaxStops = 1
INVARIANTS
  UniqueVID
  RestIsMeshed
PROPERTIES
  Converges
CHECK_DEADLOCK FALSE
