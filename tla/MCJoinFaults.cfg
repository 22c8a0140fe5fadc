SPECIFICATION Spec
CONSTANTS
  L1 = L1
  L2 = L2
  S1 = S1
  S2 = S2
  T = T
  Node <- StemNode
  Tier <- StemTier
  Port <- StemPort
  Peer <- StemPeer
  Root <- StemRoot
  TopSpine <- Top
  MaxDrops = 1
  MaxStops = 1
INVARIANTS
  TypeOK
  TierIsDepth
  OfferedIsAccepted
  OneVIDPerFrame
  UpperOpensLast
PROPERTIES
  ImplementsMeshedTree
CHECK_DEADLOCK FALSE
