SPECIFICATION FairSpec
CONSTANTS
  A = A B = B C = C
  P1 = P1 P2 = P2 Q1 = Q1 Q2 = Q2
  T = T U = U
  Node <- TwinNode
  Tier <- TwinTier
  TopSpine <- Top
  Port <- TwinPort
  Peer <- TwinPeer
  Root <- TwinRoot
  RootsOf <- TwinRootsOf
  MaxFaults = 2
  OneAtATime = FALSE
  Restarts = {C}
INVARIANTS
  TypeOK
  ReachableIsBelow
PROPERTIES
  Quietens
  UpdatesWearOff
CHECK_DEADLOCK FALSE
