SPECIFICATION Spec
CONSTANTS
  A = A B = B C = C
  P1 = P1 P2 = P2 Q1 = Q1 Q2 = Q2
  T = T U = U
  Node <- PodNode
  Tier <- PodTier
  TopSpine <- Top
  Port <- PodPort
  Peer <- PodPeer
  Root <- PodRoot
  RootsOf <- PodRootsOf
  MaxFaults = 2
  OneAtATime = TRUE
  Restarts = {A, C}
INVARIANTS
  NoBlackHole
  NoNeedlessDrop
  HealedIsClean
CHECK_DEADLOCK FALSE
