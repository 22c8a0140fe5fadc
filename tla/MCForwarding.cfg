SPECIFICATION DataFairSpec
CONSTANTS
  A = A C = C
  P1 = P1 P2 = P2
  T = T
  Node <- SquareNode
  Tier <- SquareTier
  TopSpine <- Top
  Port <- SquarePort
  Peer <- SquarePeer
  Root <- SquareRoot
  RootsOf <- SquareRootsOf
  MaxFaults = 1
  OneAtATime = TRUE
  Restarts = {C}
  Packet = {"data", "zero"}
  Src <- From
  Dest <- To
  MaxSent = 1
INVARIANTS
  RightLeaf
  NoLoop
  CalmArrives
PROPERTIES
  ImplementsDataService
  EveryPacketEnds
CHECK_DEADLOCK FALSE
