SPECIFICATION FairSpec
CONSTANTS
  Ports <- TwoPorts
  MaxOptimizers = 2
  MaxFaults = 1
CHECK_DEADLOCK FALSE
INVARIANTS
  LoopInv
PROPERTIES
  CollectedStaysCollected
  EveryPortOptimized
  LeftoversCollected
