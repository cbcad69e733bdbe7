SPECIFICATION ResyncSpec
CONSTANTS
  ServicePorts <- TwoPorts
  ListedPorts <- ListOne
  MaxOptimizers = 2
  MaxEndpointsVersions = 2
  MaxFaults = 1
CHECK_DEADLOCK FALSE
INVARIANTS
  LifecycleInv
  ServedAtRest
PROPERTIES
  NothingWithoutFinalizer
  DeletionCompletes
  EntriesSettle
