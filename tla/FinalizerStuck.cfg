SPECIFICATION FairSpec
CONSTANTS
  ServicePorts <- OnePort
  ListedPorts <- ListOne
  MaxOptimizers = 1
  MaxEndpointsVersions = 1
  MaxFaults = 0
CHECK_DEADLOCK FALSE
PROPERTIES
  DeletionNeverHangs
