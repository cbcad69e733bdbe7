SPECIFICATION HistorySpec
CONSTANTS
  p1 = p1
  p2 = p2
  Addr = {p1, p2}
  Published <- PublishedMaps
  ChannelCapacity = 1
  Installed = TRUE
  MaxEndpointsVersions = 2
  MaxPublished = 2
  MaxFaults = 1
  MinimumWeight = 100
  MaximumWeight = 600
  NewEndpointsPercentileWeight = 50
  CpuDistanceMultiplierPercent = 100
  MinOptimizeCpuDistancePercent = 5
SYMMETRY Interchangeable
CHECK_DEADLOCK FALSE
INVARIANTS
  HistoryInv
  WeightsInPlaceAtRest
  NoZeroWeight
PROPERTIES
  KeepsContract
