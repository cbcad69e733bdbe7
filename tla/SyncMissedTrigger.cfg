SPECIFICATION Spec
CONSTANTS
  p1 = p1
  p2 = p2
  Addr = {p1, p2}
  Published <- TwoMaps
  ChannelCapacity = 1
  Installed = FALSE
  MaxEndpointsVersions = 3
  MaxPublished = 0
  MaxFaults = 0
  MinimumWeight = 100
  MaximumWeight = 600
  NewEndpointsPercentileWeight = 50
  CpuDistanceMultiplierPercent = 100
  MinOptimizeCpuDistancePercent = 5
CHECK_DEADLOCK FALSE
INVARIANTS
  AddressesInPlaceAtRest
