SPECIFICATION Spec
CONSTANTS
  p1 = p1
  p2 = p2
  Addr <- Pods
  Samples <- PodSamples
  FreshWeights <- DefaultWeight
  OptimizationTimeout = 2
  MaxTime = 5
  MaxCycles = 3
  MinimumWeight = 100
  MaximumWeight = 600
  NewEndpointsPercentileWeight = 50
  CpuDistanceMultiplierPercent = 100
  MinOptimizeCpuDistancePercent = 5
CHECK_DEADLOCK FALSE
PROPERTIES
  RecentOptimizationPreventsReset
