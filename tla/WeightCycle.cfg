SPECIFICATION Spec
CONSTANTS
  p1 = p1
  p2 = p2
  Addr <- Pods
  Samples <- PodSamples
  FreshWeights <- DefaultWeight
  OptimizationTimeout = 1
  MaxTime = 3
  MaxCycles = 3
  MinimumWeight = 100
  MaximumWeight = 600
  NewEndpointsPercentileWeight = 50
  CpuDistanceMultiplierPercent = 100
  MinOptimizeCpuDistancePercent = 5
SYMMETRY PodSymmetry
VIEW WithoutSeries
CHECK_DEADLOCK FALSE
INVARIANTS
  OptimizerInv
  WeightsBounded
PROPERTIES
  ResetsAreSpaced
  LastOptimizedNeverGoesBack
