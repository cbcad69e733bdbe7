SPECIFICATION Spec
CONSTANTS
  Pods = {p1, p2, p3}
  Readings = {0, 10, 30}
  MaxSteps = 2
  MinimumWeight = 100
  MaximumWeight = 600
  NewEndpointsPercentileWeight = 67
  CpuDistanceMultiplierPercent = 100
  MinOptimizeCpuDistancePercent = 50
SYMMETRY Interchangeable
CHECK_DEADLOCK FALSE
INVARIANTS
  MedianIsUnambiguous
  AdjustmentCentresMedian
  NewcomersStartLow
  BusierPodGetsLess
  MissingReadingsAreNeutral
