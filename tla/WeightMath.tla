----------------------------- MODULE WeightMath -----------------------------
(***************************************************************************)
(* The arithmetic of the weight control loop: how a weight follows from a  *)
(* CPU reading, how a set of weights is rescaled around its median, and    *)
(* which weight a new endpoint starts with.                                *)
(*                                                                         *)
(* A map of weights (map[string]uint32 in the code) is a function from a   *)
(* finite set of addresses to naturals.  A float64 multiplier is a         *)
(* rational [num, den].  Weights stay far below 2^32, so uint32 sums are   *)
(* exact.                                                                  *)
(***************************************************************************)
EXTENDS Integers, FiniteSets, Functions

CONSTANTS
  MinimumWeight,                 \* flag minimum-weight
  MaximumWeight,                 \* flag maximum-weight
  NewEndpointsPercentileWeight,  \* flag new-endpoints-percentile-weight
  CpuDistanceMultiplierPercent,  \* flag cpu-distance-multiplier-percent
  MinOptimizeCpuDistancePercent  \* flag min-optimize-cpu-distance-percent

\* main() does not validate these two flags; the defaults are 100 and 600.
ASSUME WeightRangeAssumption ==
  /\ MinimumWeight \in Nat \ {0}
  /\ MaximumWeight \in Nat
  /\ MinimumWeight <= MaximumWeight

\* main() exits unless the percentile is between 0 and 100.
ASSUME PercentAssumption ==
  /\ NewEndpointsPercentileWeight \in 0..100
  /\ CpuDistanceMultiplierPercent \in Nat
  /\ MinOptimizeCpuDistancePercent \in Nat

Middle == (MaximumWeight + MinimumWeight) \div 2

Multiplier == [num : Int, den : Nat \ {0}]

One == [num |-> 1, den |-> 1]

(***************************************************************************)
(* uint32(float64(weight) * ratio) for ratio = num/den.  The product of    *)
(* two doubles may fall just below an exact integer (158 * (350.0/158) is  *)
(* 349.99...), so the truncation of an exact integer is that integer or    *)
(* the one below.  A ratio of 1.0 is exact.                                *)
(***************************************************************************)
Truncations(weight, num, den) ==
  LET product == weight * num
      floor   == product \div den
  IN  {floor} \cup {n \in {floor - 1} : product % den = 0 /\ product > 0 /\ num # den}

\* A variant that forgets the lower end.
ClampAbove(n) == IF n > MaximumWeight THEN MaximumWeight ELSE n

Clamp(n) == IF n < MinimumWeight THEN MinimumWeight
            ELSE IF n > MaximumWeight THEN MaximumWeight ELSE n

\* The weights calculateNewWeight may return.
CalculateNewWeight(currentWeight, multiplier) ==
  {Clamp(n) : n \in Truncations(currentWeight, multiplier.num, multiplier.den)}

\* The orders sort.Slice may leave the entries of a weight map in.
SortedOrders(weights) ==
  {order \in [1..Cardinality(DOMAIN weights) -> DOMAIN weights] :
     /\ IsInjective(order)
     /\ \A i, j \in DOMAIN order : i < j => weights[order[i]] <= weights[order[j]]}

\* A variant that does not average the two middle entries of an even number.
MedianWeightsUpper(weights) ==
  LET n == Cardinality(DOMAIN weights)
  IN  IF n = 0 THEN {0} ELSE {weights[order[n \div 2 + 1]] : order \in SortedOrders(weights)}

\* getMedianWeight, as the set of its results over the orders of equal weights.
MedianWeights(weights) ==
  LET n   == Cardinality(DOMAIN weights)
      mid == n \div 2
  IN  IF n = 0 THEN {0}
      ELSE IF n % 2 = 0
      THEN {(weights[order[mid]] + weights[order[mid + 1]]) \div 2 : order \in SortedOrders(weights)}
      ELSE {weights[order[mid + 1]] : order \in SortedOrders(weights)}

\* A variant with the ratio upside down.
ScaledInverted(weight, median) == Truncations(weight, median, Middle)

Scaled(weight, median) == Truncations(weight, Middle, median)

\* The maps adjustWeightsToMedian may return.
AdjustWeightsToMedian(weights, median) ==
  IF median \in {0, Middle} THEN {weights}
  ELSE {f \in [DOMAIN weights -> UNION {Scaled(weights[a], median) : a \in DOMAIN weights}] :
          \A a \in DOMAIN weights : f[a] \in Scaled(weights[a], median)}

\* Clamping happens before the adjustment to the median, so a published weight
\* may leave the configured range, but not by more than the ratio of its ends.
InAdjustedRange(weight) ==
  /\ weight * MinimumWeight <= MaximumWeight * Middle
  /\ (weight + 1) * MaximumWeight >= MinimumWeight * Middle

\* A variant that rounds the number of weights up.
SharedWeightsRoundedUp(size) == (size * NewEndpointsPercentileWeight) \div 100 + 1

\* NewEndpointsPercentileWeight percent of the weights, at least one of them.
SharedWeights(size) ==
  LET share == (size * NewEndpointsPercentileWeight) \div 100
  IN  IF share = 0 THEN 1 ELSE share

\* The weight HandleEndpointUpdate gives an address it has not seen: the average
\* of the lowest SharedWeights existing weights.
CreateDefaultWeightForNewEndpoints(existing) ==
  LET size  == Cardinality(DOMAIN existing)
      n     == SharedWeights(size)
      order == CHOOSE o \in SortedOrders(existing) : TRUE
  IN  IF size = 0 THEN Middle
      ELSE SumFunctionOnSet([i \in 1..size |-> existing[order[i]]], 1..n) \div n

\* Variants the properties reject: an address that left is kept; the average
\* goes to every address.
MergedWeightsKeepingRemoved(weights, addrs) ==
  [a \in addrs \cup DOMAIN weights |->
     IF a \in DOMAIN weights THEN weights[a] ELSE CreateDefaultWeightForNewEndpoints(weights)]
MergedWeightsAllAverage(weights, addrs) == [a \in addrs |-> CreateDefaultWeightForNewEndpoints(weights)]

\* The addresses of the Endpoints: a known one keeps its weight, the others get
\* the average of the lowest weights.
MergedWeights(weights, addrs) ==
  LET averageWeight == CreateDefaultWeightForNewEndpoints(weights)
  IN  [a \in addrs |-> IF a \in DOMAIN weights THEN weights[a] ELSE averageWeight]

\* The weight an address gets from a WeightOptimizer, where 0 is a missing one.
PublishedWeight(published, a) == IF a \in DOMAIN published THEN published[a] ELSE 0

\* A variant without the test for 0.
AppliedWeightsUnguarded(weights, published) == [a \in DOMAIN weights |-> PublishedWeight(published, a)]

\* Every address takes the published weight unless that is 0.
AppliedWeights(weights, published) ==
  [a \in DOMAIN weights |-> IF PublishedWeight(published, a) # 0 THEN PublishedWeight(published, a) ELSE weights[a]]

\* A variant with the sign of alpha lost.
CpuMultiplierInverted(distance, total) ==
  [num |-> 100 * total + CpuDistanceMultiplierPercent * distance, den |-> 100 * total]

\* 1 - alpha, where alpha is the distance relative to the mean times the flag.
CpuMultiplier(distance, total) ==
  [num |-> 100 * total - CpuDistanceMultiplierPercent * distance, den |-> 100 * total]

\* A variant that takes a missing reading for a reading of 0.
MeasuredAll(cpu) == DOMAIN cpu

\* The pods whose readings make the mean.
Measured(cpu) == {a \in DOMAIN cpu : cpu[a] # 0}

(***************************************************************************)
(* updatePodMetrics: the multiplier of every pod from the CPU readings.    *)
(* A pod without a reading (0) counts as average.  When no pod has a       *)
(* reading the mean is NaN: the multiplier is set back to 1 but alpha and  *)
(* distance stay NaN, which the JSON of an Update cannot carry.            *)
(***************************************************************************)
UpdatePodMetrics(cpu) ==
  LET measured == Measured(cpu)
      n        == Cardinality(measured)
      total    == SumFunctionOnSet(cpu, measured)
      \* n times the distance from the mean
      distance(a) == IF a \in measured THEN cpu[a] * n - total ELSE 0
      near(a)  == LET d == distance(a)
                  IN  (IF d < 0 THEN -d ELSE d) * 100 < MinOptimizeCpuDistancePercent * total
      multiplier(a) ==
        IF n = 0 \/ near(a) \/ distance(a) = 0 THEN One ELSE CpuMultiplier(distance(a), total)
  IN  [multipliers |-> [a \in DOMAIN cpu |-> multiplier(a)], nan |-> n = 0]
=============================================================================
