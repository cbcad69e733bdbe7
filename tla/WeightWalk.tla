----------------------------- MODULE WeightWalk -----------------------------
(***************************************************************************)
(* The arithmetic of WeightMath on the weights that the control loop       *)
(* itself produces, compared with reference definitions.  The weights      *)
(* start at the two values the controllers create; then pods come and go,  *)
(* the readings change, and the weights are optimized with the multipliers *)
(* of the cycle before, for a bounded number of steps.  Every step is a    *)
(* whole cycle: nothing is lost, late or in conflict here.                 *)
(***************************************************************************)
EXTENDS WeightMath, FiniteSetsExt

CONSTANTS
  Pods,      \* the pods of a service
  Readings,  \* the CPU readings of a pod
  MaxSteps   \* bound: changes of the pods and optimizations

ASSUME WalkAssumption ==
  /\ IsFiniteSet(Pods)
  /\ Readings \subseteq Nat
  /\ MaxSteps \in Nat

VARIABLES
  weights,      \* the weights of the ServiceEntry, by pod
  cpu,          \* the readings of the pods that have one
  multipliers,  \* the multipliers in the WeightOptimizer, by pod
  steps

vars == <<weights, cpu, multipliers, steps>>

\* What getPodMetrics may answer: readings of some of the pods.
PodMetrics(pods) == UNION {[measured -> Readings] : measured \in SUBSET pods}

Init ==
  /\ \E pods \in (SUBSET Pods) \ {{}} : weights \in [pods -> {Middle, 1000}]
  /\ cpu \in PodMetrics(DOMAIN weights)
  /\ multipliers = [a \in {} |-> One]
  /\ steps = 0

Step == steps < MaxSteps /\ steps' = steps + 1

ChangePods ==
  /\ Step
  /\ \E pods \in (SUBSET Pods) \ {{}} : weights' = MergedWeights(weights, pods)
  /\ cpu' \in PodMetrics(DOMAIN weights')
  /\ UNCHANGED multipliers

\* calculateNewWeights and the application of its weights.  A pod that has a
\* multiplier already gets that one; this cycle's is stored for the next.  Without
\* any reading the Update fails (nan), or there is none.
Optimize ==
  /\ Step
  /\ LET metrics    == UpdatePodMetrics(cpu)
         Applied(a) == IF a \in DOMAIN multipliers THEN multipliers[a] ELSE metrics.multipliers[a]
         New(a)     == CalculateNewWeight(weights[a], Applied(a))
     IN  /\ ~metrics.nan
         /\ \E f \in [DOMAIN cpu -> UNION {New(a) : a \in DOMAIN cpu}] :
              /\ \A a \in DOMAIN cpu : f[a] \in New(a)
              /\ \E median \in MedianWeights(f) : \E published \in AdjustWeightsToMedian(f, median) :
                   weights' = AppliedWeights(weights, published)
         /\ multipliers' = metrics.multipliers
  /\ cpu' \in PodMetrics(DOMAIN weights)

Next == ChangePods \/ Optimize

Spec == Init /\ [][Next]_vars

-----------------------------------------------------------------------------
\* The k-th smallest weight, by counting.
Smallest(k) ==
  CHOOSE v \in Range(weights) :
    /\ Cardinality({a \in DOMAIN weights : weights[a] < v}) < k
    /\ Cardinality({a \in DOMAIN weights : weights[a] <= v}) >= k

Median ==
  LET n == Cardinality(DOMAIN weights)
  IN  (Smallest((n + 1) \div 2) + Smallest(n \div 2 + 1)) \div 2

\* getMedianWeight, which sorts with an unstable order, returns the median found
\* by counting, whatever the order of equal weights.
MedianIsUnambiguous == MedianWeights(weights) = {Median}

\* "Adjust weights to ensure the median weight is at the middle of the weight
\* range": after adjustWeightsToMedian the median is the middle, one below it
\* where the floats truncate, or above it by no more than what halving an odd
\* sum loses; and no two pods have changed places.
AdjustmentCentresMedian ==
  \A f \in AdjustWeightsToMedian(weights, Median) :
    /\ Median # 0 => \A m \in MedianWeights(f) : m \in Middle - 1 .. Middle + Middle \div (2 * Median)
    /\ \A a, b \in DOMAIN weights : weights[a] < weights[b] => f[a] <= f[b]

\* CreateDefaultWeightForNewEndpoints, which averages a prefix of a sorted slice,
\* returns the least average that any such number of the weights has, so that a
\* new pod never starts above the average one.
NewcomersStartLow ==
  LET n        == (Cardinality(DOMAIN weights) * NewEndpointsPercentileWeight) \div 100
      averages == {SumFunctionOnSet(weights, S) \div Cardinality(S) :
                     S \in {Q \in SUBSET DOMAIN weights : Cardinality(Q) = Max({n, 1})}}
  IN  CreateDefaultWeightForNewEndpoints(weights) = Min(averages)

\* Of two pods with the same weight and a reading each, the busier one does not
\* get the higher weight from this cycle's multipliers (updatePodMetrics,
\* calculateNewWeight).
BusierPodGetsLess ==
  LET metrics == UpdatePodMetrics(cpu)
      New(a)  == CalculateNewWeight(weights[a], metrics.multipliers[a])
  IN  \A a, b \in DOMAIN cpu :
        weights[a] = weights[b] /\ 0 < cpu[a] /\ cpu[a] < cpu[b]
          => \A v \in New(a), w \in New(b) : w <= v

\* "Pods without CPU metrics will have the averageCPU, and are not optimized":
\* a pod without a reading is neither favoured nor punished, and the pods with one
\* get the multipliers they would get if it were not there (updatePodMetrics).
MissingReadingsAreNeutral ==
  LET read == {a \in DOMAIN cpu : cpu[a] # 0}
      \* the multipliers when only these pods exist
      Among(pods) == UpdatePodMetrics([a \in pods |-> cpu[a]]).multipliers
  IN  \A a \in DOMAIN cpu : Among(DOMAIN cpu)[a] = IF a \in read THEN Among(read)[a] ELSE One
=============================================================================
