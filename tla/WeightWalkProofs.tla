-------------------------- MODULE WeightWalkProofs --------------------------
(***************************************************************************)
(* The arithmetic agrees with the reference definitions on every map of    *)
(* weights the control loop produces, for every set of pods, every set of  *)
(* readings and every configuration of the flags.                          *)
(***************************************************************************)
EXTENDS WeightWalk, WeightMathProofs

\* The weights of some pods, with readings of some of them, and multipliers that
\* are numbers.
WalkInv ==
  /\ DOMAIN weights \in (SUBSET Pods) \ {{}}
  /\ weights \in [DOMAIN weights -> Nat]
  /\ cpu \in PodMetrics(DOMAIN weights)
  /\ \A a \in DOMAIN multipliers : multipliers[a] \in Multiplier

\* The facts about sums and sorted orders apply to the weights and to the readings.
LEMMA WalkInvCounted ==
  ASSUME WalkInv
  PROVE  /\ Counted(weights) /\ DOMAIN weights # {}
         /\ IsFiniteSet(DOMAIN cpu) /\ DOMAIN cpu \subseteq DOMAIN weights
         /\ \A a \in DOMAIN cpu : cpu[a] \in Nat
<1>1. IsFiniteSet(DOMAIN weights)
  BY WalkAssumption, FS_Subset DEF WalkInv
<1>2. Counted(weights) /\ DOMAIN weights # {}
  BY <1>1 DEF WalkInv, Counted
<1>3. PICK measured \in SUBSET DOMAIN weights : cpu \in [measured -> Readings]
  BY DEF WalkInv, PodMetrics
<1>4. IsFiniteSet(measured)
  BY <1>1, FS_Subset
<1> QED
  BY <1>2, <1>3, <1>4, WalkAssumption

\* Pods that come and go leave weights behind (HandleEndpointUpdate).
LEMMA ChangePodsInv ==
  ASSUME WalkInv, ChangePods
  PROVE  WalkInv'
<1> DEFINE newcomer == CreateDefaultWeightForNewEndpoints(weights)
<1>1. newcomer \in Nat
  <2>1. Convex(Nat) /\ Middle \in Nat
    BY MiddleInRange, WeightRangeAssumption DEF Convex
  <2> QED
    BY <2>1, WalkInvCounted, NewcomerWithinExisting DEF Counted
<1> HIDE DEF newcomer
<1>2. PICK pods \in (SUBSET Pods) \ {{}} : weights' = MergedWeights(weights, pods)
  BY DEF ChangePods
<1>3. weights' = [a \in pods |-> IF a \in DOMAIN weights THEN weights[a] ELSE newcomer]
  BY <1>2 DEF MergedWeights, newcomer
<1>4. cpu' \in PodMetrics(DOMAIN weights') /\ multipliers' = multipliers
  BY DEF ChangePods
<1>5. DOMAIN weights' = pods /\ \A a \in pods : weights'[a] \in Nat
  BY <1>1, <1>3 DEF WalkInv
<1>6. weights' \in [pods -> Nat]
  BY <1>3, <1>5
<1> QED
  BY <1>4, <1>5, <1>6 DEF WalkInv, PodMetrics

\* So does an optimization (calculateNewWeights).
LEMMA OptimizeInv ==
  ASSUME WalkInv, Optimize
  PROVE  WalkInv'
<1> DEFINE metrics    == UpdatePodMetrics(cpu)
           Applied(a) == IF a \in DOMAIN multipliers THEN multipliers[a] ELSE metrics.multipliers[a]
           New(a)     == CalculateNewWeight(weights[a], Applied(a))
<1>1. PICK f \in [DOMAIN cpu -> UNION {New(a) : a \in DOMAIN cpu}] :
        /\ \A a \in DOMAIN cpu : f[a] \in New(a)
        /\ \E median \in MedianWeights(f) : \E published \in AdjustWeightsToMedian(f, median) :
             weights' = AppliedWeights(weights, published)
  BY DEF Optimize
<1>2. PICK median \in MedianWeights(f) :
         \E published \in AdjustWeightsToMedian(f, median) : weights' = AppliedWeights(weights, published)
  BY <1>1
<1>3. PICK published \in AdjustWeightsToMedian(f, median) : weights' = AppliedWeights(weights, published)
  BY <1>2
<1>4. multipliers' = metrics.multipliers /\ cpu' \in PodMetrics(DOMAIN weights)
  BY DEF Optimize
<1>5. \A a \in DOMAIN cpu : metrics.multipliers[a] \in Multiplier
  BY WalkInvCounted, MultipliersDefined
<1>6. DOMAIN metrics.multipliers = DOMAIN cpu
  BY DEF UpdatePodMetrics
<1> HIDE DEF metrics
<1>7. \A a \in DOMAIN cpu : f[a] \in MinimumWeight..MaximumWeight
  <2> SUFFICES ASSUME NEW a \in DOMAIN cpu
               PROVE  New(a) \subseteq MinimumWeight..MaximumWeight
    BY <1>1
  <2>1. weights[a] \in Nat
    BY WalkInvCounted DEF WalkInv
  <2>2. Applied(a) \in Multiplier
    BY <1>5 DEF WalkInv
  <2> QED
    BY <2>1, <2>2, NewWeightWithinFlags
<1> HIDE DEF New
<1>8. DOMAIN f = DOMAIN cpu /\ IsFiniteSet(DOMAIN f) /\ Clamped(f)
  BY <1>1, <1>7, WalkInvCounted DEF Clamped
<1>9. DOMAIN published = DOMAIN f
  BY <1>1, <1>3, <1>8 DEF AdjustWeightsToMedian
<1>10. \A a \in DOMAIN published : published[a] \in Nat
  BY <1>3, <1>8, <1>9, AdjustedWeightsBounded
<1>11. DOMAIN weights' = DOMAIN weights /\ weights' \in [DOMAIN weights -> Nat]
  BY <1>3, <1>10 DEF WalkInv, AppliedWeights, PublishedWeight
<1> QED
  BY <1>4, <1>5, <1>6, <1>11 DEF WalkInv, PodMetrics

\* The weights stay natural numbers, of at least one pod.
THEOREM WalkInvariant == Spec => []WalkInv
<1>1. Init => WalkInv
  <2>1. Middle \in Nat
    BY MiddleInRange, WeightRangeAssumption
  <2> QED
    BY <2>1 DEF Init, WalkInv, PodMetrics
<1>2. WalkInv /\ [Next]_vars => WalkInv'
  <2>1. ASSUME WalkInv, UNCHANGED vars PROVE WalkInv'
    BY <2>1 DEF WalkInv, PodMetrics, vars
  <2> QED
    BY <2>1, ChangePodsInv, OptimizeInv DEF Next
<1> QED
  BY <1>1, <1>2, PTL DEF Spec

-----------------------------------------------------------------------------
\* What Smallest chooses is the weight of that rank.
LEMMA SmallestHasRank ==
  ASSUME WalkInv, NEW k \in 1..Cardinality(DOMAIN weights)
  PROVE  Smallest(k) \in Nat /\ HasRank(weights, Smallest(k), k)
<1>1. Counted(weights)
  BY WalkInvCounted
<1>2. PICK order \in SortedOrders(weights) : TRUE
  BY <1>1, SortedOrderExists
<1>3. order[k] \in DOMAIN weights /\ HasRank(weights, weights[order[k]], k)
  BY <1>1, <1>2, PlaceHasRank
<1>4. \E v \in Range(weights) : HasRank(weights, v, k)
  BY <1>3, Zenon DEF Range
<1>5. Smallest(k) \in Range(weights) /\ HasRank(weights, Smallest(k), k)
  BY <1>4, Zenon DEF Smallest, HasRank
<1> QED
  BY <1>1, <1>5 DEF Range, Counted

\* The two middle ranks are ranks.
LEMMA MedianOfWalk ==
  ASSUME WalkInv
  PROVE  Median \in Nat /\ MedianWeights(weights) = {Median}
<1> DEFINE n == Cardinality(DOMAIN weights)
<1>1. Counted(weights) /\ DOMAIN weights # {}
  BY WalkInvCounted
<1>2. n \in Nat /\ n # 0
  BY <1>1, FS_CardinalityType, FS_EmptySet DEF Counted
<1>3. LowerMiddle(n) \in 1..n /\ UpperMiddle(n) \in 1..n
  <2> HIDE DEF n
  <2> QED
    BY <1>2, SMT DEF LowerMiddle, UpperMiddle
<1> DEFINE low  == Smallest(LowerMiddle(n))
           high == Smallest(UpperMiddle(n))
<1>4. low \in Nat /\ HasRank(weights, low, LowerMiddle(n))
  BY <1>3, SmallestHasRank
<1>5. high \in Nat /\ HasRank(weights, high, UpperMiddle(n))
  BY <1>3, SmallestHasRank
<1>6. Median = (low + high) \div 2
  BY DEF Median, LowerMiddle, UpperMiddle
<1> HIDE DEF low, high
<1>7. MedianWeights(weights) = {(low + high) \div 2}
  BY <1>1, <1>4, <1>5, MedianOfRanks
<1> QED
  BY <1>4, <1>5, <1>6, <1>7, SMT

\* getMedianWeight returns the median whatever order its unstable sort leaves
\* equal weights in.
THEOREM MedianUnambiguous == Spec => []MedianIsUnambiguous
<1>1. WalkInv => MedianIsUnambiguous
  BY MedianOfWalk DEF MedianIsUnambiguous
<1> QED
  BY <1>1, WalkInvariant, PTL

\* adjustWeightsToMedian brings the median to the middle of the range and keeps
\* the order of the pods.
THEOREM MedianCentred == Spec => []AdjustmentCentresMedian
<1>1. ASSUME WalkInv, NEW f \in AdjustWeightsToMedian(weights, Median)
      PROVE  /\ Median # 0 => \A m \in MedianWeights(f) : m \in Middle - 1 .. Middle + Middle \div (2 * Median)
             /\ \A a, b \in DOMAIN weights : weights[a] < weights[b] => f[a] <= f[b]
  <2>1. Counted(weights) /\ DOMAIN weights # {}
    BY <1>1, WalkInvCounted
  <2>2. Median \in Nat /\ Median \in MedianWeights(weights)
    BY <1>1, MedianOfWalk
  <2>3. ASSUME Median # 0, NEW m \in MedianWeights(f)
        PROVE  m \in Middle - 1 .. Middle + Middle \div (2 * Median)
    BY <2>1, <2>2, <2>3, AdjustedMedianIsCentred
  <2>4. ASSUME NEW a \in DOMAIN weights, NEW b \in DOMAIN weights, weights[a] < weights[b]
        PROVE  f[a] <= f[b]
    BY <2>1, <2>2, <2>4, AdjustmentKeepsOrder
  <2> QED
    BY <2>3, <2>4
<1>2. WalkInv => AdjustmentCentresMedian
  BY <1>1, Zenon DEF AdjustmentCentresMedian
<1> QED
  BY <1>2, WalkInvariant, PTL

\* A new endpoint starts with the least average that so many of the existing
\* weights have (createDefaultWeightForNewEndpoints).
THEOREM NewcomerStartsLow == Spec => []NewcomersStartLow
<1>1. ASSUME WalkInv
      PROVE  NewcomersStartLow
  <2> DEFINE size     == Cardinality(DOMAIN weights)
             n        == (size * NewEndpointsPercentileWeight) \div 100
             Average(S) == SumFunctionOnSet(weights, S) \div Cardinality(S)
             averages == {Average(S) : S \in {Q \in SUBSET DOMAIN weights : Cardinality(Q) = Max({n, 1})}}
             least    == CreateDefaultWeightForNewEndpoints(weights)
  <2>1. Counted(weights) /\ DOMAIN weights # {}
    BY <1>1, WalkInvCounted
  <2>2. n \in Nat
    <3>1. size \in Nat
      BY <2>1, FS_CardinalityType DEF Counted
    <3> HIDE DEF size
    <3>2. size * NewEndpointsPercentileWeight \in Nat
      BY <3>1, PercentAssumption
    <3> QED
      BY <3>2, SMT
  <2>3. SharedWeights(size) = Max({n, 1})
    <3>1. SharedWeights(size) = IF n = 0 THEN 1 ELSE n
      BY DEF SharedWeights
    <3> HIDE DEF n, size
    <3>2. Max({n, 1}) \in {n, 1} /\ Max({n, 1}) >= n /\ Max({n, 1}) >= 1
      <4>1. \E x \in {n, 1} : \A y \in {n, 1} : x >= y
        BY <2>2
      <4>2. Max({n, 1}) \in {n, 1} /\ \A y \in {n, 1} : Max({n, 1}) >= y
        BY <4>1, Zenon DEF Max
      <4> QED
        BY <4>2
    <3> QED
      BY <2>2, <3>1, <3>2
  <2>4. ASSUME NEW S \in SUBSET DOMAIN weights, Cardinality(S) = Max({n, 1})
        PROVE  least <= Average(S)
    BY <2>1, <2>3, <2>4, NewcomerLeastAverage
  <2>5. PICK Q \in SUBSET DOMAIN weights :
          /\ Cardinality(Q) = Max({n, 1})
          /\ least = Average(Q)
          /\ least \in Nat
    BY <2>1, <2>3, NewcomerIsAverage
  <2> HIDE DEF least, n, Average
  <2>6. least \in averages /\ \A y \in averages : least <= y
    BY <2>4, <2>5
  <2>7. averages \subseteq Nat
    <3> SUFFICES ASSUME NEW S \in SUBSET DOMAIN weights, Cardinality(S) = Max({n, 1})
                 PROVE  Average(S) \in Nat
      OBVIOUS
    <3>1. IsFiniteSet(S) /\ \A x \in S : weights[x] \in Nat
      BY <2>1, FS_Subset DEF Counted
    <3>2. SumFunctionOnSet(weights, S) \in Nat
      BY <3>1, SumType
    <3>3. Cardinality(S) \in Nat /\ Cardinality(S) > 0
      <4>1. Max({n, 1}) \in Nat \ {0}
        BY <2>3, <2>2 DEF SharedWeights, n
      <4> QED
        BY <4>1
    <3> QED
      BY <3>2, <3>3, SMT DEF Average
  <2>8. Min(averages) = least
    <3> HIDE DEF averages
    <3>1. Min(averages) \in averages /\ \A y \in averages : Min(averages) <= y
      BY <2>6, Zenon DEF Min
    <3>2. Min(averages) <= least /\ least <= Min(averages)
      BY <2>6, <3>1, Zenon
    <3>3. Min(averages) \in Nat /\ least \in Nat
      BY <2>6, <2>7, <3>1, Zenon
    <3> QED
      BY <3>2, <3>3
  <2> QED
    BY <2>8 DEF NewcomersStartLow, averages, least, n, Average
<1> QED
  BY <1>1, WalkInvariant, PTL

\* Of two pods with the same weight the busier one does not get the higher weight
\* (updatePodMetrics, calculateNewWeight).
THEOREM BusierPod == Spec => []BusierPodGetsLess
<1>1. ASSUME WalkInv
      PROVE  BusierPodGetsLess
  <2> DEFINE metrics == UpdatePodMetrics(cpu)
  <2>1. ASSUME NEW a \in DOMAIN cpu, NEW b \in DOMAIN cpu,
               weights[a] = weights[b], 0 < cpu[a], cpu[a] < cpu[b],
               NEW v \in CalculateNewWeight(weights[a], metrics.multipliers[a]),
               NEW w \in CalculateNewWeight(weights[b], metrics.multipliers[b])
        PROVE  w <= v
    <3>1. /\ IsFiniteSet(DOMAIN cpu) /\ \A x \in DOMAIN cpu : cpu[x] \in Nat
          /\ weights[a] \in Nat
      BY <1>1, WalkInvCounted DEF WalkInv
    <3>2. w \in CalculateNewWeight(weights[a], metrics.multipliers[b])
      BY <2>1
    <3> QED
      BY <2>1, <3>1, <3>2, BusierGetsLess
  <2> HIDE DEF metrics
  <2> QED
    BY <2>1 DEF BusierPodGetsLess, metrics
<1> QED
  BY <1>1, WalkInvariant, PTL

\* A pod without a reading is not optimized and does not change what the others
\* get (updatePodMetrics).
THEOREM MissingReadings == Spec => []MissingReadingsAreNeutral
<1>1. ASSUME WalkInv
      PROVE  MissingReadingsAreNeutral
  <2> DEFINE read == {a \in DOMAIN cpu : cpu[a] # 0}
             Among(pods) == UpdatePodMetrics([a \in pods |-> cpu[a]]).multipliers
  <2>1. /\ IsFiniteSet(DOMAIN cpu) /\ \A x \in DOMAIN cpu : cpu[x] \in Nat
        /\ cpu = [a \in DOMAIN cpu |-> cpu[a]]
    BY <1>1, WalkInvCounted DEF WalkInv, PodMetrics
  <2>2. read = Measured(cpu)
    BY DEF Measured
  <2>3. ASSUME NEW a \in DOMAIN cpu
        PROVE  Among(DOMAIN cpu)[a] = IF a \in read THEN Among(read)[a] ELSE One
    <3>1. UpdatePodMetrics(cpu).multipliers[a] =
            IF a \in read THEN UpdatePodMetrics([x \in read |-> cpu[x]]).multipliers[a] ELSE One
      BY <2>1, <2>2, MissingReadingIsNeutral
    <3> QED
      BY <2>1, <3>1, Zenon
  <2> HIDE DEF Among, read
  <2> QED
    BY <2>3, Zenon DEF MissingReadingsAreNeutral, Among, read
<1> QED
  BY <1>1, WalkInvariant, PTL
=============================================================================
