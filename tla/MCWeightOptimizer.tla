------------------------- MODULE MCWeightOptimizer -------------------------
(***************************************************************************)
(* Instances of WeightOptimizer for TLC.                                   *)
(***************************************************************************)
EXTENDS WeightOptimizer, TLC

CONSTANTS p1, p2

Pods == {p1, p2}

\* CPU readings: one pod much busier than the other, only one of them scraped, none
\* of them with a reading.
Readings ==
  {[a \in Pods |-> IF a = p THEN 99 ELSE 1] : p \in Pods} \cup {[a \in {p} |-> 10] : p \in Pods}
    \cup {[a \in Pods |-> 0]}

PodSamples == {UpdatePodMetrics(cpu) : cpu \in Readings}

\* Nothing tells one pod from the other.
PodSymmetry == Permutations(Pods)

\* The series and the last success decide nothing, and no property of WeightCycle
\* says more of them than their type.
WithoutSeries == <<serviceEntry, weightOptimizer, worker, now, cycles, lastReset>>

\* createServiceEntry's DefaultWeightForNewEndpoints.
DefaultWeight == {1000}
=============================================================================
