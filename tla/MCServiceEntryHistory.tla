----------------------- MODULE MCServiceEntryHistory -----------------------
(***************************************************************************)
(* Instances of ServiceEntryHistory for TLC: the pods are interchangeable. *)
(***************************************************************************)
EXTENDS ServiceEntryHistory, TLC

CONSTANTS p1, p2

\* WeightOptimizers that have a 0 for one of the pods.
PublishedMaps ==
  {[a \in {p1, p2} |-> IF a = p1 THEN 200 ELSE 0], [a \in {p1, p2} |-> IF a = p2 THEN 200 ELSE 0]}

Interchangeable == Permutations({p1, p2})
=============================================================================
