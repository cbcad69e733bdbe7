---------------------------- MODULE MCWeightWalk ----------------------------
(***************************************************************************)
(* WeightWalk for TLC: the pods are interchangeable.                       *)
(***************************************************************************)
EXTENDS WeightWalk, TLC

Interchangeable == Permutations(Pods)
=============================================================================
