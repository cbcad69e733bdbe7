------------------------ MODULE MCOptimizationCycles ------------------------
(***************************************************************************)
(* Instances of OptimizationCycles for TLC.                                *)
(***************************************************************************)
EXTENDS OptimizationCycles

TwoPorts == <<1, 2>>
=============================================================================
