--------------------------- MODULE MCTriggerQueue ---------------------------
(***************************************************************************)
(* An instance of TriggerQueue for TLC: a service with two ports, and one  *)
(* that has no entries but may be annotated.                               *)
(***************************************************************************)
EXTENDS TriggerQueue

CONSTANTS s1, s2, e1, e2

Labels == [e \in Entry |-> s1]
=============================================================================
