------------------------- MODULE MCServiceEntrySync -------------------------
(***************************************************************************)
(* Instances of ServiceEntrySync for TLC.                                  *)
(***************************************************************************)
EXTENDS ServiceEntrySync

CONSTANTS p1, p2

\* Two maps that give both pods another weight.
TwoMaps == {[a \in {p1, p2} |-> 500], [a \in {p1, p2} |-> 200]}

OneMap == {[a \in {p1, p2} |-> 500]}
=============================================================================
