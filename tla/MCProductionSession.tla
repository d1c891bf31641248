------------------------- MODULE MCProductionSession -------------------------
(* Small instances of ProductionSession. *)
EXTENDS ProductionSession

CONSTANTS e1, e2, e3, a1

\* Every entry is signed for the one arm.
ArmsOf == [e \in Entries |-> a1]
=============================================================================
