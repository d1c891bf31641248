------------------------ MODULE MCProductionDispatch ------------------------
(* Small instances of ProductionDispatch: an entry request, the same request *)
(* reissued with another expiry, and an exit.                                *)
EXTENDS ProductionDispatch, TLC

CONSTANTS c1, c2, entry, exit, first, again, close, arm1, Span

IdsOf  == [r \in Requests |-> IF r = close THEN exit ELSE entry]
ArmsOf == [r \in Requests |-> arm1]
Expiry == [r \in Requests |-> IF r = again THEN Span ELSE Span - 1]

Symmetry == Permutations(Calls)

=============================================================================
