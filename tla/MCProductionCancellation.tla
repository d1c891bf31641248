---------------------- MODULE MCProductionCancellation ----------------------
(* Two calls that may be inside the boundary at once, for one trade.         *)
EXTENDS ProductionCancellation, TLC

CONSTANTS a, b

Symmetry == Permutations(Callers)
\* The age of what a snapshot showed of a target matters until its claim has been
\* proved again, and how long the position was bare until the stop's has, or the
\* position slipped.  A call that comes after the claim ends without any effect,
\* whatever it proves, and nothing else reads them, so that states this view takes
\* for one have the same behaviours but for how such a call gets to its end.
Needed(x) == x \notin claimed \/ \E c \in Callers : target[c] = x /\ step[c] = "claimed"

Relevant ==
  <<position, remainder, live, exit, cancelled, database, step, target, slipped,
    [x \in Targets |-> IF Needed(x) THEN age[x] ELSE Lease],
    IF slipped \/ ~ Needed("STOP_LOSS") THEN 0 ELSE bareFor>>

=============================================================================
