-------------------------- MODULE MCAccountCapital --------------------------
(* Two entries of one account under two policy contexts, each with an owner  *)
(* arm of its own; snapshots from before and from after the account was used. *)
EXTENDS AccountCapital, TLC

CONSTANTS w1, w2, e1, e2, c1, c2

ContextsOf == [e \in Effects |-> IF e = e1 THEN c1 ELSE c2]

Wide   == [context |-> c1, cap |-> 4, daily |-> 4]
Narrow == [context |-> c2, cap |-> 3, daily |-> 3]
ArmSet == {Wide, Narrow}

Early(e) == [effect |-> e, risk |-> 1, notional |-> 2, equity |-> 400,
             daily |-> 0, openRisk |-> 0, openNotional |-> 0]
Late(e)  == [effect |-> e, risk |-> 1, notional |-> 1, equity |-> 400,
             daily |-> 2, openRisk |-> 3, openNotional |-> 1]
DecisionSet == {Early(e1), Late(e1), Early(e2), Late(e2)}

Symmetry == Permutations(Callers)
=============================================================================
