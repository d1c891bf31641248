----------------------- MODULE MCSimulationController -----------------------
(* Two long trades and three frames: each trade may take part of one level,  *)
(* exits compete for the bids, a bar may hit stop and target at once.        *)
EXTENDS SimulationController

CONSTANTS t1, t2

Both(x) == [t \in Trades |-> x]
AllBuy == Both(TRUE)
TwoLots == [t \in Trades |-> IF t = t1 THEN 2 ELSE 1]
CapOf == Both(6)
StopOf == Both(3)
TargetOf == Both(7)
AtOnce == Both(0)
ExpiryOf == Both(3)
HoldingOf == Both(2)

Level(p, q) == [price |-> p, quantity |-> q]
Frame(e, r, p, u, asks, bids) ==
  [exchange |-> e, received |-> r, persisted |-> p, update |-> u, asks |-> asks, bids |-> bids]
TapeOf == << Frame(0, 0, 1, 1, <<Level(5, 2), Level(6, 4)>>, <<Level(4, 2), Level(3, 2)>>),
             Frame(2, 2, 2, 2, <<Level(6, 4)>>, <<Level(5, 2), Level(4, 4)>>),
             Frame(3, 4, 4, 3, <<Level(5, 4)>>, <<Level(4, 6), Level(3, 2)>>) >>

Bar(time, low, high, close) == [at |-> time, low |-> low, high |-> high, close |-> close]
BarSet == {Bar(2, 3, 7, 5), Bar(4, 4, 6, 6), Bar(5, 4, 6, 5)}
=============================================================================
