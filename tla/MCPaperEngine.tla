---- MODULE MCPaperEngine ----
EXTENDS PaperEngine, TLC
CONSTANTS p1, p2, t1, t2, none
ProcSymmetry  == Permutations({p1, p2})
TradeSymmetry == Permutations({t1, t2})
====
