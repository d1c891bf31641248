SPECIFICATION Spec
CONSTANTS
  p1 = p1
  p2 = p2
  t1 = t1
  t2 = t2
  none = none
  None = none
  Procs = {p1, p2}
  Trades = {t1}
  Q = 2
  Resting = FALSE
  Lag = {"orders"}
  Faults = 1
SYMMETRY ProcSymmetry
INVARIANTS AtMostOnceSend TerminalIsClean ActiveIsProtected ExitIsAttributed CancelledBoughtNothing WireIsJournaled
PROPERTIES Refinement
