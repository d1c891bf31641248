SPECIFICATION CancelSpec
SYMMETRY Symmetry
CONSTANTS
  a = a  b = b  None = None
  Callers = {a, b}
  Quantity = 1
  Lease = 1
INVARIANTS StopGoesCovered ConfirmedIsCancelled
PROPERTIES CancelsOnce
CHECK_DEADLOCK FALSE
VIEW Relevant
