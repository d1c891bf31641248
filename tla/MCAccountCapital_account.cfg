SPECIFICATION Spec
SYMMETRY Symmetry
CONSTANTS
  w1 = w1  w2 = w2  e1 = e1  e2 = e2   c1 = c1  c2 = c2
  None = None
  Callers = {w1, w2}
  Effects = {e1, e2}
  Contexts = {c1, c2}
  ContextOf <- ContextsOf
  Arms <- ArmSet
  Decisions <- DecisionSet
  Charges = {0, 2}
INVARIANTS CapsHold LiveIsHeld
PROPERTIES ReservedUnderArm
CHECK_DEADLOCK FALSE
