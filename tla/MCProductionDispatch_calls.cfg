\* Two calls, each of an entry, of its reissue with a later expiry, or of an exit.
SPECIFICATION Spec
SYMMETRY Symmetry
CONSTANTS
  c1 = c1  c2 = c2  entry = entry  exit = exit
  first = first  again = again  close = close  arm1 = arm1
  None = None  Span = 2
  Calls = {c1, c2}
  Ids = {entry, exit}
  Requests = {first, again, close}
  Exits = {exit}
  Arms = {arm1}
  IdOf <- IdsOf
  ArmOf <- ArmsOf
  ExpiresAt <- Expiry
  Lease = 2  MaxAge = 1  MaxTime = 2  MaxBack = 1
INVARIANTS
  OneSignature
  ChainOfAuthority
  DisarmStopsPost
  HonestOutcome
PROPERTIES ImplementsOneShot
CHECK_DEADLOCK FALSE
