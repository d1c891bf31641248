SPECIFICATION Spec
CONSTANTS
  open1 = open1
  close1 = close1
  None = None
  Opens <- MCOpens
  Closes <- MCCloses
  CacheSize = 1
  MaxFaults <- MCMaxFaults
INVARIANTS SentOnce AckedOpenIsSafe OneStop
