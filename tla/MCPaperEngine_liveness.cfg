SPECIFICATION FairSpec
CONSTANTS
  p1 = p1
  p2 = p2
  t1 = t1
  t2 = t2
  none = none
  None = none
  Procs = {p1}
  Trades = {t1}
  Q = 1
  Resting = FALSE
  Lag = {}
  Faults = 1
PROPERTIES OperationEnds EntryEnds ExposureIsCovered TimeoutCloses
