SPECIFICATION FairSpec
CONSTANTS
  t1 = t1  t2 = t2
  Trades = {t1, t2}
  Buys <- AllBuy
  Lots <- TwoLots
  Cap <- CapOf
  Stop <- StopOf
  Target <- TargetOf
  Eligible <- AtOnce
  Expires <- ExpiryOf
  MaxHolding <- HoldingOf
  Tape <- TapeOf
  Bars <- BarSet
  Latency = 1  MaxBookAge = 2  MaxFrameLatency = 1
  Num = 1  Den = 2  Slip = 0
  End = 4  MaxTime = 5
INVARIANTS DepthSpentOnce NoHindsight ExposureConserved
PROPERTIES ResultsFollow
