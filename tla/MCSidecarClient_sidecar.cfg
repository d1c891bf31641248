SPECIFICATION FairSpec
CONSTANTS
  login = login
  again = again
  order = order
  query = query
  None = None
  Calls <- MCCalls
  KindOf <- MCKindOf
  MaxFaults = 1
INVARIANTS OwnAnswer
PROPERTIES LatchedAfterUnknown NothingAfterGivingUp CallsEnd
