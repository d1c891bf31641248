\* A driver that admits two of three entries, and the restarts of its process.
SPECIFICATION FairSpec
CONSTANTS
  e1 = e1  e2 = e2  e3 = e3  a1 = a1  None = None
  Entries = {e1, e2, e3}
  Arms = {a1}
  ArmOf <- ArmsOf
  Capacity = 2
  MaxAdmissions = 2
INVARIANTS AnswersAreTrue OneUse
PROPERTIES NothingAfterUnknown MaintenanceContinues
