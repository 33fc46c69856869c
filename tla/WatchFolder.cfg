\* One path, a good and a bad recording; edits, failures and a kill.
CONSTANTS
  Paths = {1}
  Contents = {1, 2}
  Bad = {2}
  MaxAttempts = 2
  MaxEdits = 2
  MaxFaults = 1
  MaxKills = 1
SPECIFICATION FairSpec
INVARIANTS
  TypeOK
  QuarantineKeeps
  BoundedAttempts
PROPERTIES
  RemovedIsKept
  CompletedIsPaired
  InputsSettle
CHECK_DEADLOCK FALSE
