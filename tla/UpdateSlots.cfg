\* Two instances, updates to a good and to a broken release, kills and failures.
CONSTANTS
  p = p
  q = q
  Procs <- TwoInstances
  Releases = {1, 2, 3}
  Bundles <- Skipping
  Broken = {3}
  MaxAttempts = 2
  MaxApplies = 2
  MaxKills = 1
  MaxFaults = 2
SPECIFICATION FairSpec
INVARIANTS
  TypeOK
  SlotsRecoverable
  StateValid
  FallbackWorks
PROPERTIES
  FloorRises
  UpdateSettles
CHECK_DEADLOCK FALSE
