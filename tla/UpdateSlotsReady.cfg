\* One release after the other.
CONSTANTS
  p = p
  q = q
  Procs = {p}
  Releases = {1, 2, 3}
  Bundles <- Successive
  Broken = {}
  MaxAttempts = 1
  MaxApplies = 2
  MaxKills = 0
  MaxFaults = 0
SPECIFICATION Spec
INVARIANTS
  ReadyIsApplicable
CHECK_DEADLOCK FALSE
