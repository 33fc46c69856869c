\* One good recording that nobody touches, and one kill.
CONSTANTS
  Paths = {1, 2}
  Contents = {1}
  Bad = {}
  MaxAttempts = 3
  MaxEdits = 0
  MaxFaults = 0
  MaxKills = 1
SPECIFICATION Spec
INVARIANTS
  InterruptedRetries
CHECK_DEADLOCK FALSE
