\* A pause of a queued job, no crash and no failure.
CONSTANTS
  f = f
  b = b
  c1 = c1
  c2 = c2
  NoJob = NoJob
  Jobs <- OnlyBatch
  Resumable <- OnlyBatch
  Priority <- SamePriority
  MaxQueue = 2
  MaxHistory = 1
  Clients <- OneClient
  MaxRequests = 2
  MaxCrashes = 0
  Attempts = {1, 2}
  Inodes = {1, 2, 3}
  MayFail = FALSE
SPECIFICATION Spec
PROPERTY
  PausedWaitsForResume
CHECK_DEADLOCK FALSE
