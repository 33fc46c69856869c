\* A crash with a child at work and a second job in the queue.
CONSTANTS
  f = f
  b = b
  c1 = c1
  c2 = c2
  NoJob = NoJob
  Jobs <- FileAndBatch
  Resumable <- OnlyBatch
  Priority <- SamePriority
  MaxQueue = 2
  MaxHistory = 1
  Clients <- OneClient
  MaxRequests = 2
  MaxCrashes = 1
  Attempts = {1, 2, 3}
  Inodes = {1, 2, 3, 4}
  MayFail = FALSE
SPECIFICATION Spec
INVARIANT
  OneJobAtATime
CHECK_DEADLOCK FALSE
