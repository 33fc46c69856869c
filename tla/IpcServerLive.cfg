\* Two clients and a crash, one batch job: liveness.
CONSTANTS
  f = f
  b = b
  c1 = c1
  c2 = c2
  NoJob = NoJob
  Jobs <- OnlyBatch
  Resumable <- OnlyBatch
  Priority <- SamePriority
  MaxQueue = 2
  MaxHistory = 1
  Clients <- TwoClients
  MaxRequests = 3
  MaxCrashes = 1
  Attempts = {1, 2, 3, 4}
  Inodes = {1, 2, 3, 4}
  MayFail = FALSE
SPECIFICATION FairSpec
PROPERTIES
  StopsSettle
  ForcedShutdownEnds
CHECK_DEADLOCK FALSE
