\* Two clients, one crash, every failure: a file job and a batch job.
CONSTANTS
  f = f
  b = b
  c1 = c1
  c2 = c2
  NoJob = NoJob
  Jobs <- FileAndBatch
  Resumable <- OnlyBatch
  Priority <- SamePriority
  MaxQueue = 2
  MaxHistory = 1
  Clients <- TwoClients
  MaxRequests = 3
  MaxCrashes = 1
  Attempts = {1, 2, 3, 4}
  Inodes = {1, 2, 3, 4}
  MayFail = TRUE
SPECIFICATION Spec
INVARIANTS
  TypeOK
  FileRunsOnce
  CompletedIsPublished
  CompletedKeepsReceipt
  RunningIsAttended
  OneOwnChild
  StopIsVisible
PROPERTIES
  RestartReconciles
  ImplementsLifecycle
SYMMETRY AnyClient
CHECK_DEADLOCK FALSE
