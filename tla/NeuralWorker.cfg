\* Chunks of two frames, latency of two chunks, a slow and faulty worker.
CONSTANTS
  ChunkFrames = 2
  QueueBlocks = 2
  Spare = 3
  LookAhead = 3
  MaxFrames = 12
  MaxResets = 1
  MaxFaults = 1
SPECIFICATION FairSpec
INVARIANTS
  TypeOK
  WetIsDry
  ModelHearsOneStream
  PoolConserved
PROPERTIES
  DropsOnlyLate
  CallbackNeverWaits
  StopEnds
CHECK_DEADLOCK FALSE
