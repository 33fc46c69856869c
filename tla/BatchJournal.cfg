\* Two items, every kind of run, edits, failures and interruptions.
CONSTANTS
  a = a
  b = b
  Items <- TwoItems
  Versions = {1, 2}
  Recipes = {1, 2}
  Variants = {1}
  Runs <- MixedRuns
  MaxRecords = 3
  MaxEdits = 1
  MaxFaults = 1
  MaxCrashes = 1
SPECIFICATION Spec
INVARIANTS
  TypeOK
  JournalReadable
  PublishedIsRecorded
  CompletedWasPlaced
  DoneIsRecorded
  RoomToComplete
PROPERTIES
  SkipsAreExact
  NothingReplaced
SYMMETRY AnyItem
CHECK_DEADLOCK FALSE
