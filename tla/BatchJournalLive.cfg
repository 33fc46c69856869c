\* The same batch until it finishes.
CONSTANTS
  a = a
  b = b
  Items <- TwoItems
  Versions = {1}
  Recipes = {1}
  Variants = {1, 2}
  Runs <- SameRun
  MaxRecords = 20
  MaxEdits = 0
  MaxFaults = 1
  MaxCrashes = 1
SPECIFICATION FairSpec
PROPERTIES
  BatchFinishes
CHECK_DEADLOCK FALSE
