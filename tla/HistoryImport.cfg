SPECIFICATION FairSpec
CONSTANTS
  Jobs = {j1, j2, j3}
  Threshold = 2
  MaxAccepts = 5
  MaxCrashes = 1
INVARIANTS
  Conservation
  FlagDiscipline
  ArrivalOrder
PROPERTIES
  MemoryDrains
  ImplementsRelay
CHECK_DEADLOCK FALSE
