SPECIFICATION FairSpec
CONSTANTS
  MaxRequests = 3
  MaxDrops = 3
  MaxQuits = 1
INVARIANTS NoDuplicates LoopsRun
PROPERTY NothingStuck
CHECK_DEADLOCK FALSE
