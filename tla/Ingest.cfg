SPECIFICATION FairSpec
CONSTANTS
  m1 = m1
  m2 = m2
  p1 = p1
  p2 = p2
  None = None
  Members <- MCMembers
  Partitions <- MCPartitions
  Log <- MCLog
  MaxFaults = 2
INVARIANTS
  CommittedIsStored
  References
PROPERTIES
  NothingRegresses
  ImplementsSink
  EverythingStored
CHECK_DEADLOCK FALSE
