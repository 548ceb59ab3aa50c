SPECIFICATION FairSpec
CONSTANTS
  m1 = m1
  m2 = m2
  p1 = p1
  None = None
  Members <- MCMembers
  Partitions <- MCOnePartition
  Text <- MCShortText
  GroupSize = 1
  MaxFaults = 2
INVARIANT CommittedIsIndexed
PROPERTIES CommitsMoveBackByStrays EverythingIndexed
CHECK_DEADLOCK FALSE
