SPECIFICATION FairSpec
CONSTANTS
  None = None
  Nodes = {n1, n2}
  Partitions = {p1, p2}
  Workers = {w1, w2}
  MaxChanges = 3
  MaxErrors = 2
INVARIANTS OneBatchPerPartition QuietAfterLeaving
PROPERTIES FetchersFollowBrokers
CHECK_DEADLOCK FALSE
