SPECIFICATION FairSpec
CONSTANTS
  None = None
  Nodes = {n1, n2}
  Partitions = {p1}
  End = 2
  Concurrency = 1
  SeekOffsets = {0, 1, 3}
  WholeTopic = TRUE
  MaxEvents = 3
PROPERTIES NothingSkipped ReadToTheEnd
CHECK_DEADLOCK FALSE
