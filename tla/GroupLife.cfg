SPECIFICATION FairSpec
CONSTANTS
  Members = {m1, m2}
  Partitions = {p1, p2}
  Retries = 1
  MaxEvents = 2
  MaxBad = 1
  MaxFaults = 2
INVARIANT SkippedExplained
PROPERTY Stored
CHECK_DEADLOCK FALSE
