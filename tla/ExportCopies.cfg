SPECIFICATION CopiesSpec
CONSTANTS
  Workers = {w1, w2}
  Requests = {"r12", "r123"}
  Dialogs <- MCDialogs
  Includes <- MCIncludes
  Own <- MCOwn
  Size = 5
  BatchSize = 1
  Attempts = 2
  None = None
  MaxStalls = 1
  MaxFaults = 2
INVARIANTS FlagExplained TwiceExplained
CHECK_DEADLOCK FALSE
