SPECIFICATION FairSpec
CONSTANTS
  MsgIds <- MCMsgIds
  ChunkSize = 3
  BatchSize = 1
  MaxAttempts = 2
  MaxStalls = 1
INVARIANTS
  NoHoles
  CheckpointCovered
  DoneNeverOverstates
  PromiseKept
PROPERTIES
  DuplicatesOnlyInTail
  CheckpointMonotone
  EveryMessageHandled
CHECK_DEADLOCK FALSE
