SPECIFICATION Spec
CONSTANTS
  MsgIds <- MCMsgIds
  ChunkSize = 2
  MaxSafeInteger = 99
  Params <- MCBothBounds
INVARIANTS
  OffsetIsExclusive
CHECK_DEADLOCK FALSE
