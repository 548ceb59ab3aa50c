SPECIFICATION Spec
CONSTANTS
  MsgIds <- MCMsgIds
  ChunkSize = 2
  MaxSafeInteger = 99
  Params <- MCParams
INVARIANTS
  InOrder
  WithinBounds
  NothingSkipped
PROPERTY
  ImplementsChunkIter
CHECK_DEADLOCK FALSE
