SPECIFICATION SenderSpec
CONSTANTS
  MaxRequests = 2
  MaxDrops = 1
  MaxQuits = 0
INVARIANT Retried
CHECK_DEADLOCK FALSE
