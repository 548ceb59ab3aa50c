SPECIFICATION FairSpec
CONSTANTS
  p = p
  q = q
  b1 = b1
  b2 = b2
  Sends = {1, 2, 3}
  Partitions <- MCPartitions
  Brokers <- MCBrokers
  Partitionings <- MCOnePartition
  Leader <- MCApart
  Idempotent = TRUE
  Concurrent = FALSE
  LosesAnswers = TRUE
  Retries = 9
  MaxFailures = 3
  MaxMoves = 2
INVARIANTS SendsAssumption BoundsAssumption TypeOK AckedWritten WrittenOnce
PROPERTY SendsSucceed
CHECK_DEADLOCK FALSE
