SPECIFICATION FairSpec
CONSTANTS
  Borrowers = {b1, b2}
  MaxSenders = 2
  MaxPromises = 5
  MaxConns = 3
  MaxFailures = 2
INVARIANTS PoolAssumption TypeOK ImportedExplained NothingLeftOpen CurrentIsOpen
PROPERTY Served
CHECK_DEADLOCK FALSE
