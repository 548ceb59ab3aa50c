SPECIFICATION Spec
CONSTANTS
  Calls = {k1, k2, k3, k4}
INVARIANTS TypeOK DriftExplained
PROPERTY AloneTakesEffect
CHECK_DEADLOCK FALSE
