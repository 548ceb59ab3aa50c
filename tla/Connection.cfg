SPECIFICATION Spec
CONSTANTS
  Requests = {q1, q2, q3, q4}
  NoResponse = {q4}
  MaxInFlight = 2
  MaxSockets = 2
  MaxCloses = 1
  Overlap = TRUE
INVARIANTS
  RequestsAssumption
  InFlightAssumption
  BoundsAssumption
  OverlapAssumption
  TypeOK
  InFlightBound
  NothingForgotten
  InFlightWatched
PROPERTY
  SettledOnce
CHECK_DEADLOCK FALSE
