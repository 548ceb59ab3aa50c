SPECIFICATION Spec
CONSTANTS
  Processes = {p1, p2}
  Servers = {s1, s2}
  Default = s1
  None = None
  MaxKeys = 3
  MaxStarts = 4
INVARIANTS
  SessionAssumption
  TypeOK
  BrokenExplained
  StoredTogether
CHECK_DEADLOCK FALSE
