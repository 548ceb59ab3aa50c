SPECIFICATION Spec
CONSTANTS
  Clients = {c1, c2}
  Tags = {t1}
  MaxEdits = 3
  MaxFailures = 1
INVARIANTS EditorAssumption TypeOK CacheExplained StaysShown
CHECK_DEADLOCK FALSE
