SPECIFICATION Spec
CONSTANTS
  t1 = t1  t2 = t2
  Threads = {t1, t2}
  Rows <- MCRows
  Stored <- MCStored
  MaxCalls = 3
INVARIANTS
  RowsDistinct
  IterationCovers
PROPERTIES
  CallsEnd
CHECK_DEADLOCK FALSE
