SPECIFICATION LoopSpec
CONSTANTS
  w1 = w1  w2 = w2  c1 = c1
  Workers = {w1, w2}
  Callers = {c1}
  MaxTasks = 2
  MaxWaits = 1
  CanPause = TRUE
  Loops <- MCLoops
  CanThrow = TRUE
  CanReset = TRUE
INVARIANTS
  TotalCounts
  FrontExists
  WaitCoversTasks
  DestroyedComplete
  LoopRunsOnce
PROPERTIES
  StartsInOrder
  TasksRun
  WaitsReturn
  GetReturns
