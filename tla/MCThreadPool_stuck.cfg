SPECIFICATION LoopSpec
CONSTANTS
  w1 = w1  w2 = w2  c1 = c1
  Workers = {w1}
  Callers = {c1}
  MaxTasks = 1
  MaxWaits = 0
  CanPause = FALSE
  Loops = {}
  CanThrow = FALSE
  CanReset = FALSE
PROPERTIES
  DestructorReturns
