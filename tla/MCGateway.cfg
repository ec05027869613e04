SPECIFICATION SetupSpec
CONSTANTS
  c1 = c1  c2 = c2
  Callers = {c1, c2}
  MaxSignals = 1
  Inputs <- MCInputs
INVARIANTS
  HandlerHasNode
  SuccessIsClean
  LogTellsTheEnd
PROPERTIES
  RunEnds
CHECK_DEADLOCK FALSE
