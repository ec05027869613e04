SPECIFICATION Spec
CONSTANTS
  Payloads <- MCPayloads
  MaxFetch = 2
  MaxMessages = 3
  MaxCrashes = 1
INVARIANTS
  CommittedWasSettled
  TableComplete
PROPERTIES
  StopLosesNothing
  KeepsTopic
  DueAreSettled
