SPECIFICATION Spec
CONSTANTS
  Channels = {c1, c2}
  Threads = {w1, w2}
  Handlers <- MCHandlers
  Providers = {"pva"}
  ConnectMayThrow = TRUE
  Signals = {"Disconnect"}
  Topics = {t1}
  MaxEvents = 1
  MaxCommands = 3
INVARIANTS
  ScanMeetsStartedChannels
  LookupNeverInserts
  PublishedWasAskedFor
PROPERTIES
  WalkSeesStableTopics
SYMMETRY MCSymmetry
