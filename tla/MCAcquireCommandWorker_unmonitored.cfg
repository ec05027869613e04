SPECIFICATION Spec
CONSTANTS
  Channels = {c1}
  Threads = {w1, w2}
  Handlers <- MCHandlers
  Providers = {"pva"}
  ConnectMayThrow = FALSE
  Signals = {}
  Topics = {t1, t2}
  MaxEvents = 0
  MaxCommands = 3
INVARIANTS
  MonitoredIffWanted
