SPECIFICATION Spec
CONSTANTS
  c1 = c1  t1 = t1  t2 = t2  h1 = h1  h2 = h2
  Channels = {c1}
  Threads = {t1, t2}
  Handlers = {h1, h2}
  Providers = {"pva"}
  ConnectMayThrow = TRUE
  Signals = {"Disconnect"}
  MaxEvents = 2
  MaxCalls = 2
INVARIANTS
  LiveHandlersMissNothing
  ChannelOrderKept
PROPERTIES
  CallsReturn
  DestructorReturns
