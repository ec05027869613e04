SPECIFICATION Spec
CONSTANTS
  t1 = t1  t2 = t2  m1 = m1  m2 = m2  m3 = m3
  monitor = monitor  other = other
  Threads = {t1, t2}
  Messages = {m1, m2, m3}
  Types = {monitor, other}
  ReqType <- MCReqType
  MaxQueue = 2
  MayPoll = FALSE
  Null = Null
PROPERTIES
  CalledAfterSent
CHECK_DEADLOCK FALSE
