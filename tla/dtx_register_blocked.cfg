CONSTANTS
  c1 = c1
  c2 = c2
  Callers = {c1}
  Channels = {0, 1}
  QueueCap = 1
  FirstId = 1
  IdMod = 2
  MaxCalls = 0
  MaxDevMsgs = 2
  Eager = FALSE
SPECIFICATION FairSpec
CHECK_DEADLOCK FALSE
PROPERTY RegisterReturns
