CONSTANTS
  c1 = c1
  c2 = c2
  Callers = {c1}
  Channels = {0, 1}
  QueueCap = 1
  FirstId = 1
  IdMod = 2
  MaxCalls = 1
  MaxDevMsgs = 2
  Eager = TRUE
SPECIFICATION FairSpec
CHECK_DEADLOCK FALSE
PROPERTIES CallReturns RegisterReturns
