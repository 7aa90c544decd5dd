CONSTANTS
  c1 = c1
  c2 = c2
  Clients = {c1}
  QueueCap = 1
  IdleLimit = TRUE
SPECIFICATION StackFairSpec
CHECK_DEADLOCK FALSE
PROPERTY ConnectReturns
