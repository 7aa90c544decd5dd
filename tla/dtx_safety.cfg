CONSTANTS
  c1 = c1
  c2 = c2
  Callers = {c1, c2}
  Channels = {0}
  QueueCap = 1
  FirstId = 1
  IdMod = 3
  MaxCalls = 3
  MaxDevMsgs = 2
  Eager = FALSE
SPECIFICATION Spec
CHECK_DEADLOCK FALSE
SYMMETRY CallerSymmetry
INVARIANTS TypeOK ReplyMatchesCall WaiterRegistered ReplyNeverBlocks DispatchInOrder RequestSeenTo
