CONSTANTS
  MaxCalls = 3
  MaxEmit = 2
  TagMax = 2
  Devices = 2
  Pairers = {p1}
  Supervised = {p2}
  Unpairers = {u1}
  Sessions = {s1}
  FirstHost = h0
  NoHost = none
  MaxOps = 2
SPECIFICATION Spec
CHECK_DEADLOCK FALSE
INVARIANTS CallsSafe NothingLostInside RecordTrusted SessionSafe
PROPERTIES CallReturns DropReturns
