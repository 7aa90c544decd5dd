CONSTANTS
  Classes = 2
  DriverCode = 2
  RootRoom = 2
  MaxRequests = 2
  MaxEvents = 1
  MaxRsd = 2
  Pairers = {p1, p2}
  MaxRuns = 2
  ShimReplies = 5
SPECIFICATION Spec
CHECK_DEADLOCK FALSE
INVARIANTS RunSafe MessagesSafe PairingSafe WaysSafe
PROPERTIES RsdKnows OpenEnds
