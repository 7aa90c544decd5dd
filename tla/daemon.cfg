CONSTANTS
  c1 = c1
  c2 = c2
  s1 = s1
  s2 = s2
  s3 = s3
  x1 = x1
  x2 = x2
  Clients = {c1, c2}
  MaxAttach = 2
  CanFail = TRUE
  Starters = {s1, s2, s3}
  Stoppers = {x1, x2}
SPECIFICATION Spec
CHECK_DEADLOCK FALSE
INVARIANTS TableSafe DetachCovers SocketFileSafe
PROPERTIES RequestEnds StaysReachable
