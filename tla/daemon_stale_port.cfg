CONSTANTS
  c1 = c1
  c2 = c2
  Clients = {c1, c2}
  MaxAttach = 2
  CanFail = FALSE
SPECIFICATION TableSpec
CHECK_DEADLOCK FALSE
INVARIANT PortOfSameTunnel
