CONSTANTS
  Chunk = 2
  PipeCap = 2
  RxCap = 2
  TxCap = 1
  InBytes = 1
  OutBytes = 3
SPECIFICATION BridgeSpec
CHECK_DEADLOCK FALSE
INVARIANT OutboundInOrder
