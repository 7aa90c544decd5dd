CONSTANTS
  c1 = c1
  c2 = c2
  Clients = {c1, c2}
  QueueCap = 1
  IdleLimit = FALSE
  Chunk = 1
  PipeCap = 2
  RxCap = 2
  TxCap = 2
  InBytes = 4
  OutBytes = 3
  Payloads <- MCPayloads
  AnswerLen = 2
  MaxPayload = 3
  RetryOnTimeout = FALSE
  PxBytes = 3
  PxCap = 2
SPECIFICATION Spec
CHECK_DEADLOCK FALSE
INVARIANTS ConnectSafe BridgeSafe FramingSafe EndAfterAll
PROPERTIES ConnectReturns BridgePipes BridgeGoesOn ProxyPipes ProxyReleases
