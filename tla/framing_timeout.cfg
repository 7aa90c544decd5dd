CONSTANTS
  Payloads <- MCPayloads
  AnswerLen = 2
  MaxPayload = 2
  RetryOnTimeout = TRUE
SPECIFICATION FramingSpec
CHECK_DEADLOCK FALSE
INVARIANT PacketsIntact
