SPECIFICATION Spec
CONSTANTS
  mqtt = mqtt
  btc = btc
  timer = timer
  Callers = {mqtt}
  Btc = btc
  Timer = timer
  Retries = 3
  ResetRetries = 2
  MaxMsgs = 4
  Overlap = FALSE
  StackMayRefuse = FALSE
  FailsafeMayBeatStack = FALSE
INVARIANTS PublishedReflectsAck
CHECK_DEADLOCK FALSE
