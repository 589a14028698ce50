SPECIFICATION FairSpec
CONSTANTS
  mqtt = mqtt
  btc = btc
  timer = timer
  Callers = {mqtt}
  Btc = btc
  Timer = timer
  Retries = 3
  ResetRetries = 2
  MaxMsgs = 3
  Overlap = FALSE
  StackMayRefuse = TRUE
  FailsafeMayBeatStack = FALSE
INVARIANTS DropOnlyAfterAllTries DanglesOnlyBehindReset
PROPERTIES EveryMessageEnds
CHECK_DEADLOCK FALSE
