SPECIFICATION FairSpec
CONSTANTS
  web = web
  btc = btc
  timer = timer
  n1 = n1
  onoff = onoff
  level = level
  Callers = {web}
  Btc = btc
  Timer = timer
  Addrs = {n1}
  NoAddr = NoAddr
  Ops = {onoff, level}
  NoOp = NoOp
  None = None
  MaxRetries = 1
  MaxSends = 3
  GapMayFail = TRUE
  GuardMayFail = FALSE
  StackMayLose = TRUE
  GuardMayBeatStack = FALSE
INVARIANTS OneDriver IdleMeansSettled
PROPERTIES ForgottenNotHeard ImplementsSerialDelivery EverySendSettles
CHECK_DEADLOCK FALSE
