SPECIFICATION Spec
CONSTANTS
  n1 = n1
  n2 = n2
  btc = btc
  tmr = tmr
  console = console
  Nodes = {n1, n2}
  Btc = btc
  Timer = tmr
  Console = console
  Versions = {0, 1, 2, 3, 4}
  MaxQueue = 2
  MaxChanges = 2
  MaxCrashes = 2
  MaxFailures = 1
INVARIANTS SavedUnlessMissed FeaturesKept TablesAgree
CHECK_DEADLOCK FALSE
