SPECIFICATION Spec
CONSTANTS
  n1 = n1
  btc = btc
  http = http
  mqtt = mqtt
  timer = timer
  Addrs = {n1}
  Btc = btc
  Http = http
  Mqtt = mqtt
  Timer = timer
  Scenes <- MCScenes
  MaxSends = 1
  MaxCrashes = 1
INVARIANTS ShownAsKnown SavedUnlessPending
PROPERTIES RevivedOnlyAroundPurge
