SPECIFICATION LightSpec
CONSTANTS
  FullScale = 31
  Percent = 5
  Lights <- AllLights
  LightMax = 13
  LightMin = 3
  Levels = {3, 30}
  Lit = {0, 11}
  Retries = 2
  MaxCommands = 2
  MaxProbes = 1
  MaxLosses = 1
INVARIANT CommandArrives ShownIsTrue
CHECK_DEADLOCK FALSE
