SPECIFICATION WifiFairSpec
CONSTANTS
  Ssids = {4, 32, 33}
  Passwords = {8, 64}
  Network <- Home
  MaxAttempts = 2
  MaxEvents = 2
  MaxOutages = 2
  MaxChanges = 2
  MaxFaults = 1
INVARIANTS StateSettles SavedLoads
PROPERTIES FullAttempts NeverStranded
CHECK_DEADLOCK FALSE
