SPECIFICATION FairSpec
CONSTANTS
  Nodes = {n1}
  Losses <- MCLosses
  Clients = {1, 2}
  Timers = {1, 2}
  MaxRequests = 1
  MaxEvents = 3
  MaxRestarts = 1
  MaxRounds = 4
INVARIANT RunsWhatIsStored ThreeRounds
PROPERTY EveryoneMovesOn
CHECK_DEADLOCK FALSE
