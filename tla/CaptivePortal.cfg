SPECIFICATION FairSpec
CONSTANTS
  Fds = {1, 2, 3}
  Tasks = {t1}
  MaxClients = 2
  MaxLines = 1
  MaxHistory = 2
  MaxOpen = 3
  MaxLogged = 1
  MaxHandlers = 30
  PageFiles <- Web
  Scenes <- MCScenes
INVARIANT ServesItsMode ApiStaysUp DnsAtRest
PROPERTY ListFollowsPages ScanEnds
CHECK_DEADLOCK FALSE
