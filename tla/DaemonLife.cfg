\* One login with requests, messages, crashes, a shutdown.
SPECIFICATION FairSpec
CONSTANTS
  l1 = l1
  l2 = l2
  c1 = c1
  NoLogin = none
  Logins <- OneLoginOnly
  Clients <- OneClient
  OutCap = 2
  MaxCodes = 3
  MaxDrops = 1
  MaxLogouts = 1
  MaxMessages = 1
  MaxRuns = 1
INVARIANTS
  LostOnlyInWindow
  GracefulLeavesNoHandler
PROPERTIES
  LoginsEnd
  ShutdownEnds
CHECK_DEADLOCK FALSE
