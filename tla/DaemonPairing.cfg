\* Two logins of either kind, over REST or MCP, in every order.
SPECIFICATION Spec
CONSTANTS
  l1 = l1
  l2 = l2
  c1 = c1
  NoLogin = none
  Logins <- TwoLogins
  Clients <- NoClients
  OutCap = 2
  MaxCodes = 1
  MaxDrops = 0
  MaxLogouts = 1
  MaxMessages = 0
  MaxRuns = 1
SYMMETRY SameLogins
INVARIANTS
  TypeOK
  OneLogin
  PairingReachesItsLogin
  CliTellsTheTruth
PROPERTIES
  ImplementsPairing
CHECK_DEADLOCK FALSE
