SPECIFICATION FairSpec
CONSTANTS
  east = east
  west = west
  i = i
  j = j
  s1 = s1
  s2 = s2
  l1 = l1
  l2 = l2
  l3 = l3
  l4 = l4
  l5 = l5
  view = view
  again = again
  logout = logout
  change = change
  None = None
  Replicas <- MCReplicas
  Ips <- MCIps
  Setups <- MCSetups
  Logins <- MCLogins
  Views <- MCViews
  Logouts <- MCLogouts
  Changes <- MCChanges
  Cases <- MCCases
  MaxSetups = 1
  MaxLogins = 2
  Window = 2
  MaxKeys = 1
  Concurrency = 1
  MaxQueue = 1
  Idle = 2
  Absolute = 3
  Touch = 1
CHECK_DEADLOCK FALSE
INVARIANTS
  LimitsHold
  LoggedOutStaysOut
  SessionEnds
  GuessesBounded
PROPERTIES
  OneAdministrator
  EveryRequestIsAnswered
