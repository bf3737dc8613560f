CONSTANTS
  cli = cli
  user = user
  app1 = app1
  app2 = app2
  None = None
  Empty = Empty
  Clients <- MCClients
  Started <- MCStarted
  Versions <- MCVersions
  PathOf <- MCPathOf
SPECIFICATION Spec
INVARIANTS
  TypeOK
  TurnedAwayByRestart
  CutOffByRestart
  DiscoversBest
PROPERTIES
  ClientsFinish
CHECK_DEADLOCK FALSE
