CONSTANTS
  Sessions = {s1, s2}
  Clients = {c1, c2}
  Watcher = watcher
  NoTask = NoTask
  NoSession = NoSession
SPECIFICATION SpecReading
INVARIANTS
  TypeOK
  NoLostChild
PROPERTIES
  RequestsFinish
  ShutdownEnds
CHECK_DEADLOCK FALSE
