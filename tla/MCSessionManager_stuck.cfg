CONSTANTS
  Sessions = {s1}
  Clients = {c1}
  Watcher = watcher
  NoTask = NoTask
  NoSession = NoSession
SPECIFICATION Spec
PROPERTIES
  ShutdownEnds
CHECK_DEADLOCK FALSE
