CONSTANTS
  oldApp = oldApp
  newApp = newApp
  Pids <- MCPids
  NoPid = NoPid
  NoGrace = NoGrace
  Forever = Forever
  MaxGrace = 2
  MaxRequests = 3
SPECIFICATION WatchSpec
INVARIANTS
  WatchTypeOK
PROPERTIES
  PauseHonoured
  NeverOrphanedForever
CHECK_DEADLOCK FALSE
