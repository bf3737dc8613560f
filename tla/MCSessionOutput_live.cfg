CONSTANTS
  Conns = {c1}
  MaxOut = 1
  Cap = 1
  QCap = 1
  HistWindow = 1
  MaxRequests = 2
SPECIFICATION Spec
PROPERTIES
  KilledIsFreed
  ClosedEndsForwarders
CHECK_DEADLOCK FALSE
