CONSTANTS
  Conns = {c1}
  MaxOut = 2
  Cap = 1
  QCap = 1
  HistWindow = 1
  MaxRequests = 2
SPECIFICATION Spec
INVARIANTS
  TypeOK
  OneForwarder
  InOrder
  Gapless
  ExitedIsFinal
CHECK_DEADLOCK FALSE
