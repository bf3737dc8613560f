CONSTANTS
  Conns = {c1}
  MaxOut = 1
  Cap = 1
  QCap = 1
  HistWindow = 1
  MaxRequests = 1
SPECIFICATION SpecReading
PROPERTIES
  ExitIsTold
CHECK_DEADLOCK FALSE
