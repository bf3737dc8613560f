CONSTANTS
  Lengths = {1, 3}
  Prefix = 1
  Overhead = 2
  MaxSize = 14
  MaxAppends = 7
  OutOfStep = OutOfStep
SPECIFICATION Spec
INVARIANTS
  TypeOK
  Whole
PROPERTIES
  TailLogSpec
CHECK_DEADLOCK FALSE
