SPECIFICATION Spec
CONSTANTS
  Payloads <- MCPayloads
  Window = 4
  Patterns <- MCPatterns
  Limits = {0, 1, 2}
  MaxAppends <- MCMaxAppends
  Unknown = Unknown
  None = None
INVARIANTS
  TypeOK
  ReadsJoin
  ForgettingIsSafe
  SearchAgrees
PROPERTIES
  ReachesStart
CHECK_DEADLOCK FALSE
