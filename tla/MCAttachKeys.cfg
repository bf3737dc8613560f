CONSTANTS
  Keys <- MCKeys
  PrefixKeys <- MCPrefixKeys
  InCap = 1
  FrameCap = 1
  Scripts <- MCScripts
  MaxAttach = 2
SPECIFICATION Spec
INVARIANTS
  TypeOK
  ForwardsWhatWasTyped
  LostOncePerThread
CHECK_DEADLOCK FALSE
