SPECIFICATION Spec
CONSTANTS
  Sessions = {"self", "s1", "s2", "s3"}
  Old = {"self", "s1"}
  Self = "self"
  Bytes = {"h", "a", "b", " "}
  Blank = " "
  Dirs <- MCDirs
  Home <- MCHome
  Budgets <- MCBudgets
  NoFile = NoFile
  PetNames = {"fox", "hen"}
  Names = {"fox", "hen", "2"}
  Targets = {"1", "2", "fox", "id", "prefix"}
  AsIndex <- MCAsIndex
  Matching <- MCMatching
  Nobody = Nobody
INVARIANTS
  TypeOK
  NotIntoItself
  TwinsOverlapped
  LastCwdKept
PROPERTIES
  SeenIsMeant
CHECK_DEADLOCK FALSE
