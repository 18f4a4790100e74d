CONSTANTS
  TMP_LENGTH = 6
  Frames = {f1, f2}
  None = None
  Self = Self
SPECIFICATION WindowSpec
INVARIANTS FirstFreeIsExact WalksSeeTheirTables
PROPERTY NeverTakenTwice
CHECK_DEADLOCK FALSE
