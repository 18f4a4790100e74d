CONSTANTS
  ObjectSizes <- LargeObjects
  MaxPages = 2
SPECIFICATION Spec
INVARIANT ObjectFits
CHECK_DEADLOCK FALSE
