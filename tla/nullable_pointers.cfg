CONSTANTS
  Classes <- MCClasses
  Bases <- MCBases
  Implemented <- MCImplemented
  Extended <- MCExtended
  Families <- NullablePointers
  MaxVariables = 3
SPECIFICATION Spec
INVARIANT ReadonlyAlwaysKept
CHECK_DEADLOCK FALSE
