CONSTANTS
  Classes <- MCClasses
  Bases <- MCBases
  Implemented <- MCImplemented
  Extended <- MCExtended
  Families <- MCFamilies
  MaxVariables = 3
SPECIFICATION Spec
INVARIANTS PointeesConform ReadonlyKept
CHECK_DEADLOCK FALSE
