SPECIFICATION Spec
CONSTANTS
  Names = {x, y}
  Hiding = TRUE
  MaxDeclarations = 4
  MaxDepth = 3
  MaxDefers = 1
  MaxFunctions = 1
INVARIANT InnermostIsFound
SYMMETRY NameSymmetry
CHECK_DEADLOCK FALSE
