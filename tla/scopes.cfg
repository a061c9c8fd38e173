SPECIFICATION Spec
CONSTANTS
  Names = {x, y}
  Hiding = FALSE
  MaxDeclarations = 4
  MaxDepth = 3
  MaxDefers = 1
  MaxFunctions = 2
INVARIANTS TypeOK InnermostIsFound NamesAgree
SYMMETRY NameSymmetry
CHECK_DEADLOCK FALSE
PROPERTY BlocksRunTheirDefers
