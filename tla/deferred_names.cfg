SPECIFICATION Spec
CONSTANTS
  Names = {x, y}
  Hiding = FALSE
  MaxDeclarations = 4
  MaxDepth = 3
  MaxDefers = 1
  MaxFunctions = 1
INVARIANT DefersAgree
SYMMETRY NameSymmetry
CHECK_DEADLOCK FALSE
