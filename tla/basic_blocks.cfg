CONSTANTS
  Functions = 2
  MaxDepth = 3
  MaxText = 4
SPECIFICATION Spec
INVARIANTS TypeOK WellFormed PathsKept
CHECK_DEADLOCK FALSE
