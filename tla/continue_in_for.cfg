CONSTANTS
  Functions = 1
  MaxDepth = 2
  MaxText = 3
SPECIFICATION Spec
INVARIANT UpdateAfterIteration
CHECK_DEADLOCK FALSE
