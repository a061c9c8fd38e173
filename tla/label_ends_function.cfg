CONSTANTS
  Functions = 1
  MaxDepth = 1
  MaxText = 3
SPECIFICATION Spec
INVARIANT VerifierAccepts
CHECK_DEADLOCK FALSE
