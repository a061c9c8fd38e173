CONSTANT MaxDepth = 2
SPECIFICATION Spec
INVARIANT AcceptedIsSafe
