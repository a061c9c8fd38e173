SPECIFICATION Spec
CONSTANTS
    N = 1
    MaxDepth = 3
    MaxCount = 2
    Emitter = "member"
    Features <- AnyUnwinding
INVARIANTS CountsAreExact FrameLosesNone
\* The activation ends: a state after that has no successor.
CHECK_DEADLOCK FALSE
