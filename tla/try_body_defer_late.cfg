SPECIFICATION Spec
CONSTANTS
    N = 1
    MaxDepth = 3
    MaxCount = 2
    Emitter = "function"
    Features <- UnwindIntoTry
INVARIANTS NoOrphan
\* The activation ends: a state after that has no successor.
CHECK_DEADLOCK FALSE
