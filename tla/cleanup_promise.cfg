SPECIFICATION FairSpec
CONSTANTS
    N = 2
    MaxDepth = 4
    MaxCount = 2
    Emitter = "namespace"
    Features <- Structured
INVARIANTS TypeOK HandlerIsInnermost NoWildJump NoOrphan NoneLost
PROPERTIES KeepsPromise CleanupEnds
\* The activation ends: a state after that has no successor.
CHECK_DEADLOCK FALSE
