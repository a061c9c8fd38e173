CONSTANT MaxDepth = 3
SPECIFICATION Spec
INVARIANTS TypeOK TrackedInScope StructuredIsSafe NoFalseAlarm
