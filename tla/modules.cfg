SPECIFICATION Spec
CONSTANTS
    Program = Program
    a = a
    b = b
    c = c
    Modules = {a, b, c}
    Path <- PathOf
    Sources <- GraphsAndNames
INVARIANTS TypeOK AppendedOnce OnlyChildFirst LinkNamesDistinct OwnTypesFirst AmbiguousIsRefused
PROPERTIES KeepsPromise
\* The compiler goes on to the analysis or stops: nothing is loaded any more.
CHECK_DEADLOCK FALSE
