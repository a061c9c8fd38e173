SPECIFICATION Spec
CONSTANTS
    Program = Program
    a = a
    b = b
    c = c
    Modules = {a, b, c}
    Path <- PathOf
    Sources <- Names
INVARIANTS OwnNamesFirst
\* The compiler goes on to the analysis or stops: nothing is loaded any more.
CHECK_DEADLOCK FALSE
