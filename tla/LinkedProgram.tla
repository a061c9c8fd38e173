----------------------------- MODULE LinkedProgram -----------------------------
(***************************************************************************)
(* What whole-program linking of imports promises: every module the        *)
(* program reaches through imports contributes its declarations exactly    *)
(* once, nothing else does, and the program's own declarations come last.  *)
(***************************************************************************)
EXTENDS Integers, Sequences

CONSTANTS
    Program,         \* the compilation unit given to the compiler
    Unit             \* the program and all modules

VARIABLES
    imports,         \* unit -> sequence of the modules it imports
    linked,          \* units whose declarations are in the program, in order
    status           \* "loading", "linked" or "failed"

vars == <<imports, linked, status>>

Linked == {linked[i] : i \in DOMAIN linked}

Imported(u) == {imports[u][i] : i \in DOMAIN imports[u]}

Init ==
    /\ imports \in [Unit -> Seq(Unit \ {Program})]
    /\ linked = << >>
    /\ status = "loading"

\* A module that is not linked yet joins the program.
Link ==
    /\ status = "loading"
    /\ \E m \in Unit \ (Linked \cup {Program}) : linked' = Append(linked, m)
    /\ UNCHANGED <<imports, status>>

\* S holds the program and whatever its members import.
Closed(S) == Program \in S /\ \A u \in S : Imported(u) \subseteq S

\* The end: linked is the smallest such set, the modules that are reached.
Finish ==
    /\ status = "loading"
    /\ Closed(Linked \cup {Program})
    /\ \A S \in SUBSET Unit : Closed(S) => Linked \subseteq S
    /\ linked' = Append(linked, Program)
    /\ status' = "linked"
    /\ UNCHANGED imports

\* A missing or malformed file, a cycle or a clash of names: no program.
Fail ==
    /\ status = "loading"
    /\ status' = "failed"
    /\ UNCHANGED <<imports, linked>>

Next == Link \/ Finish \/ Fail

\* What is linked, whether or not loading ends.
Linking == Init /\ [][Next]_vars

\* Loading comes to its end.
Spec == Linking /\ WF_vars(Finish \/ Fail)
=============================================================================
