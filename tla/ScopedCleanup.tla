---------------------------- MODULE ScopedCleanup ----------------------------
(***************************************************************************)
(* What the language promises about the cleanups (defer bodies and         *)
(* destructors) that one function activation registers: a cleanup belongs  *)
(* to the block in which it was registered, it runs exactly once, the last *)
(* one registered runs first, a block is left only when it has no cleanup  *)
(* to run, and the activation ends only when no cleanup is left.           *)
(***************************************************************************)
EXTENDS Integers, Sequences

CONSTANT Site        \* the defer statements and destroyable variables

VARIABLES
    todo,            \* registered cleanups, oldest first: [site, depth]
    depth,           \* number of blocks that are open
    active           \* the activation has not ended

vars == <<todo, depth, active>>

TypeOK ==
    /\ todo \in Seq([site : Site, depth : Nat])
    /\ depth \in Nat
    /\ active \in BOOLEAN

Init == todo = << >> /\ depth = 1 /\ active = TRUE

\* A block is entered.
Enter ==
    /\ active
    /\ depth' = depth + 1
    /\ UNCHANGED <<todo, active>>

\* A cleanup is registered in the innermost block.
Register ==
    /\ active
    /\ \E s \in Site : todo' = Append(todo, [site |-> s, depth |-> depth])
    /\ UNCHANGED <<depth, active>>

\* The most recent registration runs.
RunLast ==
    /\ active /\ todo # << >>
    /\ todo' = SubSeq(todo, 1, Len(todo) - 1)
    /\ UNCHANGED <<depth, active>>

\* Blocks are left, by falling off their end, by a jump or by an exception:
\* only when none of their cleanups is still to run.
Leave ==
    /\ active
    /\ depth' \in 0 .. depth - 1
    /\ \A k \in DOMAIN todo : todo[k].depth <= depth'
    /\ UNCHANGED <<todo, active>>

\* The activation ends, by a return or by an exception it does not catch.
End ==
    /\ active /\ todo = << >>
    /\ active' = FALSE
    /\ UNCHANGED todo
    /\ depth' \in 0 .. depth

Next == Enter \/ Register \/ RunLast \/ Leave \/ End

Spec == Init /\ [][Next]_vars
=============================================================================
