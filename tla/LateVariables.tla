---------------------------- MODULE LateVariables ----------------------------
(***************************************************************************)
(* Definite initialisation of a late variable or an out parameter x        *)
(* (SemanticAnalyzer: lateVariables_, currentOutParams_ and the statement  *)
(* handlers that snapshot, restore and merge them).                        *)
(*                                                                         *)
(* The functions of a program are written one statement at a time.  The    *)
(* analyzer follows with its flag for x, `late`, and next to it runs what  *)
(* it approximates: `paths`, the executions that reach the same place, each*)
(* reduced to whether it has initialised x.  A loop body is entered once:  *)
(* an initialised variable never becomes uninitialised, so a second turn   *)
(* shows no new reads.  Where x is not in scope its name stands for some   *)
(* other variable, an initialised one.  Not here: break, continue, goto, a *)
(* defer body that assigns, a declaration of x where another x is tracked, *)
(* a loop body or arm that is not a block.                                 *)
(***************************************************************************)
EXTENDS Naturals, Sequences

CONSTANT MaxDepth \* how deep statements nest, the function's body included

ASSUME DepthAssumption == MaxDepth \in Nat \ {0}

VARIABLES
  hasOut,   \* the function under analysis has an out parameter named x
  outNames, \* x is in currentOutParams_
  late,     \* lateVariables_[x]
  open,     \* the statements the analyzer is inside of
  paths,    \* what the executions that reach this place have made of x
  rejected, \* the errors the last step reported
  faulty,   \* the faults some execution meets in the last step
  loose,    \* x was first assigned where the analyzer joins paths too kindly
  unseen    \* a path ended that statementDefinitelyReturns lets go on, x was
            \* initialised by a call whose out arguments are not read, or its
            \* scope ended with a for and left it tracked as unset

vars == <<hasOut, outNames, late, open, paths, rejected, faulty, loose,
          unseen>>

Flags == {"absent", "unset", "set"}
Paths == BOOLEAN \* TRUE: the path has initialised x
Kinds == {"function", "block", "then", "else", "do", "while", "for",
          "try", "catch", "arm"}
Updates == {"none", "reads", "writes"} \* what the update of a for does to x

(* One activation of a statement handler: the snapshot it took, what its   *)
(* finished parts left, and the paths that will join at its end.           *)
Frames ==
  [kind: Kinds,
   before: Flags,           \* snapshotLateVariables() at the start
   returns: BOOLEAN,        \* statementDefinitelyReturns of the part so far
   declares: BOOLEAN,       \* x is declared in this part, or by its init
   leaks: BOOLEAN,          \* ... by the init of a for that has ended in it
   update: Updates,
   first: Flags,            \* thenState or tryState
   firstReturns: BOOLEAN,   \* thenReturns or tryReturns
   merged: Flags \cup {"none"}, \* mergedCatchState, none before the first
   entry: SUBSET Paths,     \* the paths at the start
   ended: SUBSET Paths,     \* the paths that left a finished part
   escaped: SUBSET Paths]   \* the paths that an exception took out of a try;
                           \* its first statement may already throw

FrameFor(k) ==
  [kind |-> k, before |-> late, returns |-> FALSE, declares |-> FALSE,
   leaks |-> FALSE, update |-> "none", first |-> late,
   firstReturns |-> FALSE, merged |-> "none", entry |-> paths,
   ended |-> {}, escaped |-> IF k = "try" THEN paths ELSE {}]

Top == open[Len(open)]
Inside(k) == open # <<>> /\ Top.kind = k
Writing == open # <<>>

(* x is declared in the i-th statement of the stack or inside of it. *)
DeclaredFrom(stack, i) == \E j \in DOMAIN stack : j >= i /\ stack[j].declares

----------------------------------------------------------------------------
(* How the analyzer joins flags *)

Both(a, b)   == IF a = b THEN a ELSE "unset"
Either(a, b) == IF a = b THEN a ELSE "set"

(* Mutant of Leave: the snapshot is not restored. *)
LeaveForgets(before, after) == after

(* The end of a compound statement: the flags of outer names survive. *)
Leave(before, after) == IF before = "absent" THEN "absent" ELSE after

(* Mutant of JoinIf: one branch that assigns is enough. *)
JoinIfKindly(t, tReturns, e, eReturns) ==
  IF tReturns THEN e ELSE IF eReturns THEN t ELSE Either(t, e)

JoinIf(t, tReturns, e, eReturns) ==
  CASE tReturns /\ ~eReturns -> e
    [] ~tReturns /\ eReturns -> t
    [] OTHER                 -> Both(t, e)

(* Mutant of JoinTry: catches that all return are taken for no catches. *)
JoinTryPlainly(before, t, tReturns, m) ==
  CASE tReturns /\ m # "none"  -> m
    [] ~tReturns /\ m # "none" -> Either(t, m)
    [] OTHER                   -> before

(* Mutant of JoinTry: the merged state of no catch is used. *)
JoinTryUnmerged(before, t, tReturns, m) ==
  IF tReturns THEN m ELSE IF m # "none" THEN Either(t, m) ELSE t

JoinTry(before, t, tReturns, m) ==
  CASE tReturns /\ m # "none"  -> m
    [] ~tReturns /\ m # "none" -> Either(t, m)
    [] ~tReturns /\ m = "none" -> t
    [] OTHER                   -> before

MergeCatch(m, returns, state) ==
  IF returns THEN m ELSE IF m = "none" THEN state ELSE Both(m, state)

----------------------------------------------------------------------------
(* Executions *)

Initialised(ps)   == {TRUE : p \in ps}
Uninitialised(ps) == {FALSE : p \in ps}
MayBeUnset(ps)    == FALSE \in ps

(* Paths that leave statements, one of which may have declared x. *)
LeaveScope(declared, ps) == IF declared THEN Initialised(ps) ELSE ps

(* Where an exception goes: the innermost try whose block is running. *)
Escape(stack, ps) ==
  LET tries == {i \in DOMAIN stack : stack[i].kind = "try"}
  IN  [i \in DOMAIN stack |->
         IF i \in tries /\ \A j \in tries : j <= i
         THEN [stack[i] EXCEPT !.escaped =
                                 @ \cup LeaveScope(DeclaredFrom(stack, i), ps)]
         ELSE stack[i]]

Push(k) == open' = Append(open, FrameFor(k))

(* The handler of the innermost statement returns to the one around it. *)
Pop(stack, returns, leaks) ==
  LET rest == SubSeq(stack, 1, Len(stack) - 1)
  IN  [rest EXCEPT ![Len(rest)].returns = @ \/ returns,
                   ![Len(rest)].leaks = @ \/ leaks]

(* The part of the innermost statement ends and its next part begins. *)
NextPart(frame, kind) ==
  open' = [open EXCEPT ![Len(open)] =
             [frame EXCEPT !.kind = kind, !.returns = FALSE,
                           !.declares = FALSE, !.leaks = FALSE]]

PartEnd     == Leave(Top.before, late)
PathsAtEnd  == LeaveScope(Top.declares, paths)

----------------------------------------------------------------------------
(* Checks *)

Report(flag) == rejected' = IF flag = "unset" THEN {"read"} ELSE {}

(* A use of x by the executions ps, checked against the flag. *)
Use(flag, ps) ==
  /\ Report(flag)
  /\ faulty' = IF MayBeUnset(ps) THEN {"read"} ELSE {}

(* The check of currentOutParams_ before a return and at the end of a      *)
(* function; the promise is only broken if x is a parameter of this one.   *)
CheckOut(flag, ps) ==
  /\ rejected' = IF outNames /\ flag = "unset" THEN {"out"} ELSE {}
  /\ faulty'   = IF hasOut /\ MayBeUnset(ps) THEN {"out"} ELSE {}

NoCheck == rejected' = {} /\ faulty' = {}

(* A condition mentions x or does not. *)
Condition(flag, ps) == (flag # "absent" /\ Use(flag, ps)) \/ NoCheck

Program == <<hasOut, outNames>>

----------------------------------------------------------------------------
(* The first pass has left the out parameters of all functions in          *)
(* currentOutParams_.                                                      *)
Init ==
  /\ hasOut = FALSE /\ outNames \in BOOLEAN
  /\ late = "absent" /\ open = <<>> /\ paths = {}
  /\ rejected = {} /\ faulty = {} /\ loose = FALSE /\ unseen = FALSE

(* analyzeFunctionDecl: the parameters, then the body. *)
BeginFunction ==
  /\ ~Writing
  /\ hasOut' \in BOOLEAN
  /\ outNames' = (outNames \/ hasOut')
  /\ late' = IF hasOut' THEN "unset" ELSE "absent"
  /\ paths' = {~hasOut'}
  /\ open' = <<[FrameFor("function") EXCEPT !.before = late',
                                            !.first = late',
                                            !.entry = paths',
                                            !.declares = hasOut']>>
  /\ NoCheck
  /\ loose' = FALSE /\ unseen' = FALSE

(* previousOutParams was saved after this function's parameters were added *)
(* to currentOutParams_, so outNames stays.                                *)
EndFunction ==
  /\ Inside("function")
  /\ CheckOut(PartEnd, paths)
  /\ late' = IF outNames THEN "absent" ELSE PartEnd
  /\ open' = <<>> /\ paths' = {}
  /\ UNCHANGED <<Program, loose, unseen>>

----------------------------------------------------------------------------
(* Simple statements *)

DeclareLate ==
  /\ Writing /\ late = "absent"
  /\ late' = "unset"
  /\ paths' = Uninitialised(paths)
  /\ open' = [open EXCEPT ![Len(open)].declares = TRUE]
  /\ NoCheck
  /\ UNCHANGED <<Program, loose, unseen>>

(* x = e, or x as the argument of an out parameter: evaluating it may throw *)
(* before x is written.                                                     *)
Assign ==
  /\ Writing /\ late # "absent"
  /\ late' = "set"
  /\ open' = Escape(open, paths)
  /\ paths' = Initialised(paths)
  /\ NoCheck
  /\ UNCHANGED <<Program, loose, unseen>>

(* x in an expression, or &x in the call of a function, for a parameter    *)
(* that is not out.                                                        *)
Read ==
  /\ Writing /\ late # "absent"
  /\ Use(late, paths)
  /\ UNCHANGED <<Program, late, open, paths, loose, unseen>>

(* &x in the call of a method or constructor or in a struct initialiser,   *)
(* for a parameter that is not out: these calls return before              *)
(* applyOutArguments, and nothing looks at x.                              *)
HandOver ==
  /\ Writing /\ late # "absent"
  /\ rejected' = {}
  /\ faulty' = IF MayBeUnset(paths) THEN {"handed"} ELSE {}
  /\ UNCHANGED <<Program, late, open, paths, loose, unseen>>

(* The same for an out parameter: x is not marked initialised. *)
FillByMethod ==
  /\ Writing /\ late # "absent"
  /\ open' = Escape(open, paths)
  /\ paths' = Initialised(paths)
  /\ unseen' = TRUE
  /\ NoCheck
  /\ UNCHANGED <<Program, late, loose>>

Return ==
  /\ Writing
  /\ CheckOut(late, paths)
  /\ open' = [open EXCEPT ![Len(open)].returns = TRUE]
  /\ paths' = {}
  /\ UNCHANGED <<Program, late, loose, unseen>>

Throw ==
  /\ Writing
  /\ open' = Escape(open, paths)
  /\ paths' = {}
  /\ unseen' = TRUE
  /\ NoCheck
  /\ UNCHANGED <<Program, late, loose>>

----------------------------------------------------------------------------
(* Statements with parts *)

Begin(kind) ==
  /\ Writing /\ Len(open) < MaxDepth
  /\ Push(kind)
  /\ NoCheck
  /\ UNCHANGED <<Program, late, paths, loose, unseen>>

BeginBlock == Begin("block")
BeginIf    == Begin("then")
BeginDo    == Begin("do")
BeginWhile == Begin("while")
BeginTry   == Begin("try")
BeginMatch == Begin("arm")

(* The init, which may declare x, the condition and the update of a for    *)
(* are analyzed before its body, the update with the flag of there.        *)
BeginFor ==
  \E declares \in BOOLEAN, update \in Updates :
    LET flag  == IF declares THEN "unset" ELSE late
        entry == IF declares THEN Uninitialised(paths) ELSE paths
    IN  /\ Writing /\ Len(open) < MaxDepth
        /\ declares => late = "absent"
        /\ update # "none" => flag # "absent"
        /\ \/ flag # "absent" /\ Use(flag, entry) \* the condition mentions x
           \/ update = "reads" /\ Report(flag) /\ faulty' = {}
           \/ update # "reads" /\ NoCheck
        /\ late' = IF update = "writes" THEN "set" ELSE flag
        /\ loose' = (loose \/ late' # flag)
        /\ paths' = entry
        /\ open' = Append(open, [FrameFor("for") EXCEPT
                                   !.before = late', !.first = late',
                                   !.entry = entry, !.declares = declares,
                                   !.update = update])
        /\ UNCHANGED <<Program, unseen>>

EndBlock ==
  /\ Inside("block")
  /\ late' = PartEnd
  /\ paths' = PathsAtEnd
  /\ open' = Pop(open, Top.returns, FALSE)
  /\ NoCheck
  /\ UNCHANGED <<Program, loose, unseen>>

BeginElse ==
  /\ Inside("then")
  /\ late' = Top.before
  /\ paths' = Top.entry
  /\ NextPart([Top EXCEPT !.first = PartEnd, !.firstReturns = Top.returns,
                          !.ended = PathsAtEnd], "else")
  /\ NoCheck
  /\ UNCHANGED <<Program, loose, unseen>>

EndIfWithoutElse ==
  /\ Inside("then")
  /\ late' = JoinIf(PartEnd, Top.returns, Top.before, FALSE)
  /\ paths' = PathsAtEnd \cup Top.entry
  /\ open' = Pop(open, FALSE, FALSE)
  /\ NoCheck
  /\ UNCHANGED <<Program, loose, unseen>>

EndIf ==
  /\ Inside("else")
  /\ late' = JoinIf(Top.first, Top.firstReturns, PartEnd, Top.returns)
  /\ paths' = Top.ended \cup PathsAtEnd
  /\ open' = Pop(open, Top.firstReturns /\ Top.returns, FALSE)
  /\ NoCheck
  /\ UNCHANGED <<Program, loose, unseen>>

EndDo ==
  /\ Inside("do")
  /\ Condition(PartEnd, PathsAtEnd)
  /\ late' = PartEnd
  /\ unseen' = (unseen \/ Top.returns)
  /\ paths' = PathsAtEnd
  /\ open' = Pop(open, FALSE, FALSE)
  /\ UNCHANGED <<Program, loose>>

(* The condition runs before the body and is analyzed after it. *)
EndWhile ==
  /\ Inside("while")
  /\ Condition(PartEnd, Top.entry \cup PathsAtEnd)
  /\ late' = PartEnd
  /\ loose' = (loose \/ PartEnd # Top.before)
  /\ unseen' = (unseen \/ Top.returns)
  /\ paths' = Top.entry \cup PathsAtEnd
  /\ open' = Pop(open, FALSE, FALSE)
  /\ UNCHANGED Program

(* The update runs behind the body.  analyzeForStmt takes no snapshot, so  *)
(* an x of the init stays tracked until the block around ends.             *)
EndFor ==
  /\ Inside("for")
  /\ IF Top.update = "reads" THEN Use(Top.before, paths) ELSE NoCheck
  /\ late' = PartEnd
  /\ loose' = (loose \/ (~Top.declares /\ PartEnd # Top.before))
  /\ unseen' = (unseen \/ Top.returns \/ (Top.declares /\ PartEnd = "unset"))
  /\ paths' = LeaveScope(Top.declares,
                         Top.entry \cup IF Top.update = "writes"
                                        THEN Initialised(paths) ELSE paths)
  /\ open' = Pop(open, FALSE, Top.declares /\ PartEnd # "absent")
  /\ UNCHANGED Program

(* analyzeMatchStmt goes from arm to arm without restoring anything. *)
BeginArm ==
  /\ Inside("arm")
  /\ late' = PartEnd
  /\ loose' = (loose \/ PartEnd # Top.before)
  /\ unseen' = (unseen \/ Top.returns)
  /\ paths' = Top.entry
  /\ NextPart([Top EXCEPT !.ended = @ \cup PathsAtEnd], "arm")
  /\ NoCheck
  /\ UNCHANGED Program

EndMatch ==
  /\ Inside("arm")
  /\ \E others \in {{}, Top.entry} :
       paths' = Top.ended \cup PathsAtEnd \cup others
  /\ late' = PartEnd
  /\ loose' = (loose \/ PartEnd # Top.before)
  /\ unseen' = (unseen \/ Top.returns)
  /\ open' = Pop(open, FALSE, FALSE)
  /\ NoCheck
  /\ UNCHANGED Program

----------------------------------------------------------------------------
(* try *)

(* What the catches of this try do not match leaves for the next one out. *)
BeginCatch ==
  /\ Inside("try")
  /\ late' = Top.before
  /\ paths' = Top.escaped
  /\ \E unmatched \in {{}, Top.escaped} :
       open' = Append(Escape(SubSeq(open, 1, Len(open) - 1), unmatched),
                      [Top EXCEPT !.kind = "catch", !.returns = FALSE,
                                  !.declares = FALSE, !.leaks = FALSE,
                                  !.first = PartEnd,
                                  !.firstReturns = Top.returns,
                                  !.ended = PathsAtEnd])
  /\ NoCheck
  /\ UNCHANGED <<Program, loose, unseen>>

NextCatch ==
  /\ Inside("catch")
  /\ late' = Top.before
  /\ paths' = Top.escaped
  /\ NextPart([Top EXCEPT !.merged = MergeCatch(@, Top.returns, PartEnd),
                          !.ended = @ \cup PathsAtEnd], "catch")
  /\ NoCheck
  /\ UNCHANGED <<Program, loose, unseen>>

EndTry ==
  LET m == MergeCatch(Top.merged, Top.returns, PartEnd)
  IN  /\ Inside("catch")
      /\ late' = JoinTry(Top.before, Top.first, Top.firstReturns, m)
      /\ loose' = (loose \/ (~Top.firstReturns /\ m # "none"
                               /\ m # Top.first))
      /\ paths' = Top.ended \cup PathsAtEnd
      /\ open' = Pop(open, Top.firstReturns /\ m = "none", FALSE)
      /\ NoCheck
      /\ UNCHANGED <<Program, unseen>>

----------------------------------------------------------------------------
Next ==
  \/ BeginFunction \/ EndFunction
  \/ DeclareLate \/ Assign \/ Read \/ HandOver \/ FillByMethod
  \/ Return \/ Throw
  \/ BeginBlock \/ EndBlock
  \/ BeginIf \/ BeginElse \/ EndIfWithoutElse \/ EndIf
  \/ BeginDo \/ EndDo \/ BeginWhile \/ EndWhile \/ BeginFor \/ EndFor
  \/ BeginMatch \/ BeginArm \/ EndMatch
  \/ BeginTry \/ BeginCatch \/ NextCatch \/ EndTry

Spec == Init /\ [][Next]_vars

----------------------------------------------------------------------------
(* Every variable has its type, and no two functions are open at once. *)
TypeOK ==
  /\ hasOut \in BOOLEAN /\ outNames \in BOOLEAN
  /\ loose \in BOOLEAN /\ unseen \in BOOLEAN
  /\ late \in Flags
  /\ open \in Seq(Frames) /\ Len(open) <= MaxDepth
  /\ paths \in SUBSET Paths
  /\ rejected \in SUBSET {"read", "out"}
  /\ faulty \in SUBSET {"read", "out", "handed"}
  /\ \A i \in DOMAIN open : (open[i].kind = "function") = (i = 1)

(* The analyzer tracks x exactly where x is in scope, and behind a for     *)
(* whose init declared it until the block around ends: restoring snapshots *)
(* at the end of blocks, branches, loops, arms, catches and functions      *)
(* neither loses an outer x nor keeps any other inner one.                 *)
TrackedInScope ==
  (late # "absent") <=>
     \E i \in DOMAIN open : open[i].declares \/ open[i].leaks

(* A function that is accepted never reads x uninitialised and never       *)
(* returns with its out parameter unwritten, unless x was first assigned   *)
(* in a loop body, a for update, a match arm, or only one of a try and the *)
(* catches that fall through: if, else, do, try and return join right.     *)
(* References to x that methods and constructors get are not checked.      *)
StructuredIsSafe == ~loose => faulty \ {"handed"} \subseteq rejected

(* Where a use of x would be rejected, some execution arrives with x       *)
(* uninitialised: no join is too strict, until a throw statement, or a loop*)
(* body or match arm that returns, ends paths that                         *)
(* statementDefinitelyReturns lets go on, the out argument of a method     *)
(* initialises x, or x outlives the for whose init declared it.  The update*)
(* of a for is not used where it is checked.                               *)
NoFalseAlarm ==
  ~unseen /\ late = "unset" /\ paths # {} => FALSE \in paths

(* Every path to a use has initialised x (late设计.md:80); an assignment in *)
(* a loop proves nothing behind it (choose/012:175).  The code does not    *)
(* satisfy it, nor would it without the exception for references.          *)
AcceptedIsSafe == faulty \ {"handed"} \subseteq rejected

(* The check of out parameters concerns the parameters of the function     *)
(* (comment, SemanticAnalyzer.cpp:1045).  The code does not satisfy it.    *)
OwnOutParameters == "out" \in rejected => hasOut
=============================================================================
