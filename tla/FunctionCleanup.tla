--------------------------- MODULE FunctionCleanup ---------------------------
(***************************************************************************)
(* The code LLVMCodeGenerator emits around defer, destructors, try, throw, *)
(* return, break, continue and goto, executed for one function activation. *)
(*                                                                         *)
(* The generator keeps two compile-time lists, deferExpressions_ and       *)
(* destructorEntries_, ordered by one sequence number: here their merge is *)
(* the list of the sites 1..N in the order of the program text, and a      *)
(* marker (deferScopeMarkers_, loopDeferMarkers_, tryCleanupMarkers_) is a *)
(* length of that list.  A cleanup emitted at a program point visits the   *)
(* sites between a marker and the length of the list when that point is    *)
(* generated, whatever has run by then; `at' is that length.  At run time  *)
(* a site has a counter (defer.count) or a flag (dtor.flag), and one       *)
(* global, the exception handler, names the jmp_buf a throw jumps to.      *)
(*                                                                         *)
(* The function itself is not fixed: each step takes any statement that    *)
(* can come next, so a behaviour is an execution of some function.         *)
(***************************************************************************)
EXTENDS Integers, Sequences, FiniteSets

CONSTANTS
    N,           \* number of sites in the function
    MaxDepth,    \* bound on nested blocks, loops and tries
    MaxCount,    \* bound on how often a site is registered before it runs
    Emitter,     \* which routine generates the function
    Features     \* constructs the function may use, see AllFeatures

\* generateFunctionBody, generateClassMemberFunction, generateFunctionDecl
\* (members of a namespace) and the extension methods' generator.
Emitters == {"function", "member", "namespace", "extension"}

AllFeatures ==
    { "goto",              \* forward goto, possibly out of blocks
      "backward_goto",     \* goto to a label before it
      "unbraced",          \* a site that is itself the body of a loop
      "unwind_into_try",   \* an exception enters a try from a call it makes
                           \* or from a try nested in it
      "unwind_unframed",   \* an exception the function did not throw leaves
                           \* it with cleanups pending and no frame
      "jump_out_of_try",   \* break, continue or goto leaves a try
      "throwing_cleanup" } \* a defer body or destructor that throws

ASSUME NAssumption == N \in Nat
ASSUME DepthAssumption == MaxDepth \in Nat \ {0}
ASSUME CountAssumption == MaxCount \in Nat \ {0}
ASSUME EmitterAssumption == Emitter \in Emitters
ASSUME FeaturesAssumption == Features \subseteq AllFeatures

VARIABLES
    kinds,       \* site -> "defer" or "dtor"
    throwers,    \* sites whose body always throws
    at,          \* sites generated before the current program point
    count,       \* site -> value of its defer.count or dtor.flag
    scopes,      \* open constructs, outermost first
    handler,     \* the global exception handler
    mode,        \* what the activation is doing
    job,         \* the cleanup sequence in progress
    pending      \* history: registrations that have not run, oldest first

vars == <<kinds, throwers, at, count, scopes, handler, mode, job, pending>>

-----------------------------------------------------------------------------
Site == 1 .. N
SiteKind == {"defer", "dtor"}

OuterHandler == -1      \* the handler the caller had installed, or none
FrameHandler == 0       \* fn.jmpbuf; a try is named by its place in scopes

\* mark: length of the site list when the construct was entered; high: of
\* its text generated so far; prev: handler a try saved in prev.handler.
ScopeKind == {"block", "loop", "try"}
Scope == [kind : ScopeKind, mark : 0 .. N, high : 0 .. N,
          prev : OuterHandler .. MaxDepth]

\* A job runs the armed sites in lo+1..hi and then continues with `then';
\* `to' is a scope (break, continue, goto), `label' a place in the text.
Then == {"none", "exit", "return", "throw", "break", "continue", "goto",
         "propagate"}
Job == [then : Then, lo : 0 .. N, hi : 0 .. N, to : 0 .. MaxDepth,
        label : 0 .. N]
NoJob == [then |-> "none", lo |-> 0, hi |-> 0, to |-> 0, label |-> 0]
JobTo(then, lo, hi, to, label) ==
    [then |-> then, lo |-> lo, hi |-> hi, to |-> to, label |-> label]

\* wild: a throw has jumped to a try that is no longer open.
Mode == {"run", "cleanup", "unwind", "returned", "threw", "wild"}

\* One execution of a site's statement, and how deep in blocks it was.
Registration == [site : Site, depth : Nat]

Larger(a, b) == IF a > b THEN a ELSE b
Top == scopes[Len(scopes)]

\* statementContainsDefer: only such functions install fn.jmpbuf, and the
\* generator of extension methods never does.
HasDefer == \E s \in Site : kinds[s] = "defer"
HasFrame == HasDefer /\ Emitter # "extension"
BaseHandler == IF HasFrame THEN FrameHandler ELSE OuterHandler

\* Mutant of LabelsCollected.
NoLabelDepths == FALSE

\* collectLabelScopeDepths is called by generateFunctionDecl alone.
LabelsCollected == Emitter = "namespace"

\* How many registrations of s have not run.
Unrun(s) == Cardinality({k \in DOMAIN pending : pending[k].site = s})

Tries(k) == {i \in 1 .. k : scopes[i].kind = "try"}
BlockDepth(k) == Cardinality({i \in 1 .. k : scopes[i].kind = "block"})

\* The text generated so far reaches site n in every open scope.
Reach(n) ==
    [i \in DOMAIN scopes |-> [scopes[i] EXCEPT !.high = Larger(@, n)]]

Outside(k) == SubSeq(scopes, 1, k)     \* scopes k+1.. are closed

-----------------------------------------------------------------------------
TypeOK ==
    /\ kinds \in [Site -> SiteKind]
    /\ throwers \in SUBSET Site
    /\ at \in 0 .. N
    /\ count \in [Site -> 0 .. MaxCount]
    /\ scopes \in Seq(Scope) /\ Len(scopes) \in 1 .. MaxDepth
    /\ handler \in OuterHandler .. MaxDepth
    /\ mode \in Mode
    /\ job \in Job
    /\ pending \in Seq(Registration)

\* On entry the counters are zero, the body's block is open and the frame,
\* when there is one, has replaced the caller's handler.
Init ==
    /\ kinds \in [Site -> SiteKind]
    /\ throwers \in SUBSET Site
    /\ "throwing_cleanup" \notin Features => throwers = {}
    /\ at = 0
    /\ count = [s \in Site |-> 0]
    /\ scopes = << [kind |-> "block", mark |-> 0, high |-> 0,
                    prev |-> OuterHandler] >>
    /\ handler = BaseHandler
    /\ mode = "run"
    /\ job = NoJob
    /\ pending = << >>

Static == <<kinds, throwers>>

-----------------------------------------------------------------------------
(* Statements that open, close or pass a construct *)

Open(kind, prev) ==
    /\ mode = "run" /\ Len(scopes) < MaxDepth
    /\ scopes' = Append(scopes, [kind |-> kind, mark |-> at, high |-> at,
                                 prev |-> prev])
    /\ UNCHANGED <<Static, at, count, mode, job, pending>>

EnterBlock == Open("block", OuterHandler) /\ UNCHANGED handler
EnterLoop  == Open("loop", OuterHandler) /\ UNCHANGED handler
EnterTry   == Open("try", handler) /\ handler' = Len(scopes) + 1

\* A branch that is not taken: its site is generated but not registered.
Skip ==
    /\ mode = "run" /\ at < N
    /\ at' = at + 1
    /\ scopes' = Reach(at + 1)
    /\ UNCHANGED <<Static, count, handler, mode, job, pending>>

\* The counter of a defer is incremented, the flag of a class value raised.
Registered(s) == IF kinds[s] = "defer" THEN count[s] + 1 ELSE 1

\* A defer statement or the declaration of a class value is executed.
Register ==
    /\ mode = "run" /\ at < N
    /\ Top.kind = "block" \/ "unbraced" \in Features
    /\ count[at + 1] < MaxCount /\ Unrun(at + 1) < MaxCount
    /\ at' = at + 1
    /\ count' = [count EXCEPT ![at + 1] = Registered(at + 1)]
    /\ scopes' = Reach(at + 1)
    /\ pending' = Append(pending, [site  |-> at + 1,
                                   depth |-> BlockDepth(Len(scopes))])
    /\ UNCHANGED <<Static, handler, mode, job>>

\* A cleanup starts: emitCombinedCleanup(lo) generated where hi sites exist.
Start(then, lo, hi, to, label) ==
    /\ mode' = "cleanup"
    /\ job' = JobTo(then, lo, hi, to, label)
    /\ UNCHANGED <<Static, at, count, scopes, handler, pending>>

\* The end of a block; `high' says what its text holds.
ExitBlock ==
    /\ mode = "run" /\ Len(scopes) > 1
    /\ Top.kind = "block" /\ at >= Top.high
    /\ Start("exit", Top.mark, at, Len(scopes) - 1, 0)

\* The end of the body: the whole list is cleaned before the return.
FallOff ==
    /\ mode = "run" /\ Len(scopes) = 1
    /\ at >= Top.high
    /\ Start("return", 0, N, 0, 0)

LoopBack ==
    /\ mode = "run" /\ Top.kind = "loop"
    /\ at >= Top.high /\ at > Top.mark
    /\ at' = Top.mark
    /\ UNCHANGED <<Static, count, scopes, handler, mode, job, pending>>

LoopLeave ==
    /\ mode = "run" /\ Top.kind = "loop" /\ at = Top.mark
    /\ at' = Top.high
    /\ scopes' = Outside(Len(scopes) - 1)
    /\ UNCHANGED <<Static, count, handler, mode, job, pending>>

\* Mutant of ExitTry: prev.handler is not stored back.
ExitTryKeepsHandler ==
    /\ mode = "run" /\ Top.kind = "try" /\ at >= Top.high
    /\ scopes' = Outside(Len(scopes) - 1)
    /\ UNCHANGED <<Static, at, count, handler, mode, job, pending>>

\* The end of a try body stores prev.handler back.
ExitTry ==
    /\ mode = "run" /\ Top.kind = "try" /\ at >= Top.high
    /\ handler' = Top.prev
    /\ scopes' = Outside(Len(scopes) - 1)
    /\ UNCHANGED <<Static, at, count, mode, job, pending>>
-----------------------------------------------------------------------------
(* Jumps *)

\* l is the innermost loop; breakTargets_, loopDeferMarkers_.back().
InnermostLoop(l) ==
    /\ l \in 1 .. Len(scopes) /\ scopes[l].kind = "loop"
    /\ \A i \in l + 1 .. Len(scopes) : scopes[i].kind # "loop"

\* A jump out of scopes k+1.. may cross a try: nothing restores the handler.
MayLeave(k) ==
    "jump_out_of_try" \in Features \/ Tries(Len(scopes)) \subseteq 1 .. k

\* break and continue clean the loop body up to here.
Break(l) ==
    /\ mode = "run" /\ InnermostLoop(l) /\ MayLeave(l - 1)
    /\ Start("break", scopes[l].mark, at, l - 1, 0)

Continue(l) ==
    /\ mode = "run" /\ InnermostLoop(l) /\ MayLeave(l)
    /\ Start("continue", scopes[l].mark, at, l, 0)

\* i is the outermost block that a jump into scope k leaves.
FirstBlockLeft(i, k) ==
    /\ i \in k + 1 .. Len(scopes) /\ scopes[i].kind = "block"
    /\ \A j \in k + 1 .. i - 1 : scopes[j].kind # "block"

LeavesBlock(k) == \E i \in k + 1 .. Len(scopes) : scopes[i].kind = "block"

\* goto to a label of scope k, at place p of the text.  It cleans from the
\* marker of the first block it leaves, deferScopeMarkers_[depth of the
\* label], but only when the label's depth was collected.
Goto(k, p) ==
    /\ mode = "run" /\ k \in 1 .. Len(scopes) /\ MayLeave(k)
    /\ p \in scopes[k].mark .. N
    /\ IF p >= at THEN "goto" \in Features
                  ELSE "backward_goto" \in Features
    /\ IF LabelsCollected /\ LeavesBlock(k)
       THEN \E i \in 1 .. MaxDepth : /\ FirstBlockLeft(i, k)
                                     /\ Start("goto", scopes[i].mark, at, k, p)
       ELSE Start("goto", at, at, k, p)

\* Mutant of Return: the outer blocks are forgotten.
ReturnInnermost == mode = "run" /\ Start("return", Top.mark, at, 0, 0)

\* return cleans everything generated so far.
Return == mode = "run" /\ Start("return", 0, at, 0, 0)

InnermostTry(t) == t \in Tries(Len(scopes)) /\ Tries(Len(scopes)) \subseteq 1 .. t

\* throw cleans from the start of the innermost try body, or everything.
Throw ==
    /\ mode = "run"
    /\ \/ /\ Tries(Len(scopes)) = {}
          /\ Start("throw", 0, at, 0, 0)
       \/ \E t \in 1 .. MaxDepth : /\ InnermostTry(t)
                                   /\ Start("throw", scopes[t].mark, at, 0, 0)

\* An exception jumps to h without a cleanup of its own.
MayUnwindTo(h) ==
    /\ h > FrameHandler => "unwind_into_try" \in Features
    /\ h = OuterHandler /\ pending # << >> => "unwind_unframed" \in Features

\* A call made by the function throws: longjmp to the handler, no cleanup.
CalleeThrows ==
    /\ mode = "run" /\ MayUnwindTo(handler)
    /\ mode' = "unwind"
    /\ UNCHANGED <<Static, at, count, scopes, handler, job, pending>>

-----------------------------------------------------------------------------
(* A cleanup in progress *)

ArmedIn(lo, hi) == {s \in Site : lo < s /\ s <= hi /\ count[s] > 0}

\* Mutant of NextToRun: first in, first out.
NextToRunFirst(s) ==
    /\ mode = "cleanup" /\ s \in ArmedIn(job.lo, job.hi)
    /\ \A t \in ArmedIn(job.lo, job.hi) : s <= t

\* The next site emitCombinedCleanup runs: the last armed one.
NextToRun(s) ==
    /\ mode = "cleanup" /\ s \in ArmedIn(job.lo, job.hi)
    /\ \A t \in ArmedIn(job.lo, job.hi) : t <= s

\* k is the last registration of s in the history.
LastOf(s, k) ==
    /\ k \in DOMAIN pending /\ pending[k].site = s
    /\ \A j \in k + 1 .. Len(pending) : pending[j].site # s

Without(k) ==
    SubSeq(pending, 1, k - 1) \o SubSeq(pending, k + 1, Len(pending))

\* Mutant of RunSite: the counter is not stored back.
RunSiteKeepsCount(s) ==
    /\ NextToRun(s) /\ s \notin throwers
    /\ \E k \in DOMAIN pending : LastOf(s, k) /\ pending' = Without(k)
    /\ UNCHANGED <<Static, at, count, scopes, handler, mode, job>>

\* After the body the counter goes down by one; a flag is lowered.
Consumed(s) == IF kinds[s] = "defer" THEN count[s] - 1 ELSE 0

\* The body of s returns.
RunSite(s) ==
    /\ NextToRun(s) /\ s \notin throwers
    /\ count' = [count EXCEPT ![s] = Consumed(s)]
    /\ \E k \in DOMAIN pending : LastOf(s, k) /\ pending' = Without(k)
    /\ UNCHANGED <<Static, at, scopes, handler, mode, job>>

\* The body of s throws before its counter or flag is changed.
SiteThrows(s) ==
    /\ NextToRun(s) /\ s \in throwers
    /\ mode' = "unwind" /\ job' = NoJob
    /\ UNCHANGED <<Static, at, count, scopes, handler, pending>>

Cleaned(then) ==
    /\ mode = "cleanup" /\ job.then = then
    /\ ArmedIn(job.lo, job.hi) = {}
    /\ job' = NoJob

\* Control continues after scopes k+1.. of the text.
ContinueIn(k) ==
    /\ mode' = "run" /\ scopes' = Outside(k)
    /\ UNCHANGED <<Static, count, handler, pending>>

FinishBlock ==
    Cleaned("exit") /\ ContinueIn(job.to) /\ UNCHANGED at

FinishBreak ==
    Cleaned("break") /\ ContinueIn(job.to) /\ at' = scopes[job.to + 1].high

FinishContinue ==
    Cleaned("continue") /\ ContinueIn(job.to) /\ at' = scopes[job.to].mark

FinishGoto ==
    /\ Cleaned("goto")
    /\ mode' = "run" /\ at' = job.label
    /\ scopes' = SubSeq(Reach(job.label), 1, job.to)
    /\ UNCHANGED <<Static, count, handler, pending>>

OutermostTry(t) == t \in Tries(Len(scopes)) /\ Tries(t - 1) = {}

\* restoreExceptionHandlers stores back what each enclosing try, and last
\* the frame, had saved.
FinishReturn ==
    /\ Cleaned("return")
    /\ mode' = "returned"
    /\ \/ HasFrame /\ handler' = OuterHandler
       \/ ~HasFrame /\ Tries(Len(scopes)) = {} /\ UNCHANGED handler
       \/ ~HasFrame /\ \E t \in 1 .. MaxDepth :
              OutermostTry(t) /\ handler' = scopes[t].prev
    /\ UNCHANGED <<Static, at, count, scopes, pending>>

FinishThrow ==
    /\ Cleaned("throw")
    /\ mode' = "unwind"
    /\ UNCHANGED <<Static, at, count, scopes, handler, pending>>

\* fn.cleanup ends: it stores the caller's handler and jumps to it.
FinishFrame ==
    /\ Cleaned("propagate")
    /\ mode' = "unwind" /\ handler' = OuterHandler
    /\ UNCHANGED <<Static, at, count, scopes, pending>>

-----------------------------------------------------------------------------
(* The exception reaches what the global handler names *)

HandlerIsOpen ==
    handler \in 1 .. Len(scopes) /\ scopes[handler].kind = "try"

LeaveFunction ==
    /\ mode = "unwind" /\ handler = OuterHandler
    /\ mode' = "threw"
    /\ UNCHANGED <<Static, at, count, scopes, handler, job, pending>>

\* Mutants of EnterFrame: one index too far, the innermost scope only.
EnterFrameTooFar ==
    /\ mode = "unwind" /\ handler = FrameHandler
    /\ Start("propagate", 0, N + 1, 0, 0)

EnterFrameInnermost ==
    /\ mode = "unwind" /\ handler = FrameHandler
    /\ Start("propagate", Top.mark, N, 0, 0)

\* fn.cleanup visits every site of the function.
EnterFrame ==
    /\ mode = "unwind" /\ handler = FrameHandler
    /\ Start("propagate", 0, N, 0, 0)

\* catchdispatch restores the outer handler before it looks at the types.
Catch ==
    /\ mode = "unwind" /\ HandlerIsOpen
    /\ mode' = "run"
    /\ handler' = scopes[handler].prev
    /\ at' = scopes[handler].high
    /\ scopes' = Outside(handler - 1)
    /\ UNCHANGED <<Static, count, job, pending>>

\* No catch clause matches: the exception goes on to the outer handler.
NoMatch ==
    /\ mode = "unwind" /\ HandlerIsOpen
    /\ MayUnwindTo(scopes[handler].prev)
    /\ handler' = scopes[handler].prev
    /\ at' = scopes[handler].high
    /\ scopes' = Outside(handler - 1)
    /\ UNCHANGED <<Static, count, mode, job, pending>>

WildJump ==
    /\ mode = "unwind" /\ handler > FrameHandler /\ ~HandlerIsOpen
    /\ mode' = "wild"
    /\ UNCHANGED <<Static, at, count, scopes, handler, job, pending>>

-----------------------------------------------------------------------------
Statement ==
    \/ EnterBlock \/ EnterLoop \/ EnterTry
    \/ Skip \/ Register
    \/ ExitBlock \/ FallOff \/ LoopBack \/ LoopLeave \/ ExitTry
    \/ \E l \in 1 .. MaxDepth : Break(l) \/ Continue(l)
    \/ \E k \in 1 .. MaxDepth, p \in 0 .. N : Goto(k, p)
    \/ Return \/ Throw \/ CalleeThrows

CleanupStep ==
    \/ \E s \in Site : RunSite(s) \/ SiteThrows(s)
    \/ FinishBlock \/ FinishBreak \/ FinishContinue \/ FinishGoto
    \/ FinishReturn \/ FinishThrow \/ FinishFrame

UnwindStep ==
    LeaveFunction \/ EnterFrame \/ Catch \/ NoMatch \/ WildJump

Next == Statement \/ CleanupStep \/ UnwindStep

\* Emitted cleanup code runs without waiting for anything, and so does the
\* dispatch of an exception; the statements of the function are its own.
Fairness == WF_vars(CleanupStep) /\ WF_vars(UnwindStep)

Spec == Init /\ [][Next]_vars
FairSpec == Spec /\ Fairness

-----------------------------------------------------------------------------
(* Properties *)

Ended == mode \in {"returned", "threw"}

\* h is the handler the first k scopes leave installed.
Installed(h, k) ==
    \/ h \in Tries(k) /\ \A t \in Tries(k) : t <= h
    \/ h = BaseHandler /\ Tries(k) = {}

\* While statements run, the global handler is the innermost open try of the
\* activation, or its frame, or the caller's (generateTryStmt's stores of
\* prev.handler, function entry), and when the activation has ended it is
\* the caller's again.
HandlerIsInnermost ==
    /\ mode = "run" => Installed(handler, Len(scopes))
    /\ Ended => handler = OuterHandler

\* A throw never jumps to the jmp_buf of a try that has been left.
NoWildJump == mode # "wild"

\* Between statements every cleanup that has not run belongs to a block that
\* is still open: leaving a block by any way runs its cleanups.
NoOrphan ==
    mode = "run" =>
        \A k \in DOMAIN pending :
            pending[k].depth <= BlockDepth(Len(scopes))

\* No registered cleanup is lost: none is left when the activation ends.
NoneLost == Ended => pending = << >>

\* An exception that leaves a function with a frame has run every defer body
\* and lowered every flag, in whatever order the text was executed, wherever
\* the exception came from and whatever handlers it passed.
FrameLosesNone ==
    mode = "threw" /\ HasFrame =>
        \A s \in Site : /\ count[s] = 0
                        /\ kinds[s] = "defer" => Unrun(s) = 0

\* A defer's counter says how many of its registrations have not run, after
\* any jump, loop or exception; a raised flag stands for a value that has not
\* been destroyed, so none is destroyed twice.
CountsAreExact ==
    \A s \in Site :
        IF kinds[s] = "defer" THEN count[s] = Unrun(s)
                              ELSE (count[s] > 0 => Unrun(s) > 0)

\* The promise of ScopedCleanup; the blocks an exception passes through
\* count as open until it has reached the frame, a catch or the caller.
Promise == INSTANCE ScopedCleanup WITH
    todo <- pending, depth <- BlockDepth(Len(scopes)), active <- ~Ended
KeepsPromise == Promise!Spec

\* A cleanup that was started comes to its end and control goes on.
CleanupEnds == (mode = "cleanup") ~> (mode \in {"run", "returned", "threw"})
=============================================================================
