------------------------ MODULE FunctionCleanupProofs ------------------------
(***************************************************************************)
(* Proofs about FunctionCleanup, for every number of sites, every depth of *)
(* nesting, every bound on counters and every generator routine: its       *)
(* types, the exception handler, and that no cleanup is lost.              *)
(***************************************************************************)
EXTENDS FunctionCleanup, SequenceTheorems, FiniteSetTheorems, TLAPS

(***************************************************************************)
(* Typing.  A jump that is being cleaned up has a scope to continue in,    *)
(* and the outermost scope is the block of the body.                       *)
(***************************************************************************)
JobHasTarget ==
    mode = "cleanup" =>
        /\ job.then \in {"exit", "break"} => job.to \in 1 .. Len(scopes) - 1
        /\ job.then \in {"continue", "goto"} => job.to \in 1 .. Len(scopes)

TInv == TypeOK /\ scopes[1].kind = "block" /\ JobHasTarget

-----------------------------------------------------------------------------
(* Lemmas about the operators on scopes and registrations *)

\* Closing scopes leaves a prefix.
LEMMA Prefix ==
    ASSUME NEW S, NEW q \in Seq(S), NEW k \in 0 .. Len(q)
    PROVE  /\ SubSeq(q, 1, k) \in Seq(S)
           /\ Len(SubSeq(q, 1, k)) = k
           /\ \A i \in 1 .. k : SubSeq(q, 1, k)[i] = q[i]
<1>1. \A i \in 1 .. k : q[i] \in S
  BY ElementOfSeq
<1> QED
  BY <1>1, SubSeqProperties

\* Generating more text changes nothing but the extent of the open scopes.
LEMMA ReachProperties ==
    ASSUME TypeOK, NEW n \in 0 .. N
    PROVE  /\ Reach(n) \in Seq(Scope)
           /\ Len(Reach(n)) = Len(scopes)
           /\ \A i \in 1 .. Len(scopes) :
                 /\ Reach(n)[i].kind = scopes[i].kind
                 /\ Reach(n)[i].mark = scopes[i].mark
                 /\ Reach(n)[i].prev = scopes[i].prev
<1>1. DOMAIN scopes = 1 .. Len(scopes) /\ Len(scopes) \in Nat
  BY LenProperties DEF TypeOK
<1>2. \A i \in 1 .. Len(scopes) : scopes[i] \in Scope
  BY ElementOfSeq DEF TypeOK
<1>3. Reach(n) \in [1 .. Len(scopes) -> Scope]
  BY <1>1, <1>2, NAssumption DEF Reach, Scope, Larger
<1>4. Reach(n) \in Seq(Scope)
  BY <1>1, <1>3, SeqDef
<1>5. Len(Reach(n)) = Len(scopes)
  BY <1>1, <1>3, <1>4, LenProperties
<1> QED
  BY <1>1, <1>2, <1>3, <1>4, <1>5 DEF Reach, Scope

\* The number of open blocks is a natural number.
LEMMA BlockDepthType ==
    ASSUME NEW k \in Nat
    PROVE  BlockDepth(k) \in Nat
<1> DEFINE B == {i \in 1 .. k : scopes[i].kind = "block"}
<1>1. IsFiniteSet(1 .. k)
  BY FS_Interval
<1>2. IsFiniteSet(B)
  BY <1>1, FS_Subset
<1> QED
  BY <1>2, FS_CardinalityType DEF BlockDepth

\* Removing a registration leaves a sequence of registrations.
LEMMA WithoutType ==
    ASSUME NEW S, pending \in Seq(S), NEW k \in DOMAIN pending
    PROVE  Without(k) \in Seq(S)
<1>1. DOMAIN pending = 1 .. Len(pending) /\ Len(pending) \in Nat
  BY LenProperties
<1>2. \A i \in 1 .. Len(pending) : pending[i] \in S
  BY ElementOfSeq
<1>3. SubSeq(pending, 1, k - 1) \in Seq(S)
  BY <1>1, <1>2, SubSeqProperties
<1>4. SubSeq(pending, k + 1, Len(pending)) \in Seq(S)
  BY <1>1, <1>2, SubSeqProperties
<1> QED
  BY <1>3, <1>4, ConcatProperties DEF Without

-----------------------------------------------------------------------------
(* Type correctness *)

\* What the typing invariant says of the open scopes.
LEMMA ScopeFacts ==
    ASSUME TInv
    PROVE  /\ DOMAIN scopes = 1 .. Len(scopes)
           /\ Len(scopes) \in 1 .. MaxDepth
           /\ \A i \in 1 .. Len(scopes) :
                 /\ scopes[i] \in Scope
                 /\ scopes[i].kind \in ScopeKind
                 /\ scopes[i].mark \in 0 .. N
                 /\ scopes[i].high \in 0 .. N
                 /\ scopes[i].prev \in OuterHandler .. MaxDepth
<1>1. \A i \in 1 .. Len(scopes) : scopes[i] \in Scope
  BY ElementOfSeq DEF TInv, TypeOK
<1> QED
  BY <1>1, LenProperties DEF TInv, TypeOK, Scope

\* The initial states satisfy the typing invariant.
LEMMA TInvInit == Init => TInv
<1> SUFFICES ASSUME Init PROVE TInv
  OBVIOUS
<1> DEFINE body == [kind |-> "block", mark |-> 0, high |-> 0,
                    prev |-> OuterHandler]
<1>1. body \in Scope
  BY NAssumption, DepthAssumption DEF Scope, ScopeKind, OuterHandler
<1>2. scopes = << body >> /\ scopes \in Seq(Scope) /\ Len(scopes) = 1
  BY <1>1 DEF Init
<1>3. scopes[1].kind = "block"
  BY <1>2
<1>4. handler \in OuterHandler .. MaxDepth
  BY DepthAssumption DEF Init, BaseHandler, OuterHandler, FrameHandler
<1>5. pending \in Seq(Registration)
  BY EmptySeq DEF Init
<1>6. count \in [Site -> 0 .. MaxCount]
  BY CountAssumption DEF Init
<1>7. job \in Job /\ mode \in Mode /\ at \in 0 .. N
  BY NAssumption, DepthAssumption DEF Init, NoJob, Job, Then, Mode
<1> QED
  BY <1>2, <1>3, <1>4, <1>5, <1>6, <1>7, DepthAssumption
  DEF Init, TInv, TypeOK, JobHasTarget

\* Opening a construct preserves typing.
LEMMA OpenType ==
    ASSUME TInv, NEW k \in ScopeKind, NEW p \in OuterHandler .. MaxDepth,
           Open(k, p), handler' \in OuterHandler .. MaxDepth
    PROVE  TInv'
<1> DEFINE new == [kind |-> k, mark |-> at, high |-> at, prev |-> p]
<1>1. new \in Scope
  BY DEF TInv, TypeOK, Scope
<1>2. /\ scopes' \in Seq(Scope) /\ Len(scopes') = Len(scopes) + 1
      /\ scopes'[1] = scopes[1]
  BY <1>1, ScopeFacts, AppendProperties DEF Open, TInv, TypeOK
<1> QED
  BY <1>2, ScopeFacts, DepthAssumption
  DEF Open, TInv, TypeOK, JobHasTarget, Static

\* Starting a cleanup preserves typing when the jump has a target.
LEMMA StartType ==
    ASSUME TInv, NEW t \in Then, NEW lo \in 0 .. N, NEW hi \in 0 .. N,
           NEW k \in 0 .. MaxDepth, NEW l \in 0 .. N, Start(t, lo, hi, k, l),
           t \in {"exit", "break"} => k \in 1 .. Len(scopes) - 1,
           t \in {"continue", "goto"} => k \in 1 .. Len(scopes)
    PROVE  TInv'
<1>1. job' \in Job /\ job'.then = t /\ job'.to = k
  BY DEF Start, JobTo, Job
<1> QED
  BY <1>1 DEF Start, TInv, TypeOK, Mode, JobHasTarget, Static

\* So does starting one after which control leaves the function.
LEMMA StartLeaving ==
    ASSUME TInv, NEW t \in {"return", "throw", "propagate"},
           NEW lo \in 0 .. N, NEW hi \in 0 .. N, Start(t, lo, hi, 0, 0)
    PROVE  TInv'
<1>1. t \in Then /\ 0 \in 0 .. N /\ 0 \in 0 .. MaxDepth
  BY NAssumption, DepthAssumption DEF Then
<1>2. t \notin {"exit", "break", "continue", "goto"}
  OBVIOUS
<1>3. job' \in Job /\ job'.then = t
  BY <1>1 DEF Start, JobTo, Job
<1> QED
  BY <1>2, <1>3 DEF Start, TInv, TypeOK, Mode, JobHasTarget, Static

\* Closing scopes while no cleanup is in progress preserves typing.
LEMMA CloseType ==
    ASSUME TInv, NEW k \in 1 .. Len(scopes), scopes' = Outside(k),
           mode' \in {"run", "unwind"}, job' \in {job, NoJob},
           at' \in 0 .. N, handler' \in OuterHandler .. MaxDepth,
           UNCHANGED <<Static, count, pending>>
    PROVE  TInv'
<1>1. /\ scopes' \in Seq(Scope) /\ Len(scopes') = k
      /\ scopes'[1] = scopes[1]
  BY ScopeFacts, Prefix DEF Outside, TInv, TypeOK
<1>2. job' \in Job
  BY NAssumption, DepthAssumption DEF TInv, TypeOK, NoJob, Job, Then
<1> QED
  BY <1>1, <1>2, ScopeFacts, DepthAssumption
  DEF TInv, TypeOK, Mode, JobHasTarget, Static

\* Statements preserve the typing invariant.
LEMMA TInvStatement == TInv /\ Statement => TInv'
<1> SUFFICES ASSUME TInv, Statement PROVE TInv'
  OBVIOUS
<1> USE NAssumption, DepthAssumption, CountAssumption
<1>0. /\ Len(scopes) \in 1 .. MaxDepth /\ at \in 0 .. N
      /\ handler \in OuterHandler .. MaxDepth
      /\ \A i \in 1 .. Len(scopes) :
            /\ scopes[i].mark \in 0 .. N
            /\ scopes[i].high \in 0 .. N
            /\ scopes[i].prev \in OuterHandler .. MaxDepth
  BY ScopeFacts DEF TInv, TypeOK
<1>1. CASE EnterBlock
  BY <1>0, <1>1, OpenType DEF EnterBlock, ScopeKind, OuterHandler
<1>2. CASE EnterLoop
  BY <1>0, <1>2, OpenType DEF EnterLoop, ScopeKind, OuterHandler
<1>3. CASE EnterTry
  <2>1. handler' \in OuterHandler .. MaxDepth
    BY <1>0, <1>3 DEF EnterTry, Open, OuterHandler
  <2> QED
    BY <1>0, <1>3, <2>1, OpenType DEF EnterTry, ScopeKind
<1>4. CASE Skip \/ Register
  <2>1. /\ at + 1 \in Site
        /\ at' = at + 1 /\ scopes' = Reach(at + 1)
        /\ UNCHANGED <<Static, handler, mode, job>> /\ mode = "run"
    BY <1>0, <1>4 DEF Skip, Register, Site
  <2>2. /\ scopes' \in Seq(Scope) /\ Len(scopes') = Len(scopes)
        /\ scopes'[1].kind = scopes[1].kind
    <3>1. TypeOK /\ at + 1 \in 0 .. N /\ 1 \in 1 .. Len(scopes)
      BY <1>0, <2>1 DEF TInv, Site
    <3> QED
      BY <2>1, <3>1, ReachProperties
  <2>3. count' \in [Site -> 0 .. MaxCount]
    <3>1. count \in [Site -> 0 .. MaxCount]
      BY DEF TInv, TypeOK
    <3>2. CASE Skip
      BY <3>1, <3>2 DEF Skip
    <3>3. CASE Register
      <4>1. count[at + 1] \in 0 .. MaxCount - 1
        BY <2>1, <3>1, <3>3 DEF Register
      <4> QED
        BY <2>1, <3>1, <3>3, <4>1 DEF Register, Registered
    <3> QED
      BY <1>4, <3>2, <3>3
  <2>4. pending' \in Seq(Registration)
    <3>1. BlockDepth(Len(scopes)) \in Nat
      BY BlockDepthType
    <3> DEFINE new == [site |-> at + 1, depth |-> BlockDepth(Len(scopes))]
    <3>2. new \in Registration
      BY <2>1, <3>1 DEF Registration
    <3>3. pending' = pending \/ pending' = Append(pending, new)
      BY <1>4 DEF Skip, Register
    <3>4. pending \in Seq(Registration)
      BY DEF TInv, TypeOK
    <3> HIDE DEF new
    <3> QED
      BY <3>2, <3>3, <3>4, AppendProperties
  <2> QED
    BY <2>1, <2>2, <2>3, <2>4, SMTT(20)
    DEF TInv, TypeOK, Site, JobHasTarget, Static
<1>5. CASE ExitBlock
  <2>1. Start("exit", Top.mark, at, Len(scopes) - 1, 0)
    BY <1>5 DEF ExitBlock
  <2>2. /\ Top.mark \in 0 .. N
        /\ Len(scopes) - 1 \in 1 .. Len(scopes) - 1
    BY <1>0, <1>5 DEF ExitBlock, Top
  <2> QED
    <3>1. "exit" \in Then /\ Len(scopes) - 1 \in 0 .. MaxDepth /\ 0 \in 0 .. N
      BY <1>0 DEF Then
    <3> QED
      BY <1>0, <2>1, <2>2, <3>1, StartType
<1>6. CASE FallOff
  BY <1>0, <1>6, StartLeaving DEF FallOff
<1>7. CASE LoopBack
  <2>1. Top.mark \in 0 .. N
    BY <1>0 DEF Top
  <2> QED
    BY <1>0, <1>7, <2>1 DEF LoopBack, TInv, TypeOK, JobHasTarget, Static
<1>8. CASE LoopLeave \/ ExitTry
  <2>1. /\ mode = "run" /\ Top.kind \in {"loop", "try"}
        /\ scopes' = Outside(Len(scopes) - 1)
        /\ at' \in {at, Top.high} /\ handler' \in {handler, Top.prev}
        /\ UNCHANGED <<Static, count, mode, job, pending>>
    BY <1>8 DEF LoopLeave, ExitTry
  <2>2. Len(scopes) - 1 \in 1 .. Len(scopes)
    BY <1>0, <2>1 DEF Top, TInv
  <2>3. Top.high \in 0 .. N /\ Top.prev \in OuterHandler .. MaxDepth
    BY <1>0 DEF Top
  <2> QED
    BY <1>0, <2>1, <2>2, <2>3, CloseType
<1>9. ASSUME NEW l \in 1 .. MaxDepth, Break(l) \/ Continue(l)
      PROVE  TInv'
  <2>1. l \in 1 .. Len(scopes) /\ scopes[l].kind = "loop" /\ l # 1
    BY <1>9 DEF Break, Continue, InnermostLoop, TInv
  <2>2. CASE Break(l)
    BY <1>0, <2>1, <2>2, StartType DEF Break, Then
  <2>3. CASE Continue(l)
    BY <1>0, <2>1, <2>3, StartType DEF Continue, Then
  <2> QED
    BY <1>9, <2>2, <2>3
<1>10. ASSUME NEW k \in 1 .. MaxDepth, NEW p \in 0 .. N, Goto(k, p)
       PROVE  TInv'
  <2>1. PICK lo \in 0 .. N : Start("goto", lo, at, k, p)
    <3>1. CASE LabelsCollected /\ LeavesBlock(k)
      <4>1. PICK i \in 1 .. MaxDepth :
                FirstBlockLeft(i, k) /\ Start("goto", scopes[i].mark, at, k, p)
        BY <1>10, <3>1 DEF Goto
      <4>2. i \in 1 .. Len(scopes)
        BY <1>0, <4>1 DEF FirstBlockLeft
      <4> QED
        BY <1>0, <4>1, <4>2
    <3>2. CASE ~(LabelsCollected /\ LeavesBlock(k))
      BY <1>0, <1>10, <3>2 DEF Goto
    <3> QED
      BY <3>1, <3>2
  <2>2. k \in 1 .. Len(scopes)
    BY <1>10 DEF Goto
  <2> QED
    BY <1>0, <2>1, <2>2, StartType DEF Then
<1>11. CASE Return
  BY <1>0, <1>11, StartLeaving DEF Return
<1>12. CASE Throw
  <2>1. PICK lo \in 0 .. N : Start("throw", lo, at, 0, 0)
    BY <1>0, <1>12 DEF Throw, InnermostTry, Tries
  <2> QED
    BY <1>0, <2>1, StartLeaving
<1>13. CASE CalleeThrows
  BY <1>13 DEF CalleeThrows, TInv, TypeOK, Mode, JobHasTarget, Static
<1> QED
  BY <1>1, <1>2, <1>3, <1>4, <1>5, <1>6, <1>7, <1>8, <1>9, <1>10, <1>11,
     <1>12, <1>13 DEF Statement

\* Steps of a cleanup in progress preserve the typing invariant.
LEMMA TInvCleanup == TInv /\ CleanupStep => TInv'
<1> SUFFICES ASSUME TInv, CleanupStep PROVE TInv'
  OBVIOUS
<1>0. /\ Len(scopes) \in 1 .. MaxDepth /\ at \in 0 .. N
      /\ handler \in OuterHandler .. MaxDepth /\ job \in Job
      /\ \A i \in 1 .. Len(scopes) :
            /\ scopes[i].mark \in 0 .. N
            /\ scopes[i].high \in 0 .. N
            /\ scopes[i].prev \in OuterHandler .. MaxDepth
  BY ScopeFacts DEF TInv, TypeOK
<1>1. ASSUME NEW s \in Site, RunSite(s)
      PROVE  TInv'
  <2>1. count[s] \in 0 .. MaxCount /\ count[s] > 0
    BY <1>1 DEF RunSite, NextToRun, ArmedIn, TInv, TypeOK
  <2>2. count' \in [Site -> 0 .. MaxCount]
    <3>1. count \in [Site -> 0 .. MaxCount]
      BY DEF TInv, TypeOK
    <3> QED
      BY <1>1, <2>1, <3>1, CountAssumption DEF RunSite, Consumed
  <2>3. pending' \in Seq(Registration)
    <3>1. PICK k \in DOMAIN pending : pending' = Without(k)
      BY <1>1 DEF RunSite
    <3>2. pending \in Seq(Registration)
      BY DEF TInv, TypeOK
    <3> QED
      BY <3>1, <3>2, WithoutType
  <2> QED
    BY <1>1, <2>2, <2>3 DEF RunSite, TInv, TypeOK, JobHasTarget, Static
<1>2. ASSUME NEW s \in Site, SiteThrows(s)
      PROVE  TInv'
  <2>1. NoJob \in Job
    BY NAssumption, DepthAssumption DEF NoJob, Job, Then
  <2> QED
    BY <1>2, <2>1
    DEF SiteThrows, TInv, TypeOK, Mode, JobHasTarget, Static
<1>3. CASE FinishBlock \/ FinishBreak
  <2>1. /\ job.then \in {"exit", "break"} /\ mode = "cleanup"
        /\ job' = NoJob /\ mode' = "run" /\ scopes' = Outside(job.to)
        /\ at' = at \/ at' = scopes[job.to + 1].high
        /\ UNCHANGED <<Static, count, handler, pending>>
    BY <1>3 DEF FinishBlock, FinishBreak, Cleaned, ContinueIn
  <2>2. job.to \in 1 .. Len(scopes) - 1
    BY <2>1 DEF TInv, JobHasTarget
  <2>3. job.to + 1 \in 1 .. Len(scopes) /\ job.to \in 1 .. Len(scopes)
    BY <1>0, <2>2
  <2> QED
    BY <1>0, <2>1, <2>3, CloseType
<1>4. CASE FinishContinue
  <2>1. /\ job.then = "continue" /\ mode = "cleanup"
        /\ job' = NoJob /\ mode' = "run" /\ scopes' = Outside(job.to)
        /\ at' = scopes[job.to].mark
        /\ UNCHANGED <<Static, count, handler, pending>>
    BY <1>4 DEF FinishContinue, Cleaned, ContinueIn
  <2>2. job.to \in 1 .. Len(scopes)
    BY <2>1 DEF TInv, JobHasTarget
  <2> QED
    BY <1>0, <2>1, <2>2, CloseType
<1>5. CASE FinishGoto
  <2>1. job.then = "goto" /\ mode = "cleanup"
    BY <1>5 DEF FinishGoto, Cleaned
  <2>2. job.to \in 1 .. Len(scopes) /\ job.label \in 0 .. N
    BY <1>0, <2>1 DEF TInv, JobHasTarget, Job
  <2> DEFINE grown == Reach(job.label)
  <2>3. TypeOK
    BY DEF TInv
  <2>4. /\ grown \in Seq(Scope) /\ Len(grown) = Len(scopes)
        /\ grown[1].kind = "block"
    <3>1. 1 \in 1 .. Len(scopes) /\ scopes[1].kind = "block"
      BY <1>0 DEF TInv
    <3> QED
      BY <2>2, <2>3, <3>1, ReachProperties
  <2> HIDE DEF grown
  <2>5. scopes' = SubSeq(grown, 1, job.to)
    BY <1>5 DEF FinishGoto, grown
  <2>6. /\ scopes' \in Seq(Scope) /\ Len(scopes') = job.to
        /\ scopes'[1] = grown[1]
    BY <1>0, <2>2, <2>4, <2>5, Prefix
  <2>7. NoJob \in Job
    BY NAssumption, DepthAssumption DEF NoJob, Job, Then
  <2>8. /\ job' = NoJob /\ mode' = "run" /\ at' = job.label
        /\ UNCHANGED <<Static, count, handler, pending>>
    BY <1>5 DEF FinishGoto, Cleaned
  <2>9. /\ scopes' \in Seq(Scope) /\ Len(scopes') \in 1 .. MaxDepth
        /\ scopes'[1].kind = "block"
    <3>1. scopes'[1].kind = grown[1].kind
      BY <2>6
    <3> QED
      BY <1>0, <2>2, <2>4, <2>6, <3>1, DepthAssumption
  <2> QED
    BY <2>2, <2>7, <2>8, <2>9
    DEF TInv, TypeOK, Mode, JobHasTarget, Static
<1>6. CASE FinishReturn \/ FinishThrow \/ FinishFrame
  <2>1. NoJob \in Job
    BY NAssumption, DepthAssumption DEF NoJob, Job, Then
  <2>2. /\ job' = NoJob /\ mode' \in {"returned", "unwind"}
        /\ UNCHANGED <<Static, at, count, scopes, pending>>
    BY <1>6 DEF FinishReturn, FinishThrow, FinishFrame, Cleaned
  <2>3. handler' \in OuterHandler .. MaxDepth
    <3>1. OuterHandler \in OuterHandler .. MaxDepth
      BY DepthAssumption DEF OuterHandler
    <3>2. ASSUME NEW t \in 1 .. MaxDepth, OutermostTry(t)
          PROVE  scopes[t].prev \in OuterHandler .. MaxDepth
      BY <1>0, <3>2 DEF OutermostTry, Tries
    <3> QED
      <4>1. CASE FinishReturn
        BY <1>0, <3>1, <3>2, <4>1 DEF FinishReturn
      <4>2. CASE FinishThrow \/ FinishFrame
        BY <1>0, <3>1, <4>2 DEF FinishThrow, FinishFrame
      <4> QED
        BY <1>6, <4>1, <4>2
  <2> QED
    BY <2>1, <2>2, <2>3 DEF TInv, TypeOK, Mode, JobHasTarget, Static
<1> QED
  BY <1>1, <1>2, <1>3, <1>4, <1>5, <1>6 DEF CleanupStep

\* The dispatch of an exception preserves the typing invariant.
LEMMA TInvUnwind == TInv /\ UnwindStep => TInv'
<1> SUFFICES ASSUME TInv, UnwindStep PROVE TInv'
  OBVIOUS
<1>0. /\ Len(scopes) \in 1 .. MaxDepth /\ at \in 0 .. N
      /\ handler \in OuterHandler .. MaxDepth
      /\ \A i \in 1 .. Len(scopes) :
            /\ scopes[i].high \in 0 .. N
            /\ scopes[i].prev \in OuterHandler .. MaxDepth
  BY ScopeFacts DEF TInv, TypeOK
<1>1. CASE LeaveFunction \/ WildJump
  BY <1>1
  DEF LeaveFunction, WildJump, TInv, TypeOK, Mode, JobHasTarget, Static
<1>2. CASE EnterFrame
  <2>1. 0 \in 0 .. N /\ N \in 0 .. N
    BY NAssumption
  <2> QED
    BY <1>2, <2>1, StartLeaving DEF EnterFrame
<1>3. CASE Catch \/ NoMatch
  <2>1. HandlerIsOpen
    BY <1>3 DEF Catch, NoMatch
  <2>2. handler \in 1 .. Len(scopes) /\ handler # 1
    BY <2>1 DEF HandlerIsOpen, TInv
  <2>3. handler - 1 \in 1 .. Len(scopes)
    BY <1>0, <2>2
  <2>4. /\ mode' \in {"run", "unwind"} /\ job' = job
        /\ at' = scopes[handler].high /\ handler' = scopes[handler].prev
        /\ scopes' = Outside(handler - 1)
        /\ UNCHANGED <<Static, count, pending>>
    BY <1>3 DEF Catch, NoMatch
  <2> QED
    BY <1>0, <2>2, <2>3, <2>4, CloseType
<1> QED
  BY <1>1, <1>2, <1>3 DEF UnwindStep

\* Every variable of an activation always has its type: the markers and
\* targets the generator passes to emitCombinedCleanup lie inside the lists
\* it has built, and no block is closed that was not opened.
THEOREM TypeCorrect == Spec => []TypeOK
<1>1. Init => TInv
  BY TInvInit
<1>2. TInv /\ [Next]_vars => TInv'
  <2> SUFFICES ASSUME TInv, [Next]_vars PROVE TInv'
    OBVIOUS
  <2>1. CASE UNCHANGED vars
    BY <2>1 DEF vars, TInv, TypeOK, JobHasTarget
  <2> QED
    BY <2>1, TInvStatement, TInvCleanup, TInvUnwind DEF Next
<1>3. TInv => TypeOK
  BY DEF TInv
<1> QED
  BY <1>1, <1>2, <1>3, PTL DEF Spec

-----------------------------------------------------------------------------
(***************************************************************************)
(* The exception handler.  HandlerIsInnermost speaks of the moments when   *)
(* statements run; it is kept because every try saved the handler of the   *)
(* scopes around it, because a jump that is being cleaned up will not      *)
(* close a try, and because an exception is always on its way to the       *)
(* innermost open try, the frame or the caller.                            *)
(***************************************************************************)
SavedHandlers ==
    \A i \in 1 .. Len(scopes) :
        scopes[i].kind = "try" => Installed(scopes[i].prev, i - 1)

JumpClosesNoTry ==
    mode = "cleanup" /\ job.then \in {"exit", "break", "continue", "goto"} =>
        Tries(Len(scopes)) \subseteq 1 .. job.to

HandlerInCleanup ==
    mode = "cleanup" => IF job.then = "propagate"
                        THEN handler = FrameHandler
                        ELSE Installed(handler, Len(scopes))

HandlerInUnwind ==
    mode = "unwind" => \/ handler \in {OuterHandler, FrameHandler}
                       \/ Installed(handler, Len(scopes))

HInv ==
    /\ TInv
    /\ SavedHandlers /\ JumpClosesNoTry
    /\ HandlerInCleanup /\ HandlerInUnwind
    /\ HandlerIsInnermost /\ NoWildJump

\* The scopes that remain are the first k, as they were.
Remain(k) ==
    /\ Len(scopes') = k
    /\ \A i \in 1 .. k : /\ scopes'[i].kind = scopes[i].kind
                         /\ scopes'[i].prev = scopes[i].prev

\* A handler that the first k scopes leave installed is the installed one
\* after the others have been closed.
LEMMA InstalledAfter ==
    ASSUME TInv, NEW k \in 1 .. Len(scopes), Remain(k), kinds' = kinds,
           Installed(handler', k)
    PROVE  Installed(handler, Len(scopes))'
<1>1. BaseHandler' = BaseHandler
  BY DEF BaseHandler, HasFrame, HasDefer
<1>2. Tries(Len(scopes))' = Tries(k)
  BY DEF Remain, Tries
<1> QED
  BY <1>1, <1>2 DEF Installed

\* The handlers saved by the scopes that remain are still right.
LEMMA SavedAfter ==
    ASSUME TInv, SavedHandlers, NEW k \in 1 .. Len(scopes), Remain(k),
           kinds' = kinds
    PROVE  SavedHandlers'
<1>1. BaseHandler' = BaseHandler
  BY DEF BaseHandler, HasFrame, HasDefer
<1> SUFFICES ASSUME NEW i \in 1 .. k, scopes[i].kind = "try"
             PROVE  Installed(scopes[i].prev, i - 1)'
  BY DEF SavedHandlers, Remain
<1>2. Installed(scopes[i].prev, i - 1)
  BY DEF SavedHandlers
<1>3. {j \in 1 .. i - 1 : scopes'[j].kind = "try"} = Tries(i - 1)
  BY DEF Remain, Tries
<1>4. scopes'[i].prev = scopes[i].prev
  BY DEF Remain
<1> QED
  BY <1>1, <1>2, <1>3, <1>4 DEF Installed, Tries

\* Closing scopes is what the lemmas above are about.
LEMMA OutsideRemain ==
    ASSUME TInv, NEW k \in 1 .. Len(scopes), scopes' = Outside(k)
    PROVE  Remain(k)
  BY ScopeFacts, Prefix DEF Outside, Remain, TInv, TypeOK

\* So is leaving them alone.
LEMMA SameRemain ==
    ASSUME TInv, scopes' = scopes
    PROVE  Remain(Len(scopes))
  BY DEF Remain

\* The handler that all open scopes but the last ones leave installed.
LEMMA InstalledOutside ==
    ASSUME TInv, NEW h, NEW k \in 1 .. Len(scopes),
           Installed(h, Len(scopes)), Tries(Len(scopes)) \subseteq 1 .. k
    PROVE  Installed(h, k)
<1>1. Tries(k) = Tries(Len(scopes))
  BY ScopeFacts DEF Tries
<1> QED
  BY <1>1 DEF Installed

\* The initial states satisfy the invariant.
LEMMA HInvInit == Init => HInv
<1> SUFFICES ASSUME Init PROVE HInv
  OBVIOUS
<1>1. TInv
  BY TInvInit
<1>2. Len(scopes) = 1 /\ Tries(Len(scopes)) = {}
  BY DEF Init, Tries
<1> QED
  BY <1>1, <1>2
  DEF Init, HInv, SavedHandlers, JumpClosesNoTry, HandlerInCleanup,
      HandlerInUnwind, HandlerIsInnermost, Ended, NoWildJump, Installed

\* A step that keeps statements running and closes scopes k+1.. preserves
\* the invariant when it leaves the right handler installed.
LEMMA HInvRun ==
    ASSUME HInv, TInv', NEW k \in 1 .. Len(scopes), Remain(k),
           kinds' = kinds, mode' = "run", Installed(handler', k)
    PROVE  HInv'
<1>1. SavedHandlers'
  BY SavedAfter DEF HInv
<1>2. Installed(handler, Len(scopes))'
  BY InstalledAfter DEF HInv
<1> QED
  BY <1>1, <1>2 DEF HInv, JumpClosesNoTry, HandlerInCleanup,
                    HandlerInUnwind, HandlerIsInnermost, Ended, NoWildJump

\* Starting a cleanup preserves the invariant when the jump, if any, closes
\* no try.
LEMMA HInvStart ==
    ASSUME HInv, TInv', mode = "run", NEW t, NEW lo, NEW hi, NEW k, NEW l,
           Start(t, lo, hi, k, l), t # "propagate",
           t \in {"exit", "break", "continue", "goto"} =>
               Tries(Len(scopes)) \subseteq 1 .. k
    PROVE  HInv'
<1>1. /\ mode' = "cleanup" /\ job'.then = t /\ job'.to = k
      /\ UNCHANGED <<kinds, scopes, handler>>
  BY DEF Start, JobTo, Static
<1>2. TInv /\ Installed(handler, Len(scopes)) /\ SavedHandlers
  BY DEF HInv, HandlerIsInnermost
<1>3. Len(scopes) \in 1 .. Len(scopes)
  BY <1>2, ScopeFacts
<1>4. SavedHandlers' /\ Installed(handler, Len(scopes))'
  BY <1>1, <1>2, <1>3, SameRemain, SavedAfter, InstalledAfter
<1>5. Tries(Len(scopes))' = Tries(Len(scopes))
  BY <1>1 DEF Tries
<1> QED
  BY <1>1, <1>4, <1>5
  DEF HInv, JumpClosesNoTry, HandlerInCleanup, HandlerInUnwind,
      HandlerIsInnermost, Ended, NoWildJump

\* Statements preserve the invariant when no jump leaves a try.
LEMMA HInvStatement ==
    ASSUME "jump_out_of_try" \notin Features, HInv, Statement
    PROVE  HInv'
<1>0. /\ TInv /\ TInv' /\ SavedHandlers
      /\ mode = "run" => Installed(handler, Len(scopes))
  BY TInvStatement DEF HInv, HandlerIsInnermost
<1>00. Len(scopes) \in 1 .. MaxDepth /\ Len(scopes) \in 1 .. Len(scopes)
  BY <1>0, ScopeFacts
<1>1. CASE EnterBlock \/ EnterLoop \/ EnterTry
  <2>1. PICK k \in ScopeKind, p \in OuterHandler .. MaxDepth :
            /\ Open(k, p)
            /\ k = "try" => p = handler /\ handler' = Len(scopes) + 1
            /\ k # "try" => handler' = handler
    <3>1. /\ handler \in OuterHandler .. MaxDepth
          /\ OuterHandler \in OuterHandler .. MaxDepth
      BY <1>0, DepthAssumption DEF TInv, TypeOK, OuterHandler
    <3>2. CASE EnterBlock
      BY <3>1, <3>2 DEF EnterBlock, ScopeKind
    <3>3. CASE EnterLoop
      BY <3>1, <3>3 DEF EnterLoop, ScopeKind
    <3>4. CASE EnterTry
      BY <3>1, <3>4 DEF EnterTry, ScopeKind
    <3> QED
      BY <1>1, <3>2, <3>3, <3>4
  <2> DEFINE new == [kind |-> k, mark |-> at, high |-> at, prev |-> p]
  <2>2. new \in Scope
    BY <1>0, <2>1 DEF TInv, TypeOK, Scope
  <2>3. /\ Len(scopes') = Len(scopes) + 1
        /\ \A i \in 1 .. Len(scopes) : scopes'[i] = scopes[i]
        /\ scopes'[Len(scopes) + 1] = new
    BY <1>0, <2>1, <2>2, AppendProperties DEF Open, TInv, TypeOK
  <2>4. BaseHandler' = BaseHandler
    BY <2>1 DEF Open, Static, BaseHandler, HasFrame, HasDefer
  <2>5. /\ \A i \in 0 .. Len(scopes) : Tries(i) =
               {j \in 1 .. i : scopes'[j].kind = "try"}
        /\ Tries(Len(scopes))' = IF k = "try"
                                 THEN Tries(Len(scopes)) \cup {Len(scopes) + 1}
                                 ELSE Tries(Len(scopes))
    BY <1>00, <2>3 DEF Tries
  <2>6. mode = "run" /\ mode' = "run" /\ Installed(handler, Len(scopes))
    BY <1>0, <2>1 DEF Open
  <2>7. SavedHandlers'
    <3> SUFFICES ASSUME NEW i \in 1 .. Len(scopes) + 1,
                        scopes'[i].kind = "try"
                 PROVE  Installed(scopes[i].prev, i - 1)'
      BY <2>3 DEF SavedHandlers
    <3>1. CASE i \in 1 .. Len(scopes)
      <4>1. Installed(scopes[i].prev, i - 1) /\ scopes'[i] = scopes[i]
        BY <1>0, <2>3, <3>1 DEF SavedHandlers
      <4>2. {j \in 1 .. i - 1 : scopes'[j].kind = "try"} = Tries(i - 1)
        BY <1>00, <2>5, <3>1
      <4> QED
        BY <2>4, <4>1, <4>2 DEF Installed, Tries
    <3>2. CASE i = Len(scopes) + 1
      <4>1. scopes'[i].prev = handler /\ i - 1 = Len(scopes)
        BY <1>00, <2>1, <2>3, <3>2
      <4>2. {j \in 1 .. i - 1 : scopes'[j].kind = "try"} = Tries(i - 1)
        BY <1>00, <2>5, <3>2
      <4> QED
        BY <2>4, <2>6, <4>1, <4>2 DEF Installed, Tries
    <3> QED
      BY <1>00, <3>1, <3>2
  <2>8. Installed(handler, Len(scopes))'
    <3>1. CASE k = "try"
      <4>1. \A t \in Tries(Len(scopes)) : t <= Len(scopes)
        BY <1>00 DEF Tries
      <4> QED
        BY <1>00, <2>1, <2>5, <3>1, <4>1 DEF Installed
    <3>2. CASE k # "try"
      BY <2>1, <2>4, <2>5, <2>6, <3>2 DEF Installed
    <3> QED
      BY <3>1, <3>2
  <2> QED
    BY <1>0, <2>6, <2>7, <2>8
    DEF HInv, JumpClosesNoTry, HandlerInCleanup, HandlerInUnwind,
        HandlerIsInnermost, Ended, NoWildJump
<1>2. CASE Skip \/ Register
  <2>1. /\ at + 1 \in 0 .. N /\ scopes' = Reach(at + 1)
        /\ mode = "run" /\ mode' = "run"
        /\ UNCHANGED <<kinds, handler>>
    BY <1>0, <1>2, NAssumption DEF Skip, Register, Static, TInv, TypeOK
  <2>2. TypeOK
    BY <1>0 DEF TInv
  <2>3. Remain(Len(scopes))
    BY <2>1, <2>2, ReachProperties DEF Remain
  <2> QED
    BY <1>0, <1>00, <2>1, <2>3, HInvRun
<1>3. CASE ExitBlock
  <2>1. /\ Start("exit", Top.mark, at, Len(scopes) - 1, 0) /\ mode = "run"
        /\ scopes[Len(scopes)].kind = "block"
    BY <1>3 DEF ExitBlock, Top
  <2>2. Tries(Len(scopes)) \subseteq 1 .. Len(scopes) - 1
    BY <1>00, <2>1 DEF Tries
  <2> QED
    BY <1>0, <2>1, <2>2, HInvStart
<1>4. CASE FallOff \/ Return \/ Throw
  <2>1. mode = "run" /\ \E t \in {"return", "throw"}, lo \in 0 .. N, hi \in 0 .. N :
            Start(t, lo, hi, 0, 0)
    <3>1. CASE FallOff \/ Return
      <4>1. at \in 0 .. N /\ 0 \in 0 .. N /\ N \in 0 .. N
        BY <1>0, NAssumption DEF TInv, TypeOK
      <4> QED
        BY <3>1, <4>1 DEF FallOff, Return
    <3>2. CASE Throw
      <4>1. \A t \in Tries(Len(scopes)) : scopes[t].mark \in 0 .. N
        BY <1>0, ScopeFacts DEF Tries
      <4>2. at \in 0 .. N /\ 0 \in 0 .. N
        BY <1>0, NAssumption DEF TInv, TypeOK
      <4> QED
        BY <3>2, <4>1, <4>2 DEF Throw, InnermostTry
    <3> QED
      BY <1>4, <3>1, <3>2
  <2> QED
    BY <1>0, <2>1, HInvStart
<1>5. CASE LoopBack
  BY <1>0, <1>00, <1>5, SameRemain, HInvRun DEF LoopBack, Static
<1>6. CASE LoopLeave \/ ExitTry
  <2> DEFINE k == Len(scopes) - 1
  <2>1. /\ mode = "run" /\ mode' = "run" /\ kinds' = kinds
        /\ scopes' = Outside(k)
        /\ \/ Top.kind = "loop" /\ handler' = handler
           \/ Top.kind = "try" /\ handler' = Top.prev
    BY <1>6 DEF LoopLeave, ExitTry, Static
  <2>2. k \in 1 .. Len(scopes)
    BY <1>0, <1>00, <2>1 DEF Top, TInv
  <2>3. Remain(k)
    BY <1>0, <2>1, <2>2, OutsideRemain
  <2>4. Installed(handler', k)
    <3>1. CASE Top.kind = "loop" /\ handler' = handler
      <4>1. Tries(Len(scopes)) \subseteq 1 .. k
        BY <1>00, <3>1 DEF Tries, Top
      <4>2. Installed(handler, Len(scopes))
        BY <1>0, <2>1
      <4> QED
        BY <1>0, <2>2, <3>1, <4>1, <4>2, InstalledOutside
    <3>2. CASE Top.kind = "try" /\ handler' = Top.prev
      BY <1>0, <1>00, <3>2 DEF SavedHandlers, Top
    <3> QED
      BY <2>1, <3>1, <3>2
  <2> QED
    BY <1>0, <2>1, <2>2, <2>3, <2>4, HInvRun
<1>7. ASSUME NEW l \in 1 .. MaxDepth, Break(l) \/ Continue(l)
      PROVE  HInv'
  BY <1>0, <1>7, HInvStart DEF Break, Continue, MayLeave
<1>8. ASSUME NEW k \in 1 .. MaxDepth, NEW p \in 0 .. N, Goto(k, p)
      PROVE  HInv'
  <2>1. mode = "run" /\ Tries(Len(scopes)) \subseteq 1 .. k
    BY <1>8 DEF Goto, MayLeave
  <2>2. \E lo : Start("goto", lo, at, k, p)
    BY <1>8 DEF Goto
  <2> QED
    BY <1>0, <2>1, <2>2, HInvStart
<1>9. CASE CalleeThrows
  <2>1. /\ mode = "run" /\ mode' = "unwind"
        /\ UNCHANGED <<kinds, scopes, handler>>
    BY <1>9 DEF CalleeThrows, Static
  <2>2. SavedHandlers' /\ Installed(handler, Len(scopes))'
    BY <1>0, <1>00, <2>1, SameRemain, SavedAfter, InstalledAfter
  <2> QED
    BY <1>0, <2>1, <2>2
    DEF HInv, JumpClosesNoTry, HandlerInCleanup, HandlerInUnwind,
        HandlerIsInnermost, Ended, NoWildJump
<1> QED
  BY <1>1, <1>2, <1>3, <1>4, <1>5, <1>6, <1>7, <1>8, <1>9 DEF Statement

\* Steps of a cleanup preserve the invariant.
LEMMA HInvCleanup == HInv /\ CleanupStep => HInv'
<1> SUFFICES ASSUME HInv, CleanupStep PROVE HInv'
  OBVIOUS
<1>0. TInv /\ TInv' /\ SavedHandlers
  BY TInvCleanup DEF HInv
<1>00. Len(scopes) \in 1 .. MaxDepth /\ Len(scopes) \in 1 .. Len(scopes)
  BY <1>0, ScopeFacts
<1>1. ASSUME scopes' = scopes, kinds' = kinds
      PROVE  /\ SavedHandlers'
             /\ BaseHandler' = BaseHandler
             /\ Tries(Len(scopes))' = Tries(Len(scopes))
  <2>1. SavedHandlers'
    BY <1>0, <1>00, <1>1, SameRemain, SavedAfter
  <2> QED
    BY <1>1, <2>1 DEF BaseHandler, HasFrame, HasDefer, Tries
<1>2. ASSUME NEW s \in Site, RunSite(s) \/ SiteThrows(s)
      PROVE  HInv'
  <2>1. /\ mode = "cleanup" /\ UNCHANGED <<kinds, scopes, handler>>
        /\ \/ mode' = mode /\ job' = job
           \/ mode' = "unwind"
    BY <1>2 DEF RunSite, SiteThrows, NextToRun, Static
  <2>2. /\ SavedHandlers' /\ BaseHandler' = BaseHandler
        /\ Tries(Len(scopes))' = Tries(Len(scopes))
    BY <1>1, <2>1
  <2>3. \/ job.then = "propagate" /\ handler = FrameHandler
        \/ job.then # "propagate" /\ Installed(handler, Len(scopes))
    BY <2>1 DEF HInv, HandlerInCleanup
  <2>4. Installed(handler, Len(scopes)) => Installed(handler, Len(scopes))'
    BY <2>1, <2>2 DEF Installed
  <2> QED
    BY <1>0, <2>1, <2>2, <2>3, <2>4
    DEF HInv, JumpClosesNoTry, HandlerInCleanup, HandlerInUnwind,
        HandlerIsInnermost, Ended, NoWildJump
<1>3. CASE FinishBlock \/ FinishBreak \/ FinishContinue \/ FinishGoto
  <2>1. /\ job.then \in {"exit", "break", "continue", "goto"}
        /\ mode = "cleanup" /\ mode' = "run"
        /\ UNCHANGED <<kinds, handler>>
    BY <1>3 DEF FinishBlock, FinishBreak, FinishContinue, FinishGoto,
                Cleaned, ContinueIn, Static
  <2>2. job.to \in 1 .. Len(scopes)
    BY <1>0, <1>00, <2>1 DEF TInv, JobHasTarget
  <2>3. Remain(job.to)
    <3>1. CASE FinishBlock \/ FinishBreak \/ FinishContinue
      BY <1>0, <2>2, <3>1, OutsideRemain
      DEF FinishBlock, FinishBreak, FinishContinue, ContinueIn
    <3>2. CASE FinishGoto
      <4> DEFINE grown == Reach(job.label)
      <4>1. TypeOK /\ job.label \in 0 .. N
        BY <1>0 DEF TInv, TypeOK, Job
      <4>2. /\ grown \in Seq(Scope) /\ Len(grown) = Len(scopes)
            /\ \A i \in 1 .. Len(scopes) : /\ grown[i].kind = scopes[i].kind
                                           /\ grown[i].prev = scopes[i].prev
        BY <4>1, ReachProperties
      <4> HIDE DEF grown
      <4>3. scopes' = SubSeq(grown, 1, job.to)
        BY <3>2 DEF FinishGoto, grown
      <4>4. /\ Len(scopes') = job.to
            /\ \A i \in 1 .. job.to : scopes'[i] = grown[i]
        BY <1>00, <2>2, <4>2, <4>3, Prefix
      <4> QED
        BY <1>00, <2>2, <4>2, <4>4 DEF Remain
    <3> QED
      BY <1>3, <3>1, <3>2
  <2>4. Installed(handler, job.to)
    <3>1. /\ Installed(handler, Len(scopes))
          /\ Tries(Len(scopes)) \subseteq 1 .. job.to
      BY <2>1 DEF HInv, HandlerInCleanup, JumpClosesNoTry
    <3> QED
      BY <1>0, <2>2, <3>1, InstalledOutside
  <2> QED
    BY <1>0, <2>1, <2>2, <2>3, <2>4, HInvRun
<1>4. CASE FinishReturn
  <2>1. /\ mode' = "returned" /\ UNCHANGED <<kinds, scopes>>
        /\ Installed(handler, Len(scopes))
    BY <1>4 DEF FinishReturn, Cleaned, Static, HInv, HandlerInCleanup
  <2>2. SavedHandlers'
    BY <1>1, <2>1
  <2>3. handler' = OuterHandler
    <3>1. CASE HasFrame
      BY <1>4, <3>1 DEF FinishReturn
    <3>2. CASE ~HasFrame /\ Tries(Len(scopes)) = {}
      BY <1>4, <2>1, <3>2 DEF FinishReturn, OutermostTry, Installed, BaseHandler
    <3>3. CASE ~HasFrame /\ Tries(Len(scopes)) # {}
      <4>1. PICK t \in 1 .. MaxDepth :
                OutermostTry(t) /\ handler' = scopes[t].prev
        BY <1>4, <3>3 DEF FinishReturn
      <4>2. Installed(scopes[t].prev, t - 1) /\ Tries(t - 1) = {}
        BY <1>0, <4>1 DEF OutermostTry, SavedHandlers, Tries
      <4> QED
        BY <3>3, <4>1, <4>2 DEF Installed, BaseHandler
    <3> QED
      BY <3>1, <3>2, <3>3
  <2> QED
    BY <1>0, <2>1, <2>2, <2>3
    DEF HInv, JumpClosesNoTry, HandlerInCleanup, HandlerInUnwind,
        HandlerIsInnermost, Ended, NoWildJump
<1>5. CASE FinishThrow \/ FinishFrame
  <2>1. /\ mode = "cleanup" /\ mode' = "unwind" /\ UNCHANGED <<kinds, scopes>>
        /\ \/ job.then = "throw" /\ handler' = handler
           \/ handler' = OuterHandler
    BY <1>5 DEF FinishThrow, FinishFrame, Cleaned, Static
  <2>2. SavedHandlers' /\ BaseHandler' = BaseHandler
        /\ Tries(Len(scopes))' = Tries(Len(scopes))
    BY <1>1, <2>1
  <2>3. handler' = OuterHandler \/ Installed(handler, Len(scopes))'
    BY <2>1, <2>2 DEF HInv, HandlerInCleanup, Installed
  <2> QED
    BY <1>0, <2>1, <2>2, <2>3
    DEF HInv, JumpClosesNoTry, HandlerInCleanup, HandlerInUnwind,
        HandlerIsInnermost, Ended, NoWildJump
<1> QED
  BY <1>2, <1>3, <1>4, <1>5 DEF CleanupStep

\* The dispatch of an exception preserves the invariant.
LEMMA HInvUnwind == HInv /\ UnwindStep => HInv'
<1> SUFFICES ASSUME HInv, UnwindStep PROVE HInv'
  OBVIOUS
<1>0. /\ TInv /\ TInv' /\ SavedHandlers
      /\ mode = "unwind"
      /\ \/ handler \in {OuterHandler, FrameHandler}
         \/ Installed(handler, Len(scopes))
  BY TInvUnwind DEF HInv, UnwindStep, LeaveFunction, EnterFrame, Catch,
                    NoMatch, WildJump, HandlerInUnwind
<1>00. Len(scopes) \in 1 .. MaxDepth /\ Len(scopes) \in 1 .. Len(scopes)
  BY <1>0, ScopeFacts
<1>1. CASE LeaveFunction \/ EnterFrame
  <2>1. /\ UNCHANGED <<kinds, scopes, handler>>
        /\ \/ mode' = "threw" /\ handler = OuterHandler
           \/ mode' = "cleanup" /\ job'.then = "propagate"
              /\ handler = FrameHandler
    BY <1>1 DEF LeaveFunction, EnterFrame, Start, JobTo, Static
  <2>2. SavedHandlers'
    BY <1>0, <1>00, <2>1, SameRemain, SavedAfter
  <2> QED
    BY <1>0, <2>1, <2>2
    DEF HInv, JumpClosesNoTry, HandlerInCleanup, HandlerInUnwind,
        HandlerIsInnermost, Ended, NoWildJump
<1>2. CASE Catch \/ NoMatch
  <2>1. /\ handler \in 1 .. Len(scopes) /\ scopes[handler].kind = "try"
        /\ handler' = scopes[handler].prev
        /\ scopes' = Outside(handler - 1)
        /\ kinds' = kinds
        /\ \/ Catch /\ mode' = "run"
           \/ NoMatch /\ mode' = "unwind"
    BY <1>0, <1>2 DEF Catch, NoMatch, HandlerIsOpen, Static
  <2>2. handler - 1 \in 1 .. Len(scopes)
    BY <1>0, <1>00, <2>1 DEF TInv
  <2>3. Remain(handler - 1)
    BY <1>0, <2>1, <2>2, OutsideRemain
  <2>4. Installed(handler', handler - 1)
    BY <1>0, <2>1 DEF SavedHandlers
  <2>5. CASE mode' = "run"
    BY <1>0, <2>1, <2>2, <2>3, <2>4, <2>5, HInvRun
  <2>6. CASE mode' = "unwind"
    <3>1. SavedHandlers' /\ Installed(handler, Len(scopes))'
      BY <1>0, <2>1, <2>2, <2>3, <2>4, SavedAfter, InstalledAfter
    <3> QED
      BY <1>0, <2>6, <3>1
      DEF HInv, JumpClosesNoTry, HandlerInCleanup, HandlerInUnwind,
          HandlerIsInnermost, Ended, NoWildJump
  <2> QED
    BY <2>1, <2>5, <2>6
<1>3. ~WildJump
  <2>1. Installed(handler, Len(scopes)) =>
            HandlerIsOpen \/ handler \in {OuterHandler, FrameHandler}
    BY DEF Installed, Tries, HandlerIsOpen, BaseHandler
  <2> QED
    BY <1>0, <2>1 DEF WildJump, OuterHandler, FrameHandler
<1> QED
  BY <1>1, <1>2, <1>3 DEF UnwindStep

LEMMA HInvNext ==
    ASSUME "jump_out_of_try" \notin Features, HInv, [Next]_vars
    PROVE  HInv'
<1>1. CASE UNCHANGED vars
  <2>1. /\ mode' = mode /\ job' = job
        /\ UNCHANGED <<kinds, scopes, handler>> /\ TInv'
    BY <1>1 DEF vars, HInv, TInv, TypeOK, JobHasTarget
  <2>2. /\ SavedHandlers' /\ BaseHandler' = BaseHandler
        /\ Tries(Len(scopes))' = Tries(Len(scopes))
    <3>1. TInv /\ SavedHandlers /\ Len(scopes) \in 1 .. Len(scopes)
      BY ScopeFacts DEF HInv
    <3>2. SavedHandlers'
      BY <2>1, <3>1, SameRemain, SavedAfter
    <3> QED
      BY <2>1, <3>2 DEF BaseHandler, HasFrame, HasDefer, Tries
  <2> QED
    BY <2>1, <2>2
    DEF HInv, JumpClosesNoTry, HandlerInCleanup, HandlerInUnwind,
        HandlerIsInnermost, Ended, NoWildJump, Installed
<1> QED
  BY <1>1, HInvStatement, HInvCleanup, HInvUnwind DEF Next

\* The invariant holds in every reachable state.
LEMMA HInvAlways ==
    ASSUME "jump_out_of_try" \notin Features
    PROVE  Spec => []HInv
<1>1. HInv /\ [Next]_vars => HInv'
  BY HInvNext
<1> QED
  BY <1>1, HInvInit, PTL DEF Spec

\* When no break, continue or goto leaves a try, the global handler is the
\* innermost open try, the frame or the caller's handler whenever statements
\* run, and the caller's handler again after the activation.
THEOREM HandlerCorrect ==
    ASSUME "jump_out_of_try" \notin Features
    PROVE  Spec => []HandlerIsInnermost
<1>1. HInv => HandlerIsInnermost
  BY DEF HInv
<1> QED
  BY <1>1, HInvAlways, PTL

\* Under the same condition no throw, of the function, of its callees or of
\* its cleanups, jumps to the jmp_buf of a try that has been left.
THEOREM NoWildJumps ==
    ASSUME "jump_out_of_try" \notin Features
    PROVE  Spec => []NoWildJump
<1>1. HInv => NoWildJump
  BY DEF HInv
<1> QED
  BY <1>1, HInvAlways, PTL

-----------------------------------------------------------------------------
(***************************************************************************)
(* No cleanup is lost: what holds of the counters and of the function's    *)
(* frame for all functions, and the promise of ScopedCleanup for those     *)
(* that PlainFunctions describes.                                          *)
(***************************************************************************)

\* The functions whose cleanups the generator keeps in order: braced blocks,
\* loops, tries, break, continue, return and throw, with forward goto where
\* the depths of labels were collected.
PlainFunctions ==
    /\ Features \subseteq {"goto"}
    /\ "goto" \in Features => LabelsCollected

\* Marks grow inwards, none lies after the program point, and the text of a
\* construct does not end before it begins.
MarksInOrder ==
    \A i \in 1 .. Len(scopes) :
        /\ scopes[i].mark <= at /\ scopes[i].mark <= scopes[i].high
        /\ \A j \in i .. Len(scopes) : scopes[i].mark <= scopes[j].mark

\* A registration was made in an open block, before what is open inside it.
OwnedBy(r, i) ==
    /\ scopes[i].kind = "block" /\ scopes[i].mark < r.site
    /\ r.depth = BlockDepth(i)
    /\ \A j \in i + 1 .. Len(scopes) : r.site <= scopes[j].mark

Owned ==
    \A k \in DOMAIN pending :
        pending[k].site <= at /\ \E i \in 1 .. Len(scopes) : OwnedBy(pending[k], i)

\* Registrations are in the order of the text, each site at most once.
InTextOrder ==
    \A k \in DOMAIN pending : \A j \in DOMAIN pending :
        j < k => pending[j].site < pending[k].site

\* Exactly the sites with a registration are armed.
ArmedIsPending ==
    \A s \in Site : count[s] = IF \E k \in DOMAIN pending : pending[k].site = s
                               THEN 1 ELSE 0

\* A cleanup in progress reaches down to the first block that is left and up
\* to the last registration.
JobCleansEnough ==
    mode = "cleanup" =>
        /\ at <= job.hi
        /\ job.then \in {"exit", "break", "continue", "goto"} =>
               \A i \in job.to + 1 .. Len(scopes) :
                   scopes[i].kind = "block" => job.lo <= scopes[i].mark
        /\ job.then = "break" => job.lo <= scopes[job.to + 1].mark
        /\ job.then = "continue" => job.lo <= scopes[job.to].mark
        /\ job.then = "goto" => at <= job.label
        /\ job.then = "throw" =>
               \/ job.lo = 0
               \/ \E t \in 1 .. Len(scopes) :
                      InnermostTry(t) /\ job.lo <= scopes[t].mark
        /\ job.then \in {"return", "propagate"} => job.lo = 0
        /\ job.then # "none"

\* An exception reaches a try with nothing left to clean in it, and the
\* caller with nothing left at all.
UnwindsClean ==
    /\ mode = "unwind" /\ handler > FrameHandler =>
           \A k \in DOMAIN pending : pending[k].site <= scopes[handler].mark
    /\ mode = "unwind" /\ handler = OuterHandler => pending = << >>
    /\ Ended => pending = << >>

CInv ==
    /\ HInv
    /\ throwers = {}
    /\ MarksInOrder /\ Owned /\ InTextOrder /\ ArmedIsPending
    /\ JobCleansEnough /\ UnwindsClean
-----------------------------------------------------------------------------
(* Lemmas about registrations *)

\* The registrations of a site.
Places(s) == {k \in DOMAIN pending : pending[k].site = s}

LEMMA PendingFacts ==
    ASSUME TypeOK
    PROVE  /\ pending \in Seq(Registration) /\ Len(pending) \in Nat
           /\ DOMAIN pending = 1 .. Len(pending)
           /\ \A k \in 1 .. Len(pending) : /\ pending[k].site \in Site
                                           /\ pending[k].depth \in Nat
<1>1. \A k \in 1 .. Len(pending) : pending[k] \in Registration
  BY ElementOfSeq DEF TypeOK
<1> QED
  BY <1>1, LenProperties DEF TypeOK, Registration

LEMMA PlacesFinite ==
    ASSUME TypeOK, NEW s
    PROVE  IsFiniteSet(Places(s)) /\ Unrun(s) = Cardinality(Places(s)) /\ Unrun(s) \in Nat
<1>1. IsFiniteSet(1 .. Len(pending))
  BY PendingFacts, FS_Interval
<1>2. IsFiniteSet(Places(s))
  BY <1>1, PendingFacts, FS_Subset DEF Places
<1> QED
  BY <1>2, FS_CardinalityType DEF Unrun, Places

\* A registration adds to the unrun ones of its site.
LEMMA UnrunAppend ==
    ASSUME TypeOK, NEW r \in Registration, pending' = Append(pending, r)
    PROVE  \A s : Unrun(s)' = IF s = r.site THEN Unrun(s) + 1 ELSE Unrun(s)
<1> DEFINE L == Len(pending)
<1>1. /\ L \in Nat /\ DOMAIN pending = 1 .. L /\ DOMAIN pending' = 1 .. L + 1
      /\ \A k \in 1 .. L : pending'[k] = pending[k]
      /\ pending'[L + 1] = r
  BY PendingFacts, AppendProperties, LenProperties
<1> HIDE DEF L
<1> SUFFICES ASSUME NEW s
             PROVE  Unrun(s)' = IF s = r.site THEN Unrun(s) + 1 ELSE Unrun(s)
  OBVIOUS
<1>2. Unrun(s)' = Cardinality({k \in 1 .. L + 1 : pending'[k].site = s})
  BY <1>1 DEF Unrun
<1>3. CASE s = r.site
  <2>1. {k \in 1 .. L + 1 : pending'[k].site = s} = Places(s) \cup {L + 1}
    BY <1>1, <1>3 DEF Places
  <2>2. L + 1 \notin Places(s)
    BY <1>1 DEF Places
  <2>3. Cardinality(Places(s) \cup {L + 1}) = Cardinality(Places(s)) + 1
    BY <2>2, PlacesFinite, FS_AddElement
  <2> QED
    BY <1>2, <1>3, <2>1, <2>3, PlacesFinite
<1>4. CASE s # r.site
  <2>1. {k \in 1 .. L + 1 : pending'[k].site = s} = Places(s)
    BY <1>1, <1>4 DEF Places
  <2> QED
    BY <1>2, <1>4, <2>1, PlacesFinite
<1> QED
  BY <1>3, <1>4

\* What is left after one registration has run, and where it is.
LEMMA WithoutFacts ==
    ASSUME TypeOK, NEW n \in DOMAIN pending, pending' = Without(n)
    PROVE  /\ Len(pending) \in Nat \ {0}
           /\ DOMAIN pending' = 1 .. Len(pending) - 1
           /\ \A k \in 1 .. n - 1 : pending'[k] = pending[k]
           /\ \A k \in n .. Len(pending) - 1 : pending'[k] = pending[k + 1]
<1> DEFINE L == Len(pending)
           low == SubSeq(pending, 1, n - 1)
           high == SubSeq(pending, n + 1, L)
<1>1. L \in Nat /\ n \in 1 .. L /\ pending \in Seq(Registration)
  BY PendingFacts
<1>2. \A k \in 1 .. L : pending[k] \in Registration
  BY <1>1, ElementOfSeq
<1>3. /\ low \in Seq(Registration) /\ Len(low) = n - 1
      /\ \A k \in 1 .. n - 1 : low[k] = pending[k]
  BY <1>1, <1>2, SubSeqProperties
<1>4. /\ high \in Seq(Registration) /\ Len(high) = L - n
      /\ \A k \in 1 .. L - n : high[k] = pending[n + k]
  <2>1. n + 1 \in Int /\ L \in Int /\ \A k \in n + 1 .. L : pending[k] \in Registration
    BY <1>1, <1>2
  <2>2. /\ high \in Seq(Registration)
        /\ Len(high) = IF n + 1 <= L THEN L - (n + 1) + 1 ELSE 0
        /\ \A k \in 1 .. L - (n + 1) + 1 : high[k] = pending[n + 1 + k - 1]
    BY <2>1, SubSeqProperties, SMTT(20)
  <2> QED
    BY <1>1, <2>2
<1> HIDE DEF low, high, L
<1>5. pending' = low \o high
  BY DEF Without, low, high, L
<1>6. /\ pending' \in Seq(Registration) /\ Len(pending') = L - 1
      /\ \A k \in 1 .. L - 1 :
             pending'[k] = IF k <= n - 1 THEN low[k] ELSE high[k - (n - 1)]
  <2>1. /\ low \o high \in Seq(Registration)
        /\ Len(low \o high) = Len(low) + Len(high)
        /\ \A k \in 1 .. Len(low) + Len(high) :
               (low \o high)[k] = IF k <= Len(low) THEN low[k]
                                                 ELSE high[k - Len(low)]
    BY <1>3, <1>4, ConcatProperties
  <2>2. Len(low) + Len(high) = L - 1
    BY <1>1, <1>3, <1>4
  <2> QED
    BY <1>3, <1>5, <2>1, <2>2
<1>7. DOMAIN pending' = 1 .. L - 1
  BY <1>6, LenProperties
<1>8. \A k \in 1 .. n - 1 : pending'[k] = pending[k]
  BY <1>1, <1>3, <1>6
<1>9. \A k \in n .. L - 1 : pending'[k] = pending[k + 1]
  <2> SUFFICES ASSUME NEW k \in n .. L - 1 PROVE pending'[k] = pending[k + 1]
    OBVIOUS
  <2>1. /\ k \in 1 .. L - 1 /\ ~(k <= n - 1)
        /\ k - (n - 1) \in 1 .. L - n /\ n + (k - (n - 1)) = k + 1
    BY <1>1
  <2> QED
    BY <1>4, <1>6, <2>1
<1> QED
  BY <1>1, <1>7, <1>8, <1>9 DEF L

\* A run takes one from the unrun registrations of its site.
LEMMA UnrunWithout ==
    ASSUME TypeOK, NEW n \in DOMAIN pending, pending' = Without(n)
    PROVE  \A s : Unrun(s)' = IF s = pending[n].site THEN Unrun(s) - 1 ELSE Unrun(s)
<1> DEFINE L == Len(pending)
<1>1. /\ L \in Nat \ {0} /\ n \in 1 .. L /\ DOMAIN pending = 1 .. L
      /\ DOMAIN pending' = 1 .. L - 1
      /\ \A k \in 1 .. n - 1 : pending'[k] = pending[k]
      /\ \A k \in n .. L - 1 : pending'[k] = pending[k + 1]
  BY WithoutFacts, PendingFacts
<1> HIDE DEF L
<1> SUFFICES ASSUME NEW s
             PROVE  Unrun(s)' = IF s = pending[n].site THEN Unrun(s) - 1 ELSE Unrun(s)
  OBVIOUS
<1> DEFINE After == {k \in 1 .. L - 1 : pending'[k].site = s}
           Rest == Places(s) \ {n}
           move == [k \in After |-> IF k < n THEN k ELSE k + 1]
<1>2. Unrun(s)' = Cardinality(After)
  BY <1>1 DEF Unrun
<1>3. move \in Bijection(After, Rest)
  <2>1. \A k \in After : move[k] \in Rest
    BY <1>1 DEF Places
  <2>2. \A j, k \in After : move[j] = move[k] => j = k
    BY <1>1
  <2>3. \A k \in Rest : \E j \in After : move[j] = k
    <3> SUFFICES ASSUME NEW k \in Rest PROVE \E j \in After : move[j] = k
      OBVIOUS
    <3>1. k \in 1 .. L /\ k # n /\ pending[k].site = s
      BY <1>1 DEF Places
    <3>2. CASE k < n
      BY <1>1, <3>1, <3>2
    <3>3. CASE k > n
      <4>1. k - 1 \in n .. L - 1 /\ (k - 1) + 1 = k
        BY <1>1, <3>1, <3>3
      <4>2. k - 1 \in After /\ ~(k - 1 < n)
        BY <1>1, <3>1, <4>1
      <4>3. move[k - 1] = k
        BY <4>1, <4>2
      <4> HIDE DEF move, After
      <4> QED
        BY <4>2, <4>3
    <3> QED
      BY <1>1, <3>1, <3>2, <3>3
  <2> QED
    BY <2>1, <2>2, <2>3 DEF Bijection, Injection, Surjection, IsInjective
<1>4. IsFiniteSet(Places(s)) /\ Unrun(s) = Cardinality(Places(s)) /\ Unrun(s) \in Nat
  BY PlacesFinite
<1>5. /\ IsFiniteSet(Rest)
      /\ Cardinality(Rest) = IF n \in Places(s) THEN Unrun(s) - 1 ELSE Unrun(s)
  BY <1>4, FS_RemoveElement
<1>6. IsFiniteSet(After)
  <2>1. IsFiniteSet(1 .. L - 1)
    BY <1>1, FS_Interval
  <2> QED
    BY <2>1, FS_Subset
<1>7. Cardinality(After) = Cardinality(Rest)
  <2> HIDE DEF After, Rest, move
  <2>1. ExistsBijection(After, Rest)
    BY <1>3 DEF ExistsBijection
  <2> QED
    BY <1>6, <2>1, FS_Bijection
<1>8. n \in Places(s) <=> s = pending[n].site
  BY DEF Places
<1> QED
  BY <1>2, <1>5, <1>7, <1>8

-----------------------------------------------------------------------------
(* Counters *)

LEMMA TInvNext == TInv /\ [Next]_vars => TInv'
<1> SUFFICES ASSUME TInv, [Next]_vars PROVE TInv'
  OBVIOUS
<1>1. CASE UNCHANGED vars
  BY <1>1 DEF vars, TInv, TypeOK, JobHasTarget
<1> QED
  BY <1>1, TInvStatement, TInvCleanup, TInvUnwind DEF Next

\* Nothing but a registration and a run touches counters and registrations,
\* and the kinds of sites never change.
LEMMA OthersKeepCounts ==
    ASSUME [Next]_vars
    PROVE  /\ UNCHANGED <<kinds, throwers>>
           /\ \/ UNCHANGED <<count, pending>>
              \/ Register
              \/ \E s \in Site : RunSite(s)
<1>1. CASE EnterBlock \/ EnterLoop \/ EnterTry \/ Skip \/ Register
           \/ LoopBack \/ LoopLeave \/ ExitTry \/ CalleeThrows
  BY <1>1 DEF EnterBlock, EnterLoop, EnterTry, Open, Skip, Register, LoopBack,
              LoopLeave, ExitTry, CalleeThrows, Static
<1>2. CASE ExitBlock \/ FallOff \/ Return \/ Throw
  BY <1>2 DEF ExitBlock, FallOff, Return, Throw, Start, Static
<1>3. CASE \E l \in 1 .. MaxDepth : Break(l) \/ Continue(l)
  BY <1>3 DEF Break, Continue, Start, Static
<1>4. CASE \E k \in 1 .. MaxDepth, p \in 0 .. N : Goto(k, p)
  BY <1>4 DEF Goto, Start, Static
<1>5. CASE \E s \in Site : RunSite(s) \/ SiteThrows(s)
  BY <1>5 DEF RunSite, SiteThrows, Static
<1>6. CASE FinishBlock \/ FinishBreak \/ FinishContinue \/ FinishGoto
           \/ FinishReturn \/ FinishThrow \/ FinishFrame
  BY <1>6 DEF FinishBlock, FinishBreak, FinishContinue, FinishGoto,
              FinishReturn, FinishThrow, FinishFrame, ContinueIn, Static
<1>7. CASE UnwindStep
  BY <1>7 DEF UnwindStep, LeaveFunction, EnterFrame, Start, Catch, NoMatch,
              WildJump, Static
<1>8. CASE UNCHANGED vars
  BY <1>8 DEF vars
<1> QED
  BY <1>1, <1>2, <1>3, <1>4, <1>5, <1>6, <1>7, <1>8
  DEF Next, Statement, CleanupStep

EInv == TInv /\ CountsAreExact

LEMMA EInvInit == Init => EInv
<1> SUFFICES ASSUME Init PROVE EInv
  OBVIOUS
<1>1. TInv
  BY TInvInit
<1>2. \A s : Unrun(s) = 0
  <2> SUFFICES ASSUME NEW s PROVE Unrun(s) = 0
    OBVIOUS
  <2>1. Places(s) = {}
    BY DEF Init, Places
  <2> QED
    BY <1>1, <2>1, PlacesFinite, FS_EmptySet DEF TInv
<1> QED
  BY <1>1, <1>2 DEF EInv, CountsAreExact, Init

LEMMA EInvRegister ==
    ASSUME EInv, Register
    PROVE  CountsAreExact'
<1> DEFINE new == [site |-> at + 1, depth |-> BlockDepth(Len(scopes))]
<1>1. /\ TypeOK /\ at + 1 \in Site /\ new \in Registration /\ kinds' = kinds
      /\ pending' = Append(pending, new)
      /\ count' = [count EXCEPT ![at + 1] = Registered(at + 1)]
      /\ count \in [Site -> 0 .. MaxCount]
  <2>1. TypeOK /\ Len(scopes) \in Nat
    BY ScopeFacts, DepthAssumption DEF EInv, TInv
  <2>2. at + 1 \in Site
    BY <2>1, NAssumption DEF Register, TypeOK, Site
  <2> QED
    BY <2>1, <2>2, BlockDepthType DEF Register, Registration, TypeOK, Static
<1> HIDE DEF new
<1>2. \A s : Unrun(s)' = IF s = new.site THEN Unrun(s) + 1 ELSE Unrun(s)
  BY <1>1, UnrunAppend
<1>3. new.site = at + 1
  BY DEF new
<1> SUFFICES ASSUME NEW s \in Site
             PROVE  IF kinds[s] = "defer" THEN count'[s] = Unrun(s)'
                                          ELSE count'[s] > 0 => Unrun(s)' > 0
  BY <1>1 DEF CountsAreExact
<1>4. /\ Unrun(s) \in Nat /\ count[s] \in 0 .. MaxCount
      /\ IF kinds[s] = "defer" THEN count[s] = Unrun(s)
                               ELSE count[s] > 0 => Unrun(s) > 0
  BY <1>1, PlacesFinite DEF EInv, CountsAreExact
<1>5. count'[s] = IF s = at + 1 THEN (IF kinds[s] = "defer" THEN count[s] + 1 ELSE 1)
                                ELSE count[s]
  BY <1>1 DEF Registered
<1> QED
  BY <1>2, <1>3, <1>4, <1>5, CountAssumption

LEMMA EInvRun ==
    ASSUME EInv, NEW s \in Site, RunSite(s)
    PROVE  CountsAreExact'
<1>1. PICK n \in DOMAIN pending : pending[n].site = s /\ pending' = Without(n)
  BY DEF RunSite, LastOf
<1>2. /\ TypeOK /\ kinds' = kinds /\ count[s] > 0
      /\ count' = [count EXCEPT ![s] = Consumed(s)]
      /\ count \in [Site -> 0 .. MaxCount]
  BY DEF EInv, TInv, TypeOK, RunSite, NextToRun, ArmedIn, Static
<1>3. \A x : Unrun(x)' = IF x = s THEN Unrun(x) - 1 ELSE Unrun(x)
  BY <1>1, <1>2, UnrunWithout
<1> SUFFICES ASSUME NEW x \in Site
             PROVE  IF kinds[x] = "defer" THEN count'[x] = Unrun(x)'
                                          ELSE count'[x] > 0 => Unrun(x)' > 0
  BY <1>2 DEF CountsAreExact
<1>4. /\ Unrun(x) \in Nat /\ count[x] \in 0 .. MaxCount
      /\ IF kinds[x] = "defer" THEN count[x] = Unrun(x)
                               ELSE count[x] > 0 => Unrun(x) > 0
  BY <1>2, PlacesFinite DEF EInv, CountsAreExact
<1>5. count'[x] = IF x = s THEN (IF kinds[x] = "defer" THEN count[x] - 1 ELSE 0)
                           ELSE count[x]
  BY <1>2 DEF Consumed
<1> QED
  BY <1>3, <1>4, <1>5, CountAssumption

LEMMA EInvNext == EInv /\ [Next]_vars => EInv'
<1> SUFFICES ASSUME EInv, [Next]_vars PROVE EInv'
  OBVIOUS
<1>1. CASE UNCHANGED <<count, pending>>
  <2>1. kinds' = kinds /\ \A s : Unrun(s)' = Unrun(s)
    BY <1>1, OthersKeepCounts DEF Unrun
  <2> QED
    BY <1>1, <2>1, TInvNext DEF EInv, CountsAreExact
<1>2. CASE Register \/ \E s \in Site : RunSite(s)
  BY <1>2, EInvRegister, EInvRun, TInvNext DEF EInv
<1> QED
  BY <1>1, <1>2, OthersKeepCounts

\* A defer's counter always says how many of its registrations have not run,
\* and a raised flag stands for a value that has not been destroyed: for all
\* functions, jumps, loops and exceptions.
THEOREM CountersExact == Spec => []CountsAreExact
<1>1. EInv => CountsAreExact
  BY DEF EInv
<1> QED
  BY <1>1, EInvInit, EInvNext, PTL DEF Spec

-----------------------------------------------------------------------------
(* Lemmas about the open scopes *)

\* The scopes that remain are the first k, with at least the text they had.
Kept(k) ==
    /\ Len(scopes') = k
    /\ \A i \in 1 .. k : /\ scopes'[i].kind = scopes[i].kind
                         /\ scopes'[i].mark = scopes[i].mark
                         /\ scopes'[i].prev = scopes[i].prev
                         /\ scopes[i].high <= scopes'[i].high

LEMMA OutsideKept ==
    ASSUME TInv, NEW k \in 1 .. Len(scopes), scopes' = Outside(k)
    PROVE  Kept(k)
<1>1. Len(scopes') = k /\ \A i \in 1 .. k : scopes'[i] = scopes[i]
  BY ScopeFacts, Prefix DEF Outside, TInv, TypeOK
<1> QED
  BY <1>1, ScopeFacts DEF Kept

LEMMA SameKept ==
    ASSUME TInv, scopes' = scopes
    PROVE  Len(scopes) \in 1 .. Len(scopes) /\ Kept(Len(scopes))
  BY ScopeFacts DEF Kept

\* More text makes scopes longer.
LEMMA ReachGrows ==
    ASSUME TInv, NEW n \in 0 .. N
    PROVE  \A i \in 1 .. Len(scopes) : scopes[i].high <= Reach(n)[i].high
<1>1. \A i \in 1 .. Len(scopes) : scopes[i] \in Scope /\ scopes[i].high \in 0 .. N
  BY ScopeFacts
<1>2. \A i \in 1 .. Len(scopes) : Reach(n)[i].high = Larger(scopes[i].high, n)
  BY <1>1, ScopeFacts DEF Reach, Scope
<1> QED
  BY <1>1, <1>2, NAssumption DEF Larger

LEMMA ReachKept ==
    ASSUME TInv, NEW n \in 0 .. N, NEW k \in 1 .. Len(scopes),
           scopes' = SubSeq(Reach(n), 1, k)
    PROVE  Kept(k)
<1> DEFINE grown == Reach(n)
<1>1. /\ grown \in Seq(Scope) /\ Len(grown) = Len(scopes)
      /\ \A i \in 1 .. Len(scopes) : /\ grown[i].kind = scopes[i].kind
                                     /\ grown[i].mark = scopes[i].mark
                                     /\ grown[i].prev = scopes[i].prev
                                     /\ scopes[i].high <= grown[i].high
  BY ReachProperties, ReachGrows DEF TInv
<1> HIDE DEF grown
<1>2. scopes' = SubSeq(grown, 1, k)
  BY DEF grown
<1>3. Len(scopes') = k /\ \A i \in 1 .. k : scopes'[i] = grown[i]
  BY <1>1, <1>2, ScopeFacts, Prefix
<1>4. \A i \in 1 .. k : i \in 1 .. Len(scopes)
  BY ScopeFacts
<1> QED
  BY <1>1, <1>3, <1>4 DEF Kept

LEMMA ReachAllKept ==
    ASSUME TInv, NEW n \in 0 .. N, scopes' = Reach(n)
    PROVE  Len(scopes) \in 1 .. Len(scopes) /\ Kept(Len(scopes))
  BY ReachProperties, ReachGrows, ScopeFacts DEF Kept, TInv

\* A construct that opens is the last scope.
LEMMA OpenAppends ==
    ASSUME TInv, NEW c \in ScopeKind, NEW p \in OuterHandler .. MaxDepth,
           Open(c, p)
    PROVE  /\ Len(scopes') = Len(scopes) + 1
           /\ \A i \in 1 .. Len(scopes) : scopes'[i] = scopes[i]
           /\ scopes'[Len(scopes) + 1].kind = c
           /\ scopes'[Len(scopes) + 1].mark = at
           /\ scopes'[Len(scopes) + 1].high = at
           /\ scopes'[Len(scopes) + 1].prev = p
<1> DEFINE new == [kind |-> c, mark |-> at, high |-> at, prev |-> p]
<1>1. new \in Scope
  BY DEF TInv, TypeOK, Scope
<1>2. /\ Len(scopes') = Len(scopes) + 1
      /\ \A i \in 1 .. Len(scopes) : scopes'[i] = scopes[i]
      /\ scopes'[Len(scopes) + 1] = new
  BY <1>1, AppendProperties DEF Open, TInv, TypeOK
<1> QED
  BY <1>2

Opens == EnterBlock \/ EnterLoop \/ EnterTry

LEMMA OpensAppend ==
    ASSUME TInv, Opens
    PROVE  \E c \in ScopeKind, p \in OuterHandler .. MaxDepth :
               /\ Open(c, p)
               /\ c = "try" => EnterTry /\ p = handler
               /\ c = "block" => EnterBlock
               /\ c = "loop" => EnterLoop
<1>1. handler \in OuterHandler .. MaxDepth /\ OuterHandler \in OuterHandler .. MaxDepth
  BY DepthAssumption DEF TInv, TypeOK, OuterHandler
<1>2. CASE EnterBlock
  BY <1>1, <1>2 DEF EnterBlock, ScopeKind
<1>3. CASE EnterLoop
  BY <1>1, <1>3 DEF EnterLoop, ScopeKind
<1>4. CASE EnterTry
  BY <1>1, <1>4 DEF EnterTry, ScopeKind
<1> QED
  BY <1>2, <1>3, <1>4 DEF Opens

\* Every other step keeps a prefix of the scopes.
LEMMA StepsKeepScopes ==
    ASSUME TInv, [Next]_vars, ~Opens
    PROVE  \E k \in 1 .. Len(scopes) : Kept(k)
<1>0. /\ Len(scopes) \in 1 .. MaxDepth /\ at \in 0 .. N
      /\ job.to \in 0 .. MaxDepth /\ job.label \in 0 .. N
  BY ScopeFacts DEF TInv, TypeOK, Job
<1>1. CASE Skip \/ Register
  <2>1. at + 1 \in 0 .. N /\ scopes' = Reach(at + 1)
    BY <1>0, <1>1, NAssumption DEF Skip, Register
  <2> QED
    BY <2>1, ReachAllKept
<1>2. CASE scopes' = scopes
  BY <1>2, SameKept
<1>3. CASE LoopLeave \/ ExitTry
  <2>1. Len(scopes) - 1 \in 1 .. Len(scopes) /\ scopes' = Outside(Len(scopes) - 1)
    BY <1>0, <1>3 DEF LoopLeave, ExitTry, Top, TInv
  <2> QED
    BY <2>1, OutsideKept
<1>4. CASE FinishBlock \/ FinishBreak \/ FinishContinue \/ FinishGoto
  <2>1. job.to \in 1 .. Len(scopes)
    BY <1>0, <1>4 DEF FinishBlock, FinishBreak, FinishContinue, FinishGoto,
                      Cleaned, TInv, JobHasTarget
  <2>2. \/ scopes' = Outside(job.to)
        \/ scopes' = SubSeq(Reach(job.label), 1, job.to)
    BY <1>4 DEF FinishBlock, FinishBreak, FinishContinue, FinishGoto, ContinueIn
  <2> QED
    BY <1>0, <2>1, <2>2, OutsideKept, ReachKept
<1>5. CASE Catch \/ NoMatch
  <2>1. handler - 1 \in 1 .. Len(scopes) /\ scopes' = Outside(handler - 1)
    BY <1>0, <1>5 DEF Catch, NoMatch, HandlerIsOpen, TInv
  <2> QED
    BY <2>1, OutsideKept
<1>6. CASE \/ ExitBlock \/ FallOff \/ LoopBack \/ Return \/ Throw \/ CalleeThrows
           \/ \E l \in 1 .. MaxDepth : Break(l) \/ Continue(l)
           \/ \E k \in 1 .. MaxDepth, p \in 0 .. N : Goto(k, p)
  <2>1. scopes' = scopes
    BY <1>6 DEF ExitBlock, FallOff, LoopBack, Return, Throw, CalleeThrows, Break,
                Continue, Goto, Start
  <2> QED
    BY <1>2, <2>1
<1>7. CASE \/ \E s \in Site : RunSite(s) \/ SiteThrows(s)
           \/ FinishReturn \/ FinishThrow \/ FinishFrame
           \/ LeaveFunction \/ EnterFrame \/ WildJump \/ UNCHANGED vars
  <2>1. scopes' = scopes
    BY <1>7 DEF RunSite, SiteThrows, FinishReturn, FinishThrow, FinishFrame,
                LeaveFunction, EnterFrame, WildJump, Start, vars
  <2> QED
    BY <1>2, <2>1
<1> QED
  BY <1>1, <1>3, <1>4, <1>5, <1>6, <1>7
  DEF Next, Statement, CleanupStep, UnwindStep, Opens

-----------------------------------------------------------------------------
(***************************************************************************)
(* The frame.  In a function with a frame the handler of the caller is     *)
(* installed again only where the frame has cleaned everything, or the     *)
(* function returns.                                                       *)
(***************************************************************************)
CallersHandlerLast ==
    handler = OuterHandler =>
        \/ mode = "returned"
        \/ mode \in {"unwind", "threw"} /\ \A s \in Site : count[s] = 0

TriesSaveInner ==
    \A i \in 1 .. Len(scopes) :
        scopes[i].kind = "try" => scopes[i].prev # OuterHandler

FrameCleansAll ==
    mode = "cleanup" /\ job.then = "propagate" => job.lo = 0 /\ job.hi = N

FInv ==
    /\ EInv
    /\ HasFrame => /\ CallersHandlerLast /\ TriesSaveInner /\ FrameCleansAll
                   /\ mode = "threw" => handler = OuterHandler

LEMMA FInvInit == Init => FInv
<1> SUFFICES ASSUME Init PROVE FInv
  OBVIOUS
<1>1. Len(scopes) = 1 /\ scopes[1].kind = "block" /\ mode = "run"
  BY DEF Init
<1>2. HasFrame => handler # OuterHandler
  BY DEF Init, BaseHandler, FrameHandler, OuterHandler
<1> QED
  BY <1>1, <1>2, EInvInit
  DEF FInv, CallersHandlerLast, TriesSaveInner, FrameCleansAll

LEMMA TriesSaveInnerNext ==
    ASSUME TInv, TriesSaveInner, CallersHandlerLast, [Next]_vars
    PROVE  TriesSaveInner'
<1>1. CASE Opens
  <2>1. PICK c \in ScopeKind, p \in OuterHandler .. MaxDepth :
            Open(c, p) /\ (c = "try" => p = handler)
    BY <1>1, OpensAppend
  <2>2. handler # OuterHandler
    BY <2>1 DEF Open, CallersHandlerLast
  <2>3. /\ Len(scopes') = Len(scopes) + 1
        /\ \A i \in 1 .. Len(scopes) : scopes'[i] = scopes[i]
        /\ scopes'[Len(scopes) + 1].kind = c
        /\ scopes'[Len(scopes) + 1].prev = p
    BY <2>1, OpenAppends
  <2> QED
    BY <2>1, <2>2, <2>3, ScopeFacts DEF TriesSaveInner
<1>2. CASE ~Opens
  <2>1. PICK k \in 1 .. Len(scopes) : Kept(k)
    BY <1>2, StepsKeepScopes
  <2> QED
    BY <2>1, ScopeFacts, SMTT(20) DEF Kept, TriesSaveInner
<1> QED
  BY <1>1, <1>2

LEMMA FInvStatement ==
    ASSUME FInv, Statement, EInv', TriesSaveInner', HasFrame
    PROVE  FInv'
<1>0. /\ TInv /\ TriesSaveInner /\ CallersHandlerLast /\ HasFrame'
      /\ Len(scopes) \in 1 .. Len(scopes) /\ Len(scopes) \in Nat
  BY ScopeFacts, OthersKeepCounts
  DEF FInv, EInv, Next, HasFrame, HasDefer
<1>1. CASE Opens
  <2>1. mode = "run" /\ mode' = "run" /\ handler' \in {handler, Len(scopes) + 1}
    BY <1>1 DEF Opens, EnterBlock, EnterLoop, EnterTry, Open
  <2>2. handler' # OuterHandler
    BY <1>0, <2>1 DEF CallersHandlerLast, OuterHandler
  <2> QED
    BY <1>0, <2>1, <2>2 DEF FInv, CallersHandlerLast, FrameCleansAll
<1>2. CASE Skip \/ Register \/ LoopBack \/ LoopLeave \/ ExitTry
  <2>1. mode = "run" /\ mode' = "run" /\ handler # OuterHandler
    BY <1>0, <1>2 DEF Skip, Register, LoopBack, LoopLeave, ExitTry,
                      CallersHandlerLast
  <2>2. handler' # OuterHandler
    BY <1>0, <1>2, <2>1 DEF Skip, Register, LoopBack, LoopLeave, ExitTry, Top,
                            TriesSaveInner
  <2> QED
    BY <1>0, <2>1, <2>2 DEF FInv, CallersHandlerLast, FrameCleansAll
<1>3. CASE CalleeThrows
  BY <1>0, <1>3 DEF CalleeThrows, FInv, CallersHandlerLast, FrameCleansAll
<1>4. ASSUME mode = "run", NEW t, t # "propagate", NEW lo, NEW hi, NEW k, NEW l,
             Start(t, lo, hi, k, l)
      PROVE  FInv'
  BY <1>0, <1>4 DEF Start, JobTo, FInv, CallersHandlerLast, FrameCleansAll
<1>5. CASE ExitBlock \/ FallOff \/ Return \/ Throw
  BY <1>4, <1>5 DEF ExitBlock, FallOff, Return, Throw
<1>6. ASSUME NEW l \in 1 .. MaxDepth, Break(l) \/ Continue(l)
      PROVE  FInv'
  BY <1>4, <1>6 DEF Break, Continue
<1>7. ASSUME NEW k \in 1 .. MaxDepth, NEW p \in 0 .. N, Goto(k, p)
      PROVE  FInv'
  BY <1>4, <1>7 DEF Goto
<1> QED
  BY <1>1, <1>2, <1>3, <1>5, <1>6, <1>7 DEF Statement, Opens

LEMMA FInvCleanup ==
    ASSUME FInv, CleanupStep, EInv', TriesSaveInner', HasFrame
    PROVE  FInv'
<1>0. /\ TInv /\ CallersHandlerLast /\ FrameCleansAll /\ HasFrame'
  BY OthersKeepCounts DEF FInv, EInv, Next, HasFrame, HasDefer
<1>1. ASSUME NEW s \in Site, RunSite(s) \/ SiteThrows(s)
      PROVE  FInv'
  BY <1>0, <1>1 DEF RunSite, SiteThrows, NextToRun, FInv, CallersHandlerLast,
                    FrameCleansAll
<1>2. CASE FinishBlock \/ FinishBreak \/ FinishContinue \/ FinishGoto
           \/ FinishThrow
  BY <1>0, <1>2 DEF FinishBlock, FinishBreak, FinishContinue, FinishGoto,
                    FinishThrow, Cleaned, ContinueIn, FInv, CallersHandlerLast,
                    FrameCleansAll
<1>3. CASE FinishReturn
  BY <1>0, <1>3 DEF FinishReturn, FInv, CallersHandlerLast, FrameCleansAll
<1>4. CASE FinishFrame
  <2>1. /\ ArmedIn(0, N) = {} /\ count' = count /\ mode' = "unwind"
        /\ count \in [Site -> 0 .. MaxCount]
    BY <1>0, <1>4 DEF FinishFrame, Cleaned, FrameCleansAll, TInv, TypeOK
  <2>2. \A s \in Site : count'[s] = 0
    BY <2>1, NAssumption, CountAssumption DEF ArmedIn, Site
  <2> QED
    BY <1>0, <2>1, <2>2 DEF FInv, CallersHandlerLast, FrameCleansAll
<1> QED
  BY <1>1, <1>2, <1>3, <1>4 DEF CleanupStep

LEMMA FInvUnwind ==
    ASSUME FInv, UnwindStep, EInv', TriesSaveInner', HasFrame
    PROVE  FInv'
<1>0. /\ TInv /\ CallersHandlerLast /\ TriesSaveInner /\ HasFrame'
  BY OthersKeepCounts DEF FInv, EInv, Next, HasFrame, HasDefer
<1>1. CASE LeaveFunction
  BY <1>0, <1>1 DEF LeaveFunction, FInv, CallersHandlerLast, FrameCleansAll
<1>2. CASE EnterFrame
  BY <1>0, <1>2 DEF EnterFrame, Start, JobTo, FrameHandler, OuterHandler, FInv,
                    CallersHandlerLast, FrameCleansAll
<1>3. CASE Catch \/ NoMatch
  <2>1. handler' # OuterHandler /\ mode' \in {"run", "unwind"}
    BY <1>0, <1>3 DEF Catch, NoMatch, HandlerIsOpen, TriesSaveInner
  <2> QED
    BY <1>0, <2>1 DEF FInv, CallersHandlerLast, FrameCleansAll
<1>4. CASE WildJump
  BY <1>0, <1>4 DEF WildJump, FrameHandler, OuterHandler, FInv,
                    CallersHandlerLast, FrameCleansAll
<1> QED
  BY <1>1, <1>2, <1>3, <1>4 DEF UnwindStep

LEMMA FInvNext == FInv /\ [Next]_vars => FInv'
<1> SUFFICES ASSUME FInv, [Next]_vars PROVE FInv'
  OBVIOUS
<1>1. EInv' /\ TInv /\ (HasFrame' <=> HasFrame)
  BY EInvNext, OthersKeepCounts DEF FInv, EInv, HasFrame, HasDefer
<1>2. CASE ~HasFrame
  BY <1>1, <1>2 DEF FInv
<1>3. CASE HasFrame
  <2>1. TriesSaveInner'
    BY <1>1, <1>3, TriesSaveInnerNext DEF FInv
  <2>2. CASE UNCHANGED vars
    BY <1>1, <1>3, <2>1, <2>2
    DEF vars, FInv, CallersHandlerLast, FrameCleansAll
  <2> QED
    BY <1>1, <1>3, <2>1, <2>2, FInvStatement, FInvCleanup, FInvUnwind DEF Next
<1> QED
  BY <1>2, <1>3

\* An exception that leaves a function with a frame has run every defer body
\* and lowered every flag: for all functions, also those whose jumps leave a
\* try or whose cleanups throw.
THEOREM FramesLoseNone == Spec => []FrameLosesNone
<1>1. FInv => FrameLosesNone
  <2> SUFFICES ASSUME FInv, mode = "threw", HasFrame, NEW s \in Site
               PROVE  count[s] = 0 /\ (kinds[s] = "defer" => Unrun(s) = 0)
    BY DEF FrameLosesNone
  <2>1. count[s] = 0
    BY DEF FInv, CallersHandlerLast
  <2> QED
    BY <2>1 DEF FInv, EInv, CountsAreExact
<1> QED
  BY <1>1, FInvInit, FInvNext, PTL DEF Spec

-----------------------------------------------------------------------------
(* Lemmas about the depth of blocks *)

LEMMA BlocksFinite ==
    ASSUME NEW k \in Nat
    PROVE  IsFiniteSet({i \in 1 .. k : scopes[i].kind = "block"})
<1>1. IsFiniteSet(1 .. k)
  BY FS_Interval
<1> QED
  BY <1>1, FS_Subset

LEMMA BlockDepthGrows ==
    ASSUME NEW j \in Nat, NEW k \in Nat, j <= k
    PROVE  /\ BlockDepth(j) \in Nat /\ BlockDepth(k) \in Nat
           /\ BlockDepth(j) <= BlockDepth(k)
<1> DEFINE B(n) == {i \in 1 .. n : scopes[i].kind = "block"}
<1>0. IsFiniteSet(B(k))
  BY BlocksFinite
<1>1. B(j) \in SUBSET B(k)
  OBVIOUS
<1>2. Cardinality(B(j)) <= Cardinality(B(k))
  BY <1>0, <1>1, FS_Subset
<1> QED
  BY <1>2, BlockDepthType DEF BlockDepth

LEMMA BlockDepthKept ==
    ASSUME TInv, NEW k \in 1 .. Len(scopes), Kept(k)
    PROVE  \A i \in 0 .. k : BlockDepth(i)' = BlockDepth(i)
<1> SUFFICES ASSUME NEW i \in 0 .. k PROVE BlockDepth(i)' = BlockDepth(i)
  OBVIOUS
<1>1. {j \in 1 .. i : scopes'[j].kind = "block"}
         = {j \in 1 .. i : scopes[j].kind = "block"}
  BY ScopeFacts DEF Kept
<1> QED
  BY <1>1 DEF BlockDepth

LEMMA BlockDepthOpened ==
    ASSUME TInv, NEW c \in ScopeKind, NEW p \in OuterHandler .. MaxDepth,
           Open(c, p), NEW L, L = Len(scopes)
    PROVE  /\ \A i \in 0 .. L : BlockDepth(i)' = BlockDepth(i)
           /\ BlockDepth(L + 1)' = IF c = "block" THEN BlockDepth(L) + 1
                                                  ELSE BlockDepth(L)
<1>1. /\ L \in Nat /\ \A i \in 1 .. L : scopes'[i] = scopes[i]
      /\ scopes'[L + 1].kind = c
  BY OpenAppends, ScopeFacts
<1>2. ASSUME NEW i \in 0 .. L PROVE BlockDepth(i)' = BlockDepth(i)
  <2>1. {j \in 1 .. i : scopes'[j].kind = "block"}
           = {j \in 1 .. i : scopes[j].kind = "block"}
    BY <1>1
  <2> QED
    BY <2>1 DEF BlockDepth
<1> DEFINE B == {j \in 1 .. L : scopes[j].kind = "block"}
<1>3. {j \in 1 .. L + 1 : scopes'[j].kind = "block"}
         = IF c = "block" THEN B \cup {L + 1} ELSE B
  BY <1>1
<1>4. IsFiniteSet(B) /\ L + 1 \notin B
  BY <1>1, BlocksFinite
<1>5. Cardinality(B \cup {L + 1}) = Cardinality(B) + 1
  BY <1>4, FS_AddElement
<1> QED
  BY <1>2, <1>3, <1>5 DEF BlockDepth

-----------------------------------------------------------------------------
(* The order of registrations and scopes *)

\* What the invariant says of numbers, for the provers' arithmetic.
LEMMA CFacts ==
    ASSUME CInv
    PROVE  /\ TInv /\ TypeOK /\ HInv
           /\ Len(scopes) \in Nat \ {0} /\ at \in 0 .. N /\ N \in Nat
           /\ \A i \in 1 .. Len(scopes) : /\ scopes[i].mark \in 0 .. N
                                          /\ scopes[i].high \in 0 .. N
           /\ DOMAIN pending = 1 .. Len(pending) /\ Len(pending) \in Nat
           /\ \A n \in DOMAIN pending : /\ pending[n].site \in Site
                                        /\ pending[n].site \in Nat
                                        /\ pending[n].site <= at
                                        /\ count[pending[n].site] = 1
           /\ job.lo \in 0 .. N /\ job.hi \in 0 .. N
<1>1. TInv /\ TypeOK /\ HInv
  BY DEF CInv, HInv, TInv
<1>2. Len(scopes) \in Nat \ {0} /\ at \in 0 .. N /\ N \in Nat
  BY <1>1, ScopeFacts, NAssumption, DepthAssumption DEF TypeOK
<1>3. \A n \in DOMAIN pending : pending[n].site \in Site
  BY <1>1, PendingFacts
<1>4. \A n \in DOMAIN pending : /\ pending[n].site <= at
                                /\ count[pending[n].site] = 1
  BY <1>3 DEF CInv, Owned, ArmedIsPending
<1>5. job.lo \in 0 .. N /\ job.hi \in 0 .. N
  BY <1>1 DEF TypeOK, Job
<1> QED
  BY <1>1, <1>2, <1>3, <1>4, <1>5, ScopeFacts, PendingFacts DEF Site

\* A block that stays open keeps what was registered in it.
LEMMA OwnedByKept ==
    ASSUME TInv, NEW k \in 1 .. Len(scopes), Kept(k)
    PROVE  \A r : \A i \in 1 .. k : OwnedBy(r, i) => OwnedBy(r, i)'
<1> SUFFICES ASSUME NEW r, NEW i \in 1 .. k, OwnedBy(r, i) PROVE OwnedBy(r, i)'
  OBVIOUS
<1>1. BlockDepth(i)' = BlockDepth(i)
  BY BlockDepthKept, ScopeFacts
<1>2. Len(scopes) \in Nat /\ \A j \in i + 1 .. k : j \in 1 .. k /\ j \in i + 1 .. Len(scopes)
  BY ScopeFacts
<1> QED
  BY <1>1, <1>2 DEF OwnedBy, Kept

\* Scopes can be closed that own nothing.
LEMMA OrderAfter ==
    ASSUME CInv, TInv', NEW k \in 1 .. Len(scopes), Kept(k),
           UNCHANGED <<count, pending>>,
           \A i \in 1 .. k : scopes[i].mark <= at',
           \A n \in DOMAIN pending :
               /\ pending[n].site <= at'
               /\ \A i \in k + 1 .. Len(scopes) : ~OwnedBy(pending[n], i)
    PROVE  MarksInOrder' /\ Owned' /\ InTextOrder' /\ ArmedIsPending'
<1>1. MarksInOrder'
  <2>1. \A i \in 1 .. k : i \in 1 .. Len(scopes)
    BY CFacts
  <2>2. \A i \in 1 .. k : scopes'[i].mark <= scopes'[i].high
    <3> SUFFICES ASSUME NEW i \in 1 .. k PROVE scopes'[i].mark <= scopes'[i].high
      OBVIOUS
    <3>1. /\ scopes[i].mark <= scopes[i].high /\ scopes[i].high <= scopes'[i].high
          /\ scopes'[i].mark = scopes[i].mark
      BY <2>1 DEF CInv, MarksInOrder, Kept
    <3>2. scopes'[i].high \in 0 .. N
      <4>1. scopes' \in Seq(Scope) /\ i \in 1 .. Len(scopes')
        BY DEF Kept, TInv, TypeOK
      <4>2. scopes'[i] \in Scope
        BY <4>1, ElementOfSeq
      <4> QED
        BY <4>2 DEF Scope
    <3> QED
      BY <2>1, <3>1, <3>2, CFacts
  <2>3. \A i \in 1 .. k : \A j \in i .. k : scopes'[i].mark <= scopes'[j].mark
    BY <2>1, CFacts DEF CInv, MarksInOrder, Kept
  <2> QED
    BY <2>1, <2>2, <2>3 DEF MarksInOrder, Kept
<1>2. Owned'
  <2> SUFFICES ASSUME NEW n \in DOMAIN pending
               PROVE  \E i \in 1 .. k : OwnedBy(pending[n], i)'
    BY DEF Owned, Kept
  <2>0. PICK r : r = pending[n]
    OBVIOUS
  <2>1. PICK i \in 1 .. Len(scopes) : OwnedBy(r, i)
    BY <2>0 DEF CInv, Owned
  <2>2. i \in 1 .. k
    BY <2>0, <2>1, CFacts
  <2>3. OwnedBy(r, i)'
    BY <2>1, <2>2, CFacts, OwnedByKept
  <2> QED
    BY <2>0, <2>2, <2>3
<1>3. InTextOrder' /\ ArmedIsPending'
  BY DEF CInv, InTextOrder, ArmedIsPending
<1> QED
  BY <1>1, <1>2, <1>3

-----------------------------------------------------------------------------
(* The steps of a function of PlainFunctions *)

LEMMA CInvInit ==
    ASSUME PlainFunctions, Init
    PROVE  CInv
<1>1. HInv /\ throwers = {}
  BY HInvInit DEF Init, PlainFunctions
<1>2. /\ Len(scopes) = 1 /\ scopes[1].mark = 0 /\ scopes[1].high = 0
      /\ at = 0 /\ pending = << >> /\ mode = "run"
      /\ DOMAIN pending = {}
      /\ count = [s \in Site |-> 0]
  BY DEF Init
<1> QED
  BY <1>1, <1>2 DEF CInv, MarksInOrder, Owned, InTextOrder, ArmedIsPending,
                    JobCleansEnough, UnwindsClean, Ended

\* Statements go on after some scopes have been closed.
LEMMA CInvRun ==
    ASSUME CInv, HInv', NEW k \in 1 .. Len(scopes), Kept(k), mode' = "run",
           UNCHANGED <<throwers, count, pending>>,
           \A i \in 1 .. k : scopes[i].mark <= at',
           \A n \in DOMAIN pending :
               /\ pending[n].site <= at'
               /\ \A i \in k + 1 .. Len(scopes) : ~OwnedBy(pending[n], i)
    PROVE  CInv'
<1>1. MarksInOrder' /\ Owned' /\ InTextOrder' /\ ArmedIsPending'
  BY OrderAfter DEF HInv
<1>2. throwers' = {}
  BY DEF CInv
<1> QED
  BY <1>1, <1>2 DEF CInv, JobCleansEnough, UnwindsClean, Ended

LEMMA CInvOpen ==
    ASSUME CInv, HInv', Opens
    PROVE  CInv'
<1>0. PICK L : L = Len(scopes)
  OBVIOUS
<1>1. PICK c \in ScopeKind, p \in OuterHandler .. MaxDepth : Open(c, p)
  BY CFacts, OpensAppend
<1>2. /\ mode' = "run" /\ UNCHANGED <<throwers, count, pending, at>>
  BY <1>1 DEF Open, Static
<1>3. /\ Len(scopes') = L + 1 /\ L \in Nat \ {0}
      /\ \A i \in 1 .. L : scopes'[i] = scopes[i]
      /\ scopes'[L + 1].mark = at /\ scopes'[L + 1].high = at
  BY <1>0, <1>1, CFacts, OpenAppends
<1>4. MarksInOrder'
  <2> SUFFICES ASSUME NEW i \in 1 .. L + 1
               PROVE  /\ scopes'[i].mark <= at /\ scopes'[i].mark <= scopes'[i].high
                      /\ \A j \in i .. L + 1 : scopes'[i].mark <= scopes'[j].mark
    BY <1>2, <1>3 DEF MarksInOrder
  <2>1. CASE i = L + 1
    BY <1>3, <2>1, CFacts
  <2>2. CASE i \in 1 .. L
    <3>1. /\ scopes[i].mark <= at /\ scopes[i].mark <= scopes[i].high
          /\ \A j \in i .. L : scopes[i].mark <= scopes[j].mark
      BY <1>0, <2>2 DEF CInv, MarksInOrder
    <3>2. \A j \in i .. L + 1 : j = L + 1 \/ (j \in i .. L /\ j \in 1 .. L)
      BY <1>3, <2>2
    <3> QED
      BY <1>3, <2>2, <3>1, <3>2
  <2> QED
    BY <1>3, <2>1, <2>2
<1>5. Owned'
  <2> SUFFICES ASSUME NEW n \in DOMAIN pending
               PROVE  /\ pending[n].site <= at
                      /\ \E i \in 1 .. L + 1 : OwnedBy(pending[n], i)'
    BY <1>2, <1>3 DEF Owned
  <2>0. PICK r : r = pending[n]
    OBVIOUS
  <2>1. PICK i \in 1 .. L : OwnedBy(r, i) /\ r.site <= at
    BY <1>0, <2>0 DEF CInv, Owned
  <2>2. BlockDepth(i)' = BlockDepth(i)
    BY <1>0, <1>1, <1>3, CFacts, BlockDepthOpened, SMTT(20)
  <2>3. \A j \in i + 1 .. L + 1 : j = L + 1 \/ (j \in i + 1 .. L /\ j \in 1 .. L)
    BY <1>3
  <2>4. OwnedBy(r, i)'
    BY <1>0, <1>3, <2>1, <2>2, <2>3 DEF OwnedBy
  <2>5. i \in 1 .. L + 1 /\ r = pending'[n]
    BY <1>2, <1>3, <2>0
  <2> QED
    BY <2>0, <2>1, <2>4, <2>5
<1>6. InTextOrder' /\ ArmedIsPending' /\ throwers' = {}
  BY <1>2 DEF CInv, InTextOrder, ArmedIsPending
<1> QED
  BY <1>2, <1>4, <1>5, <1>6 DEF CInv, JobCleansEnough, UnwindsClean, Ended

\* A site is registered in the innermost block, which nothing lies inside of.
LEMMA CInvRegister ==
    ASSUME PlainFunctions, CInv, HInv', Register
    PROVE  CInv'
<1>0. PICK L, K, new : /\ L = Len(scopes) /\ K = Len(pending)
                       /\ new = [site |-> at + 1, depth |-> BlockDepth(L)]
  OBVIOUS
<1>1. /\ at + 1 \in Site /\ at' = at + 1 /\ scopes[L].kind = "block"
      /\ mode' = "run" /\ throwers' = {} /\ kinds' = kinds
      /\ scopes' = Reach(at + 1)
      /\ count' = [count EXCEPT ![at + 1] = Registered(at + 1)]
      /\ pending' = Append(pending, new)
      /\ new.site = at + 1 /\ new.depth = BlockDepth(L)
      /\ L \in Nat \ {0} /\ K \in Nat /\ DOMAIN pending = 1 .. K /\ at \in Nat
  BY <1>0, CFacts DEF Register, PlainFunctions, CInv, Static, Top, Site
<1>8. \A n \in 1 .. K : /\ pending[n].site <= at /\ pending[n].site \in Nat
                         /\ pending[n].site < at + 1
  <2>1. \A n \in DOMAIN pending : pending[n].site <= at /\ pending[n].site \in Nat
    BY CFacts
  <2> QED
    BY <1>1, <2>1
<1>2. Kept(L) /\ L \in 1 .. L
  BY <1>0, <1>1, CFacts, ReachAllKept DEF Site
<1>3. /\ DOMAIN pending' = 1 .. K + 1 /\ pending'[K + 1] = new
      /\ \A n \in 1 .. K : pending'[n] = pending[n]
  <2>1. pending \in Seq(Registration) /\ new \in Registration
    BY <1>0, <1>1, CFacts, BlockDepthType DEF Registration, TypeOK
  <2> QED
    BY <1>0, <1>1, <2>1, AppendProperties, LenProperties
<1>4. MarksInOrder'
  <2> SUFFICES ASSUME NEW i \in 1 .. L
               PROVE  /\ scopes'[i].mark <= at + 1
                      /\ scopes'[i].mark <= scopes'[i].high
                      /\ \A j \in i .. L : scopes'[i].mark <= scopes'[j].mark
    BY <1>1, <1>2 DEF MarksInOrder, Kept
  <2>1. scopes'[i].high \in 0 .. N
    <3>1. scopes' \in Seq(Scope) /\ i \in 1 .. Len(scopes')
      BY <1>2 DEF HInv, TInv, TypeOK, Kept
    <3>2. scopes'[i] \in Scope
      BY <3>1, ElementOfSeq
    <3> QED
      BY <3>2 DEF Scope
  <2>2. /\ scopes[i].mark <= at /\ scopes[i].mark <= scopes[i].high
        /\ \A j \in i .. L : scopes[i].mark <= scopes[j].mark
    BY <1>0 DEF CInv, MarksInOrder
  <2>3. \A j \in i .. L : j \in 1 .. L
    BY <1>1
  <2>4. /\ scopes'[i].mark = scopes[i].mark
        /\ scopes[i].high <= scopes'[i].high
        /\ \A j \in i .. L : scopes'[j].mark = scopes[j].mark
    BY <1>2, <2>3 DEF Kept
  <2>5. /\ scopes[i].mark \in Nat /\ scopes[i].high \in Nat /\ at \in Nat
        /\ scopes'[i].high \in Nat
    <3>1. scopes[i].mark \in 0 .. N /\ scopes[i].high \in 0 .. N /\ N \in Nat
      BY <1>0, CFacts
    <3> QED
      BY <1>1, <2>1, <3>1
  <2> QED
    BY <2>2, <2>4, <2>5
<1>5. Owned'
  <2> SUFFICES ASSUME NEW n \in 1 .. K + 1
               PROVE  /\ pending'[n].site <= at + 1
                      /\ \E i \in 1 .. L : OwnedBy(pending[n], i)'
    BY <1>1, <1>2, <1>3 DEF Owned, Kept
  <2>0. PICK r : r = pending'[n]
    OBVIOUS
  <2>1. CASE n \in 1 .. K
    <3>1. PICK i \in 1 .. L : OwnedBy(r, i)
      BY <1>0, <1>1, <1>3, <2>0, <2>1 DEF CInv, Owned
    <3>2. OwnedBy(r, i)'
      BY <1>0, <1>2, <3>1, CFacts, OwnedByKept
    <3>3. r.site <= at + 1
      BY <1>1, <1>3, <1>8, <2>0, <2>1
    <3> QED
      BY <2>0, <3>2, <3>3
  <2>2. CASE n = K + 1
    <3>1. BlockDepth(L)' = BlockDepth(L)
      BY <1>0, <1>1, <1>2, CFacts, BlockDepthKept
    <3>2. scopes[L].mark <= at /\ scopes[L].mark \in Nat /\ at \in Nat
      BY <1>0, <1>1, CFacts DEF CInv, MarksInOrder
    <3>3. r = new
      BY <1>3, <2>0, <2>2
    <3>4. OwnedBy(r, L)'
      BY <1>1, <1>2, <3>1, <3>2, <3>3 DEF OwnedBy, Kept
    <3> QED
      BY <1>1, <1>2, <2>0, <3>2, <3>3, <3>4
  <2> QED
    BY <1>1, <2>1, <2>2
<1>6. InTextOrder'
  BY <1>1, <1>3, <1>8 DEF CInv, InTextOrder
<1>7. ArmedIsPending'
  <2>1. \A n \in 1 .. K : pending[n].site # at + 1
    BY <1>1, <1>8
  <2>2. count[at + 1] = 0 /\ count \in [Site -> 0 .. MaxCount]
    BY <1>1, <2>1, CFacts DEF CInv, ArmedIsPending, TypeOK
  <2>3. count'[at + 1] = 1
    BY <1>1, <2>2 DEF Registered
  <2> QED
    BY <1>1, <1>3, <2>1, <2>2, <2>3 DEF CInv, ArmedIsPending
<1> QED
  BY <1>1, <1>4, <1>5, <1>6, <1>7 DEF CInv, JobCleansEnough, UnwindsClean, Ended

\* A cleanup starts with everything as it was.
LEMMA CInvStart ==
    ASSUME CInv, HInv', JobCleansEnough', mode' = "cleanup",
           UNCHANGED <<throwers, at, count, scopes, pending>>
    PROVE  CInv'
<1>1. Len(scopes) \in 1 .. Len(scopes) /\ Kept(Len(scopes))
  BY CFacts, SameKept
<1>2. MarksInOrder' /\ Owned' /\ InTextOrder' /\ ArmedIsPending'
  <2>1. /\ \A i \in 1 .. Len(scopes) : scopes[i].mark <= at'
        /\ \A n \in DOMAIN pending : pending[n].site <= at'
        /\ \A i \in Len(scopes) + 1 .. Len(scopes) : FALSE
    BY CFacts DEF CInv, MarksInOrder, Owned
  <2> QED
    BY <1>1, <2>1, OrderAfter DEF HInv
<1> QED
  BY <1>2 DEF CInv, UnwindsClean, Ended

LEMMA CInvJump ==
    ASSUME CInv, HInv', NEW then \in Then \ {"none"}, NEW lo \in Nat, NEW hi \in Nat,
           NEW to \in Nat, NEW label \in Nat, Start(then, lo, hi, to, label),
           at <= hi,
           then \in {"exit", "break", "continue", "goto"} =>
               \A i \in to + 1 .. Len(scopes) :
                   scopes[i].kind = "block" => lo <= scopes[i].mark,
           then = "break" => lo <= scopes[to + 1].mark,
           then = "continue" => lo <= scopes[to].mark,
           then = "goto" => at <= label,
           then = "throw" =>
               \/ lo = 0
               \/ \E t \in 1 .. Len(scopes) :
                      InnermostTry(t) /\ lo <= scopes[t].mark,
           then \in {"return", "propagate"} => lo = 0
    PROVE  CInv'
<1>1. /\ job'.then = then /\ job'.lo = lo /\ job'.hi = hi
      /\ job'.to = to /\ job'.label = label /\ mode' = "cleanup"
      /\ UNCHANGED <<throwers, at, count, scopes, pending>>
  BY DEF Start, JobTo, Static
<1>2. \A t : InnermostTry(t)' <=> InnermostTry(t)
  BY <1>1 DEF InnermostTry, Tries
<1>3. JobCleansEnough'
  BY <1>1, <1>2 DEF JobCleansEnough
<1> QED
  BY <1>1, <1>3, CInvStart

\* Where break and continue lead.
LEMMA CInvLoop ==
    ASSUME CInv, HInv', NEW l \in 1 .. Len(scopes), NEW then \in {"break", "continue"},
           Start(then, scopes[l].mark, at, IF then = "break" THEN l - 1 ELSE l, 0)
    PROVE  CInv'
<1>0. PICK to, lo : /\ to = (IF then = "break" THEN l - 1 ELSE l)
                    /\ lo = scopes[l].mark
  OBVIOUS
<1>1. /\ lo \in Nat /\ at \in Nat /\ to \in Nat /\ 0 \in Nat
      /\ then \in Then \ {"none"} /\ to \in 0 .. Len(scopes) /\ at <= at
  BY <1>0, CFacts DEF Then
<1>2. \A i \in l .. Len(scopes) : lo <= scopes[i].mark
  BY <1>0 DEF CInv, MarksInOrder
<1>3. \A i \in to + 1 .. Len(scopes) : i \in l .. Len(scopes)
  BY <1>0, CFacts
<1>4. then = "break" => to + 1 = l
  BY <1>0
<1>5. then = "continue" => to = l
  BY <1>0
<1>6. lo <= scopes[l].mark
  BY <1>0, <1>1
<1>7. \A i \in to + 1 .. Len(scopes) : scopes[i].kind = "block" => lo <= scopes[i].mark
  BY <1>2, <1>3
<1>8. Start(then, lo, at, to, 0)
  BY <1>0
<1> HIDE DEF CInv
<1> QED
  BY <1>1, <1>4, <1>5, <1>6, <1>7, <1>8, CInvJump

LEMMA CInvGoto ==
    ASSUME PlainFunctions, CInv, HInv', NEW k \in 1 .. MaxDepth, NEW p \in 0 .. N,
           Goto(k, p)
    PROVE  CInv'
<1>1. /\ k \in 1 .. Len(scopes) /\ at <= p /\ LabelsCollected
      /\ at \in Nat /\ k \in Nat /\ p \in Nat /\ Len(scopes) \in Nat
  BY CFacts DEF Goto, PlainFunctions
<1>2. "goto" \in Then \ {"none"} /\ at <= at
  BY <1>1 DEF Then
<1>3. CASE LeavesBlock(k)
  <2>1. PICK i \in 1 .. MaxDepth :
            FirstBlockLeft(i, k) /\ Start("goto", scopes[i].mark, at, k, p)
    BY <1>1, <1>3 DEF Goto
  <2>0. PICK lo : lo = scopes[i].mark
    OBVIOUS
  <2>2. i \in k + 1 .. Len(scopes) /\ i \in 1 .. Len(scopes) /\ lo \in Nat
    BY <1>1, <2>0, <2>1, CFacts DEF FirstBlockLeft
  <2>3. \A j \in k + 1 .. Len(scopes) :
            scopes[j].kind = "block" => lo <= scopes[j].mark
    <3> SUFFICES ASSUME NEW j \in k + 1 .. Len(scopes), scopes[j].kind = "block"
                 PROVE  lo <= scopes[j].mark
      OBVIOUS
    <3>1. j \in i .. Len(scopes)
      BY <1>1, <2>1, <2>2 DEF FirstBlockLeft
    <3> QED
      BY <2>0, <2>2, <3>1 DEF CInv, MarksInOrder
  <2>4. Start("goto", lo, at, k, p)
    BY <2>0, <2>1
  <2> QED
    BY <1>1, <1>2, <2>2, <2>3, <2>4, CInvJump
<1>4. CASE ~LeavesBlock(k)
  <2>1. Start("goto", at, at, k, p)
    BY <1>4 DEF Goto
  <2>2. \A j \in k + 1 .. Len(scopes) :
            scopes[j].kind = "block" => at <= scopes[j].mark
    BY <1>4 DEF LeavesBlock
  <2> QED
    BY <1>1, <1>2, <2>1, <2>2, CInvJump
<1> QED
  BY <1>3, <1>4

\* A scope that is no block owns nothing.
LEMMA OnlyBlocksOwn ==
    ASSUME NEW r, NEW i, scopes[i].kind # "block"
    PROVE  ~OwnedBy(r, i)
  BY DEF OwnedBy

LEMMA CInvStatement ==
    ASSUME PlainFunctions, CInv, HInv', Statement
    PROVE  CInv'
<1>0. PICK L : L = Len(scopes)
  OBVIOUS
<1>00. /\ TInv /\ L \in Nat \ {0} /\ L \in 1 .. L /\ at \in Nat /\ N \in Nat
       /\ 0 \in Nat /\ at <= at /\ at <= N
       /\ \A i \in 1 .. L : scopes[i].mark \in Nat /\ scopes[i].high \in Nat
       /\ \A i \in 1 .. L : /\ scopes[i].mark <= at
                            /\ scopes[i].mark <= scopes[i].high
       /\ \A i \in 1 .. L : scopes[i].mark <= scopes[L].mark
       /\ \A n \in DOMAIN pending : /\ pending[n].site \in Nat
                                    /\ pending[n].site <= at
  <2>1. TInv /\ L \in Nat \ {0} /\ at \in 0 .. N /\ N \in Nat
    BY <1>0, CFacts
  <2>2. \A i \in 1 .. L : scopes[i].mark \in 0 .. N /\ scopes[i].high \in 0 .. N
    BY <1>0, CFacts
  <2>3. \A i \in 1 .. L : L \in i .. L
    BY <2>1
  <2> QED
    BY <1>0, <2>1, <2>2, <2>3, CFacts DEF CInv, MarksInOrder
<1>1. CASE Opens
  BY <1>1, CInvOpen
<1>2. CASE Register
  BY <1>2, CInvRegister
<1>3. CASE Skip
  <2>1. /\ mode' = "run" /\ UNCHANGED <<throwers, count, pending>>
        /\ scopes' = Reach(at + 1) /\ at' = at + 1 /\ at + 1 \in 0 .. N
    BY <1>00, <1>3 DEF Skip, Static
  <2>2. Kept(L)
    BY <1>0, <1>00, <2>1, ReachAllKept
  <2>3. /\ \A i \in 1 .. L : scopes[i].mark <= at'
        /\ \A n \in DOMAIN pending : pending[n].site <= at'
        /\ \A i \in L + 1 .. L : FALSE
    BY <1>00, <2>1
  <2> QED
    BY <1>0, <1>00, <2>1, <2>2, <2>3, CInvRun
<1>4. CASE LoopBack
  <2>1. /\ mode' = "run" /\ UNCHANGED <<throwers, count, pending, scopes>>
        /\ scopes[L].kind = "loop" /\ at' = scopes[L].mark
    BY <1>0, <1>4 DEF LoopBack, Static, Top
  <2>2. Kept(L)
    BY <1>0, <1>00, <2>1, SameKept
  <2>3. \A n \in DOMAIN pending : pending[n].site <= scopes[L].mark
    <3> SUFFICES ASSUME NEW n \in DOMAIN pending
                 PROVE  pending[n].site <= scopes[L].mark
      OBVIOUS
    <3>1. PICK i \in 1 .. L : OwnedBy(pending[n], i)
      BY <1>0 DEF CInv, Owned
    <3>2. L \in i + 1 .. L
      BY <1>00, <2>1, <3>1 DEF OwnedBy
    <3> QED
      BY <1>0, <3>1, <3>2 DEF OwnedBy
  <2>4. \A i \in L + 1 .. L : FALSE
    BY <1>00
  <2> QED
    BY <1>0, <1>00, <2>1, <2>2, <2>3, <2>4, CInvRun
<1>5. CASE LoopLeave \/ ExitTry
  <2>1. /\ mode' = "run" /\ UNCHANGED <<throwers, count, pending>>
        /\ scopes' = Outside(L - 1) /\ scopes[L].kind # "block"
        /\ \/ at' = at
           \/ at' = scopes[L].high /\ at = scopes[L].mark
    BY <1>0, <1>5 DEF LoopLeave, ExitTry, Static, Top
  <2>2. L - 1 \in 1 .. L
    BY <1>00, <2>1 DEF TInv
  <2>3. Kept(L - 1)
    BY <1>0, <1>00, <2>1, <2>2, OutsideKept
  <2>4. at <= at' /\ at' \in Nat
    BY <1>00, <2>1
  <2>5. \A i \in 1 .. L - 1 : scopes[i].mark <= at'
    BY <1>00, <2>2, <2>4
  <2>6. \A n \in DOMAIN pending : pending[n].site <= at'
    BY <1>00, <2>4
  <2>7. \A r : \A i \in (L - 1) + 1 .. L : ~OwnedBy(r, i)
    <3>1. \A i \in (L - 1) + 1 .. L : i = L
      BY <1>00
    <3> QED
      BY <2>1, <3>1, OnlyBlocksOwn
  <2> QED
    BY <1>0, <2>1, <2>2, <2>3, <2>5, <2>6, <2>7, CInvRun
<1>6. CASE ExitBlock
  <2>0. PICK lo, to : lo = scopes[L].mark /\ to = L - 1
    OBVIOUS
  <2>1. Start("exit", lo, at, to, 0) /\ lo \in Nat /\ to \in Nat
    BY <1>0, <1>00, <1>6, <2>0 DEF ExitBlock, Top
  <2>2. \A i \in to + 1 .. Len(scopes) : i = L /\ lo <= scopes[i].mark
    BY <1>0, <1>00, <2>0
  <2>3. "exit" \in Then \ {"none"}
    BY DEF Then
  <2> QED
    BY <1>00, <2>1, <2>2, <2>3, CInvJump
<1>7. CASE FallOff \/ Return
  <2>1. \E hi \in Nat : at <= hi /\ Start("return", 0, hi, 0, 0)
    BY <1>00, <1>7 DEF FallOff, Return
  <2>2. "return" \in Then \ {"none"}
    BY DEF Then
  <2> QED
    BY <1>00, <2>1, <2>2, CInvJump
<1>8. CASE Throw
  <2>1. \E lo \in Nat :
            /\ Start("throw", lo, at, 0, 0)
            /\ \/ lo = 0
               \/ \E t \in 1 .. Len(scopes) :
                      InnermostTry(t) /\ lo <= scopes[t].mark
    <3>1. CASE Start("throw", 0, at, 0, 0)
      BY <1>00, <3>1
    <3>2. ASSUME NEW t \in 1 .. MaxDepth, InnermostTry(t),
                 Start("throw", scopes[t].mark, at, 0, 0)
          PROVE  \E lo \in Nat :
                     /\ Start("throw", lo, at, 0, 0)
                     /\ \E u \in 1 .. Len(scopes) :
                            InnermostTry(u) /\ lo <= scopes[u].mark
      <4>1. t \in 1 .. Len(scopes) /\ scopes[t].mark \in Nat
        BY <1>0, <1>00, <3>2 DEF InnermostTry, Tries
      <4>2. scopes[t].mark <= scopes[t].mark
        BY <4>1
      <4> QED
        BY <3>2, <4>1, <4>2
    <3> QED
      BY <1>8, <3>1, <3>2 DEF Throw
  <2>2. "throw" \in Then \ {"none"}
    BY DEF Then
  <2> QED
    BY <1>00, <2>1, <2>2, CInvJump
<1>9. ASSUME NEW l \in 1 .. MaxDepth, Break(l) \/ Continue(l)
      PROVE  CInv'
  BY <1>9, CInvLoop DEF Break, Continue, InnermostLoop
<1>10. ASSUME NEW k \in 1 .. MaxDepth, NEW p \in 0 .. N, Goto(k, p)
       PROVE  CInv'
  BY <1>10, CInvGoto
<1>11. CASE CalleeThrows
  <2>1. /\ mode' = "unwind"
        /\ UNCHANGED <<throwers, at, count, scopes, handler, pending>>
        /\ handler \in OuterHandler .. MaxDepth
        /\ ~(handler > FrameHandler)
        /\ handler = OuterHandler => pending = << >>
    BY <1>00, <1>11 DEF CalleeThrows, MayUnwindTo, PlainFunctions, Static, TInv,
                        TypeOK
  <2>2. Kept(L)
    BY <1>0, <1>00, <2>1, SameKept
  <2>3. /\ \A i \in 1 .. L : scopes[i].mark <= at'
        /\ \A n \in DOMAIN pending : pending[n].site <= at'
        /\ \A i \in L + 1 .. L : FALSE
    BY <1>00, <2>1
  <2>4. MarksInOrder' /\ Owned' /\ InTextOrder' /\ ArmedIsPending'
    BY <1>0, <1>00, <2>1, <2>2, <2>3, OrderAfter DEF HInv
  <2> QED
    BY <2>1, <2>4 DEF CInv, JobCleansEnough, UnwindsClean, Ended
<1> QED
  BY <1>1, <1>2, <1>3, <1>4, <1>5, <1>6, <1>7, <1>8, <1>9, <1>10, <1>11
  DEF Statement, Opens

-----------------------------------------------------------------------------
(* Cleanups run *)

\* The site that runs next holds the last registration.
LEMMA RunsLast ==
    ASSUME CInv, NEW s \in Site, NextToRun(s), NEW n, LastOf(s, n)
    PROVE  n = Len(pending) /\ n \in 1 .. Len(pending) /\ pending[n].site = s
<1>1. PICK K : K = Len(pending)
  OBVIOUS
<1>2. /\ K \in Nat /\ DOMAIN pending = 1 .. K /\ n \in 1 .. K
      /\ pending[n].site = s /\ s \in Nat
  BY <1>1, CFacts DEF LastOf, Site
<1>3. ASSUME n # K PROVE FALSE
  <2>1. PICK t : t = pending[K].site
    OBVIOUS
  <2>2. K \in 1 .. K /\ n < K
    BY <1>2, <1>3
  <2>3. s < t
    BY <1>2, <2>1, <2>2 DEF CInv, InTextOrder
  <2>4. t \in Site /\ t \in Nat /\ t <= at /\ count[t] = 1
    BY <1>2, <2>1, <2>2, CFacts
  <2>5. at <= job.hi /\ job.lo < s
    BY DEF CInv, JobCleansEnough, NextToRun, ArmedIn
  <2>6. job.lo \in Nat /\ job.hi \in Nat /\ at \in Nat
    BY CFacts
  <2>7. t \in ArmedIn(job.lo, job.hi)
    BY <1>2, <2>3, <2>4, <2>5, <2>6 DEF ArmedIn
  <2>8. t <= s
    BY <2>7 DEF NextToRun
  <2> QED
    BY <1>2, <2>3, <2>4, <2>8
<1> QED
  BY <1>1, <1>2, <1>3

LEMMA CInvRunSite ==
    ASSUME CInv, HInv', NEW s \in Site, RunSite(s)
    PROVE  CInv'
<1>1. PICK n \in DOMAIN pending : LastOf(s, n) /\ pending' = Without(n)
  BY DEF RunSite
<1>2. PICK K, L : K = Len(pending) /\ L = Len(scopes)
  OBVIOUS
<1>3. /\ n = K /\ K \in 1 .. K /\ pending[K].site = s /\ K \in Nat
      /\ DOMAIN pending = 1 .. K /\ s \in Nat /\ L \in 1 .. L
  BY <1>1, <1>2, CFacts, RunsLast DEF RunSite, Site
<1>4. /\ DOMAIN pending' = 1 .. K - 1
      /\ \A k \in 1 .. K - 1 : pending'[k] = pending[k] /\ k \in 1 .. K /\ k < K
  <2>1. TypeOK
    BY CFacts
  <2> QED
    BY <1>1, <1>2, <1>3, <2>1, WithoutFacts
<1>5. /\ UNCHANGED <<throwers, kinds, at, scopes, handler, mode, job>>
      /\ count' = [count EXCEPT ![s] = Consumed(s)]
      /\ mode = "cleanup" /\ count \in [Site -> 0 .. MaxCount]
  BY CFacts DEF RunSite, NextToRun, Static, TypeOK
<1>6. MarksInOrder'
  BY <1>5 DEF CInv, MarksInOrder
<1>7. Owned'
  <2> SUFFICES ASSUME NEW k \in 1 .. K - 1
               PROVE  /\ pending'[k].site <= at
                      /\ \E i \in 1 .. L : OwnedBy(pending[k], i)'
    BY <1>2, <1>4, <1>5 DEF Owned
  <2>0. PICK r : r = pending[k]
    OBVIOUS
  <2>1. PICK i \in 1 .. L : OwnedBy(r, i) /\ r.site <= at
    BY <1>2, <1>3, <1>4, <2>0 DEF CInv, Owned
  <2>2. Kept(L)
    BY <1>2, <1>5, CFacts, SameKept
  <2>3. OwnedBy(r, i)'
    BY <1>2, <1>3, <2>1, <2>2, CFacts, OwnedByKept
  <2> QED
    BY <1>4, <2>0, <2>1, <2>3
<1>8. InTextOrder'
  BY <1>3, <1>4 DEF CInv, InTextOrder
<1>9. ArmedIsPending'
  <2>1. count[s] = 1
    BY <1>3, CFacts
  <2>2. count'[s] = 0 /\ \A x \in Site : x # s => count'[x] = count[x]
    BY <1>5, <2>1 DEF Consumed
  <2>3. \A k \in 1 .. K - 1 : pending'[k].site # s
    <3> SUFFICES ASSUME NEW k \in 1 .. K - 1 PROVE pending'[k].site # s
      OBVIOUS
    <3>1. pending[k].site < s /\ pending[k].site \in Nat
      BY <1>3, <1>4, CFacts DEF CInv, InTextOrder
    <3> QED
      BY <1>3, <1>4, <3>1
  <2> SUFFICES ASSUME NEW x \in Site
               PROVE  count'[x] = IF \E k \in 1 .. K - 1 : pending'[k].site = x
                                  THEN 1 ELSE 0
    BY <1>4 DEF ArmedIsPending
  <2>4. CASE x = s
    BY <2>2, <2>3, <2>4
  <2>5. CASE x # s
    <3>1. (\E k \in 1 .. K : pending[k].site = x)
              <=> (\E k \in 1 .. K - 1 : pending'[k].site = x)
      <4>1. \A k \in 1 .. K : k = K \/ k \in 1 .. K - 1
        BY <1>3
      <4> QED
        BY <1>3, <1>4, <2>5, <4>1
    <3> QED
      BY <1>3, <2>2, <2>5, <3>1 DEF CInv, ArmedIsPending
  <2> QED
    BY <2>4, <2>5
<1>10. JobCleansEnough'
  <2>1. \A t : InnermostTry(t)' <=> InnermostTry(t)
    BY <1>5 DEF InnermostTry, Tries
  <2> QED
    BY <1>5, <2>1 DEF CInv, JobCleansEnough
<1> QED
  BY <1>5, <1>6, <1>7, <1>8, <1>9, <1>10 DEF CInv, UnwindsClean, Ended

\* When a cleanup is done nothing is registered above its marker.
LEMMA NothingAbove ==
    ASSUME CInv, NEW then, Cleaned(then)
    PROVE  \A n \in DOMAIN pending : pending[n].site <= job.lo
<1> SUFFICES ASSUME NEW n \in DOMAIN pending, ~(pending[n].site <= job.lo)
             PROVE  FALSE
  OBVIOUS
<1>1. PICK t : t = pending[n].site
  OBVIOUS
<1>2. t \in Site /\ t \in Nat /\ t <= at /\ count[t] = 1
  BY <1>1, CFacts
<1>3. job.lo \in Nat /\ job.hi \in Nat /\ at \in Nat /\ at <= job.hi
  BY CFacts DEF CInv, JobCleansEnough, Cleaned
<1>4. t \in ArmedIn(job.lo, job.hi)
  BY <1>1, <1>2, <1>3 DEF ArmedIn
<1> QED
  BY <1>4 DEF Cleaned

LEMMA NothingLeft ==
    ASSUME CInv, NEW then, Cleaned(then), job.lo = 0
    PROVE  pending = << >>
<1>1. \A n \in DOMAIN pending : pending[n].site <= 0 /\ pending[n].site \in Site
  BY NothingAbove, CFacts
<1>2. \A n \in DOMAIN pending : FALSE
  BY <1>1 DEF Site
<1>3. /\ DOMAIN pending = 1 .. Len(pending) /\ Len(pending) \in Nat
      /\ pending \in Seq(Registration)
  BY CFacts DEF TypeOK
<1>4. Len(pending) = 0
  <2>1. PICK K : K = Len(pending)
    OBVIOUS
  <2>2. K \in Nat /\ \A n \in 1 .. K : FALSE
    BY <1>2, <1>3, <2>1
  <2>3. K = 0
    BY <2>2
  <2> QED
    BY <2>1, <2>3
<1> QED
  BY <1>3, <1>4, EmptySeq

\* A step that changes neither counters nor scopes nor the program point.
LEMMA OrderUnchanged ==
    ASSUME CInv, HInv', UNCHANGED <<at, count, scopes, pending>>
    PROVE  MarksInOrder' /\ Owned' /\ InTextOrder' /\ ArmedIsPending'
<1>1. Len(scopes) \in 1 .. Len(scopes) /\ Kept(Len(scopes))
  BY CFacts, SameKept
<1>2. /\ \A i \in 1 .. Len(scopes) : scopes[i].mark <= at'
      /\ \A n \in DOMAIN pending : pending[n].site <= at'
      /\ \A i \in Len(scopes) + 1 .. Len(scopes) : FALSE
  BY CFacts DEF CInv, MarksInOrder, Owned
<1> QED
  BY <1>1, <1>2, OrderAfter DEF HInv

\* A cleanup that a jump or the end of a block started is done.
LEMMA CInvFinish ==
    ASSUME CInv, HInv',
           FinishBlock \/ FinishBreak \/ FinishContinue \/ FinishGoto
    PROVE  CInv'
<1>0. PICK L, k, lo : L = Len(scopes) /\ k = job.to /\ lo = job.lo
  OBVIOUS
<1>1. PICK then \in {"exit", "break", "continue", "goto"} : Cleaned(then)
  BY DEF FinishBlock, FinishBreak, FinishContinue, FinishGoto
<1>2. /\ TInv /\ L \in Nat \ {0} /\ lo \in Nat /\ at \in Nat
      /\ \A i \in 1 .. L : scopes[i].mark \in Nat /\ scopes[i].high \in Nat
      /\ \A i \in 1 .. L : /\ scopes[i].mark <= at
                           /\ scopes[i].mark <= scopes[i].high
                           /\ \A j \in i .. L : scopes[i].mark <= scopes[j].mark
      /\ \A n \in DOMAIN pending : /\ pending[n].site \in Nat
                                   /\ pending[n].site <= lo
                                   /\ pending[n].site <= at
  <2>1. TInv /\ L \in Nat \ {0} /\ lo \in Nat /\ at \in Nat
    BY <1>0, CFacts
  <2>2. \A i \in 1 .. L : scopes[i].mark \in 0 .. N /\ scopes[i].high \in 0 .. N
    BY <1>0, CFacts
  <2>3. \A n \in DOMAIN pending : pending[n].site <= lo
    BY <1>0, <1>1, NothingAbove
  <2> QED
    BY <1>0, <2>1, <2>2, <2>3, CFacts DEF CInv, MarksInOrder
<1>3. /\ mode = "cleanup" /\ job.then = then
      /\ mode' = "run" /\ UNCHANGED <<throwers, count, pending>>
  BY <1>1 DEF Cleaned, FinishBlock, FinishBreak, FinishContinue, FinishGoto,
              ContinueIn, Static
<1>4. /\ k \in 1 .. L /\ job.label \in 0 .. N /\ job.label \in Nat
      /\ then = "break" => k + 1 \in 1 .. L
  BY <1>0, <1>2, <1>3 DEF TInv, TypeOK, Job, JobHasTarget
<1>5. Kept(k)
  <2>1. \/ scopes' = Outside(k)
        \/ scopes' = SubSeq(Reach(job.label), 1, k)
    BY <1>0 DEF FinishBlock, FinishBreak, FinishContinue, FinishGoto, ContinueIn
  <2> QED
    BY <1>0, <1>2, <1>4, <2>1, OutsideKept, ReachKept
<1>6. /\ then = "exit" => at' = at
      /\ then = "break" => at' = scopes[k + 1].high /\ lo <= scopes[k + 1].mark
      /\ then = "continue" => at' = scopes[k].mark /\ lo <= scopes[k].mark
      /\ then = "goto" => at' = job.label /\ at <= job.label
      /\ \A i \in k + 1 .. L : scopes[i].kind = "block" => lo <= scopes[i].mark
  <2>1. /\ then = "exit" => FinishBlock
        /\ then = "break" => FinishBreak
        /\ then = "continue" => FinishContinue
        /\ then = "goto" => FinishGoto
    BY <1>3 DEF FinishBlock, FinishBreak, FinishContinue, FinishGoto, Cleaned
  <2>2. /\ then = "exit" => at' = at
        /\ then = "break" => at' = scopes[k + 1].high
        /\ then = "continue" => at' = scopes[k].mark
        /\ then = "goto" => at' = job.label
    BY <1>0, <2>1 DEF FinishBlock, FinishBreak, FinishContinue, FinishGoto
  <2> QED
    BY <1>0, <1>3, <2>2 DEF CInv, JobCleansEnough
<1>7. \A n \in DOMAIN pending : \A i \in k + 1 .. L : ~OwnedBy(pending[n], i)
  <2> SUFFICES ASSUME NEW n \in DOMAIN pending, NEW i \in k + 1 .. L,
                      OwnedBy(pending[n], i)
               PROVE  FALSE
    OBVIOUS
  <2>1. scopes[i].kind = "block" /\ scopes[i].mark < pending[n].site
    BY DEF OwnedBy
  <2>2. i \in 1 .. L
    BY <1>2, <1>4
  <2>3. PICK m, x : m = scopes[i].mark /\ x = pending[n].site
    OBVIOUS
  <2>4. m \in Nat /\ x \in Nat /\ lo <= m /\ m < x /\ x <= lo
    BY <1>2, <1>6, <2>1, <2>2, <2>3
  <2> QED
    BY <1>2, <2>4
<1>8. /\ \A i \in 1 .. k : scopes[i].mark <= at'
      /\ \A n \in DOMAIN pending : pending[n].site <= at'
  <2>1. PICK now : now = at'
    OBVIOUS
  <2>2. \A i \in 1 .. k : i \in 1 .. L
    BY <1>2, <1>4
  <2>3. CASE then = "exit"
    BY <1>2, <1>6, <2>2, <2>3
  <2>4. CASE then = "break"
    <3>1. PICK m, h : m = scopes[k + 1].mark /\ h = scopes[k + 1].high
      OBVIOUS
    <3>2. m \in Nat /\ h \in Nat /\ m <= h /\ lo <= m /\ at' = h
      BY <1>2, <1>4, <1>6, <2>4, <3>1
    <3>3. \A i \in 1 .. k : k + 1 \in i .. L /\ scopes[i].mark <= m
      BY <1>2, <1>4, <2>2, <2>4, <3>1
    <3> QED
      BY <1>2, <2>2, <3>2, <3>3
  <2>5. CASE then = "continue"
    <3>1. PICK m : m = scopes[k].mark
      OBVIOUS
    <3>2. m \in Nat /\ lo <= m /\ at' = m
      BY <1>2, <1>4, <1>6, <2>5, <3>1
    <3>3. \A i \in 1 .. k : k \in i .. L /\ scopes[i].mark <= m
      BY <1>2, <1>4, <2>2, <3>1
    <3> QED
      BY <1>2, <3>2, <3>3
  <2>6. CASE then = "goto"
    <3>1. at <= at' /\ at' \in Nat
      BY <1>4, <1>6, <2>6
    <3> QED
      BY <1>2, <2>2, <3>1
  <2> QED
    BY <2>3, <2>4, <2>5, <2>6
<1> QED
  BY <1>0, <1>3, <1>4, <1>5, <1>7, <1>8, CInvRun

LEMMA CInvCleanup ==
    ASSUME CInv, HInv', CleanupStep
    PROVE  CInv'
<1>1. ASSUME NEW s \in Site, RunSite(s)
      PROVE  CInv'
  BY <1>1, CInvRunSite
<1>2. ASSUME NEW s \in Site, SiteThrows(s)
      PROVE  CInv'
  BY <1>2 DEF SiteThrows, CInv
<1>3. CASE FinishBlock \/ FinishBreak \/ FinishContinue \/ FinishGoto
  BY <1>3, CInvFinish
<1>4. CASE FinishReturn
  <2>1. Cleaned("return") /\ job.lo = 0
    BY <1>4 DEF FinishReturn, Cleaned, CInv, JobCleansEnough
  <2>2. pending = << >>
    BY <2>1, NothingLeft
  <2>3. /\ UNCHANGED <<throwers, at, count, scopes, pending>>
        /\ mode' = "returned"
    BY <1>4 DEF FinishReturn, Static
  <2> QED
    BY <2>2, <2>3, OrderUnchanged DEF CInv, JobCleansEnough, UnwindsClean
<1>5. CASE FinishFrame
  <2>1. Cleaned("propagate") /\ job.lo = 0
    BY <1>5 DEF FinishFrame, Cleaned, CInv, JobCleansEnough
  <2>2. pending = << >>
    BY <2>1, NothingLeft
  <2>3. /\ UNCHANGED <<throwers, at, count, scopes, pending>>
        /\ mode' = "unwind"
    BY <1>5 DEF FinishFrame, Static
  <2> QED
    BY <2>2, <2>3, OrderUnchanged DEF CInv, JobCleansEnough, UnwindsClean, Ended
<1>6. CASE FinishThrow
  <2>0. PICK L, lo : L = Len(scopes) /\ lo = job.lo
    OBVIOUS
  <2>1. /\ Cleaned("throw") /\ Installed(handler, L)
        /\ \/ lo = 0
           \/ \E t \in 1 .. L : InnermostTry(t) /\ lo <= scopes[t].mark
    BY <1>6, <2>0 DEF FinishThrow, Cleaned, CInv, HInv, HandlerInCleanup,
                      JobCleansEnough
  <2>2. /\ UNCHANGED <<throwers, at, count, scopes, pending, handler>>
        /\ mode' = "unwind"
    BY <1>6 DEF FinishThrow, Static
  <2>3. /\ L \in Nat /\ lo \in Nat
        /\ \A n \in DOMAIN pending : /\ pending[n].site \in Nat
                                     /\ pending[n].site <= lo
        /\ \A i \in 1 .. L : scopes[i].mark \in Nat
    <3>1. \A n \in DOMAIN pending : pending[n].site <= lo
      BY <2>0, <2>1, NothingAbove
    <3>2. \A i \in 1 .. L : scopes[i].mark \in 0 .. N
      BY <2>0, CFacts
    <3> QED
      BY <2>0, <3>1, <3>2, CFacts
  <2>4. lo = 0 => pending = << >>
    BY <2>0, <2>1, NothingLeft
  <2>5. \/ pending = << >>
        \/ /\ handler > FrameHandler /\ handler # OuterHandler
           /\ \A n \in DOMAIN pending : pending[n].site <= scopes[handler].mark
    <3>1. CASE lo = 0
      BY <2>4, <3>1
    <3>2. ASSUME NEW t \in 1 .. L, InnermostTry(t), lo <= scopes[t].mark
          PROVE  /\ handler > FrameHandler /\ handler # OuterHandler
                 /\ \A n \in DOMAIN pending :
                        pending[n].site <= scopes[handler].mark
      <4>1. t \in Tries(L) /\ Tries(L) \subseteq 1 .. t
        BY <2>0, <3>2 DEF InnermostTry
      <4>2. handler \in Tries(L) /\ t <= handler
        BY <2>1, <4>1 DEF Installed
      <4>3. handler = t
        BY <2>3, <4>1, <4>2
      <4>4. handler > FrameHandler /\ handler # OuterHandler
        BY <2>3, <4>3 DEF FrameHandler, OuterHandler
      <4> QED
        BY <2>3, <3>2, <4>3, <4>4
    <3> QED
      BY <2>1, <3>1, <3>2
  <2>6. UnwindsClean'
    <3>1. CASE pending = << >>
      BY <2>2, <3>1 DEF UnwindsClean
    <3>2. CASE pending # << >>
      BY <2>2, <2>5, <3>2 DEF UnwindsClean, Ended
    <3> QED
      BY <3>1, <3>2
  <2> QED
    BY <2>2, <2>6, OrderUnchanged DEF CInv, JobCleansEnough
<1> QED
  BY <1>1, <1>2, <1>3, <1>4, <1>5, <1>6 DEF CleanupStep

\* An exception leaves a try: nothing is registered inside it.
LEMMA CInvLeaveTry ==
    ASSUME PlainFunctions, CInv, HInv', Catch \/ NoMatch
    PROVE  CInv'
<1>0. PICK L, h, k : L = Len(scopes) /\ h = handler /\ k = h - 1
  OBVIOUS
<1>1. /\ mode = "unwind" /\ h \in 1 .. L /\ scopes[h].kind = "try"
      /\ handler' = scopes[h].prev /\ at' = scopes[h].high
      /\ scopes' = Outside(k) /\ UNCHANGED <<throwers, count, pending>>
      /\ \/ mode' = "run"
         \/ mode' = "unwind" /\ MayUnwindTo(scopes[h].prev)
  BY <1>0 DEF Catch, NoMatch, HandlerIsOpen, Static
<1>2. /\ TInv /\ L \in Nat \ {0} /\ at \in Nat
      /\ scopes[1].kind = "block"
      /\ \A i \in 1 .. L : scopes[i].mark \in Nat /\ scopes[i].high \in Nat
      /\ \A i \in 1 .. L : /\ scopes[i].mark <= scopes[i].high
                           /\ \A j \in i .. L : scopes[i].mark <= scopes[j].mark
      /\ \A n \in DOMAIN pending : /\ pending[n].site \in Nat
                                   /\ pending[n].site <= scopes[h].mark
  <2>1. TInv /\ L \in Nat \ {0} /\ at \in Nat
    BY <1>0, CFacts
  <2>2. \A i \in 1 .. L : scopes[i].mark \in 0 .. N /\ scopes[i].high \in 0 .. N
    BY <1>0, CFacts
  <2>3. \A n \in DOMAIN pending : pending[n].site <= scopes[h].mark
    BY <1>0, <1>1, <2>1 DEF CInv, UnwindsClean, FrameHandler
  <2> QED
    BY <1>0, <2>1, <2>2, <2>3, CFacts DEF CInv, MarksInOrder, TInv
<1>3. k \in 1 .. L /\ h \in 1 .. L /\ \A i \in 1 .. k : i \in 1 .. L /\ h \in i .. L
  BY <1>0, <1>1, <1>2
<1>4. Kept(k)
  BY <1>0, <1>1, <1>2, <1>3, OutsideKept
<1>5. PICK m, top : m = scopes[h].mark /\ top = scopes[h].high
  OBVIOUS
<1>6. m \in Nat /\ top \in Nat /\ m <= top /\ at' = top
  BY <1>1, <1>2, <1>3, <1>5
<1>7. /\ \A i \in 1 .. k : scopes[i].mark <= at'
      /\ \A n \in DOMAIN pending : pending[n].site <= at'
  <2>1. \A i \in 1 .. k : scopes[i].mark <= m /\ scopes[i].mark \in Nat
    BY <1>2, <1>3, <1>5
  <2>2. \A n \in DOMAIN pending : pending[n].site <= m /\ pending[n].site \in Nat
    BY <1>2, <1>5
  <2> QED
    BY <1>6, <2>1, <2>2
<1>8. \A n \in DOMAIN pending : \A i \in k + 1 .. L : ~OwnedBy(pending[n], i)
  <2> SUFFICES ASSUME NEW n \in DOMAIN pending, NEW i \in k + 1 .. L,
                      OwnedBy(pending[n], i)
               PROVE  FALSE
    OBVIOUS
  <2>1. /\ scopes[i].mark < pending[n].site /\ pending[n].site <= m
        /\ pending[n].site \in Nat
    BY <1>2, <1>5 DEF OwnedBy
  <2>2. i \in 1 .. L /\ h \in 1 .. L /\ i \in h .. L
    BY <1>0, <1>1, <1>2
  <2>3. m <= scopes[i].mark /\ scopes[i].mark \in Nat
    BY <1>2, <1>5, <2>2
  <2> QED
    BY <1>6, <2>1, <2>3
<1>9. CASE mode' = "run"
  BY <1>0, <1>1, <1>3, <1>4, <1>7, <1>8, <1>9, CInvRun
<1>10. CASE mode' = "unwind"
  <2>1. MarksInOrder' /\ Owned' /\ InTextOrder' /\ ArmedIsPending'
    BY <1>0, <1>1, <1>3, <1>4, <1>7, <1>8, OrderAfter DEF HInv
  <2>2. ~(handler' > FrameHandler) /\ (handler' = OuterHandler => pending' = << >>)
    BY <1>1, <1>10 DEF MayUnwindTo, PlainFunctions
  <2>3. UnwindsClean'
    BY <1>10, <2>2 DEF UnwindsClean, Ended
  <2> QED
    BY <1>1, <1>10, <2>1, <2>3 DEF CInv, JobCleansEnough
<1> QED
  BY <1>1, <1>9, <1>10

LEMMA CInvUnwind ==
    ASSUME PlainFunctions, CInv, HInv', UnwindStep
    PROVE  CInv'
<1>1. CASE LeaveFunction
  <2>1. /\ pending = << >> /\ mode' = "threw"
        /\ UNCHANGED <<throwers, at, count, scopes, pending>>
    BY <1>1 DEF LeaveFunction, CInv, UnwindsClean, Static
  <2> QED
    BY <2>1, OrderUnchanged DEF CInv, JobCleansEnough, UnwindsClean
<1>2. CASE EnterFrame
  <2>1. Start("propagate", 0, N, 0, 0) /\ 0 \in Nat /\ N \in Nat /\ at <= N
    BY <1>2, CFacts DEF EnterFrame
  <2>2. "propagate" \in Then \ {"none"}
    BY DEF Then
  <2> QED
    BY <2>1, <2>2, CInvJump
<1>3. CASE Catch \/ NoMatch
  BY <1>3, CInvLeaveTry
<1>4. ~WildJump
  BY DEF WildJump, HInv, NoWildJump
<1> QED
  BY <1>1, <1>2, <1>3, <1>4 DEF UnwindStep

LEMMA CInvNext ==
    ASSUME PlainFunctions, CInv, [Next]_vars
    PROVE  CInv'
<1>1. HInv'
  BY HInvNext DEF CInv, PlainFunctions
<1>2. CASE UNCHANGED vars
  <2>1. /\ UNCHANGED <<throwers, at, count, scopes, handler, mode, job, pending>>
        /\ \A t : InnermostTry(t)' <=> InnermostTry(t)
    BY <1>2 DEF vars, InnermostTry, Tries
  <2>2. JobCleansEnough' /\ UnwindsClean'
    BY <2>1 DEF CInv, JobCleansEnough, UnwindsClean, Ended
  <2> QED
    BY <1>1, <2>1, <2>2, OrderUnchanged DEF CInv
<1> QED
  BY <1>1, <1>2, CInvStatement, CInvCleanup, CInvUnwind DEF Next

LEMMA CInvAlways ==
    ASSUME PlainFunctions
    PROVE  Spec => []CInv
<1>1. Init => CInv
  BY CInvInit
<1>2. CInv /\ [Next]_vars => CInv'
  BY CInvNext
<1> QED
  BY <1>1, <1>2, PTL DEF Spec

-----------------------------------------------------------------------------
(* What follows for the cleanups of such a function *)

\* In any mode, what is registered belongs to a block that is still open.
AllOpen ==
    \A n \in DOMAIN pending : pending[n].depth <= BlockDepth(Len(scopes))

LEMMA OwnersAreOpen == CInv => AllOpen
<1> SUFFICES ASSUME CInv, NEW n \in DOMAIN pending
             PROVE  pending[n].depth <= BlockDepth(Len(scopes))
  BY DEF AllOpen
<1>1. PICK i \in 1 .. Len(scopes) : OwnedBy(pending[n], i)
  BY DEF CInv, Owned
<1>2. i \in Nat /\ Len(scopes) \in Nat /\ i <= Len(scopes)
  BY CFacts
<1>3. BlockDepth(i) <= BlockDepth(Len(scopes))
  BY <1>2, BlockDepthGrows
<1> QED
  BY <1>1, <1>3 DEF OwnedBy

\* Leaving a block in any way runs what was registered in it: for every
\* function of PlainFunctions, however deep its blocks are.
THEOREM BlocksLoseNone ==
    ASSUME PlainFunctions
    PROVE  Spec => []NoOrphan
<1>1. CInv => NoOrphan
  BY OwnersAreOpen DEF AllOpen, NoOrphan
<1> QED
  BY <1>1, CInvAlways, PTL

\* No such function ends, by a return or by an exception, before all that it
\* registered has run.
THEOREM ActivationsLoseNone ==
    ASSUME PlainFunctions
    PROVE  Spec => []NoneLost
<1>1. CInv => NoneLost
  BY DEF CInv, UnwindsClean, NoneLost
<1> QED
  BY <1>1, CInvAlways, PTL

-----------------------------------------------------------------------------
(***************************************************************************)
(* The promise.  Opening a block, a registration and a run are the steps   *)
(* of the same name; every other step leaves the registrations alone and   *)
(* keeps a prefix of the scopes, so that it leaves blocks, ends the        *)
(* activation or changes nothing the promise speaks of.                    *)
(***************************************************************************)
LEMMA PromiseInit ==
    ASSUME Init
    PROVE  Promise!Init
<1>1. Len(scopes) = 1 /\ scopes[1].kind = "block" /\ pending = << >> /\ ~Ended
  BY DEF Init, Ended
<1>2. {i \in 1 .. 1 : scopes[i].kind = "block"} = {1}
  BY <1>1
<1>3. BlockDepth(Len(scopes)) = 1
  BY <1>1, <1>2, FS_Singleton DEF BlockDepth
<1> QED
  BY <1>1, <1>3 DEF Promise!Init

LEMMA EndedStops == Next => ~Ended
<1> SUFFICES ASSUME Next PROVE ~Ended
  OBVIOUS
<1>1. CASE Statement
  <2>1. mode = "run"
    BY <1>1
    DEF Statement, EnterBlock, EnterLoop, EnterTry, Open, Skip, Register,
        ExitBlock, FallOff, LoopBack, LoopLeave, ExitTry, Break, Continue, Goto,
        Return, Throw, CalleeThrows
  <2> QED
    BY <2>1 DEF Ended
<1>2. CASE CleanupStep
  <2>1. mode = "cleanup"
    BY <1>2
    DEF CleanupStep, RunSite, SiteThrows, NextToRun, FinishBlock, FinishBreak,
        FinishContinue, FinishGoto, FinishReturn, FinishThrow, FinishFrame,
        Cleaned
  <2> QED
    BY <2>1 DEF Ended
<1>3. CASE UnwindStep
  <2>1. mode = "unwind"
    BY <1>3
    DEF UnwindStep, LeaveFunction, EnterFrame, Catch, NoMatch, WildJump
  <2> QED
    BY <2>1 DEF Ended
<1> QED
  BY <1>1, <1>2, <1>3 DEF Next

LEMMA PromiseOpen ==
    ASSUME CInv, Opens
    PROVE  [Promise!Next]_(Promise!vars)
<1>1. PICK c \in ScopeKind, p \in OuterHandler .. MaxDepth : Open(c, p)
  BY CFacts, OpensAppend
<1>2. PICK L : L = Len(scopes)
  OBVIOUS
<1>3. /\ mode = "run" /\ mode' = "run" /\ pending' = pending
      /\ Len(scopes)' = L + 1
      /\ BlockDepth(L + 1)' = IF c = "block" THEN BlockDepth(L) + 1
                                             ELSE BlockDepth(L)
  BY <1>1, <1>2, CFacts, OpenAppends, BlockDepthOpened DEF Open
<1>4. BlockDepth(Len(scopes))' = IF c = "block" THEN BlockDepth(L) + 1
                                                ELSE BlockDepth(L)
  BY <1>3
<1>5. ~Ended /\ ~Ended'
  BY <1>3 DEF Ended
<1> QED
  BY <1>2, <1>3, <1>4, <1>5 DEF Promise!Next, Promise!Enter, Promise!vars

LEMMA PromiseRegister ==
    ASSUME CInv, Register
    PROVE  Promise!Register
<1>1. /\ mode = "run" /\ mode' = "run"
      /\ pending' = Append(pending, [site |-> at + 1,
                                     depth |-> BlockDepth(Len(scopes))])
      /\ at + 1 \in Site /\ at + 1 \in 0 .. N /\ scopes' = Reach(at + 1)
  BY CFacts DEF Register, Site
<1>2. PICK L : L = Len(scopes)
  OBVIOUS
<1>3. TInv /\ Kept(L) /\ L \in 1 .. L /\ L \in 0 .. L
  BY <1>1, <1>2, CFacts, ReachAllKept
<1>4. Len(scopes)' = L /\ BlockDepth(L)' = BlockDepth(L)
  BY <1>2, <1>3, BlockDepthKept DEF Kept
<1>5. BlockDepth(Len(scopes))' = BlockDepth(L)
  BY <1>4
<1>6. ~Ended /\ ~Ended'
  BY <1>1 DEF Ended
<1> QED
  BY <1>1, <1>2, <1>5, <1>6 DEF Promise!Register

LEMMA PromiseRun ==
    ASSUME CInv, NEW s \in Site, RunSite(s)
    PROVE  Promise!RunLast
<1>1. PICK n : LastOf(s, n) /\ pending' = Without(n)
  BY DEF RunSite
<1>2. PICK K : K = Len(pending)
  OBVIOUS
<1>3. n = K /\ K \in 1 .. K /\ K \in Nat /\ pending \in Seq(Registration)
  BY <1>1, <1>2, CFacts, RunsLast DEF RunSite, TypeOK
<1>4. pending' = SubSeq(pending, 1, K - 1)
  <2>1. SubSeq(pending, K + 1, K) = << >>
    BY <1>3
  <2>2. SubSeq(pending, 1, K - 1) \in Seq(Registration)
    <3>1. \A k \in 1 .. K : pending[k] \in Registration
      BY <1>2, <1>3, ElementOfSeq
    <3> QED
      BY <1>3, <3>1, SubSeqProperties
  <2>3. pending' = SubSeq(pending, 1, K - 1) \o << >>
    BY <1>1, <1>2, <1>3, <2>1 DEF Without
  <2> QED
    BY <2>2, <2>3, ConcatEmptySeq
<1>5. /\ mode = "cleanup" /\ mode' = "cleanup" /\ scopes' = scopes
      /\ pending # << >>
  BY <1>2, <1>3 DEF RunSite, NextToRun
<1>6. BlockDepth(Len(scopes))' = BlockDepth(Len(scopes))
  BY <1>5 DEF BlockDepth
<1>7. ~Ended /\ ~Ended'
  BY <1>5 DEF Ended
<1> QED
  BY <1>2, <1>4, <1>5, <1>6, <1>7 DEF Promise!RunLast

\* Any other step.
LEMMA PromiseOther ==
    ASSUME CInv, CInv', Next, ~Opens, UNCHANGED pending
    PROVE  [Promise!Next]_(Promise!vars)
<1>1. PICK k \in 1 .. Len(scopes) : Kept(k)
  BY CFacts, StepsKeepScopes
<1>2. PICK d, e : d = BlockDepth(Len(scopes)) /\ e = BlockDepth(k)
  OBVIOUS
<1>3. d \in Nat /\ e \in Nat /\ e <= d
  <2>1. k \in Nat /\ Len(scopes) \in Nat /\ k <= Len(scopes)
    BY CFacts
  <2> QED
    BY <1>2, <2>1, BlockDepthGrows
<1>4. BlockDepth(Len(scopes))' = e
  <2>1. Len(scopes)' = k
    BY <1>1 DEF Kept
  <2>2. BlockDepth(k)' = e
    <3>1. k \in 0 .. k
      BY CFacts
    <3> QED
      BY <1>1, <1>2, <3>1, CFacts, BlockDepthKept
  <2> QED
    BY <2>1, <2>2
<1>5. ~Ended
  BY EndedStops
<1>6. CASE Ended'
  <2>1. pending = << >>
    BY <1>6 DEF CInv, UnwindsClean
  <2> QED
    BY <1>2, <1>3, <1>4, <1>5, <1>6, <2>1 DEF Promise!Next, Promise!End
<1>7. CASE ~Ended' /\ e = d
  BY <1>2, <1>4, <1>5, <1>7 DEF Promise!vars
<1>8. CASE ~Ended' /\ e # d
  <2>1. \A n \in DOMAIN pending : pending[n].depth <= e
    <3>1. AllOpen'
      BY OwnersAreOpen, PTL
    <3> QED
      BY <1>4, <3>1 DEF AllOpen
  <2>2. e \in 0 .. d - 1
    BY <1>3, <1>8
  <2> QED
    BY <1>2, <1>4, <1>5, <1>8, <2>1, <2>2 DEF Promise!Next, Promise!Leave
<1> QED
  BY <1>6, <1>7, <1>8

\* The generated code implements the promise of ScopedCleanup: each cleanup
\* runs once, the last one first, and no block is left and no activation
\* ended while a cleanup of it is still to run; for every function of
\* PlainFunctions.
THEOREM PromiseKept ==
    ASSUME PlainFunctions
    PROVE  Spec => KeepsPromise
<1>1. Init => Promise!Init
  BY PromiseInit
<1>2. CInv /\ CInv' /\ [Next]_vars => [Promise!Next]_(Promise!vars)
  <2> SUFFICES ASSUME CInv, CInv', [Next]_vars
               PROVE  [Promise!Next]_(Promise!vars)
    OBVIOUS
  <2>1. CASE UNCHANGED vars
    BY <2>1 DEF vars, Promise!vars, BlockDepth, Ended
  <2>2. CASE Next
    <3>1. CASE Opens
      BY <3>1, PromiseOpen
    <3>2. CASE Register
      BY <3>2, PromiseRegister DEF Promise!Next
    <3>3. CASE \E s \in Site : RunSite(s)
      BY <3>3, PromiseRun DEF Promise!Next
    <3>4. CASE UNCHANGED pending /\ ~Opens
      BY <2>2, <3>4, PromiseOther
    <3> QED
      BY <3>1, <3>2, <3>3, <3>4, OthersKeepCounts
  <2> QED
    BY <2>1, <2>2
<1> QED
  BY <1>1, <1>2, CInvAlways, PTL DEF Spec, KeepsPromise, Promise!Spec
=============================================================================
