------------------------- MODULE LateVariablesProofs -------------------------
(***************************************************************************)
(* Proofs about LateVariables, for every depth to which statements nest.   *)
(***************************************************************************)
EXTENDS LateVariables, SequenceTheorems, TLAPS

----------------------------------------------------------------------------
(* The frames of the open statements, and what the operators do to them    *)

\* A function is open exactly when some frame is, and the frames are typed.
LEMMA FrameFacts ==
  ASSUME TypeOK
  PROVE  /\ open \in Seq(Frames) /\ Len(open) \in 0..MaxDepth
         /\ DOMAIN open = 1..Len(open)
         /\ (open # <<>>) <=> (Len(open) > 0)
         /\ \A i \in 1..Len(open) : open[i] \in Frames
         /\ \A i \in 1..Len(open) : (open[i].kind = "function") <=> (i = 1)
<1>1. open \in Seq(Frames) /\ DOMAIN open = 1..Len(open) /\ Len(open) \in Nat
  BY LenProperties DEF TypeOK
<1>2. \A i \in 1..Len(open) : open[i] \in Frames
  BY <1>1, ElementOfSeq
<1>3. (open # <<>>) <=> (Len(open) > 0)
  BY <1>1, EmptySeq, SeqEqual
<1> QED
  BY <1>1, <1>2, <1>3, DepthAssumption DEF TypeOK

\* The innermost statement and the types of its fields.
LEMMA TopFacts ==
  ASSUME TypeOK, open # <<>>
  PROVE  /\ Len(open) \in 1..MaxDepth /\ Top = open[Len(open)]
         /\ Top \in Frames
         /\ Top.kind \in Kinds
         /\ (Top.kind = "function") <=> (Len(open) = 1)
         /\ Top.before \in Flags /\ Top.first \in Flags
         /\ Top.returns \in BOOLEAN /\ Top.firstReturns \in BOOLEAN
         /\ Top.declares \in BOOLEAN /\ Top.leaks \in BOOLEAN
         /\ Top.update \in Updates
         /\ Top.merged \in Flags \cup {"none"}
         /\ Top.entry \in SUBSET Paths /\ Top.ended \in SUBSET Paths
         /\ Top.escaped \in SUBSET Paths
<1>1. Len(open) \in 1..MaxDepth /\ Top \in Frames
  BY FrameFacts DEF Top
<1>2. (Top.kind = "function") <=> (Len(open) = 1)
  BY <1>1, FrameFacts DEF Top
<1> QED
  BY <1>1, <1>2 DEF Top, Frames

\* A new frame is one.
LEMMA FrameForType ==
  ASSUME TypeOK, NEW k \in Kinds
  PROVE  FrameFor(k) \in Frames
BY DEF FrameFor, Frames, TypeOK, Flags, Updates

\* One level less is a level.
LEMMA OneLess ==
  \A l \in 1..MaxDepth :
    l # 1 => /\ l - 1 \in 1..MaxDepth /\ l - 1 \in 1..l
             /\ l - 1 \in Nat \ {0} /\ l - 1 < l
             /\ \A i \in 1..l - 1 : i \in 1..l
BY DepthAssumption

\* Replacing the last element of a sequence.
LEMMA ReplaceLast ==
  ASSUME NEW S, NEW q \in Seq(S), NEW f \in S, NEW n \in Nat \ {0},
         n = Len(q)
  PROVE  /\ [q EXCEPT ![n] = f] \in Seq(S) /\ Len([q EXCEPT ![n] = f]) = n
         /\ [q EXCEPT ![n] = f][n] = f
         /\ \A i \in 1..n - 1 : [q EXCEPT ![n] = f][i] = q[i]
<1>1. DOMAIN q = 1..n
  BY LenProperties
<1> QED
  BY <1>1, ExceptSeq

\* Replacing the innermost frame.
LEMMA ReplaceShape ==
  ASSUME TypeOK, open # <<>>, NEW f \in Frames
  PROVE  LET q == [open EXCEPT ![Len(open)] = f]
         IN  /\ q \in Seq(Frames) /\ Len(q) = Len(open)
             /\ q[Len(open)] = f
             /\ \A i \in 1..Len(open) - 1 : q[i] = open[i]
<1>1. Len(open) \in Nat \ {0} /\ open \in Seq(Frames)
  BY TopFacts, FrameFacts
<1> QED
  BY <1>1, ReplaceLast

\* Leaving the innermost statement.
LEMMA PopShape ==
  ASSUME TypeOK, open # <<>>, Top.kind # "function", NEW r \in BOOLEAN,
         NEW l \in BOOLEAN
  PROVE  LET n == Len(open) - 1
             f == [open[n] EXCEPT !.returns = @ \/ r, !.leaks = @ \/ l]
         IN  /\ n \in 1..MaxDepth /\ n < Len(open)
             /\ Pop(open, r, l) \in Seq(Frames) /\ Len(Pop(open, r, l)) = n
             /\ f \in Frames /\ Pop(open, r, l)[n] = f
             /\ \A i \in 1..n - 1 : Pop(open, r, l)[i] = open[i]
<1> DEFINE n    == Len(open) - 1
           f    == [open[n] EXCEPT !.returns = @ \/ r, !.leaks = @ \/ l]
           rest == SubSeq(open, 1, n)
<1>1. n \in 1..MaxDepth /\ n < Len(open) /\ n \in 1..Len(open)
      /\ n \in Nat \ {0}
  <2>1. Len(open) \in 1..MaxDepth /\ Len(open) # 1
    BY TopFacts
  <2> QED
    BY <2>1, OneLess
<1>2. /\ rest \in Seq(Frames) /\ Len(rest) = n
      /\ \A i \in 1..n : rest[i] = open[i]
  <2>1. \A i \in 1..n : open[i] \in Frames
    BY <1>1, FrameFacts
  <2> QED
    BY <1>1, <2>1, SubSeqProperties, FrameFacts
<1>3. f \in Frames
  <2>1. open[n] \in Frames
    BY <1>1, FrameFacts
  <2>2. (open[n].returns \/ r) \in BOOLEAN /\ (open[n].leaks \/ l) \in BOOLEAN
    OBVIOUS
  <2> QED
    BY <2>1, <2>2 DEF Frames
<1>4. Pop(open, r, l) = [rest EXCEPT ![n] = f]
  BY <1>1, <1>2 DEF Pop
<1>5. /\ [rest EXCEPT ![n] = f] \in Seq(Frames)
      /\ Len([rest EXCEPT ![n] = f]) = n
      /\ [rest EXCEPT ![n] = f][n] = f
      /\ \A i \in 1..n - 1 : [rest EXCEPT ![n] = f][i] = rest[i]
  <2> HIDE DEF rest, f
  <2> QED
    BY <1>1, <1>2, <1>3, ReplaceLast
<1> QED
  BY <1>1, <1>2, <1>3, <1>4, <1>5

\* Paths that leave statements are paths, none if there were none, and
\* uninitialised ones only if there were.
LEMMA LeaveScopePaths ==
  ASSUME NEW d, NEW ps \in SUBSET Paths
  PROVE  /\ LeaveScope(d, ps) \in SUBSET Paths
         /\ ps = {} => LeaveScope(d, ps) = {}
         /\ FALSE \notin ps => FALSE \notin LeaveScope(d, ps)
         /\ d => FALSE \notin LeaveScope(d, ps)
         /\ ~d => LeaveScope(d, ps) = ps
BY DEF LeaveScope, Initialised, Paths

\* An exception adds paths to the escaped ones of a frame and changes
\* nothing else.
LEMMA EscapeShape ==
  ASSUME NEW q \in Seq(Frames), NEW ps \in SUBSET Paths
  PROVE  /\ Escape(q, ps) \in Seq(Frames) /\ Len(Escape(q, ps)) = Len(q)
         /\ \A i \in 1..Len(q) :
              \E e \in {q[i].escaped,
                        q[i].escaped \cup LeaveScope(DeclaredFrom(q, i), ps)} :
                Escape(q, ps)[i] = [q[i] EXCEPT !.escaped = e]
<1>1. DOMAIN q = 1..Len(q) /\ Len(q) \in Nat
  BY LenProperties
<1>2. \A i \in 1..Len(q) : q[i] \in Frames
  BY <1>1, ElementOfSeq
<1>3. \A i \in 1..Len(q) :
        \E e \in {q[i].escaped,
                  q[i].escaped \cup LeaveScope(DeclaredFrom(q, i), ps)} :
          Escape(q, ps)[i] = [q[i] EXCEPT !.escaped = e]
  <2> SUFFICES ASSUME NEW i \in 1..Len(q)
               PROVE  \E e \in {q[i].escaped,
                                q[i].escaped \cup LeaveScope(DeclaredFrom(q, i), ps)} :
                        Escape(q, ps)[i] = [q[i] EXCEPT !.escaped = e]
    OBVIOUS
  <2>1. \/ Escape(q, ps)[i] = q[i]
        \/ Escape(q, ps)[i] = [q[i] EXCEPT !.escaped =
                                 @ \cup LeaveScope(DeclaredFrom(q, i), ps)]
    BY <1>1 DEF Escape
  <2>2. q[i] = [q[i] EXCEPT !.escaped = q[i].escaped]
    BY <1>2 DEF Frames
  <2> QED
    BY <2>1, <2>2
<1>4. \A i \in 1..Len(q) : Escape(q, ps)[i] \in Frames
  <2> SUFFICES ASSUME NEW i \in 1..Len(q) PROVE Escape(q, ps)[i] \in Frames
    OBVIOUS
  <2>1. q[i] \in Frames /\ q[i].escaped \in SUBSET Paths
    BY <1>2 DEF Frames
  <2>2. LeaveScope(DeclaredFrom(q, i), ps) \in SUBSET Paths
    BY LeaveScopePaths
  <2>3. PICK e \in SUBSET Paths :
          Escape(q, ps)[i] = [q[i] EXCEPT !.escaped = e]
    BY <1>3, <2>1, <2>2
  <2> QED
    BY <2>1, <2>3 DEF Frames
<1>5. Escape(q, ps) = [i \in 1..Len(q) |-> Escape(q, ps)[i]]
  BY <1>1 DEF Escape
<1>6. Escape(q, ps) \in Seq(Frames) /\ Len(Escape(q, ps)) = Len(q)
  BY <1>1, <1>4, <1>5, IsASeq, LenProperties
<1> QED
  BY <1>3, <1>6

----------------------------------------------------------------------------
(* Typing                                                                  *)

\* What TypeOK says of the open statements.
OpenTyped(q) ==
  /\ q \in Seq(Frames) /\ Len(q) <= MaxDepth
  /\ \A i \in DOMAIN q : (q[i].kind = "function") = (i = 1)

\* The joins of flags are flags.
LEMMA JoinTypes ==
  ASSUME NEW a \in Flags, NEW b \in Flags, NEW r \in BOOLEAN,
         NEW s \in BOOLEAN, NEW c \in Flags, NEW m \in Flags \cup {"none"}
  PROVE  /\ Leave(a, b) \in Flags
         /\ JoinIf(a, r, b, s) \in Flags
         /\ MergeCatch(m, r, b) \in Flags \cup {"none"}
         /\ JoinTry(a, b, r, m) \in Flags
BY DEF Leave, JoinIf, MergeCatch, JoinTry, Both, Either, Flags

\* The flag and the paths at the end of a part.
LEMMA PartEndTypes ==
  ASSUME TypeOK, open # <<>>
  PROVE  PartEnd \in Flags /\ PathsAtEnd \in SUBSET Paths
<1>1. /\ Top.before \in Flags /\ late \in Flags
      /\ paths \in SUBSET Paths
  BY TopFacts DEF TypeOK
<1> QED
  BY <1>1, JoinTypes, LeaveScopePaths DEF PartEnd, PathsAtEnd

\* Statements inside a function open frames of other kinds.
LEMMA AppendTyped ==
  ASSUME NEW q \in Seq(Frames), OpenTyped(q), Len(q) \in 1..MaxDepth - 1,
         NEW f \in Frames, f.kind # "function"
  PROVE  OpenTyped(Append(q, f))
<1>1. /\ Append(q, f) \in Seq(Frames) /\ Len(Append(q, f)) = Len(q) + 1
      /\ \A i \in 1..Len(q) : Append(q, f)[i] = q[i]
      /\ Append(q, f)[Len(q) + 1] = f
  BY AppendProperties
<1>2. /\ DOMAIN Append(q, f) = 1..Len(q) + 1
      /\ DOMAIN q = 1..Len(q) /\ Len(q) \in Nat
  BY <1>1, LenProperties
<1> QED
  BY <1>1, <1>2, DepthAssumption DEF OpenTyped

\* Pushing a frame keeps the open statements typed.
LEMMA PushTyped ==
  ASSUME TypeOK, open # <<>>, Len(open) < MaxDepth, NEW f \in Frames,
         f.kind # "function"
  PROVE  OpenTyped(Append(open, f))
<1>1. OpenTyped(open) /\ Len(open) \in 1..MaxDepth
  BY TopFacts DEF OpenTyped, TypeOK
<1>2. Len(open) \in 1..MaxDepth - 1
  BY <1>1, DepthAssumption
<1> QED
  BY <1>1, <1>2, AppendTyped DEF OpenTyped

\* A for begins with the flag and the paths that its init leaves, in the
\* frame f.
ForStep(d, u, flag, ps, f) ==
  /\ open # <<>> /\ Len(open) < MaxDepth
  /\ \/ d /\ late = "absent" /\ flag = "unset" /\ ps = Uninitialised(paths)
     \/ ~d /\ flag = late /\ ps = paths
  /\ u # "none" => flag # "absent"
  /\ \/ flag # "absent" /\ Use(flag, ps)
     \/ Report(flag) /\ faulty' = {}
     \/ NoCheck
  /\ late' = (IF u = "writes" THEN "set" ELSE flag)
  /\ loose' = (loose \/ late' # flag)
  /\ paths' = ps
  /\ open' = Append(open, f)
  /\ hasOut' = hasOut /\ outNames' = outNames /\ unseen' = unseen
  /\ f.kind = "for" /\ f.before = late' /\ f.first = late'
  /\ f.firstReturns = FALSE /\ f.returns = FALSE /\ f.merged = "none"
  /\ f.entry = ps /\ f.ended = {} /\ f.escaped = {} /\ f.leaks = FALSE
  /\ f.declares = d /\ f.update = u

LEMMA BeginForStep ==
  ASSUME TypeOK, BeginFor
  PROVE  \E d \in BOOLEAN, u \in Updates, flag \in Flags,
            ps \in SUBSET Paths, f \in Frames : ForStep(d, u, flag, ps, f)
<1> DEFINE Flag(d)  == IF d THEN "unset" ELSE late
           Entry(d) == IF d THEN Uninitialised(paths) ELSE paths
           Frame(d, u) ==
             [FrameFor("for") EXCEPT !.before = late', !.first = late',
                !.entry = Entry(d), !.declares = d, !.update = u]
<1>1. PICK d \in BOOLEAN, u \in Updates :
        /\ open # <<>> /\ Len(open) < MaxDepth
        /\ d => late = "absent"
        /\ u # "none" => Flag(d) # "absent"
        /\ \/ Flag(d) # "absent" /\ Use(Flag(d), Entry(d))
           \/ u = "reads" /\ Report(Flag(d)) /\ faulty' = {}
           \/ u # "reads" /\ NoCheck
        /\ late' = (IF u = "writes" THEN "set" ELSE Flag(d))
        /\ loose' = (loose \/ late' # Flag(d))
        /\ paths' = Entry(d)
        /\ open' = Append(open, Frame(d, u))
        /\ UNCHANGED <<Program, unseen>>
  BY DEF BeginFor, Writing
<1>2. /\ Flag(d) \in Flags /\ Entry(d) \in SUBSET Paths
      /\ late' \in Flags
  BY <1>1 DEF TypeOK, Flags, Uninitialised, Paths
<1>3. \/ d /\ late = "absent" /\ Flag(d) = "unset"
            /\ Entry(d) = Uninitialised(paths)
      \/ ~d /\ Flag(d) = late /\ Entry(d) = paths
  BY <1>1
<1>4. hasOut' = hasOut /\ outNames' = outNames /\ unseen' = unseen
  BY <1>1 DEF Program
<1> DEFINE f == Frame(d, u)
<1>5. /\ f \in Frames /\ f.kind = "for" /\ f.before = late'
      /\ f.first = late' /\ f.firstReturns = FALSE /\ f.returns = FALSE
      /\ f.merged = "none" /\ f.entry = Entry(d) /\ f.ended = {}
      /\ f.escaped = {} /\ f.leaks = FALSE /\ f.declares = d
      /\ f.update = u
  <2> HIDE DEF Entry
  <2> QED
    BY <1>2 DEF FrameFor, Frames, Kinds
<1>6. ForStep(d, u, Flag(d), Entry(d), f)
  <2>1. open' = Append(open, f)
    BY <1>1
  <2> HIDE DEF Flag, Entry, Frame, f
  <2> QED
    BY <1>1, <1>3, <1>4, <1>5, <2>1 DEF ForStep
<1> HIDE DEF Flag, Entry, Frame, f
<1> QED
  BY <1>2, <1>5, <1>6

\* The innermost frame keeps being the function's or not.
LEMMA ReplaceTyped ==
  ASSUME TypeOK, open # <<>>, NEW f \in Frames,
         (f.kind = "function") <=> (Top.kind = "function")
  PROVE  OpenTyped([open EXCEPT ![Len(open)] = f])
<1> DEFINE q == [open EXCEPT ![Len(open)] = f]
<1>1. /\ q \in Seq(Frames) /\ Len(q) = Len(open) /\ q[Len(open)] = f
      /\ \A i \in 1..Len(open) - 1 : q[i] = open[i]
  BY ReplaceShape
<1>2. /\ Len(open) \in 1..MaxDepth
      /\ (f.kind = "function") <=> (Len(open) = 1)
      /\ \A i \in 1..Len(open) : (open[i].kind = "function") <=> (i = 1)
  BY TopFacts, FrameFacts
<1>3. DOMAIN q = 1..Len(q)
  BY <1>1, LenProperties
<1> HIDE DEF q
<1>4. ASSUME NEW i \in DOMAIN q PROVE (q[i].kind = "function") = (i = 1)
  <2>1. i = Len(open) \/ i \in 1..Len(open) - 1
    BY <1>1, <1>2, <1>3
  <2> QED
    BY <1>1, <1>2, <2>1
<1>5. Len(q) <= MaxDepth
  BY <1>1, <1>2, DepthAssumption
<1>6. OpenTyped(q)
  BY <1>1, <1>4, <1>5 DEF OpenTyped
<1> QED
  BY <1>6 DEF q

\* So does ending the innermost statement.
LEMMA PopTyped ==
  ASSUME TypeOK, open # <<>>, Top.kind # "function", NEW r \in BOOLEAN,
         NEW l \in BOOLEAN
  PROVE  OpenTyped(Pop(open, r, l))
<1> DEFINE n == Len(open) - 1
           f == [open[n] EXCEPT !.returns = @ \/ r, !.leaks = @ \/ l]
<1>1. /\ n \in 1..MaxDepth /\ n < Len(open)
      /\ Pop(open, r, l) \in Seq(Frames) /\ Len(Pop(open, r, l)) = n
      /\ f \in Frames /\ Pop(open, r, l)[n] = f
      /\ \A i \in 1..n - 1 : Pop(open, r, l)[i] = open[i]
  BY PopShape
<1>2. f.kind = open[n].kind
  BY <1>1, FrameFacts DEF Frames
<1>3. DOMAIN Pop(open, r, l) = 1..n
  BY <1>1, LenProperties
<1>4. \A i \in 1..n : (open[i].kind = "function") <=> (i = 1)
  BY <1>1, FrameFacts
<1> HIDE DEF f, n
<1>5. ASSUME NEW i \in 1..n
      PROVE  (Pop(open, r, l)[i].kind = "function") = (i = 1)
  <2>1. i = n \/ i \in 1..n - 1
    BY <1>1
  <2> QED
    BY <1>1, <1>2, <1>4, <2>1
<1> QED
  BY <1>1, <1>3, <1>5, DepthAssumption DEF OpenTyped

\* So does an exception, which changes one set of paths.
LEMMA EscapeTyped ==
  ASSUME NEW q \in Seq(Frames), OpenTyped(q), NEW ps \in SUBSET Paths
  PROVE  OpenTyped(Escape(q, ps))
<1>1. DOMAIN q = 1..Len(q) /\ Len(q) \in Nat
  BY LenProperties
<1>2. /\ Escape(q, ps) \in Seq(Frames) /\ Len(Escape(q, ps)) = Len(q)
      /\ DOMAIN Escape(q, ps) = 1..Len(q)
  BY EscapeShape, LenProperties
<1>3. \A i \in 1..Len(q) : Escape(q, ps)[i].kind = q[i].kind
  <2> SUFFICES ASSUME NEW i \in 1..Len(q)
               PROVE  Escape(q, ps)[i].kind = q[i].kind
    OBVIOUS
  <2>1. q[i] \in Frames
    BY ElementOfSeq
  <2>2. PICK e \in {q[i].escaped,
                   q[i].escaped \cup LeaveScope(DeclaredFrom(q, i), ps)} :
          Escape(q, ps)[i] = [q[i] EXCEPT !.escaped = e]
    BY EscapeShape
  <2> QED
    BY <2>1, <2>2 DEF Frames
<1> QED
  BY <1>1, <1>2, <1>3 DEF OpenTyped

\* The errors and faults of a step are known ones.
Reported ==
  rejected' \in SUBSET {"read", "out"}
  /\ faulty' \in SUBSET {"read", "out", "handed"}

\* The checks report known errors and faults.
LEMMA CheckTypes ==
  ASSUME NEW f \in Flags, NEW ps \in SUBSET Paths,
         \/ Use(f, ps) \/ CheckOut(f, ps) \/ Condition(f, ps) \/ NoCheck
         \/ Report(f) /\ faulty' = {}
  PROVE  Reported
BY DEF Use, CheckOut, Condition, NoCheck, Report, Reported

\* A step without a check reports nothing.
LEMMA NoCheckType == NoCheck => Reported
BY DEF NoCheck, Reported

\* The initial states are typed.
LEMMA TypeInit == Init => TypeOK
<1> SUFFICES ASSUME Init PROVE TypeOK
  OBVIOUS
<1>1. /\ open \in Seq(Frames) /\ Len(open) = 0 /\ Len(open) <= MaxDepth
      /\ DOMAIN open = {}
  BY EmptySeq, DepthAssumption DEF Init
<1>2. paths \in SUBSET Paths /\ late \in Flags
  BY DEF Init, Paths, Flags
<1> QED
  BY <1>1, <1>2 DEF Init, TypeOK

\* Statements that stand alone.
Simple ==
  \/ DeclareLate \/ Assign \/ Read \/ HandOver \/ FillByMethod
  \/ Return \/ Throw

\* They preserve types.
LEMMA TypeSimple ==
  TypeOK /\ Simple => TypeOK'
<1> SUFFICES ASSUME TypeOK, Writing, Simple PROVE TypeOK'
  BY DEF Simple, DeclareLate, Assign, Read, HandOver, FillByMethod, Return,
         Throw
<1>1. /\ late \in Flags /\ paths \in SUBSET Paths
      /\ Uninitialised(paths) \in SUBSET Paths
      /\ Initialised(paths) \in SUBSET Paths
      /\ {} \in SUBSET Paths
      /\ "set" \in Flags /\ "unset" \in Flags
  BY DEF TypeOK, Uninitialised, Initialised, Paths, Flags
<1>2. OpenTyped(open) /\ open \in Seq(Frames) /\ open # <<>>
  BY DEF TypeOK, OpenTyped, Writing
<1>3. OpenTyped(Escape(open, paths))
  BY <1>1, <1>2, EscapeTyped
<1>4. Reported
  <2>1. HandOver => Reported
    BY DEF HandOver, Reported
  <2> QED
    BY <1>1, <2>1, CheckTypes, NoCheckType
    DEF Simple, DeclareLate, Assign, Read, FillByMethod, Return, Throw
<1>5. CASE DeclareLate
  <2> DEFINE f == [Top EXCEPT !.declares = TRUE]
  <2>1. f \in Frames /\ f.kind = Top.kind
    BY <1>2, TopFacts DEF Frames
  <2>2. open' = [open EXCEPT ![Len(open)] = f]
    BY <1>5 DEF DeclareLate, Top
  <2>3. OpenTyped(open')
    BY <1>2, <2>1, <2>2, ReplaceTyped
  <2> QED
    BY <1>1, <1>4, <1>5, <2>3 DEF DeclareLate, TypeOK, OpenTyped, Program, Reported
<1>6. CASE Assign
  BY <1>1, <1>3, <1>4, <1>6 DEF Assign, TypeOK, OpenTyped, Program, Reported
<1>7. CASE Read
  BY <1>1, <1>4, <1>7 DEF Read, TypeOK, Program, Reported
<1>8. CASE Return
  <2> DEFINE f == [Top EXCEPT !.returns = TRUE]
  <2>1. f \in Frames /\ f.kind = Top.kind
    BY <1>2, TopFacts DEF Frames
  <2>2. open' = [open EXCEPT ![Len(open)] = f]
    BY <1>8 DEF Return, Top
  <2>3. OpenTyped(open')
    BY <1>2, <2>1, <2>2, ReplaceTyped
  <2> QED
    BY <1>1, <1>4, <1>8, <2>3 DEF Return, TypeOK, OpenTyped, Program, Reported
<1>9. CASE Throw
  BY <1>1, <1>3, <1>4, <1>9 DEF Throw, TypeOK, OpenTyped, Program, Reported
<1>10. CASE HandOver
  BY <1>1, <1>4, <1>10 DEF HandOver, TypeOK, Program, Reported
<1>11. CASE FillByMethod
  BY <1>1, <1>3, <1>4, <1>11
  DEF FillByMethod, TypeOK, OpenTyped, Program, Reported
<1> QED
  BY <1>5, <1>6, <1>7, <1>8, <1>9, <1>10, <1>11 DEF Simple

\* Functions begin and end.
LEMMA TypeFunction ==
  TypeOK /\ (BeginFunction \/ EndFunction) => TypeOK'
<1> SUFFICES ASSUME TypeOK, BeginFunction \/ EndFunction PROVE TypeOK'
  OBVIOUS
<1>1. CASE BeginFunction
  <2> DEFINE f == [FrameFor("function") EXCEPT !.before = late',
                     !.first = late', !.entry = paths', !.declares = hasOut']
  <2>1. /\ late' \in Flags /\ paths' \in SUBSET Paths
        /\ hasOut' \in BOOLEAN /\ outNames' \in BOOLEAN
        /\ loose' \in BOOLEAN /\ unseen' \in BOOLEAN
    BY <1>1 DEF BeginFunction, Flags, Paths, TypeOK
  <2>2. f \in Frames /\ f.kind = "function"
    BY <2>1 DEF FrameFor, Frames, Kinds, TypeOK, Updates
  <2>3. open' = <<f>>
    BY <1>1 DEF BeginFunction
  <2> HIDE DEF f
  <2>4. open' \in Seq(Frames) /\ Len(open') = 1 /\ open'[1] = f
    BY <2>2, <2>3
  <2>5. DOMAIN open' = {1}
    BY <2>3
  <2>6. Reported
    BY <1>1, NoCheckType DEF BeginFunction
  <2> QED
    BY <2>1, <2>2, <2>4, <2>5, <2>6, DepthAssumption DEF TypeOK, Reported
<1>2. CASE EndFunction
  <2>1. open # <<>>
    BY <1>2 DEF EndFunction, Inside
  <2>2. PartEnd \in Flags /\ paths \in SUBSET Paths
    BY <2>1, PartEndTypes DEF TypeOK
  <2>3. Reported
    BY <1>2, <2>2, CheckTypes DEF EndFunction
  <2>4. open' = <<>> /\ open' \in Seq(Frames) /\ Len(open') = 0
        /\ DOMAIN open' = {}
    BY <1>2, EmptySeq DEF EndFunction
  <2>5. late' \in Flags /\ paths' = {}
    BY <1>2, <2>2 DEF EndFunction, Flags
  <2> QED
    BY <1>2, <2>3, <2>4, <2>5, DepthAssumption
    DEF EndFunction, TypeOK, Program, Paths, Reported
<1> QED
  BY <1>1, <1>2

\* Statements with parts begin.
Beginning ==
  \/ BeginBlock \/ BeginIf \/ BeginDo \/ BeginWhile \/ BeginTry \/ BeginMatch

\* Those that are not a for push a frame and leave the rest alone.
LEMMA BeginningStep ==
  ASSUME TypeOK, Beginning
  PROVE  \E k \in Kinds \ {"function", "else", "catch", "for"} :
           /\ open # <<>> /\ Len(open) < MaxDepth
           /\ open' = Append(open, FrameFor(k))
           /\ late' = late /\ paths' = paths /\ NoCheck
           /\ UNCHANGED <<hasOut, outNames, loose, unseen>>
BY DEF Beginning, BeginBlock, BeginIf, BeginDo, BeginWhile, BeginTry,
       BeginMatch, Begin, Push, Writing, Program, Kinds

\* They preserve types.
LEMMA TypeBegin == TypeOK /\ (Beginning \/ BeginFor) => TypeOK'
<1> SUFFICES ASSUME TypeOK, Beginning \/ BeginFor PROVE TypeOK'
  OBVIOUS
<1>1. CASE Beginning
  <2>1. PICK k \in Kinds \ {"function", "else", "catch", "for"} :
          /\ open # <<>> /\ Len(open) < MaxDepth
          /\ open' = Append(open, FrameFor(k))
          /\ late' = late /\ paths' = paths /\ NoCheck
          /\ UNCHANGED <<hasOut, outNames, loose, unseen>>
    BY <1>1, BeginningStep
  <2>2. FrameFor(k) \in Frames /\ FrameFor(k).kind = k
    BY FrameForType DEF FrameFor
  <2>3. OpenTyped(open')
    BY <2>1, <2>2, PushTyped
  <2> QED
    BY <2>1, <2>3, NoCheckType DEF TypeOK, OpenTyped, Reported
<1>2. CASE BeginFor
  <2>1. PICK d \in BOOLEAN, u \in Updates, flag \in Flags,
             ps \in SUBSET Paths, f \in Frames : ForStep(d, u, flag, ps, f)
    BY <1>2, BeginForStep
  <2>2. late' \in Flags
    BY <2>1 DEF ForStep, Flags
  <2>3. OpenTyped(open')
    BY <2>1, PushTyped DEF ForStep
  <2>4. Reported
    BY <2>1, CheckTypes DEF ForStep
  <2> QED
    BY <2>1, <2>2, <2>3, <2>4 DEF TypeOK, OpenTyped, Reported, ForStep
<1> QED
  BY <1>1, <1>2

\* One part of a statement follows another.
LEMMA TypeNextPart ==
  TypeOK /\ (BeginElse \/ BeginArm \/ NextCatch) => TypeOK'
<1> SUFFICES ASSUME TypeOK, BeginElse \/ BeginArm \/ NextCatch
             PROVE  TypeOK'
  OBVIOUS
<1>1. open # <<>> /\ Top.kind \in {"then", "arm", "catch"}
  BY DEF BeginElse, BeginArm, NextCatch, Inside
<1>2. PartEnd \in Flags /\ PathsAtEnd \in SUBSET Paths
  BY <1>1, PartEndTypes
<1>3. MergeCatch(Top.merged, Top.returns, PartEnd) \in Flags \cup {"none"}
  BY <1>1, <1>2, JoinTypes, TopFacts
<1>4. PICK f \in Frames : /\ f.kind # "function"
                          /\ open' = [open EXCEPT ![Len(open)] = f]
  <2>1. CASE BeginElse
    <3> DEFINE g == [Top EXCEPT !.first = PartEnd,
                                !.firstReturns = Top.returns,
                                !.ended = PathsAtEnd]
               f == [g EXCEPT !.kind = "else", !.returns = FALSE,
                              !.declares = FALSE, !.leaks = FALSE]
    <3>1. g \in Frames
      BY <1>1, <1>2, TopFacts DEF Frames
    <3>2. f \in Frames /\ f.kind = "else"
      BY <3>1 DEF Frames, Kinds
    <3> QED
      BY <2>1, <3>2 DEF BeginElse, NextPart
  <2>2. CASE BeginArm
    <3> DEFINE g == [Top EXCEPT !.ended = @ \cup PathsAtEnd]
               f == [g EXCEPT !.kind = "arm", !.returns = FALSE,
                              !.declares = FALSE, !.leaks = FALSE]
    <3>1. g \in Frames
      BY <1>1, <1>2, TopFacts DEF Frames
    <3>2. f \in Frames /\ f.kind = "arm"
      BY <3>1 DEF Frames, Kinds
    <3> QED
      BY <2>2, <3>2 DEF BeginArm, NextPart
  <2>3. CASE NextCatch
    <3> DEFINE g == [Top EXCEPT !.merged = MergeCatch(@, Top.returns, PartEnd),
                                !.ended = @ \cup PathsAtEnd]
               f == [g EXCEPT !.kind = "catch", !.returns = FALSE,
                              !.declares = FALSE, !.leaks = FALSE]
    <3>1. g \in Frames
      BY <1>1, <1>2, <1>3, TopFacts DEF Frames
    <3>2. f \in Frames /\ f.kind = "catch"
      BY <3>1 DEF Frames, Kinds
    <3> QED
      BY <2>3, <3>2 DEF NextCatch, NextPart
  <2> QED
    BY <2>1, <2>2, <2>3
<1>5. OpenTyped(open')
  BY <1>1, <1>4, ReplaceTyped
<1>6. Reported
  BY NoCheckType DEF BeginElse, BeginArm, NextCatch
<1>7. /\ late' \in Flags /\ paths' \in SUBSET Paths
      /\ hasOut' \in BOOLEAN /\ outNames' \in BOOLEAN
      /\ loose' \in BOOLEAN /\ unseen' \in BOOLEAN
  BY <1>1, <1>2, TopFacts DEF BeginElse, BeginArm, NextCatch, TypeOK, Program
<1> QED
  BY <1>5, <1>6, <1>7 DEF TypeOK, OpenTyped, Reported

\* The catches of a try begin, and its exceptions go on from them.
LEMMA TypeBeginCatch == TypeOK /\ BeginCatch => TypeOK'
<1> SUFFICES ASSUME TypeOK, BeginCatch PROVE TypeOK'
  OBVIOUS
<1>1. open # <<>> /\ Top.kind = "try"
  BY DEF BeginCatch, Inside
<1>2. PartEnd \in Flags /\ PathsAtEnd \in SUBSET Paths
  BY <1>1, PartEndTypes
<1> DEFINE n     == Len(open) - 1
           front == SubSeq(open, 1, n)
           f     == [Top EXCEPT !.kind = "catch", !.returns = FALSE,
                                !.declares = FALSE, !.leaks = FALSE,
                                !.first = PartEnd,
                                !.firstReturns = Top.returns,
                                !.ended = PathsAtEnd]
<1>3. f \in Frames /\ f.kind = "catch"
  BY <1>1, <1>2, TopFacts DEF Frames, Kinds
<1>4. PICK ps \in SUBSET Paths : open' = Append(Escape(front, ps), f)
  BY <1>1, TopFacts DEF BeginCatch
<1>5. Len(open) \in 1..MaxDepth /\ n \in 1..MaxDepth - 1 /\ n \in 1..Len(open)
  <2>1. Len(open) \in 1..MaxDepth /\ Len(open) # 1
    BY <1>1, TopFacts
  <2>2. \A l \in 1..MaxDepth : l # 1 => l - 1 \in 1..MaxDepth - 1
    BY DepthAssumption
  <2> QED
    BY <2>1, <2>2, OneLess
<1>6. /\ front \in Seq(Frames) /\ Len(front) = n
      /\ \A i \in 1..n : front[i] = open[i]
  <2>1. \A i \in 1..n : open[i] \in Frames
    BY <1>5, FrameFacts
  <2> QED
    BY <1>5, <2>1, SubSeqProperties, FrameFacts
<1> HIDE DEF f, front
<1>7. OpenTyped(front)
  <2>1. \A i \in 1..n : (open[i].kind = "function") <=> (i = 1)
    BY <1>5, FrameFacts
  <2>2. DOMAIN front = 1..n
    BY <1>6, LenProperties
  <2>3. \A i \in 1..n : (front[i].kind = "function") = (i = 1)
    BY <1>6, <2>1
  <2>4. n <= MaxDepth
    BY <1>5, DepthAssumption
  <2> QED
    BY <1>6, <2>2, <2>3, <2>4 DEF OpenTyped
<1>8. /\ OpenTyped(Escape(front, ps)) /\ Escape(front, ps) \in Seq(Frames)
      /\ Len(Escape(front, ps)) = n
  BY <1>6, <1>7, EscapeTyped, EscapeShape
<1>9. OpenTyped(open')
  BY <1>3, <1>4, <1>5, <1>8, AppendTyped
<1>10. Reported
  BY NoCheckType DEF BeginCatch
<1>11. /\ late' \in Flags /\ paths' \in SUBSET Paths
       /\ UNCHANGED <<hasOut, outNames, loose, unseen>>
  BY <1>1, TopFacts DEF BeginCatch, Program
<1> QED
  BY <1>9, <1>10, <1>11 DEF TypeOK, OpenTyped, Reported

\* The statements whose handler returns to the one around them.
Ending ==
  \/ EndBlock \/ EndIfWithoutElse \/ EndIf \/ EndDo \/ EndWhile \/ EndFor
  \/ EndMatch \/ EndTry

\* The end of a statement preserves types, with the join of its parts.
LEMMA TypeEnding == TypeOK /\ Ending => TypeOK'
<1> SUFFICES ASSUME TypeOK, Ending PROVE TypeOK'
  OBVIOUS
<1>1. open # <<>> /\ Top.kind # "function"
  BY DEF Ending, EndBlock, EndIfWithoutElse, EndIf, EndDo, EndWhile, EndFor,
         EndMatch, EndTry, Inside
<1> DEFINE m == MergeCatch(Top.merged, Top.returns, PartEnd)
<1>2. PartEnd \in Flags /\ PathsAtEnd \in SUBSET Paths
  BY <1>1, PartEndTypes
<1>3. m \in Flags \cup {"none"}
  BY <1>1, <1>2, JoinTypes, TopFacts
<1>4. PICK r \in BOOLEAN, l \in BOOLEAN : open' = Pop(open, r, l)
  <2>1. CASE EndBlock \/ EndIf
    <3>1. Top.returns \in BOOLEAN /\ (Top.firstReturns /\ Top.returns) \in BOOLEAN
      BY <1>1, TopFacts
    <3> QED
      BY <2>1, <3>1 DEF EndBlock, EndIf
  <2>2. CASE EndTry
    BY <2>2 DEF EndTry
  <2>3. CASE EndIfWithoutElse \/ EndDo \/ EndWhile \/ EndMatch
    BY <2>3 DEF EndIfWithoutElse, EndDo, EndWhile, EndMatch
  <2>4. CASE EndFor
    BY <2>4 DEF EndFor
  <2> QED
    BY <2>1, <2>2, <2>3, <2>4 DEF Ending
<1>5. OpenTyped(open')
  BY <1>1, <1>4, PopTyped
<1>6. late' \in Flags
  <2>1. /\ JoinIf(PartEnd, Top.returns, Top.before, FALSE) \in Flags
        /\ JoinIf(Top.first, Top.firstReturns, PartEnd, Top.returns) \in Flags
        /\ JoinTry(Top.before, Top.first, Top.firstReturns, m) \in Flags
    BY <1>1, <1>2, <1>3, JoinTypes, TopFacts
  <2> QED
    BY <1>2, <2>1 DEF Ending, EndBlock, EndIfWithoutElse, EndIf, EndDo,
       EndWhile, EndFor, EndMatch, EndTry
<1>7. paths' \in SUBSET Paths
  <2>1. CASE EndFor
    <3>1. /\ Top.entry \in SUBSET Paths /\ paths \in SUBSET Paths
          /\ Initialised(paths) \in SUBSET Paths
      BY <1>1, TopFacts DEF TypeOK, Initialised, Paths
    <3> QED
      BY <2>1, <3>1, LeaveScopePaths DEF EndFor
  <2>2. CASE \/ EndBlock \/ EndIfWithoutElse \/ EndIf \/ EndDo \/ EndWhile
             \/ EndMatch \/ EndTry
    BY <1>1, <1>2, <2>2, TopFacts DEF EndBlock, EndIfWithoutElse, EndIf,
       EndDo, EndWhile, EndMatch, EndTry
  <2> QED
    BY <2>1, <2>2 DEF Ending
<1>8. Reported
  <2>1. /\ Top.entry \cup PathsAtEnd \in SUBSET Paths
        /\ Top.before \in Flags /\ paths \in SUBSET Paths
    BY <1>1, <1>2, TopFacts DEF TypeOK
  <2> QED
    BY <1>2, <2>1, CheckTypes, NoCheckType
    DEF Ending, EndBlock, EndIfWithoutElse, EndIf, EndDo, EndWhile, EndFor,
        EndMatch, EndTry
<1>9. /\ UNCHANGED <<hasOut, outNames>>
      /\ loose' \in BOOLEAN /\ unseen' \in BOOLEAN
  BY DEF Ending, EndBlock, EndIfWithoutElse, EndIf, EndDo, EndWhile, EndFor,
         EndMatch, EndTry, TypeOK, Program
<1> QED
  BY <1>5, <1>6, <1>7, <1>8, <1>9 DEF TypeOK, OpenTyped, Reported

\* Every step preserves types.
LEMMA TypeStep == TypeOK /\ [Next]_vars => TypeOK'
<1> SUFFICES ASSUME TypeOK, [Next]_vars PROVE TypeOK'
  OBVIOUS
<1>1. CASE Next
  BY <1>1, TypeFunction, TypeSimple, TypeBegin, TypeNextPart,
     TypeBeginCatch, TypeEnding DEF Next, Ending, Simple, Beginning
<1>2. CASE UNCHANGED vars
  BY <1>2 DEF vars, TypeOK
<1> QED
  BY <1>1, <1>2

\* Every variable always has its type: flags are merged to flags, and no
\* statement ends but the innermost.
THEOREM TypeCorrect == Spec => []TypeOK
BY TypeInit, TypeStep, PTL DEF Spec

----------------------------------------------------------------------------
(***************************************************************************)
(* Safety.  Until a join is too kind, a set flag speaks for every path     *)
(* that it joins, and a part that returns has no paths left.               *)
(***************************************************************************)

\* The flags of finished parts are right about the paths that left them.
EndsRight(f) ==
  /\ (f.first = "set" \/ f.firstReturns) /\ f.merged \in {"set", "none"}
       => FALSE \notin f.ended
  /\ f.firstReturns /\ f.merged = "none" => f.ended = {}

\* Only an else and a catch follow a part with a state of its own, and an
\* update of a for only mentions what is tracked.
PartRight(f) ==
  /\ f.update # "none" => f.before # "absent"
  /\ f.kind \notin {"else", "catch"} => f.first = f.before /\ ~f.firstReturns
  /\ f.kind # "catch" => f.merged = "none"

\* A variable that was initialised before a statement remains so.
StaysSet(f) ==
  f.before = "set" =>
    /\ f.first = "set" /\ f.merged \in {"set", "none"}
    /\ FALSE \notin f.entry /\ FALSE \notin f.escaped

\* An out parameter is tracked in all of its function.
Tracking(f) == f.before # "absent" /\ f.first # "absent" /\ f.merged # "absent"

FrameRight(f) ==
  EndsRight(f) /\ PartRight(f) /\ StaysSet(f) /\ (hasOut => Tracking(f))

\* f surrounds g.
Under(f, g) ==
  /\ f.before = "set" => g.before = "set"
  /\ f.returns => g.entry = {} /\ g.ended = {} /\ g.escaped = {}

\* f surrounds a place with this flag and these paths.
Holds(f, flag, ps) ==
  /\ f.before = "set" => flag = "set"
  /\ f.returns => ps = {}

FramesRight(q) ==
  \A i \in 1..Len(q) : /\ FrameRight(q[i])
                       /\ \A j \in i + 1..Len(q) : Under(q[i], q[j])

PlaceRight(q, flag, ps) ==
  /\ flag = "set" => FALSE \notin ps
  /\ hasOut /\ q # <<>> => flag # "absent"
  /\ \A i \in 1..Len(q) : Holds(q[i], flag, ps)

Joins == FramesRight(open) /\ PlaceRight(open, late, paths)

SInv ==
  /\ TypeOK
  /\ hasOut => outNames
  /\ ~loose => Joins /\ StructuredIsSafe

----------------------------------------------------------------------------
(* What the operators on frames preserve                                   *)

\* Properties of frames do not depend on three of their fields.
LEMMA Irrelevant ==
  ASSUME NEW f \in Frames, NEW r \in BOOLEAN, NEW d \in BOOLEAN
  PROVE  /\ FrameRight([f EXCEPT !.returns = r]) <=> FrameRight(f)
         /\ FrameRight([f EXCEPT !.declares = d]) <=> FrameRight(f)
         /\ FrameRight([f EXCEPT !.returns = r, !.leaks = d])
              <=> FrameRight(f)
BY DEF Frames, FrameRight, EndsRight, PartRight, StaysSet, Tracking

\* A frame is pushed.
LEMMA AppendRight ==
  ASSUME NEW q \in Seq(Frames), NEW f \in Frames, FramesRight(q),
         FrameRight(f), \A i \in 1..Len(q) : Under(q[i], f)
  PROVE  FramesRight(Append(q, f))
<1> DEFINE n == Len(q)
           p == Append(q, f)
<1>1. /\ n \in Nat /\ Len(p) = n + 1 /\ p[n + 1] = f
      /\ \A i \in 1..n : p[i] = q[i]
  BY AppendProperties, LenProperties
<1> HIDE DEF p, n
<1>2. ASSUME NEW i \in 1..n + 1
      PROVE  FrameRight(p[i]) /\ \A j \in i + 1..n + 1 : Under(p[i], p[j])
  <2>1. CASE i = n + 1
    BY <1>1, <2>1
  <2>2. CASE i \in 1..n
    <3>1. FrameRight(p[i])
      BY <1>1, <2>2 DEF FramesRight, n
    <3>2. ASSUME NEW j \in i + 1..n + 1 PROVE Under(p[i], p[j])
      <4>1. CASE j = n + 1
        BY <1>1, <2>2, <4>1 DEF n
      <4>2. CASE j \in i + 1..n
        <5>1. j \in 1..n
          BY <1>1, <2>2, <4>2
        <5> QED
          BY <1>1, <2>2, <4>2, <5>1 DEF FramesRight, n
      <4> QED
        BY <1>1, <2>2, <4>1, <4>2
    <3> QED
      BY <3>1, <3>2
  <2> QED
    BY <1>1, <2>1, <2>2
<1> QED
  BY <1>1, <1>2 DEF FramesRight, p

\* Frames are popped.
LEMMA FrontRight ==
  ASSUME NEW q \in Seq(Frames), FramesRight(q), NEW n \in Nat, n <= Len(q),
         NEW p \in Seq(Frames), Len(p) = n, \A i \in 1..n : p[i] = q[i]
  PROVE  FramesRight(p)
<1>1. Len(q) \in Nat
  BY LenProperties
<1>2. ASSUME NEW i \in 1..n
      PROVE  FrameRight(p[i]) /\ \A j \in i + 1..n : Under(p[i], p[j])
  <2>1. i \in 1..Len(q) /\ \A j \in i + 1..n : j \in 1..n /\ j \in i + 1..Len(q)
    BY <1>1
  <2> QED
    BY <2>1 DEF FramesRight
<1> QED
  BY <1>2 DEF FramesRight

\* The last frame changes.
LEMMA LastRight ==
  ASSUME NEW q \in Seq(Frames), FramesRight(q), NEW n \in Nat \ {0},
         n = Len(q), NEW f \in Frames, FrameRight(f),
         \A i \in 1..n - 1 : Under(q[i], f),
         NEW p \in Seq(Frames), Len(p) = n, p[n] = f,
         \A i \in 1..n - 1 : p[i] = q[i]
  PROVE  FramesRight(p)
<1>1. ASSUME NEW i \in 1..n
      PROVE  FrameRight(p[i]) /\ \A j \in i + 1..n : Under(p[i], p[j])
  <2>1. CASE i = n
    BY <2>1
  <2>2. CASE i \in 1..n - 1
    <3>1. FrameRight(p[i])
      BY <2>2 DEF FramesRight
    <3>2. ASSUME NEW j \in i + 1..n PROVE Under(p[i], p[j])
      <4>1. CASE j = n
        BY <2>2, <4>1
      <4>2. CASE j \in i + 1..n - 1
        <5>1. j \in 1..n - 1 /\ j \in i + 1..n
          BY <2>2, <4>2
        <5> QED
          BY <2>2, <5>1 DEF FramesRight
      <4> QED
        BY <4>1, <4>2
    <3> QED
      BY <3>1, <3>2
  <2> QED
    BY <2>1, <2>2
<1> QED
  BY <1>1 DEF FramesRight

\* An exception with initialised paths, none where a part has returned,
\* leaves frames right.
LEMMA EscapeRight ==
  ASSUME NEW q \in Seq(Frames), FramesRight(q), NEW ps \in SUBSET Paths,
         \A i \in 1..Len(q) : /\ q[i].before = "set" => FALSE \notin ps
                              /\ q[i].returns => ps = {}
  PROVE  /\ FramesRight(Escape(q, ps))
         /\ \A i \in 1..Len(q) :
              /\ Escape(q, ps)[i].before = q[i].before
              /\ Escape(q, ps)[i].returns = q[i].returns
<1> DEFINE p == Escape(q, ps)
<1>1. Len(p) = Len(q) /\ Len(q) \in Nat
  BY EscapeShape, LenProperties
<1>2. ASSUME NEW i \in 1..Len(q)
      PROVE  /\ q[i] \in Frames
             /\ \E e \in {q[i].escaped,
                          q[i].escaped \cup LeaveScope(DeclaredFrom(q, i), ps)} :
                  p[i] = [q[i] EXCEPT !.escaped = e]
  BY EscapeShape, ElementOfSeq
<1> HIDE DEF p
<1>3. ASSUME NEW i \in 1..Len(q)
      PROVE  /\ FrameRight(p[i])
             /\ p[i].before = q[i].before /\ p[i].returns = q[i].returns
             /\ p[i].entry = q[i].entry /\ p[i].ended = q[i].ended
             /\ \/ p[i].escaped = q[i].escaped
                \/ p[i].escaped = q[i].escaped \cup
                                    LeaveScope(DeclaredFrom(q, i), ps)
  <2>1. PICK e \in {q[i].escaped,
                   q[i].escaped \cup LeaveScope(DeclaredFrom(q, i), ps)} :
          p[i] = [q[i] EXCEPT !.escaped = e]
    BY <1>2
  <2>2. q[i] \in Frames /\ q[i].before \in Flags /\ FrameRight(q[i])
    BY <1>2 DEF Frames, FramesRight
  <2>3. /\ p[i].before = q[i].before /\ p[i].returns = q[i].returns
        /\ p[i].entry = q[i].entry /\ p[i].ended = q[i].ended
        /\ p[i].first = q[i].first /\ p[i].firstReturns = q[i].firstReturns
        /\ p[i].merged = q[i].merged /\ p[i].kind = q[i].kind
        /\ p[i].escaped = e /\ p[i].update = q[i].update
    BY <2>1, <2>2 DEF Frames
  <2>4. q[i].before = "set" => FALSE \notin e
    <3> SUFFICES ASSUME q[i].before = "set" PROVE FALSE \notin e
      OBVIOUS
    <3>1. FALSE \notin q[i].escaped
      BY <2>2 DEF FrameRight, StaysSet
    <3>2. FALSE \notin LeaveScope(DeclaredFrom(q, i), ps)
      BY LeaveScopePaths
    <3> QED
      BY <3>1, <3>2
  <2> QED
    BY <2>2, <2>3, <2>4
    DEF FrameRight, EndsRight, PartRight, StaysSet, Tracking
<1>4. ASSUME NEW i \in 1..Len(q), NEW j \in i + 1..Len(q)
      PROVE  Under(p[i], p[j])
  <2>1. j \in 1..Len(q) /\ Under(q[i], q[j])
    BY <1>1 DEF FramesRight
  <2>2. q[i].returns => LeaveScope(DeclaredFrom(q, j), ps) = {}
    BY LeaveScopePaths
  <2> QED
    BY <1>3, <2>1, <2>2 DEF Under
<1> QED
  BY <1>1, <1>3, <1>4 DEF FramesRight, p

----------------------------------------------------------------------------
(* Steps                                                                   *)

\* Within a function, frames and place are judged for the same function.
LEMMA SameFunction ==
  ASSUME hasOut' = hasOut, FramesRight(open'), PlaceRight(open', late', paths')
  PROVE  Joins'
BY DEF Joins, FramesRight, PlaceRight, FrameRight, Tracking, EndsRight,
       PartRight, StaysSet, Under, Holds

\* What Joins says of the innermost statement.
LEMMA TopRight ==
  ASSUME TypeOK, Joins, open # <<>>
  PROVE  /\ EndsRight(Top) /\ PartRight(Top) /\ StaysSet(Top)
         /\ hasOut => Tracking(Top) /\ late # "absent"
         /\ Holds(Top, late, paths) /\ (late = "set" => FALSE \notin paths)
         /\ \A i \in 1..Len(open) - 1 :
              /\ FrameRight(open[i]) /\ Holds(open[i], late, paths)
              /\ Under(open[i], Top)
<1>1. Len(open) \in Nat \ {0} /\ Len(open) \in 1..Len(open)
  BY TopFacts
<1>2. FrameRight(Top) /\ Holds(Top, late, paths)
  BY <1>1 DEF Joins, FramesRight, PlaceRight, Top
<1>3. ASSUME NEW n \in Nat \ {0}, n = Len(open), NEW i \in 1..n - 1
      PROVE  /\ FrameRight(open[i]) /\ Holds(open[i], late, paths)
             /\ Under(open[i], open[n])
  <2>1. i \in 1..n /\ n \in i + 1..n
    OBVIOUS
  <2> QED
    BY <1>3, <2>1 DEF Joins, FramesRight, PlaceRight
<1> QED
  BY <1>1, <1>2, <1>3 DEF FrameRight, Joins, PlaceRight, Top

\* The flag and the paths at the end of a part are right too.
LEMMA PartEndRight ==
  ASSUME TypeOK, Joins, open # <<>>
  PROVE  /\ PartEnd = "set" => FALSE \notin PathsAtEnd
         /\ Top.before = "set" => PartEnd = "set"
         /\ Top.returns => PathsAtEnd = {}
         /\ paths = {} => PathsAtEnd = {}
         /\ hasOut => PartEnd # "absent"
BY TopRight DEF PartEnd, PathsAtEnd, Leave, LeaveScope, Initialised, Holds,
   Tracking

\* A statement ends: the flag and the paths behind it are right, and a
\* variable that was initialised before it still is.
LEMMA PopJoins ==
  ASSUME TypeOK, Joins, open # <<>>, Top.kind # "function", NEW r \in BOOLEAN,
         NEW l \in BOOLEAN, open' = Pop(open, r, l), hasOut' = hasOut,
         Top.before = "set" => late' = "set",
         /\ paths = {} /\ Top.entry = {} /\ Top.ended = {} /\ Top.escaped = {}
           => paths' = {},
         r => paths' = {},
         late' = "set" => FALSE \notin paths',
         hasOut => late' # "absent"
  PROVE  Joins'
<1> DEFINE n == Len(open) - 1
           f == [open[n] EXCEPT !.returns = @ \/ r, !.leaks = @ \/ l]
<1>1. /\ n \in 1..MaxDepth /\ n < Len(open) /\ open' \in Seq(Frames)
      /\ Len(open') = n /\ f \in Frames /\ open'[n] = f
      /\ \A i \in 1..n - 1 : open'[i] = open[i]
  BY PopShape
<1>2. \A i \in 1..n : /\ open[i] \in Frames /\ FrameRight(open[i])
                      /\ Holds(open[i], late, paths) /\ Under(open[i], Top)
  BY <1>1, TopRight, FrameFacts
<1>3. \A i \in 1..n : Holds(open[i], late', paths')
  BY <1>2 DEF Holds, Under
<1>4. n \in Nat \ {0} /\ n \in 1..n
  BY <1>1
<1>5. f.before = open[n].before /\ f.returns = (open[n].returns \/ r)
      /\ f.returns \in BOOLEAN
  BY <1>2, <1>4 DEF Frames
<1>6. FrameRight(f)
  <2>1. open[n] \in Frames /\ FrameRight(open[n])
        /\ (open[n].returns \/ r) \in BOOLEAN
        /\ (open[n].leaks \/ l) \in BOOLEAN
    BY <1>2, <1>4
  <2> QED
    BY <2>1, Irrelevant
<1>7. FramesRight(open')
  <2> DEFINE q == SubSeq(open, 1, n)
  <2>1. /\ q \in Seq(Frames) /\ Len(q) = n
        /\ \A i \in 1..n : q[i] = open[i]
    BY <1>1, <1>2, <1>4, SubSeqProperties, FrameFacts
  <2> HIDE DEF q, f, n
  <2>2. FramesRight(q)
    <3>1. open \in Seq(Frames) /\ FramesRight(open) /\ n <= Len(open)
      BY <1>1, FrameFacts DEF Joins
    <3> QED
      BY <1>4, <2>1, <3>1, FrontRight
  <2>3. ASSUME NEW i \in 1..n - 1 PROVE Under(q[i], f)
    <3>1. i \in 1..n /\ n \in i + 1..n
      BY <1>4
    <3>2. Under(q[i], q[n])
      BY <2>1, <2>2, <3>1 DEF FramesRight
    <3>3. /\ q[n] = open[n] /\ open[n] \in Frames
          /\ f.before = open[n].before
          /\ f.entry = open[n].entry /\ f.ended = open[n].ended
          /\ f.escaped = open[n].escaped
      BY <1>2, <1>4, <2>1 DEF Frames, f
    <3> QED
      BY <3>2, <3>3 DEF Under
  <2>4. \A i \in 1..n - 1 : open'[i] = q[i]
    BY <1>1, <1>4, <2>1
  <2> QED
    BY <1>1, <1>4, <1>6, <2>1, <2>2, <2>3, <2>4, LastRight
<1>8. \A i \in 1..n : Holds(open'[i], late', paths')
  <2>1. Holds(f, late', paths')
    BY <1>3, <1>4, <1>5 DEF Holds
  <2>2. \A i \in 1..n : i = n \/ i \in 1..n - 1
    BY <1>4
  <2> HIDE DEF f, n
  <2> QED
    BY <1>1, <1>3, <2>1, <2>2
<1> QED
  BY <1>1, <1>7, <1>8, SameFunction DEF PlaceRight

\* The innermost frame changes, with the flag and the paths.
LEMMA ReplaceJoins ==
  ASSUME TypeOK, Joins, open # <<>>, NEW f \in Frames,
         open' = [open EXCEPT ![Len(open)] = f], hasOut' = hasOut,
         FrameRight(f), f.before = Top.before,
         /\ paths = {} /\ Top.entry = {} /\ Top.ended = {} /\ Top.escaped = {}
           => f.entry = {} /\ f.ended = {} /\ f.escaped = {} /\ paths' = {},
         Top.before = "set" => late' = "set",
         f.returns => paths' = {},
         late' = "set" => FALSE \notin paths',
         hasOut => late' # "absent"
  PROVE  Joins'
<1> DEFINE n == Len(open)
<1>1. /\ n \in Nat \ {0} /\ open' \in Seq(Frames) /\ Len(open') = n
      /\ open'[n] = f /\ \A i \in 1..n - 1 : open'[i] = open[i]
      /\ open \in Seq(Frames)
  <2>1. Len(open) \in Nat \ {0} /\ open \in Seq(Frames)
    BY TopFacts, FrameFacts
  <2>2. /\ open' \in Seq(Frames) /\ Len(open') = Len(open)
        /\ open'[Len(open)] = f
        /\ \A i \in 1..Len(open) - 1 : open'[i] = open[i]
    BY ReplaceShape
  <2> QED
    BY <2>1, <2>2
<1>2. \A i \in 1..n - 1 : /\ Under(open[i], Top)
                          /\ Holds(open[i], late, paths)
  BY TopRight
<1> HIDE DEF n
<1>3. \A i \in 1..n - 1 : Under(open[i], f) /\ Holds(open[i], late', paths')
  BY <1>2 DEF Under, Holds
<1>4. FramesRight(open')
  <2>1. FramesRight(open) /\ n = Len(open)
    BY DEF Joins, n
  <2> QED
    BY <1>1, <1>3, <2>1, LastRight
<1>5. \A i \in 1..n : Holds(open'[i], late', paths')
  <2>1. Holds(f, late', paths')
    BY DEF Holds
  <2>2. \A i \in 1..n : i = n \/ i \in 1..n - 1
    BY <1>1
  <2> QED
    BY <1>1, <1>3, <2>1, <2>2
<1> QED
  BY <1>1, <1>4, <1>5, SameFunction DEF PlaceRight

\* A use is reported when an execution may arrive uninitialised.
LEMMA UseIsSafe ==
  ASSUME NEW f \in Flags, NEW ps, f # "absent", f = "set" => FALSE \notin ps,
         Use(f, ps)
  PROVE  faulty' \subseteq rejected'
BY DEF Use, Report, MayBeUnset, Flags

\* So is an end of the function with its out parameter unwritten.
LEMMA CheckIsSafe ==
  ASSUME NEW f \in Flags, NEW ps, hasOut => outNames /\ f # "absent",
         f = "set" => FALSE \notin ps, CheckOut(f, ps)
  PROVE  faulty' \subseteq rejected'
BY DEF CheckOut, MayBeUnset, Flags

\* Statements that stand alone keep the joins right, and only a reference
\* handed to a method is not checked.
LEMMA SafeSimple ==
  ASSUME SInv, ~loose, Simple
  PROVE  Joins' /\ (HandOver \/ faulty' \subseteq rejected')
<1>1. /\ TypeOK /\ Joins /\ (hasOut => outNames) /\ open # <<>>
      /\ hasOut' = hasOut
  BY DEF SInv, Simple, DeclareLate, Assign, Read, HandOver, FillByMethod,
         Return, Throw, Writing, Program
<1>2. late \in Flags /\ paths \in SUBSET Paths
  BY <1>1 DEF TypeOK
<1>3. ASSUME open' = Escape(open, paths), late' \in {late, "set"},
             FALSE \notin paths', paths = {} => paths' = {}
      PROVE  Joins'
  <2>1. open \in Seq(Frames) /\ Len(open) \in Nat
    BY <1>1, FrameFacts
  <2>2. \A i \in 1..Len(open) : /\ open[i].before = "set" => FALSE \notin paths
                                /\ open[i].returns => paths = {}
    BY <1>1 DEF Joins, PlaceRight, Holds
  <2>3. /\ FramesRight(open') /\ Len(open') = Len(open)
        /\ \A i \in 1..Len(open) : /\ open'[i].before = open[i].before
                                   /\ open'[i].returns = open[i].returns
    <3>1. FramesRight(open)
      BY <1>1 DEF Joins
    <3>2. Len(open') = Len(open)
      BY <1>2, <1>3, <2>1, EscapeShape
    <3> QED
      BY <1>2, <1>3, <2>1, <2>2, <3>1, <3>2, EscapeRight
  <2>4. \A i \in 1..Len(open) : Holds(open'[i], late', paths')
    BY <1>1, <1>3, <2>3 DEF Joins, PlaceRight, Holds
  <2>5. hasOut => late' # "absent"
    BY <1>1, <1>3 DEF Joins, PlaceRight
  <2> QED
    BY <1>1, <1>3, <2>3, <2>4, <2>5, SameFunction DEF PlaceRight
<1>4. CASE DeclareLate
  <2> DEFINE f == [Top EXCEPT !.declares = TRUE]
  <2>1. Top \in Frames /\ FrameRight(Top)
    BY <1>1, TopFacts, TopRight DEF FrameRight
  <2>2. /\ f \in Frames /\ FrameRight(f) /\ f.before = Top.before
        /\ f.entry = Top.entry /\ f.ended = Top.ended
        /\ f.escaped = Top.escaped /\ f.returns = Top.returns
    BY <2>1, Irrelevant DEF Frames
  <2>3. open' = [open EXCEPT ![Len(open)] = f]
    BY <1>4 DEF DeclareLate, Top
  <2>4. /\ late = "absent" /\ late' = "unset"
        /\ paths' = Uninitialised(paths) /\ NoCheck
    BY <1>4 DEF DeclareLate
  <2>5. Top.before # "set" /\ (Top.returns => paths' = {})
        /\ (paths = {} => paths' = {})
    BY <1>1, <2>4, TopRight DEF Holds, Uninitialised
  <2> HIDE DEF f
  <2>6. Joins'
    BY <1>1, <2>2, <2>3, <2>4, <2>5, ReplaceJoins
  <2> QED
    BY <2>4, <2>6 DEF NoCheck
<1>5. CASE Assign
  <2>1. /\ open' = Escape(open, paths) /\ late' = "set"
        /\ paths' = Initialised(paths) /\ NoCheck
    BY <1>5 DEF Assign
  <2>2. FALSE \notin paths' /\ (paths = {} => paths' = {})
    BY <2>1 DEF Initialised
  <2> QED
    BY <1>3, <2>1, <2>2 DEF NoCheck
<1>6. CASE Read
  <2>1. faulty' \subseteq rejected'
    BY <1>1, <1>2, <1>6, UseIsSafe DEF Read, Joins, PlaceRight
  <2>2. open' = open /\ late' = late /\ paths' = paths
    BY <1>6 DEF Read
  <2> QED
    BY <1>1, <2>1, <2>2, SameFunction DEF Joins
<1>7. CASE Return
  <2> DEFINE f == [Top EXCEPT !.returns = TRUE]
  <2>1. Top \in Frames /\ FrameRight(Top)
    BY <1>1, TopFacts, TopRight DEF FrameRight
  <2>2. /\ f \in Frames /\ FrameRight(f) /\ f.before = Top.before
        /\ f.entry = Top.entry /\ f.ended = Top.ended
        /\ f.escaped = Top.escaped
    BY <2>1, Irrelevant DEF Frames
  <2>3. open' = [open EXCEPT ![Len(open)] = f]
    BY <1>7 DEF Return, Top
  <2>4. late' = late /\ paths' = {} /\ CheckOut(late, paths)
    BY <1>7 DEF Return
  <2> HIDE DEF f
  <2>5. /\ Top.before = "set" => late' = "set"
        /\ hasOut => late # "absent"
        /\ late = "set" => FALSE \notin paths
    BY <1>1, <2>4, TopRight DEF Holds
  <2>6. Joins'
    BY <1>1, <2>2, <2>3, <2>4, <2>5, ReplaceJoins
  <2>7. faulty' \subseteq rejected'
    BY <1>1, <1>2, <2>4, <2>5, CheckIsSafe
  <2> QED
    BY <2>6, <2>7
<1>8. CASE Throw
  <2>1. /\ open' = Escape(open, paths) /\ late' = late
        /\ paths' = {} /\ NoCheck
    BY <1>8 DEF Throw
  <2> QED
    BY <1>3, <2>1 DEF NoCheck
<1>9. CASE HandOver
  <2>1. open' = open /\ late' = late /\ paths' = paths
    BY <1>9 DEF HandOver
  <2> QED
    BY <1>1, <1>9, <2>1, SameFunction DEF Joins
<1>10. CASE FillByMethod
  <2>1. /\ open' = Escape(open, paths) /\ late' = late
        /\ paths' = Initialised(paths) /\ NoCheck
    BY <1>10 DEF FillByMethod
  <2>2. FALSE \notin paths' /\ (paths = {} => paths' = {})
    BY <2>1 DEF Initialised
  <2> QED
    BY <1>3, <2>1, <2>2 DEF NoCheck
<1> QED
  BY <1>4, <1>5, <1>6, <1>7, <1>8, <1>9, <1>10 DEF Simple

\* A function begins with its parameters and ends with the check of them.
LEMMA SafeFunction ==
  ASSUME SInv, BeginFunction \/ (EndFunction /\ ~loose)
  PROVE  Joins' /\ faulty' \subseteq rejected'
<1>1. CASE BeginFunction
  <2> DEFINE f == [FrameFor("function") EXCEPT !.before = late',
                     !.first = late', !.entry = paths', !.declares = hasOut']
  <2>1. /\ late' = (IF hasOut' THEN "unset" ELSE "absent")
        /\ open' = <<f>> /\ NoCheck
    BY <1>1 DEF BeginFunction
  <2>2. /\ f.kind = "function" /\ f.before = late' /\ f.first = late'
        /\ f.merged = "none" /\ f.firstReturns = FALSE /\ f.returns = FALSE
        /\ f.ended = {} /\ f.update = "none"
    BY DEF FrameFor
  <2> HIDE DEF f
  <2>3. Len(open') = 1 /\ open'[1] = f
    BY <2>1
  <2>4. \A i \in 1..Len(open') : /\ open'[i] = f
                                 /\ \A j \in i + 1..Len(open') : FALSE
    BY <2>3
  <2>5. FrameRight(open[1])' /\ Holds(open[1], late, paths)'
    BY <2>1, <2>2, <2>3
    DEF FrameRight, EndsRight, PartRight, StaysSet, Tracking, Holds
  <2>6. FramesRight(open)'
    BY <2>3, <2>4, <2>5 DEF FramesRight
  <2>7. PlaceRight(open, late, paths)'
    BY <2>1, <2>3, <2>4, <2>5 DEF PlaceRight
  <2> QED
    BY <2>1, <2>6, <2>7 DEF Joins, NoCheck
<1>2. CASE EndFunction /\ ~loose
  <2>1. /\ TypeOK /\ Joins /\ open # <<>> /\ (hasOut => outNames)
        /\ hasOut' = hasOut
    BY <1>2 DEF SInv, EndFunction, Inside, Program
  <2>2. PartEnd \in Flags
    BY <2>1, PartEndTypes
  <2>3. /\ hasOut => PartEnd # "absent"
        /\ PartEnd = "set" => FALSE \notin paths
    BY <2>1, PartEndRight, TopRight DEF PartEnd, Leave
  <2>4. faulty' \subseteq rejected'
    BY <1>2, <2>1, <2>2, <2>3, CheckIsSafe DEF EndFunction
  <2>5. open' = <<>> /\ Len(open') = 0 /\ paths' = {}
    BY <1>2 DEF EndFunction
  <2>6. Joins'
    BY <2>1, <2>5, SameFunction DEF FramesRight, PlaceRight
  <2> QED
    BY <2>4, <2>6
<1> QED
  BY <1>1, <1>2

\* A frame with the flag and the paths of its first part is pushed.
LEMMA PushJoins ==
  ASSUME TypeOK, Joins, NEW f \in Frames, open' = Append(open, f),
         open # <<>>, hasOut' = hasOut,
         f.kind \notin {"else", "catch"}, f.before = late', f.first = late',
         f.firstReturns = FALSE, f.returns = FALSE, f.merged = "none",
         f.entry = paths', f.ended = {}, f.escaped \in {{}, paths'},
         f.update # "none" => late' # "absent",
         late = "set" => late' = "set", paths = {} => paths' = {},
         late' = "set" => FALSE \notin paths',
         late # "absent" => late' # "absent"
  PROVE  Joins'
<1> DEFINE n == Len(open)
<1>1. /\ n \in Nat /\ open \in Seq(Frames) /\ Len(open') = n + 1
      /\ open'[n + 1] = f /\ \A i \in 1..n : open'[i] = open[i]
  BY FrameFacts, AppendProperties
<1>2. /\ hasOut => late' # "absent"
      /\ \A i \in 1..n : /\ Holds(open[i], late, paths)
                         /\ Holds(open[i], late', paths')
  BY DEF Joins, PlaceRight, Holds
<1> HIDE DEF n
<1>3. FrameRight(f)
  BY <1>2 DEF FrameRight, EndsRight, PartRight, StaysSet, Tracking
<1>4. \A i \in 1..n : Under(open[i], f)
  BY <1>2 DEF Under, Holds
<1>5. FramesRight(open')
  BY <1>1, <1>3, <1>4, AppendRight DEF Joins, n
<1>6. Holds(f, late', paths')
  BY DEF Holds
<1>7. \A i \in 1..n + 1 : Holds(open'[i], late', paths')
  <2>1. \A i \in 1..n + 1 : i = n + 1 \/ i \in 1..n
    BY <1>1
  <2> QED
    BY <1>1, <1>2, <1>6, <2>1
<1> QED
  BY <1>1, <1>2, <1>5, <1>7, SameFunction DEF PlaceRight

\* A statement begins: nothing has been assigned yet in its first part.
LEMMA SafeBegin ==
  ASSUME SInv, ~loose', Beginning \/ BeginFor
  PROVE  Joins' /\ faulty' \subseteq rejected'
<1>1. CASE Beginning
  <2>1. TypeOK
    BY DEF SInv
  <2>2. PICK k \in Kinds \ {"function", "else", "catch", "for"} :
          /\ open # <<>> /\ Len(open) < MaxDepth
          /\ open' = Append(open, FrameFor(k))
          /\ late' = late /\ paths' = paths /\ NoCheck
          /\ UNCHANGED <<hasOut, outNames, loose, unseen>>
    BY <1>1, <2>1, BeginningStep
  <2> DEFINE f == FrameFor(k)
  <2>3. /\ f \in Frames /\ f.kind = k /\ f.before = late /\ f.first = late
        /\ f.firstReturns = FALSE /\ f.returns = FALSE /\ f.merged = "none"
        /\ f.entry = paths /\ f.ended = {} /\ f.escaped \in {{}, paths}
        /\ f.update = "none"
    BY <2>1, FrameForType DEF FrameFor
  <2>4. Joins /\ (late = "set" => FALSE \notin paths)
    BY <2>2 DEF SInv, Joins, PlaceRight
  <2> HIDE DEF f
  <2>5. open' = Append(open, f)
    BY <2>2 DEF f
  <2>6. Joins'
    BY <2>1, <2>2, <2>3, <2>4, <2>5, PushJoins
  <2> QED
    BY <2>2, <2>6 DEF NoCheck
<1>2. CASE BeginFor
  <2>1. TypeOK
    BY DEF SInv
  <2>2. PICK d \in BOOLEAN, u \in Updates, flag \in Flags,
             ps \in SUBSET Paths, f \in Frames : ForStep(d, u, flag, ps, f)
    BY <1>2, <2>1, BeginForStep
  <2>3. late' = flag /\ ~loose
    BY <2>2 DEF ForStep
  <2>4. /\ Joins /\ (late = "set" => FALSE \notin paths)
        /\ flag = "set" => FALSE \notin ps
        /\ late # "absent" => flag = late /\ ps = paths
        /\ paths = {} => ps = {}
    BY <2>2, <2>3 DEF SInv, Joins, PlaceRight, ForStep, Uninitialised
  <2>5. Joins'
    BY <2>1, <2>2, <2>3, <2>4, PushJoins DEF ForStep
  <2>6. faulty' \subseteq rejected'
    <3>1. CASE flag # "absent" /\ Use(flag, ps)
      BY <2>4, <3>1, UseIsSafe
    <3>2. CASE (Report(flag) /\ faulty' = {}) \/ NoCheck
      BY <3>2 DEF NoCheck
    <3> QED
      BY <2>2, <3>1, <3>2 DEF ForStep
  <2> QED
    BY <2>5, <2>6
<1> QED
  BY <1>1, <1>2

\* An else, an arm or a further catch begins: the part before it is recorded.
LEMMA SafeNextPart ==
  ASSUME SInv, ~loose', BeginElse \/ BeginArm \/ NextCatch
  PROVE  Joins' /\ faulty' \subseteq rejected'
<1>1. /\ TypeOK /\ Joins /\ open # <<>> /\ NoCheck /\ hasOut' = hasOut
  BY DEF SInv, BeginElse, BeginArm, NextCatch, Inside, Program
<1>2. /\ EndsRight(Top) /\ PartRight(Top) /\ StaysSet(Top)
      /\ hasOut => Tracking(Top)
      /\ PartEnd = "set" => FALSE \notin PathsAtEnd
      /\ Top.before = "set" => PartEnd = "set"
      /\ Top.returns => PathsAtEnd = {}
      /\ paths = {} => PathsAtEnd = {}
      /\ hasOut => PartEnd # "absent"
  BY <1>1, TopRight, PartEndRight
<1>3. /\ Top \in Frames /\ PartEnd \in Flags /\ PathsAtEnd \in SUBSET Paths
      /\ Top.returns \in BOOLEAN /\ Top.merged \in Flags \cup {"none"}
      /\ Top.entry \in SUBSET Paths /\ Top.ended \in SUBSET Paths
  BY <1>1, TopFacts, PartEndTypes
<1>4. CASE BeginElse
  <2> DEFINE g == [Top EXCEPT !.first = PartEnd,
                              !.firstReturns = Top.returns,
                              !.ended = PathsAtEnd]
             f == [g EXCEPT !.kind = "else", !.returns = FALSE,
                            !.declares = FALSE, !.leaks = FALSE]
  <2>1. g \in Frames
    BY <1>3 DEF Frames
  <2>2. /\ f \in Frames /\ f.kind = "else" /\ f.first = PartEnd
        /\ f.firstReturns = Top.returns /\ f.ended = PathsAtEnd
        /\ f.before = Top.before /\ f.entry = Top.entry
        /\ f.escaped = Top.escaped /\ f.merged = Top.merged
        /\ f.returns = FALSE /\ f.update = Top.update
    BY <1>3, <2>1 DEF Frames, Kinds
  <2>3. /\ open' = [open EXCEPT ![Len(open)] = f]
        /\ late' = Top.before /\ paths' = Top.entry
    BY <1>4 DEF BeginElse, NextPart
  <2>4. Top.merged = "none"
    BY <1>2, <1>4 DEF BeginElse, Inside, PartRight
  <2> HIDE DEF f
  <2>5. FrameRight(f)
    BY <1>2, <2>2, <2>4
    DEF FrameRight, EndsRight, PartRight, StaysSet, Tracking
  <2>6. Joins'
    BY <1>1, <1>2, <2>2, <2>3, <2>5, ReplaceJoins DEF StaysSet, Tracking
  <2> QED
    BY <1>1, <2>6 DEF NoCheck
<1>5. CASE BeginArm
  <2> DEFINE g == [Top EXCEPT !.ended = @ \cup PathsAtEnd]
             f == [g EXCEPT !.kind = "arm", !.returns = FALSE,
                            !.declares = FALSE, !.leaks = FALSE]
  <2>1. g \in Frames
    BY <1>3 DEF Frames
  <2>2. /\ f \in Frames /\ f.kind = "arm" /\ f.first = Top.first
        /\ f.firstReturns = Top.firstReturns
        /\ f.ended = Top.ended \cup PathsAtEnd
        /\ f.before = Top.before /\ f.entry = Top.entry
        /\ f.escaped = Top.escaped /\ f.merged = Top.merged
        /\ f.returns = FALSE /\ f.update = Top.update
    BY <1>3, <2>1 DEF Frames, Kinds
  <2>3. /\ open' = [open EXCEPT ![Len(open)] = f]
        /\ late' = PartEnd /\ paths' = Top.entry /\ PartEnd = Top.before
    BY <1>5 DEF BeginArm, NextPart
  <2>4. Top.kind = "arm"
    BY <1>5 DEF BeginArm, Inside
  <2> HIDE DEF f
  <2>5. FrameRight(f)
    BY <1>2, <2>2, <2>3, <2>4
    DEF FrameRight, EndsRight, PartRight, StaysSet, Tracking
  <2>6. Joins'
    BY <1>1, <1>2, <2>2, <2>3, <2>5, ReplaceJoins DEF StaysSet, Tracking
  <2> QED
    BY <1>1, <2>6 DEF NoCheck
<1>6. CASE NextCatch
  <2> DEFINE m == MergeCatch(Top.merged, Top.returns, PartEnd)
             g == [Top EXCEPT !.merged = MergeCatch(@, Top.returns, PartEnd),
                              !.ended = @ \cup PathsAtEnd]
             f == [g EXCEPT !.kind = "catch", !.returns = FALSE,
                            !.declares = FALSE, !.leaks = FALSE]
  <2>1. m \in Flags \cup {"none"} /\ g \in Frames /\ g.merged = m
        /\ g.ended = Top.ended \cup PathsAtEnd
    BY <1>3, JoinTypes DEF Frames
  <2>2. /\ f \in Frames /\ f.kind = "catch" /\ f.first = Top.first
        /\ f.firstReturns = Top.firstReturns
        /\ f.ended = Top.ended \cup PathsAtEnd
        /\ f.before = Top.before /\ f.entry = Top.entry
        /\ f.escaped = Top.escaped /\ f.merged = m
        /\ f.returns = FALSE /\ f.update = Top.update
    BY <1>3, <2>1 DEF Frames, Kinds
  <2>3. /\ open' = [open EXCEPT ![Len(open)] = f]
        /\ late' = Top.before /\ paths' = Top.escaped
    BY <1>6 DEF NextCatch, NextPart
  <2>4. /\ m = "set" => \/ Top.returns /\ Top.merged = "set"
                        \/ /\ ~Top.returns /\ PartEnd = "set"
                           /\ Top.merged \in {"set", "none"}
        /\ m = "none" => Top.returns /\ Top.merged = "none"
        /\ hasOut => m # "absent"
        /\ Top.before = "set" => m \in {"set", "none"}
    BY <1>2, <1>3 DEF MergeCatch, Both, Tracking, StaysSet, Flags
  <2> HIDE DEF f, m, g
  <2>5. FrameRight(f)
    BY <1>2, <2>2, <2>4
    DEF FrameRight, EndsRight, PartRight, StaysSet, Tracking
  <2>6. Joins'
    BY <1>1, <1>2, <2>2, <2>3, <2>5, ReplaceJoins DEF StaysSet, Tracking
  <2> QED
    BY <1>1, <2>6 DEF NoCheck
<1> QED
  BY <1>4, <1>5, <1>6

\* The first catch begins with the paths that exceptions took out of the try,
\* and what it may not match goes to the try around it.
LEMMA SafeBeginCatch ==
  ASSUME SInv, ~loose', BeginCatch
  PROVE  Joins' /\ faulty' \subseteq rejected'
<1>1. /\ TypeOK /\ Joins /\ open # <<>> /\ NoCheck /\ hasOut' = hasOut
      /\ Top.kind = "try" /\ late' = Top.before /\ paths' = Top.escaped
  BY DEF SInv, BeginCatch, Inside, Program
<1> DEFINE n     == Len(open) - 1
           front == SubSeq(open, 1, n)
           f     == [Top EXCEPT !.kind = "catch", !.returns = FALSE,
                                !.declares = FALSE, !.leaks = FALSE,
                                !.first = PartEnd,
                                !.firstReturns = Top.returns,
                                !.ended = PathsAtEnd]
<1>2. PICK ps \in {{}, Top.escaped} : open' = Append(Escape(front, ps), f)
  BY DEF BeginCatch
<1>3. /\ Top \in Frames /\ PartEnd \in Flags /\ PathsAtEnd \in SUBSET Paths
      /\ Top.escaped \in SUBSET Paths /\ ps \in SUBSET Paths
      /\ Top.returns \in BOOLEAN
  BY <1>1, TopFacts, PartEndTypes
<1>4. /\ f \in Frames /\ f.kind = "catch" /\ f.first = PartEnd
      /\ f.firstReturns = Top.returns /\ f.ended = PathsAtEnd
      /\ f.before = Top.before /\ f.entry = Top.entry
      /\ f.escaped = Top.escaped /\ f.merged = Top.merged
      /\ f.returns = FALSE /\ f.update = Top.update
  BY <1>3 DEF Frames, Kinds
<1>5. /\ EndsRight(Top) /\ PartRight(Top) /\ StaysSet(Top)
      /\ hasOut => Tracking(Top)
      /\ PartEnd = "set" => FALSE \notin PathsAtEnd
      /\ Top.before = "set" => PartEnd = "set"
      /\ Top.returns => PathsAtEnd = {}
      /\ paths = {} => PathsAtEnd = {}
      /\ hasOut => PartEnd # "absent"
  BY <1>1, TopRight, PartEndRight
<1>6. /\ n \in Nat /\ n <= Len(open) /\ front \in Seq(Frames)
      /\ Len(front) = n /\ \A i \in 1..n : front[i] = open[i]
  <2>1. Len(open) \in 1..MaxDepth /\ Len(open) # 1
    BY <1>1, TopFacts
  <2>2. n \in Nat /\ n \in 1..Len(open) /\ n < Len(open)
    BY <2>1, OneLess
  <2>3. TypeOK
    BY <1>1
  <2>4. \A i \in 1..n : open[i] \in Frames
    BY <2>2, <2>3, FrameFacts
  <2>5. /\ front \in Seq(Frames) /\ Len(front) = n
        /\ \A i \in 1..n : front[i] = open[i]
    BY <2>2, <2>3, <2>4, SubSeqProperties, FrameFacts
  <2> QED
    BY <2>2, <2>5
<1>7. \A i \in 1..n : /\ Under(open[i], Top) /\ Holds(open[i], late, paths)
  BY <1>1, TopRight
<1> HIDE DEF f, front, n
<1>8. FramesRight(front)
  <2>1. open \in Seq(Frames) /\ FramesRight(open)
    BY <1>1, FrameFacts DEF Joins
  <2> QED
    BY <1>6, <2>1, FrontRight
<1>9. \A i \in 1..n : /\ front[i].before = "set" => FALSE \notin ps
                      /\ front[i].returns => ps = {}
  BY <1>5, <1>6, <1>7 DEF Under, StaysSet
<1> DEFINE q == Escape(front, ps)
<1>10. /\ FramesRight(q)
       /\ \A i \in 1..n : /\ q[i].before = front[i].before
                          /\ q[i].returns = front[i].returns
  BY <1>3, <1>6, <1>8, <1>9, EscapeRight
<1>11. q \in Seq(Frames) /\ Len(q) = n
  BY <1>3, <1>6, EscapeShape
<1> HIDE DEF q
<1>12. FrameRight(f)
  BY <1>1, <1>4, <1>5 DEF FrameRight, EndsRight, PartRight, StaysSet, Tracking
<1>13. \A i \in 1..n : Under(q[i], f) /\ Holds(q[i], late', paths')
  BY <1>1, <1>4, <1>5, <1>6, <1>7, <1>10 DEF Under, Holds
<1>14. open' = Append(q, f)
  BY <1>2 DEF q
<1>15. /\ FramesRight(open') /\ Len(open') = n + 1 /\ open'[n + 1] = f
       /\ \A i \in 1..n : open'[i] = q[i]
  BY <1>4, <1>10, <1>11, <1>12, <1>13, <1>14, AppendRight, AppendProperties
<1>16. \A i \in 1..n + 1 : Holds(open'[i], late', paths')
  <2>1. Holds(f, late', paths')
    BY <1>1, <1>4 DEF Holds
  <2>2. \A i \in 1..n + 1 : i = n + 1 \/ i \in 1..n
    BY <1>6
  <2> QED
    BY <1>13, <1>15, <2>1, <2>2
<1>17. /\ late' = "set" => FALSE \notin paths'
       /\ hasOut => late' # "absent"
  BY <1>1, <1>5 DEF StaysSet, Tracking
<1>18. Joins'
  BY <1>1, <1>15, <1>16, <1>17, SameFunction DEF PlaceRight
<1> QED
  BY <1>1, <1>18 DEF NoCheck

\* The flag that a statement leaves speaks for all the paths it joins.
LEMMA SafeEnding ==
  ASSUME SInv, ~loose', Ending
  PROVE  Joins' /\ faulty' \subseteq rejected'
<1>1. /\ TypeOK /\ open # <<>> /\ Top.kind # "function" /\ hasOut' = hasOut
      /\ ~loose
  <2>1. open # <<>> /\ Top.kind # "function"
    BY DEF Ending, EndBlock, EndIfWithoutElse, EndIf, EndDo, EndWhile,
           EndFor, EndMatch, EndTry, Inside
  <2>2. hasOut' = hasOut
    BY DEF Ending, EndBlock, EndIfWithoutElse, EndIf, EndDo, EndWhile,
           EndFor, EndMatch, EndTry, Program
  <2>3. ~loose
    <3>1. CASE loose' = loose
      BY <3>1
    <3>2. CASE EndWhile \/ EndFor \/ EndMatch \/ EndTry
      BY <3>2 DEF EndWhile, EndFor, EndMatch, EndTry
    <3> QED
      BY <3>1, <3>2 DEF Ending, EndBlock, EndIfWithoutElse, EndIf, EndDo
  <2> QED
    BY <2>1, <2>2, <2>3 DEF SInv
<1>2. Joins
  BY <1>1 DEF SInv
<1>3. /\ EndsRight(Top) /\ PartRight(Top) /\ StaysSet(Top)
      /\ hasOut => Tracking(Top)
      /\ Holds(Top, late, paths)
      /\ PartEnd = "set" => FALSE \notin PathsAtEnd
      /\ Top.before = "set" => PartEnd = "set"
      /\ Top.returns => PathsAtEnd = {}
      /\ paths = {} => PathsAtEnd = {}
      /\ hasOut => PartEnd # "absent"
  BY <1>1, <1>2, TopRight, PartEndRight
<1>4. /\ PartEnd \in Flags /\ PathsAtEnd \in SUBSET Paths
      /\ Top.before \in Flags /\ Top.first \in Flags
      /\ Top.returns \in BOOLEAN /\ Top.firstReturns \in BOOLEAN
      /\ Top.merged \in Flags \cup {"none"}
  BY <1>1, TopFacts, PartEndTypes
<1> DEFINE Right(r) ==
      /\ \E l \in BOOLEAN : open' = Pop(open, r, l)
      /\ Top.before = "set" => late' = "set"
      /\ /\ paths = {} /\ Top.entry = {} /\ Top.ended = {}
         /\ Top.escaped = {}
         => paths' = {}
      /\ r => paths' = {}
      /\ late' = "set" => FALSE \notin paths'
      /\ hasOut => late' # "absent"
<1>5. ASSUME NEW r \in BOOLEAN, Right(r) PROVE Joins'
  <2>1. PICK l \in BOOLEAN : open' = Pop(open, r, l)
    BY <1>5
  <2> QED
    BY <1>1, <1>2, <1>5, <2>1, PopJoins
<1> HIDE DEF Right
<1>6. CASE EndBlock
  <2>1. Right(Top.returns)
    BY <1>3, <1>6 DEF EndBlock, Right
  <2> QED
    BY <1>4, <1>5, <1>6, <2>1 DEF EndBlock, NoCheck
<1>7. CASE EndIfWithoutElse
  <2>1. late' = JoinIf(PartEnd, Top.returns, Top.before, FALSE)
        /\ paths' = PathsAtEnd \cup Top.entry
    BY <1>7 DEF EndIfWithoutElse
  <2>2. Right(FALSE)
    BY <1>3, <1>4, <1>7, <2>1
    DEF EndIfWithoutElse, Right, JoinIf, Both, StaysSet, Tracking
  <2> QED
    BY <1>5, <1>7, <2>2 DEF EndIfWithoutElse, NoCheck
<1>8. CASE EndIf
  <2>1. /\ late' = JoinIf(Top.first, Top.firstReturns, PartEnd, Top.returns)
        /\ paths' = Top.ended \cup PathsAtEnd
        /\ open' = Pop(open, Top.firstReturns /\ Top.returns, FALSE) /\ NoCheck
    BY <1>8 DEF EndIf
  <2>2. Top.merged = "none"
    BY <1>3, <1>8 DEF EndIf, Inside, PartRight
  <2>3. Right(Top.firstReturns /\ Top.returns)
    BY <1>3, <1>4, <2>1, <2>2
    DEF Right, JoinIf, Both, StaysSet, Tracking, EndsRight
  <2>4. (Top.firstReturns /\ Top.returns) \in BOOLEAN
    OBVIOUS
  <2> QED
    BY <1>5, <2>1, <2>3, <2>4 DEF NoCheck
<1>9. CASE EndDo
  <2>1. Right(FALSE)
    BY <1>3, <1>9 DEF EndDo, Right
  <2>2. faulty' \subseteq rejected'
    <3>1. CASE PartEnd # "absent" /\ Use(PartEnd, PathsAtEnd)
      BY <1>3, <1>4, <3>1, UseIsSafe
    <3> QED
      BY <1>9, <3>1 DEF EndDo, Condition, NoCheck
  <2> QED
    BY <1>5, <2>1, <2>2
<1>10. CASE EndWhile
  <2>1. /\ PartEnd = Top.before /\ late' = PartEnd
        /\ paths' = Top.entry \cup PathsAtEnd /\ open' = Pop(open, FALSE, FALSE)
        /\ Condition(PartEnd, Top.entry \cup PathsAtEnd)
    BY <1>10 DEF EndWhile
  <2>2. PartEnd = "set" => FALSE \notin Top.entry \cup PathsAtEnd
    BY <1>3, <2>1 DEF StaysSet
  <2>3. Right(FALSE)
    BY <1>3, <2>1, <2>2 DEF Right
  <2>4. faulty' \subseteq rejected'
    <3>1. CASE PartEnd # "absent" /\ Use(PartEnd, Top.entry \cup PathsAtEnd)
      BY <1>4, <2>2, <3>1, UseIsSafe
    <3> QED
      BY <2>1, <3>1 DEF Condition, NoCheck
  <2> QED
    BY <1>5, <2>3, <2>4
<1>11. CASE EndFor
  <2> DEFINE l  == Top.declares /\ PartEnd # "absent"
             ps == IF Top.update = "writes" THEN Initialised(paths) ELSE paths
  <2>1. /\ Top.declares \/ PartEnd = Top.before
        /\ late' = PartEnd /\ open' = Pop(open, FALSE, l) /\ l \in BOOLEAN
        /\ paths' = LeaveScope(Top.declares, Top.entry \cup ps)
        /\ IF Top.update = "reads" THEN Use(Top.before, paths) ELSE NoCheck
    BY <1>11 DEF EndFor
  <2>2. /\ ps \in SUBSET Paths /\ Top.entry \in SUBSET Paths
        /\ FALSE \notin paths => FALSE \notin ps
        /\ paths = {} => ps = {}
    BY <1>1, TopFacts DEF TypeOK, Initialised, Paths
  <2>3. ~Top.declares => PathsAtEnd = paths
    BY DEF PathsAtEnd, LeaveScope
  <2> HIDE DEF l, ps
  <2>4. late' = "set" => FALSE \notin paths'
    <3>1. CASE Top.declares
      BY <2>1, <2>2, <3>1, LeaveScopePaths
    <3>2. CASE ~Top.declares
      BY <1>3, <2>1, <2>2, <2>3, <3>2 DEF LeaveScope, StaysSet
    <3> QED
      BY <3>1, <3>2
  <2>5. paths = {} /\ Top.entry = {} => paths' = {}
    BY <2>1, <2>2 DEF LeaveScope, Initialised
  <2>6. Right(FALSE)
    BY <1>3, <2>1, <2>4, <2>5 DEF Right
  <2>7. faulty' \subseteq rejected'
    <3>1. CASE Top.update = "reads"
      <4>1. Top.before # "absent" /\ Use(Top.before, paths)
        BY <1>3, <2>1, <3>1 DEF PartRight
      <4>2. Top.before = "set" => FALSE \notin paths
        BY <1>2, <1>3 DEF Holds, Joins, PlaceRight
      <4> QED
        BY <1>4, <4>1, <4>2, UseIsSafe
    <3> QED
      BY <2>1, <3>1 DEF NoCheck
  <2> QED
    BY <1>5, <2>6, <2>7
<1>12. CASE EndMatch
  <2>1. /\ PartEnd = Top.before /\ late' = PartEnd /\ NoCheck
        /\ open' = Pop(open, FALSE, FALSE) /\ Top.kind = "arm"
        /\ paths' \subseteq Top.ended \cup PathsAtEnd \cup Top.entry
    BY <1>12 DEF EndMatch, Inside
  <2>2. Right(FALSE)
    BY <1>3, <2>1 DEF Right, StaysSet, EndsRight, PartRight
  <2> QED
    BY <1>5, <2>1, <2>2 DEF NoCheck
<1>13. CASE EndTry
  <2> DEFINE m == MergeCatch(Top.merged, Top.returns, PartEnd)
  <2>1. /\ late' = JoinTry(Top.before, Top.first, Top.firstReturns, m)
        /\ ~Top.firstReturns /\ m # "none" => m = Top.first
        /\ paths' = Top.ended \cup PathsAtEnd /\ NoCheck
        /\ open' = Pop(open, Top.firstReturns /\ m = "none", FALSE)
    BY <1>13 DEF EndTry
  <2>2. /\ m = "set" => \/ Top.returns /\ Top.merged = "set"
                        \/ /\ ~Top.returns /\ PartEnd = "set"
                           /\ Top.merged \in {"set", "none"}
        /\ m = "none" => Top.returns /\ Top.merged = "none"
        /\ hasOut => m # "absent"
        /\ Top.before = "set" => m \in {"set", "none"}
    BY <1>3, <1>4 DEF MergeCatch, Both, Tracking, StaysSet, Flags
  <2> HIDE DEF m
  <2>3. Top.before = "set" => late' = "set"
    BY <1>3, <2>1, <2>2 DEF JoinTry, Either, StaysSet
  <2>4. late' = "set" => FALSE \notin paths'
    <3>1. CASE m = "none"
      BY <1>3, <2>1, <2>2, <3>1 DEF JoinTry, EndsRight
    <3>2. CASE m # "none"
      <4>1. late' = m
        BY <2>1, <3>2 DEF JoinTry, Either
      <4>2. m = "set" => Top.first = "set" \/ Top.firstReturns
        BY <2>1, <3>2
      <4> QED
        BY <1>3, <2>1, <2>2, <4>1, <4>2 DEF EndsRight
    <3> QED
      BY <3>1, <3>2
  <2>5. hasOut => late' # "absent"
    BY <1>3, <2>1, <2>2 DEF JoinTry, Either, Tracking
  <2>6. Top.firstReturns /\ m = "none" => paths' = {}
    BY <1>3, <2>1, <2>2 DEF EndsRight
  <2>7. Right(Top.firstReturns /\ m = "none")
    BY <1>3, <2>1, <2>3, <2>4, <2>5, <2>6 DEF Right
  <2>8. (Top.firstReturns /\ m = "none") \in BOOLEAN
    OBVIOUS
  <2> QED
    BY <1>5, <2>1, <2>7, <2>8 DEF NoCheck
<1> QED
  BY <1>6, <1>7, <1>8, <1>9, <1>10, <1>11, <1>12, <1>13 DEF Ending

\* The invariant holds in every reachable state.
THEOREM JoinsAreRight == Spec => []SInv
<1>1. Init => SInv
  <2> SUFFICES ASSUME Init PROVE SInv
    OBVIOUS
  <2>1. TypeOK /\ open = <<>> /\ Len(open) = 0
    BY TypeInit DEF Init
  <2>2. Joins
    BY <2>1 DEF Init, Joins, FramesRight, PlaceRight
  <2> QED
    BY <2>1, <2>2 DEF Init, SInv, StructuredIsSafe
<1>2. SInv /\ [Next]_vars => SInv'
  <2> SUFFICES ASSUME SInv, [Next]_vars PROVE SInv'
    OBVIOUS
  <2>1. TypeOK'
    BY TypeStep DEF SInv
  <2>2. hasOut' => outNames'
    <3>1. CASE BeginFunction
      BY <3>1 DEF BeginFunction
    <3>2. CASE hasOut' = hasOut /\ outNames' = outNames
      BY <3>2 DEF SInv
    <3> QED
      BY <3>1, <3>2
      DEF Next, vars, Program, EndFunction, DeclareLate, Assign, Read,
          HandOver, FillByMethod, Return, Throw, BeginBlock, BeginIf, BeginDo, BeginWhile, BeginTry,
          BeginMatch, Begin, BeginFor, BeginElse, BeginArm, NextCatch,
          BeginCatch, EndBlock, EndIfWithoutElse, EndIf, EndDo, EndWhile,
          EndFor, EndMatch, EndTry
  <2>3. ~loose' => Joins' /\ faulty' \ {"handed"} \subseteq rejected'
    <3> SUFFICES ASSUME ~loose'
                 PROVE  Joins' /\ faulty' \ {"handed"} \subseteq rejected'
      OBVIOUS
    <3>1. CASE BeginFunction \/ EndFunction
      BY <3>1, SafeFunction DEF EndFunction
    <3>2. CASE Simple
      <4>1. ~loose
        BY <3>2 DEF Simple, DeclareLate, Assign, Read, HandOver, FillByMethod,
                    Return, Throw
      <4>2. Joins' /\ (HandOver \/ faulty' \subseteq rejected')
        BY <3>2, <4>1, SafeSimple
      <4>3. HandOver => faulty' \ {"handed"} \subseteq rejected'
        BY DEF HandOver
      <4> QED
        BY <4>2, <4>3
    <3>3. CASE Beginning \/ BeginFor
      BY <3>3, SafeBegin
    <3>4. CASE BeginElse \/ BeginArm \/ NextCatch
      <4>1. ~loose
        BY <3>4 DEF BeginElse, BeginArm, NextCatch
      <4> QED
        BY <3>4, <4>1, SafeNextPart
    <3>5. CASE BeginCatch
      BY <3>5, SafeBeginCatch
    <3>6. CASE Ending
      BY <3>6, SafeEnding
    <3>7. CASE UNCHANGED vars
      <4>1. /\ hasOut' = hasOut /\ open' = open /\ late' = late
            /\ paths' = paths /\ ~loose /\ faulty' = faulty
            /\ rejected' = rejected
        BY <3>7 DEF vars
      <4>2. /\ FramesRight(open) /\ PlaceRight(open, late, paths)
            /\ faulty \ {"handed"} \subseteq rejected
        BY <4>1 DEF SInv, Joins, StructuredIsSafe
      <4>3. Joins'
        BY <4>1, <4>2, SameFunction
      <4> QED
        BY <4>1, <4>2, <4>3
    <3> QED
      BY <3>1, <3>2, <3>3, <3>4, <3>5, <3>6, <3>7
      DEF Next, Ending, Simple, Beginning
  <2> QED
    BY <2>1, <2>2, <2>3 DEF SInv, StructuredIsSafe
<1> QED
  BY <1>1, <1>2, PTL DEF Spec

\* A program that is accepted has no execution that uses the variable, or
\* ends without its out parameter, uninitialised, unless the variable was
\* first assigned in a loop, a match arm, or one of a try and its catches:
\* for any nesting of statements.  What methods and constructors get by
\* reference is not checked.
THEOREM StructuredSafety == Spec => []StructuredIsSafe
<1>1. SInv => StructuredIsSafe
  BY DEF SInv, StructuredIsSafe
<1> QED
  BY <1>1, JoinsAreRight, PTL
=============================================================================
