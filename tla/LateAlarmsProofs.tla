--------------------------- MODULE LateAlarmsProofs ---------------------------
(***************************************************************************)
(* Proofs that the analysis of LateVariables tracks x exactly in its scope *)
(* and raises no false alarm, for every depth to which statements nest.    *)
(***************************************************************************)
EXTENDS LateVariablesProofs

----------------------------------------------------------------------------
(***************************************************************************)
(* Scopes.  Every snapshot knows whether x was tracked where it was taken, *)
(* and only the statement in whose part x is declared forgets it, or the   *)
(* one around a for whose init declares x.                                 *)
(***************************************************************************)

\* x is tracked to the end of this part of the statement.
Tracks(f) == f.declares \/ f.leaks

\* x is tracked to the end of one of the n outer statements.
Declared(q, n) == \E i \in 1..n : Tracks(q[i])

\* The flags that a statement keeps are of the scope around it.
SameScope(f) ==
  /\ f.first = "absent" <=> f.before = "absent"
  /\ f.merged = "none" \/ (f.merged = "absent" <=> f.before = "absent")

\* A statement of this frame was entered with x tracked just if it was declared
\* outside or by its own init; an outer x is not declared in it again.
EnteredIn(f, outer) ==
  /\ outer => f.before # "absent" /\ ~Tracks(f)
  /\ f.before # "absent" => outer \/ (f.kind = "for" /\ f.declares)

\* A function begins with an out parameter or without x.
EnteredRight(q, n) ==
  /\ SameScope(q[n])
  /\ n = 1 => (q[n].before # "absent" <=> hasOut) /\ (hasOut => q[n].declares)
  /\ n > 1 => EnteredIn(q[n], Declared(q, n - 1))

ScopesRight ==
  /\ \A i \in 1..Len(open) : EnteredRight(open, i)
  /\ late # "absent" <=> Declared(open, Len(open))

DInv == TypeOK /\ (hasOut => outNames) /\ ScopesRight

----------------------------------------------------------------------------
(***************************************************************************)
(* Alarms.  Without the ends that statementDefinitelyReturns does not see, *)
(* a part that has not returned has paths where its statement had, and an  *)
(* unset flag speaks for a path with x uninitialised.                      *)
(***************************************************************************)

\* An unset flag has a path that it speaks for, if there are paths at all.
Speaks(flag, ps) == flag = "unset" /\ ps # {} => FALSE \in ps

\* Without paths at its start a statement has none inside; an initialised
\* variable stays so; nothing is left of parts that returned.
PartsRight(f) ==
  /\ f.entry = {} => f.ended = {} /\ f.escaped = {}
  /\ f.before = "set" => f.first = "set" /\ f.merged \in {"set", "none"}
  /\ f.kind \notin {"else", "catch"} => f.first = f.before /\ ~f.firstReturns
  /\ f.kind # "catch" => f.merged = "none"
  /\ f.kind \in {"try", "catch"} => f.entry \subseteq f.escaped
  /\ f.firstReturns /\ f.merged = "none" => f.ended = {}

\* The flags and paths of the finished parts of a branch or a try.
PartsSpeak(f) ==
  /\ Speaks(f.before, f.entry)
  /\ f.kind \in {"else", "catch"} /\ ~f.firstReturns /\ f.entry # {} =>
       f.ended # {} /\ (f.first = "unset" => FALSE \in f.ended)
  /\ f.merged # "none" /\ f.entry # {} =>
       f.ended # {} /\ (f.merged = "unset" => FALSE \in f.ended)

\* f is the innermost statement around a place with this flag and these paths.
Around(f, flag, ps) ==
  /\ f.returns => ps = {}
  /\ f.entry = {} => ps = {}
  /\ f.before = "set" => flag = "set"
AroundAlive(f, ps) == ~f.returns /\ ps = {} => f.entry = {}

\* The statements q are open, at a place with this flag and these paths; hid
\* says that paths have ended unseen.
StackRight(q, flag, ps, hid) ==
  /\ \A i \in 1..Len(q) : PartsRight(q[i]) /\ (~hid => PartsSpeak(q[i]))
  /\ \A i \in 1..Len(q) - 1 :
       /\ Around(q[i], q[i + 1].before, q[i + 1].entry)
       /\ ~hid => AroundAlive(q[i], q[i + 1].entry)
  /\ \A i \in 1..Len(q) : \A j \in i..Len(q) :
       q[i].entry = {} => q[j].entry = {}
  /\ Len(q) > 0 => /\ Around(q[Len(q)], flag, ps)
                   /\ ~hid => AroundAlive(q[Len(q)], ps)
  /\ Len(q) = 0 => ps = {}
  /\ ~hid => Speaks(flag, ps)

AInv == DInv /\ StackRight(open, late, paths, unseen)

----------------------------------------------------------------------------
(* What the steps do to the scopes                                         *)

\* Two frames that are the same as far as scopes go.
Alike(f, g) ==
  /\ f.kind = g.kind /\ f.before = g.before
  /\ f.declares = g.declares /\ f.leaks = g.leaks
  /\ f.first = g.first /\ f.merged = g.merged

\* Only the last frame is new, and it was entered right.
LEMMA LastScope ==
  ASSUME DInv, hasOut' = hasOut, NEW n \in Nat, n <= Len(open),
         Len(open') = n + 1, \A i \in 1..n : Alike(open'[i], open[i]),
         SameScope(open'[n + 1]),
         n = 0 => /\ open'[n + 1].before # "absent" <=> hasOut
                  /\ hasOut => open'[n + 1].declares,
         n > 0 => EnteredIn(open'[n + 1], Declared(open, n)),
         late' # "absent" <=> (Tracks(open'[n + 1]) \/ Declared(open, n))
  PROVE  ScopesRight'
<1>1. PICK p : p = open'
  OBVIOUS
<1>2. Len(open) \in Nat /\ \A i \in 1..n : i \in 1..Len(open)
  BY FrameFacts DEF DInv
<1>3. \A k \in 0..n : Declared(p, k) <=> Declared(open, k)
  BY <1>1 DEF Declared, Tracks, Alike
<1>4. Declared(p, n + 1) <=> (Tracks(p[n + 1]) \/ Declared(open, n))
  <2>1. \A i \in 1..n + 1 : i = n + 1 \/ i \in 1..n
    OBVIOUS
  <2>2. Declared(p, n + 1) <=> (Tracks(p[n + 1]) \/ Declared(p, n))
    BY <2>1 DEF Declared
  <2> QED
    BY <1>3, <2>2
<1>5. ASSUME NEW i \in 1..n + 1 PROVE EnteredRight(p, i)
  <2>1. CASE i = n + 1
    <3>1. SameScope(p[n + 1])
      BY <1>1
    <3>2. /\ n + 1 = 1 => n = 0
          /\ n + 1 > 1 => n > 0
          /\ n + 1 - 1 = n
      OBVIOUS
    <3>3. Declared(p, n + 1 - 1) <=> Declared(open, n)
      BY <1>3, <3>2
    <3> QED
      BY <1>1, <2>1, <3>1, <3>2, <3>3 DEF EnteredRight, EnteredIn
  <2>2. CASE i \in 1..n
    <3>1. EnteredRight(open, i) /\ Alike(p[i], open[i])
      BY <1>1, <1>2, <2>2 DEF DInv, ScopesRight
    <3>2. i - 1 \in 0..n
      BY <2>2
    <3>3. Declared(p, i - 1) <=> Declared(open, i - 1)
      BY <1>3, <3>2
    <3> QED
      BY <3>1, <3>3 DEF EnteredRight, EnteredIn, Tracks, SameScope, Alike
  <2> QED
    BY <2>1, <2>2
<1>6. late' # "absent" <=> Declared(p, n + 1)
  BY <1>1, <1>4
<1> QED
  BY <1>1, <1>5, <1>6 DEF ScopesRight, EnteredRight, EnteredIn, Tracks, SameScope, Declared

\* The frames are the same as far as scopes go.
LEMMA AlikeScope ==
  ASSUME DInv, hasOut' = hasOut, Len(open') = Len(open),
         \A i \in 1..Len(open) : Alike(open'[i], open[i]),
         late' # "absent" <=> late # "absent"
  PROVE  ScopesRight'
<1>1. PICK p, n : p = open' /\ n = Len(open)
  OBVIOUS
<1>2. n \in Nat
  BY <1>1, FrameFacts DEF DInv
<1>3. \A k \in 0..n : Declared(p, k) <=> Declared(open, k)
  BY <1>1 DEF Declared, Tracks, Alike
<1>4. ASSUME NEW i \in 1..n PROVE EnteredRight(p, i)
  <2>1. EnteredRight(open, i) /\ Alike(p[i], open[i])
    BY <1>1 DEF DInv, ScopesRight
  <2>2. i - 1 \in 0..n
    BY <1>2
  <2> QED
    BY <1>3, <2>1, <2>2 DEF EnteredRight, EnteredIn, Tracks, SameScope, Alike
<1>5. late' # "absent" <=> Declared(p, n)
  BY <1>1, <1>2, <1>3 DEF DInv, ScopesRight
<1> QED
  BY <1>1, <1>4, <1>5 DEF ScopesRight, EnteredRight, EnteredIn, Tracks, SameScope, Declared

\* What the scopes say of the innermost statement.
LEMMA TopScope ==
  ASSUME DInv, open # <<>>
  PROVE  /\ Len(open) \in 1..MaxDepth /\ Len(open) - 1 \in Nat
         /\ Len(open) - 1 <= Len(open) /\ Len(open) - 1 + 1 = Len(open)
         /\ Len(open) \in Nat /\ Top = open[Len(open)] /\ SameScope(Top)
         /\ Len(open) = 1 => /\ Top.before # "absent" <=> hasOut
                             /\ hasOut => Top.declares
         /\ Len(open) > 1 => EnteredIn(Top, Declared(open, Len(open) - 1))
         /\ late # "absent" <=>
              (Tracks(Top) \/ Declared(open, Len(open) - 1))
         /\ Top.before # "absent" => late # "absent"
         /\ PartEnd = "absent" <=> Top.before = "absent"
<1>1. PICK n : n = Len(open)
  OBVIOUS
<1>2. n \in 1..MaxDepth /\ Top = open[n] /\ n \in Nat
  BY <1>1, TopFacts, DepthAssumption DEF DInv
<1>3. EnteredRight(open, n) /\ (late # "absent" <=> Declared(open, n))
  BY <1>1, <1>2 DEF DInv, ScopesRight
<1>4. Declared(open, n) <=> (Tracks(open[n]) \/ Declared(open, n - 1))
  <2>1. \A i \in 1..n : i = n \/ i \in 1..n - 1
    BY <1>2
  <2>2. n \in 1..n /\ \A i \in 1..n - 1 : i \in 1..n
    BY <1>2
  <2> QED
    BY <2>1, <2>2 DEF Declared
<1>5. /\ n = 1 => /\ Top.before # "absent" <=> hasOut
                  /\ hasOut => Top.declares
      /\ n > 1 => EnteredIn(Top, Declared(open, n - 1))
      /\ SameScope(Top)
  BY <1>2, <1>3 DEF EnteredRight
<1>6. n = 1 \/ n > 1
  BY <1>2
<1>7. Top.before # "absent" => late # "absent"
  BY <1>2, <1>3, <1>4, <1>5, <1>6 DEF EnteredIn, Tracks
<1>8. PartEnd = "absent" <=> Top.before = "absent"
  BY <1>7 DEF PartEnd, Leave
<1> QED
  BY <1>1, <1>2, <1>3, <1>4, <1>5, <1>7, <1>8

\* An exception changes nothing of scopes.
LEMMA EscapeAlike ==
  ASSUME NEW q \in Seq(Frames), NEW ps \in SUBSET Paths
  PROVE  /\ Len(Escape(q, ps)) = Len(q)
         /\ \A i \in 1..Len(q) : Alike(Escape(q, ps)[i], q[i])
<1>1. ASSUME NEW i \in 1..Len(q) PROVE Alike(Escape(q, ps)[i], q[i])
  <2>1. q[i] \in Frames
    BY ElementOfSeq
  <2>2. PICK e \in {q[i].escaped,
                   q[i].escaped \cup LeaveScope(DeclaredFrom(q, i), ps)} :
          Escape(q, ps)[i] = [q[i] EXCEPT !.escaped = e]
    BY EscapeShape
  <2> QED
    BY <2>1, <2>2 DEF Alike, Frames
<1> QED
  BY <1>1, EscapeShape

\* A statement ends: x is tracked behind it if it was before it, or if the
\* statement leaks the x of its init.
LEMMA PopScope ==
  ASSUME DInv, hasOut' = hasOut, open # <<>>, Top.kind # "function",
         NEW r \in BOOLEAN, NEW l \in BOOLEAN, open' = Pop(open, r, l),
         late' = "absent" <=> Top.before = "absent",
         l <=> Top.kind = "for" /\ Top.declares /\ Top.before # "absent"
  PROVE  ScopesRight'
<1>1. PICK n : n = Len(open) - 1
  OBVIOUS
<1>2. /\ n \in 1..MaxDepth /\ n < Len(open) /\ Len(open') = n
      /\ open'[n] = [open[n] EXCEPT !.returns = @ \/ r, !.leaks = @ \/ l]
      /\ \A i \in 1..n - 1 : open'[i] = open[i]
  BY <1>1, PopShape DEF DInv
<1>3. /\ n \in Nat /\ n - 1 \in Nat /\ n - 1 + 1 = n /\ n > 0
      /\ \A i \in 1..n : i \in 1..Len(open)
      /\ n - 1 <= Len(open) /\ Len(open) > 1 /\ Len(open) \in Nat
  BY <1>1, <1>2, TopScope, DepthAssumption
<1>4. \A i \in 1..n : open[i] \in Frames
  BY <1>3, FrameFacts DEF DInv
<1>5. \A i \in 1..n - 1 : Alike(open'[i], open[i])
  BY <1>2 DEF Alike
<1>6. EnteredRight(open, n)
  BY <1>3 DEF DInv, ScopesRight
<1>7. Declared(open, n) <=> (Tracks(open[n]) \/ Declared(open, n - 1))
  <2>1. \A i \in 1..n : i = n \/ i \in 1..n - 1
    BY <1>3
  <2>2. n \in 1..n /\ \A i \in 1..n - 1 : i \in 1..n
    BY <1>3
  <2> QED
    BY <2>1, <2>2 DEF Declared
<1>8. EnteredIn(Top, Declared(open, n))
  BY <1>1, <1>3, TopScope
<1>9. PICK m, f, g : m = n - 1 /\ f = open[n] /\ g = open'[n]
  OBVIOUS
<1>10. /\ SameScope(f)
       /\ m = 0 => (f.before # "absent" <=> hasOut) /\ (hasOut => f.declares)
       /\ m > 0 => EnteredIn(f, Declared(open, m))
  BY <1>3, <1>6, <1>9 DEF EnteredRight
<1>11. m \in Nat /\ m + 1 = n /\ m <= Len(open)
  BY <1>3, <1>9
<1>12. /\ g.kind = f.kind /\ g.before = f.before /\ g.first = f.first
       /\ g.merged = f.merged /\ g.declares = f.declares
       /\ g.leaks <=> f.leaks \/ l
  BY <1>2, <1>3, <1>4, <1>9 DEF Frames
<1>13. l => ~Declared(open, n)
  BY <1>8 DEF EnteredIn, Tracks
<1>14. Top.before # "absent" <=> (Declared(open, n) \/ l)
  BY <1>8 DEF EnteredIn
<1>15. late' # "absent" <=> (Tracks(g) \/ Declared(open, m))
  <2>1. Tracks(g) <=> (Tracks(f) \/ l)
    BY <1>12 DEF Tracks
  <2>2. Declared(open, n) <=> (Tracks(f) \/ Declared(open, m))
    BY <1>7, <1>9
  <2>3. late' # "absent" <=> (Declared(open, n) \/ l)
    BY <1>14
  <2> QED
    BY <2>1, <2>2, <2>3
<1>16. m > 0 => EnteredIn(g, Declared(open, m))
  BY <1>7, <1>9, <1>10, <1>12, <1>13 DEF EnteredIn, Tracks
<1>17. /\ SameScope(g)
       /\ m = 0 => (g.before # "absent" <=> hasOut) /\ (hasOut => g.declares)
  BY <1>10, <1>12 DEF SameScope
<1>18. \A i \in 1..m : Alike(open'[i], open[i])
  BY <1>3, <1>5, <1>9
<1>19. Len(open') = m + 1 /\ open'[m + 1] = g
  BY <1>2, <1>9, <1>11
<1> QED
  BY <1>11, <1>15, <1>16, <1>17, <1>18, <1>19, LastScope

\* The innermost frame is replaced by another part or another state of it.
LEMMA ReplaceScope ==
  ASSUME DInv, hasOut' = hasOut, open # <<>>, NEW f \in Frames,
         open' = [open EXCEPT ![Len(open)] = f],
         f.before = Top.before, SameScope(f),
         Len(open) = 1 => (hasOut => f.declares),
         Len(open) > 1 => EnteredIn(f, Declared(open, Len(open) - 1)),
         late' # "absent" <=>
           (Tracks(f) \/ Declared(open, Len(open) - 1))
  PROVE  ScopesRight'
<1>1. PICK m : m = Len(open) - 1
  OBVIOUS
<1>2. /\ m \in Nat /\ m + 1 = Len(open) /\ m <= Len(open) /\ Len(open) \in Nat
      /\ m = 0 <=> Len(open) = 1
      /\ m > 0 <=> Len(open) > 1
  BY <1>1, TopScope
<1>3. /\ Len(open') = m + 1 /\ open'[m + 1] = f
      /\ \A i \in 1..m : open'[i] = open[i]
  BY <1>1, <1>2, ReplaceShape DEF DInv
<1>4. /\ m = 0 => (f.before # "absent" <=> hasOut) /\ (hasOut => f.declares)
      /\ m > 0 => EnteredIn(f, Declared(open, m))
      /\ late' # "absent" <=> (Tracks(f) \/ Declared(open, m))
  BY <1>1, <1>2, TopScope
<1>5. \A i \in 1..m : Alike(open'[i], open[i])
  BY <1>3 DEF Alike
<1> QED
  BY <1>2, <1>3, <1>4, <1>5, LastScope

\* A statement inside the innermost one begins.
LEMMA PushScope ==
  ASSUME DInv, hasOut' = hasOut, open # <<>>, NEW f \in Frames,
         open' = Append(open, f), SameScope(f),
         EnteredIn(f, late # "absent"),
         late' # "absent" <=> (Tracks(f) \/ late # "absent")
  PROVE  ScopesRight'
<1>1. PICK n : n = Len(open)
  OBVIOUS
<1>2. /\ n \in Nat /\ n > 0 /\ n <= Len(open)
      /\ Len(open') = n + 1 /\ open'[n + 1] = f
      /\ \A i \in 1..n : open'[i] = open[i]
  <2>1. open \in Seq(Frames)
    BY FrameFacts DEF DInv
  <2>2. n \in Nat /\ n > 0 /\ n <= Len(open)
    BY <1>1, TopScope
  <2> QED
    BY <1>1, <2>1, <2>2, AppendProperties
<1>3. late # "absent" <=> Declared(open, n)
  BY <1>1 DEF DInv, ScopesRight
<1>4. \A i \in 1..n : Alike(open'[i], open[i])
  BY <1>2 DEF Alike
<1>5. EnteredIn(f, Declared(open, n))
  BY <1>3 DEF EnteredIn
<1> QED
  BY <1>2, <1>3, <1>4, <1>5, LastScope

LEMMA ScopeSimple ==
  ASSUME DInv, Simple
  PROVE  ScopesRight'
<1>1. /\ hasOut' = hasOut /\ open # <<>> /\ TypeOK
      /\ paths \in SUBSET Paths /\ open \in Seq(Frames)
  BY DEF Simple, DeclareLate, Assign, Read, HandOver, FillByMethod, Return,
         Throw, Program, Writing, DInv, TypeOK
<1>2. CASE DeclareLate
  <2> DEFINE f == [Top EXCEPT !.declares = TRUE]
  <2>1. /\ f \in Frames /\ f.before = Top.before /\ f.declares = TRUE
        /\ f.first = Top.first /\ f.merged = Top.merged
        /\ f.kind = Top.kind
    BY <1>1, TopFacts DEF Frames
  <2>2. open' = [open EXCEPT ![Len(open)] = f] /\ late' # "absent"
        /\ late = "absent"
    BY <1>2 DEF DeclareLate, Top
  <2> HIDE DEF f
  <2>3. /\ SameScope(f) /\ f.before = "absent"
        /\ ~Declared(open, Len(open) - 1)
    BY <1>1, <2>1, <2>2, TopScope DEF SameScope
  <2>4. /\ Len(open) > 1 => EnteredIn(f, Declared(open, Len(open) - 1))
        /\ Tracks(f)
    BY <2>1, <2>3 DEF EnteredIn, Tracks
  <2> QED
    BY <1>1, <2>1, <2>2, <2>3, <2>4, ReplaceScope
<1>3. CASE Assign \/ Throw \/ FillByMethod
  <2>1. /\ open' = Escape(open, paths)
        /\ late' # "absent" <=> late # "absent"
    BY <1>3 DEF Assign, Throw, FillByMethod
  <2> QED
    BY <1>1, <2>1, EscapeAlike, AlikeScope
<1>4. CASE Read \/ HandOver
  <2>1. open' = open /\ late' = late
    BY <1>4 DEF Read, HandOver
  <2> QED
    BY <1>1, <2>1, AlikeScope DEF Alike
<1>5. CASE Return
  <2> DEFINE f == [Top EXCEPT !.returns = TRUE]
  <2>1. /\ f \in Frames /\ f.before = Top.before /\ f.declares = Top.declares
        /\ f.first = Top.first /\ f.merged = Top.merged
        /\ f.kind = Top.kind /\ f.leaks = Top.leaks
    BY <1>1, TopFacts DEF Frames
  <2>2. open' = [open EXCEPT ![Len(open)] = f] /\ late' = late
    BY <1>5 DEF Return, Top
  <2> HIDE DEF f
  <2>3. /\ SameScope(f) /\ (Tracks(f) <=> Tracks(Top))
        /\ Len(open) > 1 => EnteredIn(f, Declared(open, Len(open) - 1))
    BY <1>1, <2>1, TopScope DEF SameScope, EnteredIn, Tracks
  <2> QED
    BY <1>1, <2>1, <2>2, <2>3, TopScope, ReplaceScope
<1> QED
  BY <1>2, <1>3, <1>4, <1>5 DEF Simple

LEMMA ScopeFunction ==
  ASSUME DInv, BeginFunction \/ EndFunction
  PROVE  ScopesRight'
<1>1. CASE BeginFunction
  <2> DEFINE f == [FrameFor("function") EXCEPT !.before = late',
                                               !.first = late',
                                               !.entry = paths',
                                               !.declares = hasOut']
  <2>1. /\ open' = <<f>> /\ f.before = late' /\ f.first = late'
        /\ f.merged = "none" /\ f.declares = hasOut' /\ f.leaks = FALSE
        /\ late' # "absent" <=> hasOut'
    BY <1>1 DEF BeginFunction, FrameFor
  <2> HIDE DEF f
  <2>2. Len(open') = 1 /\ open'[1] = f
    BY <2>1
  <2>3. SameScope(f)
    BY <2>1 DEF SameScope
  <2> QED
    BY <2>1, <2>2, <2>3 DEF ScopesRight, EnteredRight, EnteredIn, Tracks, SameScope, Declared
<1>2. CASE EndFunction
  <2>1. /\ open # <<>> /\ Top.kind = "function" /\ TypeOK
        /\ open' = <<>> /\ late' = IF outNames THEN "absent" ELSE PartEnd
    BY <1>2 DEF EndFunction, Inside, DInv
  <2>2. Len(open) = 1
    BY <2>1, TopFacts
  <2>3. ~outNames => PartEnd = "absent"
    BY <2>1, <2>2, TopScope DEF DInv
  <2>4. Len(open') = 0
    BY <2>1
  <2> QED
    BY <2>1, <2>3, <2>4 DEF ScopesRight, Declared
<1> QED
  BY <1>1, <1>2

LEMMA ScopeBegin ==
  ASSUME DInv, Beginning \/ BeginFor
  PROVE  ScopesRight'
<1>1. TypeOK /\ late \in Flags
  BY DEF DInv, TypeOK
<1>2. CASE Beginning
  <2>1. PICK k \in Kinds \ {"function", "else", "catch", "for"} :
          /\ open' = Append(open, FrameFor(k)) /\ late' = late
          /\ hasOut' = hasOut /\ open # <<>>
    BY <1>1, <1>2, BeginningStep
  <2>2. PICK f : f = FrameFor(k)
    OBVIOUS
  <2>3. /\ f \in Frames /\ f.before = late /\ f.first = late
        /\ f.merged = "none" /\ f.declares = FALSE /\ f.leaks = FALSE
    BY <1>1, <2>2, FrameForType DEF FrameFor
  <2>4. SameScope(f) /\ EnteredIn(f, late # "absent") /\ ~Tracks(f)
    BY <2>3 DEF SameScope, EnteredIn, Tracks
  <2> QED
    BY <2>1, <2>2, <2>3, <2>4, PushScope
<1>3. CASE BeginFor
  <2>1. PICK d \in BOOLEAN, u \in Updates, flag \in Flags,
             ps \in SUBSET Paths, f \in Frames : ForStep(d, u, flag, ps, f)
    BY <1>1, <1>3, BeginForStep
  <2>2. SameScope(f) /\ EnteredIn(f, late # "absent")
    BY <2>1 DEF ForStep, SameScope, EnteredIn, Tracks
  <2>3. /\ late' # "absent" <=> (Tracks(f) \/ late # "absent")
        /\ hasOut' = hasOut /\ open # <<>> /\ open' = Append(open, f)
    BY <2>1 DEF ForStep, Tracks
  <2> QED
    BY <2>2, <2>3, PushScope
<1> QED
  BY <1>2, <1>3

\* The next part of a statement begins where x is as it was before it.
LEMMA ScopeNextPart ==
  ASSUME DInv, BeginElse \/ BeginArm \/ NextCatch
  PROVE  ScopesRight'
<1>1. /\ TypeOK /\ open # <<>> /\ Top.kind # "function" /\ hasOut' = hasOut
  BY DEF DInv, BeginElse, BeginArm, NextCatch, Inside, Program
<1>2. /\ Top \in Frames /\ PartEnd \in Flags /\ PathsAtEnd \in SUBSET Paths
      /\ Len(open) # 1
  BY <1>1, TopFacts, PartEndTypes
<1>3. /\ SameScope(Top) /\ Top.before \in Flags
      /\ Top.merged \in Flags \cup {"none"} /\ Top.first \in Flags
      /\ Top.returns \in BOOLEAN /\ Top.kind # "for"
      /\ PartEnd = "absent" <=> Top.before = "absent"
  BY <1>1, TopScope, TopFacts DEF BeginElse, BeginArm, NextCatch, Inside
<1>4. ASSUME NEW f \in Frames, open' = [open EXCEPT ![Len(open)] = f],
             f.before = Top.before, SameScope(f), f.declares = FALSE,
             f.leaks = FALSE, late' = "absent" <=> Top.before = "absent"
      PROVE  ScopesRight'
  <2>1. Len(open) > 1
    <3>1. PICK n : n = Len(open)
      OBVIOUS
    <3>2. n \in 1..MaxDepth /\ n # 1
      BY <1>1, <1>2, <3>1, TopScope
    <3> QED
      BY <3>1, <3>2, DepthAssumption
  <2>2. late' # "absent" <=> Declared(open, Len(open) - 1)
    BY <1>1, <1>4, <1>3, <2>1, TopScope DEF EnteredIn
  <2>3. /\ EnteredIn(f, Declared(open, Len(open) - 1)) /\ ~Tracks(f)
    BY <1>4, <2>2 DEF EnteredIn, Tracks
  <2> QED
    BY <1>1, <1>2, <1>4, <2>2, <2>3, ReplaceScope
<1>5. CASE BeginElse
  <2> DEFINE f == [[Top EXCEPT !.first = PartEnd, !.firstReturns = Top.returns,
                               !.ended = PathsAtEnd]
                     EXCEPT !.kind = "else", !.returns = FALSE,
                            !.declares = FALSE, !.leaks = FALSE]
  <2>1. /\ f \in Frames /\ f.before = Top.before /\ f.first = PartEnd
        /\ f.merged = Top.merged /\ f.declares = FALSE /\ f.leaks = FALSE
    BY <1>2, <1>3 DEF Frames, Kinds
  <2>2. open' = [open EXCEPT ![Len(open)] = f] /\ late' = Top.before
    BY <1>5 DEF BeginElse, NextPart
  <2>3. SameScope(f)
    BY <1>3, <2>1 DEF SameScope
  <2> HIDE DEF f
  <2> QED
    BY <1>4, <2>1, <2>2, <2>3
<1>6. CASE BeginArm
  <2> DEFINE f == [[Top EXCEPT !.ended = @ \cup PathsAtEnd]
                     EXCEPT !.kind = "arm", !.returns = FALSE,
                            !.declares = FALSE, !.leaks = FALSE]
  <2>1. /\ f \in Frames /\ f.before = Top.before /\ f.first = Top.first
        /\ f.merged = Top.merged /\ f.declares = FALSE /\ f.leaks = FALSE
    BY <1>2 DEF Frames, Kinds
  <2>2. open' = [open EXCEPT ![Len(open)] = f] /\ late' = PartEnd
    BY <1>6 DEF BeginArm, NextPart
  <2>3. SameScope(f)
    BY <1>3, <2>1 DEF SameScope
  <2> HIDE DEF f
  <2> QED
    BY <1>4, <1>3, <2>1, <2>2, <2>3
<1>7. CASE NextCatch
  <2> DEFINE m == MergeCatch(Top.merged, Top.returns, PartEnd)
             f == [[Top EXCEPT !.merged = MergeCatch(@, Top.returns, PartEnd),
                               !.ended = @ \cup PathsAtEnd]
                     EXCEPT !.kind = "catch", !.returns = FALSE,
                            !.declares = FALSE, !.leaks = FALSE]
  <2>0. /\ m \in Flags \cup {"none"}
        /\ m = "none" \/ (m = "absent" <=> Top.before = "absent")
    BY <1>2, <1>3 DEF SameScope, MergeCatch, Both, Flags
  <2>1. /\ f \in Frames /\ f.before = Top.before /\ f.first = Top.first
        /\ f.merged = m /\ f.declares = FALSE /\ f.leaks = FALSE
    <3> HIDE DEF m
    <3>1. f = [[Top EXCEPT !.merged = m, !.ended = @ \cup PathsAtEnd]
                 EXCEPT !.kind = "catch", !.returns = FALSE,
                        !.declares = FALSE, !.leaks = FALSE]
      BY DEF m
    <3> HIDE DEF f
    <3> QED
      BY <1>2, <2>0, <3>1 DEF Frames, Kinds
  <2>2. open' = [open EXCEPT ![Len(open)] = f] /\ late' = Top.before
    BY <1>7 DEF NextCatch, NextPart
  <2> HIDE DEF m, f
  <2>3. SameScope(f)
    BY <1>3, <2>0, <2>1 DEF SameScope
  <2> QED
    BY <1>4, <2>1, <2>2, <2>3
<1> QED
  BY <1>5, <1>6, <1>7

\* The statements around the innermost one, as an exception leaves them.
LEMMA FrontShape ==
  ASSUME TypeOK, open # <<>>, Top.kind # "function"
  PROVE  LET n == Len(open) - 1
             front == SubSeq(open, 1, n)
         IN  /\ n \in Nat /\ n > 0 /\ n + 1 = Len(open) /\ n <= Len(open)
             /\ front \in Seq(Frames) /\ Len(front) = n
             /\ \A i \in 1..n : front[i] = open[i] /\ i \in 1..Len(open)
<1>1. PICK n, front : n = Len(open) - 1 /\ front = SubSeq(open, 1, n)
  OBVIOUS
<1>2. n \in 1..MaxDepth /\ n \in 1..Len(open) /\ n \in Nat \ {0}
      /\ n + 1 = Len(open) /\ Len(open) \in Nat
  <2>1. Len(open) \in 1..MaxDepth /\ Len(open) # 1
    BY TopFacts
  <2> QED
    BY <1>1, <2>1, OneLess, DepthAssumption
<1>3. \A i \in 1..n : open[i] \in Frames /\ i \in 1..Len(open)
  BY <1>2, FrameFacts
<1>4. /\ front \in Seq(Frames) /\ Len(front) = n
      /\ \A i \in 1..n : front[i] = open[i]
  BY <1>1, <1>2, <1>3, SubSeqProperties, FrameFacts
<1> QED
  BY <1>1, <1>2, <1>3, <1>4

LEMMA ScopeBeginCatch ==
  ASSUME DInv, BeginCatch
  PROVE  ScopesRight'
<1>1. /\ TypeOK /\ open # <<>> /\ Top.kind # "function" /\ hasOut' = hasOut
      /\ late' = Top.before
  BY DEF DInv, BeginCatch, Inside, Program
<1> DEFINE f == [Top EXCEPT !.kind = "catch", !.returns = FALSE,
                            !.declares = FALSE, !.leaks = FALSE,
                            !.first = PartEnd,
                            !.firstReturns = Top.returns,
                            !.ended = PathsAtEnd]
<1>2. PICK n, front : n = Len(open) - 1 /\ front = SubSeq(open, 1, n)
  OBVIOUS
<1>3. PICK ps \in {{}, Top.escaped} : open' = Append(Escape(front, ps), f)
  BY <1>2 DEF BeginCatch
<1>4. /\ f \in Frames /\ f.before = Top.before /\ f.declares = FALSE
      /\ f.leaks = FALSE
      /\ f.first = PartEnd /\ f.merged = Top.merged
      /\ ps \in SUBSET Paths
  BY <1>1, <1>3, TopFacts, PartEndTypes DEF Frames, Kinds
<1> HIDE DEF f
<1>5. /\ n \in Nat /\ n > 0 /\ n <= Len(open) /\ Len(open) > 1
      /\ front \in Seq(Frames) /\ Len(front) = n
      /\ \A i \in 1..n : front[i] = open[i]
  BY <1>1, <1>2, FrontShape, TopScope
<1>6. PICK q : q = Escape(front, ps)
  OBVIOUS
<1>7. /\ q \in Seq(Frames) /\ Len(q) = n
      /\ \A i \in 1..n : Alike(q[i], front[i])
  BY <1>4, <1>5, <1>6, EscapeAlike, EscapeShape
<1>8. /\ Len(open') = n + 1 /\ open'[n + 1] = f
      /\ \A i \in 1..n : open'[i] = q[i]
  BY <1>3, <1>4, <1>6, <1>7, AppendProperties
<1>9. \A i \in 1..n : Alike(open'[i], open[i])
  BY <1>5, <1>7, <1>8
<1>10. /\ SameScope(f)
       /\ EnteredIn(f, Declared(open, n)) /\ ~Tracks(f)
       /\ late' # "absent" <=> Declared(open, n)
  <2>1. EnteredIn(Top, Declared(open, n)) /\ SameScope(Top)
        /\ Top.kind = "try"
    BY <1>1, <1>2, <1>5, TopScope DEF BeginCatch, Inside
  <2>2. PartEnd = "absent" <=> Top.before = "absent"
    BY <1>1, TopScope
  <2> QED
    BY <1>1, <1>4, <2>1, <2>2 DEF SameScope, EnteredIn, Tracks
<1> QED
  BY <1>1, <1>4, <1>5, <1>8, <1>9, <1>10, LastScope

LEMMA ScopeEnding ==
  ASSUME DInv, Ending
  PROVE  ScopesRight'
<1>1. /\ TypeOK /\ open # <<>> /\ Top.kind # "function" /\ hasOut' = hasOut
  BY DEF DInv, Ending, EndBlock, EndIfWithoutElse, EndIf, EndDo, EndWhile,
         EndFor, EndMatch, EndTry, Inside, Program
<1>2. /\ SameScope(Top) /\ Top.before \in Flags /\ Top.first \in Flags
      /\ Top.merged \in Flags \cup {"none"} /\ PartEnd \in Flags
      /\ Top.returns \in BOOLEAN /\ Top.firstReturns \in BOOLEAN
      /\ PartEnd = "absent" <=> Top.before = "absent"
      /\ Top.first = "absent" <=> Top.before = "absent"
  BY <1>1, TopScope, TopFacts, PartEndTypes DEF SameScope
<1>3. ASSUME NEW r \in BOOLEAN, open' = Pop(open, r, FALSE),
             late' = "absent" <=> Top.before = "absent",
             Top.kind # "for"
      PROVE  ScopesRight'
  BY <1>1, <1>3, PopScope
<1>4. CASE EndBlock \/ EndDo \/ EndWhile \/ EndMatch
  <2>1. late' = PartEnd /\ \E r \in BOOLEAN : open' = Pop(open, r, FALSE)
    BY <1>2, <1>4 DEF EndBlock, EndDo, EndWhile, EndMatch
  <2>2. Top.kind # "for"
    BY <1>4 DEF EndBlock, EndDo, EndWhile, EndMatch, Inside
  <2> QED
    BY <1>2, <1>3, <2>1, <2>2
<1>8. CASE EndFor
  <2>1. PICK l : l = (Top.declares /\ PartEnd # "absent")
    OBVIOUS
  <2>2. late' = PartEnd /\ open' = Pop(open, FALSE, l) /\ Top.kind = "for"
    BY <1>8, <2>1 DEF EndFor, Inside
  <2>3. l \in BOOLEAN
    BY <2>1
  <2>4. /\ late' = "absent" <=> Top.before = "absent"
        /\ l <=> Top.kind = "for" /\ Top.declares /\ Top.before # "absent"
    BY <1>2, <2>1, <2>2
  <2> QED
    BY <1>1, <2>2, <2>3, <2>4, PopScope
<1>5. CASE EndIfWithoutElse
  <2>1. /\ late' = JoinIf(PartEnd, Top.returns, Top.before, FALSE)
        /\ open' = Pop(open, FALSE, FALSE) /\ Top.kind # "for"
    BY <1>5 DEF EndIfWithoutElse, Inside
  <2>3. late' = "absent" <=> Top.before = "absent"
    BY <1>2, <2>1 DEF JoinIf, Both
  <2> QED
    BY <1>3, <2>1, <2>3
<1>6. CASE EndIf
  <2>1. /\ late' = JoinIf(Top.first, Top.firstReturns, PartEnd, Top.returns)
        /\ \E r \in BOOLEAN : open' = Pop(open, r, FALSE)
        /\ Top.kind # "for"
    BY <1>2, <1>6 DEF EndIf, Inside
  <2>3. late' = "absent" <=> Top.before = "absent"
    BY <1>2, <2>1 DEF JoinIf, Both
  <2> QED
    BY <1>3, <2>1, <2>3
<1>7. CASE EndTry
  <2>1. PICK m : m = MergeCatch(Top.merged, Top.returns, PartEnd)
    OBVIOUS
  <2>2. /\ late' = JoinTry(Top.before, Top.first, Top.firstReturns, m)
        /\ \E r \in BOOLEAN : open' = Pop(open, r, FALSE)
        /\ Top.kind # "for"
    BY <1>2, <1>7, <2>1 DEF EndTry, Inside
  <2>3. /\ m \in Flags \cup {"none"}
        /\ m = "none" \/ (m = "absent" <=> Top.before = "absent")
    BY <1>2, <2>1 DEF SameScope, MergeCatch, Both, Flags
  <2>4. late' = "absent" <=> Top.before = "absent"
    BY <1>2, <2>2, <2>3 DEF JoinTry, Either
  <2> QED
    BY <1>3, <2>2, <2>4
<1> QED
  BY <1>4, <1>5, <1>6, <1>7, <1>8 DEF Ending

LEMMA OutNamesKept ==
  ASSUME hasOut => outNames, [Next]_vars
  PROVE  hasOut' => outNames'
<1>1. CASE BeginFunction
  BY <1>1 DEF BeginFunction
<1>2. CASE hasOut' = hasOut /\ outNames' = outNames
  BY <1>2
<1> QED
  BY <1>1, <1>2
  DEF Next, vars, Program, EndFunction, DeclareLate, Assign, Read, HandOver,
      FillByMethod, Return, Throw, BeginBlock, BeginIf, BeginDo, BeginWhile, BeginTry,
      BeginMatch, Begin, BeginFor, BeginElse, BeginArm, NextCatch,
      BeginCatch, EndBlock, EndIfWithoutElse, EndIf, EndDo, EndWhile,
      EndFor, EndMatch, EndTry

LEMMA DInvInit == Init => DInv
<1> SUFFICES ASSUME Init PROVE DInv
  OBVIOUS
<1>1. TypeOK /\ Len(open) = 0
  BY TypeInit DEF Init
<1> QED
  BY <1>1 DEF Init, DInv, ScopesRight, Declared

LEMMA DInvNext == DInv /\ [Next]_vars => DInv'
<1> SUFFICES ASSUME DInv, [Next]_vars PROVE DInv'
  OBVIOUS
<1>1. TypeOK' /\ (hasOut' => outNames')
  BY TypeStep, OutNamesKept DEF DInv
<1>2. CASE UNCHANGED vars
  <2>1. hasOut' = hasOut /\ open' = open /\ late' = late
    BY <1>2 DEF vars
  <2> QED
    BY <1>1, <2>1, AlikeScope DEF Alike, DInv
<1>3. CASE Next
  BY <1>1, <1>3, ScopeSimple, ScopeFunction, ScopeBegin, ScopeNextPart,
     ScopeBeginCatch, ScopeEnding DEF Next, Simple, Beginning, Ending, DInv
<1> QED
  BY <1>2, <1>3

\* The analyzer tracks x in its scope, and behind a for whose init declared it
\* until the statement around it ends: restoring snapshots neither loses an
\* outer x nor keeps any other inner one, for any nesting of blocks, branches,
\* loops, arms and catches.
THEOREM ScopesTracked == Spec => []TrackedInScope
<1>1. DInv => TrackedInScope
  <2> SUFFICES ASSUME DInv PROVE TrackedInScope
    OBVIOUS
  <2>1. DOMAIN open = 1..Len(open)
    BY FrameFacts DEF DInv
  <2> QED
    BY <2>1 DEF DInv, ScopesRight, Declared, Tracks, TrackedInScope
<1> QED
  BY <1>1, DInvInit, DInvNext, PTL DEF Spec

----------------------------------------------------------------------------
(* What the steps do to the open statements                                *)

\* Frames that are the same but for scopes and escaped paths.
Resembles(f, g) ==
  /\ f.kind = g.kind /\ f.before = g.before /\ f.returns = g.returns
  /\ f.first = g.first /\ f.firstReturns = g.firstReturns
  /\ f.merged = g.merged /\ f.entry = g.entry /\ f.ended = g.ended

\* What holds of a frame holds of one that resembles it.
LEMMA ResemblingFrames ==
  ASSUME NEW f, NEW g, Resembles(f, g)
  PROVE  /\ PartsSpeak(g) => PartsSpeak(f)
         /\ \A l, ps : Around(g, l, ps) => Around(f, l, ps)
         /\ \A ps : AroundAlive(g, ps) => AroundAlive(f, ps)
BY DEF Resembles, PartsSpeak, Around, AroundAlive

\* Only the last frame is new, and the place in it.
LEMMA LastFrame ==
  ASSUME AInv, unseen => unseen', NEW n \in Nat, n <= Len(open),
         Len(open') = n + 1, NEW f, f = open'[n + 1],
         \A i \in 1..n : /\ Resembles(open'[i], open[i])
                         /\ PartsRight(open'[i]),
         PartsRight(f), ~unseen' => PartsSpeak(f),
         n > 0 => /\ Around(open[n], f.before, f.entry)
                  /\ ~unseen' => AroundAlive(open[n], f.entry),
         \A i \in 1..n : open[i].entry = {} => f.entry = {},
         Around(f, late', paths'), ~unseen' => AroundAlive(f, paths'),
         ~unseen' => Speaks(late', paths')
  PROVE  StackRight(open', late', paths', unseen')
<1>0. PICK q, p, m, es, v : /\ q = open /\ p = open' /\ m = late'
                            /\ es = paths' /\ v = unseen'
  OBVIOUS
<1>1. /\ Len(q) \in Nat /\ n <= Len(q) /\ StackRight(q, late, paths, unseen)
      /\ Len(p) = n + 1 /\ f = p[n + 1] /\ (~v => ~unseen)
      /\ \A i \in 1..n : Resembles(p[i], q[i]) /\ PartsRight(p[i])
      /\ ~v => PartsSpeak(f)
      /\ n > 0 => /\ Around(q[n], f.before, f.entry)
                  /\ ~v => AroundAlive(q[n], f.entry)
      /\ \A i \in 1..n : q[i].entry = {} => f.entry = {}
      /\ Around(f, m, es) /\ (~v => AroundAlive(f, es))
      /\ ~v => Speaks(m, es)
  BY <1>0, FrameFacts DEF AInv, DInv
<1>2. \A i \in 1..n : i \in 1..Len(q) /\ \A j \in i..n : j \in i..Len(q)
  BY <1>1
<1>3. \A i \in 1..n + 1 : i = n + 1 \/ i \in 1..n
  BY <1>1
<1>4. \A i \in 1..n + 1 : PartsRight(p[i]) /\ (~v => PartsSpeak(p[i]))
  <2> SUFFICES ASSUME NEW i \in 1..n
               PROVE  PartsRight(p[i]) /\ (~v => PartsSpeak(p[i]))
    BY <1>1, <1>3
  <2>1. ~v => PartsSpeak(q[i])
    BY <1>1, <1>2 DEF StackRight
  <2> QED
    BY <1>1, <2>1, ResemblingFrames
<1>5. ASSUME NEW i \in 1..n
      PROVE  /\ Around(p[i], p[i + 1].before, p[i + 1].entry)
             /\ ~v => AroundAlive(p[i], p[i + 1].entry)
  <2>1. CASE i = n
    <3>1. /\ Around(q[n], f.before, f.entry)
          /\ ~v => AroundAlive(q[n], f.entry)
      BY <1>1, <2>1
    <3> QED
      BY <1>1, <2>1, <3>1, ResemblingFrames
  <2>2. CASE i # n
    <3>1. i + 1 \in 1..n /\ i \in 1..Len(q) - 1
      BY <1>1, <2>2
    <3>2. /\ Around(q[i], q[i + 1].before, q[i + 1].entry)
          /\ ~v => AroundAlive(q[i], q[i + 1].entry)
      BY <1>1, <3>1 DEF StackRight
    <3>3. p[i + 1].before = q[i + 1].before /\ p[i + 1].entry = q[i + 1].entry
      BY <1>1, <3>1 DEF Resembles
    <3> QED
      BY <1>1, <3>2, <3>3, ResemblingFrames
  <2> QED
    BY <1>1, <2>1, <2>2
<1>6. ASSUME NEW i \in 1..n + 1, NEW j \in i..n + 1, p[i].entry = {}
      PROVE  p[j].entry = {}
  <2>1. CASE i = n + 1
    <3>1. j = n + 1
      BY <1>1, <2>1
    <3> QED
      BY <1>1, <1>6, <2>1, <3>1
  <2>2. CASE i \in 1..n
    <3>1. q[i].entry = {}
      BY <1>1, <1>6, <2>2 DEF Resembles
    <3>2. CASE j = n + 1
      BY <1>1, <2>2, <3>1, <3>2
    <3>3. CASE j \in i..n
      <4>1. j \in 1..n /\ i \in 1..Len(q) /\ j \in i..Len(q)
        BY <1>1, <2>2, <3>3
      <4>2. q[j].entry = {}
        BY <1>1, <3>1, <4>1 DEF StackRight
      <4> QED
        BY <1>1, <4>1, <4>2 DEF Resembles
    <3>4. j = n + 1 \/ j \in i..n
      BY <1>1, <2>2
    <3> QED
      BY <1>1, <3>2, <3>3, <3>4
  <2> QED
    BY <1>1, <1>3, <2>1, <2>2
<1>7. Len(p) > 0 /\ Len(p) # 0 /\ Len(p) - 1 = n /\ p[Len(p)] = f
  BY <1>1
<1>8. \A i \in 1..Len(p) : PartsRight(p[i]) /\ (~v => PartsSpeak(p[i]))
  BY <1>1, <1>4
<1>9. \A i \in 1..Len(p) - 1 :
        /\ Around(p[i], p[i + 1].before, p[i + 1].entry)
        /\ ~v => AroundAlive(p[i], p[i + 1].entry)
  BY <1>1, <1>5, <1>7
<1>10. \A i \in 1..Len(p) : \A j \in i..Len(p) :
        p[i].entry = {} => p[j].entry = {}
  BY <1>1, <1>6
<1> QED
  BY <1>0, <1>1, <1>7, <1>8, <1>9, <1>10 DEF StackRight

\* What the invariant says of the innermost statement.
LEMMA TopFrame ==
  ASSUME AInv, open # <<>>
  PROVE  /\ TypeOK /\ PartsRight(Top) /\ Around(Top, late, paths)
         /\ \A i \in 1..Len(open) - 1 : open[i].entry = {} => Top.entry = {}
         /\ \A i \in 1..Len(open) : open[i].entry = {} => paths = {}
         /\ Len(open) > 1 => Around(open[Len(open) - 1], Top.before, Top.entry)
         /\ ~unseen => /\ PartsSpeak(Top) /\ AroundAlive(Top, paths)
                       /\ Speaks(late, paths)
                       /\ Len(open) > 1 =>
                            AroundAlive(open[Len(open) - 1], Top.entry)
<1>1. PICK n : n = Len(open)
  OBVIOUS
<1>2. TypeOK /\ n \in Nat /\ n > 0 /\ n \in 1..n /\ Top = open[n]
  BY <1>1, TopScope DEF AInv, DInv
<1>3. /\ PartsRight(Top) /\ Around(Top, late, paths)
      /\ ~unseen => /\ PartsSpeak(Top) /\ AroundAlive(Top, paths)
                    /\ Speaks(late, paths)
  BY <1>1, <1>2 DEF AInv, StackRight
<1>4. \A i \in 1..n : open[i].entry = {} => Top.entry = {}
  <2>1. \A i \in 1..n : n \in i..n
    BY <1>2
  <2> QED
    BY <1>1, <1>2, <2>1 DEF AInv, StackRight
<1>5. Top.entry = {} => paths = {}
  BY <1>3 DEF Around
<1>6. n > 1 => /\ Around(open[n - 1], Top.before, Top.entry)
               /\ ~unseen => AroundAlive(open[n - 1], Top.entry)
  <2>1. n > 1 => n - 1 \in 1..n - 1 /\ n - 1 + 1 = n
    BY <1>2
  <2> QED
    BY <1>1, <1>2, <2>1 DEF AInv, StackRight
<1>7. \A i \in 1..n - 1 : i \in 1..n
  BY <1>2
<1> QED
  BY <1>1, <1>2, <1>3, <1>4, <1>5, <1>6, <1>7

\* The flag and the paths at the end of a part.
LEMMA PartEndFrame ==
  ASSUME AInv, open # <<>>
  PROVE  /\ Top.before = "set" => PartEnd = "set"
         /\ Top.returns => PathsAtEnd = {}
         /\ Top.entry = {} => PathsAtEnd = {}
         /\ ~unseen => (~Top.returns /\ PathsAtEnd = {} => Top.entry = {})
         /\ ~unseen /\ Top.kind \notin {"for", "function"} =>
              Speaks(PartEnd, PathsAtEnd)
<1>1. PathsAtEnd = {} <=> paths = {}
  BY DEF PathsAtEnd, LeaveScope, Initialised
<1>2. Around(Top, late, paths)
  BY TopFrame
<1>3. ASSUME ~unseen PROVE AroundAlive(Top, paths) /\ Speaks(late, paths)
  BY <1>3, TopFrame
<1>4. Top.kind \notin {"for", "function"} /\ Top.before # "absent" =>
        ~Top.declares
  <2>1. /\ Len(open) \in 1..MaxDepth
        /\ Top.kind # "function" => Len(open) # 1
    BY TopFacts DEF AInv, DInv
  <2>2. PICK n : n = Len(open)
    OBVIOUS
  <2>3. n \in 1..MaxDepth /\ n # 1 => n > 1
    BY DepthAssumption
  <2>4. Len(open) > 1 => EnteredIn(Top, Declared(open, Len(open) - 1))
    BY TopScope DEF AInv
  <2>5. Top.kind # "function" =>
          EnteredIn(Top, Declared(open, Len(open) - 1))
    BY <2>1, <2>2, <2>3, <2>4
  <2> QED
    BY <2>5 DEF EnteredIn, Tracks
<1>5. PartEnd = "unset" => late = "unset" /\ Top.before # "absent"
  BY DEF PartEnd, Leave
<1>6. ~Top.declares => PathsAtEnd = paths
  BY DEF PathsAtEnd, LeaveScope
<1>7. /\ Top.before = "set" => PartEnd = "set"
      /\ Top.returns => PathsAtEnd = {}
      /\ Top.entry = {} => PathsAtEnd = {}
  BY <1>1, <1>2 DEF Around, PartEnd, Leave
<1>8. ~unseen => (~Top.returns /\ PathsAtEnd = {} => Top.entry = {})
  BY <1>1, <1>3 DEF AroundAlive
<1>9. ~unseen /\ Top.kind \notin {"for", "function"} =>
        Speaks(PartEnd, PathsAtEnd)
  BY <1>3, <1>4, <1>5, <1>6 DEF Speaks
<1> QED
  BY <1>7, <1>8, <1>9

\* An exception whose paths exist leaves frames right.
LEMMA EscapeFrames ==
  ASSUME NEW q \in Seq(Frames), NEW ps \in SUBSET Paths,
         \A i \in 1..Len(q) : PartsRight(q[i]) /\ (q[i].entry = {} => ps = {})
  PROVE  \A i \in 1..Len(q) : /\ PartsRight(Escape(q, ps)[i])
                              /\ Resembles(Escape(q, ps)[i], q[i])
<1> SUFFICES ASSUME NEW i \in 1..Len(q)
             PROVE  /\ PartsRight(Escape(q, ps)[i])
                    /\ Resembles(Escape(q, ps)[i], q[i])
  OBVIOUS
<1>1. PICK e \in {q[i].escaped,
                 q[i].escaped \cup LeaveScope(DeclaredFrom(q, i), ps)} :
        Escape(q, ps)[i] = [q[i] EXCEPT !.escaped = e]
  BY EscapeShape
<1>2. PICK f : f = Escape(q, ps)[i]
  OBVIOUS
<1>3. q[i] \in Frames
  BY ElementOfSeq
<1>4. Resembles(f, q[i]) /\ f.escaped = e
  BY <1>1, <1>2, <1>3 DEF Resembles, Frames
<1>5. PartsRight(q[i]) /\ (q[i].entry = {} => ps = {})
  OBVIOUS
<1>6. ps = {} => LeaveScope(DeclaredFrom(q, i), ps) = {}
  BY LeaveScopePaths
<1>7. q[i].escaped \subseteq e /\ (q[i].entry = {} => e = {})
  BY <1>5, <1>6 DEF PartsRight
<1> QED
  BY <1>2, <1>4, <1>5, <1>7 DEF PartsRight, Resembles

\* A statement ends and the one around it goes on.
LEMMA PopFrame ==
  ASSUME AInv, open # <<>>, Top.kind # "function", NEW r \in BOOLEAN,
         NEW l \in BOOLEAN, open' = Pop(open, r, l), unseen' \in BOOLEAN, unseen => unseen',
         r => paths' = {}, Top.entry = {} => paths' = {},
         Top.before = "set" => late' = "set",
         ~unseen' /\ ~r /\ paths' = {} => Top.entry = {},
         ~unseen' => Speaks(late', paths')
  PROVE  StackRight(open', late', paths', unseen')
<1>1. PICK k, p, f, u, v : /\ k = Len(open) - 1 /\ p = open' /\ f = p[k]
                           /\ u = unseen /\ v = unseen'
  OBVIOUS
<1>2. /\ TypeOK /\ u \in BOOLEAN /\ v \in BOOLEAN /\ (u => v)
      /\ StackRight(open, late, paths, u)
  BY <1>1 DEF AInv, DInv, TypeOK
<1>3. /\ k \in 1..MaxDepth /\ k < Len(open) /\ Len(p) = k
      /\ f = [open[k] EXCEPT !.returns = @ \/ r, !.leaks = @ \/ l]
      /\ \A i \in 1..k - 1 : p[i] = open[i]
  <2>1. /\ k \in 1..MaxDepth /\ k < Len(open) /\ Len(Pop(open, r, l)) = k
        /\ Pop(open, r, l)[k]
             = [open[k] EXCEPT !.returns = @ \/ r, !.leaks = @ \/ l]
        /\ \A i \in 1..k - 1 : Pop(open, r, l)[i] = open[i]
    BY <1>1, <1>2, PopShape
  <2>2. p = Pop(open, r, l) /\ f = p[k]
    BY <1>1
  <2> QED
    BY <2>1, <2>2
<1>4. /\ k \in Nat /\ k > 0 /\ k - 1 \in Nat /\ k - 1 + 1 = k
      /\ k - 1 <= Len(open) /\ Len(open) > 1 /\ Len(open) \in Nat
      /\ k + 1 = Len(open) /\ k \in 1..Len(open)
      /\ \A i \in 1..k - 1 : i \in 1..Len(open) /\ k \in i..Len(open)
  BY <1>1, <1>2, <1>3, TopScope, DepthAssumption DEF AInv
<1>5. open[k] \in Frames
  BY <1>2, <1>4, FrameFacts
<1>6. /\ f.kind = open[k].kind /\ f.before = open[k].before
      /\ f.first = open[k].first /\ f.firstReturns = open[k].firstReturns
      /\ f.merged = open[k].merged /\ f.entry = open[k].entry
      /\ f.ended = open[k].ended /\ f.escaped = open[k].escaped
      /\ f.returns <=> open[k].returns \/ r
  BY <1>3, <1>5 DEF Frames
<1>7. PartsRight(open[k]) /\ (~v => PartsSpeak(open[k]))
  BY <1>1, <1>2, <1>4 DEF StackRight
<1>8. PartsRight(f) /\ (~v => PartsSpeak(f))
  BY <1>6, <1>7 DEF PartsRight, PartsSpeak
<1>9. \A i \in 1..k - 1 : Resembles(p[i], open[i]) /\ PartsRight(p[i])
  BY <1>2, <1>3, <1>4 DEF StackRight, Resembles
<1>10. \A i \in 1..k - 1 : open[i].entry = {} => f.entry = {}
  BY <1>2, <1>4, <1>6 DEF StackRight
<1>11. k - 1 > 0 => /\ Around(open[k - 1], f.before, f.entry)
                    /\ ~v => AroundAlive(open[k - 1], f.entry)
  <2>1. k - 1 > 0 => k - 1 \in 1..Len(open) - 1
    BY <1>4
  <2> QED
    BY <1>2, <1>4, <1>6, <2>1 DEF StackRight
<1>12. /\ Around(open[k], Top.before, Top.entry)
       /\ ~v => AroundAlive(open[k], Top.entry)
  BY <1>1, <1>2, <1>4, TopFrame
<1>13. /\ Around(f, late', paths')
       /\ ~v => AroundAlive(f, paths')
  BY <1>1, <1>6, <1>12 DEF Around, AroundAlive
<1> QED
  <2>1. k - 1 \in Nat /\ k - 1 <= Len(open) /\ Len(open') = k - 1 + 1
        /\ f = open'[k - 1 + 1]
    BY <1>1, <1>3, <1>4
  <2> QED
    BY <1>1, <1>8, <1>9, <1>10, <1>11, <1>13, <2>1, LastFrame

\* The innermost statement goes on in another state.
LEMMA ReplaceFrame ==
  ASSUME AInv, open # <<>>, NEW f \in Frames,
         open' = [open EXCEPT ![Len(open)] = f],
         unseen' \in BOOLEAN, unseen => unseen',
         f.before = Top.before, f.entry = Top.entry,
         PartsRight(f), ~unseen' => PartsSpeak(f),
         Around(f, late', paths'),
         ~unseen' => AroundAlive(f, paths') /\ Speaks(late', paths')
  PROVE  StackRight(open', late', paths', unseen')
<1>1. PICK k, p, u, v : /\ k = Len(open) - 1 /\ p = open'
                        /\ u = unseen /\ v = unseen'
  OBVIOUS
<1>2. /\ TypeOK /\ u \in BOOLEAN /\ v \in BOOLEAN /\ (u => v)
      /\ StackRight(open, late, paths, u)
  BY <1>1 DEF AInv, DInv, TypeOK
<1>3. /\ k \in Nat /\ k + 1 = Len(open) /\ k <= Len(open) /\ Len(open) \in Nat
      /\ \A i \in 1..k : i \in 1..Len(open)
  BY <1>1, TopScope DEF AInv
<1>4. /\ Len(p) = k + 1 /\ f = p[k + 1]
      /\ \A i \in 1..k : p[i] = open[i]
  BY <1>1, <1>2, <1>3, ReplaceShape
<1>5. \A i \in 1..k : Resembles(p[i], open[i]) /\ PartsRight(p[i])
  BY <1>2, <1>3, <1>4 DEF StackRight, Resembles
<1>6. \A i \in 1..k : open[i].entry = {} => f.entry = {}
  BY <1>1, TopFrame
<1>7. k > 0 => /\ Around(open[k], f.before, f.entry)
               /\ ~v => AroundAlive(open[k], f.entry)
  <2>1. k > 0 => Len(open) > 1
    BY <1>3
  <2> QED
    BY <1>1, <2>1, TopFrame
<1> QED
  BY <1>1, <1>3, <1>4, <1>5, <1>6, <1>7, LastFrame

\* A statement inside the innermost one begins.
LEMMA PushFrame ==
  ASSUME AInv, open # <<>>, NEW f \in Frames, open' = Append(open, f),
         unseen' = unseen, PartsRight(f), ~unseen => PartsSpeak(f),
         paths' = f.entry, f.entry = {} <=> paths = {}, ~f.returns,
         f.before = late', late = "set" => late' = "set"
  PROVE  StackRight(open', late', paths', unseen')
<1>1. PICK n, p, u : n = Len(open) /\ p = open' /\ u = unseen
  OBVIOUS
<1>2. /\ TypeOK /\ u \in BOOLEAN /\ StackRight(open, late, paths, u)
  BY <1>1 DEF AInv, DInv, TypeOK
<1>3. /\ n \in Nat /\ n > 0 /\ n <= Len(open)
      /\ Len(p) = n + 1 /\ f = p[n + 1]
      /\ \A i \in 1..n : p[i] = open[i]
  <2>1. open \in Seq(Frames)
    BY <1>2, FrameFacts
  <2>2. n \in Nat /\ n > 0 /\ n <= Len(open)
    BY <1>1, TopScope DEF AInv
  <2> QED
    BY <1>1, <2>1, <2>2, AppendProperties
<1>4. /\ Around(Top, late, paths) /\ Top = open[n]
      /\ ~u => AroundAlive(Top, paths)
      /\ \A i \in 1..n : open[i].entry = {} => f.entry = {}
  BY <1>1, TopFrame DEF Top
<1>5. /\ Around(open[n], f.before, f.entry)
      /\ ~u => AroundAlive(open[n], f.entry)
  BY <1>4 DEF Around, AroundAlive
<1>6. /\ Around(f, late', paths') /\ AroundAlive(f, paths')
      /\ ~u => Speaks(late', paths')
  BY <1>1 DEF Around, AroundAlive, PartsSpeak
<1>7. \A i \in 1..n : Resembles(p[i], open[i]) /\ PartsRight(p[i])
  BY <1>1, <1>2, <1>3 DEF StackRight, Resembles
<1>8. /\ unseen => unseen'
      /\ ~unseen' => PartsSpeak(f)
      /\ ~unseen' => AroundAlive(open[n], f.entry)
      /\ ~unseen' => Speaks(late', paths')
  BY <1>1, <1>5, <1>6
<1> QED
  BY <1>1, <1>3, <1>4, <1>5, <1>6, <1>7, <1>8, LastFrame

\* An exception changes where execution goes, not what is open.
LEMMA ThrowFrame ==
  ASSUME AInv, open # <<>>, open' = Escape(open, paths),
         unseen' \in BOOLEAN, unseen => unseen',
         Around(Top, late', paths'),
         ~unseen' => AroundAlive(Top, paths') /\ Speaks(late', paths')
  PROVE  StackRight(open', late', paths', unseen')
<1>1. PICK k, p, f, v : /\ k = Len(open) - 1 /\ p = open' /\ v = unseen'
                        /\ f = p[Len(open)]
  OBVIOUS
<1>2. /\ TypeOK /\ StackRight(open, late, paths, unseen)
      /\ open \in Seq(Frames) /\ paths \in SUBSET Paths
  BY DEF AInv, DInv, TypeOK
<1>3. /\ k \in Nat /\ k + 1 = Len(open) /\ k <= Len(open) /\ Len(open) \in Nat
      /\ Len(open) \in 1..Len(open) /\ Top = open[Len(open)]
      /\ \A i \in 1..k : i \in 1..Len(open)
  BY <1>1, TopScope DEF AInv
<1>4. \A i \in 1..Len(open) :
        PartsRight(open[i]) /\ (open[i].entry = {} => paths = {})
  BY <1>2, TopFrame DEF StackRight
<1>5. /\ Len(p) = Len(open)
      /\ \A i \in 1..Len(open) : PartsRight(p[i]) /\ Resembles(p[i], open[i])
  BY <1>1, <1>2, <1>4, EscapeFrames, EscapeShape
<1>6. Len(p) = k + 1 /\ f = p[k + 1] /\ PartsRight(f) /\ Resembles(f, Top)
  BY <1>1, <1>3, <1>5
<1>7. ~v => PartsSpeak(Top)
  BY <1>1, TopFrame
<1>8. ~v => PartsSpeak(f)
  BY <1>6, <1>7, ResemblingFrames
<1>9. /\ Around(f, late', paths')
      /\ ~v => AroundAlive(f, paths')
  BY <1>1, <1>6, ResemblingFrames
<1>10. /\ f.before = Top.before /\ f.entry = Top.entry
  BY <1>6 DEF Resembles
<1>11. k > 0 => /\ Around(open[k], f.before, f.entry)
                /\ ~v => AroundAlive(open[k], f.entry)
  <2>1. k > 0 => Len(open) > 1
    BY <1>3
  <2> QED
    BY <1>1, <1>10, <2>1, TopFrame
<1>12. \A i \in 1..k : open[i].entry = {} => f.entry = {}
  BY <1>1, <1>10, TopFrame
<1> QED
  BY <1>1, <1>3, <1>5, <1>6, <1>8, <1>9, <1>11, <1>12, LastFrame

LEMMA AlarmSimple ==
  ASSUME AInv, Simple
  PROVE  StackRight(open', late', paths', unseen')
<1>1. /\ open # <<>> /\ TypeOK /\ unseen \in BOOLEAN
  BY DEF Simple, DeclareLate, Assign, Read, HandOver, FillByMethod, Return,
         Throw, Writing, AInv, DInv, TypeOK
<1>2. /\ PartsRight(Top) /\ Around(Top, late, paths)
      /\ ~unseen => /\ PartsSpeak(Top) /\ AroundAlive(Top, paths)
                    /\ Speaks(late, paths)
  BY <1>1, TopFrame
<1>3. CASE DeclareLate
  <2> DEFINE f == [Top EXCEPT !.declares = TRUE]
  <2>1. /\ f \in Frames /\ f.kind = Top.kind /\ f.before = Top.before
        /\ f.returns = Top.returns /\ f.first = Top.first
        /\ f.firstReturns = Top.firstReturns /\ f.merged = Top.merged
        /\ f.entry = Top.entry /\ f.ended = Top.ended
        /\ f.escaped = Top.escaped
    BY <1>1, TopFacts DEF Frames
  <2>2. /\ open' = [open EXCEPT ![Len(open)] = f] /\ unseen' = unseen
        /\ late = "absent" /\ late' = "unset" /\ paths' = Uninitialised(paths)
    BY <1>3 DEF DeclareLate, Top
  <2> HIDE DEF f
  <2>3. PartsRight(f) /\ (~unseen' => PartsSpeak(f))
    BY <1>2, <2>1, <2>2 DEF PartsRight, PartsSpeak
  <2>4. /\ paths' = {} <=> paths = {}
        /\ paths' # {} => FALSE \in paths'
    BY <2>2 DEF Uninitialised
  <2>5. /\ Around(f, late', paths')
        /\ ~unseen' => AroundAlive(f, paths') /\ Speaks(late', paths')
    BY <1>2, <2>1, <2>2, <2>4 DEF Around, AroundAlive, Speaks
  <2> QED
    BY <1>1, <2>1, <2>2, <2>3, <2>5, ReplaceFrame
<1>4. CASE Assign
  <2>1. /\ open' = Escape(open, paths) /\ unseen' = unseen
        /\ late' = "set" /\ paths' = Initialised(paths)
    BY <1>4 DEF Assign
  <2>2. paths' = {} <=> paths = {}
    BY <2>1 DEF Initialised
  <2>3. /\ Around(Top, late', paths')
        /\ ~unseen' => AroundAlive(Top, paths') /\ Speaks(late', paths')
    BY <1>2, <2>1, <2>2 DEF Around, AroundAlive, Speaks
  <2> QED
    BY <1>1, <2>1, <2>3, ThrowFrame
<1>5. CASE Read \/ HandOver
  BY <1>5 DEF Read, HandOver, AInv
<1>6. CASE Return
  <2> DEFINE f == [Top EXCEPT !.returns = TRUE]
  <2>1. /\ f \in Frames /\ f.kind = Top.kind /\ f.before = Top.before
        /\ f.returns /\ f.first = Top.first
        /\ f.firstReturns = Top.firstReturns /\ f.merged = Top.merged
        /\ f.entry = Top.entry /\ f.ended = Top.ended
        /\ f.escaped = Top.escaped
    BY <1>1, TopFacts DEF Frames
  <2>2. /\ open' = [open EXCEPT ![Len(open)] = f] /\ unseen' = unseen
        /\ late' = late /\ paths' = {}
    BY <1>6 DEF Return, Top
  <2> HIDE DEF f
  <2>3. PartsRight(f) /\ (~unseen' => PartsSpeak(f))
    BY <1>2, <2>1, <2>2 DEF PartsRight, PartsSpeak
  <2>4. /\ Around(f, late', paths')
        /\ ~unseen' => AroundAlive(f, paths') /\ Speaks(late', paths')
    BY <1>2, <2>1, <2>2 DEF Around, AroundAlive, Speaks
  <2> QED
    BY <1>1, <2>1, <2>2, <2>3, <2>4, ReplaceFrame
<1>7. CASE Throw
  <2>1. /\ open' = Escape(open, paths) /\ unseen' = TRUE
        /\ late' = late /\ paths' = {}
    BY <1>7 DEF Throw
  <2>2. Around(Top, late', paths')
    BY <1>2, <2>1 DEF Around
  <2> QED
    BY <1>1, <2>1, <2>2, ThrowFrame
<1>8. CASE FillByMethod
  <2>1. /\ open' = Escape(open, paths) /\ unseen' = TRUE
        /\ late' = late /\ paths' = Initialised(paths)
    BY <1>8 DEF FillByMethod
  <2>2. paths' = {} <=> paths = {}
    BY <2>1 DEF Initialised
  <2>3. Around(Top, late', paths')
    BY <1>2, <2>1, <2>2 DEF Around
  <2> QED
    BY <1>1, <2>1, <2>3, ThrowFrame
<1> QED
  BY <1>3, <1>4, <1>5, <1>6, <1>7, <1>8 DEF Simple

LEMMA AlarmFunction ==
  ASSUME AInv, BeginFunction \/ EndFunction
  PROVE  StackRight(open', late', paths', unseen')
<1>1. CASE BeginFunction
  <2> DEFINE f == [FrameFor("function") EXCEPT !.before = late',
                                               !.first = late',
                                               !.entry = paths',
                                               !.declares = hasOut']
  <2>1. /\ open' = <<f>> /\ f.kind = "function" /\ f.before = late'
        /\ f.returns = FALSE /\ f.first = late' /\ f.firstReturns = FALSE
        /\ f.merged = "none" /\ f.entry = paths' /\ f.ended = {}
        /\ f.escaped = {} /\ paths' = {~hasOut'}
        /\ late' = IF hasOut' THEN "unset" ELSE "absent"
    BY <1>1 DEF BeginFunction, FrameFor
  <2> HIDE DEF f
  <2>2. Len(open') = 1 /\ open'[1] = f
    BY <2>1
  <2>3. /\ PartsRight(f) /\ PartsSpeak(f) /\ Around(f, late', paths')
        /\ AroundAlive(f, paths') /\ Speaks(late', paths')
    BY <2>1 DEF PartsRight, PartsSpeak, Around, AroundAlive, Speaks
  <2>4. \A i \in 1..1 : i = 1 /\ \A j \in i..1 : j = 1
    OBVIOUS
  <2>5. 1..1 - 1 = {}
    OBVIOUS
  <2> QED
    BY <2>2, <2>3, <2>4, <2>5 DEF StackRight
<1>2. CASE EndFunction
  <2>1. Len(open') = 0 /\ paths' = {}
    BY <1>2 DEF EndFunction
  <2> QED
    BY <2>1 DEF StackRight, Speaks
<1> QED
  BY <1>1, <1>2

LEMMA AlarmBegin ==
  ASSUME AInv, Beginning \/ BeginFor
  PROVE  StackRight(open', late', paths', unseen')
<1>1. TypeOK /\ late \in Flags /\ paths \in SUBSET Paths
  BY DEF AInv, DInv, TypeOK
<1>2. open # <<>>
  BY DEF Beginning, BeginBlock, BeginIf, BeginDo, BeginWhile, BeginTry,
         BeginMatch, Begin, BeginFor, Writing
<1>3. ~unseen => Speaks(late, paths)
  BY <1>2, TopFrame
<1>4. CASE Beginning
  <2>1. PICK k \in Kinds \ {"function", "else", "catch", "for"} :
          /\ open' = Append(open, FrameFor(k)) /\ late' = late
          /\ paths' = paths /\ unseen' = unseen
    BY <1>1, <1>4, BeginningStep
  <2>2. PICK f : f = FrameFor(k)
    OBVIOUS
  <2>3. /\ f \in Frames /\ f.kind = k /\ f.before = late /\ f.first = late
        /\ f.merged = "none" /\ f.returns = FALSE /\ f.firstReturns = FALSE
        /\ f.entry = paths /\ f.ended = {}
        /\ f.escaped = IF k = "try" THEN paths ELSE {}
    BY <1>1, <2>2, FrameForType DEF FrameFor
  <2>4. PartsRight(f) /\ (~unseen => PartsSpeak(f))
    BY <1>3, <2>3 DEF PartsRight, PartsSpeak
  <2> QED
    BY <1>2, <2>1, <2>2, <2>3, <2>4, PushFrame
<1>5. CASE BeginFor
  <2>1. PICK d \in BOOLEAN, u \in Updates, flag \in Flags,
             ps \in SUBSET Paths, f \in Frames : ForStep(d, u, flag, ps, f)
    BY <1>1, <1>5, BeginForStep
  <2>2. /\ late' = IF u = "writes" THEN "set" ELSE flag
        /\ paths' = ps /\ unseen' = unseen /\ open' = Append(open, f)
        /\ f.kind = "for" /\ f.before = late' /\ f.first = late'
        /\ f.merged = "none" /\ f.returns = FALSE /\ f.firstReturns = FALSE
        /\ f.entry = ps /\ f.ended = {} /\ f.escaped = {}
    BY <2>1 DEF ForStep
  <2>3. \/ late = "absent" /\ flag = "unset" /\ ps = Uninitialised(paths)
        \/ flag = late /\ ps = paths
    BY <2>1 DEF ForStep
  <2>4. /\ ps = {} <=> paths = {}
        /\ ~unseen => Speaks(flag, ps)
        /\ late = "set" => flag = "set"
    BY <1>3, <2>3 DEF Uninitialised, Speaks
  <2>5. /\ late = "set" => late' = "set"
        /\ ~unseen => Speaks(late', ps)
    BY <2>2, <2>4 DEF Speaks
  <2>6. PartsRight(f) /\ (~unseen => PartsSpeak(f))
    BY <2>2, <2>5 DEF PartsRight, PartsSpeak
  <2> QED
    BY <1>2, <2>2, <2>4, <2>5, <2>6, PushFrame
<1> QED
  BY <1>4, <1>5

\* What the catches finished so far leave, the one that ends now included.
LEMMA MergedFrame ==
  ASSUME AInv, open # <<>>, Top.kind = "catch", NEW m,
         m = MergeCatch(Top.merged, Top.returns, PartEnd)
  PROVE  LET ends == Top.ended \cup PathsAtEnd
         IN  /\ m \in Flags \cup {"none"}
             /\ Top.before = "set" => m \in {"set", "none"}
             /\ Top.firstReturns /\ m = "none" => ends = {}
             /\ ~unseen /\ m # "none" /\ Top.entry # {} =>
                  ends # {} /\ (m = "unset" => FALSE \in ends)
<1>1. /\ TypeOK /\ PartsRight(Top) /\ (~unseen => PartsSpeak(Top))
      /\ SameScope(Top) /\ (PartEnd = "absent" <=> Top.before = "absent")
  BY TopFrame, TopScope DEF AInv
<1>2. /\ Top.merged \in Flags \cup {"none"} /\ PartEnd \in Flags
      /\ Top.returns \in BOOLEAN /\ Top.firstReturns \in BOOLEAN
  BY <1>1, TopFacts, PartEndTypes
<1>3. PICK ends, end : ends = Top.ended \cup PathsAtEnd /\ end = PathsAtEnd
  OBVIOUS
<1>4. m \in Flags \cup {"none"}
  BY <1>2, JoinTypes
<1>5. Top.before = "set" => m \in {"set", "none"}
  BY <1>1, <1>2, PartEndFrame DEF PartsRight, MergeCatch, Both
<1>6. Top.firstReturns /\ m = "none" => ends = {}
  <2>1. m = "none" => Top.merged = "none" /\ Top.returns
    BY <1>2 DEF MergeCatch, Both, Flags
  <2>2. Top.firstReturns /\ m = "none" => Top.ended = {} /\ end = {}
    BY <1>1, <1>3, <2>1, PartEndFrame DEF PartsRight
  <2> QED
    BY <1>3, <2>2
<1>7. ASSUME ~unseen, m # "none", Top.entry # {}
      PROVE  ends # {} /\ (m = "unset" => FALSE \in ends)
  <2>1. CASE Top.returns
    BY <1>1, <1>3, <1>7, <2>1 DEF PartsSpeak, MergeCatch
  <2>2. CASE ~Top.returns
    <3>1. end # {} /\ (PartEnd = "unset" => FALSE \in end)
      BY <1>3, <1>7, <2>2, PartEndFrame DEF Speaks
    <3>2. CASE Top.merged = "none"
      BY <1>3, <2>2, <3>1, <3>2 DEF MergeCatch
    <3>3. CASE Top.merged # "none"
      <4>1. Top.merged = "unset" => FALSE \in Top.ended
        BY <1>1, <1>7, <3>3 DEF PartsSpeak
      <4>2. m = "unset" => Top.merged = "unset" \/ PartEnd = "unset"
        BY <1>1, <1>2, <2>2, <3>3 DEF MergeCatch, Both, Flags, SameScope
      <4> QED
        BY <1>3, <3>1, <4>1, <4>2
    <3> QED
      BY <3>2, <3>3
  <2> QED
    BY <1>2, <2>1, <2>2
<1> QED
  BY <1>3, <1>4, <1>5, <1>6, <1>7

\* A part that goes on unset has a path there that began the statement so.
LEMMA UnsetBefore ==
  ASSUME AInv, open # <<>>, ~unseen, PartEnd = "unset", Top.entry # {}
  PROVE  FALSE \in Top.entry
<1>1. TypeOK /\ Top.before \in Flags /\ PartsSpeak(Top)
  BY TopFrame, TopFacts
<1>2. Top.before = "unset"
  BY <1>1, PartEndFrame DEF PartEnd, Leave, Flags
<1> QED
  BY <1>1, <1>2 DEF PartsSpeak, Speaks

LEMMA AlarmNextPart ==
  ASSUME AInv, BeginElse \/ BeginArm \/ NextCatch
  PROVE  StackRight(open', late', paths', unseen')
<1>1. /\ open # <<>> /\ TypeOK /\ unseen \in BOOLEAN
  BY DEF BeginElse, BeginArm, NextCatch, Inside, AInv, DInv, TypeOK
<1>0. Top.kind \notin {"for", "function"}
  BY DEF BeginElse, BeginArm, NextCatch, Inside
<1>2. /\ PartsRight(Top) /\ (~unseen => PartsSpeak(Top))
      /\ Top \in Frames /\ PartEnd \in Flags /\ PathsAtEnd \in SUBSET Paths
      /\ Top.returns \in BOOLEAN
  BY <1>1, TopFrame, TopFacts, PartEndTypes
<1>3. /\ Top.before = "set" => PartEnd = "set"
      /\ Top.returns => PathsAtEnd = {}
      /\ Top.entry = {} => PathsAtEnd = {}
      /\ ~unseen => /\ Speaks(PartEnd, PathsAtEnd)
                    /\ ~Top.returns /\ PathsAtEnd = {} => Top.entry = {}
  BY <1>0, <1>1, PartEndFrame
<1>4. CASE BeginElse
  <2> DEFINE f == [[Top EXCEPT !.first = PartEnd, !.firstReturns = Top.returns,
                               !.ended = PathsAtEnd]
                     EXCEPT !.kind = "else", !.returns = FALSE,
                            !.declares = FALSE, !.leaks = FALSE]
  <2>1. /\ f \in Frames /\ f.kind = "else" /\ f.before = Top.before
        /\ f.returns = FALSE /\ f.first = PartEnd
        /\ f.firstReturns = Top.returns /\ f.merged = Top.merged
        /\ f.entry = Top.entry /\ f.ended = PathsAtEnd
        /\ f.escaped = Top.escaped
    BY <1>2 DEF Frames, Kinds
  <2>2. /\ open' = [open EXCEPT ![Len(open)] = f] /\ unseen' = unseen
        /\ late' = Top.before /\ paths' = Top.entry /\ Top.kind = "then"
    BY <1>4 DEF BeginElse, NextPart, Inside
  <2> HIDE DEF f
  <2>3. PartsRight(f)
    BY <1>2, <1>3, <2>1, <2>2 DEF PartsRight
  <2>4. ~unseen' => PartsSpeak(f)
    BY <1>2, <1>3, <2>1, <2>2 DEF PartsRight, PartsSpeak, Speaks
  <2>5. /\ Around(f, late', paths')
        /\ ~unseen' => AroundAlive(f, paths') /\ Speaks(late', paths')
    BY <1>2, <2>1, <2>2 DEF Around, AroundAlive, PartsSpeak
  <2> QED
    BY <1>1, <2>1, <2>2, <2>3, <2>4, <2>5, ReplaceFrame
<1>5. CASE BeginArm
  <2> DEFINE f == [[Top EXCEPT !.ended = @ \cup PathsAtEnd]
                     EXCEPT !.kind = "arm", !.returns = FALSE,
                            !.declares = FALSE, !.leaks = FALSE]
  <2>1. /\ f \in Frames /\ f.kind = "arm" /\ f.before = Top.before
        /\ f.returns = FALSE /\ f.first = Top.first
        /\ f.firstReturns = Top.firstReturns /\ f.merged = Top.merged
        /\ f.entry = Top.entry /\ f.ended = Top.ended \cup PathsAtEnd
        /\ f.escaped = Top.escaped
    BY <1>2 DEF Frames, Kinds
  <2>2. /\ open' = [open EXCEPT ![Len(open)] = f]
        /\ unseen' = (unseen \/ Top.returns)
        /\ late' = PartEnd /\ paths' = Top.entry /\ Top.kind = "arm"
    BY <1>5 DEF BeginArm, NextPart, Inside
  <2> HIDE DEF f
  <2>3. PartsRight(f)
    BY <1>2, <1>3, <2>1, <2>2 DEF PartsRight
  <2>4. ~unseen' => PartsSpeak(f)
    BY <1>2, <2>1, <2>2 DEF PartsRight, PartsSpeak
  <2>5. ~unseen' => Speaks(late', paths')
    BY <1>1, <2>2, UnsetBefore DEF Speaks
  <2>6. Around(f, late', paths') /\ AroundAlive(f, paths')
    BY <1>3, <2>1, <2>2 DEF Around, AroundAlive
  <2>7. unseen' \in BOOLEAN /\ (unseen => unseen')
    BY <1>1, <1>2, <2>2
  <2> QED
    BY <1>1, <2>1, <2>2, <2>3, <2>4, <2>5, <2>6, <2>7, ReplaceFrame
<1>6. CASE NextCatch
  <2> DEFINE m == MergeCatch(Top.merged, Top.returns, PartEnd)
             f == [[Top EXCEPT !.merged = MergeCatch(@, Top.returns, PartEnd),
                               !.ended = @ \cup PathsAtEnd]
                     EXCEPT !.kind = "catch", !.returns = FALSE,
                            !.declares = FALSE, !.leaks = FALSE]
  <2>0. Top.kind = "catch"
    BY <1>6 DEF NextCatch, Inside
  <2>1. /\ m \in Flags \cup {"none"}
        /\ Top.before = "set" => m \in {"set", "none"}
        /\ Top.firstReturns /\ m = "none" => Top.ended \cup PathsAtEnd = {}
        /\ ~unseen /\ m # "none" /\ Top.entry # {} =>
             /\ Top.ended \cup PathsAtEnd # {}
             /\ m = "unset" => FALSE \in Top.ended \cup PathsAtEnd
    BY <1>1, <2>0, MergedFrame
  <2>2. /\ f \in Frames /\ f.kind = "catch" /\ f.before = Top.before
        /\ f.returns = FALSE /\ f.first = Top.first
        /\ f.firstReturns = Top.firstReturns /\ f.merged = m
        /\ f.entry = Top.entry /\ f.ended = Top.ended \cup PathsAtEnd
        /\ f.escaped = Top.escaped
    <3> HIDE DEF m
    <3>1. f = [[Top EXCEPT !.merged = m, !.ended = @ \cup PathsAtEnd]
                 EXCEPT !.kind = "catch", !.returns = FALSE,
                        !.declares = FALSE, !.leaks = FALSE]
      BY DEF m
    <3> HIDE DEF f
    <3> QED
      BY <1>2, <2>1, <3>1 DEF Frames, Kinds
  <2>3. /\ open' = [open EXCEPT ![Len(open)] = f] /\ unseen' = unseen
        /\ late' = Top.before /\ paths' = Top.escaped
    BY <1>6 DEF NextCatch, NextPart
  <2> HIDE DEF m, f
  <2>4. PartsRight(f)
    BY <1>2, <1>3, <2>0, <2>1, <2>2 DEF PartsRight
  <2>5. ~unseen' => PartsSpeak(f)
    BY <1>2, <2>0, <2>1, <2>2, <2>3 DEF PartsSpeak
  <2>6. /\ Top.entry = {} => Top.escaped = {}
        /\ Top.entry \subseteq Top.escaped
    BY <1>2, <2>0 DEF PartsRight
  <2>7. /\ Around(f, late', paths') /\ AroundAlive(f, paths')
        /\ ~unseen' => Speaks(late', paths')
    BY <1>2, <2>2, <2>3, <2>6 DEF Around, AroundAlive, PartsSpeak, Speaks
  <2> QED
    BY <1>1, <2>2, <2>3, <2>4, <2>5, <2>7, ReplaceFrame
<1> QED
  BY <1>4, <1>5, <1>6

LEMMA AlarmBeginCatch ==
  ASSUME AInv, BeginCatch
  PROVE  StackRight(open', late', paths', unseen')
<1>1. /\ open # <<>> /\ TypeOK /\ Top.kind = "try" /\ unseen' = unseen
      /\ late' = Top.before /\ paths' = Top.escaped
  BY DEF BeginCatch, Inside, AInv, DInv
<1> DEFINE f == [Top EXCEPT !.kind = "catch", !.returns = FALSE,
                            !.declares = FALSE, !.leaks = FALSE,
                            !.first = PartEnd,
                            !.firstReturns = Top.returns,
                            !.ended = PathsAtEnd]
<1>2. PICK n, front : n = Len(open) - 1 /\ front = SubSeq(open, 1, n)
  OBVIOUS
<1>3. PICK ps \in {{}, Top.escaped} : open' = Append(Escape(front, ps), f)
  BY <1>2 DEF BeginCatch
<1>4. /\ f \in Frames /\ f.kind = "catch" /\ f.before = Top.before
      /\ f.returns = FALSE /\ f.first = PartEnd
      /\ f.firstReturns = Top.returns /\ f.merged = Top.merged
      /\ f.entry = Top.entry /\ f.ended = PathsAtEnd
      /\ f.escaped = Top.escaped /\ ps \in SUBSET Paths
  BY <1>1, <1>3, TopFacts, PartEndTypes DEF Frames, Kinds
<1> HIDE DEF f
<1>5. /\ n \in Nat /\ n > 0 /\ n <= Len(open) /\ Len(open) > 1
      /\ front \in Seq(Frames) /\ Len(front) = n
      /\ \A i \in 1..n : front[i] = open[i] /\ i \in 1..Len(open)
  BY <1>1, <1>2, FrontShape, TopScope DEF AInv
<1>6. /\ PartsRight(Top) /\ (~unseen => PartsSpeak(Top))
      /\ Around(open[n], Top.before, Top.entry)
      /\ ~unseen => AroundAlive(open[n], Top.entry)
      /\ \A i \in 1..n : open[i].entry = {} => Top.entry = {}
  BY <1>1, <1>2, <1>5, TopFrame
<1>7. /\ Top.entry = {} => Top.escaped = {}
      /\ Top.entry \subseteq Top.escaped /\ Top.merged = "none"
  BY <1>1, <1>6 DEF PartsRight
<1>8. /\ Top.before = "set" => PartEnd = "set"
      /\ Top.returns => PathsAtEnd = {}
      /\ Top.entry = {} => PathsAtEnd = {}
      /\ ~unseen => /\ Speaks(PartEnd, PathsAtEnd)
                    /\ ~Top.returns /\ PathsAtEnd = {} => Top.entry = {}
  BY <1>1, PartEndFrame
<1>9. PartsRight(f)
  BY <1>4, <1>6, <1>7, <1>8 DEF PartsRight
<1>10. ~unseen' => PartsSpeak(f)
  BY <1>1, <1>4, <1>6, <1>7, <1>8 DEF PartsSpeak, Speaks
<1>11. /\ Around(f, late', paths') /\ AroundAlive(f, paths')
       /\ ~unseen' => Speaks(late', paths')
  BY <1>1, <1>4, <1>6, <1>7 DEF Around, AroundAlive, PartsSpeak, Speaks
<1>12. \A i \in 1..n : PartsRight(front[i]) /\ (front[i].entry = {} => ps = {})
  BY <1>3, <1>5, <1>6, <1>7 DEF AInv, StackRight
<1>13. PICK q : q = Escape(front, ps)
  OBVIOUS
<1>14. /\ q \in Seq(Frames) /\ Len(q) = n
       /\ \A i \in 1..n : PartsRight(q[i]) /\ Resembles(q[i], front[i])
  BY <1>4, <1>5, <1>12, <1>13, EscapeFrames, EscapeShape
<1>15. /\ Len(open') = n + 1 /\ open'[n + 1] = f
       /\ \A i \in 1..n : open'[i] = q[i]
  BY <1>3, <1>4, <1>13, <1>14, AppendProperties
<1>16. \A i \in 1..n : Resembles(open'[i], open[i]) /\ PartsRight(open'[i])
  BY <1>5, <1>14, <1>15
<1>17. /\ unseen => unseen'
       /\ Around(open[n], f.before, f.entry)
       /\ ~unseen' => AroundAlive(open[n], f.entry)
       /\ \A i \in 1..n : open[i].entry = {} => f.entry = {}
  BY <1>1, <1>4, <1>6
<1> QED
  BY <1>5, <1>9, <1>10, <1>11, <1>15, <1>16, <1>17, LastFrame

LEMMA AlarmEnding ==
  ASSUME AInv, Ending
  PROVE  StackRight(open', late', paths', unseen')
<1>1. /\ open # <<>> /\ TypeOK /\ Top.kind # "function"
      /\ unseen \in BOOLEAN
  BY DEF AInv, DInv, TypeOK, Ending, EndBlock, EndIfWithoutElse, EndIf, EndDo,
         EndWhile, EndFor, EndMatch, EndTry, Inside
<1>2. /\ PartsRight(Top) /\ (~unseen => PartsSpeak(Top))
      /\ SameScope(Top) /\ (PartEnd = "absent" <=> Top.before = "absent")
      /\ PartEnd \in Flags /\ Top.before \in Flags /\ Top.first \in Flags
      /\ Top.returns \in BOOLEAN /\ Top.firstReturns \in BOOLEAN
  BY <1>1, TopFrame, TopScope, TopFacts, PartEndTypes DEF AInv
<1>3. PICK end : end = PathsAtEnd
  OBVIOUS
<1>4. /\ Top.before = "set" => PartEnd = "set"
      /\ Top.returns => end = {}
      /\ Top.entry = {} => end = {}
      /\ ~unseen => (~Top.returns /\ end = {} => Top.entry = {})
      /\ ~unseen /\ Top.kind # "for" => Speaks(PartEnd, end)
  BY <1>1, <1>3, PartEndFrame
<1>5. Top.entry = {} => Top.ended = {} /\ Top.escaped = {}
  BY <1>2 DEF PartsRight
\* What is to be shown of each ending.
<1>6. ASSUME NEW r \in BOOLEAN, NEW l \in BOOLEAN, open' = Pop(open, r, l),
             unseen' \in BOOLEAN,
             unseen => unseen',
             r => paths' = {}, Top.entry = {} => paths' = {},
             Top.before = "set" => late' = "set",
             ~unseen' /\ ~r /\ paths' = {} => Top.entry = {},
             ~unseen' => Speaks(late', paths')
      PROVE  StackRight(open', late', paths', unseen')
  BY <1>1, <1>6, PopFrame
<1>7. CASE EndBlock
  <2>1. /\ late' = PartEnd /\ paths' = end /\ unseen' = unseen
        /\ open' = Pop(open, Top.returns, FALSE) /\ Top.kind # "for"
    BY <1>3, <1>7 DEF EndBlock, Inside
  <2> QED
    BY <1>1, <1>2, <1>4, <1>6, <2>1
<1>8. CASE EndIfWithoutElse
  <2>1. /\ late' = JoinIf(PartEnd, Top.returns, Top.before, FALSE)
        /\ paths' = end \cup Top.entry /\ unseen' = unseen
        /\ open' = Pop(open, FALSE, FALSE) /\ Top.kind # "for"
    BY <1>3, <1>8 DEF EndIfWithoutElse, Inside
  <2>2. Top.before = "set" => late' = "set"
    BY <1>2, <1>4, <2>1 DEF JoinIf, Both
  <2>3. Top.entry = {} => paths' = {}
    BY <1>4, <2>1
  <2>4. paths' = {} => Top.entry = {}
    BY <2>1
  <2>5. late' = "unset" => /\ Top.returns => Top.before = "unset"
                           /\ Top.before = "unset" \/ PartEnd = "unset"
    BY <1>2, <2>1 DEF JoinIf, Both, Flags
  <2>6. ASSUME ~unseen, late' = "unset", Top.entry # {}
        PROVE  FALSE \in paths'
    BY <1>2, <1>4, <2>1, <2>5, <2>6 DEF PartsSpeak, Speaks
  <2>7. ~unseen' => Speaks(late', paths')
    BY <2>1, <2>3, <2>6 DEF Speaks
  <2> QED
    BY <1>1, <1>6, <2>1, <2>2, <2>3, <2>4, <2>7
<1>9. CASE EndIf
  <2>0. Top.kind = "else"
    BY <1>9 DEF EndIf, Inside
  <2>1. /\ late' = JoinIf(Top.first, Top.firstReturns, PartEnd, Top.returns)
        /\ paths' = Top.ended \cup end /\ unseen' = unseen
        /\ open' = Pop(open, Top.firstReturns /\ Top.returns, FALSE)
    BY <1>3, <1>9 DEF EndIf
  <2>2. Top.before = "set" => late' = "set"
    BY <1>2, <1>4, <2>1 DEF JoinIf, Both, PartsRight
  <2>3. Top.entry = {} => paths' = {}
    BY <1>4, <1>5, <2>1
  <2>4. Top.firstReturns => Top.ended = {}
    BY <1>2, <2>0 DEF PartsRight
  <2>5. ~unseen /\ ~Top.firstReturns /\ Top.entry # {} =>
          Top.ended # {} /\ (Top.first = "unset" => FALSE \in Top.ended)
    BY <1>2, <2>0 DEF PartsSpeak
  <2>6. ~unseen /\ ~Top.returns /\ Top.entry # {} =>
          end # {} /\ (PartEnd = "unset" => FALSE \in end)
    BY <1>4, <2>0 DEF Speaks
  <2>7. Top.firstReturns /\ Top.returns => paths' = {}
    BY <1>4, <2>1, <2>4
  <2>8. ~unseen /\ ~(Top.firstReturns /\ Top.returns) /\ paths' = {}
          => Top.entry = {}
    BY <2>1, <2>5, <2>6
  <2>9. late' = "unset" /\ ~(Top.firstReturns /\ Top.returns) =>
          \/ ~Top.firstReturns /\ Top.first = "unset"
          \/ ~Top.returns /\ PartEnd = "unset"
    BY <1>2, <2>1 DEF JoinIf, Both, Flags, SameScope
  <2>10. ~unseen' => Speaks(late', paths')
    BY <2>1, <2>3, <2>5, <2>6, <2>7, <2>9 DEF Speaks
  <2> QED
    BY <1>1, <1>2, <1>6, <2>1, <2>2, <2>3, <2>7, <2>8, <2>10
<1>10. CASE EndDo
  <2>1. /\ late' = PartEnd /\ paths' = end /\ unseen' = (unseen \/ Top.returns)
        /\ open' = Pop(open, FALSE, FALSE) /\ Top.kind # "for"
    BY <1>3, <1>10 DEF EndDo, Inside
  <2> QED
    BY <1>1, <1>2, <1>4, <1>6, <2>1
<1>11. CASE EndWhile
  <2>1. /\ late' = PartEnd /\ paths' = Top.entry \cup end
        /\ unseen' = (unseen \/ Top.returns) /\ open' = Pop(open, FALSE, FALSE)
    BY <1>3, <1>11 DEF EndWhile
  <2>2. /\ Top.entry = {} => paths' = {}
        /\ paths' = {} => Top.entry = {}
    BY <1>4, <2>1
  <2>3. ~unseen' => Speaks(late', paths')
    BY <1>1, <2>1, <2>2, UnsetBefore DEF Speaks
  <2>4. unseen' \in BOOLEAN /\ (unseen => unseen')
    BY <1>1, <1>2, <2>1
  <2> QED
    BY <1>4, <1>6, <2>1, <2>2, <2>3, <2>4
<1>12. CASE EndMatch
  <2>1. /\ late' = PartEnd /\ unseen' = (unseen \/ Top.returns)
        /\ open' = Pop(open, FALSE, FALSE) /\ Top.kind # "for"
    BY <1>12 DEF EndMatch, Inside
  <2>2. PICK others \in {{}, Top.entry} :
          paths' = Top.ended \cup end \cup others
    BY <1>3, <1>12 DEF EndMatch
  <2>3. /\ Top.entry = {} => paths' = {}
        /\ ~unseen' /\ paths' = {} => Top.entry = {}
    BY <1>4, <1>5, <2>1, <2>2
  <2>4. ~unseen' => Speaks(late', paths')
    <3>1. ASSUME ~unseen', late' = "unset", paths' # {}
          PROVE  FALSE \in paths'
      <4>1. Top.entry # {} /\ ~unseen /\ ~Top.returns
        BY <2>1, <2>3, <3>1
      <4>2. FALSE \in end
        BY <1>4, <2>1, <3>1, <4>1 DEF Speaks
      <4> QED
        BY <2>2, <4>2
    <3> QED
      BY <3>1 DEF Speaks
  <2>5. unseen' \in BOOLEAN /\ (unseen => unseen')
    BY <1>1, <1>2, <2>1
  <2> QED
    BY <1>4, <1>6, <2>1, <2>3, <2>4, <2>5
<1>13. CASE EndTry
  <2>0. Top.kind = "catch"
    BY <1>13 DEF EndTry, Inside
  <2>1. PICK m : m = MergeCatch(Top.merged, Top.returns, PartEnd)
    OBVIOUS
  <2>2. /\ late' = JoinTry(Top.before, Top.first, Top.firstReturns, m)
        /\ paths' = Top.ended \cup end /\ unseen' = unseen
        /\ open' = Pop(open, Top.firstReturns /\ m = "none", FALSE)
    BY <1>3, <1>13, <2>1 DEF EndTry
  <2>3. /\ m \in Flags \cup {"none"}
        /\ Top.before = "set" => m \in {"set", "none"}
        /\ Top.firstReturns /\ m = "none" => paths' = {}
        /\ ~unseen /\ m # "none" /\ Top.entry # {} =>
             paths' # {} /\ (m = "unset" => FALSE \in paths')
    BY <1>1, <1>3, <2>0, <2>1, <2>2, MergedFrame
  <2>4. ~unseen /\ ~Top.firstReturns /\ Top.entry # {} =>
          paths' # {} /\ (Top.first = "unset" => FALSE \in paths')
    BY <1>2, <2>0, <2>2 DEF PartsSpeak
  <2>5. Top.before = "set" => late' = "set"
    BY <1>2, <2>2, <2>3 DEF JoinTry, Either, PartsRight
  <2>6. Top.entry = {} => paths' = {}
    BY <1>4, <1>5, <2>2
  <2>7. ~unseen /\ ~(Top.firstReturns /\ m = "none") /\ paths' = {}
          => Top.entry = {}
    BY <1>2, <2>3, <2>4
  <2>8. late' = "unset" /\ ~(Top.firstReturns /\ m = "none") =>
          m = "unset" \/ (~Top.firstReturns /\ Top.first = "unset")
    BY <1>2, <2>2, <2>3 DEF JoinTry, Either, Flags
  <2>9. ~unseen' => Speaks(late', paths')
    BY <2>2, <2>3, <2>4, <2>6, <2>8 DEF Speaks
  <2> QED
    BY <1>1, <1>2, <1>6, <2>2, <2>3, <2>5, <2>6, <2>7, <2>9
<1>14. CASE EndFor
  <2>1. PICK d, l, u, ran : /\ d = Top.declares /\ u = Top.update
                            /\ l = (Top.declares /\ PartEnd # "absent")
                            /\ ran = IF Top.update = "writes"
                                     THEN Initialised(paths) ELSE paths
    OBVIOUS
  <2>2. /\ late' = PartEnd
        /\ unseen' = (unseen \/ Top.returns \/ (d /\ PartEnd = "unset"))
        /\ paths' = LeaveScope(d, Top.entry \cup ran)
        /\ open' = Pop(open, FALSE, l)
    BY <1>14, <2>1 DEF EndFor
  <2>3. l \in BOOLEAN /\ d \in BOOLEAN
    BY <1>1, <2>1, TopFacts DEF Frames
  <2>4. Top.entry = {} => ran = {}
    BY <1>1, <2>1, TopFrame DEF Around, Initialised
  <2>5. paths' = {} <=> Top.entry = {}
    BY <2>2, <2>4 DEF LeaveScope, Initialised
  <2>6. ASSUME ~unseen', late' = "unset", paths' # {}
        PROVE  FALSE \in paths'
    <3>1. ~unseen /\ ~d /\ PartEnd = "unset" /\ Top.entry # {}
      BY <2>2, <2>5, <2>6
    <3>2. FALSE \in Top.entry
      BY <1>1, <3>1, UnsetBefore
    <3> QED
      BY <2>2, <3>1, <3>2 DEF LeaveScope
  <2>7. ~unseen' => Speaks(late', paths')
    BY <2>6 DEF Speaks
  <2>8. unseen' \in BOOLEAN /\ (unseen => unseen')
    BY <1>1, <1>2, <2>2, <2>3
  <2> QED
    BY <1>4, <1>6, <2>2, <2>3, <2>5, <2>7, <2>8
<1> QED
  BY <1>7, <1>8, <1>9, <1>10, <1>11, <1>12, <1>13, <1>14 DEF Ending

LEMMA AInvInit == Init => AInv
<1> SUFFICES ASSUME Init PROVE AInv
  OBVIOUS
<1>1. Len(open) = 0 /\ paths = {}
  BY DEF Init
<1> QED
  BY <1>1, DInvInit DEF AInv, StackRight, Speaks

LEMMA AInvNext == AInv /\ [Next]_vars => AInv'
<1> SUFFICES ASSUME AInv, [Next]_vars PROVE AInv'
  OBVIOUS
<1>1. DInv'
  BY DInvNext DEF AInv
<1>2. StackRight(open', late', paths', unseen')
  <2>1. CASE UNCHANGED vars
    BY <2>1 DEF vars, AInv
  <2>2. CASE Next
    BY <2>2, AlarmSimple, AlarmFunction, AlarmBegin, AlarmNextPart,
       AlarmBeginCatch, AlarmEnding DEF Next, Simple, Beginning, Ending
  <2> QED
    BY <2>1, <2>2
<1> QED
  BY <1>1, <1>2 DEF AInv

\* A use is only rejected where some execution arrives with x uninitialised,
\* the update of a for left aside, until a throw, or a loop body or arm that
\* returns, ends paths that statementDefinitelyReturns lets go on, a method
\* writes x as its out argument, or x outlives the for that declared it:
\* however deep statements nest, the joins of if, else, try and catch are never
\* stricter than the executions.
THEOREM NoFalseAlarms == Spec => []NoFalseAlarm
<1>1. AInv => NoFalseAlarm
  BY DEF AInv, StackRight, Speaks, NoFalseAlarm
<1> QED
  BY <1>1, AInvInit, AInvNext, PTL DEF Spec
====
