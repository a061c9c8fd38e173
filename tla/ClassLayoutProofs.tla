-------------------------- MODULE ClassLayoutProofs --------------------------
(***************************************************************************)
(* Proofs about ClassLayout, for any number of classes and interfaces and  *)
(* any members.                                                            *)
(*                                                                         *)
(* The properties of complete programs speak of the line of bases of a     *)
(* class and of tables that repeat those of a base, so they need induction *)
(* over classes.  The induction theorems of the library take an operator   *)
(* and cannot be used; what holds here is put in a set instead, and the    *)
(* induction is that a nonempty set of numbers has a least element.        *)
(*                                                                         *)
(* The argument has three parts.  Lines: the recursive function of Line is *)
(* unfolded, and a line under a relation that falls is the class followed  *)
(* by the line of its base.  Invariants: every row of the tables is, in    *)
(* every state, what the generator makes of the row of its base (Rows),    *)
(* and the analyzer has registered the bases, without a cycle (Analysis,   *)
(* Heirs, Acyclic).  Complete programs: from these alone, by induction     *)
(* over the classes, the properties follow.                                *)
(***************************************************************************)
EXTENDS ClassLayout, FiniteSetTheorems, SequenceTheorems, WellFoundedInduction,
        TLAPS
----------------------------------------------------------------------------
(***************************************************************************)
(* Induction.  A nonempty set of numbers has a least one, and so what      *)
(* holds of 0 and passes on from each number to the next holds of all.     *)
(***************************************************************************)

Less == {p \in Nat \X Nat : p[1] < p[2]}

LEMMA LessFounded == IsWellFoundedOn(Less, Nat)
<1>1. Less = OpToRel(<, Nat)
  BY DEF Less, OpToRel
<1> QED
  BY <1>1, NatLessThanWellFounded

LEMMA LeastNumber ==
  ASSUME NEW T \in SUBSET Nat, T # {}
  PROVE  \E n \in T : \A m \in T : n <= m
<1>1. PICK n \in T : \A m \in T : <<m, n>> \notin Less
  BY LessFounded, WFMin
<1>2. ASSUME NEW m \in T PROVE n <= m
  <2>1. <<m, n>> \in Nat \X Nat /\ <<m, n>>[1] = m /\ <<m, n>>[2] = n
    OBVIOUS
  <2>2. ~(m < n)
    BY <1>1, <2>1 DEF Less
  <2> QED
    BY <2>2
<1> QED
  BY <1>2

LEMMA Induction ==
  ASSUME NEW n \in Nat, NEW T, 0 \in T,
         \A k \in 0..n : k \in T /\ k < n => k + 1 \in T
  PROVE  0..n \subseteq T
<1> SUFFICES ASSUME NEW j \in 0..n, j \notin T PROVE FALSE
  OBVIOUS
<1>1. PICK B : B = {k \in 0..n : k \notin T}
  OBVIOUS
<1>2. B \in SUBSET Nat /\ B # {}
  BY <1>1
<1>3. PICK m \in B : \A k \in B : m <= k
  BY <1>2, LeastNumber
<1>4. m # 0 /\ m - 1 \in 0..n /\ m - 1 < n /\ (m - 1) + 1 = m
  BY <1>1, <1>3
<1>5. m - 1 \in T
  BY <1>1, <1>3, <1>4
<1> QED
  BY <1>1, <1>3, <1>4, <1>5

----------------------------------------------------------------------------
(***************************************************************************)
(* Lines of classes.  A path follows `up` from class to class; the line of *)
(* a class is its path, as far as it goes or N steps long.                 *)
(***************************************************************************)

\* The numbers of 1..n in order, as a recursive function is defined.
Steps(g, up, c, n) ==
  g = [k \in 0..n |-> IF k = 0 THEN <<c>> ELSE Extended(up, g[k - 1])]

LEMMA StepsExist ==
  ASSUME NEW up, NEW c, NEW n \in Nat
  PROVE  \E g : Steps(g, up, c, n)
<1>1. PICK T : T = {k \in 0..n : \E g : Steps(g, up, c, k)}
  OBVIOUS
<1>2. 0 \in T
  <2>1. PICK g : g = [k \in 0..0 |-> <<c>>]
    OBVIOUS
  <2>2. Steps(g, up, c, 0)
    BY <2>1 DEF Steps
  <2> QED
    BY <1>1, <2>2
<1>3. ASSUME NEW k \in 0..n, k \in T, k < n PROVE k + 1 \in T
  <2>1. PICK g : Steps(g, up, c, k)
    BY <1>1, <1>3
  <2>2. PICK h : h = [i \in 0..(k + 1) |-> IF i <= k THEN g[i]
                                           ELSE Extended(up, g[k])]
    OBVIOUS
  <2>3. ASSUME NEW i \in 0..(k + 1)
        PROVE  h[i] = IF i = 0 THEN <<c>> ELSE Extended(up, h[i - 1])
    <3>1. CASE i = 0
      BY <2>1, <2>2, <3>1 DEF Steps
    <3>2. CASE i # 0 /\ i <= k
      <4>1. i - 1 \in 0..k /\ i - 1 <= k /\ i - 1 \in 0..(k + 1) /\ i \in 0..k
        BY <3>2
      <4>2. h[i - 1] = g[i - 1] /\ h[i] = g[i]
        BY <2>2, <3>2, <4>1
      <4>3. g[i] = Extended(up, g[i - 1])
        BY <2>1, <3>2, <4>1 DEF Steps
      <4> QED
        BY <3>2, <4>2, <4>3
    <3>3. CASE i = k + 1
      <4>1. i - 1 = k /\ k \in 0..(k + 1) /\ k <= k /\ ~(i <= k) /\ i # 0
        BY <3>3
      <4>2. h[k] = g[k] /\ h[i] = Extended(up, g[k])
        BY <2>2, <4>1
      <4> QED
        BY <4>1, <4>2
    <3> QED
      BY <3>1, <3>2, <3>3
  <2>4. h = [i \in 0..(k + 1) |-> h[i]]
    BY <2>2
  <2>5. Steps(h, up, c, k + 1)
    BY <2>3, <2>4 DEF Steps
  <2>6. k + 1 \in 0..n
    BY <1>3
  <2> QED
    BY <1>1, <2>5, <2>6
<1>4. 0..n \subseteq T
  BY <1>2, <1>3, Induction
<1> QED
  BY <1>1, <1>4

LEMMA LineSteps ==
  ASSUME NEW up, NEW c
  PROVE  \E g : Steps(g, up, c, N) /\ Line(up, c) = g[N]
<1>1. Line(up, c) = (CHOOSE g : Steps(g, up, c, N))[N]
  BY DEF Line, Steps
<1>2. PICK g : g = CHOOSE h : Steps(h, up, c, N)
  OBVIOUS
<1>3. Steps(g, up, c, N)
  BY <1>2, StepsExist, ShapesAssumption
<1> QED
  BY <1>1, <1>2, <1>3

Ups(up) == \A c \in DOMAIN up : up[c] \in Nat

Path(up, s) ==
  /\ s \in Seq(Nat) /\ Len(s) \in Nat \ {0}
  /\ \A j \in 1..Len(s) : j < Len(s) => HasUp(up, s[j]) /\ s[j + 1] = up[s[j]]

\* A path that has gone k steps, or fewer because it has come to its end.
Gone(up, s, c, k) ==
  /\ Path(up, s) /\ s[1] = c
  /\ \/ Len(s) = k + 1
     \/ Len(s) <= k + 1 /\ ~HasUp(up, s[Len(s)])

LEMMA PathFacts ==
  ASSUME NEW up, NEW s, Path(up, s)
  PROVE  /\ s \in Seq(Nat) /\ Len(s) \in Nat \ {0} /\ DOMAIN s = 1..Len(s)
         /\ 1 \in 1..Len(s) /\ Len(s) \in 1..Len(s)
         /\ \A j \in 1..Len(s) : s[j] \in Nat
<1>1. s \in Seq(Nat) /\ Len(s) \in Nat \ {0} /\ DOMAIN s = 1..Len(s)
  BY LenProperties DEF Path
<1>2. \A j \in 1..Len(s) : s[j] \in Nat
  BY <1>1, ElementOfSeq
<1> QED
  BY <1>1, <1>2

\* One more step.
LEMMA PathGrows ==
  ASSUME NEW up, Ups(up), NEW s, Path(up, s), HasUp(up, s[Len(s)])
  PROVE  /\ Path(up, Extended(up, s)) /\ Len(Extended(up, s)) = Len(s) + 1
         /\ \A j \in 1..Len(s) : Extended(up, s)[j] = s[j]
         /\ Extended(up, s)[Len(s) + 1] = up[s[Len(s)]]
<1>1. PICK l, x : l = Len(s) /\ x = up[s[Len(s)]]
  OBVIOUS
<1>2. Extended(up, s) = Append(s, x)
  BY <1>1 DEF Extended, Last
<1>3. PICK t : t = Append(s, x)
  OBVIOUS
<1>4. s \in Seq(Nat) /\ l \in Nat \ {0} /\ x \in Nat
  BY <1>1, PathFacts DEF HasUp, Ups
<1>5. /\ t \in Seq(Nat) /\ Len(t) = l + 1
      /\ \A j \in 1..l : t[j] = s[j]
      /\ t[l + 1] = x
  BY <1>1, <1>3, <1>4, AppendProperties
<1>6. ASSUME NEW j \in 1..Len(t), j < Len(t)
      PROVE  HasUp(up, t[j]) /\ t[j + 1] = up[t[j]]
  <2>1. j \in 1..l /\ t[j] = s[j]
    BY <1>4, <1>5, <1>6
  <2>2. CASE j = l
    BY <1>1, <1>5, <2>1, <2>2
  <2>3. CASE j < l
    <3>1. j + 1 \in 1..l /\ t[j + 1] = s[j + 1]
      BY <1>4, <1>5, <2>1, <2>3
    <3>2. HasUp(up, s[j]) /\ s[j + 1] = up[s[j]]
      BY <1>1, <2>1, <2>3 DEF Path
    <3> QED
      BY <2>1, <3>1, <3>2
  <2> QED
    BY <1>4, <2>1, <2>2, <2>3
<1>7. Path(up, t)
  BY <1>4, <1>5, <1>6 DEF Path
<1> QED
  BY <1>1, <1>2, <1>3, <1>5, <1>7

LEMMA LineIsGone ==
  ASSUME NEW up, Ups(up), NEW c \in Nat
  PROVE  Gone(up, Line(up, c), c, N)
<1>1. PICK g : Steps(g, up, c, N) /\ Line(up, c) = g[N]
  BY LineSteps
<1>2. N \in Nat /\ N \in 0..N
  BY ShapesAssumption
<1>3. PICK T : T = {k \in 0..N : Gone(up, g[k], c, k)}
  OBVIOUS
<1>4. 0 \in T
  <2>1. g[0] = <<c>>
    BY <1>1, <1>2 DEF Steps
  <2>2. <<c>> \in Seq(Nat) /\ Len(<<c>>) = 1 /\ <<c>>[1] = c
    OBVIOUS
  <2>3. Gone(up, <<c>>, c, 0)
    BY <2>2 DEF Gone, Path
  <2> QED
    BY <1>2, <1>3, <2>1, <2>3
<1>5. ASSUME NEW k \in 0..N, k \in T, k < N PROVE k + 1 \in T
  <2>1. k + 1 \in 0..N /\ k + 1 # 0 /\ (k + 1) - 1 = k /\ k \in Nat
    BY <1>2, <1>5
  <2>2. PICK s : s = g[k]
    OBVIOUS
  <2>3. g[k + 1] = Extended(up, s)
    BY <1>1, <2>1, <2>2 DEF Steps
  <2>4. Gone(up, s, c, k)
    BY <1>3, <1>5, <2>2
  <2>5. Path(up, s) /\ s[1] = c /\ Len(s) \in Nat \ {0} /\ 1 \in 1..Len(s)
    BY <2>4, PathFacts DEF Gone
  <2>6. CASE HasUp(up, s[Len(s)])
    <3>1. Len(s) = k + 1
      BY <2>4, <2>6 DEF Gone
    <3>2. /\ Path(up, Extended(up, s)) /\ Len(Extended(up, s)) = k + 2
          /\ Extended(up, s)[1] = c
      BY <2>1, <2>5, <2>6, <3>1, PathGrows
    <3>3. Gone(up, Extended(up, s), c, k + 1)
      BY <2>1, <3>2 DEF Gone
    <3> QED
      BY <1>3, <2>1, <2>3, <3>3
  <2>7. CASE ~HasUp(up, s[Len(s)])
    <3>1. g[k + 1] = s
      BY <2>3, <2>7 DEF Extended, Last
    <3>2. Len(s) <= (k + 1) + 1
      BY <2>1, <2>4, <2>5 DEF Gone
    <3>3. Gone(up, s, c, k + 1)
      BY <2>5, <2>7, <3>2 DEF Gone
    <3> QED
      BY <1>3, <2>1, <3>1, <3>3
  <2> QED
    BY <2>6, <2>7
<1>6. 0..N \subseteq T
  BY <1>2, <1>4, <1>5, Induction
<1>7. Gone(up, g[N], c, N)
  BY <1>2, <1>3, <1>6
<1> QED
  BY <1>1, <1>7

LEMMA LineFacts ==
  ASSUME NEW up, Ups(up), NEW c \in Nat, NEW s, s = Line(up, c)
  PROVE  /\ Path(up, s) /\ s \in Seq(Nat) /\ Len(s) \in Nat \ {0}
         /\ s[1] = c /\ Len(s) <= N + 1 /\ DOMAIN s = 1..Len(s)
         /\ Len(s) = N + 1 \/ ~HasUp(up, s[Len(s)])
<1>1. Gone(up, s, c, N)
  BY LineIsGone
<1>2. Path(up, s) /\ s[1] = c
  BY <1>1 DEF Gone
<1>3. s \in Seq(Nat) /\ Len(s) \in Nat \ {0} /\ DOMAIN s = 1..Len(s)
  BY <1>2, PathFacts
<1>4. Len(s) = N + 1 \/ (Len(s) <= N + 1 /\ ~HasUp(up, s[Len(s)]))
  BY <1>1 DEF Gone
<1>5. N \in Nat
  BY ShapesAssumption
<1>6. PICK l : l = Len(s)
  OBVIOUS
<1>7. Len(s) = N + 1 \/ ~HasUp(up, s[Len(s)])
  BY <1>4
<1>8. l <= N + 1
  <2>1. l = N + 1 \/ l <= N + 1
    BY <1>4, <1>6
  <2>2. l \in Nat
    BY <1>3, <1>6
  <2> QED
    BY <1>5, <2>1, <2>2
<1> QED
  BY <1>2, <1>3, <1>6, <1>7, <1>8

\* Two paths from the same class are the same as far as both go.
LEMMA SamePath ==
  ASSUME NEW up, NEW s, NEW t, Path(up, s), Path(up, t), s[1] = t[1],
         NEW j \in 1..Len(s), j <= Len(t)
  PROVE  s[j] = t[j]
<1>1. PICK l, m : l = Len(s) /\ m = Len(t)
  OBVIOUS
<1>2. l \in Nat \ {0} /\ m \in Nat \ {0}
  BY <1>1, PathFacts
<1>3. PICK T : T = {k \in 0..(j - 1) : s[k + 1] = t[k + 1]}
  OBVIOUS
<1>4. 0 \in T
  BY <1>1, <1>2, <1>3
<1>5. ASSUME NEW k \in 0..(j - 1), k \in T, k < j - 1 PROVE k + 1 \in T
  <2>1. /\ k + 1 \in 1..l /\ k + 1 < l /\ k + 1 \in 1..m /\ k + 1 < m
        /\ k + 1 \in 0..(j - 1)
    BY <1>1, <1>2, <1>5
  <2>2. s[k + 1] = t[k + 1]
    BY <1>3, <1>5
  <2>3. s[(k + 1) + 1] = up[s[k + 1]]
    BY <1>1, <2>1 DEF Path
  <2>4. t[(k + 1) + 1] = up[t[k + 1]]
    BY <1>1, <2>1 DEF Path
  <2> QED
    BY <1>3, <2>1, <2>2, <2>3, <2>4
<1>6. j - 1 \in Nat /\ j - 1 \in 0..(j - 1) /\ (j - 1) + 1 = j
  BY <1>1, <1>2
<1>7. 0..(j - 1) \subseteq T
  BY <1>4, <1>5, <1>6, Induction
<1> QED
  BY <1>3, <1>6, <1>7

\* A path of at most N steps is the beginning of the line.
LEMMA OnLine ==
  ASSUME NEW up, Ups(up), NEW c \in Nat, NEW s, Path(up, s), s[1] = c,
         Len(s) <= N + 1, NEW t, t = Line(up, c)
  PROVE  /\ Len(s) <= Len(t)
         /\ \A j \in 1..Len(s) : t[j] = s[j]
<1>1. PICK l, m : l = Len(s) /\ m = Len(t)
  OBVIOUS
<1>2. l \in Nat \ {0} /\ N \in Nat
  BY <1>1, PathFacts, ShapesAssumption
<1>3. /\ Path(up, t) /\ m \in Nat \ {0} /\ t[1] = c
      /\ m = N + 1 \/ ~HasUp(up, t[m])
  BY <1>1, LineFacts
<1>4. l <= m
  <2> SUFFICES ASSUME m < l PROVE FALSE
    BY <1>2, <1>3
  <2>1. m \in 1..l /\ m \in 1..m /\ m < l
    BY <1>2, <1>3
  <2>2. t[m] = s[m]
    BY <1>1, <1>3, <2>1, SamePath
  <2>3. HasUp(up, s[m])
    BY <1>1, <2>1 DEF Path
  <2>4. m = N + 1
    BY <1>3, <2>2, <2>3
  <2> QED
    BY <1>1, <1>2, <1>3, <2>4
<1>5. ASSUME NEW j \in 1..Len(s) PROVE t[j] = s[j]
  <2>1. j \in 1..Len(t) /\ j <= Len(s)
    BY <1>1, <1>2, <1>3, <1>4
  <2> QED
    BY <1>3, <2>1, SamePath
<1> QED
  BY <1>1, <1>4, <1>5

----------------------------------------------------------------------------
(***************************************************************************)
(* Lines that fall.  When every class follows its base the line of a class *)
(* comes to an end, and is the class followed by the line of its base.     *)
(***************************************************************************)

Falling(up) ==
  /\ DOMAIN up \subseteq Nat
  /\ \A c \in DOMAIN up : up[c] \in Nat /\ up[c] < c

LEMMA FallingUps == ASSUME NEW up, Falling(up) PROVE Ups(up)
  BY DEF Falling, Ups

LEMMA PathFalls ==
  ASSUME NEW up, Falling(up), NEW s, Path(up, s), s[1] \in Nat \ {0},
         NEW j \in 1..Len(s)
  PROVE  s[j] + j <= s[1] + 1 /\ s[j] \in Nat \ {0}
<1>1. PICK l : l = Len(s)
  OBVIOUS
<1>2. l \in Nat \ {0} /\ \A i \in 1..l : s[i] \in Nat
  BY <1>1, PathFacts
<1>3. PICK T : T = {k \in 0..(l - 1) : /\ s[k + 1] + k + 1 <= s[1] + 1
                                        /\ s[k + 1] # 0}
  OBVIOUS
<1>4. 0 \in T
  BY <1>2, <1>3
<1>5. ASSUME NEW k \in 0..(l - 1), k \in T, k < l - 1 PROVE k + 1 \in T
  <2>1. /\ k + 1 \in 1..l /\ k + 1 < l /\ k + 1 \in 0..(l - 1)
        /\ k + 2 \in 1..l
    BY <1>2, <1>5
  <2>2. HasUp(up, s[k + 1]) /\ s[(k + 1) + 1] = up[s[k + 1]]
    BY <1>1, <2>1 DEF Path
  <2>3. up[s[k + 1]] \in Nat /\ up[s[k + 1]] # 0 /\ up[s[k + 1]] < s[k + 1]
    BY <2>2 DEF HasUp, Falling
  <2>4. s[k + 1] + k + 1 <= s[1] + 1 /\ s[k + 1] \in Nat
    BY <1>2, <1>3, <1>5, <2>1
  <2>5. s[(k + 1) + 1] + (k + 1) + 1 <= s[1] + 1 /\ s[(k + 1) + 1] # 0
    <3>1. PICK u, v, w : u = s[k + 1] /\ v = s[(k + 1) + 1] /\ w = s[1]
      OBVIOUS
    <3>2. v \in Nat /\ v # 0 /\ v < u /\ u \in Nat /\ u + k + 1 <= w + 1
      BY <2>2, <2>3, <2>4, <3>1
    <3>3. w \in Nat /\ k \in Nat
      BY <1>5, <3>1
    <3>4. v + (k + 1) + 1 <= w + 1
      BY <3>2, <3>3
    <3> QED
      BY <3>1, <3>2, <3>4
  <2> QED
    BY <1>3, <2>1, <2>5
<1>6. l - 1 \in Nat /\ j - 1 \in 0..(l - 1) /\ (j - 1) + 1 = j
  BY <1>1, <1>2
<1>7. 0..(l - 1) \subseteq T
  BY <1>4, <1>5, <1>6, Induction
<1>8. s[j] + (j - 1) + 1 <= s[1] + 1 /\ s[j] # 0
  BY <1>3, <1>6, <1>7
<1> QED
  BY <1>1, <1>2, <1>8

\* A path that has come to its end is the line.
LEMMA EndedLine ==
  ASSUME NEW up, Ups(up), NEW c \in Nat, NEW s, Path(up, s), s[1] = c,
         Len(s) <= N + 1, ~HasUp(up, s[Len(s)])
  PROVE  Line(up, c) = s
<1>1. PICK t : t = Line(up, c)
  OBVIOUS
<1>2. PICK l, m : l = Len(s) /\ m = Len(t)
  OBVIOUS
<1>3. l <= m /\ \A j \in 1..l : t[j] = s[j]
  BY <1>1, <1>2, OnLine
<1>4. l \in Nat \ {0} /\ s \in Seq(Nat)
  BY <1>2, PathFacts
<1>5. Path(up, t) /\ t \in Seq(Nat) /\ m \in Nat \ {0}
  BY <1>1, <1>2, LineFacts
<1>6. l = m
  <2> SUFFICES ASSUME l < m PROVE FALSE
    BY <1>3, <1>4, <1>5
  <2>1. l \in 1..m /\ l \in 1..l
    BY <1>4, <1>5
  <2>2. HasUp(up, t[l])
    BY <1>2, <1>5, <2>1 DEF Path
  <2> QED
    BY <1>2, <1>3, <2>1, <2>2
<1>7. t = s
  BY <1>2, <1>3, <1>4, <1>5, <1>6, SeqEqual
<1> QED
  BY <1>1, <1>7

LEMMA LineEnds ==
  ASSUME NEW up, Falling(up), NEW c \in Classes, NEW s, s = Line(up, c)
  PROVE  /\ Path(up, s) /\ s \in Seq(Nat) /\ s[1] = c
         /\ Len(s) \in 1..c /\ DOMAIN s = 1..Len(s)
         /\ \A j \in 1..Len(s) : s[j] \in 1..c
         /\ ~HasUp(up, s[Len(s)])
<1>1. N \in Nat /\ c \in Nat \ {0} /\ c <= N
  BY ShapesAssumption DEF Classes
<1>2. PICK l : l = Len(s)
  OBVIOUS
<1>3. /\ Path(up, s) /\ s \in Seq(Nat) /\ l \in Nat \ {0}
      /\ s[1] = c /\ DOMAIN s = 1..l
      /\ l = N + 1 \/ ~HasUp(up, s[l])
  BY <1>1, <1>2, FallingUps, LineFacts
<1>4. ASSUME NEW j \in 1..l PROVE s[j] + j <= c + 1 /\ s[j] \in Nat \ {0}
  BY <1>1, <1>2, <1>3, PathFalls
<1>5. l \in 1..c
  <2>1. l \in 1..l
    BY <1>3
  <2>2. s[l] + l <= c + 1 /\ s[l] \in Nat \ {0}
    BY <1>4, <2>1
  <2> QED
    BY <1>1, <1>3, <2>2
<1>6. \A j \in 1..l : s[j] \in 1..c
  BY <1>1, <1>4
<1>7. l # N + 1
  BY <1>1, <1>5
<1> QED
  BY <1>2, <1>3, <1>5, <1>6, <1>7

LEMMA LineUnfolds ==
  ASSUME NEW up, Falling(up), NEW c \in Classes
  PROVE  /\ HasUp(up, c) => up[c] \in Classes /\ up[c] < c
         /\ HasUp(up, c) => Line(up, c) = <<c>> \o Line(up, up[c])
         /\ ~HasUp(up, c) => Line(up, c) = <<c>>
<1>1. N \in Nat /\ c \in Nat \ {0} /\ c <= N
  BY ShapesAssumption DEF Classes
<1>2. <<c>> \in Seq(Nat) /\ Len(<<c>>) = 1 /\ <<c>>[1] = c
  BY <1>1
<1>3. ASSUME ~HasUp(up, c) PROVE Line(up, c) = <<c>>
  <2>1. PICK s : s = <<c>>
    OBVIOUS
  <2>2. s \in Seq(Nat) /\ Len(s) = 1 /\ s[1] = c
    BY <1>2, <2>1
  <2>3. Path(up, s)
    BY <2>2 DEF Path
  <2>4. Len(s) <= N + 1 /\ ~HasUp(up, s[Len(s)])
    BY <1>1, <1>3, <2>2
  <2>5. Line(up, c) = s
    BY <1>1, <2>2, <2>3, <2>4, FallingUps, EndedLine
  <2> QED
    BY <2>1, <2>5
<1>4. ASSUME HasUp(up, c)
      PROVE  /\ up[c] \in Classes /\ up[c] < c
             /\ Line(up, c) = <<c>> \o Line(up, up[c])
  <2>1. PICK b : b = up[c]
    OBVIOUS
  <2>2. b \in Classes /\ b < c /\ b \in Nat
    BY <1>1, <1>4, <2>1 DEF HasUp, Falling, Classes
  <2>3. PICK t : t = Line(up, b)
    OBVIOUS
  <2>4. PICK m : m = Len(t)
    OBVIOUS
  <2>5. /\ Path(up, t) /\ t \in Seq(Nat) /\ t[1] = b
        /\ m \in 1..b /\ ~HasUp(up, t[m])
    BY <2>2, <2>3, <2>4, LineEnds
  <2>6. PICK s : s = <<c>> \o t
    OBVIOUS
  <2>7. /\ s \in Seq(Nat) /\ Len(s) = 1 + m
        /\ \A i \in 1..(1 + m) : s[i] = IF i <= 1 THEN <<c>>[i] ELSE t[i - 1]
    BY <1>2, <2>4, <2>5, <2>6, ConcatProperties
  <2>8. m \in Nat \ {0}
    BY <2>2, <2>5
  <2>9. s[1] = c /\ \A i \in 1..m : s[i + 1] = t[i]
    <3>1. s[1] = c
      BY <1>2, <2>7, <2>8
    <3>2. ASSUME NEW i \in 1..m PROVE s[i + 1] = t[i]
      <4>1. i + 1 \in 1..(1 + m) /\ ~(i + 1 <= 1) /\ (i + 1) - 1 = i
        BY <2>8
      <4> QED
        BY <2>7, <4>1
    <3> QED
      BY <3>1, <3>2
  <2>10. ASSUME NEW j \in 1..Len(s), j < Len(s)
         PROVE  HasUp(up, s[j]) /\ s[j + 1] = up[s[j]]
    <3>1. CASE j = 1
      <4>1. s[1 + 1] = t[1]
        BY <2>8, <2>9
      <4> QED
        BY <1>4, <2>1, <2>5, <2>9, <3>1, <4>1
    <3>2. CASE j # 1
      <4>1. j - 1 \in 1..m /\ j - 1 < m /\ (j - 1) + 1 = j /\ j \in 1..m
        BY <2>7, <2>8, <2>10, <3>2
      <4>2. s[j] = t[j - 1] /\ s[j + 1] = t[j]
        BY <2>9, <4>1
      <4>3. HasUp(up, t[j - 1]) /\ t[(j - 1) + 1] = up[t[j - 1]]
        BY <2>4, <2>5, <4>1 DEF Path
      <4> QED
        BY <4>1, <4>2, <4>3
    <3> QED
      BY <3>1, <3>2
  <2>11. Path(up, s)
    BY <2>7, <2>8, <2>10 DEF Path
  <2>12. Len(s) <= N + 1
    BY <1>1, <2>2, <2>5, <2>7, <2>8
  <2>13. s[Len(s)] = t[m]
    <3>1. m \in 1..m /\ m + 1 = 1 + m
      BY <2>8
    <3> QED
      BY <2>7, <2>9, <3>1
  <2>14. ~HasUp(up, s[Len(s)])
    BY <2>5, <2>13
  <2>15. Line(up, c) = s
    BY <1>1, <2>9, <2>11, <2>12, <2>14, FallingUps, EndedLine
  <2> QED
    BY <2>1, <2>2, <2>3, <2>6, <2>15
<1> QED
  BY <1>3, <1>4

\* A class in front of a line.
LEMMA InFront ==
  ASSUME NEW c \in Nat, NEW t \in Seq(Nat), NEW s, s = <<c>> \o t
  PROVE  /\ s \in Seq(Nat) /\ Len(t) \in Nat /\ Len(s) = Len(t) + 1
         /\ DOMAIN s = 1..Len(s) /\ DOMAIN t = 1..Len(t)
         /\ s[1] = c
         /\ \A i \in 1..Len(t) : s[i + 1] = t[i]
         /\ \A j \in 1..Len(s) : j = 1 \/ (j - 1 \in 1..Len(t) /\ s[j] = t[j - 1])
         /\ ToSet(s) = {c} \cup ToSet(t)
<1>1. PICK m : m = Len(t)
  OBVIOUS
<1>2. m \in Nat /\ DOMAIN t = 1..m
  BY <1>1, LenProperties
<1>3. <<c>> \in Seq(Nat) /\ Len(<<c>>) = 1 /\ <<c>>[1] = c
  OBVIOUS
<1>4. /\ s \in Seq(Nat) /\ Len(s) = 1 + m
      /\ \A i \in 1..(1 + m) : s[i] = IF i <= 1 THEN <<c>>[i] ELSE t[i - 1]
  BY <1>1, <1>3, ConcatProperties
<1>5. DOMAIN s = 1..Len(s)
  BY <1>4, LenProperties
<1>6. s[1] = c
  BY <1>2, <1>3, <1>4
<1>7. ASSUME NEW i \in 1..m PROVE s[i + 1] = t[i]
  <2>1. i + 1 \in 1..(1 + m) /\ ~(i + 1 <= 1) /\ (i + 1) - 1 = i
    BY <1>2
  <2> QED
    BY <1>4, <2>1
<1>8. ASSUME NEW j \in 1..Len(s), j # 1
      PROVE  j - 1 \in 1..m /\ s[j] = t[j - 1]
  <2>1. j - 1 \in 1..m /\ j \in 1..(1 + m) /\ ~(j <= 1)
    BY <1>2, <1>4, <1>8
  <2> QED
    BY <1>4, <2>1
<1>9. ToSet(s) = {c} \cup ToSet(t)
  <2>1. ASSUME NEW x \in ToSet(s) PROVE x \in {c} \cup ToSet(t)
    <3>1. PICK j \in 1..Len(s) : x = s[j]
      BY <1>5 DEF ToSet
    <3>2. CASE j = 1
      BY <1>6, <3>1, <3>2
    <3>3. CASE j # 1
      BY <1>2, <1>8, <3>1, <3>3 DEF ToSet
    <3> QED
      BY <3>2, <3>3
  <2>2. c \in ToSet(s)
    <3>1. 1 \in DOMAIN s
      BY <1>2, <1>4, <1>5
    <3> QED
      BY <1>6, <3>1 DEF ToSet
  <2>3. ASSUME NEW x \in ToSet(t) PROVE x \in ToSet(s)
    <3>1. PICK i \in 1..m : x = t[i]
      BY <1>2 DEF ToSet
    <3>2. i + 1 \in DOMAIN s
      BY <1>2, <1>4, <1>5
    <3> QED
      BY <1>7, <3>1, <3>2 DEF ToSet
  <2> QED
    BY <2>1, <2>2, <2>3
<1>10. Len(s) = Len(t) + 1
  BY <1>1, <1>2, <1>4
<1> QED
  BY <1>1, <1>2, <1>4, <1>5, <1>6, <1>7, <1>8, <1>9, <1>10

\* What passes on from the classes before a class to the class holds of all.
LEMMA ClassInduction ==
  ASSUME NEW T,
         \A c \in Classes : (\A b \in Classes : b < c => b \in T) => c \in T
  PROVE  Classes \subseteq T
<1> SUFFICES ASSUME NEW d \in Classes, d \notin T PROVE FALSE
  OBVIOUS
<1>1. PICK B : B = {c \in Classes : c \notin T}
  OBVIOUS
<1>2. N \in Nat /\ Classes \subseteq Nat
  BY ShapesAssumption DEF Classes
<1>3. B \in SUBSET Nat /\ B # {}
  BY <1>1, <1>2
<1>4. PICK c \in B : \A b \in B : c <= b
  BY <1>3, LeastNumber
<1>5. c \in Classes /\ c \notin T
  BY <1>1
<1>6. \A b \in Classes : b < c => b \in T
  BY <1>1, <1>2, <1>4, <1>5
<1> QED
  BY <1>5, <1>6

LEMMA AncestorsUnfold ==
  ASSUME NEW up, Falling(up), NEW c \in Classes
  PROVE  /\ HasUp(up, c) => Ancestors(up, c) = {c} \cup Ancestors(up, up[c])
         /\ ~HasUp(up, c) => Ancestors(up, c) = {c}
<1>1. N \in Nat /\ c \in Nat
  BY ShapesAssumption DEF Classes
<1>2. ASSUME HasUp(up, c)
      PROVE  Ancestors(up, c) = {c} \cup Ancestors(up, up[c])
  <2>1. PICK b, t : b = up[c] /\ t = Line(up, b)
    OBVIOUS
  <2>2. b \in Classes /\ Line(up, c) = <<c>> \o t
    BY <1>2, <2>1, LineUnfolds
  <2>3. t \in Seq(Nat)
    BY <2>1, <2>2, LineEnds
  <2>4. ToSet(<<c>> \o t) = {c} \cup ToSet(t)
    BY <1>1, <2>3, InFront
  <2> QED
    BY <2>1, <2>2, <2>4 DEF Ancestors
<1>3. ASSUME ~HasUp(up, c) PROVE Ancestors(up, c) = {c}
  <2>1. Line(up, c) = <<c>>
    BY <1>3, LineUnfolds
  <2>2. ToSet(<<c>>) = {c}
    BY DEF ToSet
  <2> QED
    BY <2>1, <2>2 DEF Ancestors
<1> QED
  BY <1>2, <1>3

LEMMA AncestorsFacts ==
  ASSUME NEW up, Falling(up), NEW c \in Classes
  PROVE  /\ c \in Ancestors(up, c) /\ Ancestors(up, c) \subseteq 1..c
         /\ \A a \in Ancestors(up, c) :
              a \in Classes /\ a <= c /\ Ancestors(up, a) \subseteq Ancestors(up, c)
<1>1. PICK T : T = {x \in Classes : \A a \in Ancestors(up, x) :
                                      Ancestors(up, a) \subseteq Ancestors(up, x)}
  OBVIOUS
<1>2. ASSUME NEW x \in Classes PROVE x \in Ancestors(up, x)
  BY <1>2, AncestorsUnfold
<1>3. ASSUME NEW x \in Classes PROVE Ancestors(up, x) \subseteq 1..x
  <2>1. PICK s : s = Line(up, x)
    OBVIOUS
  <2>2. DOMAIN s = 1..Len(s) /\ \A j \in 1..Len(s) : s[j] \in 1..x
    BY <2>1, LineEnds
  <2> QED
    BY <2>1, <2>2 DEF Ancestors, ToSet
<1>4. ASSUME NEW x \in Classes, \A b \in Classes : b < x => b \in T
      PROVE  x \in T
  <2>1. CASE ~HasUp(up, x)
    <3>1. Ancestors(up, x) = {x}
      BY <2>1, AncestorsUnfold
    <3> QED
      BY <1>1, <3>1
  <2>2. CASE HasUp(up, x)
    <3>1. PICK b : b = up[x]
      OBVIOUS
    <3>2. b \in Classes /\ b < x
      BY <2>2, <3>1, LineUnfolds
    <3>3. Ancestors(up, x) = {x} \cup Ancestors(up, b)
      BY <2>2, <3>1, AncestorsUnfold
    <3>4. \A a \in Ancestors(up, b) : Ancestors(up, a) \subseteq Ancestors(up, b)
      BY <1>1, <1>4, <3>2
    <3>5. ASSUME NEW a \in Ancestors(up, x)
          PROVE  Ancestors(up, a) \subseteq Ancestors(up, x)
      <4>1. CASE a = x
        BY <4>1
      <4>2. CASE a \in Ancestors(up, b)
        BY <3>3, <3>4, <4>2
      <4> QED
        BY <3>3, <4>1, <4>2
    <3> QED
      BY <1>1, <3>5
  <2> QED
    BY <2>1, <2>2
<1>5. Classes \subseteq T
  BY <1>4, ClassInduction
<1>6. \A a \in Ancestors(up, c) : Ancestors(up, a) \subseteq Ancestors(up, c)
  BY <1>1, <1>5
<1>7. \A a \in Ancestors(up, c) : a \in Classes /\ a <= c
  <2>1. N \in Nat /\ c \in 1..N
    BY ShapesAssumption DEF Classes
  <2>2. \A a \in 1..c : a \in 1..N /\ a <= c
    BY <2>1
  <2> QED
    BY <1>3, <2>2 DEF Classes
<1> QED
  BY <1>2, <1>3, <1>6, <1>7

\* Later classes of a line are proper ancestors of earlier ones.
LEMMA LineOrder ==
  ASSUME NEW up, Falling(up), NEW c \in Classes, NEW s, s = Line(up, c),
         NEW j \in 1..Len(s), NEW k \in 1..Len(s), j < k
  PROVE  s[k] \in Ancestors(up, s[j]) \ {s[j]}
<1>0. N \in Nat /\ Classes \subseteq Nat
  BY ShapesAssumption DEF Classes
<1>1. PICK T : T = {x \in Classes : \A p, q \in 1..Len(Line(up, x)) : p < q =>
          Line(up, x)[q] \in Ancestors(up, Line(up, x)[p]) \ {Line(up, x)[p]}}
  OBVIOUS
<1>2. ASSUME NEW x \in Classes, \A b \in Classes : b < x => b \in T
      PROVE  x \in T
  <2>1. PICK r : r = Line(up, x)
    OBVIOUS
  <2>2. r \in Seq(Nat) /\ Len(r) \in 1..x
    BY <2>1, LineEnds
  <2>3. CASE ~HasUp(up, x)
    <3>1. r = <<x>>
      BY <2>1, <2>3, LineUnfolds
    <3>2. Len(r) = 1
      BY <3>1
    <3>3. \A p, q \in 1..Len(r) : ~(p < q)
      BY <3>2
    <3> QED
      BY <1>1, <2>1, <3>3
  <2>4. CASE HasUp(up, x)
    <3>1. PICK b, t : b = up[x] /\ t = Line(up, b)
      OBVIOUS
    <3>2. b \in Classes /\ b < x /\ r = <<x>> \o t
      BY <2>1, <2>4, <3>1, LineUnfolds
    <3>3. /\ t \in Seq(Nat) /\ DOMAIN t = 1..Len(t)
          /\ \A i \in 1..Len(t) : t[i] \in 1..b
      BY <3>1, <3>2, LineEnds
    <3>4. /\ r[1] = x /\ Len(t) \in Nat
          /\ \A i \in 1..Len(r) : i = 1 \/ (i - 1 \in 1..Len(t) /\ r[i] = t[i - 1])
      BY <1>0, <3>2, <3>3, InFront
    <3>5. ASSUME NEW p \in 1..Len(r), NEW q \in 1..Len(r), p < q
          PROVE  r[q] \in Ancestors(up, r[p]) \ {r[p]}
      <4>1. q - 1 \in 1..Len(t) /\ r[q] = t[q - 1]
        BY <2>2, <3>4, <3>5
      <4>2. CASE p = 1
        <5>1. t[q - 1] \in Ancestors(up, b)
          BY <3>1, <3>3, <4>1 DEF Ancestors, ToSet
        <5>2. t[q - 1] \in Ancestors(up, x)
          BY <2>4, <3>1, <5>1, AncestorsUnfold
        <5>3. t[q - 1] # x
          <6>1. t[q - 1] \in 1..b
            BY <3>3, <4>1
          <6>2. b \in Nat /\ x \in Nat
            BY <1>0, <3>2
          <6> QED
            BY <3>2, <6>1, <6>2
        <5> QED
          BY <3>4, <4>1, <4>2, <5>2, <5>3
      <4>3. CASE p # 1
        <5>1. p - 1 \in 1..Len(t) /\ r[p] = t[p - 1]
          BY <3>4, <4>3
        <5>5. p - 1 < q - 1
          <6>1. x \in Nat /\ Len(r) \in Nat
            BY <1>0, <2>2
          <6> QED
            BY <3>5, <6>1
        <5>2. b \in T
          BY <1>2, <3>2
        <5>3. \A i, n \in 1..Len(t) : i < n => t[n] \in Ancestors(up, t[i]) \ {t[i]}
          BY <1>1, <3>1, <5>2
        <5>4. t[q - 1] \in Ancestors(up, t[p - 1]) \ {t[p - 1]}
          BY <4>1, <5>1, <5>3, <5>5
        <5> QED
          BY <4>1, <5>1, <5>4
      <4> QED
        BY <4>2, <4>3
    <3> QED
      BY <1>1, <2>1, <3>5
  <2> QED
    BY <2>3, <2>4
<1>3. Classes \subseteq T
  BY <1>2, ClassInduction
<1> QED
  BY <1>1, <1>3

\* The line depends on nothing but the bases of the classes up to it.
LEMMA LineOfPart ==
  ASSUME NEW up, NEW vp, Falling(up), Falling(vp), NEW c \in Classes,
         \A x \in 1..c : /\ HasUp(up, x) <=> HasUp(vp, x)
                         /\ HasUp(up, x) => up[x] = vp[x]
  PROVE  Line(up, c) = Line(vp, c)
<1>1. N \in Nat /\ c \in 1..N
  BY ShapesAssumption DEF Classes
<1>2. PICK T : T = {x \in Classes : x <= c => Line(up, x) = Line(vp, x)}
  OBVIOUS
<1>3. ASSUME NEW x \in Classes, \A b \in Classes : b < x => b \in T
      PROVE  x \in T
  <2> SUFFICES ASSUME x <= c PROVE Line(up, x) = Line(vp, x)
    BY <1>2
  <2>1. x \in 1..c
    BY <1>1 DEF Classes
  <2>2. CASE ~HasUp(up, x)
    <3>1. ~HasUp(vp, x)
      BY <2>1, <2>2
    <3>2. Line(up, x) = <<x>>
      BY <2>2, LineUnfolds
    <3>3. Line(vp, x) = <<x>>
      BY <3>1, LineUnfolds
    <3> QED
      BY <3>2, <3>3
  <2>3. CASE HasUp(up, x)
    <3>1. HasUp(vp, x) /\ up[x] = vp[x]
      BY <2>1, <2>3
    <3>2. /\ up[x] \in Classes /\ up[x] < x
          /\ Line(up, x) = <<x>> \o Line(up, up[x])
      BY <2>3, LineUnfolds
    <3>3. Line(vp, x) = <<x>> \o Line(vp, vp[x])
      BY <3>1, LineUnfolds
    <3>4. up[x] \in T
      BY <1>3, <3>2
    <3>5. up[x] <= c
      BY <1>1, <2>1, <3>2 DEF Classes
    <3>6. Line(up, up[x]) = Line(vp, up[x])
      BY <1>2, <3>4, <3>5
    <3> QED
      BY <3>1, <3>2, <3>3, <3>6
  <2> QED
    BY <2>2, <2>3
<1>4. Classes \subseteq T
  BY <1>3, ClassInduction
<1> QED
  BY <1>1, <1>2, <1>4

\* The first class of a line that is in a set, or 0.
FirstIn(line, S) ==
  LET having == {k \in DOMAIN line : line[k] \in S}
  IN IF having = {} THEN 0 ELSE line[CHOOSE k \in having : \A j \in having : k <= j]

LEMMA FirstInOne ==
  ASSUME NEW c, NEW S
  PROVE  FirstIn(<<c>>, S) = IF c \in S THEN c ELSE 0
<1>1. DOMAIN <<c>> = {1} /\ <<c>>[1] = c
  OBVIOUS
<1>2. PICK H : H = {k \in DOMAIN <<c>> : <<c>>[k] \in S}
  OBVIOUS
<1>3. FirstIn(<<c>>, S) =
        IF H = {} THEN 0 ELSE <<c>>[CHOOSE k \in H : \A j \in H : k <= j]
  BY <1>2 DEF FirstIn
<1>4. CASE c \in S
  <2>1. H = {1}
    BY <1>1, <1>2, <1>4
  <2>2. (CHOOSE k \in H : \A j \in H : k <= j) = 1
    BY <2>1
  <2> QED
    BY <1>1, <1>3, <1>4, <2>1, <2>2
<1>5. CASE c \notin S
  <2>1. H = {}
    BY <1>1, <1>2, <1>5
  <2> QED
    BY <1>3, <1>5, <2>1
<1> QED
  BY <1>4, <1>5

LEMMA FirstInFront ==
  ASSUME NEW c \in Nat, NEW t \in Seq(Nat), NEW S
  PROVE  FirstIn(<<c>> \o t, S) = IF c \in S THEN c ELSE FirstIn(t, S)
<1>1. PICK s : s = <<c>> \o t
  OBVIOUS
<1>2. PICK m : m = Len(t)
  OBVIOUS
<1>3. /\ m \in Nat /\ Len(s) = m + 1 /\ DOMAIN s = 1..(m + 1) /\ DOMAIN t = 1..m
      /\ s[1] = c /\ \A i \in 1..m : s[i + 1] = t[i]
      /\ \A j \in 1..(m + 1) : j = 1 \/ (j - 1 \in 1..m /\ s[j] = t[j - 1])
  BY <1>1, <1>2, InFront
<1>4. PICK H : H = {k \in DOMAIN s : s[k] \in S}
  OBVIOUS
<1>5. PICK G : G = {k \in DOMAIN t : t[k] \in S}
  OBVIOUS
<1>6. FirstIn(s, S) = IF H = {} THEN 0 ELSE s[CHOOSE k \in H : \A j \in H : k <= j]
  BY <1>4 DEF FirstIn
<1>7. FirstIn(t, S) = IF G = {} THEN 0 ELSE t[CHOOSE k \in G : \A j \in G : k <= j]
  BY <1>5 DEF FirstIn
<1>8. H \in SUBSET Nat /\ G \in SUBSET Nat
  BY <1>3, <1>4, <1>5
<1>9. CASE c \in S
  <2>1. 1 \in H /\ \A j \in H : 1 <= j
    BY <1>3, <1>4, <1>9
  <2>2. \A k \in H : (\A j \in H : k <= j) => k = 1
    BY <1>8, <2>1
  <2>3. (CHOOSE k \in H : \A j \in H : k <= j) = 1
    BY <2>1, <2>2
  <2> QED
    BY <1>1, <1>3, <1>6, <1>9, <2>1, <2>3
<1>10. CASE c \notin S
  <2>1. ASSUME NEW k \in G PROVE k + 1 \in H
    BY <1>3, <1>4, <1>5
  <2>2. ASSUME NEW k \in H PROVE k - 1 \in G
    BY <1>3, <1>4, <1>5, <1>10
  <2>3. CASE G = {}
    <3>1. H = {}
      BY <2>2, <2>3
    <3> QED
      BY <1>1, <1>6, <1>7, <1>10, <2>3, <3>1
  <2>4. CASE G # {}
    <3>1. PICK g \in G : \A j \in G : g <= j
      BY <1>8, <2>4, LeastNumber
    <3>2. \A k \in G : (\A j \in G : k <= j) => k = g
      BY <1>8, <3>1
    <3>3. (CHOOSE k \in G : \A j \in G : k <= j) = g
      BY <3>1, <3>2
    <3>4. g \in Nat /\ g + 1 \in H
      BY <1>8, <2>1, <3>1
    <3>5. \A j \in H : g + 1 <= j
      BY <1>8, <2>2, <3>1, <3>4
    <3>6. \A k \in H : (\A j \in H : k <= j) => k = g + 1
      BY <1>8, <3>4, <3>5
    <3>7. (CHOOSE k \in H : \A j \in H : k <= j) = g + 1
      BY <3>4, <3>5, <3>6
    <3>8. g \in 1..m
      BY <1>3, <1>5, <3>1
    <3>9. FirstIn(s, S) = s[g + 1]
      BY <1>6, <3>4, <3>7
    <3>10. FirstIn(t, S) = t[g]
      BY <1>7, <2>4, <3>3
    <3> QED
      BY <1>1, <1>3, <1>10, <3>8, <3>9, <3>10
  <2> QED
    BY <2>3, <2>4
<1> QED
  BY <1>9, <1>10

\* The classes analyzed so far that declare a method.
Having(m) == {c \in Nat : c <= Analyzed /\ m \in Declared(c)}

LEMMA NearestIsFirst ==
  ASSUME NEW up, Falling(up), NEW c \in Classes, NEW m
  PROVE  Nearest(up, c, m) = FirstIn(Line(up, c), Having(m))
<1>1. PICK s : s = Line(up, c)
  OBVIOUS
<1>2. DOMAIN s = 1..Len(s) /\ \A j \in 1..Len(s) : s[j] \in 1..c
  BY <1>1, LineEnds
<1>3. \A j \in DOMAIN s : s[j] \in Nat
  BY <1>2
<1>4. {k \in DOMAIN s : s[k] <= Analyzed /\ m \in Declared(s[k])}
        = {k \in DOMAIN s : s[k] \in Having(m)}
  BY <1>3 DEF Having
<1>5. PICK H : H = {k \in DOMAIN s : s[k] <= Analyzed /\ m \in Declared(s[k])}
  OBVIOUS
<1>6. Nearest(up, c, m)
        = IF H = {} THEN 0 ELSE s[CHOOSE k \in H : \A j \in H : k <= j]
  BY <1>1, <1>5 DEF Nearest
<1>7. PICK G : G = {k \in DOMAIN s : s[k] \in Having(m)}
  OBVIOUS
<1>8. FirstIn(s, Having(m))
        = IF G = {} THEN 0 ELSE s[CHOOSE k \in G : \A j \in G : k <= j]
  BY <1>7 DEF FirstIn
<1>9. G = H
  BY <1>4, <1>5, <1>7
<1> QED
  BY <1>1, <1>6, <1>8, <1>9

\* The method lookup of a class is that of its base but for its own methods.
LEMMA NearestUnfolds ==
  ASSUME NEW up, Falling(up), NEW c \in Classes, NEW m
  PROVE  /\ c \in Having(m) => Nearest(up, c, m) = c
         /\ c \notin Having(m) /\ HasUp(up, c)
              => Nearest(up, c, m) = Nearest(up, up[c], m)
         /\ c \notin Having(m) /\ ~HasUp(up, c) => Nearest(up, c, m) = 0
<1>1. Nearest(up, c, m) = FirstIn(Line(up, c), Having(m))
  BY NearestIsFirst
<1>2. N \in Nat /\ c \in Nat
  BY ShapesAssumption DEF Classes
<1>3. CASE HasUp(up, c)
  <2>1. PICK b : b = up[c]
    OBVIOUS
  <2>2. b \in Classes /\ Line(up, c) = <<c>> \o Line(up, b)
    BY <1>3, <2>1, LineUnfolds
  <2>3. Nearest(up, b, m) = FirstIn(Line(up, b), Having(m))
    BY <2>2, NearestIsFirst
  <2>4. Line(up, b) \in Seq(Nat)
    BY <2>2, LineEnds
  <2>5. FirstIn(<<c>> \o Line(up, b), Having(m))
          = IF c \in Having(m) THEN c ELSE FirstIn(Line(up, b), Having(m))
    BY <1>2, <2>4, FirstInFront
  <2> QED
    BY <1>1, <1>3, <2>1, <2>2, <2>3, <2>5
<1>4. CASE ~HasUp(up, c)
  <2>1. Line(up, c) = <<c>>
    BY <1>4, LineUnfolds
  <2>2. FirstIn(<<c>>, Having(m)) = IF c \in Having(m) THEN c ELSE 0
    BY FirstInOne
  <2> QED
    BY <1>1, <1>4, <2>1, <2>2
<1> QED
  BY <1>3, <1>4

----------------------------------------------------------------------------
(***************************************************************************)
(* Sets in sequences.                                                      *)
(***************************************************************************)

LEMMA ImageFinite ==
  ASSUME NEW S, IsFiniteSet(S), NEW f, NEW T, T = {f[x] : x \in S}
  PROVE  IsFiniteSet(T) /\ Cardinality(T) <= Cardinality(S)
<1>1. PICK g : g = [x \in S |-> f[x]]
  OBVIOUS
<1>2. g \in Surjection(S, T)
  BY <1>1 DEF Surjection
<1> QED
  BY <1>2, FS_Surjection

LEMMA SetInSequence ==
  ASSUME NEW S, IsFiniteSet(S), NEW s, s = SetToSeq(S)
  PROVE  /\ s \in Seq(S) /\ Len(s) = Cardinality(S) /\ Len(s) \in Nat
         /\ DOMAIN s = 1..Len(s)
         /\ \A x \in S : \E k \in 1..Len(s) : s[k] = x
<1>1. PICK n : n = Cardinality(S)
  OBVIOUS
<1>2. n \in Nat /\ ExistsBijection(1..n, S)
  BY <1>1, FS_CardinalityType
<1>3. \E f \in [1..n -> S] : IsInjective(f)
  BY <1>2 DEF ExistsBijection, Bijection, Injection
<1>4. s \in [1..n -> S] /\ IsInjective(s)
  BY <1>1, <1>3 DEF SetToSeq
<1>5. s \in Seq(S) /\ Len(s) = n
  BY <1>2, <1>4
<1>6. s \in Injection(1..n, S)
  BY <1>4 DEF Injection
<1>7. IsFiniteSet(1..n) /\ Cardinality(1..n) = n
  <2>1. n \in Int /\ 1 \in Int /\ (IF 1 > n THEN 0 ELSE n - 1 + 1) = n
    BY <1>2
  <2> QED
    BY <2>1, FS_Interval
<1>8. s \in Surjection(1..n, S)
  BY <1>1, <1>6, <1>7, FS_Injection
<1>9. \A x \in S : \E k \in 1..n : s[k] = x
  BY <1>8 DEF Surjection
<1> QED
  BY <1>1, <1>2, <1>4, <1>5, <1>9

LEMMA ElementsFinite ==
  ASSUME NEW S, NEW s \in Seq(S)
  PROVE  IsFiniteSet(ToSet(s)) /\ ToSet(s) \subseteq S
<1>1. DOMAIN s = 1..Len(s) /\ Len(s) \in Nat /\ \A i \in 1..Len(s) : s[i] \in S
  BY LenProperties, ElementOfSeq
<1>2. IsFiniteSet(1..Len(s))
  BY <1>1, FS_Interval
<1>3. PICK D : D = DOMAIN s
  OBVIOUS
<1>4. ToSet(s) = {s[i] : i \in D}
  BY <1>3 DEF ToSet
<1>5. IsFiniteSet(D)
  BY <1>1, <1>2, <1>3
<1> QED
  BY <1>1, <1>3, <1>4, <1>5, ImageFinite

Names == STRING \ {"~"}

LEMMA MethodsFinite ==
  ASSUME NEW I \in SUBSET Interfaces, NEW W, W = UNION {ToSet(Members[i]) : i \in I}
  PROVE  IsFiniteSet(W) /\ W \subseteq Names
<1>1. IsFiniteSet(I)
  BY InterfacesAssumption, FS_Subset
<1>2. PICK f : f = [i \in I |-> ToSet(Members[i])]
  OBVIOUS
<1>3. PICK F : F = {f[i] : i \in I}
  OBVIOUS
<1>4. ASSUME NEW i \in I PROVE IsFiniteSet(f[i]) /\ f[i] \subseteq Names
  <2>1. Members[i] \in Seq(Names)
    BY InterfacesAssumption DEF Names
  <2>2. f[i] = ToSet(Members[i])
    BY <1>2
  <2> QED
    BY <2>1, <2>2, ElementsFinite
<1>5. IsFiniteSet(F)
  BY <1>1, <1>3, ImageFinite
<1>6. \A T \in F : IsFiniteSet(T) /\ T \subseteq Names
  BY <1>3, <1>4
<1>7. IsFiniteSet(UNION F)
  BY <1>5, <1>6, FS_UNION
<1>8. W = UNION F
  BY <1>2, <1>3
<1> QED
  BY <1>6, <1>7, <1>8

Method == [name : Names, kind : Kinds]
Declaration ==
  [methods : Seq(Method), interfaces : SUBSET Interfaces,
   destructor : {"none", "plain", "virtual"}]

LEMMA DeclarationsTyped == Declarations \subseteq Declaration
  BY DeclarationsAssumption DEF Declaration, Method, Names

LEMMA AddedTyped ==
  ASSUME NEW d \in Declarations, NEW b
  PROVE  Added(d, b) \in Seq(Method)
<1>1. PICK A : A = UNION {ToSet(Members[i]) : i \in d.interfaces}
  OBVIOUS
<1>2. d.interfaces \in SUBSET Interfaces
  BY DeclarationsTyped DEF Declaration
<1>3. IsFiniteSet(A) /\ A \subseteq Names
  BY <1>1, <1>2, MethodsFinite
<1>4. PICK own : own = {d.methods[k].name : k \in DOMAIN d.methods}
  OBVIOUS
<1>5. PICK W : W = {w \in A \cap Defaults : w \notin own /\ ~Inherits(b, w)}
  OBVIOUS
<1>6. IsFiniteSet(W) /\ W \subseteq Names
  BY <1>3, <1>5, FS_Subset
<1>7. PICK f : f = [m \in W |-> [name |-> m, kind |-> "plain"]]
  OBVIOUS
<1>8. PICK R : R = {f[m] : m \in W}
  OBVIOUS
<1>9. IsFiniteSet(R)
  BY <1>6, <1>8, ImageFinite
<1>10. R \subseteq Method
  BY <1>6, <1>7, <1>8 DEF Method, Kinds
<1>11. R = {[name |-> m, kind |-> "plain"] : m \in W}
  BY <1>7, <1>8
<1>12. Added(d, b) = SetToSeq(R)
  BY <1>1, <1>4, <1>5, <1>11 DEF Added
<1>13. SetToSeq(R) \in Seq(R)
  BY <1>9, SetInSequence
<1> QED
  BY <1>10, <1>12, <1>13, SeqMonotonic

----------------------------------------------------------------------------
(***************************************************************************)
(* What the analyzer leaves behind.                                        *)
(***************************************************************************)

Analysis ==
  /\ base \in Shapes /\ rejected \in BOOLEAN
  /\ decl \in Seq(Declaration) /\ Len(decl) <= N
  /\ extends \in Seq(0..N) /\ Len(extends) = Len(decl)
  /\ \A c \in 1..Len(decl) :
       extends[c] \in {0, base[c]} /\ (~rejected => extends[c] = base[c])

\* A class whose base has a destructor has one.
Heirs ==
  BasesFirst /\ ~rejected =>
    \A c \in 1..Len(decl) :
      base[c] # 0 /\ decl[base[c]].destructor # "none" => decl[c].destructor # "none"

IsSequence(s) == \E S : s \in Seq(S)

Generation ==
  /\ IsSequence(slots) /\ IsSequence(vtable) /\ IsSequence(layout)
  /\ Len(slots) = Len(layout) /\ Len(vtable) = Len(layout)
  /\ Len(layout) <= Len(decl)
  /\ Len(layout) > 0 => Len(decl) = N /\ ~rejected
  /\ withTable \subseteq 1..Len(layout)

LEMMA Appended ==
  ASSUME NEW s, IsSequence(s), NEW x, NEW t, t = Append(s, x)
  PROVE  /\ IsSequence(t) /\ Len(s) \in Nat /\ Len(t) = Len(s) + 1
         /\ t[Len(s) + 1] = x /\ \A i \in 1..Len(s) : t[i] = s[i]
<1>1. PICK S : s \in Seq(S)
  BY DEF IsSequence
<1>2. PICK T : T = S \cup {x}
  OBVIOUS
<1>3. s \in Seq(T) /\ x \in T
  BY <1>1, <1>2, SeqMonotonic
<1>4. /\ t \in Seq(T) /\ Len(t) = Len(s) + 1
      /\ t[Len(s) + 1] = x /\ \A i \in 1..Len(s) : t[i] = s[i]
  BY <1>3, AppendProperties
<1>5. Len(s) \in Nat
  BY <1>1, LenProperties
<1> QED
  BY <1>4, <1>5 DEF IsSequence

LEMMA AnalyzeStep ==
  ASSUME Analysis, NEW d \in Declarations, AnalyzeClass(d)
  PROVE  \E b \in {0, base[Len(decl) + 1]} : \E r \in Declaration :
           /\ Len(decl) < N
           /\ r.destructor = DestructorOf(d, b)
           /\ decl' = Append(decl, r) /\ extends' = Append(extends, b)
           /\ b = 0 \/ ~Circular(Len(decl) + 1, b)
           /\ rejected' \in BOOLEAN
           /\ ~rejected' => ~rejected /\ b = base[Len(decl) + 1]
           /\ UNCHANGED <<base, slots, vtable, layout, withTable>>
<1>1. PICK c : c = Len(decl) + 1
  OBVIOUS
<1>2. PICK b : b = IF base[c] # 0 /\ Circular(c, base[c]) THEN 0 ELSE base[c]
  OBVIOUS
<1>3. PICK methods : methods = d.methods \o Added(d, b)
  OBVIOUS
<1>4. PICK r : r = [methods |-> methods, interfaces |-> d.interfaces,
                    destructor |-> DestructorOf(d, b)]
  OBVIOUS
<1>5. /\ Len(decl) < N
      /\ decl' = Append(decl, r) /\ extends' = Append(extends, b)
      /\ rejected' = (rejected \/ b # base[c]
                        \/ Unimplemented(methods, d.interfaces, b) # {})
      /\ UNCHANGED <<base, slots, vtable, layout, withTable>>
  BY <1>1, <1>2, <1>3, <1>4 DEF AnalyzeClass, Analyzed
<1>6. d \in Declaration
  BY DeclarationsTyped
<1>7. methods \in Seq(Method)
  BY <1>3, <1>6, AddedTyped, ConcatProperties DEF Declaration
<1>8. DestructorOf(d, b) \in {"none", "plain", "virtual"}
  BY <1>6 DEF DestructorOf, Declaration
<1>9. r \in Declaration /\ r.destructor = DestructorOf(d, b)
  BY <1>4, <1>6, <1>7, <1>8 DEF Declaration
<1>10. b \in {0, base[c]} /\ (b = 0 \/ ~Circular(c, b))
  BY <1>2
<1>11. rejected' \in BOOLEAN /\ (~rejected' => ~rejected /\ b = base[c])
  BY <1>5 DEF Analysis
<1> QED
  BY <1>1, <1>5, <1>9, <1>10, <1>11

LEMMA AnalysisInit == ASSUME Init PROVE Analysis
<1>1. /\ <<>> \in Seq(Declaration) /\ Len(<<>>) = 0 /\ 1..0 = {}
      /\ <<>> \in Seq(0..N)
  OBVIOUS
<1>2. N \in Nat
  BY ShapesAssumption
<1>3. /\ base \in Shapes /\ rejected \in BOOLEAN
      /\ decl \in Seq(Declaration) /\ extends \in Seq(0..N)
      /\ Len(decl) = 0 /\ Len(extends) = 0
  BY <1>1 DEF Init
<1>4. \A c \in 1..Len(decl) : FALSE
  BY <1>1, <1>3
<1> QED
  BY <1>2, <1>3, <1>4 DEF Analysis

LEMMA AnalysisStep ==
  ASSUME Analysis, [Next]_vars
  PROVE  Analysis'
<1>0. N \in Nat /\ base \in [Classes -> 0..N]
  BY ShapesAssumption DEF Analysis
<1>1. CASE UNCHANGED <<base, decl, extends, rejected>>
  BY <1>1 DEF Analysis
<1>2. ASSUME NEW d \in Declarations, AnalyzeClass(d) PROVE Analysis'
  <2>1. PICK n : n = Len(decl)
    OBVIOUS
  <2>2. PICK b, r :
           /\ b \in {0, base[n + 1]} /\ r \in Declaration
           /\ n < N
           /\ decl' = Append(decl, r) /\ extends' = Append(extends, b)
           /\ rejected' \in BOOLEAN
           /\ ~rejected' => ~rejected /\ b = base[n + 1]
           /\ UNCHANGED base
    BY <1>2, <2>1, AnalyzeStep
  <2>3. n \in Nat /\ n + 1 \in Classes
    BY <1>0, <2>1, <2>2, LenProperties DEF Analysis, Classes
  <2>4. b \in 0..N
    BY <1>0, <2>2, <2>3
  <2>5. /\ decl' \in Seq(Declaration) /\ Len(decl') = n + 1
    BY <2>1, <2>2, AppendProperties DEF Analysis
  <2>6. /\ extends' \in Seq(0..N) /\ Len(extends') = n + 1
        /\ \A i \in 1..n : extends'[i] = extends[i]
        /\ extends'[n + 1] = b
    BY <2>1, <2>2, <2>4, AppendProperties DEF Analysis
  <2>7. ASSUME NEW c \in 1..(n + 1)
        PROVE  extends'[c] \in {0, base[c]} /\ (~rejected' => extends'[c] = base[c])
    <3>1. CASE c = n + 1
      BY <2>2, <2>6, <3>1
    <3>2. CASE c # n + 1
      <4>1. c \in 1..n
        BY <2>3, <3>2
      <4>2. extends[c] \in {0, base[c]} /\ (~rejected => extends[c] = base[c])
        BY <2>1, <4>1 DEF Analysis
      <4> QED
        BY <2>2, <2>6, <4>1, <4>2
    <3> QED
      BY <3>1, <3>2
  <2>8. n + 1 <= N
    BY <1>0, <2>2, <2>3
  <2>9. base' \in Shapes
    BY <2>2 DEF Analysis
  <2> QED
    BY <2>2, <2>5, <2>6, <2>7, <2>8, <2>9 DEF Analysis
<1>3. CASE GenerateClass
  BY <1>1, <1>3 DEF GenerateClass
<1> QED
  BY <1>1, <1>2, <1>3 DEF Next, Done, vars

LEMMA GenerationInit == ASSUME Init PROVE Generation
<1>1. <<>> \in Seq({}) /\ Len(<<>>) = 0
  OBVIOUS
<1>2. IsSequence(<<>>)
  BY <1>1 DEF IsSequence
<1> QED
  BY <1>1, <1>2 DEF Init, Generation

LEMMA GenerationStep ==
  ASSUME Analysis, Generation, [Next]_vars
  PROVE  Generation'
<1>0. N \in Nat /\ Len(decl) \in Nat /\ Len(layout) \in Nat
  <2>1. Len(decl) \in Nat
    BY LenProperties DEF Analysis
  <2>2. Len(layout) \in Nat
    BY Appended DEF Generation
  <2> QED
    BY <2>1, <2>2, ShapesAssumption
<1>1. CASE UNCHANGED vars
  BY <1>1 DEF Generation, vars
<1>2. ASSUME NEW d \in Declarations, AnalyzeClass(d) PROVE Generation'
  <2>1. PICK r \in Declaration : /\ Len(decl) < N /\ decl' = Append(decl, r)
                                 /\ UNCHANGED <<slots, vtable, layout, withTable>>
    BY <1>2, AnalyzeStep
  <2>2. Len(decl') = Len(decl) + 1
    BY <2>1, AppendProperties DEF Analysis
  <2>3. ~(Len(layout) > 0)
    BY <1>0, <2>1 DEF Generation
  <2>4. Len(layout') <= Len(decl') /\ ~(Len(layout') > 0)
    BY <1>0, <2>1, <2>2, <2>3 DEF Generation
  <2> QED
    BY <2>1, <2>4 DEF Generation
<1>3. CASE GenerateClass
  <2>1. PICK n : n = Len(layout)
    OBVIOUS
  <2>2. /\ Len(decl) = N /\ n < N /\ ~rejected
        /\ \E x, y, z : /\ slots' = Append(slots, x) /\ vtable' = Append(vtable, y)
                        /\ layout' = Append(layout, z)
        /\ withTable' \subseteq withTable \cup {n + 1}
        /\ UNCHANGED <<base, decl, extends, rejected>>
    BY <1>3, <2>1 DEF GenerateClass, Analyzed, Generated
  <2>3. IsSequence(slots') /\ Len(slots') = n + 1
    BY <2>1, <2>2, Appended DEF Generation
  <2>4. IsSequence(vtable') /\ Len(vtable') = n + 1
    BY <2>1, <2>2, Appended DEF Generation
  <2>5. IsSequence(layout') /\ Len(layout') = n + 1
    BY <2>1, <2>2, Appended DEF Generation
  <2>6. n + 1 <= N /\ 1..n \cup {n + 1} = 1..(n + 1)
    BY <1>0, <2>1, <2>2
  <2>7. withTable' \subseteq 1..(n + 1)
    BY <2>1, <2>2, <2>6 DEF Generation
  <2> QED
    BY <2>2, <2>3, <2>4, <2>5, <2>6, <2>7 DEF Generation
<1> QED
  BY <1>1, <1>2, <1>3 DEF Next, Done

LEMMA HeirsInit == ASSUME Init PROVE Heirs
<1>1. Len(<<>>) = 0 /\ 1..0 = {}
  OBVIOUS
<1> QED
  BY <1>1 DEF Init, Heirs

LEMMA HeirsStep ==
  ASSUME Analysis, Heirs, [Next]_vars
  PROVE  Heirs'
<1>0. N \in Nat /\ base \in [Classes -> 0..N]
  BY ShapesAssumption DEF Analysis
<1>1. CASE UNCHANGED <<base, decl, rejected>>
  BY <1>1 DEF Heirs, BasesFirst
<1>2. ASSUME NEW d \in Declarations, AnalyzeClass(d) PROVE Heirs'
  <2>1. PICK n : n = Len(decl)
    OBVIOUS
  <2>2. PICK b, r :
           /\ r \in Declaration /\ r.destructor = DestructorOf(d, b)
           /\ n < N
           /\ decl' = Append(decl, r)
           /\ ~rejected' => ~rejected /\ b = base[n + 1]
           /\ UNCHANGED base
    BY <1>2, <2>1, AnalyzeStep
  <2>3. n \in Nat /\ n + 1 \in Classes
    BY <1>0, <2>1, <2>2, LenProperties DEF Analysis, Classes
  <2>4. /\ Len(decl') = n + 1 /\ decl'[n + 1] = r
        /\ \A i \in 1..n : decl'[i] = decl[i]
    BY <2>1, <2>2, AppendProperties DEF Analysis
  <2> SUFFICES ASSUME BasesFirst, ~rejected', NEW c \in 1..(n + 1),
                      base[c] # 0, decl'[base[c]].destructor # "none"
               PROVE  decl'[c].destructor # "none"
    BY <2>2, <2>4 DEF Heirs, BasesFirst
  <2>5. base[c] \in 1..n /\ base[c] < c
    <3>1. c \in Classes
      BY <1>0, <2>2, <2>3 DEF Classes
    <3>2. base[c] < c /\ base[c] \in 0..N /\ c \in Nat
      BY <1>0, <3>1 DEF BasesFirst, Classes
    <3> QED
      BY <2>3, <3>2
  <2>6. decl[base[c]].destructor # "none"
    BY <2>4, <2>5
  <2>7. CASE c = n + 1
    <3>1. b = base[c] /\ b \in 1..Len(decl)
      BY <2>1, <2>2, <2>5, <2>7
    <3>2. DestructorOf(d, b) # "none"
      BY <2>6, <3>1 DEF DestructorOf, Analyzed
    <3> QED
      BY <2>2, <2>4, <2>7, <3>2
  <2>8. CASE c # n + 1
    <3>1. c \in 1..n
      BY <2>3, <2>8
    <3>2. decl[c].destructor # "none"
      BY <2>1, <2>2, <2>6, <3>1 DEF Heirs
    <3> QED
      BY <2>4, <3>1, <3>2
  <2> QED
    BY <2>7, <2>8
<1>3. CASE GenerateClass
  BY <1>1, <1>3 DEF GenerateClass
<1> QED
  BY <1>1, <1>2, <1>3 DEF Next, Done, vars

----------------------------------------------------------------------------
(***************************************************************************)
(* What the generator leaves behind: a row of each table for every class,  *)
(* made from the row of its base.                                          *)
(***************************************************************************)

\* VTable(c), with the method lookup of the analyzer for that of the generator.
Taken(c) ==
  DOMAIN BaseTable(c) \cup {Slots(c)[m] : m \in Slotted(c)}
    \cup (IF decl[c].interfaces = {} THEN {}
          ELSE 0..((InterfaceBase + Len(InterfaceMethods)) - 1))

NearestEntry(c, m, inherited) ==
  IF m \in Declared(c) THEN <<c, m>>
  ELSE IF decl[c].interfaces # {} /\ Nearest(base, c, m) # 0
       THEN <<Nearest(base, c, m), m>>
  ELSE inherited

Entry(c, slot) ==
  IF slot \in InterfaceBase..((InterfaceBase + Len(InterfaceMethods)) - 1)
  THEN NearestEntry(c, InterfaceMethods[slot - InterfaceBase + 1], ClassEntry(c, slot))
  ELSE ClassEntry(c, slot)

Table(c) == [slot \in UNION {0..last : last \in Taken(c)} |-> Entry(c, slot)]

Tabled(c) == HasSlots(c) \/ UNION {0..last : last \in Taken(c)} # {}

Elements(c) ==
  (IF Tabled(c) /\ ~BaseHasTable(c) THEN <<Vptr>> ELSE <<>>)
  \o (IF HasBase(c) THEN layout[base[c]] ELSE <<>>)
  \o <<c>>

Row(c) ==
  /\ slots[c] = Slots(c) /\ vtable[c] = Table(c) /\ layout[c] = Elements(c)
  /\ c \in withTable <=> Tabled(c)

Rows == BasesFirst => \A c \in 1..Len(layout) : Row(c)

\* The bases, as far as all classes come after theirs.
LEMMA BasesFall ==
  ASSUME base \in Shapes, BasesFirst
  PROVE  /\ Falling(base) /\ DOMAIN base = Classes
         /\ \A c \in Classes : /\ base[c] \in 0..N /\ base[c] < c
                               /\ HasUp(base, c) <=> HasBase(c)
                               /\ HasBase(c) => base[c] \in Classes
<1>1. base \in [Classes -> 0..N] /\ N \in Nat
  BY ShapesAssumption
<1>2. \A c \in Classes : base[c] \in 0..N /\ base[c] < c /\ c \in Nat
  BY <1>1 DEF BasesFirst, Classes
<1>3. Falling(base)
  BY <1>1, <1>2 DEF Falling
<1>4. \A c \in Classes : HasUp(base, c) <=> HasBase(c)
  BY <1>1 DEF HasUp, HasBase
<1>5. \A c \in Classes : HasBase(c) => base[c] \in Classes
  BY <1>1, <1>2 DEF HasBase, Classes
<1> QED
  BY <1>1, <1>2, <1>3, <1>4, <1>5

LEMMA OwnerIsNearest ==
  ASSUME base \in Shapes, BasesFirst, Analyzed = N, Generated \in Nat, Generated < N,
         NEW m
  PROVE  Owner(Generated + 1, m) = Nearest(base, Generated + 1, m)
<1>1. PICK c : c = Generated + 1
  OBVIOUS
<1>2. N \in Nat /\ c \in Nat /\ c \in 1..N /\ c \in Classes
  BY <1>1, ShapesAssumption DEF Classes
<1>3. PICK up : up = SubSeq(base, 1, c)
  OBVIOUS
<1>4. Falling(base) /\ DOMAIN base = Classes /\ \A x \in Classes : base[x] \in Nat /\ base[x] < x
  <2>1. \A x \in Classes : base[x] \in 0..N /\ base[x] < x
    BY BasesFall
  <2>2. \A x \in 0..N : x \in Nat
    BY <1>2
  <2> QED
    BY <2>1, <2>2, BasesFall
<1>5. 1..c \subseteq Classes
  BY <1>2 DEF Classes
<1>6. DOMAIN up = 1..c /\ \A x \in 1..c : up[x] = base[x]
  <2>1. \A x \in 1..c : base[x] \in Nat
    BY <1>4, <1>5
  <2>2. 1 \in Int /\ c \in Int /\ 1 <= c /\ c - 1 + 1 = c
    BY <1>2
  <2>3. /\ up \in Seq(Nat) /\ Len(up) = IF 1 <= c THEN c - 1 + 1 ELSE 0
        /\ \A i \in 1..(c - 1 + 1) : up[i] = base[1 + i - 1]
    BY <1>3, <2>1, <2>2, SubSeqProperties
  <2>4. Len(up) = c /\ DOMAIN up = 1..c
    BY <2>2, <2>3, LenProperties
  <2>5. ASSUME NEW i \in 1..c PROVE up[i] = base[i]
    <3>1. 1 + i - 1 = i /\ i \in 1..(c - 1 + 1)
      BY <1>2
    <3> QED
      BY <2>3, <3>1
  <2> QED
    BY <2>4, <2>5
<1>7. Falling(up)
  <2>1. 1..c \subseteq Nat
    OBVIOUS
  <2> QED
    BY <1>4, <1>5, <1>6, <2>1 DEF Falling
<1>8. \A x \in 1..c : /\ HasUp(up, x) <=> HasUp(base, x)
                      /\ HasUp(up, x) => up[x] = base[x]
  BY <1>4, <1>5, <1>6 DEF HasUp
<1>9. Line(up, c) = Line(base, c)
  BY <1>2, <1>4, <1>7, <1>8, LineOfPart
<1>10. PICK s : s = Line(base, c)
  OBVIOUS
<1>11. DOMAIN s = 1..Len(s) /\ \A j \in 1..Len(s) : s[j] \in 1..c
  BY <1>2, <1>4, <1>10, LineEnds
<1>12. \A k \in DOMAIN s : s[k] <= c /\ s[k] <= Analyzed
  BY <1>2, <1>11
<1>18. s = Line(SubSeq(base, 1, Generated + 1), c)
  BY <1>1, <1>3, <1>9, <1>10
<1>13. PICK H : H = {k \in DOMAIN s : s[k] <= Generated + 1 /\ m \in Declared(s[k])}
  OBVIOUS
<1>14. PICK G : G = {k \in DOMAIN s : s[k] <= Analyzed /\ m \in Declared(s[k])}
  OBVIOUS
<1>15. G = H
  BY <1>1, <1>12, <1>13, <1>14
<1>16. Owner(c, m) = IF H = {} THEN 0 ELSE s[CHOOSE k \in H : \A j \in H : k <= j]
  BY <1>13, <1>18 DEF Owner
<1>17. Nearest(base, c, m) = IF G = {} THEN 0 ELSE s[CHOOSE k \in G : \A j \in G : k <= j]
  BY <1>10, <1>14 DEF Nearest
<1> QED
  BY <1>1, <1>15, <1>16, <1>17

LEMMA TableGenerated ==
  ASSUME base \in Shapes, BasesFirst, Analyzed = N, Generated \in Nat, Generated < N,
         NEW c, c = Generated + 1
  PROVE  VTable(c) = Table(c) /\ (HasTable(c) <=> Tabled(c))
<1>1. \A m : Owner(c, m) = Nearest(base, c, m)
  BY OwnerIsNearest
<1>2. ASSUME NEW m, NEW inherited
      PROVE  InterfaceEntry(c, m, inherited) = NearestEntry(c, m, inherited)
  BY <1>1 DEF InterfaceEntry, NearestEntry
<1>3. VTable(c) = Table(c)
  BY <1>2 DEF VTable, Table, Taken, Entry
<1>4. DOMAIN Table(c) = UNION {0..last : last \in Taken(c)}
  BY DEF Table
<1> QED
  BY <1>3, <1>4 DEF HasTable, Tabled

LEMMA RowsInit == ASSUME Init PROVE Rows
<1>1. Len(<<>>) = 0 /\ 1..0 = {}
  OBVIOUS
<1> QED
  BY <1>1 DEF Init, Rows

\* A row stays as it is when the tables grow.
LEMMA RowStays ==
  ASSUME UNCHANGED <<base, decl, extends>>, NEW c,
         BaseHasTable(c)' <=> BaseHasTable(c),
         BaseSlots(c)' = BaseSlots(c), BaseTable(c)' = BaseTable(c),
         HasBase(c) => layout'[base[c]] = layout[base[c]]
  PROVE  /\ Slots(c)' = Slots(c) /\ Table(c)' = Table(c) /\ Elements(c)' = Elements(c)
         /\ Tabled(c)' <=> Tabled(c)
<1>1. HasSlots(c)' <=> HasSlots(c)
  BY DEF HasSlots, Marked, HasBase
<1>2. Slotted(c)' = Slotted(c)
  BY <1>1 DEF Slotted, Marked, Declared
<1>3. Slots(c)' = Slots(c)
  BY <1>2 DEF Slots, Precedes
<1>4. Filled(c)' = Filled(c)
  BY <1>2 DEF Filled
<1>5. ASSUME NEW slot PROVE ClassEntry(c, slot)' = ClassEntry(c, slot)
  BY <1>3, <1>4 DEF ClassEntry
<1>6. InterfaceBase' = InterfaceBase
  BY DEF InterfaceBase, MemberFunctions
<1>7. Taken(c)' = Taken(c)
  BY <1>2, <1>3, <1>6 DEF Taken, InterfaceMethods
<1>8. ASSUME NEW m, NEW inherited
      PROVE  NearestEntry(c, m, inherited)' = NearestEntry(c, m, inherited)
  BY DEF NearestEntry, Nearest, Declared, Analyzed
<1>9. ASSUME NEW slot PROVE Entry(c, slot)' = Entry(c, slot)
  BY <1>5, <1>6, <1>8 DEF Entry, InterfaceMethods
<1>10. Table(c)' = Table(c)
  BY <1>7, <1>9 DEF Table
<1>11. Tabled(c)' <=> Tabled(c)
  BY <1>1, <1>7 DEF Tabled
<1>12. Elements(c)' = Elements(c)
  BY <1>11 DEF Elements, HasBase, Vptr
<1> QED
  BY <1>3, <1>10, <1>11, <1>12

LEMMA RowsStep ==
  ASSUME Analysis, Generation, Rows, [Next]_vars
  PROVE  Rows'
<1>0. N \in Nat /\ base \in Shapes
  BY ShapesAssumption DEF Analysis
<1>1. PICK n : n = Len(layout)
  OBVIOUS
<1>2. n \in Nat /\ Len(slots) = n /\ Len(vtable) = n
  BY <1>1, Appended DEF Generation
<1>3. CASE UNCHANGED vars
  <2> SUFFICES ASSUME BasesFirst, NEW c \in 1..Len(layout) PROVE Row(c)'
    BY <1>3 DEF vars, Rows, BasesFirst
  <2>1. Row(c)
    BY DEF Rows
  <2>2. BaseHasTable(c)' <=> BaseHasTable(c)
    BY <1>3 DEF vars, BaseHasTable, HasBase
  <2>3. BaseSlots(c)' = BaseSlots(c) /\ BaseTable(c)' = BaseTable(c)
    BY <1>3, <2>2 DEF vars, BaseSlots, BaseTable
  <2>4. /\ Slots(c)' = Slots(c) /\ Table(c)' = Table(c) /\ Elements(c)' = Elements(c)
        /\ Tabled(c)' <=> Tabled(c)
    BY <1>3, <2>2, <2>3, RowStays DEF vars
  <2> QED
    BY <1>3, <2>1, <2>4 DEF vars, Row
<1>4. ASSUME NEW d \in Declarations, AnalyzeClass(d) PROVE Rows'
  <2>1. Len(decl) < N /\ UNCHANGED layout
    BY <1>4, AnalyzeStep
  <2>2. Len(decl) \in Nat
    BY LenProperties DEF Analysis
  <2>3. n = 0 /\ 1..0 = {}
    BY <1>0, <1>1, <1>2, <2>1, <2>2 DEF Generation
  <2> QED
    BY <1>1, <2>1, <2>3 DEF Rows
<1>5. CASE GenerateClass
  <2>1. PICK g : g = n + 1
    OBVIOUS
  <2>2. /\ Analyzed = N /\ n < N
        /\ slots' = Append(slots, Slots(g)) /\ vtable' = Append(vtable, VTable(g))
        /\ layout' = Append(layout, Layout(g))
        /\ withTable' = withTable \cup {x \in {g} : HasTable(x)}
        /\ UNCHANGED <<base, decl, extends, rejected>>
    BY <1>1, <1>5, <2>1 DEF GenerateClass, Generated
  <2>3. /\ slots'[g] = Slots(g) /\ \A i \in 1..n : slots'[i] = slots[i]
    BY <1>1, <1>2, <2>1, <2>2, Appended DEF Generation
  <2>4. /\ vtable'[g] = VTable(g) /\ \A i \in 1..n : vtable'[i] = vtable[i]
    BY <1>1, <1>2, <2>1, <2>2, Appended DEF Generation
  <2>5. /\ layout'[g] = Layout(g) /\ \A i \in 1..n : layout'[i] = layout[i]
        /\ Len(layout') = g
    BY <1>1, <1>2, <2>1, <2>2, Appended DEF Generation
  <2> SUFFICES ASSUME BasesFirst, NEW c \in 1..g PROVE Row(c)'
    BY <2>2, <2>5 DEF Rows, BasesFirst
  <2>6. /\ c \in Classes /\ base[c] \in 0..N /\ base[c] < c /\ c \in Nat
        /\ HasBase(c) => base[c] \in 1..n
    <3>1. c \in Classes
      BY <1>0, <1>2, <2>1, <2>2 DEF Classes
    <3>2. base[c] \in 0..N /\ base[c] < c
      BY <1>0, <3>1, BasesFall
    <3> QED
      BY <1>0, <1>2, <2>1, <3>1, <3>2 DEF HasBase
  <2>7. BaseHasTable(c)' <=> BaseHasTable(c)
    BY <1>2, <2>1, <2>2, <2>6 DEF BaseHasTable, HasBase
  <2>8. BaseSlots(c)' = BaseSlots(c)
    BY <2>2, <2>3, <2>6, <2>7 DEF BaseSlots, BaseHasTable
  <2>9. BaseTable(c)' = BaseTable(c)
    BY <2>2, <2>4, <2>6, <2>7 DEF BaseTable, BaseHasTable
  <2>10. HasBase(c) => layout'[base[c]] = layout[base[c]]
    BY <2>5, <2>6
  <2>11. /\ Slots(c)' = Slots(c) /\ Table(c)' = Table(c) /\ Elements(c)' = Elements(c)
         /\ Tabled(c)' <=> Tabled(c)
    BY <2>2, <2>7, <2>8, <2>9, <2>10, RowStays
  <2>12. CASE c = g
    <3>1. VTable(g) = Table(g) /\ (HasTable(g) <=> Tabled(g))
      BY <1>0, <1>1, <1>2, <2>1, <2>2, TableGenerated DEF Generated
    <3>2. HasBase(g) => base[g] <= n
      BY <1>2, <2>6, <2>12
    <3>3. Layout(g) = Elements(g)
      BY <1>1, <3>1, <3>2 DEF Layout, Elements, Generated
    <3>4. g \notin withTable
      BY <1>1, <1>2, <2>1 DEF Generation
    <3>5. g \in withTable' <=> Tabled(g)
      BY <2>2, <3>1, <3>4
    <3> QED
      BY <2>3, <2>4, <2>5, <2>11, <2>12, <3>1, <3>3, <3>5 DEF Row
  <2>13. CASE c # g
    <3>1. c \in 1..n
      BY <1>2, <2>1, <2>13
    <3>2. Row(c)
      BY <1>1, <3>1 DEF Rows
    <3>3. c \in withTable' <=> c \in withTable
      BY <2>2, <2>13
    <3>4. slots'[c] = slots[c] /\ vtable'[c] = vtable[c] /\ layout'[c] = layout[c]
      BY <2>3, <2>4, <2>5, <3>1
    <3> QED
      BY <2>11, <3>2, <3>3, <3>4 DEF Row
  <2> QED
    BY <2>12, <2>13
<1> QED
  BY <1>3, <1>4, <1>5 DEF Next, Done

----------------------------------------------------------------------------
(***************************************************************************)
(* Complete programs.                                                      *)
(***************************************************************************)

Final == Analysis /\ Heirs /\ Generation /\ Rows /\ Sound

LEMMA FinalFacts ==
  ASSUME Final
  PROVE  /\ N \in Nat /\ Classes \subseteq Nat /\ Analyzed = N /\ extends = base
         /\ Falling(base)
         /\ \A c \in Classes :
              /\ decl[c] \in Declaration /\ Row(c)
              /\ HasUp(base, c) <=> HasBase(c)
              /\ HasBase(c) => base[c] \in Classes /\ base[c] < c
              /\ HasBase(c) /\ decl[base[c]].destructor # "none"
                   => decl[c].destructor # "none"
<1>1. N \in Nat /\ Classes = 1..N
  BY ShapesAssumption DEF Classes
<1>2. Len(layout) = N /\ ~rejected /\ BasesFirst /\ base \in Shapes
  BY DEF Final, Sound, Complete, Generated, Analysis
<1>3. Len(decl) = N
  BY <1>1, <1>2, ShapesAssumption DEF Final, Generation
<1>4. Falling(base) /\ DOMAIN base = Classes
  BY <1>2, BasesFall
<1>5. extends \in Seq(0..N) /\ Len(extends) = N
  BY <1>3 DEF Final, Analysis
<1>6. extends \in [1..N -> 0..N]
  BY <1>5, LenProperties
<1>7. \A c \in 1..N : extends[c] = base[c]
  BY <1>2, <1>3 DEF Final, Analysis
<1>8. base \in [Classes -> 0..N]
  BY <1>2, ShapesAssumption
<1>9. extends = base
  BY <1>1, <1>6, <1>7, <1>8
<1>10. ASSUME NEW c \in Classes
       PROVE  /\ decl[c] \in Declaration /\ Row(c)
              /\ HasUp(base, c) <=> HasBase(c)
              /\ HasBase(c) => base[c] \in Classes /\ base[c] < c
              /\ HasBase(c) /\ decl[base[c]].destructor # "none"
                   => decl[c].destructor # "none"
  <2>1. decl[c] \in Declaration
    BY <1>1, <1>3, ElementOfSeq DEF Final, Analysis
  <2>2. Row(c)
    BY <1>1, <1>2 DEF Final, Rows
  <2>3. /\ HasUp(base, c) <=> HasBase(c)
        /\ HasBase(c) => base[c] \in Classes /\ base[c] < c
    BY <1>2, BasesFall
  <2>4. HasBase(c) /\ decl[base[c]].destructor # "none" => decl[c].destructor # "none"
    BY <1>1, <1>2, <1>3 DEF Final, Heirs, HasBase
  <2> QED
    BY <2>1, <2>2, <2>3, <2>4
<1> QED
  BY <1>1, <1>3, <1>4, <1>9, <1>10 DEF Analyzed

\* A class has a table when it has slots, and without a table it has nothing to put in.
LEMMA FinalTables ==
  ASSUME Final, NEW c \in Classes
  PROVE  /\ c \in withTable <=> HasSlots(c)
         /\ c \in withTable <=> Tabled(c)
         /\ BaseHasTable(c) => c \in withTable
         /\ c \notin withTable =>
              /\ Marked(c) = {} /\ decl[c].destructor # "virtual"
              /\ decl[c].interfaces = {} /\ DOMAIN slots[c] = {}
         /\ c \in withTable /\ ~BaseHasTable(c) => ~HasBase(c)
<1>1. Row(c)
  BY FinalFacts
<1>2. BaseHasTable(c) => HasSlots(c)
  BY DEF HasSlots
<1>3. ASSUME ~HasSlots(c)
      PROVE  /\ Marked(c) = {} /\ decl[c].destructor # "virtual"
             /\ decl[c].interfaces = {} /\ DOMAIN Slots(c) = {} /\ ~Tabled(c)
  <2>1. ~BaseHasTable(c)
    BY <1>2, <1>3
  <2>2. /\ Marked(c) = {} /\ decl[c].destructor # "virtual"
        /\ decl[c].interfaces = {}
    BY <1>3, <2>1 DEF HasSlots, Final, Sound, Supported, BaseHasTable
  <2>3. DOMAIN BaseSlots(c) = {} /\ DOMAIN BaseTable(c) = {}
    BY <2>1 DEF BaseSlots, BaseTable
  <2>4. Slotted(c) = {}
    BY <1>3 DEF Slotted
  <2>5. DOMAIN Slots(c) = {}
    BY <2>3, <2>4 DEF Slots
  <2>6. Taken(c) = {}
    BY <2>2, <2>3, <2>4 DEF Taken
  <2>7. UNION {0..last : last \in Taken(c)} = {}
    BY <2>6
  <2> QED
    BY <1>3, <2>2, <2>5, <2>7 DEF Tabled
<1>4. HasSlots(c) => Tabled(c)
  BY DEF Tabled
<1>5. HasSlots(c) /\ ~BaseHasTable(c) => ~HasBase(c)
  BY DEF HasSlots
<1> QED
  BY <1>1, <1>2, <1>3, <1>4, <1>5 DEF Row

\* What a class has from its ancestors comes from its base.
LEMMA FinalAncestor ==
  ASSUME Final, NEW o \in Classes, NEW s \in Ancestors(base, o), s # o
  PROVE  HasBase(o) /\ s \in Ancestors(base, base[o])
<1>1. Falling(base) /\ (HasUp(base, o) <=> HasBase(o))
  BY FinalFacts
<1> QED
  BY <1>1, AncestorsUnfold

LEMMA TableInherited ==
  ASSUME Final, NEW o \in Classes, NEW s \in Ancestors(base, o), s \in withTable
  PROVE  o \in withTable
<1>1. PICK T : T = {c \in Classes : s \in Ancestors(base, c) => c \in withTable}
  OBVIOUS
<1>2. ASSUME NEW c \in Classes, \A b \in Classes : b < c => b \in T
      PROVE  c \in T
  <2> SUFFICES ASSUME s \in Ancestors(base, c), s # c PROVE c \in withTable
    BY <1>1
  <2>1. HasBase(c) /\ s \in Ancestors(base, base[c])
    BY FinalAncestor
  <2>2. base[c] \in T
    BY <1>2, <2>1, FinalFacts
  <2>3. BaseHasTable(c)
    BY <1>1, <2>1, <2>2 DEF BaseHasTable
  <2> QED
    BY <2>3, FinalTables
<1>3. Classes \subseteq T
  BY <1>2, ClassInduction
<1> QED
  BY <1>1, <1>3

\* Objects begin with the elements of their base.
LEMMA LayoutRight ==
  ASSUME Final, NEW o \in Classes
  PROVE  /\ layout[o] \in Seq(Nat)
         /\ o \in withTable => layout[o][1] = Vptr /\ Len(layout[o]) \in Nat \ {0}
         /\ HasBase(o) => IsPrefix(layout[base[o]], layout[o])
<1>1. PICK T : T = {c \in Classes :
         /\ layout[c] \in Seq(Nat)
         /\ c \in withTable => layout[c][1] = Vptr /\ Len(layout[c]) \in Nat \ {0}
         /\ HasBase(c) => IsPrefix(layout[base[c]], layout[c])}
  OBVIOUS
<1>2. ASSUME NEW c \in Classes, \A b \in Classes : b < c => b \in T
      PROVE  c \in T
  <2>1. layout[c] = Elements(c) /\ c \in Nat
    BY FinalFacts DEF Row
  <2>2. <<c>> \in Seq(Nat) /\ Len(<<c>>) = 1 /\ <<Vptr>> \in Seq(Nat)
        /\ Len(<<Vptr>>) = 1 /\ <<Vptr>>[1] = Vptr /\ <<>> \in Seq(Nat) /\ Len(<<>>) = 0
    BY <2>1 DEF Vptr
  <2>3. CASE HasBase(c)
    <3>1. PICK b, l : b = base[c] /\ l = layout[b]
      OBVIOUS
    <3>2. b \in Classes /\ b \in T
      BY <1>2, <2>3, <3>1, FinalFacts
    <3>3. /\ l \in Seq(Nat)
          /\ b \in withTable => l[1] = Vptr /\ Len(l) \in Nat \ {0}
      BY <1>1, <3>1, <3>2
    <3>4. c \in withTable <=> Tabled(c) 
      BY FinalTables
    <3>5. c \in withTable <=> b \in withTable
      BY <2>3, <3>1, FinalTables DEF BaseHasTable
    <3>6. ~(Tabled(c) /\ ~BaseHasTable(c))
      BY <2>3, <3>4, FinalTables
    <3>7. layout[c] = <<>> \o l \o <<c>>
      BY <2>1, <2>3, <3>1, <3>6 DEF Elements
    <3>8. <<>> \o l = l
      BY <3>3, ConcatEmptySeq
    <3>9. PICK r : r = l \o <<c>>
      OBVIOUS
    <3>10. layout[c] = r
      BY <3>7, <3>8, <3>9
    <3>11. PICK n : n = Len(l)
      OBVIOUS
    <3>12. n \in Nat
      BY <3>3, <3>11, LenProperties
    <3>13. /\ r \in Seq(Nat) /\ Len(r) = n + 1
           /\ \A i \in 1..(n + 1) : r[i] = IF i <= n THEN l[i] ELSE <<c>>[i - n]
      BY <2>2, <3>3, <3>9, <3>11, ConcatProperties
    <3>14. ASSUME c \in withTable PROVE r[1] = Vptr /\ Len(r) \in Nat \ {0}
      <4>1. l[1] = Vptr /\ n \in Nat \ {0}
        BY <3>3, <3>5, <3>11, <3>14
      <4>2. 1 \in 1..(n + 1) /\ 1 <= n
        BY <4>1
      <4> QED
        BY <3>12, <3>13, <4>1, <4>2
    <3>15. IsPrefix(l, r)
      <4>1. PICK u, v : u = SubSeq(l, 1, n) /\ v = SubSeq(r, 1, n)
        OBVIOUS
      <4>2. 1 \in Int /\ n \in Int /\ n - 1 + 1 = n
            /\ (IF 1 <= n THEN n - 1 + 1 ELSE 0) = n
        BY <3>12
      <4>3. \A i \in 1..n : i \in 1..(n + 1) /\ i <= n /\ 1 + i - 1 = i
        BY <3>12
      <4>4. \A i \in 1..n : l[i] \in Nat /\ r[i] = l[i]
        BY <3>3, <3>11, <3>13, <4>3, ElementOfSeq
      <4>5. /\ u \in Seq(Nat) /\ Len(u) = n
            /\ \A i \in 1..(n - 1 + 1) : u[i] = l[1 + i - 1]
        BY <4>1, <4>2, <4>4, SubSeqProperties
      <4>6. /\ v \in Seq(Nat) /\ Len(v) = n
            /\ \A i \in 1..(n - 1 + 1) : v[i] = r[1 + i - 1]
        BY <4>1, <4>2, <4>4, SubSeqProperties
      <4>7. \A i \in 1..n : u[i] = v[i]
        BY <4>2, <4>3, <4>4, <4>5, <4>6
      <4>8. u = v
        BY <4>5, <4>6, <4>7, SeqEqual
      <4>9. Len(l) <= Len(r)
        BY <3>11, <3>12, <3>13
      <4> QED
        BY <3>11, <4>1, <4>8, <4>9 DEF IsPrefix
    <3> QED
      BY <1>1, <3>1, <3>10, <3>13, <3>14, <3>15
  <2>4. CASE ~HasBase(c)
    <3>1. ~BaseHasTable(c)
      BY <2>4 DEF BaseHasTable
    <3>2. CASE c \in withTable
      <4>1. Tabled(c)
        BY <3>2, FinalTables
      <4>2. layout[c] = <<Vptr>> \o <<>> \o <<c>>
        BY <2>1, <2>4, <3>1, <4>1 DEF Elements
      <4>3. <<Vptr>> \o <<>> = <<Vptr>>
        BY <2>2, ConcatEmptySeq
      <4>4. PICK r : r = <<Vptr>> \o <<c>>
        OBVIOUS
      <4>5. /\ r \in Seq(Nat) /\ Len(r) = 1 + 1
            /\ \A i \in 1..(1 + 1) : r[i] = IF i <= 1 THEN <<Vptr>>[i] ELSE <<c>>[i - 1]
        BY <2>2, <4>4, ConcatProperties
      <4>6. r[1] = Vptr /\ Len(r) \in Nat \ {0}
        BY <2>2, <4>5
      <4> QED
        BY <1>1, <2>4, <4>2, <4>3, <4>4, <4>5, <4>6
    <3>3. CASE c \notin withTable
      <4>1. ~Tabled(c)
        BY <3>3, FinalTables
      <4>2. layout[c] = <<>> \o <<>> \o <<c>>
        BY <2>1, <2>4, <4>1 DEF Elements
      <4>3. <<>> \o <<>> = <<>>
        BY <2>2, ConcatEmptySeq
      <4>4. <<>> \o <<c>> = <<c>>
        BY <2>2, ConcatEmptySeq
      <4> QED
        BY <1>1, <2>2, <2>4, <3>3, <4>2, <4>3, <4>4
    <3> QED
      BY <3>2, <3>3
  <2> QED
    BY <2>3, <2>4
<1>3. Classes \subseteq T
  BY <1>2, ClassInduction
<1> QED
  BY <1>1, <1>3

----------------------------------------------------------------------------
(***************************************************************************)
(* Slots.  New names are counted in the order of the members, behind those *)
(* of the base.                                                            *)
(***************************************************************************)

\* Elements of a finite set, counted in a strict order of them.
LEMMA Counted ==
  ASSUME NEW W, IsFiniteSet(W), NEW R, NEW pos,
         \A n \in W : <<n, n>> \notin R,
         \A n, m \in W : n # m => <<n, m>> \in R \/ <<m, n>> \in R,
         \A n, m, p \in W : <<n, m>> \in R /\ <<m, p>> \in R => <<n, p>> \in R,
         pos = [m \in W |-> Cardinality({n \in W : <<n, m>> \in R})]
  PROVE  /\ \A m \in W : pos[m] \in Nat /\ pos[m] < Cardinality(W)
         /\ \A n, m \in W : pos[n] = pos[m] => n = m
<1>1. PICK before : before = [m \in W |-> {n \in W : <<n, m>> \in R}]
  OBVIOUS
<1>2. ASSUME NEW m \in W
      PROVE  /\ before[m] \in SUBSET W /\ IsFiniteSet(before[m])
             /\ pos[m] = Cardinality(before[m]) /\ pos[m] \in Nat
  <2>1. before[m] \in SUBSET W
    BY <1>1
  <2>2. IsFiniteSet(before[m])
    BY <2>1, FS_Subset
  <2>3. pos[m] = Cardinality(before[m])
    BY <1>1
  <2> QED
    BY <2>1, <2>2, <2>3, FS_CardinalityType
<1>3. ASSUME NEW m \in W, NEW S, IsFiniteSet(S), before[m] \cup {m} \subseteq S
      PROVE  pos[m] < Cardinality(S)
  <2>1. m \notin before[m]
    BY <1>1
  <2>2. PICK B : B = before[m] \cup {m}
    OBVIOUS
  <2>3. IsFiniteSet(B) /\ Cardinality(B) = pos[m] + 1
    <3>1. IsFiniteSet(before[m]) /\ pos[m] = Cardinality(before[m])
      BY <1>2
    <3>2. /\ IsFiniteSet(before[m] \cup {m})
          /\ Cardinality(before[m] \cup {m}) =
               IF m \in before[m] THEN Cardinality(before[m])
               ELSE Cardinality(before[m]) + 1
      BY <3>1, FS_AddElement
    <3> QED
      BY <2>1, <2>2, <3>1, <3>2
  <2>4. B \in SUBSET S
    BY <1>3, <2>2
  <2>5. Cardinality(B) <= Cardinality(S) /\ Cardinality(S) \in Nat
    BY <1>3, <2>4, FS_Subset, FS_CardinalityType
  <2> QED
    BY <1>2, <2>3, <2>5
<1>4. \A m \in W : pos[m] < Cardinality(W)
  BY <1>2, <1>3
<1>5. ASSUME NEW n \in W, NEW m \in W, <<n, m>> \in R PROVE pos[n] < pos[m]
  <2>1. before[n] \cup {n} \subseteq before[m]
    BY <1>1, <1>5
  <2> QED
    BY <1>2, <1>3, <2>1
<1>6. ASSUME NEW n \in W, NEW m \in W, pos[n] = pos[m] PROVE n = m
  <2> SUFFICES ASSUME n # m PROVE FALSE
    OBVIOUS
  <2>1. pos[n] < pos[m] \/ pos[m] < pos[n]
    BY <1>5
  <2> QED
    BY <1>2, <1>6, <2>1
<1> QED
  BY <1>2, <1>4, <1>6

\* The new slots of a class.
New(c) == Slotted(c) \ DOMAIN BaseSlots(c)

LEMMA DeclaredNames ==
  ASSUME NEW c, decl[c] \in Declaration
  PROVE  /\ DOMAIN decl[c].methods = 1..Len(decl[c].methods)
         /\ Len(decl[c].methods) \in Nat
         /\ \A k \in DOMAIN decl[c].methods : decl[c].methods[k].name # "~"
         /\ "~" \notin Declared(c)
<1>1. decl[c].methods \in Seq(Method)
  BY DEF Declaration
<1>2. /\ DOMAIN decl[c].methods = 1..Len(decl[c].methods)
      /\ Len(decl[c].methods) \in Nat
  BY <1>1, LenProperties
<1>3. ASSUME NEW k \in DOMAIN decl[c].methods PROVE decl[c].methods[k].name # "~"
  <2>1. decl[c].methods[k] \in Method
    BY <1>1, <1>2, ElementOfSeq
  <2> QED
    BY <2>1 DEF Method, Names
<1> QED
  BY <1>2, <1>3 DEF Declared

LEMMA NewOrdered ==
  ASSUME NEW c, decl[c] \in Declaration
  PROVE  /\ \A n : ~Precedes(c, n, n)
         /\ \A n, m \in New(c) : n # m => Precedes(c, n, m) \/ Precedes(c, m, n)
         /\ \A n, m, p \in New(c) : Precedes(c, n, m) /\ Precedes(c, m, p) => Precedes(c, n, p)
<1>1. PICK ms, D : ms = decl[c].methods /\ D = DOMAIN ms
  OBVIOUS
<1>2. /\ D = 1..Len(ms) /\ Len(ms) \in Nat
      /\ \A k \in D : ms[k].name # "~"
  BY <1>1, DeclaredNames
<1>3. \A n, m : Precedes(c, n, m) <=>
        \E k \in D : ms[k].name = n /\ \A j \in 1..k : ms[j].name # m
  BY <1>1 DEF Precedes
<1>4. ASSUME NEW n PROVE ~Precedes(c, n, n)
  <2> SUFFICES ASSUME NEW k \in D, ms[k].name = n, \A j \in 1..k : ms[j].name # n
               PROVE  FALSE
    BY <1>3
  <2>1. k \in 1..k
    BY <1>2
  <2> QED
    BY <2>1
<1>5. ASSUME NEW n, NEW m, NEW p, Precedes(c, n, m), Precedes(c, m, p)
      PROVE  Precedes(c, n, p)
  <2>1. PICK k \in D : ms[k].name = n /\ \A j \in 1..k : ms[j].name # m
    BY <1>3, <1>5
  <2>2. PICK l \in D : ms[l].name = m /\ \A j \in 1..l : ms[j].name # p
    BY <1>3, <1>5
  <2>3. k \in Nat /\ l \in Nat /\ l >= 1
    BY <1>2
  <2>4. ~(l <= k)
    <3> SUFFICES ASSUME l <= k PROVE FALSE
      OBVIOUS
    <3>1. l \in 1..k
      BY <2>3
    <3> QED
      BY <2>1, <2>2, <3>1
  <2>5. \A j \in 1..k : j \in 1..l
    BY <2>3, <2>4
  <2>6. \A j \in 1..k : ms[j].name # p
    BY <2>2, <2>5
  <2> QED
    BY <1>3, <2>1, <2>6
<1>6. ASSUME NEW n, n # "~" , n \in New(c) PROVE \E k \in D : ms[k].name = n
  BY <1>1, <1>6 DEF New, Slotted, Declared
<1>7. ASSUME NEW n \in New(c), NEW m \in New(c), n # m
      PROVE  Precedes(c, n, m) \/ Precedes(c, m, n)
  <2>1. ASSUME NEW a, NEW b, a # "~", b = "~", a \in New(c) PROVE Precedes(c, a, b)
    <3>1. PICK k \in D : ms[k].name = a
      BY <1>6, <2>1
    <3>2. \A j \in 1..k : j \in D
      BY <1>2
    <3> QED
      BY <1>2, <1>3, <2>1, <3>1, <3>2
  <2>2. CASE m = "~"
    BY <1>7, <2>1, <2>2
  <2>3. CASE n = "~"
    BY <1>7, <2>1, <2>3
  <2>4. CASE n # "~" /\ m # "~"
    <3>1. PICK A, B : A = {k \in D : ms[k].name = n} /\ B = {k \in D : ms[k].name = m}
      OBVIOUS
    <3>2. A # {} /\ B # {} /\ A \in SUBSET Nat /\ B \in SUBSET Nat
      BY <1>2, <1>6, <2>4, <3>1
    <3>3. PICK a \in A : \A j \in A : a <= j
      BY <3>2, LeastNumber
    <3>4. PICK b \in B : \A j \in B : b <= j
      BY <3>2, LeastNumber
    <3>5. a \in D /\ b \in D /\ ms[a].name = n /\ ms[b].name = m /\ a # b
      BY <1>7, <3>1, <3>3, <3>4
    <3>6. a \in Nat /\ b \in Nat /\ a <= Len(ms) /\ b <= Len(ms)
      BY <1>2, <3>5
    <3>7. CASE a < b
      <4>1. ASSUME NEW j \in 1..a PROVE ms[j].name # m
        <5>1. j \in D /\ ~(b <= j)
          BY <1>2, <3>6, <3>7
        <5> QED
          BY <3>1, <3>4, <5>1
      <4> QED
        BY <1>3, <3>5, <4>1
    <3>8. CASE b < a
      <4>1. ASSUME NEW j \in 1..b PROVE ms[j].name # n
        <5>1. j \in D /\ ~(a <= j)
          BY <1>2, <3>6, <3>8
        <5> QED
          BY <3>1, <3>3, <5>1
      <4> QED
        BY <1>3, <3>5, <4>1
    <3> QED
      BY <3>5, <3>6, <3>7, <3>8
  <2> QED
    BY <2>2, <2>3, <2>4
<1> QED
  BY <1>4, <1>5, <1>7

LEMMA NewFits ==
  ASSUME NEW c, decl[c] \in Declaration
  PROVE  /\ IsFiniteSet(New(c)) /\ IsFiniteSet(MemberFunctions(c))
         /\ Cardinality(New(c)) <= Cardinality(MemberFunctions(c))
         /\ Cardinality(New(c)) \in Nat /\ Cardinality(MemberFunctions(c)) \in Nat
<1>1. PICK ms : ms = decl[c].methods
  OBVIOUS
<1>2. DOMAIN ms = 1..Len(ms) /\ Len(ms) \in Nat
  BY <1>1, DeclaredNames
<1>3. PICK F : F = MemberFunctions(c)
  OBVIOUS
<1>4. F = 1..(Len(ms) + (IF decl[c].destructor = "none" THEN 0 ELSE 1))
  BY <1>1, <1>3 DEF MemberFunctions
<1>5. IsFiniteSet(F)
  <2>1. (Len(ms) + (IF decl[c].destructor = "none" THEN 0 ELSE 1)) \in Int /\ 1 \in Int
    BY <1>2
  <2> QED
    BY <1>4, <2>1, FS_Interval
<1>6. PICK f : f = [k \in F |-> IF k <= Len(ms) THEN ms[k].name ELSE "~"]
  OBVIOUS
<1>7. PICK G : G = {f[k] : k \in F}
  OBVIOUS
<1>8. ASSUME NEW m \in New(c) PROVE m \in G
  <2>1. CASE m \in Declared(c)
    <3>1. PICK k \in 1..Len(ms) : ms[k].name = m
      BY <1>1, <1>2, <2>1 DEF Declared
    <3>2. k \in F /\ k <= Len(ms)
      BY <1>2, <1>4
    <3>3. f[k] = m
      BY <1>6, <3>1, <3>2
    <3> QED
      BY <1>7, <3>2, <3>3
  <2>2. CASE m \notin Declared(c)
    <3>1. m = "~" /\ decl[c].destructor = "virtual"
      BY <1>8, <2>2 DEF New, Slotted
    <3>2. Len(ms) + 1 \in F /\ ~(Len(ms) + 1 <= Len(ms))
      BY <1>2, <1>4, <3>1
    <3>3. f[Len(ms) + 1] = "~"
      BY <1>6, <3>2
    <3> QED
      BY <1>7, <3>1, <3>2, <3>3
  <2> QED
    BY <2>1, <2>2
<1>9. IsFiniteSet(G) /\ Cardinality(G) <= Cardinality(F)
  BY <1>5, <1>7, ImageFinite
<1>10. New(c) \in SUBSET G
  BY <1>8
<1>11. IsFiniteSet(New(c)) /\ Cardinality(New(c)) <= Cardinality(G)
  BY <1>9, <1>10, FS_Subset
<1>12. Cardinality(New(c)) \in Nat /\ Cardinality(G) \in Nat /\ Cardinality(F) \in Nat
  BY <1>5, <1>9, <1>11, FS_CardinalityType
<1> QED
  BY <1>3, <1>5, <1>9, <1>11, <1>12

\* The member functions of the classes up to one.
Pairs(c) == UNION {{a} \X MemberFunctions(a) : a \in 1..c}

LEMMA PairsGrow ==
  ASSUME \A x \in Classes : decl[x] \in Declaration,
         NEW c \in Classes, NEW b \in 0..N, b < c
  PROVE  /\ IsFiniteSet(Pairs(b)) /\ IsFiniteSet(Pairs(c))
         /\ Cardinality(Pairs(b)) \in Nat /\ Cardinality(Pairs(c)) \in Nat
         /\ Cardinality(Pairs(b)) + Cardinality(MemberFunctions(c)) <= Cardinality(Pairs(c))
<1>1. N \in Nat /\ c \in 1..N /\ c \in Nat /\ b \in Nat
  BY ShapesAssumption DEF Classes
<1>2. \A x \in Classes : IsFiniteSet(MemberFunctions(x))
  BY NewFits
<1>3. ASSUME NEW n \in 0..N PROVE IsFiniteSet(Pairs(n))
  <2>1. PICK f : f = [a \in 1..n |-> {a} \X MemberFunctions(a)]
    OBVIOUS
  <2>2. PICK F : F = {f[a] : a \in 1..n}
    OBVIOUS
  <2>3. n \in Int /\ 1 \in Int
    OBVIOUS
  <2>4. IsFiniteSet(1..n)
    BY <2>3, FS_Interval
  <2>5. IsFiniteSet(F)
    BY <2>2, <2>4, ImageFinite
  <2>6. ASSUME NEW a \in 1..n PROVE IsFiniteSet(f[a])
    <3>1. a \in Classes
      BY <1>1 DEF Classes
    <3>2. IsFiniteSet({a} \X MemberFunctions(a))
      BY <1>2, <3>1, FS_Singleton, FS_Product
    <3> QED
      BY <2>1, <3>2
  <2>7. IsFiniteSet(UNION F)
    BY <2>2, <2>5, <2>6, FS_UNION
  <2>8. Pairs(n) = UNION F
    BY <2>1, <2>2 DEF Pairs
  <2> QED
    BY <2>7, <2>8
<1>4. IsFiniteSet(Pairs(b)) /\ IsFiniteSet(Pairs(c))
  BY <1>1, <1>3
<1>5. PICK M, P : M = MemberFunctions(c) /\ P = {c} \X M
  OBVIOUS
<1>6. IsFiniteSet(M) /\ Cardinality(M) \in Nat
  BY <1>2, <1>5, FS_CardinalityType
<1>7. IsFiniteSet(P) /\ Cardinality(P) = Cardinality(M)
  <2>1. IsFiniteSet({c}) /\ Cardinality({c}) = 1
    BY FS_Singleton
  <2>2. Cardinality(P) = 1 * Cardinality(M) /\ IsFiniteSet(P)
    BY <1>5, <1>6, <2>1, FS_Product
  <2> QED
    BY <1>6, <2>2
<1>8. Pairs(b) \cap P = {}
  <2> SUFFICES ASSUME NEW p \in Pairs(b), p \in P PROVE FALSE
    OBVIOUS
  <2>1. PICK a \in 1..b : p \in {a} \X MemberFunctions(a)
    BY DEF Pairs
  <2>2. p[1] = a /\ p[1] = c
    BY <1>5, <2>1
  <2> QED
    BY <1>1, <2>1, <2>2
<1>9. Pairs(b) \cup P \in SUBSET Pairs(c)
  <2>1. \A a \in 1..b : a \in 1..c
    BY <1>1
  <2>2. c \in 1..c
    BY <1>1
  <2> QED
    BY <1>5, <2>1, <2>2 DEF Pairs
<1>10. Cardinality(Pairs(b) \cup P)
         = Cardinality(Pairs(b)) + Cardinality(P) - Cardinality(Pairs(b) \cap P)
  BY <1>4, <1>7, FS_Union
<1>11. Cardinality(Pairs(b) \cap P) = 0
  BY <1>8, FS_EmptySet
<1>12. Cardinality(Pairs(b) \cup P) <= Cardinality(Pairs(c))
  BY <1>4, <1>9, FS_Subset
<1>13. Cardinality(Pairs(b)) \in Nat /\ Cardinality(Pairs(c)) \in Nat
  BY <1>4, FS_CardinalityType
<1> QED
  BY <1>4, <1>5, <1>6, <1>7, <1>10, <1>11, <1>12, <1>13

\* The numbers of a class: each its own, all below their count.
Numbered(f) ==
  /\ IsFiniteSet(DOMAIN f) /\ Cardinality(DOMAIN f) \in Nat
  /\ \A m \in DOMAIN f : f[m] \in Nat /\ f[m] < Cardinality(DOMAIN f)
  /\ IsInjective(f)

LEMMA SlotsNumbered ==
  ASSUME NEW c, decl[c] \in Declaration, Numbered(BaseSlots(c))
  PROVE  /\ Numbered(Slots(c))
         /\ DOMAIN Slots(c) = DOMAIN BaseSlots(c) \cup New(c)
         /\ \A m \in DOMAIN BaseSlots(c) : Slots(c)[m] = BaseSlots(c)[m]
         /\ Cardinality(DOMAIN Slots(c))
              = Cardinality(DOMAIN BaseSlots(c)) + Cardinality(New(c))
<1>1. PICK f, D, W : f = BaseSlots(c) /\ D = DOMAIN f /\ W = New(c)
  OBVIOUS
<1>2. PICK R : R = {p \in W \X W : Precedes(c, p[1], p[2])}
  OBVIOUS
<1>3. \A n, m \in W : <<n, m>> \in R <=> Precedes(c, n, m)
  BY <1>2
<1>4. PICK pos : pos = [m \in W |-> Cardinality({n \in W : <<n, m>> \in R})]
  OBVIOUS
<1>5. IsFiniteSet(W) /\ Cardinality(W) \in Nat
  BY <1>1, NewFits
<1>6. /\ \A n \in W : <<n, n>> \notin R
      /\ \A n, m \in W : n # m => <<n, m>> \in R \/ <<m, n>> \in R
      /\ \A n, m, p \in W : <<n, m>> \in R /\ <<m, p>> \in R => <<n, p>> \in R
  BY <1>1, <1>3, NewOrdered
<1>7. /\ \A m \in W : pos[m] \in Nat /\ pos[m] < Cardinality(W)
      /\ \A n, m \in W : pos[n] = pos[m] => n = m
  BY <1>4, <1>5, <1>6, Counted
<1>8. PICK k : k = Cardinality(D)
  OBVIOUS
<1>9. /\ IsFiniteSet(D) /\ k \in Nat
      /\ \A m \in D : f[m] \in Nat /\ f[m] < k
      /\ \A m, n \in D : f[m] = f[n] => m = n
  BY <1>1, <1>8 DEF Numbered, IsInjective
<1>10. PICK g : g = Slots(c)
  OBVIOUS
<1>11. DOMAIN g = D \cup W
  BY <1>1, <1>10 DEF Slots, New
<1>12. \A m \in D : g[m] = f[m]
  BY <1>1, <1>10 DEF Slots
<1>13. W \cap D = {}
  BY <1>1 DEF New
<1>14. ASSUME NEW m \in W PROVE g[m] = k + pos[m]
  <2>1. {n \in W : <<n, m>> \in R} = {n \in W : Precedes(c, n, m)}
    BY <1>3
  <2>2. pos[m] = Cardinality({n \in W : Precedes(c, n, m)})
    BY <1>4, <2>1
  <2>3. g[m] = k + Cardinality({n \in W : Precedes(c, n, m)})
    BY <1>1, <1>8, <1>10, <1>13 DEF Slots, New
  <2> QED
    BY <2>2, <2>3
<1>15. IsFiniteSet(D \cup W) /\ Cardinality(D \cup W) = k + Cardinality(W)
  <2>1. Cardinality(D \cup W) = Cardinality(D) + Cardinality(W) - Cardinality(D \cap W)
        /\ IsFiniteSet(D \cup W)
    BY <1>5, <1>9, FS_Union
  <2>2. Cardinality(D \cap W) = 0
    BY <1>13, FS_EmptySet
  <2> QED
    BY <1>5, <1>8, <1>9, <2>1, <2>2
<1>16. ASSUME NEW m \in D \cup W PROVE g[m] \in Nat /\ g[m] < k + Cardinality(W)
  <2>1. CASE m \in D
    BY <1>5, <1>9, <1>12, <2>1
  <2>2. CASE m \in W
    BY <1>5, <1>7, <1>9, <1>14, <2>2
  <2> QED
    BY <2>1, <2>2
<1>17. ASSUME NEW m \in D \cup W, NEW n \in D \cup W, g[m] = g[n] PROVE m = n
  <2>1. ASSUME NEW x \in D, NEW y \in W PROVE g[x] < g[y]
    BY <1>7, <1>9, <1>12, <1>14
  <2>2. \A x \in D \cup W : g[x] \in Nat
    BY <1>16
  <2>3. CASE m \in D /\ n \in D
    BY <1>9, <1>12, <1>17, <2>3
  <2>4. CASE m \in W /\ n \in W
    <3>1. k + pos[m] = k + pos[n]
      BY <1>14, <1>17, <2>4
    <3>2. pos[m] = pos[n]
      BY <1>7, <1>9, <2>4, <3>1
    <3> QED
      BY <1>7, <2>4, <3>2
  <2>5. CASE m \in D /\ n \in W
    BY <1>17, <2>1, <2>2, <2>5
  <2>6. CASE m \in W /\ n \in D
    BY <1>17, <2>1, <2>2, <2>6
  <2> QED
    BY <2>3, <2>4, <2>5, <2>6
<1>18. Cardinality(DOMAIN g) = k + Cardinality(W) /\ Cardinality(DOMAIN g) \in Nat
  BY <1>5, <1>9, <1>11, <1>15
<1>19. IsInjective(g)
  BY <1>11, <1>17 DEF IsInjective
<1>20. Numbered(g)
  BY <1>11, <1>15, <1>16, <1>18, <1>19 DEF Numbered
<1> QED
  BY <1>1, <1>8, <1>10, <1>11, <1>12, <1>18, <1>20

LEMMA SlotsRight ==
  ASSUME Final, NEW o \in Classes
  PROVE  /\ Numbered(slots[o])
         /\ \A m \in DOMAIN slots[o] : slots[o][m] < InterfaceBase
         /\ DOMAIN slots[o] = DOMAIN BaseSlots(o) \cup New(o)
         /\ \A m \in DOMAIN BaseSlots(o) : slots[o][m] = BaseSlots(o)[m]
<1>1. PICK T : T = {c \in Classes :
         /\ Numbered(slots[c])
         /\ Cardinality(DOMAIN slots[c]) <= Cardinality(Pairs(c))}
  OBVIOUS
<1>0. N \in Nat /\ Classes = 1..N /\ \A x \in Classes : decl[x] \in Declaration
  BY FinalFacts, ShapesAssumption DEF Classes
<1>2. ASSUME NEW c \in Classes, \A b \in Classes : b < c => b \in T
      PROVE  Numbered(BaseSlots(c)) /\ c \in T
  <2>1. slots[c] = Slots(c)
    BY FinalFacts DEF Row
  <2>2. PICK b : b = IF BaseHasTable(c) THEN base[c] ELSE 0
    OBVIOUS
  <2>3. /\ b \in 0..N /\ b < c /\ Numbered(BaseSlots(c))
        /\ Cardinality(DOMAIN BaseSlots(c)) <= Cardinality(Pairs(b))
    <3>1. CASE BaseHasTable(c)
      <4>1. b = base[c] /\ HasBase(c) /\ b \in Classes /\ b < c
        BY <2>2, <3>1, FinalFacts DEF BaseHasTable
      <4>2. b \in T /\ BaseSlots(c) = slots[b]
        BY <1>2, <3>1, <4>1 DEF BaseSlots
      <4> QED
        BY <1>0, <1>1, <4>1, <4>2
    <3>2. CASE ~BaseHasTable(c)
      <4>1. BaseSlots(c) = <<>> /\ DOMAIN <<>> = {} /\ b = 0
        BY <2>2, <3>2 DEF BaseSlots
      <4>2. IsFiniteSet({}) /\ Cardinality({}) = 0
        BY FS_EmptySet
      <4>3. Numbered(BaseSlots(c))
        BY <4>1, <4>2 DEF Numbered, IsInjective
      <4>4. 1..0 = {}
        OBVIOUS
      <4>5. Pairs(0) = {}
        BY <4>4 DEF Pairs
      <4>6. DOMAIN BaseSlots(c) = {}
        BY <4>1
      <4>7. Cardinality(DOMAIN BaseSlots(c)) = 0 /\ Cardinality(Pairs(b)) = 0
        BY <4>1, <4>2, <4>5, <4>6
      <4>8. b \in 0..N /\ b < c
        BY <1>0, <4>1
      <4> QED
        BY <4>3, <4>7, <4>8
    <3> QED
      BY <3>1, <3>2
  <2>4. /\ Numbered(Slots(c))
        /\ Cardinality(DOMAIN Slots(c))
             = Cardinality(DOMAIN BaseSlots(c)) + Cardinality(New(c))
    BY <1>0, <2>3, SlotsNumbered
  <2>5. /\ Cardinality(New(c)) <= Cardinality(MemberFunctions(c))
        /\ Cardinality(New(c)) \in Nat /\ Cardinality(MemberFunctions(c)) \in Nat
    BY <1>0, NewFits
  <2>6. /\ Cardinality(Pairs(b)) \in Nat /\ Cardinality(Pairs(c)) \in Nat
        /\ Cardinality(Pairs(b)) + Cardinality(MemberFunctions(c)) <= Cardinality(Pairs(c))
    BY <1>0, <2>3, PairsGrow
  <2>7. Cardinality(DOMAIN BaseSlots(c)) \in Nat
    BY <2>3 DEF Numbered
  <2>8. Cardinality(DOMAIN Slots(c)) <= Cardinality(Pairs(c))
    BY <2>3, <2>4, <2>5, <2>6, <2>7
  <2> QED
    BY <1>1, <2>1, <2>3, <2>4, <2>8
<1>3. Classes \subseteq T
  BY <1>2, ClassInduction
<1>4. Numbered(BaseSlots(o)) /\ o \in T
  BY <1>2, <1>3
<1>5. slots[o] = Slots(o)
  BY FinalFacts DEF Row
<1>6. /\ Numbered(slots[o])
      /\ DOMAIN slots[o] = DOMAIN BaseSlots(o) \cup New(o)
      /\ \A m \in DOMAIN BaseSlots(o) : slots[o][m] = BaseSlots(o)[m]
  BY <1>0, <1>4, <1>5, SlotsNumbered
<1>7. Cardinality(DOMAIN slots[o]) <= InterfaceBase
  <2>1. Pairs(N) = UNION {{c} \X MemberFunctions(c) : c \in Classes}
    BY <1>0 DEF Pairs
  <2>2. InterfaceBase = Cardinality(Pairs(N))
    BY <2>1 DEF InterfaceBase
  <2>3. Pairs(o) \subseteq Pairs(N)
    <3>1. \A a \in 1..o : a \in 1..N
      BY <1>0
    <3> QED
      BY <3>1 DEF Pairs
  <2>4. N \in Classes /\ 0 \in 0..N /\ 0 < N /\ 0 < o
    BY <1>0, ShapesAssumption
  <2>5. /\ IsFiniteSet(Pairs(N)) /\ Cardinality(Pairs(N)) \in Nat
        /\ IsFiniteSet(Pairs(o)) /\ Cardinality(Pairs(o)) \in Nat
    BY <1>0, <2>4, PairsGrow
  <2>6. Cardinality(Pairs(o)) <= Cardinality(Pairs(N))
    BY <2>3, <2>5, FS_Subset
  <2>7. Cardinality(DOMAIN slots[o]) <= Cardinality(Pairs(o))
    BY <1>1, <1>4
  <2>8. Cardinality(DOMAIN slots[o]) \in Nat
    BY <1>6 DEF Numbered
  <2> QED
    BY <2>2, <2>5, <2>6, <2>7, <2>8
<1>8. ASSUME NEW m \in DOMAIN slots[o] PROVE slots[o][m] < InterfaceBase
  <2>1. N \in Classes /\ 0 \in 0..N /\ 0 < N
    BY <1>0, ShapesAssumption
  <2>2. InterfaceBase \in Nat
    <3>1. Pairs(N) = UNION {{c} \X MemberFunctions(c) : c \in Classes}
      BY <1>0 DEF Pairs
    <3> QED
      BY <1>0, <2>1, <3>1, PairsGrow DEF InterfaceBase
  <2>3. slots[o][m] \in Nat /\ slots[o][m] < Cardinality(DOMAIN slots[o])
        /\ Cardinality(DOMAIN slots[o]) \in Nat
    BY <1>6 DEF Numbered
  <2> QED
    BY <1>7, <2>2, <2>3
<1> QED
  BY <1>6, <1>8

LEMMA LayoutsRight == ASSUME Final PROVE LayoutsAgree
<1> SUFFICES ASSUME NEW o \in Classes
             PROVE  /\ HasBase(o) => /\ IsPrefix(layout[base[o]], layout[o])
                                     /\ \A m \in DOMAIN slots[base[o]] :
                                          slots[o][m] = slots[base[o]][m]
                    /\ IsInjective(slots[o])
                    /\ \A m \in DOMAIN slots[o] : slots[o][m] < InterfaceBase
  BY DEF LayoutsAgree
<1>1. HasBase(o) => IsPrefix(layout[base[o]], layout[o])
  BY LayoutRight
<1>2. IsInjective(slots[o]) /\ \A m \in DOMAIN slots[o] : slots[o][m] < InterfaceBase
  BY SlotsRight DEF Numbered
<1>3. ASSUME HasBase(o), NEW m \in DOMAIN slots[base[o]]
      PROVE  slots[o][m] = slots[base[o]][m]
  <2>1. base[o] \in Classes
    BY <1>3, FinalFacts
  <2>2. base[o] \in withTable
    BY <1>3, <2>1, FinalTables
  <2>3. BaseSlots(o) = slots[base[o]]
    BY <1>3, <2>2 DEF BaseSlots, BaseHasTable
  <2> QED
    BY <2>3, SlotsRight
<1> QED
  BY <1>1, <1>2, <1>3

\* A slot of an ancestor is a slot of the class, with the same number.
LEMMA SlotInherited ==
  ASSUME Final, NEW o \in Classes, NEW s \in Ancestors(base, o), NEW m \in DOMAIN slots[s]
  PROVE  m \in DOMAIN slots[o] /\ slots[o][m] = slots[s][m] /\ o \in withTable
<1>0. \A c \in Classes : s \in Ancestors(base, c) => s \in Classes
  BY FinalFacts, AncestorsFacts
<1>1. s \in withTable
  BY <1>0, FinalTables
<1>2. o \in withTable
  BY <1>1, TableInherited
<1>3. PICK T : T = {c \in Classes : s \in Ancestors(base, c) =>
                      m \in DOMAIN slots[c] /\ slots[c][m] = slots[s][m]}
  OBVIOUS
<1>4. ASSUME NEW c \in Classes, \A b \in Classes : b < c => b \in T
      PROVE  c \in T
  <2> SUFFICES ASSUME s \in Ancestors(base, c), s # c
               PROVE  m \in DOMAIN slots[c] /\ slots[c][m] = slots[s][m]
    BY <1>3
  <2>1. HasBase(c) /\ s \in Ancestors(base, base[c])
    BY FinalAncestor
  <2>2. base[c] \in Classes /\ base[c] \in T
    BY <1>4, <2>1, FinalFacts
  <2>3. base[c] \in withTable
    BY <1>1, <2>1, <2>2, TableInherited
  <2>4. BaseSlots(c) = slots[base[c]]
    BY <2>1, <2>3 DEF BaseSlots, BaseHasTable
  <2>5. m \in DOMAIN BaseSlots(c) /\ BaseSlots(c)[m] = slots[s][m]
    BY <1>3, <2>1, <2>2, <2>4
  <2>6. m \in DOMAIN slots[c] /\ slots[c][m] = BaseSlots(c)[m]
    BY <2>5, SlotsRight
  <2> QED
    BY <2>5, <2>6
<1>5. Classes \subseteq T
  BY <1>4, ClassInduction
<1> QED
  BY <1>2, <1>3, <1>5

\* The class whose body an object of class c runs in a slot.
Body(c, m) == IF m = "~" THEN c ELSE Nearest(base, c, m)

\* What a class has in a slot of its own number.
LEMMA ClassEntryRight ==
  ASSUME Final, NEW c \in Classes, NEW m \in DOMAIN slots[c], NEW slot, slot = slots[c][m]
  PROVE  ClassEntry(c, slot) =
           IF m \in Filled(c) THEN <<c, m>>
           ELSE IF slot \in DOMAIN BaseTable(c) THEN BaseTable(c)[slot] ELSE Empty
<1>1. slots[c] = Slots(c)
  BY FinalFacts DEF Row
<1>2. DOMAIN slots[c] = DOMAIN BaseSlots(c) \cup New(c) /\ IsInjective(slots[c])
  BY SlotsRight DEF Numbered
<1>3. Filled(c) \subseteq DOMAIN slots[c]
  BY <1>2 DEF Filled, New
<1>4. PICK F : F = {n \in Filled(c) : Slots(c)[n] = slot}
  OBVIOUS
<1>5. ClassEntry(c, slot) =
        IF F # {} THEN <<c, CHOOSE n \in F : TRUE>>
        ELSE IF slot \in DOMAIN BaseTable(c) THEN BaseTable(c)[slot] ELSE Empty
  BY <1>4 DEF ClassEntry
<1>6. \A n \in F : n = m
  BY <1>1, <1>2, <1>3, <1>4 DEF IsInjective
<1>7. CASE m \in Filled(c)
  <2>1. F = {m}
    BY <1>1, <1>4, <1>6, <1>7
  <2>2. (CHOOSE n \in F : TRUE) = m
    BY <2>1
  <2> QED
    BY <1>5, <1>7, <2>1, <2>2
<1>8. CASE m \notin Filled(c)
  <2>1. F = {}
    BY <1>4, <1>6, <1>8
  <2> QED
    BY <1>5, <1>8, <2>1
<1> QED
  BY <1>7, <1>8

LEMMA Offsets ==
  ASSUME Final
  PROVE  /\ InterfaceBase \in Nat /\ Len(InterfaceMethods) \in Nat
         /\ \A i \in Interfaces : \A k \in DOMAIN Members[i] :
              /\ InterfaceSlot(Members[i][k]) \in 0..(Len(InterfaceMethods) - 1)
              /\ InterfaceMethods[InterfaceSlot(Members[i][k]) + 1] = Members[i][k]
<1>1. N \in Nat /\ Classes = 1..N /\ \A x \in Classes : decl[x] \in Declaration
  BY FinalFacts DEF Classes
<1>2. InterfaceBase \in Nat
  <2>1. Pairs(N) = UNION {{c} \X MemberFunctions(c) : c \in Classes}
    BY <1>1 DEF Pairs
  <2>2. N \in Classes /\ 0 \in 0..N /\ 0 < N
    BY <1>1, ShapesAssumption
  <2> QED
    BY <1>1, <2>1, <2>2, PairsGrow DEF InterfaceBase
<1>3. PICK W : W = UNION {ToSet(Members[i]) : i \in Interfaces}
  OBVIOUS
<1>4. IsFiniteSet(W)
  BY <1>3, MethodsFinite
<1>5. PICK s : s = InterfaceMethods
  OBVIOUS
<1>6. s = SetToSeq(W)
  BY <1>3, <1>5 DEF InterfaceMethods
<1>7. Len(s) \in Nat /\ \A x \in W : \E k \in 1..Len(s) : s[k] = x
  BY <1>4, <1>6, SetInSequence
<1>8. ASSUME NEW m \in W
      PROVE  InterfaceSlot(m) \in 0..(Len(s) - 1) /\ s[InterfaceSlot(m) + 1] = m
  <2>1. PICK k \in 1..Len(s) : s[k] = m
    BY <1>7
  <2>2. k - 1 \in 0..(Len(s) - 1) /\ s[(k - 1) + 1] = m
    BY <1>7, <2>1
  <2>3. \E x \in 0..(Len(s) - 1) : s[x + 1] = m
    BY <2>2
  <2> QED
    BY <1>5, <2>3 DEF InterfaceSlot
<1>9. ASSUME NEW i \in Interfaces, NEW k \in DOMAIN Members[i] PROVE Members[i][k] \in W
  BY <1>3 DEF ToSet
<1> QED
  BY <1>2, <1>5, <1>7, <1>8, <1>9

\* The slots of a table: all up to the last one taken.
LEMMA TableCovers ==
  ASSUME NEW c, NEW last \in Taken(c), last \in Nat
  PROVE  0..last \subseteq DOMAIN Table(c) /\ last \in DOMAIN Table(c)
<1>1. last \in 0..last
  OBVIOUS
<1> QED
  BY <1>1 DEF Table

LEMMA FinalNearest ==
  ASSUME Final, NEW c \in Classes, NEW m
  PROVE  /\ m \in Declared(c) => Nearest(base, c, m) = c
         /\ m \notin Declared(c) /\ HasBase(c)
              => Nearest(base, c, m) = Nearest(base, base[c], m)
         /\ m \notin Declared(c) /\ ~HasBase(c) => Nearest(base, c, m) = 0
<1>1. /\ N \in Nat /\ Analyzed = N /\ Falling(base)
      /\ HasUp(base, c) <=> HasBase(c)
  BY FinalFacts
<1>2. c \in Nat /\ c <= N
  BY <1>1 DEF Classes
<1>3. c \in Having(m) <=> m \in Declared(c)
  BY <1>1, <1>2 DEF Having
<1> QED
  BY <1>1, <1>3, NearestUnfolds

\* Every slot holds the body nearest to the class, that of the destructor its own.
LEMMA BodiesRight ==
  ASSUME Final, NEW o \in Classes, NEW m \in DOMAIN slots[o]
  PROVE  /\ slots[o][m] \in DOMAIN vtable[o]
         /\ vtable[o][slots[o][m]] = <<Body(o, m), m>>
         /\ m = "~" => decl[o].destructor # "none"
<1>1. PICK T : T = {c \in Classes : m \in DOMAIN slots[c] =>
         /\ slots[c][m] \in DOMAIN vtable[c]
         /\ vtable[c][slots[c][m]] = <<Body(c, m), m>>
         /\ m = "~" => decl[c].destructor # "none"}
  OBVIOUS
<1>2. ASSUME NEW c \in Classes, \A b \in Classes : b < c => b \in T
      PROVE  c \in T
  <2> SUFFICES ASSUME m \in DOMAIN slots[c]
               PROVE  /\ slots[c][m] \in DOMAIN vtable[c]
                      /\ vtable[c][slots[c][m]] = <<Body(c, m), m>>
                      /\ m = "~" => decl[c].destructor # "none"
    BY <1>1
  <2>1. /\ slots[c] = Slots(c) /\ vtable[c] = Table(c) /\ decl[c] \in Declaration
        /\ HasBase(c) => base[c] \in Classes /\ base[c] < c
    BY FinalFacts DEF Row
  <2>2. HasSlots(c)
    BY FinalTables
  <2>3. PICK slot : slot = slots[c][m]
    OBVIOUS
  <2>4. slot \in Nat /\ slot < InterfaceBase /\ InterfaceBase \in Nat
    BY <2>3, SlotsRight, Offsets DEF Numbered
  <2>5. /\ m \in DOMAIN BaseSlots(c) \cup New(c)
        /\ m \in DOMAIN BaseSlots(c) => slot = BaseSlots(c)[m]
    BY <2>3, SlotsRight
  <2>6. ASSUME m \in DOMAIN BaseSlots(c)
        PROVE  /\ HasBase(c) /\ slot \in DOMAIN BaseTable(c)
               /\ BaseTable(c)[slot] = <<Body(base[c], m), m>>
               /\ m = "~" => decl[base[c]].destructor # "none"
    <3>1. BaseHasTable(c)
      BY <2>6 DEF BaseSlots
    <3>2. /\ HasBase(c) /\ BaseSlots(c) = slots[base[c]] /\ BaseTable(c) = vtable[base[c]]
      BY <3>1 DEF BaseSlots, BaseTable, BaseHasTable
    <3>3. base[c] \in T
      BY <1>2, <2>1, <3>2
    <3> QED
      BY <1>1, <2>5, <2>6, <3>2, <3>3
  <2>7. m = "~" => decl[c].destructor # "none"
    <3> SUFFICES ASSUME m = "~" PROVE decl[c].destructor # "none"
      OBVIOUS
    <3>1. CASE m \in DOMAIN BaseSlots(c)
      BY <2>6, <3>1, FinalFacts
    <3>2. CASE m \in New(c)
      <4>1. "~" \notin Declared(c)
        BY <2>1, DeclaredNames
      <4>2. decl[c].destructor = "virtual"
        BY <2>2, <3>2, <4>1 DEF New, Slotted
      <4> QED
        BY <4>2
    <3> QED
      BY <2>5, <3>1, <3>2
  <2>8. slot \in DOMAIN Table(c)
    <3>1. CASE m \in Slotted(c)
      <4>1. slot \in Taken(c)
        BY <2>1, <2>3, <3>1 DEF Taken
      <4> QED
        BY <2>4, <4>1, TableCovers
    <3>2. CASE m \notin Slotted(c)
      <4>1. slot \in DOMAIN BaseTable(c)
        BY <2>5, <2>6, <3>2 DEF New
      <4>2. slot \in Taken(c)
        BY <4>1 DEF Taken
      <4> QED
        BY <2>4, <4>2, TableCovers
    <3> QED
      BY <3>1, <3>2
  <2>9. Table(c)[slot] = ClassEntry(c, slot)
    <3>1. slot \notin InterfaceBase..((InterfaceBase + Len(InterfaceMethods)) - 1)
      BY <2>4
    <3>2. Entry(c, slot) = ClassEntry(c, slot)
      BY <3>1 DEF Entry
    <3> QED
      BY <2>8, <3>2 DEF Table
  <2>10. ClassEntry(c, slot) =
           IF m \in Filled(c) THEN <<c, m>>
           ELSE IF slot \in DOMAIN BaseTable(c) THEN BaseTable(c)[slot] ELSE Empty
    BY <2>3, ClassEntryRight
  <2>11. CASE m \in Slotted(c)
    <3>1. m \in Filled(c)
      BY <2>7, <2>11 DEF Filled
    <3>2. Body(c, m) = c
      <4>1. CASE m = "~"
        BY <4>1 DEF Body
      <4>2. CASE m # "~"
        <5>1. m \in Declared(c)
          BY <2>11, <4>2 DEF Slotted
        <5> QED
          BY <4>2, <5>1, FinalNearest DEF Body
      <4> QED
        BY <4>1, <4>2
    <3> QED
      BY <2>1, <2>3, <2>7, <2>8, <2>9, <2>10, <3>1, <3>2
  <2>12. CASE m \notin Slotted(c)
    <3>1. m \in DOMAIN BaseSlots(c)
      BY <2>5, <2>12 DEF New
    <3>2. m # "~" /\ m \notin Declared(c)
      BY <2>2, <2>12, <3>1 DEF Slotted
    <3>3. m \notin Filled(c)
      BY <2>12 DEF Filled
    <3>4. Body(c, m) = Body(base[c], m)
      BY <2>6, <3>1, <3>2, FinalNearest DEF Body
    <3> QED
      BY <2>1, <2>3, <2>6, <2>7, <2>8, <2>9, <2>10, <3>1, <3>3, <3>4
  <2> QED
    BY <2>11, <2>12
<1>3. Classes \subseteq T
  BY <1>2, ClassInduction
<1> QED
  BY <1>1, <1>3

\* The methods of interfaces, in the classes that have an interface among their bases.
WithInterface(c) == \E a \in Ancestors(base, c) : decl[a].interfaces # {}

LEMMA InterfacesRight ==
  ASSUME Final, NEW o \in Classes, WithInterface(o),
         NEW i \in Interfaces, NEW k \in DOMAIN Members[i],
         NEW m, m = Members[i][k], Nearest(base, o, m) # 0
  PROVE  /\ o \in withTable
         /\ InterfaceBase + InterfaceSlot(m) \in DOMAIN vtable[o]
         /\ vtable[o][InterfaceBase + InterfaceSlot(m)] = <<Nearest(base, o, m), m>>
<1>0. PICK at, last, x : /\ at = InterfaceBase + InterfaceSlot(m)
                         /\ last = (InterfaceBase + Len(InterfaceMethods)) - 1
                         /\ x = InterfaceSlot(m)
  OBVIOUS
<1>1. /\ InterfaceBase \in Nat /\ at \in Nat /\ last \in Nat
      /\ at \in InterfaceBase..last /\ at \in 0..last
      /\ InterfaceMethods[at - InterfaceBase + 1] = m
  <2>1. /\ InterfaceBase \in Nat /\ Len(InterfaceMethods) \in Nat
        /\ x \in 0..(Len(InterfaceMethods) - 1)
        /\ InterfaceMethods[x + 1] = m
    BY <1>0, Offsets
  <2>2. at - InterfaceBase + 1 = x + 1
    BY <1>0, <2>1
  <2> QED
    BY <1>0, <2>1, <2>2
<1>2. PICK T : T = {c \in Classes : WithInterface(c) =>
        /\ c \in withTable
        /\ 0..last \subseteq DOMAIN vtable[c]
        /\ Nearest(base, c, m) # 0 => vtable[c][at] = <<Nearest(base, c, m), m>>}
  OBVIOUS
<1>3. ASSUME NEW c \in Classes, \A b \in Classes : b < c => b \in T
      PROVE  c \in T
  <2> SUFFICES ASSUME WithInterface(c)
               PROVE  /\ c \in withTable
                      /\ 0..last \subseteq DOMAIN vtable[c]
                      /\ Nearest(base, c, m) # 0
                           => vtable[c][at] = <<Nearest(base, c, m), m>>
    BY <1>2
  <2>1. vtable[c] = Table(c) /\ slots[c] = Slots(c)
    BY FinalFacts DEF Row
  <2>2. ASSUME decl[c].interfaces = {}
        PROVE  /\ HasBase(c) /\ BaseHasTable(c) /\ BaseTable(c) = vtable[base[c]]
               /\ 0..last \subseteq DOMAIN BaseTable(c)
               /\ Nearest(base, base[c], m) # 0
                    => BaseTable(c)[at] = <<Nearest(base, base[c], m), m>>
    <3>1. PICK a \in Ancestors(base, c) : decl[a].interfaces # {}
      BY DEF WithInterface
    <3>2. HasBase(c) /\ a \in Ancestors(base, base[c])
      BY <2>2, <3>1, FinalAncestor
    <3>3. WithInterface(base[c])
      BY <3>1, <3>2 DEF WithInterface
    <3>4. base[c] \in Classes /\ base[c] \in T
      BY <1>3, <3>2, FinalFacts
    <3>5. BaseHasTable(c)
      BY <1>2, <3>2, <3>3, <3>4 DEF BaseHasTable
    <3>6. BaseTable(c) = vtable[base[c]]
      BY <3>5 DEF BaseTable
    <3> QED
      BY <1>2, <3>2, <3>3, <3>4, <3>5, <3>6
  <2>3. c \in withTable
    <3>1. CASE decl[c].interfaces = {}
      BY <2>2, <3>1, FinalTables
    <3>2. CASE decl[c].interfaces # {}
      BY <3>2, FinalTables
    <3> QED
      BY <3>1, <3>2
  <2>4. 0..last \subseteq DOMAIN Table(c)
    <3>1. last \in Taken(c)
      <4>1. CASE decl[c].interfaces = {}
        <5>1. last \in 0..last
          BY <1>1
        <5> QED
          BY <2>2, <4>1, <5>1 DEF Taken
      <4>2. CASE decl[c].interfaces # {}
        <5>1. last \in 0..last
          BY <1>1
        <5> QED
          BY <1>0, <4>2, <5>1 DEF Taken
      <4> QED
        BY <4>1, <4>2
    <3> QED
      BY <1>1, <3>1, TableCovers
  <2>5. ASSUME Nearest(base, c, m) # 0
        PROVE  Table(c)[at] = <<Nearest(base, c, m), m>>
    <3>1. Table(c)[at] = Entry(c, at)
      BY <1>1, <2>4 DEF Table
    <3>2. Entry(c, at) = NearestEntry(c, m, ClassEntry(c, at))
      BY <1>0, <1>1 DEF Entry
    <3>3. CASE m \in Declared(c)
      BY <3>1, <3>2, <3>3, FinalNearest DEF NearestEntry
    <3>4. CASE m \notin Declared(c) /\ decl[c].interfaces # {}
      BY <2>5, <3>1, <3>2, <3>4 DEF NearestEntry
    <3>5. CASE m \notin Declared(c) /\ decl[c].interfaces = {}
      <4>1. Entry(c, at) = ClassEntry(c, at)
        BY <3>2, <3>5 DEF NearestEntry
      <4>2. at \in DOMAIN BaseTable(c)
        BY <1>1, <2>2, <3>5
      <4>3. {n \in Filled(c) : Slots(c)[n] = at} = {}
        <5>1. Filled(c) \subseteq DOMAIN slots[c]
          BY SlotsRight DEF Filled, New
        <5>2. \A n \in DOMAIN slots[c] : slots[c][n] \in Nat /\ slots[c][n] < InterfaceBase
          BY SlotsRight DEF Numbered
        <5> QED
          BY <1>1, <2>1, <5>1, <5>2
      <4>4. ClassEntry(c, at) = BaseTable(c)[at]
        BY <4>2, <4>3 DEF ClassEntry
      <4>5. Nearest(base, c, m) = Nearest(base, base[c], m)
        BY <2>2, <3>5, FinalNearest
      <4> QED
        BY <2>2, <2>5, <3>1, <3>5, <4>1, <4>4, <4>5
    <3> QED
      BY <3>3, <3>4, <3>5
  <2> QED
    BY <2>1, <2>3, <2>4, <2>5
<1>4. Classes \subseteq T
  BY <1>3, ClassInduction
<1> QED
  BY <1>0, <1>1, <1>2, <1>4

LEMMA CallsRight == ASSUME Final PROVE CallsReachOverride
<1> SUFFICES ASSUME NEW o \in Classes
      PROVE  /\ \A s \in Ancestors(base, o) : \A m \in Declared(s) :
                  Dispatched(s, m) => Called(o, s, m) = <<Nearest(base, o, m), m>>
             /\ \A i \in Interfaces : \A k \in DOMAIN Members[i] :
                  Implements(o, i) /\ Nearest(base, o, Members[i][k]) # 0
                    => InterfaceCalled(o, Members[i][k])
                         = <<Nearest(base, o, Members[i][k]), Members[i][k]>>
  BY DEF CallsReachOverride
<1>1. Falling(base) /\ extends = base
  BY FinalFacts
<1>2. ASSUME NEW s \in Ancestors(base, o), NEW m \in Declared(s), Dispatched(s, m)
      PROVE  Called(o, s, m) = <<Nearest(base, o, m), m>>
  <2>1. s \in Classes
    BY <1>1, AncestorsFacts
  <2>2. Nearest(base, s, m) = s
    BY <2>1, FinalNearest
  <2>3. m \in Marked(s)
    BY <1>1, <1>2, <2>2 DEF Dispatched
  <2>4. s \in withTable
    BY <2>1, <2>3, FinalTables
  <2>5. m \in DOMAIN slots[s]
    <3>1. HasSlots(s) /\ slots[s] = Slots(s)
      BY <2>1, <2>4, FinalTables, FinalFacts DEF Row
    <3>2. m \in Slotted(s)
      BY <2>3, <3>1 DEF Slotted
    <3> QED
      BY <2>1, <3>2, SlotsRight DEF New
  <2>6. m \in DOMAIN slots[o] /\ slots[o][m] = slots[s][m] /\ o \in withTable
    BY <2>5, SlotInherited
  <2>7. layout[o][1] = Vptr
    BY <2>6, LayoutRight
  <2>8. /\ slots[o][m] \in DOMAIN vtable[o]
        /\ vtable[o][slots[o][m]] = <<Body(o, m), m>>
    BY <2>6, BodiesRight
  <2>9. m # "~"
    BY <2>1, DeclaredNames, FinalFacts
  <2>10. Called(o, s, m) = Read(o, slots[s][m])
    BY <1>2, <2>5 DEF Called
  <2> QED
    BY <2>6, <2>7, <2>8, <2>9, <2>10 DEF Read, Body
<1>3. ASSUME NEW i \in Interfaces, NEW k \in DOMAIN Members[i], Implements(o, i),
             Nearest(base, o, Members[i][k]) # 0
      PROVE  InterfaceCalled(o, Members[i][k])
               = <<Nearest(base, o, Members[i][k]), Members[i][k]>>
  <2>1. PICK m : m = Members[i][k]
    OBVIOUS
  <2>2. WithInterface(o)
    BY <1>1, <1>3 DEF Implements, WithInterface
  <2>3. /\ o \in withTable
        /\ InterfaceBase + InterfaceSlot(m) \in DOMAIN vtable[o]
        /\ vtable[o][InterfaceBase + InterfaceSlot(m)] = <<Nearest(base, o, m), m>>
    BY <1>3, <2>1, <2>2, InterfacesRight
  <2>4. layout[o][1] = Vptr
    BY <2>3, LayoutRight
  <2> QED
    BY <2>1, <2>3, <2>4 DEF InterfaceCalled, Read
<1> QED
  BY <1>2, <1>3

\* The destructors that a destructor runs: those of all bases that have one.
LEMMA DestructorsRun ==
  ASSUME Final, NEW o \in Classes, NEW d, d = Destructors(o)
  PROVE  /\ ToSet(d) = {a \in Ancestors(base, o) : decl[a].destructor # "none"}
         /\ \A j, k \in DOMAIN d : j < k => d[k] \in Ancestors(base, d[j]) \ {d[j]}
<1>1. PICK s : s = Line(base, o)
  OBVIOUS
<1>2. PICK l : l = Len(s)
  OBVIOUS
<1>3. /\ Path(base, s) /\ s \in Seq(Nat) /\ l \in Nat \ {0} /\ DOMAIN s = 1..l
      /\ \A j \in 1..l : s[j] \in Classes
  <2>1. Falling(base) /\ N \in Nat /\ Classes = 1..N
    BY FinalFacts DEF Classes
  <2>2. /\ Path(base, s) /\ s \in Seq(Nat) /\ l \in 1..o /\ DOMAIN s = 1..l
        /\ \A j \in 1..l : s[j] \in 1..o
    BY <1>1, <1>2, <2>1, LineEnds
  <2>3. \A x \in 1..o : x \in 1..N /\ x \in Nat \ {0}
    BY <2>1
  <2> QED
    BY <2>1, <2>2, <2>3
<1>4. PICK H : H = {j \in 1..l : decl[s[j]].destructor # "none"}
  OBVIOUS
<1>5. ASSUME NEW j \in 1..l, j < l, j + 1 \in H PROVE j \in H
  <2>1. HasUp(base, s[j]) /\ s[j + 1] = base[s[j]]
    BY <1>2, <1>3, <1>5 DEF Path
  <2>2. HasBase(s[j]) /\ decl[base[s[j]]].destructor # "none"
    BY <1>3, <1>4, <1>5, <2>1, FinalFacts
  <2> QED
    BY <1>3, <1>4, <2>2, FinalFacts
<1>6. PICK Ends : Ends = {k \in 0..l : /\ \A j \in 1..k : j \in H
                                       /\ k = l \/ k + 1 \notin H}
  OBVIOUS
<1>7. Ends # {}
  <2>1. PICK K : K = {k \in 0..l : k = l \/ k + 1 \notin H}
    OBVIOUS
  <2>2. K \in SUBSET Nat /\ l \in K
    BY <1>3, <2>1
  <2>3. PICK k \in K : \A x \in K : k <= x
    BY <2>2, LeastNumber
  <2>4. ASSUME NEW j \in 1..k, j \notin H PROVE FALSE
    <3>1. j - 1 \in 0..l /\ (j - 1) + 1 = j
      BY <1>3, <2>1
    <3>2. j - 1 \in K
      BY <2>1, <2>4, <3>1
    <3> QED
      BY <2>2, <2>3, <3>2
  <2> QED
    BY <1>6, <2>1, <2>4
<1>8. PICK last : last = CHOOSE k \in 0..Len(s) :
                    /\ \A j \in 1..k : decl[s[j]].destructor # "none"
                    /\ k = Len(s) \/ decl[s[k + 1]].destructor = "none"
  OBVIOUS
<1>9. d = SubSeq(s, 1, last)
  BY <1>1, <1>8 DEF Destructors
<1>10. /\ last \in 0..l /\ \A j \in 1..last : j \in H
       /\ last = l \/ last + 1 \notin H
  <2>1. PICK e \in Ends : TRUE
    BY <1>7
  <2>2. \A j \in 1..e : decl[s[j]].destructor # "none"
    BY <1>4, <1>6, <2>1
  <2>3. e = Len(s) \/ decl[s[e + 1]].destructor = "none"
    <3>1. e = l \/ (e + 1 \in 1..l /\ e + 1 \notin H)
      BY <1>3, <1>6, <2>1
    <3> QED
      BY <1>2, <1>4, <3>1
  <2>4. /\ last \in 0..l
        /\ \A j \in 1..last : decl[s[j]].destructor # "none"
        /\ last = l \/ decl[s[last + 1]].destructor = "none"
    BY <1>2, <1>6, <1>8, <2>1, <2>2, <2>3
  <2>5. \A j \in 1..last : j \in 1..l
    BY <1>3, <2>4
  <2> QED
    BY <1>4, <2>4, <2>5
<1>11. last \in Nat
  BY <1>10
<1>12. ASSUME NEW j \in H PROVE j <= last
  <2> SUFFICES ASSUME last < j PROVE FALSE
    BY <1>3, <1>4, <1>11
  <2>1. j \in 1..l /\ last + 1 \notin H
    BY <1>3, <1>4, <1>10, <1>11
  <2>2. PICK n : n = j - (last + 1)
    OBVIOUS
  <2>3. n \in Nat /\ last + 1 + n = j
    BY <1>11, <2>1, <2>2
  <2>4. PICK T : T = {k \in 0..n : last + 1 + k \notin H}
    OBVIOUS
  <2>5. 0 \in T
    BY <1>11, <2>1, <2>3, <2>4
  <2>6. ASSUME NEW k \in 0..n, k \in T, k < n PROVE k + 1 \in T
    <3>1. /\ last + 1 + k \in 1..l /\ last + 1 + k < l /\ k + 1 \in 0..n
          /\ (last + 1 + k) + 1 = last + 1 + (k + 1)
      BY <1>3, <1>11, <2>1, <2>3, <2>6
    <3>2. (last + 1 + k) + 1 \notin H
      BY <1>5, <2>4, <2>6, <3>1
    <3> QED
      BY <2>4, <3>1, <3>2
  <2>7. 0..n \subseteq T
    BY <2>3, <2>5, <2>6, Induction
  <2> QED
    BY <2>3, <2>4, <2>7
<1>13. /\ d \in Seq(Nat) /\ Len(d) = last /\ DOMAIN d = 1..last
       /\ \A i \in 1..last : d[i] = s[i]
  <2>1. 1 \in Int /\ last \in Int /\ last - 1 + 1 = last
        /\ (IF 1 <= last THEN last - 1 + 1 ELSE 0) = last
    BY <1>11
  <2>2. \A i \in 1..last : i \in 1..l /\ 1 + i - 1 = i
    BY <1>3, <1>10
  <2>3. \A i \in 1..last : s[i] \in Nat
    BY <1>2, <1>3, <2>2, ElementOfSeq
  <2>4. /\ d \in Seq(Nat) /\ Len(d) = last
        /\ \A i \in 1..(last - 1 + 1) : d[i] = s[1 + i - 1]
    BY <1>9, <2>1, <2>3, SubSeqProperties
  <2>5. DOMAIN d = 1..last
    BY <2>4, LenProperties
  <2> QED
    BY <2>1, <2>2, <2>4, <2>5
<1>14. ToSet(d) = {a \in Ancestors(base, o) : decl[a].destructor # "none"}
  <2>1. ASSUME NEW a \in ToSet(d)
        PROVE  a \in Ancestors(base, o) /\ decl[a].destructor # "none"
    <3>1. PICK i \in 1..last : a = s[i]
      BY <1>13, <2>1 DEF ToSet
    <3>2. i \in H
      BY <1>10
    <3> QED
      BY <1>1, <1>3, <1>4, <3>1, <3>2 DEF Ancestors, ToSet
  <2>2. ASSUME NEW a \in Ancestors(base, o), decl[a].destructor # "none"
        PROVE  a \in ToSet(d)
    <3>1. PICK i \in 1..l : a = s[i]
      BY <1>1, <1>3 DEF Ancestors, ToSet
    <3>2. i \in H
      BY <1>4, <2>2, <3>1
    <3>3. i \in 1..last
      BY <1>3, <1>11, <1>12, <3>2
    <3> QED
      BY <1>13, <3>1, <3>3 DEF ToSet
  <2> QED
    BY <2>1, <2>2
<1>15. ASSUME NEW j \in DOMAIN d, NEW k \in DOMAIN d, j < k
       PROVE  d[k] \in Ancestors(base, d[j]) \ {d[j]}
  <2>1. j \in 1..Len(s) /\ k \in 1..Len(s) /\ d[j] = s[j] /\ d[k] = s[k]
    BY <1>2, <1>3, <1>10, <1>13
  <2>2. Falling(base)
    BY FinalFacts
  <2>3. s[k] \in Ancestors(base, s[j]) \ {s[j]}
    BY <1>1, <1>15, <2>1, <2>2, LineOrder
  <2> QED
    BY <2>1, <2>3
<1> QED
  BY <1>14, <1>15

LEMMA DestructorsRight == ASSUME Final PROVE DestructorsComplete
<1> SUFFICES ASSUME NEW o \in Classes, NEW s \in Ancestors(base, o),
                    o = s \/ "~" \in DOMAIN slots[s], NEW d, d = Deleted(o, s)
             PROVE  /\ ToSet(d) = {a \in Ancestors(base, o) : decl[a].destructor # "none"}
                    /\ \A j, k \in DOMAIN d :
                         j < k => d[k] \in Ancestors(base, d[j]) \ {d[j]}
  BY DEF DestructorsComplete
<1>1. CASE "~" \in DOMAIN slots[s]
  <2>1. "~" \in DOMAIN slots[o] /\ slots[o]["~"] = slots[s]["~"] /\ o \in withTable
    BY <1>1, SlotInherited
  <2>2. /\ slots[o]["~"] \in DOMAIN vtable[o]
        /\ vtable[o][slots[o]["~"]] = <<o, "~">>
    BY <2>1, BodiesRight DEF Body
  <2>3. Read(o, slots[s]["~"]) = <<o, "~">>
    BY <2>1, <2>2, LayoutRight DEF Read
  <2>4. o # 0
    BY FinalFacts DEF Classes
  <2>5. <<o, "~">> # Empty /\ <<o, "~">>[1] = o
    BY <2>4 DEF Empty
  <2>6. d = Destructors(o)
    BY <1>1, <2>3, <2>5 DEF Deleted
  <2> QED
    BY <2>6, DestructorsRun
<1>2. CASE "~" \notin DOMAIN slots[s]
  <2>1. d = Destructors(o)
    BY <1>2 DEF Deleted
  <2> QED
    BY <2>1, DestructorsRun
<1> QED
  BY <1>1, <1>2

LEMMA CatchesRight == ASSUME Final PROVE CatchesDynamicType
<1> SUFFICES ASSUME NEW o \in Classes, NEW s \in Ancestors(base, o) \cap withTable
             PROVE  /\ \A c \in Classes :
                         CaughtAsClass(o, s, c) <=> c \in Ancestors(base, o)
                    /\ \A i \in Interfaces : CaughtAsInterface(o, s, i) <=> Implements(o, i)
  BY DEF CatchesDynamicType
<1>1. Falling(base) /\ extends = base
  BY FinalFacts
<1>2. /\ s \in Classes /\ Ancestors(base, s) \subseteq Ancestors(base, o)
      /\ s \in withTable
  BY <1>1, AncestorsFacts
<1>3. layout[o][1] = Vptr
  BY <1>2, TableInherited, LayoutRight
<1>4. ASSUME NEW A, s \in A => o \in A PROVE Caught(o, s, A) <=> o \in A
  BY <1>2, <1>3, <1>4 DEF Caught
<1>5. ASSUME NEW c \in Classes PROVE CaughtAsClass(o, s, c) <=> c \in Ancestors(base, o)
  <2>1. PICK A : A = {a \in Classes : IsSubclass(a, c)}
    OBVIOUS
  <2>2. s \in A => o \in A
    BY <1>2, <2>1 DEF IsSubclass
  <2>3. CaughtAsClass(o, s, c) <=> Caught(o, s, A)
    BY <2>1 DEF CaughtAsClass
  <2>4. o \in A <=> c \in Ancestors(base, o)
    BY <2>1 DEF IsSubclass
  <2> QED
    BY <1>4, <2>2, <2>3, <2>4
<1>6. ASSUME NEW i \in Interfaces PROVE CaughtAsInterface(o, s, i) <=> Implements(o, i)
  <2>1. PICK A : A = {a \in Classes : HasInterface(a, i)}
    OBVIOUS
  <2>2. s \in A => o \in A
    BY <1>2, <2>1 DEF HasInterface
  <2>3. CaughtAsInterface(o, s, i) <=> Caught(o, s, A)
    BY <2>1 DEF CaughtAsInterface
  <2>4. o \in A <=> Implements(o, i)
    BY <1>1, <2>1 DEF HasInterface, Implements
  <2> QED
    BY <1>4, <2>2, <2>3, <2>4
<1> QED
  BY <1>5, <1>6

----------------------------------------------------------------------------
(***************************************************************************)
(* No class is its own proper ancestor.  A class whose base leads back to  *)
(* it is cut off from its base, so a cycle that the class closes would     *)
(* have been found along the line of its base.                             *)
(***************************************************************************)

\* A path from a to y of at least one step and at most N.
Leads(up, s, a, y) ==
  Path(up, s) /\ s[1] = a /\ s[Len(s)] = y /\ Len(s) \in 2..(N + 1)

LEMMA OnTail ==
  ASSUME NEW up, Ups(up), NEW a \in Nat, NEW y
  PROVE  y \in ToSet(Tail(Line(up, a))) <=> \E s : Leads(up, s, a, y)
<1>1. PICK t : t = Line(up, a)
  OBVIOUS
<1>2. PICK l : l = Len(t)
  OBVIOUS
<1>3. /\ Path(up, t) /\ t \in Seq(Nat) /\ l \in Nat \ {0} /\ t[1] = a
      /\ l <= N + 1 /\ N \in Nat
  BY <1>1, <1>2, LineFacts, ShapesAssumption
<1>4. PICK r : r = Tail(t)
  OBVIOUS
<1>5. /\ r \in Seq(Nat) /\ DOMAIN r = 1..(l - 1)
      /\ \A i \in 1..(l - 1) : r[i] = t[i + 1]
  <2>1. t # <<>>
    BY <1>2, <1>3
  <2>2. /\ r \in Seq(Nat) /\ Len(r) = Len(t) - 1
        /\ \A i \in 1..Len(r) : r[i] = t[i + 1]
    BY <1>3, <1>4, <2>1, HeadTailProperties
  <2>3. DOMAIN r = 1..Len(r)
    BY <2>2, LenProperties
  <2> QED
    BY <1>2, <2>2, <2>3
<1>6. ASSUME y \in ToSet(r) PROVE \E s : Leads(up, s, a, y)
  <2>1. PICK i \in 1..(l - 1) : y = t[i + 1]
    BY <1>5, <1>6 DEF ToSet
  <2>2. PICK m : m = i + 1
    OBVIOUS
  <2>3. m \in 2..l /\ m \in Nat /\ 1 \in 1..m /\ m \in 1..m
    BY <1>3, <2>1, <2>2
  <2>4. PICK s : s = [k \in 1..m |-> t[k]]
    OBVIOUS
  <2>5. \A k \in 1..m : k \in 1..l /\ s[k] = t[k] /\ t[k] \in Nat
    <3>1. \A k \in 1..m : k \in 1..l
      BY <1>3, <2>3
    <3> QED
      BY <1>2, <1>3, <2>4, <3>1, PathFacts
  <2>6. s \in Seq(Nat) /\ Len(s) = m
    BY <2>3, <2>4, <2>5
  <2>7. ASSUME NEW j \in 1..Len(s), j < Len(s)
        PROVE  HasUp(up, s[j]) /\ s[j + 1] = up[s[j]]
    <3>1. j \in 1..l /\ j < l /\ j + 1 \in 1..m /\ j \in 1..m
      BY <1>3, <2>3, <2>6, <2>7
    <3>2. HasUp(up, t[j]) /\ t[j + 1] = up[t[j]]
      BY <1>2, <1>3, <3>1 DEF Path
    <3> QED
      BY <2>5, <3>1, <3>2
  <2>8. Path(up, s)
    BY <2>3, <2>6, <2>7 DEF Path
  <2>9. s[1] = a /\ s[Len(s)] = y
    BY <1>3, <2>1, <2>2, <2>3, <2>5, <2>6
  <2>10. Len(s) \in 2..(N + 1)
    BY <1>3, <2>3, <2>6
  <2> QED
    BY <2>8, <2>9, <2>10 DEF Leads
<1>7. ASSUME NEW s, Leads(up, s, a, y) PROVE y \in ToSet(r)
  <2>1. PICK m : m = Len(s)
    OBVIOUS
  <2>2. Path(up, s) /\ s[1] = a /\ s[m] = y /\ m \in 2..(N + 1) /\ m <= N + 1
    BY <1>3, <1>7, <2>1 DEF Leads
  <2>3. m <= l /\ \A j \in 1..m : t[j] = s[j]
    BY <1>1, <1>2, <2>1, <2>2, OnLine
  <2>4. m \in 1..m /\ m - 1 \in 1..(l - 1) /\ (m - 1) + 1 = m
    BY <1>3, <2>2, <2>3
  <2>5. r[m - 1] = y
    BY <1>5, <2>2, <2>3, <2>4
  <2> QED
    BY <1>5, <2>4, <2>5 DEF ToSet
<1> QED
  BY <1>1, <1>4, <1>6, <1>7

\* A relation that one class x has been added to.
Grown(up, vp, x, b) ==
  /\ Ups(up) /\ Ups(vp)
  /\ \A y \in Nat : y # x => /\ HasUp(vp, y) <=> HasUp(up, y)
                             /\ HasUp(vp, y) => vp[y] = up[y]
  /\ HasUp(vp, x) => vp[x] = b

\* A path of the old relation, given its elements.
LEMMA PathOfGrown ==
  ASSUME NEW up, NEW vp, NEW x, NEW b, Grown(up, vp, x, b), NEW q, NEW m \in Nat \ {0},
         q \in [1..m -> Nat],
         \A i \in 1..m : i < m => q[i] # x /\ HasUp(vp, q[i]) /\ q[i + 1] = vp[q[i]]
  PROVE  Path(up, q) /\ Len(q) = m
<1>1. q \in Seq(Nat) /\ Len(q) = m
  OBVIOUS
<1>2. ASSUME NEW i \in 1..Len(q), i < Len(q)
      PROVE  HasUp(up, q[i]) /\ q[i + 1] = up[q[i]]
  <2>1. q[i] \in Nat /\ q[i] # x /\ HasUp(vp, q[i]) /\ q[i + 1] = vp[q[i]]
    BY <1>1, <1>2
  <2> QED
    BY <2>1 DEF Grown
<1> QED
  BY <1>1, <1>2 DEF Path

LEMMA NoNewCycle ==
  ASSUME NEW up, NEW vp, NEW x \in Nat, NEW b \in Nat, Grown(up, vp, x, b),
         NEW c \in Nat, NEW s, Leads(vp, s, c, c), c = x => b # x
  PROVE  \/ Leads(up, s, c, c) /\ c # x
         \/ \E q : Leads(up, q, b, x)
<1>1. PICK l : l = Len(s)
  OBVIOUS
<1>2. /\ l \in Nat /\ l \in 2..(N + 1) /\ s[1] = c /\ s[l] = c /\ N \in Nat
      /\ s \in [1..l -> Nat]
      /\ \A i \in 1..l : i < l => HasUp(vp, s[i]) /\ s[i + 1] = vp[s[i]]
  <2>1. Path(vp, s) /\ l \in 2..(N + 1) /\ s[1] = c /\ s[l] = c
    BY <1>1 DEF Leads
  <2>2. s \in Seq(Nat) /\ l \in Nat
    BY <1>1, <2>1, PathFacts
  <2>3. s \in [1..l -> Nat]
    BY <1>1, <2>2, LenProperties
  <2> QED
    BY <1>1, <2>1, <2>2, <2>3, ShapesAssumption DEF Path
<1>3. PICK At : At = {j \in 1..l : j < l /\ s[j] = x}
  OBVIOUS
<1>4. CASE At = {}
  <2>1. \A i \in 1..l : i < l => s[i] # x
    BY <1>3, <1>4
  <2>2. Path(up, s)
    BY <1>2, <2>1, PathOfGrown
  <2>3. 1 \in 1..l /\ 1 < l
    BY <1>2
  <2> QED
    BY <1>1, <1>2, <2>1, <2>2, <2>3 DEF Leads
<1>5. CASE At # {}
  <2>1. PICK Back : Back = {k \in 1..l : l - k \in At}
    OBVIOUS
  <2>2. Back \in SUBSET Nat /\ Back # {}
    <3>1. PICK j \in At : TRUE
      BY <1>5
    <3>2. l - j \in 1..l /\ l - (l - j) = j
      BY <1>2, <1>3, <3>1
    <3> QED
      BY <2>1, <3>1, <3>2
  <2>3. PICK k \in Back : \A i \in Back : k <= i
    BY <2>2, LeastNumber
  <2>4. PICK j : j = l - k
    OBVIOUS
  <2>5. j \in 1..l /\ j < l /\ s[j] = x /\ j \in Nat
    BY <1>2, <1>3, <2>1, <2>3, <2>4
  <2>6. ASSUME NEW i \in 1..l, j < i, i < l PROVE s[i] # x
    <3> SUFFICES ASSUME s[i] = x PROVE FALSE
      OBVIOUS
    <3>1. i \in At /\ l - i \in 1..l /\ l - (l - i) = i
      BY <1>2, <1>3, <2>5, <2>6
    <3>2. l - i \in Back
      BY <2>1, <3>1
    <3>3. k <= l - i /\ k \in Nat
      BY <2>2, <2>3, <3>2
    <3>4. i \in Nat
      BY <1>2
    <3> QED
      BY <1>2, <2>4, <2>6, <3>3, <3>4
  <2>7. HasUp(vp, x) /\ s[j + 1] = b
    BY <1>2, <2>5 DEF Grown
  <2>8. CASE c = x
    <3>1. j + 1 < l
      <4>1. j + 1 # l
        BY <1>2, <2>7, <2>8
      <4> QED
        BY <1>2, <2>5, <4>1
    <3>2. PICK m : m = l - j
      OBVIOUS
    <3>3. PICK q : q = [i \in 1..m |-> s[j + i]]
      OBVIOUS
    <3>4. m \in Nat \ {0} /\ m \in 2..(N + 1) /\ 1 \in 1..m /\ m \in 1..m /\ j + m = l
      BY <1>2, <2>5, <3>1, <3>2
    <3>5. \A i \in 1..m : j + i \in 1..l
      BY <1>2, <2>5, <3>2
    <3>6. q \in [1..m -> Nat]
      BY <1>2, <3>3, <3>5
    <3>7. ASSUME NEW i \in 1..m, i < m
          PROVE  q[i] # x /\ HasUp(vp, q[i]) /\ q[i + 1] = vp[q[i]]
      <4>1. /\ j + i \in 1..l /\ j + i < l /\ j < j + i /\ i + 1 \in 1..m
            /\ j + (i + 1) = (j + i) + 1
        BY <1>2, <2>5, <3>4, <3>5, <3>7
      <4>2. q[i] = s[j + i] /\ q[i + 1] = s[(j + i) + 1]
        BY <3>3, <4>1
      <4>3. s[j + i] # x
        BY <2>6, <4>1
      <4>4. HasUp(vp, s[j + i]) /\ s[(j + i) + 1] = vp[s[j + i]]
        BY <1>2, <4>1
      <4> QED
        BY <4>2, <4>3, <4>4
    <3>10. m \in Nat \ {0}
      BY <3>4
    <3>11. \A i \in 1..m : i < m => q[i] # x /\ HasUp(vp, q[i]) /\ q[i + 1] = vp[q[i]]
      BY <3>7
    <3>8. Path(up, q) /\ Len(q) = m
      BY ONLY Grown(up, vp, x, b), <3>6, <3>10, <3>11, PathOfGrown
    <3>9. q[1] = b /\ q[m] = x
      BY <1>2, <2>7, <2>8, <3>3, <3>4
    <3> QED
      BY <3>4, <3>8, <3>9 DEF Leads
  <2>9. CASE c # x
    <3>1. At \in SUBSET Nat
      BY <1>3
    <3>2. PICK f \in At : \A i \in At : f <= i
      BY <1>5, <3>1, LeastNumber
    <3>3. f \in Nat /\ f <= j /\ s[f] = x /\ f \in 1..l /\ f # 1
      BY <1>2, <1>3, <2>5, <2>9, <3>2
    <3>4. ASSUME NEW i \in 1..l, i < f PROVE s[i] # x
      BY <1>2, <1>3, <3>2, <3>3, <3>4
    <3>5. PICK r, m : r = l - j /\ m = (l - j) + (f - 1)
      OBVIOUS
    <3>6. r \in Nat \ {0} /\ m \in Nat \ {0} /\ m \in 2..(N + 1) /\ r < m
      BY <1>2, <2>5, <3>3, <3>5
    <3>7. PICK at : at = [i \in 1..m |-> IF i <= r THEN j + i ELSE i - r + 1]
      OBVIOUS
    <3>8. PICK q : q = [i \in 1..m |-> s[at[i]]]
      OBVIOUS
    <3>9. ASSUME NEW i \in 1..m PROVE at[i] \in 1..l
      <4>1. i \in Nat \ {0} /\ i <= m /\ m = r + (f - 1) /\ f <= l /\ l = r + j
        BY <1>2, <2>5, <3>3, <3>5, <3>6
      <4>2. CASE i <= r
        <5>1. at[i] = j + i
          BY <3>7, <4>2
        <5> QED
          BY <1>2, <2>5, <3>6, <4>1, <4>2, <5>1
      <4>3. CASE ~(i <= r)
        <5>1. at[i] = i - r + 1
          BY <3>7, <4>3
        <5> QED
          BY <1>2, <3>3, <3>6, <4>1, <4>3, <5>1
      <4> QED
        BY <4>2, <4>3
    <3>10. q \in [1..m -> Nat]
      BY <1>2, <3>8, <3>9
    <3>11. ASSUME NEW i \in 1..m, i < m
           PROVE  q[i] # x /\ HasUp(vp, q[i]) /\ q[i + 1] = vp[q[i]]
      <4>1. i \in 1..m /\ i + 1 \in 1..m /\ i \in Nat
        BY <3>6, <3>11
      <4>2. CASE i < r
        <5>1. at[i] = j + i /\ at[i + 1] = (j + i) + 1
          BY <2>5, <3>6, <3>7, <4>1, <4>2
        <5>2. j + i \in 1..l /\ j < j + i /\ j + i < l
          BY <1>2, <2>5, <3>5, <4>1, <4>2
        <5>3. s[j + i] # x /\ HasUp(vp, s[j + i]) /\ s[(j + i) + 1] = vp[s[j + i]]
          BY <1>2, <2>6, <5>2
        <5> QED
          BY <3>8, <4>1, <5>1, <5>3
      <4>3. CASE i = r
        <5>1. at[i] = l /\ at[i + 1] = 2
          BY <1>2, <2>5, <3>5, <3>6, <3>7, <4>1, <4>3
        <5>2. 1 \in 1..l /\ 1 < l /\ 1 < f /\ 1 + 1 = 2
          BY <1>2, <3>3
        <5>3. s[1] # x /\ HasUp(vp, s[1]) /\ s[2] = vp[s[1]]
          BY <1>2, <2>9, <5>2
        <5>4. q[i] = s[1] /\ q[i + 1] = s[2]
          BY <1>2, <3>8, <4>1, <5>1
        <5> QED
          BY <5>3, <5>4
      <4>4. CASE r < i
        <5>1. at[i] = i - r + 1 /\ at[i + 1] = (i - r + 1) + 1
          BY <3>6, <3>7, <4>1, <4>4
        <5>2. i - r + 1 \in 1..l /\ i - r + 1 < f /\ i - r + 1 < l
          BY <1>2, <2>5, <3>3, <3>5, <3>6, <3>11, <4>1, <4>4
        <5>3. /\ s[i - r + 1] # x /\ HasUp(vp, s[i - r + 1])
              /\ s[(i - r + 1) + 1] = vp[s[i - r + 1]]
          BY <1>2, <3>4, <5>2
        <5> QED
          BY <3>8, <4>1, <5>1, <5>3
      <4> QED
        BY <3>6, <4>1, <4>2, <4>3, <4>4
    <3>12. Path(up, q) /\ Len(q) = m
      BY <3>6, <3>10, <3>11, PathOfGrown
    <3>13. q[1] = b /\ q[m] = x
      <4>1. 1 \in 1..m /\ m \in 1..m /\ 1 <= r /\ ~(m <= r) /\ m - r + 1 = f
        BY <2>5, <3>3, <3>5, <3>6
      <4>2. at[1] = j + 1 /\ at[m] = f
        BY <3>7, <4>1
      <4> QED
        BY <2>7, <3>3, <3>8, <4>1, <4>2
    <3> QED
      BY <3>6, <3>12, <3>13 DEF Leads
  <2> QED
    BY <2>8, <2>9
<1> QED
  BY <1>4, <1>5

Acyclic ==
  \A c \in 1..Len(extends) : base[c] # c => c \notin ToSet(Tail(Line(extends, c)))

LEMMA AcyclicInit == ASSUME Init PROVE Acyclic
<1>1. Len(<<>>) = 0 /\ 1..0 = {}
  OBVIOUS
<1> QED
  BY <1>1 DEF Init, Acyclic

LEMMA AcyclicStep ==
  ASSUME Analysis, Acyclic, [Next]_vars
  PROVE  Acyclic'
<1>0. N \in Nat /\ base \in [Classes -> 0..N] /\ 0..N \subseteq Nat
  BY ShapesAssumption DEF Analysis
<1>1. CASE UNCHANGED <<base, extends>>
  BY <1>1 DEF Acyclic
<1>2. ASSUME NEW d \in Declarations, AnalyzeClass(d) PROVE Acyclic'
  <2>1. PICK n, x : n = Len(decl) /\ x = n + 1
    OBVIOUS
  <2>2. PICK b : /\ b \in {0, base[x]} /\ n < N
                 /\ extends' = Append(extends, b)
                 /\ b = 0 \/ ~Circular(x, b)
                 /\ UNCHANGED base
    BY <1>2, <2>1, AnalyzeStep
  <2>3. n \in Nat /\ x \in Classes /\ x \in Nat /\ Len(extends) = n
    BY <1>0, <2>1, <2>2, LenProperties DEF Analysis, Classes
  <2>4. b \in 0..N /\ b \in Nat
    BY <1>0, <2>2, <2>3
  <2>5. /\ extends' \in Seq(0..N) /\ Len(extends') = n + 1
        /\ \A i \in 1..n : extends'[i] = extends[i]
        /\ extends'[n + 1] = b
    BY <2>2, <2>3, <2>4, AppendProperties DEF Analysis
  <2>6. PICK up, vp : up = extends /\ vp = extends'
    OBVIOUS
  <2>7. /\ DOMAIN up = 1..n /\ DOMAIN vp = 1..(n + 1)
        /\ \A i \in 1..n : up[i] \in Nat /\ vp[i] = up[i]
        /\ vp[n + 1] = b
    <3>1. DOMAIN up = 1..n /\ \A i \in 1..n : up[i] \in 0..N
      BY <2>3, <2>6, LenProperties, ElementOfSeq DEF Analysis
    <3>2. DOMAIN vp = 1..(n + 1)
      BY <2>5, <2>6, LenProperties
    <3> QED
      BY <1>0, <2>5, <2>6, <3>1, <3>2
  <2>8. Grown(up, vp, x, b)
    <3>1. Ups(up) /\ Ups(vp)
      <4>1. \A i \in 1..(n + 1) : i \in 1..n \/ i = n + 1
        BY <2>3
      <4> QED
        BY <2>4, <2>7, <4>1 DEF Ups
    <3>2. ASSUME NEW y \in Nat, y # x
          PROVE  /\ HasUp(vp, y) <=> HasUp(up, y)
                 /\ HasUp(vp, y) => vp[y] = up[y]
      <4>1. y \in 1..(n + 1) <=> y \in 1..n
        BY <2>1, <2>3, <3>2
      <4> QED
        BY <2>7, <4>1 DEF HasUp
    <3>3. HasUp(vp, x) => vp[x] = b
      BY <2>1, <2>7
    <3> QED
      BY <3>1, <3>2, <3>3 DEF Grown
  <2>9. ASSUME NEW c \in 1..(n + 1), base[c] # c
        PROVE  c \notin ToSet(Tail(Line(vp, c)))
    <3> SUFFICES ASSUME c \in ToSet(Tail(Line(vp, c))) PROVE FALSE
      OBVIOUS
    <3>1. c \in Nat /\ Ups(up) /\ Ups(vp)
      BY <2>3, <2>8 DEF Grown
    <3>2. PICK s : Leads(vp, s, c, c)
      BY <3>1, OnTail
    <3>3. c = x => b # x
      <4> SUFFICES ASSUME c = x, b = x PROVE FALSE
        OBVIOUS
      <4>1. x # 0
        BY <2>1, <2>3
      <4> QED
        BY <2>2, <2>9, <4>1
    <3>4. (Leads(up, s, c, c) /\ c # x) \/ \E q : Leads(up, q, b, x)
      BY <2>3, <2>4, <2>8, <3>1, <3>2, <3>3, NoNewCycle
    <3>5. CASE Leads(up, s, c, c) /\ c # x
      <4>1. c \in ToSet(Tail(Line(up, c)))
        BY <3>1, <3>5, OnTail
      <4>2. c \in 1..n
        BY <2>1, <2>3, <3>5
      <4> QED
        BY <2>3, <2>6, <2>9, <4>1, <4>2 DEF Acyclic
    <3>6. ASSUME NEW q, Leads(up, q, b, x) PROVE FALSE
      <4>1. x \in ToSet(Tail(Line(up, b)))
        BY <2>4, <3>1, <3>6, OnTail
      <4>2. Circular(x, b)
        BY <2>6, <4>1 DEF Circular
      <4>3. b # 0
        <5> SUFFICES ASSUME b = 0 PROVE FALSE
          OBVIOUS
        <5>1. 1 \in 1..Len(q) /\ 1 < Len(q)
          BY <1>0, <3>6 DEF Leads
        <5>2. HasUp(up, q[1]) /\ q[1] = 0
          BY <3>6, <5>1 DEF Leads, Path
        <5> QED
          BY <2>7, <5>2 DEF HasUp
      <4> QED
        BY <2>2, <4>2, <4>3
    <3> QED
      BY <3>4, <3>5, <3>6
  <2> QED
    BY <2>2, <2>5, <2>6, <2>9 DEF Acyclic
<1>3. CASE GenerateClass
  BY <1>1, <1>3 DEF GenerateClass
<1> QED
  BY <1>1, <1>2, <1>3 DEF Next, Done, vars

----------------------------------------------------------------------------
(***************************************************************************)
(* The theorems.                                                           *)
(***************************************************************************)

Inv == Analysis /\ Heirs /\ Generation /\ Rows /\ Acyclic

LEMMA Invariance == Spec => []Inv
<1>1. Init => Inv
  BY AnalysisInit, HeirsInit, GenerationInit, RowsInit, AcyclicInit DEF Inv
<1>2. Inv /\ [Next]_vars => Inv'
  BY AnalysisStep, HeirsStep, GenerationStep, RowsStep, AcyclicStep DEF Inv
<1> QED
  BY <1>1, <1>2, PTL DEF Spec

LEMMA InvTyped == Inv => TypeOK
<1> SUFFICES ASSUME Inv PROVE TypeOK
  OBVIOUS
<1>1. \A c \in 1..Len(decl) : decl[c] \in Declaration
  BY ElementOfSeq DEF Inv, Analysis
<1>2. ASSUME NEW c \in 1..Len(decl)
      PROVE  /\ \A k \in DOMAIN decl[c].methods : decl[c].methods[k].kind \in Kinds
             /\ decl[c].interfaces \subseteq Interfaces
             /\ decl[c].destructor \in {"none", "plain", "virtual"}
  <2>1. decl[c] \in Declaration
    BY <1>1
  <2>2. decl[c].methods \in Seq(Method)
    BY <2>1 DEF Declaration
  <2>3. \A k \in DOMAIN decl[c].methods : decl[c].methods[k] \in Method
    BY <2>2, LenProperties, ElementOfSeq
  <2> QED
    BY <2>1, <2>3 DEF Declaration, Method
<1>3. ASSUME NEW c \in 1..Len(decl)
      PROVE  /\ extends[c] \in {0, base[c]}
             /\ base[c] # c => c \notin ToSet(Tail(Line(extends, c)))
  BY DEF Inv, Analysis, Acyclic
<1> QED
  BY <1>2, <1>3 DEF Inv, Analysis, Generation, TypeOK, Analyzed, Generated

\* The members are well formed, the generator follows the analyzer, and no registered
\* base leads back to its class.
THEOREM Typed == Spec => []TypeOK
BY Invariance, InvTyped, PTL

LEMMA InvFinal == Inv /\ Sound => Final
BY DEF Inv, Final

\* Dispatched calls and calls through interfaces run the nearest body.
THEOREM CallsReach == Spec => []CallsReachOverride
<1>1. Inv => CallsReachOverride
  BY InvFinal, CallsRight DEF CallsReachOverride
<1> QED
  BY <1>1, Invariance, PTL

\* Layouts and slots of a class begin with those of its base.
THEOREM Layouts == Spec => []LayoutsAgree
<1>1. Inv => LayoutsAgree
  BY InvFinal, LayoutsRight DEF LayoutsAgree
<1> QED
  BY <1>1, Invariance, PTL

\* A delete runs every destructor of the line of the object.
THEOREM Destructed == Spec => []DestructorsComplete
<1>1. Inv => DestructorsComplete
  BY InvFinal, DestructorsRight DEF DestructorsComplete
<1> QED
  BY <1>1, Invariance, PTL

\* A catch sees what was thrown, whatever the pointer was declared as.
THEOREM Catches == Spec => []CatchesDynamicType
<1>1. Inv => CatchesDynamicType
  BY InvFinal, CatchesRight DEF CatchesDynamicType
<1> QED
  BY <1>1, Invariance, PTL
=============================================================================
