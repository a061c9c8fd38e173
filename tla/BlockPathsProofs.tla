--------------------------- MODULE BlockPathsProofs ---------------------------
(***************************************************************************)
(* The generated code gets to the insert point exactly when the source     *)
(* gets to the next statement: a proof of PathsKept for every number of    *)
(* functions and statements and every depth.                               *)
(*                                                                         *)
(* What is reached is a least set of blocks that holds the first one and   *)
(* whatever its blocks lead to.  A terminator of a reached block adds its  *)
(* successors to the set, and nothing more if those it adds have no        *)
(* successors yet: the blocks that handlers wait for.  The invariant says  *)
(* of every open handler which of its blocks are reached, in terms of the  *)
(* source (Led), and of every loop that nothing is reached inside of it    *)
(* unless it is entered (DeadLoops), which is why the branches back to its *)
(* head add nothing.                                                       *)
(***************************************************************************)
EXTENDS BasicBlocksProofs, FiniteSetTheorems, WellFoundedInduction

----------------------------------------------------------------------------
(***************************************************************************)
(* Reached blocks                                                          *)
(***************************************************************************)

First(c) == {b \in OwnIn(c) : \A o \in OwnIn(c) : b <= o}

NextOf(c, b) == BlockOf(c, b).next

\* S holds E and whatever the blocks of S lead to.
Closed(c, E, S) ==
  E \subseteq S /\ \A b \in 1..Size(c) : b \in S => NextOf(c, b) \subseteq S

From(c, E) ==
  {b \in 1..Size(c) : \A S \in SUBSET Nat : Closed(c, E, S) => b \in S}

LEMMA FromFacts ==
  ASSUME NEW c, Typed(c), NEW E, E \subseteq 1..Size(c)
  PROVE  /\ From(c, E) \subseteq 1..Size(c) /\ Closed(c, E, From(c, E))
         /\ \A S \in SUBSET Nat : Closed(c, E, S) => From(c, E) \subseteq S
<1>1. From(c, E) \subseteq 1..Size(c)
  BY DEF From
<1>2. ASSUME NEW S \in SUBSET Nat, Closed(c, E, S)
      PROVE  From(c, E) \subseteq S
  BY <1>2 DEF From
<1>3. E \subseteq From(c, E)
  BY DEF From, Closed
<1>4. ASSUME NEW b \in 1..Size(c), b \in From(c, E)
      PROVE  NextOf(c, b) \subseteq From(c, E)
  <2>1. NextOf(c, b) \subseteq 1..Size(c)
    BY CodeFacts DEF NextOf, BlockOf, Size
  <2>2. ASSUME NEW S \in SUBSET Nat, Closed(c, E, S)
        PROVE  NextOf(c, b) \subseteq S
    <3>1. b \in S
      BY <1>2, <1>4, <2>2
    <3> QED
      BY <2>2, <3>1 DEF Closed
  <2> QED
    BY <2>1, <2>2 DEF From
<1> QED
  BY <1>1, <1>2, <1>3, <1>4 DEF Closed

LEMMA FromIs ==
  ASSUME NEW c, Typed(c), NEW E, E \subseteq 1..Size(c),
         NEW X, X \subseteq 1..Size(c), Closed(c, E, X),
         \A S \in SUBSET Nat : Closed(c, E, S) => X \subseteq S
  PROVE  From(c, E) = X
<1>1. Size(c) \in Nat
  BY CodeFacts DEF Size
<1>2. X \in SUBSET Nat /\ From(c, E) \in SUBSET Nat
  <2>1. From(c, E) \subseteq 1..Size(c)
    BY FromFacts
  <2> QED
    BY <1>1, <2>1
<1>3. From(c, E) \subseteq X
  BY <1>2, FromFacts
<1>4. X \subseteq From(c, E)
  BY <1>2, FromFacts
<1> QED
  BY <1>3, <1>4

\* New blocks, and what is written besides terminators, change nothing.
LEMMA FromSame ==
  ASSUME NEW c, Typed(c), NEW d, Typed(d), NEW E, E \subseteq 1..Size(c),
         Size(c) <= Size(d),
         \A b \in 1..Size(c) : NextOf(d, b) = NextOf(c, b)
  PROVE  From(d, E) = From(c, E)
<1>1. Size(c) \in Nat /\ Size(d) \in Nat
  BY CodeFacts DEF Size
<1>2. 1..Size(c) \subseteq 1..Size(d)
  BY <1>1
<1>3. PICK X : X = From(c, E)
  OBVIOUS
<1>4. X \subseteq 1..Size(c) /\ Closed(c, E, X)
  BY <1>3, FromFacts
<1>5. Closed(d, E, X)
  BY <1>4 DEF Closed
<1>6. ASSUME NEW S \in SUBSET Nat, Closed(d, E, S) PROVE X \subseteq S
  <2>1. Closed(c, E, S)
    BY <1>2, <1>6 DEF Closed
  <2> QED
    BY <1>3, <2>1, FromFacts
<1>7. E \subseteq 1..Size(d) /\ X \subseteq 1..Size(d)
  BY <1>2, <1>4
<1>8. From(d, E) = X
  BY <1>5, <1>6, <1>7, FromIs
<1> QED
  BY <1>3, <1>8

\* A terminator of block a leads to T: if a is reached, so is T, and nothing
\* behind it.
Ended(c, d, E, a, T) ==
  /\ E \subseteq 1..Size(c) /\ Size(c) = Size(d) /\ a \in 1..Size(c)
  /\ T \subseteq 1..Size(c) /\ NextOf(c, a) = {} /\ NextOf(d, a) = T
  /\ \A b \in 1..Size(c) : b # a => NextOf(d, b) = NextOf(c, b)
  /\ a \in From(c, E) =>
       \A t \in T : t \in From(c, E) \/ NextOf(c, t) = {}

LEMMA FromEnd ==
  ASSUME NEW c, Typed(c), NEW d, Typed(d), NEW E, NEW a, NEW T,
         Ended(c, d, E, a, T)
  PROVE  From(d, E) = From(c, E) \cup {t \in T : a \in From(c, E)}
<1>0. PICK X, Y : X = From(c, E) /\ Y = X \cup {t \in T : a \in X}
  OBVIOUS
<1>a. /\ E \subseteq 1..Size(c) /\ Size(c) = Size(d) /\ a \in 1..Size(c)
      /\ T \subseteq 1..Size(c) /\ NextOf(c, a) = {} /\ NextOf(d, a) = T
      /\ \A b \in 1..Size(c) : b # a => NextOf(d, b) = NextOf(c, b)
      /\ a \in X => \A t \in T : t \in X \/ NextOf(c, t) = {}
  BY <1>0 DEF Ended
<1>b. \A x : x \in Y <=> x \in X \/ (x \in T /\ a \in X)
  BY <1>0
<1>1. X \subseteq 1..Size(c) /\ Closed(c, E, X)
  BY <1>0, <1>a, FromFacts
<1>2. Y \subseteq 1..Size(d) /\ E \subseteq Y
  BY <1>1, <1>a, <1>b DEF Closed
<1>3. ASSUME NEW b \in 1..Size(d), b \in Y PROVE NextOf(d, b) \subseteq Y
  <2>1. CASE b = a
    <3>1. a \in X
      BY <1>3, <1>a, <1>b, <2>1
    <3> QED
      BY <1>a, <1>b, <2>1, <3>1
  <2>2. CASE b # a /\ b \in X
    <3>1. NextOf(c, b) \subseteq X
      BY <1>1, <1>3, <1>a, <2>2 DEF Closed
    <3> QED
      BY <1>3, <1>a, <1>b, <2>2, <3>1
  <2>3. CASE b # a /\ b \notin X
    <3>1. b \in T /\ a \in X
      BY <1>3, <1>b, <2>3
    <3>2. NextOf(c, b) = {}
      BY <1>a, <2>3, <3>1
    <3> QED
      BY <1>3, <1>a, <2>3, <3>2
  <2> QED
    BY <2>1, <2>2, <2>3
<1>4. Closed(d, E, Y)
  BY <1>2, <1>3 DEF Closed
<1>5. ASSUME NEW S \in SUBSET Nat, Closed(d, E, S) PROVE Y \subseteq S
  <2>1. ASSUME NEW b \in 1..Size(c), b \in S PROVE NextOf(c, b) \subseteq S
    <3>1. NextOf(d, b) \subseteq S
      BY <1>5, <1>a, <2>1 DEF Closed
    <3> QED
      BY <1>a, <3>1
  <2>2. Closed(c, E, S)
    BY <1>5, <2>1 DEF Closed
  <2>3. X \subseteq S
    BY <1>0, <1>a, <2>2, FromFacts
  <2>4. a \in X => T \subseteq S
    BY <1>5, <1>a, <2>3 DEF Closed
  <2> QED
    BY <1>b, <2>3, <2>4
<1> QED
  <2>1. E \subseteq 1..Size(d)
    BY <1>a
  <2>2. From(d, E) = Y
    BY <1>2, <1>4, <1>5, <2>1, FromIs
  <2> QED
    BY <1>0, <2>2

----------------------------------------------------------------------------
(***************************************************************************)
(* Induction.  A nonempty set of numbers has a least one, and so what      *)
(* holds of 0 and passes on from each number to the next holds of all.     *)
(***************************************************************************)

Less == {p \in Nat \X Nat : p[1] < p[2]}

LEMMA LessFounded == IsWellFoundedOn(Less, Nat)
<1>1. Less = OpToRel(<, Nat)
  BY DEF Less, OpToRel
<1> QED
  BY <1>1, NatLessThanWellFounded

LEMMA LeastNumber ==
  ASSUME NEW T \in SUBSET Nat, T # {}
  PROVE  \E n \in T : \A m \in T : n <= m
<1>1. PICK n \in T : \A m \in T : <<m, n>> \notin Less
  BY LessFounded, WFMin
<1>2. ASSUME NEW m \in T PROVE n <= m
  <2>1. <<m, n>> \in Nat \X Nat /\ <<m, n>>[1] = m /\ <<m, n>>[2] = n
    OBVIOUS
  <2>2. ~(m < n)
    BY <1>1, <2>1 DEF Less
  <2> QED
    BY <2>2
<1> QED
  BY <1>2

LEMMA Induction ==
  ASSUME NEW n \in Nat, NEW T, 0 \in T,
         \A k \in 0..n : k \in T /\ k < n => k + 1 \in T
  PROVE  0..n \subseteq T
<1> SUFFICES ASSUME NEW j \in 0..n, j \notin T PROVE FALSE
  OBVIOUS
<1>1. PICK B : B = {k \in 0..n : k \notin T}
  OBVIOUS
<1>2. B \in SUBSET Nat /\ B # {}
  BY <1>1
<1>3. PICK m \in B : \A k \in B : m <= k
  BY <1>2, LeastNumber
<1>4. m # 0 /\ m - 1 \in 0..n /\ m - 1 < n /\ (m - 1) + 1 = m
  BY <1>1, <1>3
<1>5. m - 1 \in T
  BY <1>1, <1>3, <1>4
<1> QED
  BY <1>1, <1>3, <1>4, <1>5

----------------------------------------------------------------------------
(* The blocks that the model steps to are those of the least set.          *)

Iterates(g, n) ==
  g = [k \in 0..n |-> IF k = 0 THEN Entry ELSE Onward(g[k - 1])]

LEMMA IteratesExist ==
  ASSUME NEW n \in Nat
  PROVE  \E g : Iterates(g, n)
<1>1. PICK T : T = {k \in 0..n : \E g : Iterates(g, k)}
  OBVIOUS
<1>2. 0 \in T
  <2>1. PICK g : g = [k \in 0..0 |-> Entry]
    OBVIOUS
  <2>2. Iterates(g, 0)
    BY <2>1 DEF Iterates
  <2> QED
    BY <1>1, <2>2
<1>3. ASSUME NEW k \in 0..n, k \in T, k < n PROVE k + 1 \in T
  <2>1. PICK g : Iterates(g, k)
    BY <1>1, <1>3
  <2>2. PICK h : h = [i \in 0..(k + 1) |-> IF i <= k THEN g[i]
                                           ELSE Onward(g[k])]
    OBVIOUS
  <2>3. ASSUME NEW i \in 0..(k + 1)
        PROVE  h[i] = IF i = 0 THEN Entry ELSE Onward(h[i - 1])
    <3>1. CASE i = 0
      BY <2>1, <2>2, <3>1 DEF Iterates
    <3>2. CASE i # 0 /\ i <= k
      <4>1. i - 1 \in 0..k /\ i - 1 <= k /\ i - 1 \in 0..(k + 1) /\ i \in 0..k
        BY <3>2
      <4>2. h[i - 1] = g[i - 1] /\ h[i] = g[i]
        BY <2>2, <3>2, <4>1
      <4>3. g[i] = Onward(g[i - 1])
        BY <2>1, <3>2, <4>1 DEF Iterates
      <4> QED
        BY <3>2, <4>2, <4>3
    <3>3. CASE i = k + 1
      <4>1. i - 1 = k /\ k \in 0..(k + 1) /\ k <= k /\ ~(i <= k) /\ i # 0
        BY <3>3
      <4>2. h[k] = g[k] /\ h[i] = Onward(g[k])
        BY <2>2, <4>1
      <4> QED
        BY <4>1, <4>2
    <3> QED
      BY <3>1, <3>2, <3>3
  <2>4. h = [i \in 0..(k + 1) |-> h[i]]
    BY <2>2
  <2>5. Iterates(h, k + 1)
    BY <2>3, <2>4 DEF Iterates
  <2>6. k + 1 \in 0..n
    BY <1>3
  <2> QED
    BY <1>1, <2>5, <2>6
<1>4. 0..n \subseteq T
  BY <1>2, <1>3, Induction
<1> QED
  BY <1>1, <1>4

LEMMA ReachedIterates ==
  ASSUME Len(blocks) \in Nat
  PROVE  \E g : Iterates(g, Len(blocks)) /\ Reached = g[Len(blocks)]
<1>1. Reached = (CHOOSE g : Iterates(g, Len(blocks)))[Len(blocks)]
  BY DEF Reached, Iterates
<1>2. PICK g : g = CHOOSE h : Iterates(h, Len(blocks))
  OBVIOUS
<1>3. Iterates(g, Len(blocks))
  BY <1>2, IteratesExist
<1> QED
  BY <1>1, <1>2, <1>3

\* Each step takes in another block until there is none left: as many steps
\* as there are blocks are enough.
LEMMA IteratesFill ==
  ASSUME NEW n \in Nat, NEW g, Iterates(g, n),
         \A k \in 0..n : g[k] \subseteq 1..n
  PROVE  Onward(g[n]) \subseteq g[n] \/ g[n] = 1..n
<1>1. IsFiniteSet(1..n) /\ Cardinality(1..n) = n
  BY FS_Interval
<1>2. \A k \in 0..n : IsFiniteSet(g[k]) /\ Cardinality(g[k]) \in Nat
  BY <1>1, FS_Subset, FS_CardinalityType
<1>3. PICK T : T = {k \in 0..n : \/ Cardinality(g[k]) >= k
                                 \/ Onward(g[k]) \subseteq g[k]}
  OBVIOUS
<1>4. 0 \in T
  BY <1>2, <1>3
<1>5. ASSUME NEW k \in 0..n, k \in T, k < n PROVE k + 1 \in T
  <2>1. k + 1 \in 0..n /\ k + 1 # 0 /\ (k + 1) - 1 = k
    BY <1>5
  <2>2. g[k + 1] = Onward(g[k])
    BY <2>1 DEF Iterates
  <2>3. g[k] \subseteq Onward(g[k])
    BY DEF Onward
  <2>4. CASE Onward(g[k]) \subseteq g[k]
    <3>1. g[k + 1] = g[k]
      BY <2>2, <2>3, <2>4
    <3> QED
      BY <1>3, <2>1, <2>4, <3>1
  <2>5. CASE ~(Onward(g[k]) \subseteq g[k])
    <3>1. g[k] \in SUBSET g[k + 1] /\ g[k] # g[k + 1]
      BY <2>2, <2>3, <2>5
    <3>2. /\ Cardinality(g[k]) <= Cardinality(g[k + 1])
          /\ Cardinality(g[k + 1]) # Cardinality(g[k])
      BY <1>2, <2>1, <3>1, FS_Subset
    <3>3. Cardinality(g[k]) >= k
      BY <1>3, <1>5, <2>5
    <3>4. Cardinality(g[k]) \in Nat /\ Cardinality(g[k + 1]) \in Nat
      BY <1>2, <2>1
    <3>5. Cardinality(g[k + 1]) >= k + 1
      BY <3>2, <3>3, <3>4
    <3> QED
      BY <1>3, <2>1, <3>5
  <2> QED
    BY <2>4, <2>5
<1>6. 0..n \subseteq T
  BY <1>4, <1>5, Induction
<1>7. n \in 0..n
  OBVIOUS
<1>8. CASE Cardinality(g[n]) >= n
  <2>1. g[n] \in SUBSET (1..n) /\ Cardinality(g[n]) <= n
    BY <1>1, <1>7, FS_Subset
  <2>2. Cardinality(g[n]) = n
    BY <1>2, <1>7, <1>8, <2>1
  <2>3. g[n] = 1..n
    BY <1>1, <2>1, <2>2, FS_Subset
  <2> QED
    BY <2>3
<1> QED
  BY <1>3, <1>6, <1>7, <1>8

Got == From(cg, First(cg))

LEMMA ReachedGot ==
  ASSUME TInv, open # <<>>
  PROVE  Reached = Got
<1>1. PICK n : n = Len(blocks)
  OBVIOUS
<1>2. /\ Typed(cg) /\ Size(cg) = n /\ n \in Nat
      /\ \A b : BlockOf(cg, b) = blocks[b]
  BY <1>1, CodeUnder
<1>3. Entry = First(cg) /\ First(cg) \subseteq 1..n
  BY <1>1 DEF Entry, First, Own, Ids, OwnIn, cg
<1>4. Got \subseteq 1..n /\ Closed(cg, First(cg), Got)
  BY <1>2, <1>3, FromFacts DEF Got
<1>5. PICK g : Iterates(g, n) /\ Reached = g[n]
  BY <1>1, <1>2, ReachedIterates
<1>6. ASSUME NEW S, S \subseteq 1..n PROVE Onward(S) \subseteq 1..n
  <2>1. \A b \in S : blocks[b].next \subseteq 1..n
    BY <1>2, <1>6, CodeFacts DEF BlockOf, Size
  <2> QED
    BY <1>6, <2>1 DEF Onward
<1>7. ASSUME NEW S, S \subseteq Got PROVE Onward(S) \subseteq Got
  <2>1. \A b \in S : blocks[b].next \subseteq Got
    BY <1>2, <1>4, <1>7 DEF Closed, NextOf
  <2> QED
    BY <1>7, <2>1 DEF Onward
<1>8. PICK T : T = {k \in 0..n : Entry \subseteq g[k] /\ g[k] \subseteq Got}
  OBVIOUS
<1>9. 0 \in T
  <2>1. 0 \in 0..n /\ g[0] = Entry
    BY <1>2, <1>5 DEF Iterates
  <2> QED
    BY <1>3, <1>4, <1>8, <2>1 DEF Closed
<1>10. ASSUME NEW k \in 0..n, k \in T, k < n PROVE k + 1 \in T
  <2>1. k + 1 \in 0..n /\ k + 1 # 0 /\ (k + 1) - 1 = k
    BY <1>2, <1>10
  <2>2. g[k + 1] = Onward(g[k])
    BY <1>5, <2>1 DEF Iterates
  <2>3. Entry \subseteq g[k] /\ g[k] \subseteq Got
    BY <1>8, <1>10
  <2>4. Onward(g[k]) \subseteq Got
    BY <1>7, <2>3
  <2>5. g[k] \subseteq Onward(g[k])
    BY DEF Onward
  <2> QED
    BY <1>8, <2>1, <2>2, <2>3, <2>4, <2>5
<1>11. 0..n \subseteq T
  BY <1>2, <1>9, <1>10, Induction
<1>12. \A k \in 0..n : Entry \subseteq g[k] /\ g[k] \subseteq Got
  BY <1>8, <1>11
<1>13. \A k \in 0..n : g[k] \subseteq 1..n
  BY <1>4, <1>12
<1>14. Onward(g[n]) \subseteq g[n] \/ g[n] = 1..n
  BY <1>2, <1>5, <1>13, IteratesFill
<1>15. Entry \subseteq g[n] /\ g[n] \subseteq Got /\ g[n] \subseteq 1..n
  BY <1>2, <1>12, <1>13
<1>16. Onward(g[n]) \subseteq g[n]
  BY <1>6, <1>14
<1>17. Closed(cg, First(cg), g[n])
  <2>1. \A b \in g[n] : blocks[b].next \subseteq g[n]
    BY <1>16 DEF Onward
  <2> QED
    BY <1>2, <1>3, <1>15, <2>1 DEF Closed, NextOf
<1>18. g[n] \in SUBSET Nat
  BY <1>2, <1>15
<1>19. Got \subseteq g[n]
  BY <1>2, <1>3, <1>17, <1>18, FromFacts DEF Got
<1> QED
  BY <1>5, <1>15, <1>19

----------------------------------------------------------------------------
(***************************************************************************)
(* Walks.  What the builder does to the set X of the blocks reached.       *)
(***************************************************************************)

\* A block without a terminator leads nowhere.
Quiet(c) ==
  \A b \in 1..Size(c) : BlockOf(c, b).ends = 0 => NextOf(c, b) = {}

Walks(c, X) == Quiet(c) /\ From(c, First(c)) = X

Walk(c, P, m, own, X) == Stage(c, P, "sound", m, own) /\ Walks(c, X)

Arrives(c, X) == At(c) \in X /\ Open(c)

\* What is reached when the insert point leads to T.
Onto(c, X, T) == X \cup {t \in T : Arrives(c, X)}

LEMMA SoundSure == Sure("sound")
BY DEF Sure

LEMMA WalkFacts ==
  ASSUME NEW c, NEW P, NEW m, NEW own, NEW X, Walk(c, P, m, own, X)
  PROVE  /\ m \in Nat /\ own \subseteq 1..m /\ Typed(c)
         /\ Size(c) = m /\ OwnIn(c) = own
         /\ At(c) \in own /\ P \subseteq own /\ At(c) \notin P
         /\ First(c) \subseteq 1..m /\ X \subseteq 1..m
<1>1. /\ Stage(c, P, "sound", m, own) /\ Good(c, P, "sound")
      /\ Size(c) = m /\ OwnIn(c) = own /\ From(c, First(c)) = X
  BY DEF Walk, Walks, Stage
<1>2. /\ m \in Nat /\ own \subseteq 1..m /\ Typed(c)
      /\ At(c) \in own /\ P \subseteq own /\ At(c) \notin P
  BY <1>1, SoundSure, SizeFacts DEF Good
<1>3. First(c) \subseteq 1..m
  BY <1>1, <1>2 DEF First
<1>4. X \subseteq 1..m
  BY <1>1 DEF From
<1> QED
  BY <1>1, <1>2, <1>3, <1>4

\* Nothing that waits has a terminator.
LEMMA WaitsQuiet ==
  ASSUME NEW c, NEW P, NEW m, NEW own, NEW X, Walk(c, P, m, own, X),
         NEW b \in P
  PROVE  b \in 1..m /\ BlockOf(c, b).ends = 0 /\ NextOf(c, b) = {}
<1>1. P \subseteq own /\ own \subseteq 1..m /\ Size(c) = m
  BY WalkFacts
<1>2. BlockOf(c, b).ends = 0
  BY SoundSure DEF Walk, Stage, Good, Sound, BlockOf
<1> QED
  BY <1>1, <1>2 DEF Walk, Walks, Quiet

\* The successors and the number of terminators stay.
LEMMA SameWalks ==
  ASSUME NEW c, Typed(c), NEW X, Walks(c, X), NEW d, Typed(d),
         Size(d) = Size(c), OwnIn(d) = OwnIn(c),
         \A b \in 1..Size(c) : /\ BlockOf(d, b).ends = BlockOf(c, b).ends
                               /\ BlockOf(d, b).next = BlockOf(c, b).next
  PROVE  Walks(d, X)
<1>1. First(d) = First(c)
  BY DEF First
<1>2. First(c) \subseteq 1..Size(c)
  BY DEF First, OwnIn, Size
<1>3. \A b \in 1..Size(c) : NextOf(d, b) = NextOf(c, b)
  BY DEF NextOf
<1>4. Size(c) \in Nat /\ Size(c) <= Size(d)
  <2>1. Size(c) \in Nat
    BY CodeFacts DEF Size
  <2> QED
    BY <2>1
<1>5. From(d, First(c)) = From(c, First(c))
  BY <1>2, <1>3, <1>4, FromSame
<1>6. Quiet(d)
  BY <1>3 DEF Walks, Quiet
<1> QED
  BY <1>1, <1>5, <1>6 DEF Walks

LEMMA NewWalks ==
  ASSUME fn \in Nat \ {0}, NEW c, NEW P, NEW m, NEW own, NEW X,
         Walk(c, P, m, own, X), NEW n \in Nat \ {0}
  PROVE  Walks(New(c, n), X)
<1>1. PICK d, N : d = New(c, n) /\ N = m + 1 .. m + n
  OBVIOUS
<1>2. /\ m \in Nat /\ own \subseteq 1..m /\ Typed(c) /\ Size(c) = m
      /\ OwnIn(c) = own /\ At(c) \in own /\ First(c) \subseteq 1..m
  BY WalkFacts
<1>3. /\ Stage(New(c, n), P \cup (m + 1 .. m + n), "sound", m + n,
               own \cup (m + 1 .. m + n))
  BY NewStage DEF Walk
<1>4. Typed(d) /\ Size(d) = m + n /\ OwnIn(d) = own \cup N
  BY <1>1, <1>3 DEF Stage, Good
<1>5. NewIds(c, n) = N
  BY <1>1, <1>2 DEF NewIds
<1>6. /\ \A b \in 1..m : BlockOf(d, b) = BlockOf(c, b)
      /\ \A b \in N : BlockOf(d, b) = Block(fn)
  BY <1>1, <1>2, <1>5, NewKeeps
<1>7. First(d) = First(c)
  <2>1. \A b \in 1..m, o \in N : b <= o /\ ~(o <= b)
    BY <1>1, <1>2
  <2>2. ASSUME NEW b \in First(c) PROVE b \in First(d)
    BY <1>2, <1>4, <2>1 DEF First
  <2>3. ASSUME NEW b \in First(d) PROVE b \in First(c)
    <3>1. b \in own \cup N /\ \A o \in own \cup N : b <= o
      BY <1>4 DEF First
    <3>2. b \in own
      BY <1>2, <2>1, <3>1
    <3> QED
      BY <1>2, <3>1, <3>2 DEF First
  <2> QED
    BY <2>2, <2>3
<1>8. \A b \in 1..m : NextOf(d, b) = NextOf(c, b)
  BY <1>6 DEF NextOf
<1>9. From(d, First(c)) = From(c, First(c))
  <2>1. Size(c) <= Size(d)
    BY <1>2, <1>4
  <2> QED
    BY <1>2, <1>4, <1>8, <2>1, FromSame
<1>10. Quiet(d)
  <2>1. \A b \in 1..m + n : b \in 1..m \/ b \in N
    BY <1>1, <1>2
  <2>2. \A b \in N : NextOf(d, b) = {}
    BY <1>6 DEF NextOf, Block
  <2> QED
    BY <1>2, <1>4, <1>6, <1>8, <2>1, <2>2 DEF Walk, Walks, Quiet
<1> QED
  BY <1>1, <1>7, <1>9, <1>10 DEF Walk, Walks

\* What a terminator writes.
LEMMA EndWrites ==
  ASSUME NEW c, Typed(c), NEW T, Open(c)
  PROVE  /\ BlockOf(End(c, T), At(c)).ends = 1
         /\ BlockOf(End(c, T), At(c)).next = T
<1>1. PICK f, x : /\ f = c.blocks[c.at]
                  /\ x = [f EXCEPT !.ends = f.ends + 1, !.empty = FALSE,
                            !.next = IF f.ends = 0 THEN T ELSE f.next]
  OBVIOUS
<1>2. /\ c \in Code /\ f \in Blocks /\ DOMAIN c.blocks = 1..Len(c.blocks)
      /\ c.at \in 1..Len(c.blocks) /\ f.ends = 0
  BY <1>1, CodeFacts DEF Open
<1>3. x.ends = 1 /\ x.next = T
  BY <1>1, <1>2 DEF Blocks
<1>4. End(c, T) = [c EXCEPT !.blocks = [c.blocks EXCEPT ![c.at] = x]]
  BY <1>1 DEF End
<1>5. End(c, T).blocks[c.at] = x
  BY <1>2, <1>4 DEF Code
<1> QED
  BY <1>3, <1>5 DEF BlockOf, At

LEMMA EndWalk ==
  ASSUME NEW c, NEW P, NEW m, NEW own, NEW X, Walk(c, P, m, own, X),
         Open(c), NEW T, T \subseteq own,
         Arrives(c, X) => T \subseteq X \cup P
  PROVE  /\ Walk(End(c, T), P, m, own, Onto(c, X, T)) /\ ~Open(End(c, T))
         /\ At(End(c, T)) = At(c) /\ Back(End(c, T)) = Back(c)
<1>1. PICK d, a, Y : d = End(c, T) /\ a = At(c) /\ Y = Onto(c, X, T)
  OBVIOUS
<1>2. /\ m \in Nat /\ own \subseteq 1..m /\ Typed(c) /\ Size(c) = m
      /\ OwnIn(c) = own /\ a \in own /\ First(c) \subseteq 1..m
  BY <1>1, WalkFacts
<1>3. T \subseteq 1..m /\ a \in 1..m
  BY <1>2
<1>4. /\ Good(d, P, "sound") /\ Size(d) = m /\ OwnIn(d) = own
      /\ At(d) = a /\ Back(d) = Back(c) /\ ~Open(d)
      /\ \A b \in 1..m : b # a => BlockOf(d, b) = BlockOf(c, b)
  BY <1>1, <1>2, <1>3, EndGood DEF Walk, Stage
<1>5. Typed(d) /\ First(d) = First(c)
  BY <1>2, <1>4 DEF Good, First
<1>6. BlockOf(c, a).ends = 0
  BY <1>1 DEF Open, BlockOf, At
<1>7. NextOf(c, a) = {}
  BY <1>2, <1>3, <1>6 DEF Walk, Walks, Quiet
<1>8. NextOf(d, a) = T /\ BlockOf(d, a).ends = 1
  BY <1>1, <1>2, EndWrites DEF NextOf
<1>9. \A b \in 1..m : b # a => NextOf(d, b) = NextOf(c, b)
  BY <1>4 DEF NextOf
<1>10. X \cup {t \in T : a \in X} = Y
  BY <1>1 DEF Onto, Arrives
<1>11. X = From(c, First(c))
  BY DEF Walk, Walks
<1>12. a \in X => \A t \in T : t \in X \/ NextOf(c, t) = {}
  BY <1>1, WaitsQuiet DEF Arrives
<1>13. From(d, First(c)) = Y
  <2>1. Ended(c, d, First(c), a, T)
    BY <1>2, <1>3, <1>4, <1>7, <1>8, <1>9, <1>11, <1>12 DEF Ended
  <2>2. From(d, First(c))
          = From(c, First(c)) \cup {t \in T : a \in From(c, First(c))}
    BY <1>2, <1>5, <2>1, FromEnd
  <2> QED
    BY <1>10, <1>11, <2>2
<1>14. Quiet(d)
  <2>1. \A b \in 1..m : BlockOf(c, b).ends = 0 => NextOf(c, b) = {}
    BY <1>2 DEF Walk, Walks, Quiet
  <2>2. ASSUME NEW b \in 1..m, BlockOf(d, b).ends = 0 PROVE NextOf(d, b) = {}
    <3>1. b # a
      BY <1>8, <2>2
    <3> QED
      BY <1>4, <1>9, <2>1, <2>2, <3>1
  <2> QED
    BY <1>4, <2>2 DEF Quiet
<1> QED
  BY <1>1, <1>4, <1>5, <1>13, <1>14 DEF Walk, Walks, Stage

\* New blocks wait and are not reached.
LEMMA WalkNew ==
  ASSUME fn \in Nat \ {0}, NEW c, NEW P, NEW m, NEW own, NEW X,
         Walk(c, P, m, own, X), NEW n \in Nat \ {0}
  PROVE  /\ Walks(New(c, n), X) /\ At(New(c, n)) = At(c)
         /\ Stage(c, P, "sound", m, own)
<1>1. Typed(c) /\ Stage(c, P, "sound", m, own)
  BY WalkFacts DEF Walk
<1> QED
  BY <1>1, NewWalks, NewKeeps

LEMMA WalkOne ==
  ASSUME fn \in Nat \ {0}, NEW c, NEW P, NEW m, NEW own, NEW X,
         Walk(c, P, m, own, X)
  PROVE  /\ Walk(New(c, 1), P \cup {m + 1}, m + 1, own \cup {m + 1}, X)
         /\ (Open(New(c, 1)) <=> Open(c)) /\ At(New(c, 1)) = At(c)
<1>1. 1 \in Nat \ {0}
  OBVIOUS
<1>2. /\ Walks(New(c, 1), X) /\ At(New(c, 1)) = At(c)
      /\ Stage(c, P, "sound", m, own)
  BY <1>1, WalkNew
<1> QED
  BY <1>2, NewOne DEF Walk

LEMMA WalkTwo ==
  ASSUME fn \in Nat \ {0}, NEW c, NEW P, NEW m, NEW own, NEW X,
         Walk(c, P, m, own, X)
  PROVE  /\ Walk(New(c, 2), P \cup {m + 1, m + 2}, m + 2,
                 own \cup {m + 1, m + 2}, X)
         /\ (Open(New(c, 2)) <=> Open(c)) /\ At(New(c, 2)) = At(c)
<1>1. 2 \in Nat \ {0}
  OBVIOUS
<1>2. /\ Walks(New(c, 2), X) /\ At(New(c, 2)) = At(c)
      /\ Stage(c, P, "sound", m, own)
  BY <1>1, WalkNew
<1> QED
  BY <1>2, NewTwo DEF Walk

LEMMA WalkThree ==
  ASSUME fn \in Nat \ {0}, NEW c, NEW P, NEW m, NEW own, NEW X,
         Walk(c, P, m, own, X)
  PROVE  /\ Walk(New(c, 3), P \cup {m + 1, m + 2, m + 3}, m + 3,
                 own \cup {m + 1, m + 2, m + 3}, X)
         /\ (Open(New(c, 3)) <=> Open(c)) /\ At(New(c, 3)) = At(c)
<1>1. 3 \in Nat \ {0}
  OBVIOUS
<1>2. /\ Walks(New(c, 3), X) /\ At(New(c, 3)) = At(c)
      /\ Stage(c, P, "sound", m, own)
  BY <1>1, WalkNew
<1> QED
  BY <1>2, NewThree DEF Walk

LEMMA WalkFour ==
  ASSUME fn \in Nat \ {0}, NEW c, NEW P, NEW m, NEW own, NEW X,
         Walk(c, P, m, own, X)
  PROVE  /\ Walk(New(c, 4), P \cup {m + 1, m + 2, m + 3, m + 4}, m + 4,
                 own \cup {m + 1, m + 2, m + 3, m + 4}, X)
         /\ (Open(New(c, 4)) <=> Open(c)) /\ At(New(c, 4)) = At(c)
<1>1. 4 \in Nat \ {0}
  OBVIOUS
<1>2. /\ Walks(New(c, 4), X) /\ At(New(c, 4)) = At(c)
      /\ Stage(c, P, "sound", m, own)
  BY <1>1, WalkNew
<1> QED
  BY <1>2, NewFour DEF Walk

LEMMA WalkFive ==
  ASSUME fn \in Nat \ {0}, NEW c, NEW P, NEW m, NEW own, NEW X,
         Walk(c, P, m, own, X)
  PROVE  /\ Walk(New(c, 5), P \cup {m + 1, m + 2, m + 3, m + 4, m + 5}, m + 5,
                 own \cup {m + 1, m + 2, m + 3, m + 4, m + 5}, X)
         /\ (Open(New(c, 5)) <=> Open(c)) /\ At(New(c, 5)) = At(c)
<1>1. 5 \in Nat \ {0}
  OBVIOUS
<1>2. /\ Walks(New(c, 5), X) /\ At(New(c, 5)) = At(c)
      /\ Stage(c, P, "sound", m, own)
  BY <1>1, WalkNew
<1> QED
  BY <1>2, NewFive DEF Walk

LEMMA EndOpenWalk ==
  ASSUME NEW c, NEW P, NEW m, NEW own, NEW X, Walk(c, P, m, own, X),
         NEW T, T \subseteq own, Arrives(c, X) => T \subseteq X \cup P
  PROVE  /\ Walk(EndOpen(c, T), P, m, own, Onto(c, X, T))
         /\ ~Open(EndOpen(c, T))
         /\ At(EndOpen(c, T)) = At(c) /\ Back(EndOpen(c, T)) = Back(c)
<1>1. CASE Open(c)
  BY <1>1, EndWalk DEF EndOpen
<1>2. CASE ~Open(c)
  <2>1. Onto(c, X, T) = X
    BY <1>2 DEF Onto, Arrives
  <2> QED
    BY <1>2, <2>1 DEF EndOpen
<1> QED
  BY <1>1, <1>2

\* The insert point moves to a block that waits.
LEMMA MoveWalk ==
  ASSUME NEW c, NEW P, NEW m, NEW own, NEW X, Walk(c, P, m, own, X),
         ~Open(c), NEW b, b \in P, NEW l \in 1..m
  PROVE  /\ Walk(MoveTo(c, b, l), P \ {b}, m, own, X)
         /\ Open(MoveTo(c, b, l)) /\ At(MoveTo(c, b, l)) = b
<1>1. PICK d : d = MoveTo(c, b, l)
  OBVIOUS
<1>2. /\ Good(c, P, "sound") /\ Size(c) = m /\ OwnIn(c) = own /\ Typed(c)
      /\ b \in 1..m /\ Walks(c, X)
  BY WalkFacts DEF Walk, Stage
<1>3. /\ Good(d, P \ {b}, "sound") /\ Size(d) = m /\ OwnIn(d) = own
      /\ At(d) = b /\ Open(d) /\ \A i : BlockOf(d, i) = BlockOf(c, i)
  BY <1>1, <1>2, SoundSure, MoveGood
<1>4. Typed(d)
  BY <1>3 DEF Good
<1>5. Walks(d, X)
  BY <1>2, <1>3, <1>4, SameWalks
<1> QED
  BY <1>1, <1>3, <1>5 DEF Walk, Stage

LEMMA PlaceWalk ==
  ASSUME NEW c, NEW P, NEW m, NEW own, NEW X, Walk(c, P, m, own, X),
         ~Open(c), NEW b, b \in P
  PROVE  /\ Walk(Place(c, b), P \ {b}, m, own, X)
         /\ Open(Place(c, b)) /\ At(Place(c, b)) = b
<1>1. b \in 1..m /\ Typed(c)
  BY WalkFacts
<1>2. /\ Walk(MoveTo(c, b, b), P \ {b}, m, own, X)
      /\ Open(MoveTo(c, b, b)) /\ At(MoveTo(c, b, b)) = b
  BY <1>1, MoveWalk
<1>3. Place(c, b) = MoveTo(c, b, b)
  <2>1. c = [blocks |-> c.blocks, at |-> c.at, back |-> c.back]
    BY <1>1, CodeFacts
  <2> QED
    BY <2>1 DEF Place, MoveTo
<1> QED
  BY <1>2, <1>3

LEMMA JumpWalk ==
  ASSUME NEW c, NEW P, NEW m, NEW own, NEW X, Walk(c, P, m, own, X),
         Open(c), NEW T, T \subseteq own,
         Arrives(c, X) => T \subseteq X \cup P, NEW b, b \in P
  PROVE  /\ Walk(Place(End(c, T), b), P \ {b}, m, own, Onto(c, X, T))
         /\ Open(Place(End(c, T), b)) /\ At(Place(End(c, T), b)) = b
<1>1. /\ Walk(End(c, T), P, m, own, Onto(c, X, T)) /\ ~Open(End(c, T))
  BY EndWalk
<1> QED
  BY <1>1, PlaceWalk

LEMMA JumpOpenWalk ==
  ASSUME NEW c, NEW P, NEW m, NEW own, NEW X, Walk(c, P, m, own, X),
         NEW T, T \subseteq own,
         Arrives(c, X) => T \subseteq X \cup P, NEW b, b \in P
  PROVE  /\ Walk(Place(EndOpen(c, T), b), P \ {b}, m, own, Onto(c, X, T))
         /\ Open(Place(EndOpen(c, T), b)) /\ At(Place(EndOpen(c, T), b)) = b
<1>1. /\ Walk(EndOpen(c, T), P, m, own, Onto(c, X, T))
      /\ ~Open(EndOpen(c, T))
  BY EndOpenWalk
<1> QED
  BY <1>1, PlaceWalk

\* An instruction besides the terminator.
LEMMA TouchWalk ==
  ASSUME NEW c, NEW P, NEW m, NEW own, NEW X, Walk(c, P, m, own, X),
         NEW x, x \in Blocks, x.fn = BlockOf(c, At(c)).fn,
         x.ends = BlockOf(c, At(c)).ends, x.next = BlockOf(c, At(c)).next,
         x.entered \in 0..m
  PROVE  /\ Walk(SetTo(c, x), P, m, own, X)
         /\ (Open(SetTo(c, x)) <=> Open(c)) /\ At(SetTo(c, x)) = At(c)
<1>1. PICK d, a : d = SetTo(c, x) /\ a = At(c)
  OBVIOUS
<1>2. /\ Stage(c, P, "sound", m, own) /\ Typed(c) /\ Size(c) = m
      /\ OwnIn(c) = own /\ Walks(c, X) /\ a \in 1..m
  BY <1>1, WalkFacts DEF Walk
<1>3. /\ Stage(d, P, "sound", m, own) /\ At(d) = a
      /\ (Open(d) <=> Open(c))
  BY <1>1, <1>2, TouchStage
<1>4. Typed(d) /\ Size(d) = m /\ OwnIn(d) = own
  BY <1>3 DEF Stage, Good
<1>5. Replaces(x, c)
  <2>1. c.blocks[c.at].next \subseteq 1..Len(c.blocks)
    BY <1>2, CodeFacts
  <2> QED
    BY <1>2, <2>1 DEF Replaces, BlockOf, At, Size
<1>6. /\ BlockOf(d, a) = x
      /\ \A b \in 1..m : b # a => BlockOf(d, b) = BlockOf(c, b)
  BY <1>1, <1>2, <1>5, SetBlock
<1>7. \A b \in 1..m : /\ BlockOf(d, b).ends = BlockOf(c, b).ends
                      /\ BlockOf(d, b).next = BlockOf(c, b).next
  BY <1>1, <1>6
<1>8. Walks(d, X)
  BY <1>2, <1>4, <1>7, SameWalks
<1> QED
  BY <1>1, <1>3, <1>8 DEF Walk

\* The list of blocks ends in another one.
LEMMA BackWalk ==
  ASSUME NEW c, NEW P, NEW m, NEW own, NEW X, Walk(c, P, m, own, X),
         NEW l \in 1..m
  PROVE  /\ Walk([c EXCEPT !.back = l], P, m, own, X)
         /\ (Open([c EXCEPT !.back = l]) <=> Open(c))
         /\ At([c EXCEPT !.back = l]) = At(c)
<1>1. PICK d : d = [c EXCEPT !.back = l]
  OBVIOUS
<1>2. /\ Stage(c, P, "sound", m, own) /\ Typed(c) /\ Size(c) = m
      /\ OwnIn(c) = own /\ Walks(c, X) /\ c \in Code
  BY WalkFacts, CodeFacts DEF Walk
<1>3. /\ Stage(d, P, "sound", m, own)
      /\ (Open(d) <=> Open(c))
  BY <1>1, <1>2, BackStage
<1>4. Typed(d) /\ Size(d) = m /\ OwnIn(d) = own
  BY <1>3 DEF Stage, Good
<1>5. d.blocks = c.blocks /\ d.at = c.at
  BY <1>1, <1>2 DEF Code
<1>6. \A b : BlockOf(d, b) = BlockOf(c, b)
  BY <1>5 DEF BlockOf
<1>7. Walks(d, X)
  BY <1>2, <1>4, <1>6, SameWalks
<1> QED
  BY <1>1, <1>3, <1>5, <1>7 DEF Walk, At

----------------------------------------------------------------------------
(***************************************************************************)
(* The source.  Of a loop that no execution gets to, no execution gets to  *)
(* anything inside, because no goto enters a loop from outside.            *)
(***************************************************************************)

\* No execution has got to a place that the handler remembers.
Idle(f) == ~f.entry /\ ~f.out /\ ~f.again

DeadLoops ==
  \A i \in 1..Len(open) : open[i].kind \in Loops /\ ~open[i].entry =>
    /\ ~live /\ \A j \in i..Len(open) : Idle(open[j])
    /\ arrived /\ ~defined => open[i].goto

\* The function's own frame remembers a goto of the function before.
GotosSeen ==
  /\ \A i \in 2..Len(open) : open[i].goto =>
       used /\ \A j \in i..Len(open) : open[j].goto
  /\ arrived /\ ~defined => used

SInv == DeadLoops /\ GotosSeen

LEMMA OpenFacts ==
  ASSUME WInv
  PROVE  /\ open \in Seq(Frames) /\ Len(open) \in Nat
         /\ DOMAIN open = 1..Len(open)
         /\ \A i \in 1..Len(open) : /\ open[i] \in Frames
                                    /\ open[i].kind = "function" <=> i = 1
         /\ open # <<>> <=> Len(open) \in 1..Len(open)
         /\ live \in BOOLEAN /\ arrived \in BOOLEAN /\ used \in BOOLEAN
         /\ defined \in BOOLEAN
<1>1. open \in Seq(Frames)
  BY DEF WInv, TInv, StackTyped
<1>2. Len(open) \in Nat /\ DOMAIN open = 1..Len(open)
  BY <1>1, LenProperties
<1>3. \A i \in 1..Len(open) : /\ open[i] \in Frames
                              /\ open[i].kind = "function" <=> i = 1
  BY <1>1, ElementOfSeq DEF WInv, TInv, StackTyped
<1>4. open # <<>> <=> Len(open) \in 1..Len(open)
  BY <1>1, <1>2, EmptySeq
<1> QED
  BY <1>1, <1>2, <1>3, <1>4 DEF WInv, TInv

LEMMA SourceEnters ==
  ASSUME WInv, SInv, NEW f \in Frames, Pushes(f), f.goto = used,
         ~f.out, ~f.again, f.entry => live,
         f.kind \in Loops => (live => f.entry)
  PROVE  SInv'
<1>1. PICK l : l = Len(open)
  OBVIOUS
<1>2. /\ open \in Seq(Frames) /\ l \in Nat
      /\ live \in BOOLEAN /\ arrived \in BOOLEAN /\ used \in BOOLEAN
  BY <1>1, OpenFacts
<1>3. /\ Len(open') = l + 1 /\ open'[l + 1] = f
      /\ \A i \in 1..l : open'[i] = open[i]
  BY <1>1, <1>2, AppendProperties DEF Pushes
<1>4. live' = live /\ arrived' = arrived /\ used' = used /\ defined' = defined
  BY DEF Pushes, source
<1>5. ASSUME NEW i \in 1..l + 1, open'[i].kind \in Loops, ~open'[i].entry
      PROVE  /\ ~live /\ \A j \in i..l + 1 : Idle(open'[j])
             /\ arrived /\ ~defined => open'[i].goto
  <2>1. CASE i = l + 1
    <3>1. open'[i] = f /\ ~f.entry
      BY <1>3, <1>5, <2>1
    <3>2. ~live /\ f.kind \in Loops
      BY <1>5, <3>1
    <3>3. \A j \in i..l + 1 : j = l + 1
      BY <1>2, <2>1
    <3>4. Idle(f)
      BY <3>1 DEF Idle
    <3>5. arrived /\ ~defined => f.goto
      BY DEF SInv, GotosSeen
    <3> QED
      BY <1>3, <3>1, <3>2, <3>3, <3>4, <3>5
  <2>2. CASE i # l + 1
    <3>1. i \in 1..l /\ open'[i] = open[i]
      BY <1>2, <1>3, <2>2
    <3>2. /\ ~live /\ \A j \in i..l : Idle(open[j])
          /\ arrived /\ ~defined => open[i].goto
      BY <1>1, <1>5, <3>1 DEF SInv, DeadLoops
    <3>3. ASSUME NEW j \in i..l + 1 PROVE Idle(open'[j])
      <4>1. CASE j = l + 1
        BY <1>3, <3>2, <4>1 DEF Idle
      <4>2. CASE j # l + 1
        <5>1. j \in i..l /\ j \in 1..l
          BY <1>2, <3>1, <4>2
        <5> QED
          BY <1>3, <3>2, <5>1
      <4> QED
        BY <4>1, <4>2
    <3> QED
      BY <3>1, <3>2, <3>3
  <2> QED
    BY <2>1, <2>2
<1>6. ASSUME NEW i \in 2..l + 1, open'[i].goto
      PROVE  used /\ \A j \in i..l + 1 : open'[j].goto
  <2>1. CASE i = l + 1
    <3>1. \A j \in i..l + 1 : j = l + 1
      BY <1>2, <2>1
    <3> QED
      BY <1>3, <1>6, <2>1, <3>1
  <2>2. CASE i # l + 1
    <3>1. i \in 2..l /\ i \in 1..l /\ open'[i] = open[i]
      BY <1>2, <1>3, <2>2
    <3>2. used /\ \A j \in i..l : open[j].goto
      BY <1>1, <1>6, <3>1 DEF SInv, GotosSeen
    <3>3. ASSUME NEW j \in i..l + 1 PROVE open'[j].goto
      <4>1. CASE j = l + 1
        BY <1>3, <3>2, <4>1
      <4>2. CASE j # l + 1
        <5>1. j \in i..l /\ j \in 1..l
          BY <1>2, <3>1, <4>2
        <5> QED
          BY <1>3, <3>2, <5>1
      <4> QED
        BY <4>1, <4>2
    <3> QED
      BY <3>2, <3>3
  <2> QED
    BY <2>1, <2>2
<1> QED
  BY <1>3, <1>4, <1>5, <1>6 DEF SInv, DeadLoops, GotosSeen

\* The last handler is left for a place that an execution has got to.
LEMMA SourceLeaves ==
  ASSUME WInv, SInv, open # <<>>, open' = SubSeq(open, 1, Len(open) - 1),
         UNCHANGED source,
         live' => live \/ Top.out \/ Top.again \/ Top.entry
  PROVE  SInv'
<1>1. PICK l : l = Len(open)
  OBVIOUS
<1>2. /\ open \in Seq(Frames) /\ l \in Nat /\ l \in 1..l
      /\ \A i \in 1..l : open[i] \in Frames
  BY <1>1, OpenFacts
<1>3. Len(open') = l - 1 /\ \A i \in 1..l - 1 : open'[i] = open[i]
  <2>1. \A i \in 1..l - 1 : open[i] \in Frames
    BY <1>2
  <2> QED
    BY <1>1, <1>2, <2>1, SubSeqProperties
<1>4. arrived' = arrived /\ used' = used /\ defined' = defined
  BY DEF source
<1>5. ASSUME NEW i \in 1..l - 1, open[i].kind \in Loops, ~open[i].entry
      PROVE  /\ ~live' /\ \A j \in i..l - 1 : Idle(open'[j])
             /\ arrived /\ ~defined => open[i].goto
  <2>1. /\ i \in 1..l /\ l \in i..l
        /\ \A j \in i..l - 1 : j \in i..l /\ j \in 1..l - 1
    BY <1>2
  <2>2. /\ ~live /\ \A j \in i..l : Idle(open[j])
        /\ arrived /\ ~defined => open[i].goto
    BY <1>1, <1>5, <2>1 DEF SInv, DeadLoops
  <2>3. Idle(open[l])
    BY <2>1, <2>2
  <2>4. ~live'
    BY <1>1, <2>2, <2>3 DEF Idle, Top
  <2>5. \A j \in i..l - 1 : Idle(open'[j])
    BY <1>3, <2>1, <2>2
  <2> QED
    BY <2>2, <2>4, <2>5
<1>6. ASSUME NEW i \in 2..l - 1, open[i].goto
      PROVE  used /\ \A j \in i..l - 1 : open'[j].goto
  <2>1. i \in 2..l /\ \A j \in i..l - 1 : j \in i..l /\ j \in 1..l - 1
    BY <1>2
  <2>2. used /\ \A j \in i..l : open[j].goto
    BY <1>1, <1>6, <2>1 DEF SInv, GotosSeen
  <2> QED
    BY <1>3, <2>1, <2>2
<1>7. \A i \in 2..l - 1 : i \in 1..l - 1
  BY <1>2
<1>8. \A i \in 1..l - 1 : open'[i].kind \in Loops /\ ~open'[i].entry =>
        /\ ~live' /\ \A j \in i..l - 1 : Idle(open'[j])
        /\ arrived /\ ~defined => open'[i].goto
  BY <1>3, <1>5
<1>9. \A i \in 2..l - 1 : open'[i].goto =>
        used /\ \A j \in i..l - 1 : open'[j].goto
  BY <1>3, <1>6, <1>7
<1>10. DeadLoops'
  BY <1>3, <1>4, <1>8 DEF DeadLoops
<1>11. GotosSeen'
  BY <1>3, <1>4, <1>9 DEF SInv, GotosSeen
<1> QED
  BY <1>10, <1>11 DEF SInv

\* The flags of a handler are set only by live statements.
FlagsOf(f, g) ==
  /\ (f.kind \in Loops <=> g.kind \in Loops) /\ f.goto = g.goto
  /\ f.entry => g.entry
  /\ f.kind \in Loops => (g.entry => f.entry)
  /\ f.out => g.out \/ live
  /\ f.again => g.again \/ live

LEMMA SourceFlags ==
  ASSUME WInv, SInv, Len(open') = Len(open), UNCHANGED source,
         \A i \in 1..Len(open) : FlagsOf(open'[i], open[i]),
         live' => live \/ Top.entry
  PROVE  SInv'
<1>1. PICK l : l = Len(open)
  OBVIOUS
<1>2. arrived' = arrived /\ used' = used /\ defined' = defined /\ l \in Nat
  BY <1>1, OpenFacts DEF source
<1>3. ASSUME NEW i \in 1..l, open'[i].kind \in Loops, ~open'[i].entry
      PROVE  /\ ~live' /\ \A j \in i..l : Idle(open'[j])
             /\ arrived /\ ~defined => open'[i].goto
  <2>1. open[i].kind \in Loops /\ ~open[i].entry /\ open'[i].goto = open[i].goto
    BY <1>1, <1>3 DEF FlagsOf
  <2>2. /\ ~live /\ \A j \in i..l : Idle(open[j])
        /\ arrived /\ ~defined => open[i].goto
    BY <1>1, <2>1 DEF SInv, DeadLoops
  <2>3. ASSUME NEW j \in i..l PROVE Idle(open'[j])
    <3>1. j \in 1..Len(open) /\ Idle(open[j])
      BY <1>1, <1>2, <2>2
    <3>2. FlagsOf(open'[j], open[j])
      BY <3>1
    <3> QED
      BY <2>2, <3>1, <3>2 DEF Idle, FlagsOf
  <2>4. ~live'
    <3>1. l \in i..l
      BY <1>2, <1>3
    <3>2. ~Top.entry
      BY <1>1, <2>2, <3>1 DEF Idle, Top
    <3> QED
      BY <2>2, <3>2
  <2> QED
    BY <2>1, <2>2, <2>3, <2>4
<1>4. \A i \in 1..l : open'[i].goto = open[i].goto
  BY <1>1 DEF FlagsOf
<1>5. ASSUME NEW i \in 2..l, open'[i].goto
      PROVE  used /\ \A j \in i..l : open'[j].goto
  <2>1. i \in 1..l /\ \A j \in i..l : j \in 1..l
    BY <1>2
  <2>2. used /\ \A j \in i..l : open[j].goto
    BY <1>1, <1>4, <1>5, <2>1 DEF SInv, GotosSeen
  <2> QED
    BY <1>4, <2>1, <2>2
<1> QED
  BY <1>1, <1>2, <1>3, <1>5 DEF SInv, DeadLoops, GotosSeen

----------------------------------------------------------------------------
(***************************************************************************)
(* The invariant: what is reached of the blocks that a handler remembers.  *)
(***************************************************************************)

Led(f, X) ==
  /\ f.kind \in {"then", "else", "forever", "do", "arm", "try", "catch"} =>
       (f.after \in X <=> f.out)
  /\ f.kind \in {"while", "for", "foreach"} => (f.after \in X <=> f.entry)
  /\ f.kind \in {"then", "arm", "try", "catch"} \cup Loops =>
       (f.other \in X <=> f.entry)
  /\ f.kind \in {"do", "foreach"} => (f.continue \in X <=> f.again)
  /\ f.kind \in {"while", "for", "forever"} => f.continue = f.other
  /\ f.kind = "arm" /\ f.other # f.continue => f.continue \notin X
  /\ f.kind = "try" => f.continue \notin X
  /\ f.kind \in {"then", "try"} => ~f.out

\* The head of a loop is not waited for any more.
HeadsPlaced ==
  \A i \in 1..Len(open) : open[i].kind \in Loops =>
    open[i].other \notin Waiting(open, Len(open)) \cup LabelWaits

Kept ==
  /\ Quiet(cg) /\ (live <=> Arrives(cg, Got))
  /\ \A i \in 1..Len(open) : Led(open[i], Got)
  /\ HeadsPlaced
  /\ label \in OwnIn(cg) =>
       (label \in Got <=> arrived) /\ label \notin Waiting(open, Len(open))
  /\ used => label \in OwnIn(cg)

PInv ==
  WInv /\ SInv /\ (open # <<>> /\ ~careless /\ ~revived => Kept)

\* Of the first m blocks X and Y have the same, but for A.
Alike(m, A, X, Y) == \A x \in 1..m : x \notin A => (x \in Y <=> x \in X)

\* The blocks that an execution has newly got to, A, are not its own.
LEMMA OtherLed ==
  ASSUME NEW f \in Frames, NEW m \in Nat, RemembersMade(f, m),
         NEW A, Awaits(f) \cap A = {}, f.kind \in Loops => f.other \notin A,
         NEW X, NEW Y, Alike(m, A, X, Y),
         Led(f, X)
  PROVE  Led(f, Y)
<1>1. /\ f.kind \notin {"function", "block"} =>
           f.after \in 1..m /\ f.other \in 1..m
      /\ f.kind \notin {"function", "block", "then", "else"} =>
           f.continue \in 1..m
  BY DEF RemembersMade
<1>2. /\ f.kind \in {"then", "catch", "else", "arm", "try"} \cup Loops =>
           f.after \notin A
      /\ f.kind \in {"then", "catch", "arm", "try"} \cup Loops =>
           f.other \notin A
      /\ f.kind \in {"do", "foreach", "arm", "try"} => f.continue \notin A
  BY DEF Awaits, Loops
<1>3. /\ f.kind \in {"then", "catch", "else", "arm", "try"} \cup Loops =>
           (f.after \in Y <=> f.after \in X)
      /\ f.kind \in {"then", "catch", "arm", "try"} \cup Loops =>
           (f.other \in Y <=> f.other \in X)
      /\ f.kind \in {"do", "foreach", "arm", "try"} =>
           (f.continue \in Y <=> f.continue \in X)
  BY <1>1, <1>2 DEF Loops, Alike
<1> QED
  BY <1>3 DEF Led, Loops

\* A frame that stays, or one that has been seen to.
Fits(i, A, U, Y) ==
  \/ /\ i \in 1..Len(open) /\ open'[i] = open[i] /\ Awaits(open[i]) \cap A = {}
  \/ /\ Led(open'[i], Y) /\ (open'[i].kind \in Loops => open'[i].other \notin U)

\* Executions newly get to A, for which handlers have waited.
LEMMA StepPaths ==
  ASSUME WInv, open # <<>>, Kept,
         NEW c, NEW W, NEW L, NEW m, NEW own,
         Starts(c, W, L, "sound", m, own),
         NEW d, NEW Q, NEW n, NEW all, NEW Y, Walk(d, Q, n, all, Y),
         Grows(m, own, n, all), Emit(d), UNCHANGED <<fn, label, source>>,
         live' <=> Arrives(d, Y),
         NEW A, A \subseteq W, Alike(m, A, Got, Y),
         NEW V, V = Waiting(open', Len(open')), \A x \in V : x \in W \/ x > m,
         \A i \in 1..Len(open') : Fits(i, A, V \cup L, Y)
  PROVE  Kept'
<1>1. /\ Typed(d) /\ Size(d) = n /\ OwnIn(d) = all /\ Walks(d, Y)
      /\ all \subseteq 1..n
  BY WalkFacts DEF Walk
<1>2. /\ StackOK(open, W, m, own, L, "sound") /\ L = LabelWaits /\ m \in Nat
      /\ Len(blocks) \in Nat /\ Len(blocks) <= m /\ own \subseteq 1..m
      /\ own \cap (1..Len(blocks)) = OwnIn(cg)
      /\ W \subseteq own /\ L \subseteq own
  BY SoundSure DEF Starts
<1>3. n \in Nat /\ m <= n /\ own \subseteq all /\ all \cap (1..m) = own
  BY DEF Grows
<1>4. /\ label' = label /\ defined' = defined /\ used' = used
      /\ arrived' = arrived /\ fn' = fn
  BY DEF source
<1>5. cg' = d /\ OwnIn(cg)' = all
  BY <1>1, <1>4, Emitted
<1>6. Got' = Y
  <2>1. First(cg)' = First(d)
    BY <1>1, <1>5 DEF First
  <2>2. Got' = From(d, First(d))
    BY <1>5, <2>1 DEF Got, From, Closed, Size, NextOf, BlockOf
  <2> QED
    BY <1>1, <2>2 DEF Walks
<1>7. label \in 0..Len(blocks)
  BY DEF WInv, TInv
<1>8. label \in all <=> label \in OwnIn(cg)
  <2>1. label \in all => label \in 1..n
    BY <1>1
  <2> QED
    BY <1>2, <1>3, <1>7, <2>1
<1>9. LabelWaits' = L
  <2>1. L = {b \in OwnIn(cg) : b = label /\ ~defined}
    BY <1>2 DEF LabelWaits
  <2>2. LabelWaits' = {b \in all : b = label /\ ~defined}
    BY <1>4, <1>5 DEF LabelWaits
  <2> QED
    BY <1>8, <2>1, <2>2
<1>10. W = Waiting(open, Len(open))
  BY <1>2, SoundSure DEF StackOK
<1>11. \A i \in 1..Len(open) : open[i] \in Frames /\ RemembersMade(open[i], m)
  BY <1>2, StackFacts
<1>12. \A i \in 1..Len(open) : open[i].kind \in Loops =>
         open[i].other \notin W \cup L /\ open[i].other \in 1..m
  <2>1. ASSUME NEW i \in 1..Len(open), open[i].kind \in Loops
        PROVE  open[i].other \in 1..m
    BY <1>2, <1>11, <2>1 DEF RemembersMade, Loops
  <2> QED
    BY <1>2, <1>10, <2>1 DEF Kept, HeadsPlaced
<1>13. ASSUME NEW i \in 1..Len(open')
       PROVE  /\ Led(open'[i], Y)
              /\ open'[i].kind \in Loops => open'[i].other \notin V \cup L
  <2>1. CASE /\ i \in 1..Len(open) /\ open'[i] = open[i]
             /\ Awaits(open[i]) \cap A = {}
    <3>1. PICK f : f = open[i]
      OBVIOUS
    <3>2. /\ f \in Frames /\ RemembersMade(f, m) /\ Awaits(f) \cap A = {}
          /\ Led(f, Got)
          /\ f.kind \in Loops => f.other \notin A
      BY <1>11, <1>12, <2>1, <3>1 DEF Kept
    <3>3. Led(f, Y)
      BY <1>2, <3>2, OtherLed
    <3>4. f.kind \in Loops => f.other \notin V \cup L
      <4>1. f.kind \in Loops => /\ f.other \notin W \cup L /\ f.other \in 1..m
                                /\ ~(f.other > m)
        BY <1>2, <1>12, <2>1, <3>1
      <4> QED
        BY <4>1
    <3> QED
      BY <2>1, <3>1, <3>3, <3>4
  <2>2. CASE /\ Led(open'[i], Y)
             /\ open'[i].kind \in Loops => open'[i].other \notin V \cup L
    BY <2>2
  <2> QED
    BY <2>1, <2>2 DEF Fits
<1>14. \A i \in 1..Len(open') : Led(open'[i], Got')
  BY <1>6, <1>13
<1>15. HeadsPlaced'
  BY <1>9, <1>13 DEF HeadsPlaced
<1>16. Quiet(cg)'
  BY <1>1, <1>5 DEF Walks, Quiet, BlockOf, Size, NextOf
<1>17. live' <=> Arrives(cg, Got)'
  BY <1>5, <1>6 DEF Arrives, At, Open
<1>18. label \in all => /\ label \in Y <=> arrived
                        /\ label \notin V
  <2> HAVE label \in all
  <2>1. label \in OwnIn(cg) /\ label \in 1..m /\ ~(label > m)
    BY <1>2, <1>3, <1>8
  <2>2. (label \in Got <=> arrived) /\ label \notin W
    BY <1>10, <2>1 DEF Kept
  <2>3. label \in Y <=> label \in Got
    BY <2>1, <2>2 DEF Alike
  <2> QED
    BY <2>1, <2>2, <2>3
<1>19. label' \in OwnIn(cg)' =>
         /\ label' \in Got' <=> arrived'
         /\ label' \notin Waiting(open, Len(open))'
  BY <1>4, <1>5, <1>6, <1>18
<1>20. used' => label' \in OwnIn(cg)'
  BY <1>4, <1>5, <1>8 DEF Kept
<1> QED
  BY <1>14, <1>15, <1>16, <1>17, <1>19, <1>20 DEF Kept

----------------------------------------------------------------------------
(***************************************************************************)
(* The same for each way in which the stack changes.  A step makes code d  *)
(* of n blocks, and of them those of Y are reached.                        *)
(***************************************************************************)

Makes(d, Q, n, all, Y, m, own) ==
  /\ Walk(d, Q, n, all, Y) /\ Grows(m, own, n, all) /\ Emit(d)
  /\ UNCHANGED <<fn, label, source>> /\ (live' <=> Arrives(d, Y))

\* Where a step starts from.
Going == WInv /\ SInv /\ open # <<>> /\ ~careless /\ Kept

LEMMA GoingFacts ==
  ASSUME Going, NEW c, NEW W, NEW L, NEW m, NEW own,
         Starts(c, W, L, "sound", m, own)
  PROVE  /\ open \in Seq(Frames) /\ Len(open) \in Nat
         /\ Len(open) \in 1..Len(open) /\ Top = open[Len(open)]
         /\ W \subseteq 1..m /\ L \subseteq 1..m /\ m \in Nat
         /\ W = Waiting(open, Len(open)) /\ W \cap L = {}
         /\ \A i \in 1..Len(open) :
              /\ open[i] \in Frames /\ RemembersMade(open[i], m)
              /\ Awaits(open[i]) \subseteq W /\ Apart(open[i])
              /\ Led(open[i], Got)
              /\ open[i].kind \in Loops =>
                   open[i].other \notin W \cup L /\ open[i].other \in 1..m
         /\ \A i, j \in 1..Len(open) :
              i # j => Awaits(open[i]) \cap Awaits(open[j]) = {}
         /\ \A x : x \in W => \E i \in 1..Len(open) : x \in Awaits(open[i])
<1>1. WInv /\ open # <<>> /\ Kept
  BY DEF Going
<1>2. /\ StackOK(open, W, m, own, L, "sound") /\ m \in Nat
      /\ own \subseteq 1..m /\ W \subseteq own /\ L \subseteq own
      /\ W \cap L = {} /\ L = LabelWaits
  BY SoundSure DEF Starts
<1>a. /\ open \in Seq(Frames) /\ Len(open) \in Nat
      /\ \A i \in 1..Len(open) : /\ open[i] \in Frames
                                 /\ open[i].kind = "function" <=> i = 1
                                 /\ RemembersMade(open[i], m)
  BY <1>2, StackFacts
<1>b. /\ \A i \in 1..Len(open) :
           /\ Remembers(open[i]) \subseteq own \cup {0}
           /\ Apart(open[i]) /\ Awaits(open[i]) \cap L = {}
           /\ Awaits(open[i]) \subseteq W
      /\ \A b \in W : \E i \in 1..Len(open) : b \in Awaits(open[i])
      /\ \A i, j \in 1..Len(open) :
              i # j => Awaits(open[i]) \cap Awaits(open[j]) = {}
  BY <1>2, SoundSure, StackFacts
<1>3. /\ \A i \in 1..Len(open) :
           /\ open[i] \in Frames /\ RemembersMade(open[i], m)
           /\ Awaits(open[i]) \subseteq W /\ Apart(open[i])
      /\ \A i, j \in 1..Len(open) :
           i # j => Awaits(open[i]) \cap Awaits(open[j]) = {}
      /\ \A x \in W : \E i \in 1..Len(open) : x \in Awaits(open[i])
      /\ open \in Seq(Frames) /\ Len(open) \in Nat
  BY <1>a, <1>b
<1>4. W = Waiting(open, Len(open))
  BY <1>2, SoundSure DEF StackOK
<1>5. Len(open) \in 1..Len(open)
  BY <1>1, OpenFacts
<1>6. \A i \in 1..Len(open) : Led(open[i], Got)
  BY <1>1 DEF Kept
<1>7. ASSUME NEW i \in 1..Len(open), open[i].kind \in Loops
      PROVE  open[i].other \notin W \cup L /\ open[i].other \in 1..m
  <2>1. open[i].other \notin W \cup L
    BY <1>1, <1>2, <1>4, <1>7 DEF Kept, HeadsPlaced
  <2>2. open[i].other \in 1..m
    BY <1>2, <1>3, <1>7 DEF RemembersMade, Loops
  <2> QED
    BY <2>1, <2>2
<1>8. ASSUME NEW i \in 1..Len(open)
      PROVE  /\ open[i] \in Frames /\ RemembersMade(open[i], m)
             /\ Awaits(open[i]) \subseteq W /\ Apart(open[i])
             /\ Led(open[i], Got)
             /\ open[i].kind \in Loops =>
                  open[i].other \notin W \cup L /\ open[i].other \in 1..m
  BY <1>3, <1>6, <1>7
<1>9. W \subseteq 1..m /\ L \subseteq 1..m /\ Top = open[Len(open)]
  BY <1>2 DEF Top
<1> QED
  BY <1>2, <1>3, <1>4, <1>5, <1>8, <1>9

LEMMA SamePaths ==
  ASSUME Going, NEW c, NEW W, NEW L, NEW m, NEW own,
         Starts(c, W, L, "sound", m, own),
         NEW d, NEW Q, NEW n, NEW all, NEW Y, Makes(d, Q, n, all, Y, m, own),
         Alike(m, {}, Got, Y), open' = open
  PROVE  Kept'
<1>1. PICK V, A : V = Waiting(open', Len(open')) /\ A = {}
  OBVIOUS
<1>2. V = W /\ A \subseteq W /\ Alike(m, A, Got, Y)
  BY <1>1, GoingFacts
<1>3. \A x \in V : x \in W \/ x > m
  BY <1>2
<1>4. \A i \in 1..Len(open') : Fits(i, A, V \cup L, Y)
  BY <1>1 DEF Fits
<1> QED
  BY <1>1, <1>2, <1>3, <1>4, StepPaths DEF Going, Makes

LEMMA EnterPaths ==
  ASSUME Going, NEW c, NEW W, NEW L, NEW m, NEW own,
         Starts(c, W, L, "sound", m, own),
         NEW d, NEW Q, NEW n, NEW all, NEW Y, Makes(d, Q, n, all, Y, m, own),
         Alike(m, {}, Got, Y),
         NEW f \in Frames, Pushes(f), Led(f, Y),
         \A x \in Awaits(f) : x > m,
         f.kind \in Loops => f.other > m /\ f.other \notin Awaits(f)
  PROVE  Kept'
<1>1. PICK V, A, l : /\ V = Waiting(open', Len(open')) /\ A = {}
                     /\ l = Len(open)
  OBVIOUS
<1>2. /\ open \in Seq(Frames) /\ l \in Nat
      /\ W \subseteq 1..m /\ L \subseteq 1..m /\ m \in Nat
      /\ \A i \in 1..l : Awaits(open[i]) \subseteq W
  BY <1>1, GoingFacts
<1>3. /\ Len(open') = l + 1 /\ open'[l + 1] = f
      /\ \A i \in 1..l : open'[i] = open[i]
  BY <1>1, <1>2, AppendProperties DEF Pushes
<1>4. ASSUME NEW x \in V PROVE x \in W \/ (x \in Awaits(f) /\ x > m)
  <2>1. PICK i \in 1..l + 1 : x \in Awaits(open'[i])
    BY <1>1, <1>3 DEF Waiting
  <2>2. CASE i = l + 1
    BY <1>3, <2>1, <2>2
  <2>3. CASE i # l + 1
    <3>1. i \in 1..l
      BY <1>2, <2>3
    <3> QED
      BY <1>2, <1>3, <2>1, <3>1
  <2> QED
    BY <2>2, <2>3
<1>5. ASSUME NEW i \in 1..Len(open') PROVE Fits(i, A, V \cup L, Y)
  <2>1. CASE i = l + 1
    <3>1. f.kind \in Loops => f.other \notin V \cup L
      <4>1. \A x \in W \cup L : ~(x > m)
        BY <1>2
      <4> QED
        BY <1>4, <4>1
    <3> QED
      BY <1>3, <2>1, <3>1 DEF Fits
  <2>2. CASE i # l + 1
    <3>1. i \in 1..l
      BY <1>2, <1>3, <2>2
    <3> QED
      BY <1>1, <1>3, <3>1 DEF Fits
  <2> QED
    BY <2>1, <2>2
<1>6. A \subseteq W /\ Alike(m, A, Got, Y)
  BY <1>1
<1>7. \A x \in V : x \in W \/ x > m
  BY <1>4
<1> QED
  BY <1>1, <1>5, <1>6, <1>7, StepPaths DEF Going, Makes

LEMMA PopPaths ==
  ASSUME Going, NEW c, NEW W, NEW L, NEW m, NEW own,
         Starts(c, W, L, "sound", m, own),
         NEW d, NEW Q, NEW n, NEW all, NEW Y, Makes(d, Q, n, all, Y, m, own),
         Alike(m, Awaits(Top), Got, Y),
         open' = SubSeq(open, 1, Len(open) - 1)
  PROVE  Kept'
<1>1. PICK V, A, l : /\ V = Waiting(open', Len(open')) /\ A = Awaits(Top)
                     /\ l = Len(open)
  OBVIOUS
<1>2. /\ open \in Seq(Frames) /\ l \in Nat /\ l \in 1..l /\ Top = open[l]
      /\ \A i \in 1..l : open[i] \in Frames /\ Awaits(open[i]) \subseteq W
      /\ \A i, j \in 1..l : i # j => Awaits(open[i]) \cap Awaits(open[j]) = {}
  BY <1>1, GoingFacts
<1>3. Len(open') = l - 1 /\ \A i \in 1..l - 1 : open'[i] = open[i]
  BY <1>1, <1>2, SubSeqProperties
<1>4. ASSUME NEW x \in V PROVE x \in W
  <2>1. PICK i \in 1..l - 1 : x \in Awaits(open'[i])
    BY <1>1, <1>3 DEF Waiting
  <2>2. i \in 1..l
    BY <1>2
  <2> QED
    BY <1>2, <1>3, <2>1, <2>2
<1>5. ASSUME NEW i \in 1..Len(open') PROVE Fits(i, A, V \cup L, Y)
  <2>1. i \in 1..l /\ i # l /\ i \in 1..l - 1
    BY <1>2, <1>3
  <2>2. Awaits(open[i]) \cap A = {}
    BY <1>1, <1>2, <2>1
  <2> QED
    BY <1>1, <1>3, <2>1, <2>2 DEF Fits
<1>6. A \subseteq W /\ Alike(m, A, Got, Y)
  BY <1>1, <1>2
<1> QED
  BY <1>1, <1>4, <1>5, <1>6, StepPaths DEF Going, Makes

\* A frame changes that others do not wait with.
LEMMA FramePaths ==
  ASSUME Going, NEW c, NEW W, NEW L, NEW m, NEW own,
         Starts(c, W, L, "sound", m, own),
         NEW d, NEW Q, NEW n, NEW all, NEW Y, Makes(d, Q, n, all, Y, m, own),
         NEW k \in 1..Len(open), Alike(m, Awaits(open[k]), Got, Y),
         Len(open') = Len(open),
         \A i \in 1..Len(open) : i # k => open'[i] = open[i],
         Led(open'[k], Y),
         \A x \in Awaits(open'[k]) : x \in Awaits(open[k]) \/ x > m,
         open'[k].kind \in Loops => open'[k].other = open[k].other /\
                                    open[k].kind \in Loops
  PROVE  Kept'
<1>1. PICK V, A, l : /\ V = Waiting(open', Len(open')) /\ A = Awaits(open[k])
                     /\ l = Len(open)
  OBVIOUS
<1>2. /\ l \in Nat /\ m \in Nat
      /\ \A i \in 1..l : /\ open[i] \in Frames /\ Awaits(open[i]) \subseteq W
                         /\ open[i].kind \in Loops =>
                              /\ open[i].other \notin W \cup L
                              /\ open[i].other \in 1..m
      /\ \A i, j \in 1..l : i # j => Awaits(open[i]) \cap Awaits(open[j]) = {}
  BY <1>1, GoingFacts
<1>3. ASSUME NEW x \in V PROVE x \in W \/ x > m
  <2>1. PICK i \in 1..l : x \in Awaits(open'[i])
    BY <1>1 DEF Waiting
  <2>2. CASE i = k
    BY <1>1, <1>2, <2>1, <2>2
  <2>3. CASE i # k
    BY <1>1, <1>2, <2>1, <2>3
  <2> QED
    BY <2>2, <2>3
<1>4. ASSUME NEW i \in 1..Len(open') PROVE Fits(i, A, V \cup L, Y)
  <2>1. CASE i = k
    <3>1. ASSUME open'[k].kind \in Loops PROVE open'[k].other \notin V \cup L
      <4>1. /\ open'[k].other \notin W \cup L
            /\ open'[k].other \in 1..m /\ ~(open'[k].other > m)
        BY <1>1, <1>2, <3>1
      <4> QED
        BY <1>3, <4>1
    <3> QED
      BY <2>1, <3>1 DEF Fits
  <2>2. CASE i # k
    <3>1. i \in 1..l /\ open'[i] = open[i]
      BY <1>1, <2>2
    <3>2. Awaits(open[i]) \cap A = {}
      BY <1>1, <1>2, <2>2, <3>1
    <3> QED
      BY <1>1, <3>1, <3>2 DEF Fits
  <2> QED
    BY <2>1, <2>2
<1>5. A \subseteq W /\ Alike(m, A, Got, Y)
  BY <1>1, <1>2
<1> QED
  BY <1>1, <1>3, <1>4, <1>5, StepPaths DEF Going, Makes

LEMMA PartPaths ==
  ASSUME Going, NEW c, NEW W, NEW L, NEW m, NEW own,
         Starts(c, W, L, "sound", m, own),
         NEW d, NEW Q, NEW n, NEW all, NEW Y, Makes(d, Q, n, all, Y, m, own),
         Alike(m, Awaits(Top), Got, Y),
         NEW g \in Frames, GoesOn(g), g.kind \notin Loops,
         \A x \in Awaits(g) : x \in Awaits(Top) \/ x > m,
         Led([g EXCEPT !.out = g.out \/ live], Y)
  PROVE  Kept'
<1>1. PICK o, k : /\ o = [g EXCEPT !.out = g.out \/ live] /\ k = Len(open)
  OBVIOUS
<1>2. /\ open \in Seq(Frames) /\ k \in 1..Len(open) /\ Top = open[k]
  BY <1>1, GoingFacts
<1>3. open' = [open EXCEPT ![k] = o]
  BY <1>1 DEF GoesOn
<1>4. /\ Len(open') = Len(open) /\ open'[k] = o
      /\ \A i \in 1..Len(open) : i # k => open'[i] = open[i]
  BY <1>2, <1>3
<1>5. SameFrame(o, g) /\ o.kind = g.kind
  BY <1>1 DEF Frames, SameFrame
<1>6. Awaits(o) = Awaits(g)
  BY <1>5, SameAwaits
<1>7. /\ Alike(m, Awaits(open[k]), Got, Y) /\ Led(open'[k], Y)
      /\ \A x \in Awaits(open'[k]) : x \in Awaits(open[k]) \/ x > m
      /\ open'[k].kind \notin Loops
  BY <1>1, <1>2, <1>4, <1>5, <1>6
<1> QED
  BY <1>2, <1>4, <1>7, FramePaths

----------------------------------------------------------------------------
(* What the handlers start from: as in Starts, and what is reached.        *)

LEMMA GoingWalk ==
  ASSUME Going
  PROVE  \E W, L :
           /\ Starts(cg, W, L, "sound", Len(blocks), OwnIn(cg))
           /\ Walk(cg, W \cup L, Len(blocks), OwnIn(cg), Got)
           /\ live <=> Arrives(cg, Got)
<1>1. /\ WInv /\ open # <<>> /\ (Sure("sound") => ~careless) /\ Kept
  BY DEF Going
<1>2. PICK W, L : Starts(cg, W, L, "sound", Len(blocks), OwnIn(cg))
  BY <1>1, UnderStarts
<1>3. Stage(cg, W \cup L, "sound", Len(blocks), OwnIn(cg))
  BY <1>2 DEF Starts
<1>4. Walk(cg, W \cup L, Len(blocks), OwnIn(cg), Got)
  BY <1>1, <1>3 DEF Walk, Walks, Got, Kept
<1> QED
  BY <1>1, <1>2, <1>4 DEF Kept

Beginning(W, L, m, own) ==
  /\ Starts(Ready, W, L, "sound", m, own) /\ Open(Ready)
  /\ Walk(Ready, W \cup L, m, own, Got)
  /\ (live <=> At(Ready) \in Got)
  /\ fn \in Nat \ {0} /\ m \in Nat /\ own \subseteq 1..m
  /\ W \subseteq own /\ L \subseteq own /\ W \cap L = {} /\ Got \subseteq 1..m
  /\ Id(Ready, 1) = m + 1 /\ Id(Ready, 2) = m + 2 /\ Id(Ready, 3) = m + 3
  /\ Id(Ready, 4) = m + 4 /\ Id(Ready, 5) = m + 5
  /\ live \in BOOLEAN /\ Size(Ready) = m

LEMMA BeginsPath ==
  ASSUME Going
  PROVE  \E W, L, m, own : Beginning(W, L, m, own)
<1>1. /\ WInv /\ open # <<>> /\ (Sure("sound") => ~careless) /\ Kept
  BY DEF Going
<1>2. PICK W, L, m, own :
        /\ Starts(Ready, W, L, "sound", m, own) /\ Open(Ready)
        /\ \A b \in 1..Len(blocks) : BlockOf(Ready, b) = blocks[b]
  BY <1>1, ReadyStarts
<1>3. PICK V, M : /\ Starts(cg, V, M, "sound", Len(blocks), OwnIn(cg))
                  /\ Walk(cg, V \cup M, Len(blocks), OwnIn(cg), Got)
                  /\ live <=> Arrives(cg, Got)
  BY GoingWalk
<1>4. PICK l, P : l = Len(blocks) /\ P = W \cup L
  OBVIOUS
<1>5. V = W /\ M = L
  BY <1>2, <1>3, SoundSure DEF Starts, StackOK
<1>6. Walk(cg, P, l, OwnIn(cg), Got)
  BY <1>3, <1>4, <1>5
<1>7. /\ Stage(Ready, P, "sound", m, own) /\ fn \in Nat \ {0} /\ m \in Nat
      /\ own \subseteq 1..m /\ W \subseteq own /\ L \subseteq own
      /\ W \cap L = {}
  BY <1>2, <1>4, SoundSure DEF Starts
<1>8. Size(Ready) = m /\ OwnIn(Ready) = own
  BY <1>7 DEF Stage
<1>9. /\ l \in Nat /\ P \subseteq 1..l /\ Got \subseteq 1..l /\ Size(cg) = l
      /\ OwnIn(cg) \subseteq 1..l
  BY <1>6, WalkFacts
<1>10. /\ Walk(Ready, P, m, own, Got) /\ Got \subseteq 1..m
       /\ live <=> At(Ready) \in Got
  <2>1. CASE Open(cg)
    <3>1. Ready = cg
      BY <2>1 DEF Ready
    <3>2. m = l /\ own = OwnIn(cg)
      BY <1>8, <1>9, <3>1
    <3>3. live <=> At(Ready) \in Got
      BY <1>3, <2>1, <3>1 DEF Arrives
    <3> QED
      BY <1>6, <1>9, <3>1, <3>2, <3>3
  <2>2. CASE ~Open(cg)
    <3>1. PICK n, c, d, all, Q :
            /\ n = l + 1 /\ c = New(cg, 1) /\ d = Place(c, n)
            /\ all = OwnIn(cg) \cup {n} /\ Q = P \cup {n}
      OBVIOUS
    <3>2. Ready = d
      BY <1>9, <2>2, <3>1 DEF Ready, Id, Size
    <3>3. Walk(c, Q, n, all, Got) /\ ~Open(c)
      BY <1>6, <1>7, <2>2, <3>1, WalkOne
    <3>4. Walk(d, Q \ {n}, n, all, Got) /\ At(d) = n
      BY <3>1, <3>3, PlaceWalk
    <3>5. Q \ {n} = P /\ n \notin Got /\ Got \subseteq 1..n
      BY <1>9, <3>1
    <3>6. Size(d) = n /\ OwnIn(d) = all
      BY <3>4, WalkFacts
    <3>7. m = n /\ own = all
      BY <1>8, <3>2, <3>6
    <3>8. ~live
      BY <1>3, <2>2 DEF Arrives
    <3> QED
      BY <3>2, <3>4, <3>5, <3>7, <3>8
  <2> QED
    BY <2>1, <2>2
<1>11. /\ Id(Ready, 1) = m + 1 /\ Id(Ready, 2) = m + 2 /\ Id(Ready, 3) = m + 3
       /\ Id(Ready, 4) = m + 4 /\ Id(Ready, 5) = m + 5
  BY <1>8 DEF Size, Id
<1>12. live \in BOOLEAN
  BY <1>1 DEF WInv, TInv
<1>13. Beginning(W, L, m, own)
  BY <1>2, <1>4, <1>7, <1>8, <1>10, <1>11, <1>12 DEF Beginning
<1> QED
  BY <1>13

\* The last handler ends, or goes on with another part.
Finishing(f, W, L, m, own) ==
  /\ Starts(cg, W, L, "sound", m, own) /\ m = Len(blocks)
  /\ Walk(cg, W \cup L, m, own, Got) /\ (live <=> Arrives(cg, Got))
  /\ fn \in Nat \ {0} /\ m \in Nat /\ own \subseteq 1..m
  /\ W \subseteq own /\ L \subseteq own /\ W \cap L = {} /\ Got \subseteq 1..m
  /\ f \in Frames /\ Apart(f) /\ Awaits(f) \subseteq W /\ Awaits(f) \cap L = {}
  /\ Led(f, Got)
  /\ f.kind \notin {"function", "block"} =>
       f.after \in own /\ f.other \in own
  /\ f.kind \notin {"function", "block", "then", "else"} => f.continue \in own
  /\ f.kind \in Loops /\ ~f.entry => ~live /\ ~f.out /\ ~f.again
  /\ live \in BOOLEAN

LEMMA EndsPath ==
  ASSUME Going, NEW f, f = Top, f.kind # "function"
  PROVE  \E W, L, m, own : Finishing(f, W, L, m, own)
<1>1. /\ WInv /\ SInv /\ open # <<>> /\ ~careless
  BY DEF Going
<1>2. EndsWith(f, "sound")
  BY <1>1 DEF EndsWith
<1>3. PICK W, L, m, own : Ending(f, "sound", W, L, m, own)
  BY <1>1, <1>2, Ends
<1>4. /\ Starts(cg, W, L, "sound", m, own) /\ m = Len(blocks)
      /\ Stage(cg, W \cup L, "sound", m, own)
      /\ fn \in Nat \ {0} /\ m \in Nat /\ own \subseteq 1..m
      /\ f \in Frames /\ RemembersMade(f, m)
      /\ W \subseteq own /\ L \subseteq own /\ W \cap L = {}
      /\ Remembers(f) \subseteq own \cup {0} /\ Apart(f)
      /\ Awaits(f) \subseteq W /\ Awaits(f) \cap L = {}
  BY <1>3, SoundSure DEF Ending
<1>5. PICK V, M : /\ Starts(cg, V, M, "sound", Len(blocks), OwnIn(cg))
                  /\ Walk(cg, V \cup M, Len(blocks), OwnIn(cg), Got)
                  /\ live <=> Arrives(cg, Got)
  BY GoingWalk
<1>6. V = W /\ M = L
  BY <1>4, <1>5, SoundSure DEF Starts, StackOK
<1>7. OwnIn(cg) = own
  BY <1>4 DEF Stage
<1>8. Walk(cg, W \cup L, m, own, Got)
  BY <1>4, <1>5, <1>6, <1>7
<1>9. Got \subseteq 1..m
  BY <1>8, WalkFacts
<1>10. Led(f, Got)
  BY <1>4, GoingFacts
<1>11. /\ f.kind \notin {"function", "block"} =>
            f.after \in own /\ f.other \in own
       /\ f.kind \notin {"function", "block", "then", "else"} =>
            f.continue \in own
  BY <1>4 DEF RemembersMade, Remembers
<1>12. f.kind \in Loops /\ ~f.entry => ~live /\ ~f.out /\ ~f.again
  <2>1. Len(open) \in 1..Len(open) /\ Len(open) \in Len(open)..Len(open)
    BY <1>1, OpenFacts
  <2> QED
    BY <1>1, <2>1 DEF SInv, DeadLoops, Idle, Top
<1>13. live \in BOOLEAN
  BY <1>1 DEF WInv, TInv
<1>14. Finishing(f, W, L, m, own)
  BY <1>4, <1>5, <1>8, <1>9, <1>10, <1>11, <1>12, <1>13 DEF Finishing
<1> QED
  BY <1>14

----------------------------------------------------------------------------
(* The simple statements *)

LEMMA OntoNone == ASSUME NEW c, NEW X PROVE Onto(c, X, {}) = X
BY DEF Onto

LEMMA AlikeSelf == ASSUME NEW m, NEW A, NEW X PROVE Alike(m, A, X, X)
BY DEF Alike

\* A terminator adds new blocks, blocks of A, or none.
LEMMA AlikeOnto ==
  ASSUME NEW m, NEW A, NEW X, NEW Y, Alike(m, A, X, Y), NEW c, NEW T,
         Arrives(c, Y) => \A t \in T : t \in 1..m => t \in A \/ t \in Y
  PROVE  Alike(m, A, X, Onto(c, Y, T))
BY DEF Alike, Onto

LEMMA StraightPaths == ASSUME Going, Straight PROVE Kept'
<1>1. PICK W, L, m, own : Beginning(W, L, m, own)
  BY BeginsPath
<1>2. /\ Starts(Ready, W, L, "sound", m, own) /\ Open(Ready)
      /\ Walk(Ready, W \cup L, m, own, Got) /\ (live <=> At(Ready) \in Got)
  BY <1>1 DEF Beginning
<1>3. PICK b, x : b = Ready.blocks[Ready.at] /\ x = [b EXCEPT !.empty = FALSE]
  OBVIOUS
<1>4. Size(Ready) = m /\ Typed(Ready)
  BY <1>2, WalkFacts
<1>5. /\ b \in Blocks /\ b.entered \in 0..m /\ b = BlockOf(Ready, At(Ready))
  BY <1>3, <1>4, CodeFacts DEF Size, BlockOf, At
<1>6. /\ x \in Blocks /\ x.fn = BlockOf(Ready, At(Ready)).fn
      /\ x.ends = BlockOf(Ready, At(Ready)).ends
      /\ x.next = BlockOf(Ready, At(Ready)).next /\ x.entered \in 0..m
  BY <1>3, <1>5 DEF Blocks
<1>7. PICK d : d = SetTo(Ready, x)
  OBVIOUS
<1>8. Walk(d, W \cup L, m, own, Got) /\ Open(d) /\ At(d) = At(Ready)
  BY <1>2, <1>6, <1>7, TouchWalk
<1>9. Emit(d)
  <2>1. Emit([Ready EXCEPT !.blocks[Ready.at].empty = FALSE])
    BY DEF Straight
  <2>2. [Ready EXCEPT !.blocks[Ready.at].empty = FALSE] = d
    BY <1>3, <1>7 DEF SetTo
  <2> QED
    BY <2>1, <2>2
<1>10. UNCHANGED <<fn, label, source>> /\ live' = live /\ open' = open
  BY DEF Straight
<1>11. live' <=> Arrives(d, Got)
  BY <1>2, <1>8, <1>10 DEF Arrives
<1>12. Grows(m, own, m, own)
  BY <1>2, GrowsNot
<1>13. Makes(d, W \cup L, m, own, Got, m, own)
  BY <1>8, <1>9, <1>10, <1>11, <1>12 DEF Makes
<1> QED
  BY <1>2, <1>10, <1>13, AlikeSelf, SamePaths

LEMMA ReturnPaths == ASSUME Going, Return PROVE Kept'
<1>1. PICK W, L, m, own : Beginning(W, L, m, own)
  BY BeginsPath
<1>2. /\ Starts(Ready, W, L, "sound", m, own) /\ Open(Ready)
      /\ Walk(Ready, W \cup L, m, own, Got)
  BY <1>1 DEF Beginning
<1>3. PICK d : d = End(Ready, {})
  OBVIOUS
<1>4. Walk(d, W \cup L, m, own, Onto(Ready, Got, {})) /\ ~Open(d)
  BY <1>2, <1>3, EndWalk
<1>5. Walk(d, W \cup L, m, own, Got)
  BY <1>4, OntoNone
<1>6. /\ UNCHANGED <<fn, label, source>> /\ live' = FALSE /\ open' = open
      /\ Emit(d)
  BY <1>3 DEF Return
<1>7. live' <=> Arrives(d, Got)
  BY <1>4, <1>6 DEF Arrives
<1>8. Grows(m, own, m, own)
  BY <1>2, GrowsNot
<1>9. Makes(d, W \cup L, m, own, Got, m, own)
  BY <1>5, <1>6, <1>7, <1>8 DEF Makes
<1> QED
  BY <1>2, <1>6, <1>9, AlikeSelf, SamePaths

LEMMA ThrowPaths == ASSUME Going, Throw PROVE Kept'
<1>1. PICK W, L, m, own : Beginning(W, L, m, own)
  BY BeginsPath
<1>2. /\ Starts(Ready, W, L, "sound", m, own) /\ Open(Ready)
      /\ Walk(Ready, W \cup L, m, own, Got)
      /\ fn \in Nat \ {0} /\ m \in Nat /\ own \subseteq 1..m
      /\ Got \subseteq 1..m /\ W \subseteq own /\ L \subseteq own
      /\ Id(Ready, 1) = m + 1 /\ Id(Ready, 2) = m + 2
  BY <1>1 DEF Beginning
<1>3. PICK j, a, n, all, P :
        /\ j = m + 1 /\ a = m + 2 /\ n = m + 2 /\ all = own \cup {j, a}
        /\ P = (W \cup L) \cup {j, a}
  OBVIOUS
<1>4. PICK c : c = New(Ready, 2)
  OBVIOUS
<1>5. Walk(c, P, n, all, Got) /\ Open(c)
  BY <1>2, <1>3, <1>4, WalkTwo
<1>6. PICK c1, Y : c1 = Place(End(c, {j, a}), j) /\ Y = Onto(c, Got, {j, a})
  OBVIOUS
<1>7. {j, a} \subseteq all /\ {j, a} \subseteq Got \cup P /\ j \in P
  BY <1>3
<1>8. Walk(c1, P \ {j}, n, all, Y) /\ Open(c1)
  BY <1>5, <1>6, <1>7, JumpWalk
<1>9. PICK c2 : c2 = Place(End(c1, {}), a)
  OBVIOUS
<1>10. a \in P \ {j}
  BY <1>2, <1>3
<1>11. Walk(c2, (P \ {j}) \ {a}, n, all, Onto(c1, Y, {})) /\ Open(c2)
  BY <1>8, <1>9, <1>10, JumpWalk
<1>12. Walk(c2, (P \ {j}) \ {a}, n, all, Y)
  BY <1>11, OntoNone
<1>13. PICK d : d = End(c2, {})
  OBVIOUS
<1>14. Walk(d, (P \ {j}) \ {a}, n, all, Onto(c2, Y, {})) /\ ~Open(d)
  BY <1>11, <1>12, <1>13, EndWalk
<1>15. Walk(d, (P \ {j}) \ {a}, n, all, Y)
  BY <1>14, OntoNone
<1>16. Grows(m, own, n, all)
  <2>1. {j, a} \subseteq m + 1 .. n /\ n \in Nat /\ m <= n
    BY <1>2, <1>3
  <2>2. Grows(m, own, n, own \cup {j, a})
    BY <1>2, <2>1, GrowsBy
  <2> QED
    BY <1>3, <2>2
<1>17. /\ UNCHANGED <<fn, label, source>> /\ live' = FALSE /\ open' = open
       /\ Emit(d)
  BY <1>2, <1>3, <1>4, <1>6, <1>9, <1>13 DEF Throw
<1>18. live' <=> Arrives(d, Y)
  BY <1>14, <1>17 DEF Arrives
<1>19. Makes(d, (P \ {j}) \ {a}, n, all, Y, m, own)
  BY <1>15, <1>16, <1>17, <1>18 DEF Makes
<1>20. Alike(m, {}, Got, Y)
  <2>1. \A t \in {j, a} : t \notin 1..m
    BY <1>2, <1>3
  <2> QED
    BY <1>6, <2>1, AlikeSelf, AlikeOnto
<1> QED
  BY <1>2, <1>17, <1>19, <1>20, SamePaths

\* break and continue leave for t, which a live one newly gets to.
LEMMA LeavePaths ==
  ASSUME Going, NEW W, NEW L, NEW m, NEW own, Beginning(W, L, m, own),
         NEW t \in own, live => t \in W \/ t \in Got,
         Emit(LeaveFor(t)), UNCHANGED <<fn, label, source>>, live' = FALSE
  PROVE  \E d, Q, n, all :
           Makes(d, Q, n, all, Got \cup {x \in {t} : live}, m, own)
<1>2. /\ Starts(Ready, W, L, "sound", m, own) /\ Open(Ready)
      /\ Walk(Ready, W \cup L, m, own, Got) /\ (live <=> At(Ready) \in Got)
      /\ fn \in Nat \ {0} /\ m \in Nat /\ own \subseteq 1..m
      /\ Got \subseteq 1..m /\ W \subseteq own /\ L \subseteq own
      /\ Id(Ready, 1) = m + 1
  BY DEF Beginning
<1>3. PICK P, b, n, all, T :
        /\ P = W \cup L /\ b = m + 1 /\ n = m + 1 /\ all = own \cup {b}
        /\ T = {t}
  OBVIOUS
<1>4. PICK c, Y : c = End(Ready, T) /\ Y = Onto(Ready, Got, T)
  OBVIOUS
<1>5. Arrives(Ready, Got) <=> live
  BY <1>2 DEF Arrives
<1>6. Walk(c, P, m, own, Y) /\ ~Open(c)
  <2>1. T \subseteq own /\ (Arrives(Ready, Got) => T \subseteq Got \cup P)
    BY <1>3, <1>5
  <2> QED
    BY <1>2, <1>3, <1>4, <2>1, EndWalk
<1>7. PICK c1 : c1 = New(c, 1)
  OBVIOUS
<1>8. Walk(c1, P \cup {b}, n, all, Y) /\ ~Open(c1)
  BY <1>2, <1>3, <1>6, <1>7, WalkOne
<1>9. PICK d : d = Place(c1, b)
  OBVIOUS
<1>10. Walk(d, (P \cup {b}) \ {b}, n, all, Y) /\ At(d) = b
  BY <1>8, <1>9, PlaceWalk
<1>11. Y = Got \cup {x \in {t} : live} /\ b \notin Y
  BY <1>2, <1>3, <1>4, <1>5 DEF Onto
<1>12. Emit(d)
  <2>1. LeaveFor(t) = d
    BY <1>2, <1>3, <1>4, <1>7, <1>9 DEF LeaveFor
  <2> QED
    BY <2>1
<1>13. Grows(m, own, n, all)
  <2>1. {b} \subseteq m + 1 .. n /\ n \in Nat /\ m <= n
    BY <1>2, <1>3
  <2>2. Grows(m, own, n, own \cup {b})
    BY <1>2, <2>1, GrowsBy
  <2> QED
    BY <1>3, <2>2
<1>14. live' <=> Arrives(d, Y)
  BY <1>10, <1>11 DEF Arrives
<1>15. Makes(d, (P \cup {b}) \ {b}, n, all, Y, m, own)
  BY <1>10, <1>12, <1>13, <1>14 DEF Makes
<1> QED
  BY <1>11, <1>15

LEMMA LoopFacts ==
  ASSUME Going, NEW i \in InnermostLoop, NEW W, NEW L, NEW m, NEW own,
         Beginning(W, L, m, own), NEW f, f = open[i]
  PROVE  /\ i \in 1..Len(open) /\ f \in Frames /\ f.kind \in Loops
         /\ (live => f.entry) /\ Led(f, Got) /\ Apart(f)
         /\ Awaits(f) \subseteq W /\ f.other \notin W
         /\ f.after \in own /\ f.continue \in own /\ live \in BOOLEAN
<1>1. WInv /\ SInv /\ Starts(Ready, W, L, "sound", m, own) /\ live \in BOOLEAN
  BY DEF Going, Beginning
<1>2. DOMAIN open = 1..Len(open)
  BY <1>1, OpenFacts
<1>3. i \in 1..Len(open) /\ f.kind \in Loops
  BY <1>2 DEF InnermostLoop
<1>4. /\ f \in Frames /\ Led(f, Got) /\ Apart(f) /\ Awaits(f) \subseteq W
      /\ f.other \notin W /\ RemembersMade(f, m)
  BY <1>1, <1>3, GoingFacts
<1>5. live => f.entry
  BY <1>1, <1>3 DEF SInv, DeadLoops
<1>6. StackOK(open, W, m, own, L, "sound")
  BY <1>1 DEF Starts
<1>7. Remembers(f) \subseteq own \cup {0}
  BY <1>3, <1>6, SoundSure, StackFacts
<1>8. f.after # 0 /\ f.continue # 0
  BY <1>3, <1>4 DEF RemembersMade, Loops
<1>9. f.after \in own /\ f.continue \in own
  BY <1>7, <1>8 DEF Remembers
<1> QED
  BY <1>1, <1>3, <1>4, <1>5, <1>9

LEMMA BreakPaths == ASSUME Going, Break PROVE Kept'
<1>1. PICK i \in InnermostLoop :
        /\ Statement /\ Emit(LeaveFor(open[i].after))
        /\ open' = [open EXCEPT ![i].out = @ \/ live] /\ live' = FALSE
        /\ UNCHANGED <<fn, label, source, careless>>
  BY DEF Break
<1>2. PICK W, L, m, own : Beginning(W, L, m, own)
  BY BeginsPath
<1>3. PICK f, o : f = open[i] /\ o = [f EXCEPT !.out = f.out \/ live]
  OBVIOUS
<1>4. /\ i \in 1..Len(open) /\ f \in Frames /\ f.kind \in Loops
      /\ (live => f.entry) /\ Led(f, Got) /\ Apart(f)
      /\ Awaits(f) \subseteq W /\ f.other \notin W
      /\ f.after \in own /\ f.continue \in own /\ live \in BOOLEAN
  BY <1>2, <1>3, LoopFacts
<1>5. Starts(Ready, W, L, "sound", m, own)
  BY <1>2 DEF Beginning
<1>6. open \in Seq(Frames)
  BY <1>5, GoingFacts
<1>7. f.after \in Awaits(f)
  BY <1>4 DEF Awaits, Loops
<1>8. PICK t, Y : t = f.after /\ Y = Got \cup {x \in {t} : live}
  OBVIOUS
<1>9. PICK d, Q, n, all : Makes(d, Q, n, all, Y, m, own)
  <2>1. t \in own /\ (live => t \in W \/ t \in Got) /\ Emit(LeaveFor(t))
    BY <1>1, <1>3, <1>4, <1>7, <1>8
  <2>2. UNCHANGED <<fn, label, source>> /\ live' = FALSE
    BY <1>1
  <2> QED
    BY <1>2, <1>8, <2>1, <2>2, LeavePaths
<1>10. Alike(m, Awaits(f), Got, Y)
  BY <1>7, <1>8 DEF Alike
<1>11. /\ o \in Frames /\ SameFrame(o, f) /\ o.kind = f.kind
       /\ o.after = t /\ o.other = f.other /\ o.continue = f.continue
       /\ o.entry = f.entry /\ o.again = f.again /\ (o.out <=> f.out \/ live)
  BY <1>3, <1>4, <1>8 DEF Frames, SameFrame
<1>12. Led(o, Y)
  <2>1. /\ t \in Y <=> t \in Got \/ live
        /\ f.other \in Y <=> f.other \in Got
    BY <1>4, <1>7, <1>8
  <2>2. f.kind \in {"do", "foreach"} =>
          (f.continue \in Y <=> f.continue \in Got)
    BY <1>4, <1>8 DEF Apart
  <2> QED
    BY <1>4, <1>8, <1>11, <2>1, <2>2 DEF Led, Loops
<1>13. Awaits(o) = Awaits(f)
  BY <1>11, SameAwaits
<1>14. /\ Len(open') = Len(open) /\ open'[i] = o
       /\ \A j \in 1..Len(open) : j # i => open'[j] = open[j]
  BY <1>1, <1>3, <1>4, <1>6
<1>15. /\ Alike(m, Awaits(open[i]), Got, Y) /\ Led(open'[i], Y)
       /\ \A x \in Awaits(open'[i]) : x \in Awaits(open[i]) \/ x > m
       /\ open'[i].kind \in Loops =>
            open'[i].other = open[i].other /\ open[i].kind \in Loops
  BY <1>3, <1>4, <1>10, <1>11, <1>12, <1>13, <1>14
<1> QED
  BY <1>4, <1>5, <1>9, <1>14, <1>15, FramePaths

LEMMA ContinuePaths == ASSUME Going, Continue PROVE Kept'
<1>1. PICK i \in InnermostLoop :
        /\ Statement /\ Emit(LeaveFor(open[i].continue))
        /\ open' = [open EXCEPT ![i].again = @ \/ live] /\ live' = FALSE
        /\ UNCHANGED <<fn, label, source, careless>>
  BY DEF Continue
<1>2. PICK W, L, m, own : Beginning(W, L, m, own)
  BY BeginsPath
<1>3. PICK f, o : f = open[i] /\ o = [f EXCEPT !.again = f.again \/ live]
  OBVIOUS
<1>4. /\ i \in 1..Len(open) /\ f \in Frames /\ f.kind \in Loops
      /\ (live => f.entry) /\ Led(f, Got) /\ Apart(f)
      /\ Awaits(f) \subseteq W /\ f.other \notin W
      /\ f.after \in own /\ f.continue \in own /\ live \in BOOLEAN
  BY <1>2, <1>3, LoopFacts
<1>5. Starts(Ready, W, L, "sound", m, own)
  BY <1>2 DEF Beginning
<1>6. open \in Seq(Frames)
  BY <1>5, GoingFacts
<1>7. /\ f.kind \in {"do", "foreach"} => f.continue \in Awaits(f)
      /\ f.kind \in {"while", "for", "forever"} =>
           (live => f.continue \in Got)
  BY <1>4 DEF Awaits, Led, Loops
<1>8. PICK t, Y : t = f.continue /\ Y = Got \cup {x \in {t} : live}
  OBVIOUS
<1>a. live => t \in Awaits(f) \/ t \in Got
  BY <1>4, <1>7, <1>8 DEF Loops
<1>9. PICK d, Q, n, all : Makes(d, Q, n, all, Y, m, own)
  <2>1. t \in own /\ (live => t \in W \/ t \in Got) /\ Emit(LeaveFor(t))
    BY <1>1, <1>3, <1>4, <1>8, <1>a
  <2>2. UNCHANGED <<fn, label, source>> /\ live' = FALSE
    BY <1>1
  <2> QED
    BY <1>2, <1>8, <2>1, <2>2, LeavePaths
<1>10. Alike(m, Awaits(f), Got, Y)
  BY <1>8, <1>a DEF Alike
<1>11. /\ o \in Frames /\ SameFrame(o, f) /\ o.kind = f.kind
       /\ o.after = f.after /\ o.other = f.other /\ o.continue = t
       /\ o.entry = f.entry /\ o.out = f.out /\ (o.again <=> f.again \/ live)
  BY <1>3, <1>4, <1>8 DEF Frames, SameFrame
<1>12. Led(o, Y)
  <2>1. CASE f.kind \in {"while", "for", "forever"}
    <3>1. Y = Got
      BY <1>7, <1>8, <2>1
    <3> QED
      BY <1>4, <1>8, <1>11, <2>1, <3>1 DEF Led, Loops
  <2>2. CASE f.kind \in {"do", "foreach"}
    <3>1. /\ t \in Y <=> t \in Got \/ live
          /\ f.other \in Y <=> f.other \in Got
      BY <1>4, <1>7, <1>8, <2>2
    <3>2. f.after \in Y <=> f.after \in Got
      BY <1>4, <1>8, <2>2 DEF Apart
    <3> QED
      BY <1>4, <1>8, <1>11, <2>2, <3>1, <3>2 DEF Led, Loops
  <2> QED
    BY <1>4, <2>1, <2>2 DEF Loops
<1>13. Awaits(o) = Awaits(f)
  BY <1>11, SameAwaits
<1>14. /\ Len(open') = Len(open) /\ open'[i] = o
       /\ \A j \in 1..Len(open) : j # i => open'[j] = open[j]
  BY <1>1, <1>3, <1>4, <1>6
<1>15. /\ Alike(m, Awaits(open[i]), Got, Y) /\ Led(open'[i], Y)
       /\ \A x \in Awaits(open'[i]) : x \in Awaits(open[i]) \/ x > m
       /\ open'[i].kind \in Loops =>
            open'[i].other = open[i].other /\ open[i].kind \in Loops
  BY <1>3, <1>4, <1>10, <1>11, <1>12, <1>13, <1>14
<1> QED
  BY <1>4, <1>5, <1>9, <1>14, <1>15, FramePaths

----------------------------------------------------------------------------
(* The beginnings of the handlers, which make their blocks B.              *)

LEMMA BeginPaths ==
  ASSUME Going, NEW W, NEW L, NEW m, NEW own, Beginning(W, L, m, own),
         NEW f \in Frames, Pushes(f),
         NEW B, NEW n \in Nat, m <= n, B \subseteq m + 1 .. n,
         NEW d, NEW Q, NEW Y, Walk(d, Q, n, own \cup B, Y), Emit(d),
         live <=> Arrives(d, Y), Alike(m, {}, Got, Y), Led(f, Y),
         Awaits(f) \subseteq B,
         f.kind \in Loops => f.other \in B /\ f.other \notin Awaits(f)
  PROVE  Kept'
<1>1. Starts(Ready, W, L, "sound", m, own) /\ m \in Nat
  BY DEF Beginning
<1>2. Grows(m, own, n, own \cup B)
  BY <1>1, GrowsBy
<1>3. UNCHANGED <<fn, label, source>> /\ (live' <=> Arrives(d, Y))
  BY DEF Pushes
<1>4. Makes(d, Q, n, own \cup B, Y, m, own)
  BY <1>2, <1>3 DEF Makes
<1>5. \A x \in B : x > m
  BY <1>1
<1>6. /\ \A x \in Awaits(f) : x > m
      /\ f.kind \in Loops => f.other > m /\ f.other \notin Awaits(f)
  BY <1>5
<1> QED
  BY <1>1, <1>4, <1>6, EnterPaths

LEMMA BeginBlockPaths == ASSUME Going, BeginBlock PROVE Kept'
<1>1. PICK W, L, m, own : Beginning(W, L, m, own)
  BY BeginsPath
<1>2. /\ Walk(Ready, W \cup L, m, own, Got) /\ (live <=> Arrives(Ready, Got))
      /\ m \in Nat /\ live \in BOOLEAN
  BY <1>1 DEF Beginning, Arrives
<1>3. PICK f : f = Frame("block", 0, 0, 0, live)
  OBVIOUS
<1>4. f \in Frames /\ f.kind = "block"
  BY <1>2, <1>3 DEF Frame, Frames, Kinds, Going, WInv, TInv
<1>5. Led(f, Got) /\ Awaits(f) = {} /\ f.kind \notin Loops
  BY <1>4 DEF Led, Awaits, Loops
<1>6. Pushes(f) /\ Emit(Ready)
  BY <1>3 DEF BeginBlock, Enter, Pushes
<1>7. PICK B : B = {}
  OBVIOUS
<1>8. Walk(Ready, W \cup L, m, own \cup B, Got) /\ B \subseteq m + 1 .. m
  BY <1>2, <1>7
<1>9. Awaits(f) \subseteq B /\ m <= m
  BY <1>2, <1>5
<1> QED
  BY <1>1, <1>2, <1>4, <1>5, <1>6, <1>8, <1>9, AlikeSelf, BeginPaths

LEMMA BeginIfPaths == ASSUME Going, BeginIf PROVE Kept'
<1>1. PICK W, L, m, own : Beginning(W, L, m, own)
  BY BeginsPath
<1>2. /\ Open(Ready) /\ Walk(Ready, W \cup L, m, own, Got)
      /\ (live <=> Arrives(Ready, Got))
      /\ fn \in Nat \ {0} /\ m \in Nat /\ own \subseteq 1..m
      /\ Got \subseteq 1..m /\ W \cup L \subseteq own
      /\ Id(Ready, 1) = m + 1 /\ Id(Ready, 2) = m + 2
      /\ Id(Ready, 3) = m + 3 /\ live \in BOOLEAN
  BY <1>1 DEF Beginning, Arrives
<1>3. PICK then, else, merge, n, B, P :
        /\ then = m + 1 /\ else = m + 2 /\ merge = m + 3
        /\ n = m + 3 /\ B = {then, else, merge} /\ P = (W \cup L) \cup B
  OBVIOUS
<1>4. /\ n \in Nat /\ m <= n /\ B \subseteq m + 1 .. n
      /\ \A x \in B : x \notin 1..m /\ x \notin Got
  BY <1>2, <1>3
<1>5. PICK c : c = New(Ready, 3)
  OBVIOUS
<1>6. Walk(c, P, n, own \cup B, Got) /\ Open(c) /\ At(c) = At(Ready)
  BY <1>2, <1>3, <1>5, WalkThree
<1>7. Arrives(c, Got) <=> live
  BY <1>2, <1>6 DEF Arrives
<1>8. PICK T, d, Y : /\ T = {then, else} /\ d = Place(End(c, T), then)
                     /\ Y = Onto(c, Got, T)
  OBVIOUS
<1>9. T \subseteq own \cup B /\ T \subseteq Got \cup P /\ then \in P
  BY <1>3, <1>8
<1>10. Walk(d, P \ {then}, n, own \cup B, Y) /\ Open(d) /\ At(d) = then
  BY <1>6, <1>8, <1>9, JumpWalk
<1>11. \A x : x \in Y <=> x \in Got \/ (x \in T /\ live)
  BY <1>7, <1>8 DEF Onto
<1>12. live <=> Arrives(d, Y)
  BY <1>3, <1>4, <1>8, <1>10, <1>11 DEF Arrives
<1>13. Alike(m, {}, Got, Y)
  BY <1>3, <1>4, <1>8, <1>11 DEF Alike
<1>14. PICK f : f = Frame("then", merge, 0, else, live)
  OBVIOUS
<1>15. /\ f \in Frames /\ f.kind = "then" /\ f.after = merge
       /\ f.other = else /\ f.entry = live /\ f.out = FALSE
  BY <1>2, <1>3, <1>14 DEF Frame, Frames, Kinds, Going, WInv, TInv
<1>16. Led(f, Y)
  <2>1. merge \notin Y /\ (else \in Y <=> live)
    BY <1>2, <1>3, <1>4, <1>8, <1>11
  <2> QED
    BY <1>15, <2>1 DEF Led, Loops
<1>17. Awaits(f) \subseteq B /\ f.kind \notin Loops
  BY <1>3, <1>15 DEF Awaits, Loops
<1>18. Pushes(f) /\ Emit(d)
  BY <1>2, <1>3, <1>5, <1>8, <1>14 DEF BeginIf, Enter, Pushes
<1> QED
  BY <1>1, <1>4, <1>10, <1>12, <1>13, <1>15, <1>16, <1>17, <1>18, BeginPaths

\* The code leads to cond, and from there to T, of which body comes next.
LEMMA HeadPaths ==
  ASSUME NEW c, NEW P, NEW n, NEW all, NEW X, Walk(c, P, n, all, X), Open(c),
         NEW cond, cond \in P, cond \notin X,
         NEW T, T \subseteq P, cond \notin T, NEW body \in T, body \notin X
  PROVE  LET d == Place(End(Place(End(c, {cond}), cond), T), body)
         IN  \E Y, Q :
               /\ Walk(d, Q, n, all, Y) /\ (Arrives(d, Y) <=> Arrives(c, X))
               /\ \A x : x \in Y <=> \/ x \in X
                                     \/ x \in T \cup {cond} /\ Arrives(c, X)
<1>1. PICK c1, X1 : /\ c1 = Place(End(c, {cond}), cond)
                    /\ X1 = Onto(c, X, {cond})
  OBVIOUS
<1>2. P \subseteq all
  BY WalkFacts
<1>3. {cond} \subseteq all /\ {cond} \subseteq X \cup P
  BY <1>2
<1>4. Walk(c1, P \ {cond}, n, all, X1) /\ Open(c1) /\ At(c1) = cond
  BY <1>1, <1>3, JumpWalk
<1>5. \A x : x \in X1 <=> x \in X \/ (x = cond /\ Arrives(c, X))
  BY <1>1 DEF Onto
<1>6. Arrives(c1, X1) <=> Arrives(c, X)
  BY <1>4, <1>5 DEF Arrives
<1>7. PICK d, Y : d = Place(End(c1, T), body) /\ Y = Onto(c1, X1, T)
  OBVIOUS
<1>8. T \subseteq all /\ T \subseteq X1 \cup (P \ {cond}) /\ body \in P \ {cond}
  BY <1>2
<1>9. Walk(d, (P \ {cond}) \ {body}, n, all, Y) /\ Open(d) /\ At(d) = body
  BY <1>4, <1>7, <1>8, JumpWalk
<1>10. \A x : x \in Y <=> \/ x \in X
                          \/ x \in T \cup {cond} /\ Arrives(c, X)
  BY <1>5, <1>6, <1>7 DEF Onto
<1>11. Arrives(d, Y) <=> Arrives(c, X)
  BY <1>9, <1>10 DEF Arrives
<1> QED
  BY <1>1, <1>7, <1>9, <1>10, <1>11

LEMMA BeginWhilePaths == ASSUME Going, BeginWhile PROVE Kept'
<1>1. PICK W, L, m, own : Beginning(W, L, m, own)
  BY BeginsPath
<1>2. /\ Open(Ready) /\ Walk(Ready, W \cup L, m, own, Got)
      /\ (live <=> Arrives(Ready, Got))
      /\ fn \in Nat \ {0} /\ m \in Nat /\ own \subseteq 1..m
      /\ Got \subseteq 1..m /\ W \cup L \subseteq own
      /\ Id(Ready, 1) = m + 1 /\ Id(Ready, 2) = m + 2
      /\ Id(Ready, 3) = m + 3 /\ live \in BOOLEAN
  BY <1>1 DEF Beginning, Arrives
<1>3. PICK cond, body, after, n, B, P :
        /\ cond = m + 1 /\ body = m + 2 /\ after = m + 3
        /\ n = m + 3 /\ B = {cond, body, after} /\ P = (W \cup L) \cup B
  OBVIOUS
<1>4. /\ n \in Nat /\ m <= n /\ B \subseteq m + 1 .. n
      /\ \A x \in B : x \notin 1..m /\ x \notin Got
  BY <1>2, <1>3
<1>5. PICK c : c = New(Ready, 3)
  OBVIOUS
<1>6. Walk(c, P, n, own \cup B, Got) /\ Open(c) /\ At(c) = At(Ready)
  BY <1>2, <1>3, <1>5, WalkThree
<1>7. Arrives(c, Got) <=> live
  BY <1>2, <1>6 DEF Arrives
<1>8. PICK T, d : /\ T = {body, after}
                  /\ d = Place(End(Place(End(c, {cond}), cond), T), body)
  OBVIOUS
<1>9. /\ cond \in P /\ T \subseteq P /\ cond \notin T /\ body \in T
      /\ cond \notin Got /\ body \notin Got
  BY <1>2, <1>3, <1>4, <1>8
<1>10. PICK Y, Q :
         /\ Walk(d, Q, n, own \cup B, Y) /\ (Arrives(d, Y) <=> Arrives(c, Got))
         /\ \A x : x \in Y <=> \/ x \in Got
                               \/ x \in T \cup {cond} /\ Arrives(c, Got)
  BY <1>6, <1>8, <1>9, HeadPaths
<1>11. \A x : x \in Y <=> x \in Got \/ (x \in B /\ live)
  BY <1>3, <1>7, <1>8, <1>10
<1>12. live <=> Arrives(d, Y)
  BY <1>7, <1>10
<1>13. Alike(m, {}, Got, Y)
  BY <1>4, <1>11 DEF Alike
<1>14. PICK f : f = Frame("while", after, cond, cond, live)
  OBVIOUS
<1>15. /\ f \in Frames /\ f.kind = "while" /\ f.after = after
       /\ f.continue = cond /\ f.other = cond /\ f.entry = live
  BY <1>2, <1>3, <1>14 DEF Frame, Frames, Kinds, Loops, Going, WInv, TInv
<1>16. Led(f, Y)
  <2>1. (after \in Y <=> live) /\ (cond \in Y <=> live)
    BY <1>3, <1>4, <1>11
  <2> QED
    BY <1>15, <2>1 DEF Led, Loops
<1>17. Awaits(f) = {after} /\ cond \in B /\ after \in B /\ cond # after
  BY <1>2, <1>3, <1>15 DEF Awaits
<1>18. Awaits(f) \subseteq B /\ f.other \in B /\ f.other \notin Awaits(f)
  BY <1>15, <1>17
<1>19. Pushes(f) /\ Emit(d)
  BY <1>2, <1>3, <1>5, <1>8, <1>14 DEF BeginWhile, Enter, Pushes
<1> QED
  BY <1>1, <1>4, <1>10, <1>12, <1>13, <1>15, <1>16, <1>18, <1>19, BeginPaths

LEMMA BeginForeachPaths == ASSUME Going, BeginForeach PROVE Kept'
<1>1. PICK W, L, m, own : Beginning(W, L, m, own)
  BY BeginsPath
<1>2. /\ Open(Ready) /\ Walk(Ready, W \cup L, m, own, Got)
      /\ (live <=> Arrives(Ready, Got))
      /\ fn \in Nat \ {0} /\ m \in Nat /\ own \subseteq 1..m
      /\ Got \subseteq 1..m /\ W \cup L \subseteq own
      /\ Id(Ready, 1) = m + 1 /\ Id(Ready, 2) = m + 2
      /\ Id(Ready, 3) = m + 3 /\ Id(Ready, 4) = m + 4 /\ live \in BOOLEAN
  BY <1>1 DEF Beginning, Arrives
<1>3. PICK cond, body, step, after, n, B, P :
        /\ cond = m + 1 /\ body = m + 2 /\ step = m + 3 /\ after = m + 4
        /\ n = m + 4 /\ B = {cond, body, step, after}
        /\ P = (W \cup L) \cup B
  OBVIOUS
<1>4. /\ n \in Nat /\ m <= n /\ B \subseteq m + 1 .. n
      /\ \A x \in B : x \notin 1..m /\ x \notin Got
  BY <1>2, <1>3
<1>5. PICK c : c = New(Ready, 4)
  OBVIOUS
<1>6. Walk(c, P, n, own \cup B, Got) /\ Open(c) /\ At(c) = At(Ready)
  BY <1>2, <1>3, <1>5, WalkFour
<1>7. Arrives(c, Got) <=> live
  BY <1>2, <1>6 DEF Arrives
<1>8. PICK T, d : /\ T = {body, after}
                  /\ d = Place(End(Place(End(c, {cond}), cond), T), body)
  OBVIOUS
<1>9. /\ cond \in P /\ T \subseteq P /\ cond \notin T /\ body \in T
      /\ cond \notin Got /\ body \notin Got
  BY <1>2, <1>3, <1>4, <1>8
<1>10. PICK Y, Q :
         /\ Walk(d, Q, n, own \cup B, Y) /\ (Arrives(d, Y) <=> Arrives(c, Got))
         /\ \A x : x \in Y <=> \/ x \in Got
                               \/ x \in T \cup {cond} /\ Arrives(c, Got)
  BY <1>6, <1>8, <1>9, HeadPaths
<1>11. \A x : x \in Y <=> x \in Got \/ (x \in {cond, body, after} /\ live)
  BY <1>7, <1>8, <1>10
<1>12. live <=> Arrives(d, Y)
  BY <1>7, <1>10
<1>13. Alike(m, {}, Got, Y)
  BY <1>3, <1>4, <1>11 DEF Alike
<1>14. PICK f : f = Frame("foreach", after, step, cond, live)
  OBVIOUS
<1>15. /\ f \in Frames /\ f.kind = "foreach" /\ f.after = after
       /\ f.continue = step /\ f.other = cond /\ f.entry = live
       /\ f.again = FALSE
  BY <1>2, <1>3, <1>14 DEF Frame, Frames, Kinds, Loops, Going, WInv, TInv
<1>16. Led(f, Y)
  <2>1. (after \in Y <=> live) /\ (cond \in Y <=> live) /\ step \notin Y
    BY <1>2, <1>3, <1>4, <1>11
  <2> QED
    BY <1>15, <2>1 DEF Led, Loops
<1>17. Awaits(f) = {after, step} /\ cond \notin {after, step}
  BY <1>2, <1>3, <1>15 DEF Awaits
<1>18. Awaits(f) \subseteq B /\ f.other \in B /\ f.other \notin Awaits(f)
  BY <1>3, <1>15, <1>17
<1>19. Pushes(f) /\ Emit(d)
  BY <1>2, <1>3, <1>5, <1>8, <1>14 DEF BeginForeach, Enter, Pushes
<1> QED
  BY <1>1, <1>4, <1>10, <1>12, <1>13, <1>15, <1>16, <1>18, <1>19, BeginPaths

LEMMA BeginDoPaths == ASSUME Going, BeginDo PROVE Kept'
<1>1. PICK W, L, m, own : Beginning(W, L, m, own)
  BY BeginsPath
<1>2. /\ Open(Ready) /\ Walk(Ready, W \cup L, m, own, Got)
      /\ (live <=> Arrives(Ready, Got))
      /\ fn \in Nat \ {0} /\ m \in Nat /\ own \subseteq 1..m
      /\ Got \subseteq 1..m /\ W \cup L \subseteq own
      /\ Id(Ready, 1) = m + 1 /\ Id(Ready, 2) = m + 2
      /\ Id(Ready, 3) = m + 3 /\ live \in BOOLEAN
  BY <1>1 DEF Beginning, Arrives
<1>3. PICK cond, body, after, n, B, P :
        /\ body = m + 1 /\ cond = m + 2 /\ after = m + 3
        /\ n = m + 3 /\ B = {body, cond, after} /\ P = (W \cup L) \cup B
  OBVIOUS
<1>4. /\ n \in Nat /\ m <= n /\ B \subseteq m + 1 .. n
      /\ \A x \in B : x \notin 1..m /\ x \notin Got
  BY <1>2, <1>3
<1>5. PICK c : c = New(Ready, 3)
  OBVIOUS
<1>6. Walk(c, P, n, own \cup B, Got) /\ Open(c) /\ At(c) = At(Ready)
  BY <1>2, <1>3, <1>5, WalkThree
<1>7. Arrives(c, Got) <=> live
  BY <1>2, <1>6 DEF Arrives
<1>8. PICK T, d, Y : /\ T = {body} /\ d = Place(End(c, T), body)
                     /\ Y = Onto(c, Got, T)
  OBVIOUS
<1>9. T \subseteq own \cup B /\ T \subseteq Got \cup P /\ body \in P
  BY <1>3, <1>8
<1>10. Walk(d, P \ {body}, n, own \cup B, Y) /\ Open(d) /\ At(d) = body
  BY <1>6, <1>8, <1>9, JumpWalk
<1>11. \A x : x \in Y <=> x \in Got \/ (x = body /\ live)
  BY <1>7, <1>8 DEF Onto
<1>12. live <=> Arrives(d, Y)
  BY <1>3, <1>4, <1>10, <1>11 DEF Arrives
<1>13. Alike(m, {}, Got, Y)
  BY <1>3, <1>4, <1>11 DEF Alike
<1>14. PICK f : f = Frame("do", after, cond, body, live)
  OBVIOUS
<1>15. /\ f \in Frames /\ f.kind = "do" /\ f.after = after
       /\ f.continue = cond /\ f.other = body /\ f.entry = live
       /\ f.out = FALSE /\ f.again = FALSE
  BY <1>2, <1>3, <1>14 DEF Frame, Frames, Kinds, Loops, Going, WInv, TInv
<1>16. Led(f, Y)
  <2>1. after \notin Y /\ cond \notin Y /\ (body \in Y <=> live)
    BY <1>2, <1>3, <1>4, <1>11
  <2> QED
    BY <1>15, <2>1 DEF Led, Loops
<1>17. Awaits(f) = {after, cond} /\ body \notin {after, cond}
  BY <1>2, <1>3, <1>15 DEF Awaits
<1>18. Awaits(f) \subseteq B /\ f.other \in B /\ f.other \notin Awaits(f)
  BY <1>3, <1>15, <1>17
<1>19. Pushes(f) /\ Emit(d)
  BY <1>2, <1>3, <1>5, <1>8, <1>14 DEF BeginDo, Enter, Pushes
<1> QED
  BY <1>1, <1>4, <1>10, <1>12, <1>13, <1>15, <1>16, <1>18, <1>19, BeginPaths

LEMMA BeginForPaths == ASSUME Going, BeginFor PROVE Kept'
<1>a. PICK guarded \in BOOLEAN, updates \in BOOLEAN :
        LET cond  == Id(Ready, 1)
            body  == Id(Ready, 2)
            after == Id(Ready, 3)
            test  == Place(End(New(Ready, 3), {cond}), cond)
            head  == [test EXCEPT !.blocks[cond].entered =
                                    IF updates THEN Ready.at ELSE 0]
        IN  /\ Enter(IF guarded THEN "for" ELSE "forever",
                     after, cond, cond, live)
            /\ Emit(Place(End(head, IF guarded THEN {body, after} ELSE {body}),
                          body)) /\ Checked
  BY DEF BeginFor
<1>1. PICK W, L, m, own : Beginning(W, L, m, own)
  BY BeginsPath
<1>2. /\ Open(Ready) /\ Walk(Ready, W \cup L, m, own, Got)
      /\ (live <=> Arrives(Ready, Got))
      /\ fn \in Nat \ {0} /\ m \in Nat /\ own \subseteq 1..m
      /\ Got \subseteq 1..m /\ W \cup L \subseteq own
      /\ Id(Ready, 1) = m + 1 /\ Id(Ready, 2) = m + 2
      /\ Id(Ready, 3) = m + 3 /\ live \in BOOLEAN
  BY <1>1 DEF Beginning, Arrives
<1>3. PICK cond, body, after, n, B, P, T, v, k :
        /\ cond = m + 1 /\ body = m + 2 /\ after = m + 3
        /\ n = m + 3 /\ B = {cond, body, after} /\ P = (W \cup L) \cup B
        /\ T = IF guarded THEN {body, after} ELSE {body}
        /\ v = IF updates THEN Ready.at ELSE 0
        /\ k = IF guarded THEN "for" ELSE "forever"
  OBVIOUS
<1>4. /\ n \in Nat /\ m <= n /\ B \subseteq m + 1 .. n
      /\ \A x \in B : x \notin 1..m /\ x \notin Got
  BY <1>2, <1>3
<1>5. PICK c : c = New(Ready, 3)
  OBVIOUS
<1>6. Walk(c, P, n, own \cup B, Got) /\ Open(c) /\ At(c) = At(Ready)
  BY <1>2, <1>3, <1>5, WalkThree
<1>7. Arrives(c, Got) <=> live
  BY <1>2, <1>6 DEF Arrives
<1>8. PICK c1, X : /\ c1 = Place(End(c, {cond}), cond)
                   /\ X = Onto(c, Got, {cond})
  OBVIOUS
<1>9. {cond} \subseteq own \cup B /\ {cond} \subseteq Got \cup P /\ cond \in P
  BY <1>3
<1>10. Walk(c1, P \ {cond}, n, own \cup B, X) /\ Open(c1) /\ At(c1) = cond
  BY <1>6, <1>8, <1>9, JumpWalk
<1>11. PICK b, x : b = c1.blocks[cond] /\ x = [b EXCEPT !.entered = v]
  OBVIOUS
<1>12. /\ Size(c1) = n /\ Typed(c1) /\ cond \in 1..n
       /\ Size(Ready) = m /\ Typed(Ready)
  BY <1>2, <1>3, <1>10, WalkFacts
<1>13. b \in Blocks /\ b = BlockOf(c1, At(c1)) /\ Ready.at \in 1..m
  BY <1>10, <1>11, <1>12, CodeFacts DEF BlockOf, Size
<1>14. /\ x \in Blocks /\ x.fn = BlockOf(c1, At(c1)).fn
       /\ x.ends = BlockOf(c1, At(c1)).ends
       /\ x.next = BlockOf(c1, At(c1)).next /\ x.entered \in 0..n
  <2>1. v \in 0..n /\ v \in Nat
    BY <1>2, <1>3, <1>13
  <2> QED
    BY <1>11, <1>13, <2>1 DEF Blocks
<1>15. PICK head : head = SetTo(c1, x)
  OBVIOUS
<1>16. Walk(head, P \ {cond}, n, own \cup B, X) /\ Open(head) /\ At(head) = cond
  BY <1>10, <1>14, <1>15, TouchWalk
<1>17. PICK d, Y : d = Place(End(head, T), body) /\ Y = Onto(head, X, T)
  OBVIOUS
<1>18. /\ T \subseteq own \cup B /\ T \subseteq X \cup (P \ {cond})
       /\ body \in P \ {cond}
  BY <1>2, <1>3
<1>19. /\ Walk(d, (P \ {cond}) \ {body}, n, own \cup B, Y)
       /\ Open(d) /\ At(d) = body
  BY <1>16, <1>17, <1>18, JumpWalk
<1>20. \A y : y \in Y <=> y \in Got \/ (y \in T \cup {cond} /\ live)
  <2>1. \A y : y \in X <=> y \in Got \/ (y = cond /\ live)
    BY <1>7, <1>8 DEF Onto
  <2>2. cond \notin Got
    BY <1>3, <1>4
  <2>3. Arrives(head, X) <=> live
    BY <1>16, <2>1, <2>2 DEF Arrives
  <2> QED
    BY <1>17, <2>1, <2>3 DEF Onto
<1>21. live <=> Arrives(d, Y)
  <2>1. body \notin Got /\ body \in T
    BY <1>3, <1>4
  <2> QED
    BY <1>19, <1>20, <2>1 DEF Arrives
<1>22. Alike(m, {}, Got, Y)
  <2>1. T \cup {cond} \subseteq B
    BY <1>3
  <2> QED
    BY <1>4, <1>20, <2>1 DEF Alike
<1>23. PICK f : f = Frame(k, after, cond, cond, live)
  OBVIOUS
<1>24. /\ f \in Frames /\ f.kind = k /\ f.after = after
       /\ f.continue = cond /\ f.other = cond /\ f.entry = live
       /\ f.out = FALSE
  BY <1>2, <1>3, <1>23 DEF Frame, Frames, Kinds, Loops, Going, WInv, TInv
<1>25. Led(f, Y)
  <2>1. /\ cond \in Y <=> live
        /\ after \in Y <=> guarded /\ live
    BY <1>2, <1>3, <1>4, <1>20
  <2> QED
    BY <1>3, <1>24, <2>1 DEF Led, Loops
<1>26. Awaits(f) = {after} /\ cond \in B /\ after \in B /\ cond # after
  BY <1>2, <1>3, <1>24 DEF Awaits
<1>27. Awaits(f) \subseteq B /\ f.other \in B /\ f.other \notin Awaits(f)
  BY <1>24, <1>26
<1>28. Pushes(f)
  BY <1>a, <1>2, <1>3, <1>23 DEF Enter, Pushes
<1>29. Emit(d)
  <2>1. head = [c1 EXCEPT !.blocks[cond].entered = v]
    <3>1. c1.at = cond
      BY <1>10 DEF At
    <3> QED
      BY <1>11, <1>15, <3>1 DEF SetTo
  <2> QED
    BY <1>a, <1>2, <1>3, <1>5, <1>8, <1>17, <2>1
<1> QED
  BY <1>1, <1>4, <1>19, <1>21, <1>22, <1>24, <1>25, <1>27, <1>28, <1>29,
     BeginPaths

LEMMA BeginTryPaths == ASSUME Going, BeginTry PROVE Kept'
<1>1. PICK W, L, m, own : Beginning(W, L, m, own)
  BY BeginsPath
<1>2. /\ Open(Ready) /\ Walk(Ready, W \cup L, m, own, Got)
      /\ (live <=> Arrives(Ready, Got))
      /\ fn \in Nat \ {0} /\ m \in Nat /\ own \subseteq 1..m
      /\ Got \subseteq 1..m /\ W \cup L \subseteq own
      /\ Id(Ready, 1) = m + 1 /\ Id(Ready, 2) = m + 2
      /\ Id(Ready, 3) = m + 3 /\ Id(Ready, 4) = m + 4 /\ live \in BOOLEAN
  BY <1>1 DEF Beginning, Arrives
<1>3. PICK try, catch, finally, end, n, B, P :
        /\ try = m + 1 /\ catch = m + 2 /\ finally = m + 3 /\ end = m + 4
        /\ n = m + 4 /\ B = {try, catch, finally, end}
        /\ P = (W \cup L) \cup B
  OBVIOUS
<1>4. /\ n \in Nat /\ m <= n /\ B \subseteq m + 1 .. n
      /\ \A x \in B : x \notin 1..m /\ x \notin Got
  BY <1>2, <1>3
<1>5. PICK c : c = New(Ready, 4)
  OBVIOUS
<1>6. Walk(c, P, n, own \cup B, Got) /\ Open(c) /\ At(c) = At(Ready)
  BY <1>2, <1>3, <1>5, WalkFour
<1>7. Arrives(c, Got) <=> live
  BY <1>2, <1>6 DEF Arrives
<1>8. PICK T, d, Y : /\ T = {catch, try} /\ d = Place(End(c, T), try)
                     /\ Y = Onto(c, Got, T)
  OBVIOUS
<1>9. T \subseteq own \cup B /\ T \subseteq Got \cup P /\ try \in P
  BY <1>3, <1>8
<1>10. Walk(d, P \ {try}, n, own \cup B, Y) /\ Open(d) /\ At(d) = try
  BY <1>6, <1>8, <1>9, JumpWalk
<1>11. \A x : x \in Y <=> x \in Got \/ (x \in T /\ live)
  BY <1>7, <1>8 DEF Onto
<1>12. live <=> Arrives(d, Y)
  BY <1>3, <1>4, <1>8, <1>10, <1>11 DEF Arrives
<1>13. Alike(m, {}, Got, Y)
  BY <1>3, <1>4, <1>8, <1>11 DEF Alike
<1>14. PICK f : f = Frame("try", end, finally, catch, live)
  OBVIOUS
<1>15. /\ f \in Frames /\ f.kind = "try" /\ f.after = end
       /\ f.continue = finally /\ f.other = catch /\ f.entry = live
       /\ f.out = FALSE
  BY <1>2, <1>3, <1>14 DEF Frame, Frames, Kinds, Going, WInv, TInv
<1>16. Led(f, Y)
  <2>1. end \notin Y /\ finally \notin Y /\ (catch \in Y <=> live)
    BY <1>2, <1>3, <1>4, <1>8, <1>11
  <2> QED
    BY <1>15, <2>1 DEF Led, Loops
<1>17. Awaits(f) \subseteq B /\ f.kind \notin Loops
  BY <1>3, <1>15 DEF Awaits, Loops
<1>18. Pushes(f) /\ Emit(d)
  BY <1>2, <1>3, <1>5, <1>8, <1>14 DEF BeginTry, Enter, Pushes
<1> QED
  BY <1>1, <1>4, <1>10, <1>12, <1>13, <1>15, <1>16, <1>17, <1>18, BeginPaths

\* The first arm of a match, which may be the last.
LEMMA FirstArmPaths ==
  ASSUME Going, NEW W, NEW L, NEW m, NEW own, Beginning(W, L, m, own),
         NEW check, NEW body, NEW end, NEW merge, NEW following, NEW B,
         ArmBlocks(B, check, body, end, merge, following),
         NEW n \in Nat, m <= n, B \subseteq m + 1 .. n,
         NEW c, Walk(c, (W \cup L) \cup B, n, own \cup B, Got), Open(c),
         At(c) = At(Ready),
         NEW T, T \subseteq {body, following}, body \in T,
         NEW f \in Frames, IsArm(f, merge, end, following), Pushes(f),
         f.entry <=> live /\ following \in T, ~f.out,
         Emit(Place(End(Place(End(c, {check}), check), T), body))
  PROVE  Kept'
<1>1. /\ (live <=> Arrives(Ready, Got)) /\ Open(Ready) /\ m \in Nat
      /\ Got \subseteq 1..m
  BY DEF Beginning, Arrives
<1>2. Arrives(c, Got) <=> live
  BY <1>1 DEF Arrives
<1>3. \A x \in B : x \notin 1..m /\ x \notin Got
  BY <1>1
<1>4. PICK P, d : /\ P = (W \cup L) \cup B
                  /\ d = Place(End(Place(End(c, {check}), check), T), body)
  OBVIOUS
<1>5. /\ check \in P /\ T \subseteq P /\ check \notin T
      /\ check \notin Got /\ body \notin Got /\ T \cup {check} \subseteq B
  BY <1>3, <1>4 DEF ArmBlocks
<1>6. Walk(c, P, n, own \cup B, Got) /\ Emit(d)
  BY <1>4
<1>7. PICK Y, Q :
        /\ Walk(d, Q, n, own \cup B, Y) /\ (Arrives(d, Y) <=> Arrives(c, Got))
        /\ \A x : x \in Y <=> \/ x \in Got
                              \/ x \in T \cup {check} /\ Arrives(c, Got)
  BY <1>4, <1>5, <1>6, HeadPaths
<1>8. \A x : x \in Y <=> x \in Got \/ (x \in T \cup {check} /\ live)
  BY <1>2, <1>7
<1>9. live <=> Arrives(d, Y)
  BY <1>2, <1>7
<1>10. Alike(m, {}, Got, Y)
  BY <1>3, <1>5, <1>8 DEF Alike
<1>11. /\ f.kind = "arm" /\ f.after = merge /\ f.continue = end
       /\ f.other = following
  BY DEF IsArm
<1>12. Led(f, Y)
  <2>1. /\ merge \in B /\ end \in B /\ following \in B
        /\ merge \notin T \cup {check} /\ following # check
        /\ end # following => end \notin T \cup {check}
    BY DEF ArmBlocks
  <2>2. merge \notin Y /\ (following \in Y <=> live /\ following \in T)
    BY <1>3, <1>8, <2>1
  <2>3. end # following => end \notin Y
    BY <1>3, <1>8, <2>1
  <2> QED
    BY <1>11, <2>2, <2>3 DEF Led, Loops
<1>13. Awaits(f) \subseteq B /\ f.kind \notin Loops
  BY <1>11 DEF Awaits, ArmBlocks, Loops
<1> QED
  BY <1>6, <1>7, <1>9, <1>10, <1>12, <1>13, BeginPaths

LEMMA BeginMatchPaths == ASSUME Going, BeginMatch PROVE Kept'
<1>a. PICK last \in BOOLEAN, always \in BOOLEAN :
        LET check == Id(Ready, 1)
            body  == Id(Ready, 2)
            end   == Id(Ready, 3)
            merge == Id(Ready, 4)
            following == IF last THEN end ELSE Id(Ready, 5)
            c     == End(New(Ready, IF last THEN 4 ELSE 5), {check})
        IN  /\ Enter("arm", merge, end, following, live /\ ~always)
            /\ Emit(Arm(c, check, body, following, always)) /\ Checked
  BY DEF BeginMatch
<1>1. PICK W, L, m, own : Beginning(W, L, m, own)
  BY BeginsPath
<1>2. /\ Open(Ready) /\ Walk(Ready, W \cup L, m, own, Got)
      /\ fn \in Nat \ {0} /\ m \in Nat
      /\ Id(Ready, 1) = m + 1 /\ Id(Ready, 2) = m + 2 /\ Id(Ready, 3) = m + 3
      /\ Id(Ready, 4) = m + 4 /\ Id(Ready, 5) = m + 5 /\ live \in BOOLEAN
  BY <1>1 DEF Beginning
<1>3. PICK check, body, end, merge, entry :
        /\ check = m + 1 /\ body = m + 2 /\ end = m + 3 /\ merge = m + 4
        /\ entry = (live /\ ~always)
  OBVIOUS
<1>4. CASE last
  <2>1. PICK following, n, B, T :
          /\ following = end /\ n = m + 4
          /\ B = {check, body, end, merge}
          /\ T = IF always THEN {body} ELSE {body, following}
    OBVIOUS
  <2>2. PICK c : c = New(Ready, 4)
    OBVIOUS
  <2>3. /\ Walk(c, (W \cup L) \cup B, n, own \cup B, Got) /\ Open(c)
        /\ At(c) = At(Ready)
    BY <1>2, <1>3, <2>1, <2>2, WalkFour
  <2>4. PICK f : f = Frame("arm", merge, end, following, entry)
    OBVIOUS
  <2>5. Pushes(f)
    BY <1>a, <1>2, <1>3, <1>4, <2>1, <2>4 DEF Enter, Pushes
  <2>6. Emit(Place(End(Place(End(c, {check}), check), T), body))
    BY <1>a, <1>2, <1>3, <1>4, <2>1, <2>2 DEF Arm
  <2>7. /\ f \in Frames /\ IsArm(f, merge, end, following) /\ ~f.out
        /\ f.entry = entry
    BY <1>2, <1>3, <2>1, <2>4
       DEF Frame, Frames, Kinds, IsArm, Going, WInv, TInv
  <2>8. /\ ArmBlocks(B, check, body, end, merge, following)
        /\ T \subseteq {body, following} /\ body \in T
        /\ n \in Nat /\ m <= n /\ B \subseteq m + 1 .. n
        /\ following \in T <=> ~always
    BY <1>2, <1>3, <2>1 DEF ArmBlocks
  <2>9. f.entry <=> live /\ following \in T
    BY <1>3, <2>7, <2>8
  <2> QED
    BY <1>1, <2>3, <2>5, <2>6, <2>7, <2>8, <2>9, FirstArmPaths
<1>5. CASE ~last
  <2>1. PICK following, n, B, T :
          /\ following = m + 5 /\ n = m + 5
          /\ B = {check, body, end, merge, following}
          /\ T = IF always THEN {body} ELSE {body, following}
    OBVIOUS
  <2>2. PICK c : c = New(Ready, 5)
    OBVIOUS
  <2>3. /\ Walk(c, (W \cup L) \cup B, n, own \cup B, Got) /\ Open(c)
        /\ At(c) = At(Ready)
    BY <1>2, <1>3, <2>1, <2>2, WalkFive
  <2>4. PICK f : f = Frame("arm", merge, end, following, entry)
    OBVIOUS
  <2>5. Pushes(f)
    BY <1>a, <1>2, <1>3, <1>5, <2>1, <2>4 DEF Enter, Pushes
  <2>6. Emit(Place(End(Place(End(c, {check}), check), T), body))
    BY <1>a, <1>2, <1>3, <1>5, <2>1, <2>2 DEF Arm
  <2>7. /\ f \in Frames /\ IsArm(f, merge, end, following) /\ ~f.out
        /\ f.entry = entry
    BY <1>2, <1>3, <2>1, <2>4
       DEF Frame, Frames, Kinds, IsArm, Going, WInv, TInv
  <2>8. /\ ArmBlocks(B, check, body, end, merge, following)
        /\ T \subseteq {body, following} /\ body \in T
        /\ n \in Nat /\ m <= n /\ B \subseteq m + 1 .. n
        /\ following \in T <=> ~always
    BY <1>2, <1>3, <2>1 DEF ArmBlocks
  <2>9. f.entry <=> live /\ following \in T
    BY <1>3, <2>7, <2>8
  <2> QED
    BY <1>1, <2>3, <2>5, <2>6, <2>7, <2>8, <2>9, FirstArmPaths
<1> QED
  BY <1>4, <1>5

----------------------------------------------------------------------------
(* The ends of the handlers *)

LEMMA EndPaths ==
  ASSUME Going, NEW f, f = Top, NEW W, NEW L, NEW m, NEW own,
         Finishing(f, W, L, m, own),
         NEW d, NEW Q, NEW Y, Walk(d, Q, m, own, Y), Emit(d),
         Pops, live' <=> Arrives(d, Y), Alike(m, Awaits(f), Got, Y)
  PROVE  Kept'
<1>1. Starts(cg, W, L, "sound", m, own)
  BY DEF Finishing
<1>2. Grows(m, own, m, own)
  BY <1>1, GrowsNot
<1>3. /\ UNCHANGED <<fn, label, source>>
      /\ open' = SubSeq(open, 1, Len(open) - 1)
  BY DEF Pops
<1>4. Makes(d, Q, m, own, Y, m, own)
  BY <1>2, <1>3 DEF Makes
<1> QED
  BY <1>1, <1>3, <1>4, PopPaths

LEMMA EndBlockPaths == ASSUME Going, EndBlock PROVE Kept'
<1>1. PICK f : f = Top
  OBVIOUS
<1>2. f.kind = "block" /\ f.kind # "function"
  BY <1>1 DEF EndBlock, Inside
<1>3. PICK W, L, m, own : Finishing(f, W, L, m, own)
  BY <1>1, <1>2, EndsPath
<1>4. /\ Walk(cg, W \cup L, m, own, Got) /\ (live <=> Arrives(cg, Got))
  BY <1>3 DEF Finishing
<1>5. Pops /\ live' = live
  BY DEF EndBlock, Leave, Pops, Going, WInv, TInv
<1>6. Emit(cg)
  BY DEF EndBlock, Emit, cg
<1>7. Alike(m, Awaits(f), Got, Got)
  BY AlikeSelf
<1> QED
  BY <1>1, <1>3, <1>4, <1>5, <1>6, <1>7, EndPaths

LEMMA EndIfPaths == ASSUME Going, EndIf PROVE Kept'
<1>1. PICK f : f = Top
  OBVIOUS
<1>2. f.kind = "else" /\ f.kind # "function"
  BY <1>1 DEF EndIf, Inside
<1>3. PICK W, L, m, own : Finishing(f, W, L, m, own)
  BY <1>1, <1>2, EndsPath
<1>4. /\ Walk(cg, W \cup L, m, own, Got) /\ (live <=> Arrives(cg, Got))
      /\ f \in Frames /\ Led(f, Got) /\ f.after \in own
      /\ Awaits(f) \subseteq W /\ live \in BOOLEAN
  BY <1>2, <1>3 DEF Finishing
<1>5. PICK a : a = f.after
  OBVIOUS
<1>6. Awaits(f) = {a} /\ a \in W /\ (a \in Got <=> f.out)
  BY <1>2, <1>4, <1>5 DEF Awaits, Led
<1>7. PICK d, Y : /\ d = Place(EndOpen(cg, {a}), a)
                  /\ Y = Onto(cg, Got, {a})
  OBVIOUS
<1>8. {a} \subseteq own /\ {a} \subseteq Got \cup (W \cup L) /\ a \in W \cup L
  BY <1>4, <1>5, <1>6
<1>9. Walk(d, (W \cup L) \ {a}, m, own, Y) /\ Open(d) /\ At(d) = a
  BY <1>4, <1>7, <1>8, JumpOpenWalk
<1>10. \A x : x \in Y <=> x \in Got \/ (x = a /\ live)
  BY <1>4, <1>7 DEF Onto
<1>11. Pops /\ (live' <=> live \/ f.out)
  BY <1>1, <1>4 DEF EndIf, Leave, Pops, Frames
<1>12. live' <=> Arrives(d, Y)
  BY <1>6, <1>9, <1>10, <1>11 DEF Arrives
<1>13. Alike(m, Awaits(f), Got, Y)
  BY <1>6, <1>10 DEF Alike
<1>14. Emit(d)
  BY <1>1, <1>5, <1>7 DEF EndIf
<1> QED
  BY <1>1, <1>3, <1>9, <1>11, <1>12, <1>13, <1>14, EndPaths

LEMMA EndIfWithoutElsePaths == ASSUME Going, EndIfWithoutElse PROVE Kept'
<1>1. PICK f : f = Top
  OBVIOUS
<1>2. f.kind = "then" /\ f.kind # "function"
  BY <1>1 DEF EndIfWithoutElse, Inside
<1>3. PICK W, L, m, own : Finishing(f, W, L, m, own)
  BY <1>1, <1>2, EndsPath
<1>4. /\ Walk(cg, W \cup L, m, own, Got) /\ (live <=> Arrives(cg, Got))
      /\ f \in Frames /\ Led(f, Got) /\ f.after \in own /\ f.other \in own
      /\ Apart(f) /\ Awaits(f) \subseteq W /\ live \in BOOLEAN
  BY <1>2, <1>3 DEF Finishing
<1>5. PICK a, o, P : a = f.after /\ o = f.other /\ P = W \cup L
  OBVIOUS
<1>6. /\ Awaits(f) = {a, o} /\ a \in P /\ o \in P /\ a # o
      /\ a \notin Got /\ (o \in Got <=> f.entry)
  BY <1>2, <1>4, <1>5 DEF Awaits, Led, Apart
<1>7. PICK c, X : /\ c = Place(EndOpen(cg, {a}), o)
                  /\ X = Onto(cg, Got, {a})
  OBVIOUS
<1>8. /\ {a} \subseteq own /\ {a} \subseteq Got \cup P
      /\ {a} \subseteq X \cup (P \ {o}) /\ a \in P \ {o}
  BY <1>4, <1>5, <1>6
<1>9. Walk(c, P \ {o}, m, own, X) /\ Open(c) /\ At(c) = o
  BY <1>4, <1>5, <1>6, <1>7, <1>8, JumpOpenWalk
<1>10. \A x : x \in X <=> x \in Got \/ (x = a /\ live)
  BY <1>4, <1>7 DEF Onto
<1>11. PICK d, Y : /\ d = Place(EndOpen(c, {a}), a)
                   /\ Y = Onto(c, X, {a})
  OBVIOUS
<1>12. Walk(d, (P \ {o}) \ {a}, m, own, Y) /\ Open(d) /\ At(d) = a
  BY <1>8, <1>9, <1>11, JumpOpenWalk
<1>13. \A x : x \in Y <=> x \in Got \/ (x = a /\ (live \/ f.entry))
  <2>1. Arrives(c, X) <=> f.entry
    BY <1>6, <1>9, <1>10 DEF Arrives
  <2> QED
    BY <1>10, <1>11, <2>1 DEF Onto
<1>14. Pops /\ (live' <=> live \/ f.entry)
  BY <1>1, <1>4 DEF EndIfWithoutElse, Leave, Pops, Frames
<1>15. live' <=> Arrives(d, Y)
  BY <1>6, <1>12, <1>13, <1>14 DEF Arrives
<1>16. Alike(m, Awaits(f), Got, Y)
  BY <1>6, <1>13 DEF Alike
<1>17. Emit(d)
  BY <1>1, <1>5, <1>7, <1>11 DEF EndIfWithoutElse
<1> QED
  BY <1>1, <1>3, <1>12, <1>14, <1>15, <1>16, <1>17, EndPaths

\* Of a loop that executions get into, the head is reached.
LEMMA HeadReached ==
  ASSUME NEW f, NEW W, NEW L, NEW m, NEW own, Finishing(f, W, L, m, own),
         f.kind \in Loops
  PROVE  /\ f.other \in Got <=> f.entry
         /\ live \/ f.again \/ f.out => f.entry
  BY DEF Finishing, Led

LEMMA EndDoPaths == ASSUME Going, EndDo PROVE Kept'
<1>1. PICK f : f = Top
  OBVIOUS
<1>2. f.kind = "do" /\ f.kind # "function" /\ f.kind \in Loops
  BY <1>1 DEF EndDo, Inside, Loops
<1>3. PICK W, L, m, own : Finishing(f, W, L, m, own)
  BY <1>1, <1>2, EndsPath
<1>4. /\ Walk(cg, W \cup L, m, own, Got) /\ (live <=> Arrives(cg, Got))
      /\ f \in Frames /\ Led(f, Got) /\ f.after \in own /\ f.other \in own
      /\ f.continue \in own
      /\ Apart(f) /\ Awaits(f) \subseteq W /\ live \in BOOLEAN
  BY <1>2, <1>3 DEF Finishing
<1>5. PICK a, o, k, P : /\ a = f.after /\ o = f.other /\ k = f.continue
                        /\ P = W \cup L
  OBVIOUS
<1>6. /\ Awaits(f) = {a, k} /\ a \in P /\ k \in P /\ a # k
      /\ (a \in Got <=> f.out) /\ (k \in Got <=> f.again)
      /\ live \/ f.again => o \in Got
  BY <1>2, <1>3, <1>4, <1>5, HeadReached DEF Awaits, Led, Apart
<1>7. PICK c, X : /\ c = Place(EndOpen(cg, {k}), k)
                  /\ X = Onto(cg, Got, {k})
  OBVIOUS
<1>8. {k} \subseteq own /\ {k} \subseteq Got \cup P
  BY <1>4, <1>5, <1>6
<1>9. Walk(c, P \ {k}, m, own, X) /\ Open(c) /\ At(c) = k
  BY <1>4, <1>5, <1>6, <1>7, <1>8, JumpOpenWalk
<1>10. \A x : x \in X <=> x \in Got \/ (x = k /\ live)
  BY <1>4, <1>7 DEF Onto
<1>11. Arrives(c, X) <=> live \/ f.again
  BY <1>6, <1>9, <1>10 DEF Arrives
<1>t. PICK T : T = {o, a}
  OBVIOUS
<1>12. PICK d, Y : d = Place(End(c, T), a) /\ Y = Onto(c, X, T)
  OBVIOUS
<1>13. T \subseteq own /\ (Arrives(c, X) => T \subseteq X \cup (P \ {k}))
  BY <1>4, <1>5, <1>6, <1>10, <1>11, <1>t
<1>14. a \in P \ {k}
  BY <1>6
<1>15. Walk(d, (P \ {k}) \ {a}, m, own, Y) /\ Open(d) /\ At(d) = a
  BY <1>9, <1>12, <1>13, <1>14, JumpWalk
<1>16. \A x : x \in Y <=> \/ x \in Got \/ (x = k /\ live)
                          \/ x = a /\ (live \/ f.again)
  BY <1>6, <1>10, <1>11, <1>12, <1>t DEF Onto
<1>17. Pops /\ (live' <=> live \/ f.again \/ f.out)
  BY <1>1, <1>4 DEF EndDo, Leave, Pops, Frames
<1>18. live' <=> Arrives(d, Y)
  BY <1>6, <1>15, <1>16, <1>17 DEF Arrives
<1>19. Alike(m, Awaits(f), Got, Y)
  BY <1>6, <1>16 DEF Alike
<1>20. Emit(d)
  BY <1>1, <1>5, <1>7, <1>12, <1>t DEF EndDo
<1> QED
  BY <1>1, <1>3, <1>15, <1>17, <1>18, <1>19, <1>20, EndPaths

LEMMA EndForeachPaths == ASSUME Going, EndForeach PROVE Kept'
<1>1. PICK f : f = Top
  OBVIOUS
<1>2. f.kind = "foreach" /\ f.kind # "function" /\ f.kind \in Loops
  BY <1>1 DEF EndForeach, Inside, Loops
<1>3. PICK W, L, m, own : Finishing(f, W, L, m, own)
  BY <1>1, <1>2, EndsPath
<1>4. /\ Walk(cg, W \cup L, m, own, Got) /\ (live <=> Arrives(cg, Got))
      /\ f \in Frames /\ Led(f, Got) /\ f.after \in own /\ f.other \in own
      /\ f.continue \in own
      /\ Apart(f) /\ Awaits(f) \subseteq W /\ live \in BOOLEAN
  BY <1>2, <1>3 DEF Finishing
<1>5. PICK a, o, k, P : /\ a = f.after /\ o = f.other /\ k = f.continue
                        /\ P = W \cup L
  OBVIOUS
<1>6. /\ Awaits(f) = {a, k} /\ a \in P /\ k \in P /\ a # k
      /\ (a \in Got <=> f.entry) /\ (k \in Got <=> f.again)
      /\ live \/ f.again \/ f.out => o \in Got /\ f.entry
  BY <1>2, <1>3, <1>4, <1>5, HeadReached DEF Awaits, Led, Apart
<1>7. PICK c, X : /\ c = Place(EndOpen(cg, {k}), k)
                  /\ X = Onto(cg, Got, {k})
  OBVIOUS
<1>8. {k} \subseteq own /\ {k} \subseteq Got \cup P
  BY <1>4, <1>5, <1>6
<1>9. Walk(c, P \ {k}, m, own, X) /\ Open(c) /\ At(c) = k
  BY <1>4, <1>5, <1>6, <1>7, <1>8, JumpOpenWalk
<1>10. \A x : x \in X <=> x \in Got \/ (x = k /\ live)
  BY <1>4, <1>7 DEF Onto
<1>11. Arrives(c, X) <=> live \/ f.again
  BY <1>6, <1>9, <1>10 DEF Arrives
<1>12. PICK T, d, Y : /\ T = {o} /\ d = Place(End(c, T), a)
                      /\ Y = Onto(c, X, T)
  OBVIOUS
<1>13. T \subseteq own /\ (Arrives(c, X) => T \subseteq X \cup (P \ {k}))
  BY <1>4, <1>5, <1>6, <1>10, <1>11, <1>12
<1>14. a \in P \ {k}
  BY <1>6
<1>15. Walk(d, (P \ {k}) \ {a}, m, own, Y) /\ Open(d) /\ At(d) = a
  BY <1>9, <1>12, <1>13, <1>14, JumpWalk
<1>16. \A x : x \in Y <=> x \in Got \/ (x = k /\ live)
  BY <1>6, <1>10, <1>11, <1>12 DEF Onto
<1>17. Pops /\ (live' <=> f.entry)
  BY <1>1, <1>4, <1>6 DEF EndForeach, Leave, Pops, Frames, Tested
<1>18. live' <=> Arrives(d, Y)
  BY <1>6, <1>15, <1>16, <1>17 DEF Arrives
<1>19. Alike(m, Awaits(f), Got, Y)
  BY <1>6, <1>16 DEF Alike
<1>20. Emit(d)
  BY <1>1, <1>5, <1>7, <1>12 DEF EndForeach
<1> QED
  BY <1>1, <1>3, <1>15, <1>17, <1>18, <1>19, <1>20, EndPaths

LEMMA EndWhilePaths == ASSUME Going, EndWhile, ~careless' PROVE Kept'
<1>1. PICK f : f = Top
  OBVIOUS
<1>2. f.kind = "while" /\ f.kind # "function" /\ f.kind \in Loops
  BY <1>1 DEF EndWhile, Inside, Loops
<1>3. PICK W, L, m, own : Finishing(f, W, L, m, own)
  BY <1>1, <1>2, EndsPath
<1>4. /\ Walk(cg, W \cup L, m, own, Got) /\ (live <=> Arrives(cg, Got))
      /\ f \in Frames /\ Led(f, Got) /\ f.after \in own /\ f.other \in own
      /\ Awaits(f) \subseteq W /\ live \in BOOLEAN
  BY <1>2, <1>3 DEF Finishing
<1>5. Open(cg)
  BY DEF EndWhile, Unchecked
<1>6. PICK a, T, P : a = f.after /\ T = {f.other} /\ P = W \cup L
  OBVIOUS
<1>7. /\ Awaits(f) = {a} /\ a \in P /\ (a \in Got <=> f.entry)
      /\ live \/ f.again \/ f.out => T \subseteq Got /\ f.entry
  BY <1>2, <1>3, <1>4, <1>6, HeadReached DEF Awaits, Led
<1>8. PICK d, Y : d = Place(End(cg, T), a) /\ Y = Onto(cg, Got, T)
  OBVIOUS
<1>9. T \subseteq own /\ (Arrives(cg, Got) => T \subseteq Got \cup P)
  BY <1>4, <1>6, <1>7
<1>10. Walk(d, P \ {a}, m, own, Y) /\ Open(d) /\ At(d) = a
  BY <1>4, <1>5, <1>6, <1>7, <1>8, <1>9, JumpWalk
<1>11. Y = Got
  BY <1>4, <1>7, <1>8 DEF Onto
<1>12. Pops /\ (live' <=> f.entry)
  BY <1>1, <1>4, <1>7 DEF EndWhile, Leave, Pops, Frames, Tested
<1>13. live' <=> Arrives(d, Y)
  BY <1>7, <1>10, <1>11, <1>12 DEF Arrives
<1>14. Alike(m, Awaits(f), Got, Y)
  BY <1>11, AlikeSelf
<1>15. Emit(d)
  BY <1>1, <1>6, <1>8 DEF EndWhile
<1> QED
  BY <1>1, <1>3, <1>10, <1>12, <1>13, <1>14, <1>15, EndPaths

LEMMA EndForPaths == ASSUME Going, EndFor, ~careless' PROVE Kept'
<1>1. PICK f : f = Top
  OBVIOUS
<1>2. /\ f.kind \in {"for", "forever"} /\ f.kind # "function"
      /\ f.kind \in Loops
  BY <1>1 DEF EndFor, Inside, Loops
<1>3. PICK W, L, m, own : Finishing(f, W, L, m, own)
  BY <1>1, <1>2, EndsPath
<1>4. /\ Walk(cg, W \cup L, m, own, Got) /\ (live <=> Arrives(cg, Got))
      /\ f \in Frames /\ Led(f, Got) /\ f.after \in own /\ f.other \in own
      /\ Awaits(f) \subseteq W /\ live \in BOOLEAN
  BY <1>2, <1>3 DEF Finishing
<1>5. Open(cg)
  BY DEF EndFor, Unchecked
<1>6. PICK a, o, T, P : /\ a = f.after /\ o = f.other /\ T = {o}
                        /\ P = W \cup L
  OBVIOUS
<1>7. /\ Awaits(f) = {a} /\ a \in P
      /\ a \in Got <=> (f.kind = "for" /\ f.entry) \/ f.out
      /\ live \/ f.again \/ f.out => T \subseteq Got /\ f.entry
  BY <1>2, <1>3, <1>4, <1>6, HeadReached DEF Awaits, Led
<1>8. PICK b, u : /\ b = blocks[insert]
                  /\ u = (b.updates \/ blocks[o].entered # 0)
  OBVIOUS
<1>9. PICK x : x = [b EXCEPT !.updates = u]
  OBVIOUS
<1>10. /\ b \in Blocks /\ b = BlockOf(cg, At(cg)) /\ b.entered \in 0..m
       /\ u \in BOOLEAN
  <2>1. b = cg.blocks[cg.at]
    BY <1>8 DEF cg
  <2>2. Typed(cg) /\ Size(cg) = m
    BY <1>4, WalkFacts
  <2>3. b \in Blocks /\ b.entered \in 0..m
    BY <2>1, <2>2, CodeFacts DEF Size
  <2>4. u \in BOOLEAN
    BY <1>8, <2>3 DEF Blocks
  <2> QED
    BY <2>1, <2>3, <2>4 DEF BlockOf, At
<1>11. /\ x \in Blocks /\ x.fn = BlockOf(cg, At(cg)).fn
       /\ x.ends = BlockOf(cg, At(cg)).ends
       /\ x.next = BlockOf(cg, At(cg)).next /\ x.entered \in 0..m
  BY <1>9, <1>10 DEF Blocks
<1>12. PICK c : c = SetTo(cg, x)
  OBVIOUS
<1>13. Walk(c, P, m, own, Got) /\ Open(c) /\ At(c) = At(cg)
  BY <1>4, <1>5, <1>6, <1>11, <1>12, TouchWalk
<1>14. PICK d, Y : d = Place(End(c, T), a) /\ Y = Onto(c, Got, T)
  OBVIOUS
<1>15. Arrives(c, Got) <=> live
  BY <1>4, <1>5, <1>13 DEF Arrives
<1>16. T \subseteq own /\ (Arrives(c, Got) => T \subseteq Got \cup P)
  BY <1>4, <1>6, <1>7, <1>15
<1>17. Walk(d, P \ {a}, m, own, Y) /\ Open(d) /\ At(d) = a
  BY <1>7, <1>13, <1>14, <1>16, JumpWalk
<1>18. Y = Got
  BY <1>7, <1>14, <1>15 DEF Onto
<1>19. Pops /\ (live' <=> (f.kind = "for" /\ f.entry) \/ f.out)
  BY <1>1, <1>2, <1>4, <1>7 DEF EndFor, Leave, Pops, Frames, Tested
<1>20. live' <=> Arrives(d, Y)
  BY <1>7, <1>17, <1>18, <1>19 DEF Arrives
<1>21. Alike(m, Awaits(f), Got, Y)
  BY <1>18, AlikeSelf
<1>22. Emit(d)
  <2>1. c = [cg EXCEPT !.blocks[insert].updates =
                         @ \/ blocks[Top.other].entered # 0]
    BY <1>1, <1>6, <1>8, <1>9, <1>12 DEF SetTo, cg
  <2> QED
    BY <1>1, <1>6, <1>14, <2>1 DEF EndFor
<1> QED
  BY <1>1, <1>3, <1>17, <1>19, <1>20, <1>21, <1>22, EndPaths

LEMMA EndMatchPaths == ASSUME Going, EndMatch PROVE Kept'
<1>1. PICK f : f = Top
  OBVIOUS
<1>2. f.kind = "arm" /\ f.kind # "function" /\ f.other = f.continue
  BY <1>1 DEF EndMatch, Inside
<1>3. PICK W, L, m, own : Finishing(f, W, L, m, own)
  BY <1>1, <1>2, EndsPath
<1>4. /\ Walk(cg, W \cup L, m, own, Got) /\ (live <=> Arrives(cg, Got))
      /\ f \in Frames /\ Led(f, Got) /\ f.after \in own /\ f.continue \in own
      /\ Apart(f) /\ Awaits(f) \subseteq W /\ live \in BOOLEAN
  BY <1>2, <1>3 DEF Finishing
<1>5. PICK a, t, P : a = f.after /\ t = f.continue /\ P = W \cup L
  OBVIOUS
<1>6. /\ Awaits(f) = {a, t} /\ a \in P /\ t \in P /\ a # t
      /\ (a \in Got <=> f.out) /\ (t \in Got <=> f.entry)
  BY <1>2, <1>4, <1>5 DEF Awaits, Led, Apart
<1>7. PICK c, X : /\ c = Place(EndOpen(cg, {a}), t)
                  /\ X = Onto(cg, Got, {a})
  OBVIOUS
<1>8. /\ {a} \subseteq own /\ {a} \subseteq Got \cup P
      /\ {a} \subseteq X \cup (P \ {t}) /\ a \in P \ {t}
  BY <1>4, <1>5, <1>6
<1>9. Walk(c, P \ {t}, m, own, X) /\ Open(c) /\ At(c) = t
  BY <1>4, <1>5, <1>6, <1>7, <1>8, JumpOpenWalk
<1>10. \A x : x \in X <=> x \in Got \/ (x = a /\ live)
  BY <1>4, <1>7 DEF Onto
<1>11. PICK d, Y : /\ d = Place(End(c, {a}), a)
                   /\ Y = Onto(c, X, {a})
  OBVIOUS
<1>12. Walk(d, (P \ {t}) \ {a}, m, own, Y) /\ Open(d) /\ At(d) = a
  BY <1>8, <1>9, <1>11, JumpWalk
<1>13. \A x : x \in Y <=> x \in Got \/ (x = a /\ (live \/ f.entry))
  <2>1. Arrives(c, X) <=> f.entry
    BY <1>6, <1>9, <1>10 DEF Arrives
  <2> QED
    BY <1>10, <1>11, <2>1 DEF Onto
<1>14. Pops /\ (live' <=> live \/ f.entry \/ f.out)
  BY <1>1, <1>4 DEF EndMatch, Leave, Pops, Frames
<1>15. live' <=> Arrives(d, Y)
  BY <1>6, <1>12, <1>13, <1>14 DEF Arrives
<1>16. Alike(m, Awaits(f), Got, Y)
  BY <1>6, <1>13 DEF Alike
<1>17. Emit(d)
  BY <1>1, <1>5, <1>7, <1>11 DEF EndMatch
<1> QED
  BY <1>1, <1>3, <1>12, <1>14, <1>15, <1>16, <1>17, EndPaths

LEMMA EndTryPaths == ASSUME Going, EndTry PROVE Kept'
<1>1. PICK f : f = Top
  OBVIOUS
<1>2. f.kind = "catch" /\ f.kind # "function"
  BY <1>1 DEF EndTry, Inside
<1>3. PICK W, L, m, own : Finishing(f, W, L, m, own)
  BY <1>1, <1>2, EndsPath
<1>4. /\ Walk(cg, W \cup L, m, own, Got) /\ (live <=> Arrives(cg, Got))
      /\ Starts(cg, W, L, "sound", m, own) /\ Got \subseteq 1..m
      /\ fn \in Nat \ {0} /\ m \in Nat /\ own \subseteq 1..m
      /\ f \in Frames /\ Led(f, Got) /\ f.after \in own /\ f.other \in own
      /\ Apart(f) /\ Awaits(f) \subseteq W /\ live \in BOOLEAN
  BY <1>2, <1>3 DEF Finishing
<1>5. PICK a, o, rethrow, abort, n, all, P :
        /\ a = f.after /\ o = f.other
        /\ rethrow = m + 1 /\ abort = m + 2 /\ n = m + 2
        /\ all = own \cup {rethrow, abort}
        /\ P = (W \cup L) \cup {rethrow, abort}
  OBVIOUS
<1>6. /\ Awaits(f) = {a, o} /\ a \in W /\ o \in W /\ a # o
      /\ (a \in Got <=> f.out)
  BY <1>2, <1>4, <1>5 DEF Awaits, Led, Apart
<1>7. /\ n \in Nat /\ m <= n /\ {rethrow, abort} \subseteq m + 1 .. n
      /\ rethrow \notin 1..m /\ abort \notin 1..m /\ rethrow # abort
      /\ {a, o} \subseteq 1..m /\ a \notin {rethrow, abort}
      /\ o \notin {rethrow, abort}
  <2>1. /\ n \in Nat /\ m <= n /\ {rethrow, abort} \subseteq m + 1 .. n
        /\ rethrow \notin 1..m /\ abort \notin 1..m /\ rethrow # abort
    BY <1>4, <1>5
  <2>2. a \in 1..m /\ o \in 1..m
    BY <1>4, <1>5
  <2> QED
    BY <2>1, <2>2
<1>8. PICK e, X : e = EndOpen(cg, {a}) /\ X = Onto(cg, Got, {a})
  OBVIOUS
<1>9. {a} \subseteq own /\ {a} \subseteq Got \cup (W \cup L)
  BY <1>4, <1>5, <1>6
<1>10. Walk(e, W \cup L, m, own, X) /\ ~Open(e)
  BY <1>4, <1>8, <1>9, EndOpenWalk
<1>11. \A x : x \in X <=> x \in Got \/ (x = a /\ live)
  BY <1>4, <1>8 DEF Onto
<1>12. PICK c, l : c = New(e, 2) /\ l = c.back
  OBVIOUS
<1>13. Walk(c, P, n, all, X) /\ ~Open(c)
  BY <1>4, <1>5, <1>10, <1>12, WalkTwo
<1>14. l \in 1..n /\ c = [blocks |-> c.blocks, at |-> c.at, back |-> c.back]
  BY <1>12, <1>13, WalkFacts, CodeFacts DEF Size
<1>15. PICK c1 : c1 = MoveTo(c, o, l)
  OBVIOUS
<1>16. Walk(c1, P \ {o}, n, all, X) /\ Open(c1) /\ At(c1) = o
  <2>1. o \in P
    BY <1>5, <1>6
  <2> QED
    BY <1>13, <1>14, <1>15, <2>1, MoveWalk
<1>17. PICK T : T = {abort, rethrow}
  OBVIOUS
<1>18. PICK c2, Y : /\ c2 = Place(End(c1, T), rethrow)
                    /\ Y = Onto(c1, X, T)
  OBVIOUS
<1>19. /\ T \subseteq all /\ T \subseteq X \cup (P \ {o})
       /\ rethrow \in P \ {o}
  BY <1>5, <1>7, <1>17
<1>20. Walk(c2, (P \ {o}) \ {rethrow}, n, all, Y) /\ Open(c2)
  BY <1>16, <1>18, <1>19, JumpWalk
<1>21. PICK c3 : c3 = Place(End(c2, {}), abort)
  OBVIOUS
<1>22. /\ {} \subseteq all /\ {} \subseteq Y \cup ((P \ {o}) \ {rethrow})
       /\ abort \in (P \ {o}) \ {rethrow}
       /\ {} \subseteq Y \cup (((P \ {o}) \ {rethrow}) \ {abort})
       /\ a \in ((P \ {o}) \ {rethrow}) \ {abort}
  BY <1>5, <1>6, <1>7
<1>23. /\ Walk(c3, ((P \ {o}) \ {rethrow}) \ {abort}, n, all, Y)
       /\ Open(c3)
  <2>1. Onto(c2, Y, {}) = Y
    BY OntoNone
  <2> QED
    BY <1>20, <1>21, <1>22, <2>1, JumpWalk
<1>24. PICK d : d = Place(End(c3, {}), a)
  OBVIOUS
<1>25. /\ Walk(d, (((P \ {o}) \ {rethrow}) \ {abort}) \ {a}, n, all, Y)
       /\ Open(d) /\ At(d) = a
  <2>1. Onto(c3, Y, {}) = Y
    BY OntoNone
  <2> QED
    BY <1>22, <1>23, <1>24, <2>1, JumpWalk
<1>26. PICK Q : Q = (((P \ {o}) \ {rethrow}) \ {abort}) \ {a}
  OBVIOUS
<1>27. \A x \in 1..m : x \in Y <=> x \in Got \/ (x = a /\ live)
  BY <1>7, <1>11, <1>17, <1>18 DEF Onto
<1>28. Pops /\ (live' <=> live \/ f.out)
  BY <1>1, <1>4 DEF EndTry, Leave, Pops, Frames
<1>29. live' <=> Arrives(d, Y)
  BY <1>6, <1>7, <1>25, <1>27, <1>28 DEF Arrives
<1>30. Alike(m, Awaits(f), Got, Y)
  BY <1>6, <1>27 DEF Alike
<1>31. Grows(m, own, n, all)
  <2>1. Grows(m, own, n, own \cup {rethrow, abort})
    BY <1>4, <1>7, GrowsBy
  <2> QED
    BY <1>5, <2>1
<1>32. Emit(d)
  <2>1. Id(cg, 1) = rethrow /\ Id(cg, 2) = abort
    BY <1>4, <1>5, WalkFacts DEF Size, Id
  <2>2. c1 = [c EXCEPT !.at = o]
    BY <1>12, <1>14, <1>15 DEF MoveTo
  <2> QED
    BY <1>1, <1>5, <1>8, <1>12, <1>17, <1>18, <1>21, <1>24, <2>1, <2>2
       DEF EndTry
<1>33. /\ UNCHANGED <<fn, label, source>>
       /\ open' = SubSeq(open, 1, Len(open) - 1)
  BY <1>28 DEF Pops
<1>34. Makes(d, Q, n, all, Y, m, own)
  BY <1>25, <1>26, <1>29, <1>31, <1>32, <1>33 DEF Makes
<1> QED
  BY <1>1, <1>4, <1>30, <1>33, <1>34, PopPaths

----------------------------------------------------------------------------
(* The next parts of the constructs *)

LEMMA GoesOnPaths ==
  ASSUME Going, NEW f, f = Top, NEW W, NEW L, NEW m, NEW own,
         Finishing(f, W, L, m, own),
         NEW g \in Frames, GoesOn(g), g.kind \notin Loops,
         NEW B, NEW n \in Nat, m <= n, B \subseteq m + 1 .. n,
         NEW d, NEW Q, NEW Y, Walk(d, Q, n, own \cup B, Y), Emit(d),
         live' <=> Arrives(d, Y), Alike(m, Awaits(f), Got, Y),
         Awaits(g) \subseteq Awaits(f) \cup B,
         Led([g EXCEPT !.out = g.out \/ live], Y)
  PROVE  Kept'
<1>1. Starts(cg, W, L, "sound", m, own) /\ m \in Nat
  BY DEF Finishing
<1>2. Grows(m, own, n, own \cup B)
  BY <1>1, GrowsBy
<1>3. UNCHANGED <<fn, label, source>>
  BY DEF GoesOn
<1>4. Makes(d, Q, n, own \cup B, Y, m, own)
  BY <1>2, <1>3 DEF Makes
<1>5. \A x \in Awaits(g) : x \in Awaits(Top) \/ x > m
  BY <1>1
<1> QED
  BY <1>1, <1>4, <1>5, PartPaths

\* The frame that the stack gets.
LEMMA LedPart ==
  ASSUME NEW g \in Frames, live \in BOOLEAN, NEW Y,
         g.kind \in {"else", "arm", "catch"},
         g.after \in Y <=> g.out \/ live,
         g.kind # "else" => (g.other \in Y <=> g.entry),
         g.kind = "arm" => (g.other # g.continue => g.continue \notin Y),
         NEW o, o = [g EXCEPT !.out = g.out \/ live]
  PROVE  Led(o, Y)
<1>1. /\ o.kind = g.kind /\ o.after = g.after /\ o.other = g.other
      /\ o.continue = g.continue /\ o.entry = g.entry
      /\ (o.out <=> g.out \/ live)
  BY DEF Frames
<1> QED
  BY <1>1 DEF Led, Loops

LEMMA BeginElsePaths == ASSUME Going, BeginElse PROVE Kept'
<1>1. PICK f : f = Top
  OBVIOUS
<1>2. f.kind = "then" /\ f.kind # "function"
  BY <1>1 DEF BeginElse, Inside
<1>3. PICK W, L, m, own : Finishing(f, W, L, m, own)
  BY <1>1, <1>2, EndsPath
<1>4. /\ Walk(cg, W \cup L, m, own, Got) /\ (live <=> Arrives(cg, Got))
      /\ m \in Nat
      /\ f \in Frames /\ Led(f, Got) /\ f.after \in own /\ f.other \in own
      /\ Apart(f) /\ Awaits(f) \subseteq W /\ live \in BOOLEAN
  BY <1>2, <1>3 DEF Finishing
<1>5. PICK a, o, P : a = f.after /\ o = f.other /\ P = W \cup L
  OBVIOUS
<1>6. /\ Awaits(f) = {a, o} /\ a \in P /\ o \in P /\ a # o
      /\ (a \in Got <=> f.out) /\ (o \in Got <=> f.entry)
  BY <1>2, <1>4, <1>5 DEF Awaits, Led, Apart
<1>7. PICK d, Y : /\ d = Place(EndOpen(cg, {a}), o)
                  /\ Y = Onto(cg, Got, {a})
  OBVIOUS
<1>8. {a} \subseteq own /\ {a} \subseteq Got \cup P
  BY <1>4, <1>5, <1>6
<1>9. Walk(d, P \ {o}, m, own, Y) /\ Open(d) /\ At(d) = o
  BY <1>4, <1>5, <1>6, <1>7, <1>8, JumpOpenWalk
<1>10. \A x : x \in Y <=> x \in Got \/ (x = a /\ live)
  BY <1>4, <1>7 DEF Onto
<1>11. live' = f.entry
  BY <1>1 DEF BeginElse, NextPart
<1>12. live' <=> Arrives(d, Y)
  BY <1>6, <1>9, <1>10, <1>11 DEF Arrives
<1>13. Alike(m, Awaits(f), Got, Y)
  BY <1>6, <1>10 DEF Alike
<1>14. PICK g : g = [f EXCEPT !.kind = "else"]
  OBVIOUS
<1>15. /\ g \in Frames /\ g.kind = "else" /\ g.after = a /\ g.out = f.out
       /\ g.kind \notin Loops
  BY <1>4, <1>5, <1>14 DEF Frames, Kinds, Loops
<1>16. PICK w : w = [g EXCEPT !.out = g.out \/ live]
  OBVIOUS
<1>17. g.after \in Y <=> g.out \/ live
  BY <1>6, <1>10, <1>15
<1>18. Led(w, Y)
  BY <1>4, <1>15, <1>16, <1>17, LedPart
<1>19. GoesOn(g)
  BY <1>1, <1>4, <1>14 DEF BeginElse, NextPart, GoesOn, Frames
<1>20. Emit(d)
  BY <1>1, <1>5, <1>7 DEF BeginElse
<1>21. PICK B : B = {}
  OBVIOUS
<1>22. /\ Walk(d, P \ {o}, m, own \cup B, Y) /\ B \subseteq m + 1 .. m
       /\ m <= m
  BY <1>4, <1>9, <1>21
<1>23. Awaits(g) \subseteq Awaits(f) \cup B
  BY <1>6, <1>15 DEF Awaits
<1> QED
  BY <1>1, <1>3, <1>4, <1>12, <1>13, <1>15, <1>16, <1>18, <1>19, <1>20,
     <1>22, <1>23, GoesOnPaths

\* An arm: c makes its blocks B, and following is one of them or t.
LEMMA ArmPaths ==
  ASSUME Going, NEW f, f = Top, f.kind = "arm", f.other # f.continue,
         NEW W, NEW L, NEW m, NEW own, Finishing(f, W, L, m, own),
         NEW n \in Nat, NEW B, NEW body, NEW following,
         m <= n, B \subseteq m + 1 .. n, body \in B,
         B = {body, following} \/ (B = {body} /\ following = f.continue),
         following # body,
         NEW c, NEW X, Walk(c, (W \cup L) \cup B, n, own \cup B, X), ~Open(c),
         \A x : x \in X <=> x \in Got \/ (x = f.after /\ live),
         NEW T, T \subseteq {body, following}, body \in T,
         NEW g \in Frames, IsArm(g, f.after, f.continue, following), GoesOn(g),
         g.entry <=> f.entry /\ following \in T, g.out = f.out,
         live' = f.entry,
         Emit(Place(End(Place(c, f.other), T), body))
  PROVE  Kept'
<1>1. /\ m \in Nat /\ own \subseteq 1..m /\ Got \subseteq 1..m
      /\ f \in Frames /\ Led(f, Got) /\ f.after \in own /\ f.other \in own
      /\ f.continue \in own
      /\ Apart(f) /\ Awaits(f) \subseteq W /\ live \in BOOLEAN
  BY DEF Finishing, Loops
<1>2. PICK a, o, t, P : /\ a = f.after /\ o = f.other /\ t = f.continue
                        /\ P = (W \cup L) \cup B
  OBVIOUS
<1>3. /\ Awaits(f) = {a, o, t} /\ a \in P /\ o \in P /\ t \in P
      /\ a \notin {o, t} /\ o # t
      /\ (a \in Got <=> f.out) /\ (o \in Got <=> f.entry) /\ t \notin Got
  BY <1>1, <1>2 DEF Awaits, Led, Apart
<1>4. /\ B \cap (1..m) = {} /\ T \subseteq B \cup {t}
      /\ following \in B \cup {t}
      /\ a \in 1..m /\ o \in 1..m /\ t \in 1..m
      /\ a \notin B /\ o \notin B /\ t \notin B
  <2>1. B \cap (1..m) = {}
    BY <1>1
  <2>2. a \in 1..m /\ o \in 1..m /\ t \in 1..m
    BY <1>1, <1>2
  <2>3. following \in B \cup {t} /\ T \subseteq B \cup {t}
    BY <1>2
  <2> QED
    BY <2>1, <2>2, <2>3
<1>5. PICK c1 : c1 = Place(c, o)
  OBVIOUS
<1>6. Walk(c1, P \ {o}, n, own \cup B, X) /\ Open(c1) /\ At(c1) = o
  BY <1>2, <1>3, <1>5, PlaceWalk
<1>7. PICK d, Y : d = Place(End(c1, T), body) /\ Y = Onto(c1, X, T)
  OBVIOUS
<1>8. T \subseteq own \cup B /\ T \subseteq X \cup (P \ {o}) /\ body \in P \ {o}
  <2>1. t \in own /\ t # o /\ t \in P /\ body \notin {o} /\ o \notin B
    BY <1>1, <1>2, <1>3, <1>4
  <2>2. B \subseteq P \ {o} /\ {t} \subseteq P \ {o}
    BY <1>2, <2>1
  <2> QED
    BY <1>4, <2>1, <2>2
<1>9. /\ Walk(d, (P \ {o}) \ {body}, n, own \cup B, Y)
      /\ Open(d) /\ At(d) = body
  <2>1. PICK Q, all : Q = P \ {o} /\ all = own \cup B
    OBVIOUS
  <2>2. /\ Walk(c1, Q, n, all, X) /\ Open(c1) /\ T \subseteq all
        /\ Arrives(c1, X) => T \subseteq X \cup Q
        /\ body \in Q
    BY <1>6, <1>8, <2>1
  <2>3. /\ Walk(Place(End(c1, T), body), Q \ {body}, n, all, Onto(c1, X, T))
        /\ Open(Place(End(c1, T), body)) /\ At(Place(End(c1, T), body)) = body
    BY <2>2, JumpWalk
  <2> QED
    BY <1>7, <2>1, <2>3
<1>10. Arrives(c1, X) <=> f.entry
  BY <1>2, <1>3, <1>6 DEF Arrives
<1>11. \A x : x \in Y <=> \/ x \in Got \/ (x = a /\ live)
                          \/ x \in T /\ f.entry
  BY <1>2, <1>7, <1>10 DEF Onto
<1>12. /\ body \in Y <=> f.entry
       /\ following \in Y <=> f.entry /\ following \in T
       /\ a \in Y <=> f.out \/ live
       /\ following # t => t \notin Y
  <2>1. body \notin Got /\ body # a /\ following \notin Got /\ following # a
    BY <1>1, <1>3, <1>4
  <2>2. a \notin T /\ (following # t => t \notin T)
    BY <1>3, <1>4
  <2> QED
    BY <1>3, <1>11, <2>1, <2>2
<1>13. live' <=> Arrives(d, Y)
  BY <1>9, <1>12 DEF Arrives
<1>14. Alike(m, Awaits(f), Got, Y)
  BY <1>3, <1>4, <1>11 DEF Alike
<1>15. PICK w : w = [g EXCEPT !.out = g.out \/ live]
  OBVIOUS
<1>16. /\ g.kind = "arm" /\ g.after = a /\ g.continue = t
       /\ g.other = following
  BY <1>2 DEF IsArm
<1>17. Led(w, Y)
  <2>1. /\ g.after \in Y <=> g.out \/ live
        /\ g.other \in Y <=> g.entry
        /\ g.other # g.continue => g.continue \notin Y
    BY <1>12, <1>16
  <2> QED
    BY <1>1, <1>15, <1>16, <2>1, LedPart
<1>18. Awaits(g) \subseteq Awaits(f) \cup B /\ g.kind \notin Loops
  BY <1>2, <1>3, <1>4 DEF Awaits, IsArm, Loops
<1>19. Emit(d)
  BY <1>2, <1>5, <1>7
<1> QED
  BY <1>9, <1>13, <1>14, <1>15, <1>17, <1>18, <1>19, GoesOnPaths

LEMMA NextArmPaths == ASSUME Going, NextArm PROVE Kept'
<1>1. PICK f : f = Top
  OBVIOUS
<1>2. PICK last \in BOOLEAN, always \in BOOLEAN :
        LET body      == Id(cg, 1)
            following == IF last THEN Top.continue ELSE Id(cg, 2)
            c         == New(EndOpen(cg, {Top.after}), IF last THEN 1 ELSE 2)
        IN  /\ Inside("arm") /\ Top.other # Top.continue
            /\ Emit(Arm(c, Top.other, body, following, always)) /\ Checked
            /\ NextPart([Top EXCEPT !.other = following,
                                    !.entry = @ /\ ~always], Top.entry)
  BY DEF NextArm
<1>3. f.kind = "arm" /\ f.kind # "function" /\ f.other # f.continue
  BY <1>1, <1>2 DEF Inside
<1>4. PICK W, L, m, own : Finishing(f, W, L, m, own)
  BY <1>1, <1>3, EndsPath
<1>5. /\ Walk(cg, W \cup L, m, own, Got) /\ (live <=> Arrives(cg, Got))
      /\ fn \in Nat \ {0} /\ m \in Nat /\ own \subseteq 1..m
      /\ f \in Frames /\ f.after \in own /\ f.continue \in own
      /\ Awaits(f) \subseteq W /\ live \in BOOLEAN
  BY <1>3, <1>4 DEF Finishing
<1>6. PICK a, t : a = f.after /\ t = f.continue
  OBVIOUS
<1>7. PICK e, X : e = EndOpen(cg, {a}) /\ X = Onto(cg, Got, {a})
  OBVIOUS
<1>8. {a} \subseteq own /\ {a} \subseteq Got \cup (W \cup L)
  BY <1>3, <1>5, <1>6 DEF Awaits
<1>9. Walk(e, W \cup L, m, own, X) /\ ~Open(e)
  BY <1>5, <1>7, <1>8, EndOpenWalk
<1>10. \A x : x \in X <=> x \in Got \/ (x = f.after /\ live)
  BY <1>5, <1>6, <1>7 DEF Onto
<1>11. PICK body : body = m + 1
  OBVIOUS
<1>12. /\ Id(cg, 1) = body /\ Id(cg, 2) = m + 2 /\ body \notin 1..m
       /\ body \in Nat
  BY <1>5, <1>11, WalkFacts DEF Size, Id
<1>13. live' = f.entry
  BY <1>1, <1>2 DEF NextPart
<1>14. CASE last
  <2>1. PICK n, B, following, T :
          /\ n = m + 1 /\ B = {body} /\ following = t
          /\ T = IF always THEN {body} ELSE {body, following}
    OBVIOUS
  <2>2. PICK c : c = New(e, 1)
    OBVIOUS
  <2>3. Walk(c, (W \cup L) \cup B, n, own \cup B, X) /\ ~Open(c)
    BY <1>5, <1>9, <1>11, <2>1, <2>2, WalkOne
  <2>4. PICK g : g = [f EXCEPT !.other = following,
                               !.entry = f.entry /\ ~always]
    OBVIOUS
  <2>5. /\ following # body /\ T \subseteq {body, following} /\ body \in T
        /\ following \in T <=> ~always
    BY <1>5, <1>6, <1>12, <2>1
  <2>6. /\ g \in Frames /\ IsArm(g, f.after, f.continue, following)
        /\ g.entry <=> f.entry /\ following \in T
        /\ g.out = f.out
    BY <1>3, <1>5, <1>6, <2>1, <2>4, <2>5 DEF Frames, IsArm
  <2>7. GoesOn(g)
    BY <1>1, <1>2, <1>5, <1>6, <1>14, <2>1, <2>4
       DEF NextPart, GoesOn, Frames
  <2>8. Emit(Place(End(Place(c, f.other), T), body))
    BY <1>1, <1>2, <1>6, <1>7, <1>12, <1>14, <2>1, <2>2 DEF Arm
  <2>9. /\ n \in Nat /\ m <= n /\ B \subseteq m + 1 .. n /\ body \in B
        /\ B = {body} /\ following = f.continue
    BY <1>5, <1>6, <1>11, <2>1
  <2> QED
    BY <1>1, <1>3, <1>4, <1>10, <1>13, <2>3, <2>5, <2>6, <2>7, <2>8, <2>9,
       ArmPaths
<1>15. CASE ~last
  <2>1. PICK n, following, B, T :
          /\ n = m + 2 /\ following = m + 2 /\ B = {body, following}
          /\ T = IF always THEN {body} ELSE {body, following}
    OBVIOUS
  <2>2. PICK c : c = New(e, 2)
    OBVIOUS
  <2>3. Walk(c, (W \cup L) \cup B, n, own \cup B, X) /\ ~Open(c)
    BY <1>5, <1>9, <1>11, <2>1, <2>2, WalkTwo
  <2>4. PICK g : g = [f EXCEPT !.other = following,
                               !.entry = f.entry /\ ~always]
    OBVIOUS
  <2>5. /\ following # body /\ T \subseteq {body, following} /\ body \in T
        /\ following \in T <=> ~always
        /\ following \in Nat
    BY <1>5, <1>11, <2>1
  <2>6. /\ g \in Frames /\ IsArm(g, f.after, f.continue, following)
        /\ g.entry <=> f.entry /\ following \in T
        /\ g.out = f.out
    BY <1>3, <1>5, <2>4, <2>5 DEF Frames, IsArm
  <2>7. GoesOn(g)
    BY <1>1, <1>2, <1>5, <1>12, <1>15, <2>1, <2>4
       DEF NextPart, GoesOn, Frames
  <2>8. Emit(Place(End(Place(c, f.other), T), body))
    BY <1>1, <1>2, <1>6, <1>7, <1>12, <1>15, <2>1, <2>2 DEF Arm
  <2>9. /\ n \in Nat /\ m <= n /\ B \subseteq m + 1 .. n /\ body \in B
        /\ B = {body, following}
    BY <1>5, <1>11, <2>1
  <2> QED
    BY <1>1, <1>3, <1>4, <1>10, <1>13, <2>3, <2>5, <2>6, <2>7, <2>8, <2>9,
       ArmPaths
<1> QED
  BY <1>14, <1>15

\* A catch.  What has led to the dispatch block leads to c too, and the blocks
\* D, which the construct has waited for, are reached if the last part is left.
LEMMA CatchPaths ==
  ASSUME Going, NEW f, f = Top, f.kind \in {"try", "catch"},
         NEW W, NEW L, NEW m, NEW own, Finishing(f, W, L, m, own),
         NEW c, NEW n, NEW all, NEW body, NEW rest,
         CatchBlocks(m, own, n, all, body, rest),
         NEW P, {body, rest} \subseteq P,
         NEW X, Walk(c, P, n, all, X), Open(c), At(c) = f.other,
         NEW D, D \subseteq Awaits(f) \ {f.other}, f.after \in D,
         \A x : x \in X <=> x \in Got \/ (x \in D /\ live),
         NEW T, T \subseteq {body, rest}, body \in T,
         NEW g \in Frames, IsCatch(g, f.after, f.continue, rest), GoesOn(g),
         g.entry <=> f.entry /\ rest \in T, g.out = f.out,
         live' = f.entry,
         Emit(MoveTo(End(c, T), body, rest))
  PROVE  Kept'
<1>1. /\ m \in Nat /\ own \subseteq 1..m /\ Got \subseteq 1..m
      /\ f \in Frames /\ Led(f, Got) /\ W \subseteq own
      /\ Apart(f) /\ Awaits(f) \subseteq W /\ live \in BOOLEAN
  BY DEF Finishing
<1>2. PICK a, o : a = f.after /\ o = f.other
  OBVIOUS
<1>3. /\ (a \in Got <=> f.out) /\ (o \in Got <=> f.entry)
      /\ a \in Awaits(f) /\ o \in Awaits(f)
  BY <1>1, <1>2 DEF Awaits, Led
<1>4. /\ n \in Nat /\ m <= n /\ {body, rest} \subseteq m + 1 .. n
      /\ body \in 1..n /\ rest \in 1..n
      /\ body \notin 1..m /\ rest \notin 1..m
      /\ all = own \cup {body, rest}
  BY <1>1 DEF CatchBlocks
<1>5. Awaits(f) \subseteq 1..m
  BY <1>1
<1>6. /\ body \notin Got /\ rest \notin Got /\ body \notin D /\ rest \notin D
      /\ a \notin {body, rest} /\ o \notin D
  BY <1>1, <1>2, <1>3, <1>4, <1>5
<1>7. PICK e, Y : e = End(c, T) /\ Y = Onto(c, X, T)
  OBVIOUS
<1>8. T \subseteq all /\ T \subseteq X \cup P
  BY <1>4
<1>9. Walk(e, P, n, all, Y) /\ ~Open(e)
  BY <1>7, <1>8, EndWalk
<1>10. PICK d : d = MoveTo(e, body, rest)
  OBVIOUS
<1>11. Walk(d, P \ {body}, n, all, Y) /\ Open(d) /\ At(d) = body
  BY <1>4, <1>9, <1>10, MoveWalk
<1>12. Arrives(c, X) <=> f.entry
  BY <1>2, <1>3, <1>6 DEF Arrives
<1>13. \A x : x \in Y <=> \/ x \in Got \/ (x \in D /\ live)
                          \/ x \in T /\ f.entry
  BY <1>7, <1>12 DEF Onto
<1>14. /\ body \in Y <=> f.entry
       /\ rest \in Y <=> f.entry /\ rest \in T
       /\ a \in Y <=> f.out \/ live
  BY <1>2, <1>3, <1>6, <1>13
<1>15. live' <=> Arrives(d, Y)
  BY <1>11, <1>14 DEF Arrives
<1>16. Alike(m, Awaits(f), Got, Y)
  BY <1>4, <1>13 DEF Alike
<1>17. PICK w : w = [g EXCEPT !.out = g.out \/ live]
  OBVIOUS
<1>18. g.kind = "catch" /\ g.after = a /\ g.other = rest
  BY <1>2 DEF IsCatch
<1>19. Led(w, Y)
  <2>1. /\ g.after \in Y <=> g.out \/ live
        /\ g.other \in Y <=> g.entry
    BY <1>14, <1>18
  <2> QED
    BY <1>1, <1>17, <1>18, <2>1, LedPart
<1>20. PICK B : B = {body, rest}
  OBVIOUS
<1>21. /\ Walk(d, P \ {body}, n, own \cup B, Y) /\ B \subseteq m + 1 .. n
       /\ Emit(d)
  BY <1>4, <1>7, <1>10, <1>11, <1>20
<1>22. Awaits(g) \subseteq Awaits(f) \cup B /\ g.kind \notin Loops
  BY <1>2, <1>3, <1>20 DEF Awaits, IsCatch, Loops
<1> QED
  BY <1>4, <1>15, <1>16, <1>17, <1>19, <1>21, <1>22, GoesOnPaths

LEMMA BeginCatchPaths == ASSUME Going, BeginCatch PROVE Kept'
<1>1. PICK f : f = Top
  OBVIOUS
<1>2. PICK any \in BOOLEAN :
        LET finally == End(Place(EndOpen(cg, {Top.continue}), Top.continue),
                           {Top.after})
        IN  /\ Inside("try")
            /\ Emit(Catch(Place(finally, Top.other), Top.other, any))
            /\ Checked
            /\ NextPart([Top EXCEPT !.kind = "catch", !.other = Len(blocks) + 2,
                                    !.entry = @ /\ ~any], Top.entry)
  BY DEF BeginCatch
<1>3. f.kind = "try" /\ f.kind # "function"
  BY <1>1, <1>2 DEF Inside
<1>4. PICK W, L, m, own : Finishing(f, W, L, m, own)
  BY <1>1, <1>3, EndsPath
<1>5. /\ Walk(cg, W \cup L, m, own, Got) /\ (live <=> Arrives(cg, Got))
      /\ fn \in Nat \ {0} /\ m \in Nat /\ own \subseteq 1..m
      /\ m = Len(blocks)
      /\ f \in Frames /\ Led(f, Got) /\ f.after \in own /\ f.other \in own
      /\ f.continue \in own
      /\ Apart(f) /\ Awaits(f) \subseteq W /\ live \in BOOLEAN
  BY <1>3, <1>4 DEF Finishing
<1>6. PICK a, o, t, P : /\ a = f.after /\ o = f.other /\ t = f.continue
                        /\ P = W \cup L
  OBVIOUS
<1>7. /\ Awaits(f) = {a, o, t} /\ a \in P /\ o \in P /\ t \in P
      /\ a \notin {o, t} /\ t # o /\ t \notin Got
  BY <1>3, <1>5, <1>6 DEF Awaits, Led, Apart
<1>8. PICK c1, X1 : /\ c1 = Place(EndOpen(cg, {t}), t)
                    /\ X1 = Onto(cg, Got, {t})
  OBVIOUS
<1>9. {t} \subseteq own /\ {t} \subseteq Got \cup P
  BY <1>5, <1>6, <1>7
<1>10. Walk(c1, P \ {t}, m, own, X1) /\ Open(c1) /\ At(c1) = t
  <2>1. Walk(cg, P, m, own, Got) /\ t \in P
    BY <1>5, <1>6, <1>7
  <2> QED
    BY <1>8, <1>9, <2>1, JumpOpenWalk
<1>11. \A x : x \in X1 <=> x \in Got \/ (x = t /\ live)
  BY <1>5, <1>8 DEF Onto
<1>12. PICK c2, X : c2 = Place(End(c1, {a}), o) /\ X = Onto(c1, X1, {a})
  OBVIOUS
<1>13. /\ {a} \subseteq own /\ {a} \subseteq X1 \cup (P \ {t})
       /\ o \in P \ {t}
  BY <1>5, <1>6, <1>7
<1>14. Walk(c2, (P \ {t}) \ {o}, m, own, X) /\ Open(c2) /\ At(c2) = o
  BY <1>10, <1>12, <1>13, JumpWalk
<1>15. PICK D : D = {a, t}
  OBVIOUS
<1>16. \A x : x \in X <=> x \in Got \/ (x \in D /\ live)
  <2>1. Arrives(c1, X1) <=> live
    BY <1>7, <1>10, <1>11 DEF Arrives
  <2> QED
    BY <1>11, <1>12, <1>15, <2>1 DEF Onto
<1>17. PICK body, rest, n, all, T, Q :
         /\ body = m + 1 /\ rest = m + 2 /\ n = m + 2
         /\ all = own \cup {body, rest}
         /\ T = IF any THEN {body} ELSE {body, rest}
         /\ Q = ((P \ {t}) \ {o}) \cup {body, rest}
  OBVIOUS
<1>18. PICK c : c = New(c2, 2)
  OBVIOUS
<1>19. Walk(c, Q, n, all, X) /\ Open(c) /\ At(c) = o
  BY <1>5, <1>14, <1>17, <1>18, WalkTwo
<1>20. /\ T \subseteq {body, rest} /\ body \in T /\ (rest \in T <=> ~any)
       /\ CatchBlocks(m, own, n, all, body, rest) /\ rest \in Nat
       /\ {body, rest} \subseteq Q
  BY <1>5, <1>17 DEF CatchBlocks
<1>21. /\ D \subseteq Awaits(f) \ {f.other} /\ f.after \in D
       /\ At(c) = f.other /\ f.kind \in {"try", "catch"}
  BY <1>3, <1>6, <1>7, <1>15, <1>19
<1>22. PICK g : g = [f EXCEPT !.kind = "catch", !.other = rest,
                              !.entry = f.entry /\ ~any]
  OBVIOUS
<1>23. /\ g \in Frames /\ IsCatch(g, f.after, f.continue, rest)
       /\ g.entry <=> f.entry /\ rest \in T
       /\ g.out = f.out
  BY <1>5, <1>20, <1>22 DEF Frames, Kinds, IsCatch
<1>24. GoesOn(g) /\ live' = f.entry
  BY <1>1, <1>2, <1>5, <1>17, <1>22 DEF NextPart, GoesOn, Frames
<1>25. Emit(MoveTo(End(c, T), body, rest))
  <2>1. Id(c2, 1) = body /\ Id(c2, 2) = rest
    BY <1>14, <1>17, WalkFacts DEF Size, Id
  <2>2. c = [c EXCEPT !.at = o]
    <3>1. c = [blocks |-> c.blocks, at |-> c.at, back |-> c.back]
      BY <1>19, WalkFacts, CodeFacts
    <3>2. c.at = o
      BY <1>19 DEF At
    <3> QED
      BY <3>1, <3>2
  <2>3. Emit(Catch(c2, o, any))
    BY <1>1, <1>2, <1>6, <1>8, <1>12
  <2>4. Catch(c2, o, any) = [End([c EXCEPT !.at = o], T)
                               EXCEPT !.at = body, !.back = rest]
    BY <1>17, <1>18, <2>1 DEF Catch
  <2> QED
    BY <2>2, <2>3, <2>4 DEF MoveTo
<1> QED
  BY <1>1, <1>4, <1>16, <1>19, <1>20, <1>21, <1>23, <1>24, <1>25, CatchPaths

LEMMA NextCatchPaths == ASSUME Going, NextCatch PROVE Kept'
<1>1. PICK f : f = Top
  OBVIOUS
<1>2. PICK any \in BOOLEAN :
        /\ Inside("catch")
        /\ Emit(Catch(EndOpen(cg, {Top.after}), Top.other, any)) /\ Checked
        /\ NextPart([Top EXCEPT !.other = Len(blocks) + 2,
                                !.entry = @ /\ ~any], Top.entry)
  BY DEF NextCatch
<1>3. f.kind = "catch" /\ f.kind # "function"
  BY <1>1, <1>2 DEF Inside
<1>4. PICK W, L, m, own : Finishing(f, W, L, m, own)
  BY <1>1, <1>3, EndsPath
<1>5. /\ Walk(cg, W \cup L, m, own, Got) /\ (live <=> Arrives(cg, Got))
      /\ fn \in Nat \ {0} /\ m \in Nat /\ own \subseteq 1..m
      /\ m = Len(blocks)
      /\ f \in Frames /\ f.after \in own /\ f.other \in own
      /\ Apart(f) /\ Awaits(f) \subseteq W /\ live \in BOOLEAN
  BY <1>3, <1>4 DEF Finishing
<1>6. PICK a, o, P, D : /\ a = f.after /\ o = f.other
                        /\ P = W \cup L /\ D = {a}
  OBVIOUS
<1>7. Awaits(f) = {a, o} /\ a \in P /\ o \in P /\ a # o
  BY <1>3, <1>5, <1>6 DEF Awaits, Apart
<1>8. PICK e, X : e = EndOpen(cg, {a}) /\ X = Onto(cg, Got, {a})
  OBVIOUS
<1>9. {a} \subseteq own /\ {a} \subseteq Got \cup P
  BY <1>5, <1>6, <1>7
<1>10. Walk(e, P, m, own, X) /\ ~Open(e)
  BY <1>5, <1>6, <1>8, <1>9, EndOpenWalk
<1>11. \A x : x \in X <=> x \in Got \/ (x \in D /\ live)
  BY <1>5, <1>6, <1>8 DEF Onto
<1>12. PICK body, rest, n, all, T, Q :
         /\ body = m + 1 /\ rest = m + 2 /\ n = m + 2
         /\ all = own \cup {body, rest}
         /\ T = IF any THEN {body} ELSE {body, rest}
         /\ Q = P \cup {body, rest}
  OBVIOUS
<1>13. PICK c2, l : c2 = New(e, 2) /\ l = c2.back
  OBVIOUS
<1>14. Walk(c2, Q, n, all, X) /\ ~Open(c2)
  BY <1>5, <1>10, <1>12, <1>13, WalkTwo
<1>15. l \in 1..n /\ c2 = [blocks |-> c2.blocks, at |-> c2.at, back |-> c2.back]
  BY <1>13, <1>14, WalkFacts, CodeFacts DEF Size
<1>16. PICK c : c = MoveTo(c2, o, l)
  OBVIOUS
<1>17. Walk(c, Q \ {o}, n, all, X) /\ Open(c) /\ At(c) = o
  <2>1. o \in Q
    BY <1>7, <1>12
  <2> QED
    BY <1>14, <1>15, <1>16, <2>1, MoveWalk
<1>18. /\ T \subseteq {body, rest} /\ body \in T /\ (rest \in T <=> ~any)
       /\ CatchBlocks(m, own, n, all, body, rest) /\ rest \in Nat
  BY <1>5, <1>12 DEF CatchBlocks
<1>19. {body, rest} \subseteq Q \ {o}
  BY <1>5, <1>6, <1>12
<1>20. /\ D \subseteq Awaits(f) \ {f.other} /\ f.after \in D
       /\ At(c) = f.other /\ f.kind \in {"try", "catch"}
  BY <1>3, <1>6, <1>7, <1>17
<1>21. PICK g : g = [f EXCEPT !.other = rest, !.entry = f.entry /\ ~any]
  OBVIOUS
<1>22. /\ g \in Frames /\ IsCatch(g, f.after, f.continue, rest)
       /\ g.entry <=> f.entry /\ rest \in T
       /\ g.out = f.out
  BY <1>3, <1>5, <1>18, <1>21 DEF Frames, IsCatch
<1>23. GoesOn(g) /\ live' = f.entry
  BY <1>1, <1>2, <1>5, <1>12, <1>21 DEF NextPart, GoesOn, Frames
<1>24. Emit(MoveTo(End(c, T), body, rest))
  <2>1. Id(e, 1) = body /\ Id(e, 2) = rest
    BY <1>10, <1>12, WalkFacts DEF Size, Id
  <2>2. c = [c2 EXCEPT !.at = o]
    BY <1>13, <1>15, <1>16 DEF MoveTo
  <2>3. Emit(Catch(e, o, any))
    BY <1>1, <1>2, <1>6, <1>8
  <2>4. Catch(e, o, any) = [End([c2 EXCEPT !.at = o], T)
                              EXCEPT !.at = body, !.back = rest]
    BY <1>12, <1>13, <2>1 DEF Catch
  <2> QED
    BY <2>2, <2>3, <2>4 DEF MoveTo
<1> QED
  BY <1>1, <1>4, <1>11, <1>17, <1>18, <1>19, <1>20, <1>22, <1>23, <1>24,
     CatchPaths

----------------------------------------------------------------------------
(* goto and labels: the label's block changes, the handlers do not.        *)

LEMMA LeapPaths ==
  ASSUME Going, NEW W, NEW L, NEW m, NEW own,
         Starts(Ready, W, L, "sound", m, own),
         NEW d, NEW Q, NEW n, NEW all, NEW Y, Walk(d, Q, n, all, Y),
         Grows(m, own, n, all), Emit(d), fn' = fn, open' = open,
         live' <=> Arrives(d, Y),
         NEW A, A \subseteq L, Alike(m, A, Got, Y),
         NEW M, M = {b \in all : b = label' /\ ~defined'},
         \A x \in M : x \in L \/ x > m,
         label' \in all, label' \notin W, label' \in Y <=> arrived'
  PROVE  Kept'
<1>1. /\ Typed(d) /\ Size(d) = n /\ OwnIn(d) = all /\ Walks(d, Y)
  BY WalkFacts DEF Walk
<1>2. cg' = d /\ OwnIn(cg)' = all
  BY <1>1, Emitted
<1>3. Got' = Y
  <2>1. First(cg)' = First(d)
    BY <1>1, <1>2 DEF First
  <2>2. Got' = From(d, First(d))
    BY <1>2, <2>1 DEF Got, From, Closed, Size, NextOf, BlockOf
  <2> QED
    BY <1>1, <2>2 DEF Walks
<1>4. LabelWaits' = M
  BY <1>2 DEF LabelWaits
<1>5. /\ m \in Nat /\ W = Waiting(open, Len(open)) /\ W \cap L = {}
      /\ \A i \in 1..Len(open) :
           /\ open[i] \in Frames /\ RemembersMade(open[i], m)
           /\ Awaits(open[i]) \subseteq W /\ Led(open[i], Got)
           /\ open[i].kind \in Loops =>
                open[i].other \notin W \cup L /\ open[i].other \in 1..m
  BY GoingFacts
<1>6. Waiting(open, Len(open))' = W
  BY <1>5 DEF Waiting
<1>7. ASSUME NEW i \in 1..Len(open)
      PROVE  /\ Led(open[i], Y)
             /\ open[i].kind \in Loops => open[i].other \notin W \cup M
  <2>1. PICK f : f = open[i]
    OBVIOUS
  <2>2. /\ f \in Frames /\ RemembersMade(f, m) /\ Awaits(f) \cap A = {}
        /\ Led(f, Got)
    BY <1>5, <2>1
  <2>3. f.kind \in Loops => f.other \notin W \cup L /\ f.other \in 1..m
    BY <1>5, <2>1
  <2>4. f.kind \in Loops => f.other \notin A
    BY <2>3
  <2>5. Led(f, Y)
    BY <1>5, <2>2, <2>4, OtherLed
  <2>6. f.kind \in Loops => ~(f.other > m)
    BY <1>5, <2>3
  <2>7. f.kind \in Loops => f.other \notin W \cup M
    BY <2>3, <2>6
  <2> QED
    BY <2>1, <2>5, <2>7
<1>8. \A i \in 1..Len(open') : Led(open'[i], Got')
  BY <1>3, <1>7
<1>9. HeadsPlaced'
  BY <1>4, <1>6, <1>7 DEF HeadsPlaced
<1>10. Quiet(cg)'
  BY <1>1, <1>2 DEF Walks, Quiet, BlockOf, Size, NextOf
<1>11. live' <=> Arrives(cg, Got)'
  BY <1>2, <1>3 DEF Arrives, At, Open
<1>12. (label' \in Got' <=> arrived') /\ label' \notin Waiting(open, Len(open))'
  BY <1>3, <1>6
<1>13. used' => label' \in OwnIn(cg)'
  BY <1>2
<1> QED
  BY <1>8, <1>9, <1>10, <1>11, <1>12, <1>13 DEF Kept

\* What the label has to do with what is reached.
LEMMA LabelPath ==
  ASSUME Going, ~Foreign, NEW W, NEW L, NEW m, NEW own,
         Beginning(W, L, m, own)
  PROVE  /\ label \in 0..m /\ arrived \in BOOLEAN
         /\ label = 0 => L = {} /\ ~defined /\ ~arrived
         /\ label # 0 => /\ label \in own /\ label \notin W
                         /\ label \in Got <=> arrived
         /\ label # 0 /\ ~defined => L = {label}
<1>1. Starts(Ready, W, L, "sound", m, own) /\ WInv /\ Kept /\ SInv
  BY DEF Beginning, Going
<1>2. /\ label \in 0..m
      /\ label = 0 => L = {} /\ ~defined
      /\ label # 0 => label \in own
      /\ label # 0 /\ ~defined => L = {label}
  BY <1>1, OwnLabel
<1>3. /\ W = Waiting(open, Len(open)) /\ Len(blocks) \in Nat
      /\ own \cap (1..Len(blocks)) = OwnIn(cg)
  <2>1. W = Waiting(open, Len(open))
    BY <1>1, GoingFacts
  <2> QED
    BY <1>1, <2>1 DEF Starts
<1>4. label \in 0..Len(blocks) /\ arrived \in BOOLEAN
  BY <1>1 DEF WInv, TInv
<1>5. label # 0 => label \in OwnIn(cg)
  <2>1. label # 0 => label \in 1..Len(blocks)
    BY <1>3, <1>4
  <2> QED
    BY <1>2, <1>3, <2>1
<1>6. label # 0 => label \notin W /\ (label \in Got <=> arrived)
  BY <1>1, <1>3, <1>5 DEF Kept
<1>7. label = 0 => ~arrived
  <2>1. label = 0 => label \notin OwnIn(cg)
    BY <1>3
  <2>2. label = 0 => ~used
    BY <1>1, <2>1 DEF Kept
  <2>3. arrived /\ ~defined => used
    BY <1>1 DEF SInv, GotosSeen
  <2> QED
    BY <1>2, <2>2, <2>3
<1> QED
  BY <1>2, <1>4, <1>6, <1>7

LEMMA GotoPaths ==
  ASSUME Going, Goto, ~careless', ~revived'
  PROVE  Kept'
<1>1. /\ fn' = fn /\ open' = open /\ defined' = defined /\ ~Foreign
      /\ live' = FALSE /\ arrived' = (arrived \/ live)
      /\ defined /\ live => arrived
  BY DEF Goto
<1>2. PICK W, L, m, own : Beginning(W, L, m, own)
  BY BeginsPath
<1>3. PICK P : P = W \cup L
  OBVIOUS
<1>4. /\ Starts(Ready, W, L, "sound", m, own) /\ Open(Ready)
      /\ Walk(Ready, P, m, own, Got) /\ (live <=> At(Ready) \in Got)
      /\ fn \in Nat \ {0} /\ m \in Nat /\ own \subseteq 1..m
      /\ W \subseteq own /\ L \subseteq own /\ Got \subseteq 1..m
      /\ Id(Ready, 1) = m + 1 /\ live \in BOOLEAN
  BY <1>2, <1>3 DEF Beginning
<1>5. /\ label \in 0..m /\ arrived \in BOOLEAN
      /\ label = 0 => L = {} /\ ~defined /\ ~arrived
      /\ label # 0 => /\ label \in own /\ label \notin W
                      /\ label \in Got <=> arrived
      /\ label # 0 /\ ~defined => L = {label}
  BY <1>1, <1>2, LabelPath
<1>6. CASE label # 0
  <2>1. PICK d, T, Y : /\ d = End(Ready, {label}) /\ T = {label}
                       /\ Y = Onto(Ready, Got, {label})
    OBVIOUS
  <2>2. Emit(d) /\ label' = label
    BY <1>6, <2>1 DEF Goto
  <2>3. T \subseteq own
    BY <1>5, <1>6, <2>1
  <2>4. Arrives(Ready, Got) => T \subseteq Got \cup P
    BY <1>1, <1>3, <1>4, <1>5, <1>6, <2>1 DEF Arrives
  <2>5. Walk(End(Ready, T), P, m, own, Onto(Ready, Got, T))
        /\ ~Open(End(Ready, T))
    BY <1>4, <2>3, <2>4, EndWalk
  <2>6. Walk(d, P, m, own, Y) /\ ~Open(d)
    BY <2>1, <2>5
  <2>7. Grows(m, own, m, own)
    BY <1>4, GrowsNot
  <2>8. live' <=> Arrives(d, Y)
    BY <1>1, <2>6 DEF Arrives
  <2>9. L = {b \in own : b = label' /\ ~defined'}
    BY <1>1, <1>4, <2>2, LabelStays DEF Going
  <2>10. \A x : x \in Y <=> x \in Got \/ (x = label /\ live)
    BY <1>4, <2>1 DEF Onto, Arrives
  <2>11. Alike(m, L, Got, Y)
    <3>1. ASSUME NEW x \in 1..m, x \notin L PROVE x \in Y <=> x \in Got
      BY <1>1, <1>5, <1>6, <2>10, <3>1
    <3> QED
      BY <3>1 DEF Alike
  <2>12. label' \in own /\ label' \notin W /\ (label' \in Y <=> arrived')
    BY <1>1, <1>5, <1>6, <2>2, <2>10
  <2>13. \A x \in L : x \in L \/ x > m
    OBVIOUS
  <2> QED
    BY <1>1, <1>4, <2>2, <2>6, <2>7, <2>8, <2>9, <2>11, <2>12, <2>13,
       LeapPaths
<1>7. CASE label = 0
  <2>1. PICK b, n, all, R, T : /\ b = m + 1 /\ n = m + 1 /\ T = {b}
                               /\ all = own \cup {b} /\ R = P \cup {b}
    OBVIOUS
  <2>2. PICK c, e, d : /\ c = New(Ready, 1) /\ e = [c EXCEPT !.back = b]
                       /\ d = End(e, T)
    OBVIOUS
  <2>3. Emit(d) /\ label' = b
    BY <1>4, <1>7, <2>1, <2>2 DEF Goto
  <2>4. Walk(c, R, n, all, Got) /\ Open(c) /\ At(c) = At(Ready)
    BY <1>4, <2>1, <2>2, WalkOne
  <2>5. b \in 1..n /\ n \in Nat /\ m <= n /\ b > m /\ b \notin Got /\ b \notin W
    BY <1>4, <2>1
  <2>6. Walk(e, R, n, all, Got) /\ Open(e) /\ At(e) = At(Ready)
    BY <2>2, <2>4, <2>5, BackWalk
  <2>7. T \subseteq all /\ T \subseteq Got \cup R
    BY <2>1
  <2>8. Walk(End(e, T), R, n, all, Onto(e, Got, T)) /\ ~Open(End(e, T))
    BY <2>6, <2>7, EndWalk
  <2>9. PICK Y : Y = Onto(e, Got, T)
    OBVIOUS
  <2>10. Walk(d, R, n, all, Y) /\ ~Open(d)
    BY <2>2, <2>8, <2>9
  <2>11. Grows(m, own, n, all)
    <3>1. {b} \subseteq m + 1 .. n
      BY <2>1, <2>5
    <3>2. Grows(m, own, n, own \cup {b})
      BY <1>4, <2>5, <3>1, GrowsBy
    <3> QED
      BY <2>1, <3>2
  <2>12. live' <=> Arrives(d, Y)
    BY <1>1, <2>10 DEF Arrives
  <2>13. \A x : x \in Y <=> x \in Got \/ (x = b /\ live)
    BY <1>4, <2>1, <2>6, <2>9 DEF Onto, Arrives
  <2>14. Alike(m, {}, Got, Y)
    <3>1. \A x \in 1..m : x # b
      BY <1>4, <2>1
    <3> QED
      BY <2>13, <3>1 DEF Alike
  <2>15. PICK M, A : M = {x \in all : x = label' /\ ~defined'} /\ A = {}
    OBVIOUS
  <2>16. \A x \in M : x \in L \/ x > m
    BY <2>3, <2>5, <2>15
  <2>17. label' \in all /\ label' \notin W /\ (label' \in Y <=> arrived')
    BY <1>1, <1>5, <1>7, <2>1, <2>3, <2>5, <2>13
  <2>18. A \subseteq L /\ Alike(m, A, Got, Y)
    BY <2>14, <2>15
  <2> QED
    BY <1>1, <1>4, <2>3, <2>10, <2>11, <2>12, <2>15, <2>16, <2>17, <2>18,
       LeapPaths
<1> QED
  BY <1>6, <1>7

LEMMA LabelPaths ==
  ASSUME Going, Label, ~careless'
  PROVE  Kept'
<1>1. /\ fn' = fn /\ open' = open /\ defined' = TRUE /\ ~Foreign /\ ~defined
      /\ live' = (live \/ arrived) /\ arrived' = live'
  BY DEF Label
<1>2. PICK W, L, m, own : Beginning(W, L, m, own)
  BY BeginsPath
<1>3. PICK P : P = W \cup L
  OBVIOUS
<1>4. /\ Starts(Ready, W, L, "sound", m, own) /\ Open(Ready)
      /\ Walk(Ready, P, m, own, Got) /\ (live <=> At(Ready) \in Got)
      /\ fn \in Nat \ {0} /\ m \in Nat /\ own \subseteq 1..m
      /\ W \subseteq own /\ L \subseteq own /\ Got \subseteq 1..m
      /\ Id(Ready, 1) = m + 1 /\ live \in BOOLEAN
  BY <1>2, <1>3 DEF Beginning
<1>5. /\ label \in 0..m /\ arrived \in BOOLEAN
      /\ label = 0 => L = {} /\ ~arrived
      /\ label # 0 => /\ label \in own /\ label \notin W /\ L = {label}
                      /\ label \in Got <=> arrived
  BY <1>1, <1>2, LabelPath
<1>6. \A X : {} = {x \in X : x = label' /\ ~defined'}
  BY <1>1
<1>7. CASE label = 0
  <2>1. PICK b, n, all, R, T : /\ b = m + 1 /\ n = m + 1 /\ T = {b}
                               /\ all = own \cup {b} /\ R = P \cup {b}
    OBVIOUS
  <2>2. PICK c, d, Y : /\ c = New(Ready, 1) /\ d = Place(EndOpen(c, T), b)
                       /\ Y = Onto(c, Got, T)
    OBVIOUS
  <2>3. Emit(d) /\ label' = b
    BY <1>4, <1>7, <2>1, <2>2 DEF Label
  <2>4. Walk(c, R, n, all, Got) /\ Open(c) /\ At(c) = At(Ready)
    BY <1>4, <2>1, <2>2, WalkOne
  <2>5. b \in 1..n /\ n \in Nat /\ m <= n /\ b > m /\ b \notin Got /\ b \notin W
    BY <1>4, <2>1
  <2>6. /\ T \subseteq all /\ b \in R
        /\ Arrives(c, Got) => T \subseteq Got \cup R
    BY <2>1
  <2>7. /\ Walk(Place(EndOpen(c, T), b), R \ {b}, n, all, Onto(c, Got, T))
        /\ Open(Place(EndOpen(c, T), b)) /\ At(Place(EndOpen(c, T), b)) = b
    BY <2>4, <2>6, JumpOpenWalk
  <2>8. Walk(d, R \ {b}, n, all, Y) /\ Open(d) /\ At(d) = b
    BY <2>2, <2>7
  <2>9. Grows(m, own, n, all)
    <3>1. {b} \subseteq m + 1 .. n
      BY <2>1, <2>5
    <3>2. Grows(m, own, n, own \cup {b})
      BY <1>4, <2>5, <3>1, GrowsBy
    <3> QED
      BY <2>1, <3>2
  <2>10. \A x : x \in Y <=> x \in Got \/ (x = b /\ live)
    BY <1>4, <2>1, <2>2, <2>4 DEF Onto, Arrives
  <2>11. live' <=> Arrives(d, Y)
    BY <1>1, <1>5, <1>7, <2>5, <2>8, <2>10 DEF Arrives
  <2>12. PICK M, A : M = {x \in all : x = label' /\ ~defined'} /\ A = {}
    OBVIOUS
  <2>13. M = {}
    BY <1>6, <2>12
  <2>14. A \subseteq L /\ Alike(m, A, Got, Y)
    <3>1. \A x \in 1..m : x # b
      BY <1>4, <2>1
    <3> QED
      BY <2>10, <2>12, <3>1 DEF Alike
  <2>15. label' \in all /\ label' \notin W /\ (label' \in Y <=> arrived')
    BY <1>1, <1>5, <1>7, <2>1, <2>3, <2>5, <2>10
  <2>16. \A x \in M : x \in L \/ x > m
    BY <2>13
  <2> QED
    BY <1>1, <1>4, <2>3, <2>8, <2>9, <2>11, <2>12, <2>14, <2>15, <2>16,
       LeapPaths
<1>8. CASE label # 0
  <2>1. PICK e, T, Y : /\ e = EndOpen(Ready, T) /\ T = {label}
                       /\ Y = Onto(Ready, Got, T)
    OBVIOUS
  <2>2. PICK l : l = e.back
    OBVIOUS
  <2>3. /\ T \subseteq own /\ label \in P
        /\ Arrives(Ready, Got) => T \subseteq Got \cup P
    BY <1>3, <1>5, <1>8, <2>1
  <2>4. Walk(EndOpen(Ready, T), P, m, own, Onto(Ready, Got, T))
        /\ ~Open(EndOpen(Ready, T))
    BY <1>4, <2>3, EndOpenWalk
  <2>5. Walk(e, P, m, own, Y) /\ ~Open(e)
    BY <2>1, <2>4
  <2>6. Typed(e) /\ Size(e) = m
    BY <2>5, WalkFacts
  <2>7. l \in 1..m
    BY <2>2, <2>6, CodeFacts DEF Size
  <2>8. PICK d : d = MoveTo(e, label, l)
    OBVIOUS
  <2>9. Walk(d, P \ {label}, m, own, Y) /\ Open(d) /\ At(d) = label
    BY <2>3, <2>5, <2>7, <2>8, MoveWalk
  <2>10. Ready.blocks[label].empty
    <3>1. Sound(Ready, P)
      BY <1>4, SoundSure DEF Walk, Stage, Good
    <3> QED
      BY <2>3, <3>1 DEF Sound
  <2>11. Emit(d) /\ label' = label
    <3>1. Emit([e EXCEPT !.at = label]) /\ label' = label
      BY <1>8, <2>1, <2>10 DEF Label
    <3>2. e = [blocks |-> e.blocks, at |-> e.at, back |-> e.back]
      BY <2>6, CodeFacts
    <3>3. [e EXCEPT !.at = label] = d
      BY <2>2, <2>8, <3>2 DEF MoveTo
    <3> QED
      BY <3>1, <3>3
  <2>12. \A x : x \in Y <=> x \in Got \/ (x = label /\ live)
    BY <1>4, <2>1 DEF Onto, Arrives
  <2>13. live' <=> Arrives(d, Y)
    BY <1>1, <1>5, <1>8, <2>9, <2>12 DEF Arrives
  <2>14. Alike(m, L, Got, Y)
    BY <1>5, <1>8, <2>12 DEF Alike
  <2>15. Grows(m, own, m, own)
    BY <1>4, GrowsNot
  <2>16. PICK M : M = {x \in own : x = label' /\ ~defined'}
    OBVIOUS
  <2>17. \A x \in M : x \in L \/ x > m
    BY <1>6, <2>16
  <2>18. label' \in own /\ label' \notin W /\ (label' \in Y <=> arrived')
    BY <1>1, <1>5, <1>8, <2>11, <2>12
  <2>19. L \subseteq L
    OBVIOUS
  <2> QED
    BY <1>1, <1>4, <2>9, <2>11, <2>13, <2>14, <2>15, <2>16, <2>17, <2>18,
       <2>19, LeapPaths
<1> QED
  BY <1>7, <1>8

----------------------------------------------------------------------------
(* A function begins: its first block is reached, and no other.            *)

LEMMA BeginFunctionPaths == ASSUME WInv, BeginFunction PROVE Kept'
<1>1. /\ insert' = Len(blocks') /\ live' = TRUE /\ arrived' = FALSE
      /\ used' = FALSE /\ fn' = fn + 1 /\ label' = IF label = 0 THEN 0 ELSE 1
      /\ open' = <<Frame("function", 0, 0, 0, FALSE)>>
  BY DEF BeginFunction
<1>2. PICK old : old = IF label = 0 THEN <<>>
                       ELSE <<[blocks[label] EXCEPT !.ends = 1, !.next = {},
                                                    !.entered = 0]>>
  OBVIOUS
<1>3. PICK x, n : x = Block(fn') /\ n = Len(old) + 1
  OBVIOUS
<1>4. blocks' = Append(old, x)
  BY <1>2, <1>3 DEF BeginFunction
<1>5. /\ fn \in Nat /\ BlocksTyped(blocks, fn) /\ label \in 0..Len(blocks)
  BY BoundsAssumption DEF WInv, TInv
<1>6. /\ old \in Seq(Blocks) /\ Len(old) = label'
      /\ \A b \in 1..Len(old) : /\ old[b].fn \in 1..fn /\ old[b].next = {}
  <2>1. CASE label = 0
    BY <1>1, <1>2, <2>1
  <2>2. CASE label # 0
    <3>1. PICK y : y = [blocks[label] EXCEPT !.ends = 1, !.next = {},
                                           !.entered = 0]
      OBVIOUS
    <3>2. blocks[label] \in Blocks /\ blocks[label].fn \in 1..fn
      BY <1>5, <2>2 DEF BlocksTyped
    <3>3. y \in Blocks /\ y.fn \in 1..fn /\ y.next = {}
      BY <3>1, <3>2 DEF Blocks
    <3>4. old = <<y>> /\ label' = 1
      BY <1>1, <1>2, <2>2, <3>1
    <3> QED
      BY <3>3, <3>4
  <2> QED
    BY <2>1, <2>2
<1>7. x \in Blocks /\ x.fn = fn' /\ x.ends = 0 /\ x.next = {}
  BY <1>1, <1>3, <1>5 DEF Block, Blocks
<1>8. /\ Len(blocks') = n /\ Len(old) \in Nat /\ blocks'[n] = x
      /\ \A b \in 1..Len(old) : blocks'[b] = old[b]
  BY <1>3, <1>4, <1>6, <1>7
<1>9. /\ n \in Nat /\ n \in 1..n
      /\ \A b \in 1..n : b = n \/ b \in 1..Len(old)
  BY <1>3, <1>8
<1>10. \A b \in 1..n : blocks'[b].next = {}
  BY <1>6, <1>7, <1>8, <1>9
<1>11. \A b \in 1..Len(old) : blocks'[b].fn # fn'
  BY <1>1, <1>5, <1>6, <1>8
<1>12. OwnIn(cg)' = {n}
  <2>1. OwnIn(cg)' = {b \in 1..n : blocks'[b].fn = fn'}
    BY <1>8 DEF OwnIn, cg
  <2> QED
    BY <1>7, <1>8, <1>9, <1>11, <2>1
<1>13. First(cg)' = {n}
  BY <1>9, <1>12 DEF First
<1>14. /\ Size(cg)' = n /\ At(cg)' = n /\ Open(cg)'
       /\ \A b : NextOf(cg, b)' = blocks'[b].next
  BY <1>1, <1>7, <1>8 DEF Size, At, Open, NextOf, BlockOf, cg
<1>15. Got' = {n}
  <2>1. Got' = {b \in 1..n : \A S \in SUBSET Nat :
                  /\ {n} \subseteq S
                  /\ \A o \in 1..n : o \in S => blocks'[o].next \subseteq S
                  => b \in S}
    BY <1>13, <1>14 DEF Got, From, Closed
  <2>2. ASSUME NEW b \in Got' PROVE b = n
    <3>1. PICK S : S = {n}
      OBVIOUS
    <3>2. S \in SUBSET Nat /\ {n} \subseteq S
      BY <1>9, <3>1
    <3>3. \A o \in 1..n : o \in S => blocks'[o].next \subseteq S
      BY <1>10
    <3>4. b \in S
      BY <2>1, <2>2, <3>2, <3>3
    <3> QED
      BY <3>1, <3>4
  <2>3. n \in Got'
    BY <1>9, <2>1
  <2> QED
    BY <2>2, <2>3
<1>16. PICK f : f = Frame("function", 0, 0, 0, FALSE)
  OBVIOUS
<1>17. f.kind = "function" /\ open' = <<f>>
  BY <1>1, <1>16 DEF Frame
<1>18. Len(open') = 1 /\ open'[1] = f
  BY <1>17
<1>19. Led(f, {n})
  BY <1>17 DEF Led, Loops
<1>20. \A i \in 1..Len(open') : Led(open'[i], Got')
  BY <1>15, <1>18, <1>19
<1>21. HeadsPlaced'
  BY <1>17, <1>18 DEF HeadsPlaced, Loops
<1>22. Quiet(cg)'
  BY <1>10, <1>14 DEF Quiet
<1>23. live' <=> Arrives(cg, Got)'
  BY <1>1, <1>14, <1>15 DEF Arrives
<1>24. label' \notin OwnIn(cg)'
  BY <1>3, <1>6, <1>8, <1>12
<1> QED
  BY <1>1, <1>20, <1>21, <1>22, <1>23, <1>24 DEF Kept

----------------------------------------------------------------------------
(* The source, action by action.                                           *)

LEMMA SourceBegins ==
  ASSUME WInv, SInv, NEW k \in Kinds, NEW a, NEW c, NEW o, NEW e,
         Enter(k, a, c, o, e), a \in Nat, c \in Nat, o \in Nat,
         e \in BOOLEAN, e => live, k \in Loops => (live => e)
  PROVE  SInv'
<1>1. PICK f : f = Frame(k, a, c, o, e)
  OBVIOUS
<1>2. used \in BOOLEAN
  BY OpenFacts
<1>3. /\ f \in Frames /\ f.kind = k /\ f.entry = e /\ f.goto = used
      /\ ~f.out /\ ~f.again
  BY <1>1, <1>2 DEF Frame, Frames
<1>4. Pushes(f)
  BY <1>1 DEF Enter, Pushes
<1>5. (f.entry => live) /\ (f.kind \in Loops => (live => f.entry))
  BY <1>3
<1> QED
  BY <1>3, <1>4, <1>5, SourceEnters

\* The blocks that a handler names.
LEMMA NamesFound ==
  ASSUME WInv, NEW k, NEW a, NEW c, NEW o, NEW e, Enter(k, a, c, o, e)
  PROVE  /\ Id(Ready, 1) \in Nat /\ Id(Ready, 2) \in Nat
         /\ Id(Ready, 3) \in Nat /\ Id(Ready, 4) \in Nat
         /\ Id(Ready, 5) \in Nat /\ live \in BOOLEAN
<1>1. PICK W, L, s, m, own :
        /\ Starts(Ready, W, L, s, m, own) /\ Open(Ready)
        /\ Stage(Ready, W \cup L, s, m, own)
        /\ fn \in Nat \ {0} /\ m \in Nat /\ own \subseteq 1..m
        /\ Sure(s) => W \cup L \subseteq own
        /\ Sure(s) <=> ~careless
        /\ \A i \in 1..5 : Id(Ready, i) = m + i
        /\ live \in BOOLEAN /\ At(Ready) \in 1..m
  BY Begins
<1> QED
  BY <1>1

LEMMA KindsFacts ==
  /\ \A k \in {"block", "then", "else", "arm", "try", "catch"} :
       k \in Kinds /\ k \notin Loops
  /\ \A k \in {"while", "for", "forever", "do", "foreach"} :
       k \in Kinds /\ k \in Loops
BY DEF Kinds, Loops

LEMMA BeginningsSource ==
  ASSUME WInv, SInv,
         \/ BeginBlock \/ BeginIf \/ BeginWhile \/ BeginFor \/ BeginDo
         \/ BeginForeach \/ BeginMatch \/ BeginTry
  PROVE  SInv'
<1>1. PICK k, a, c, o, e :
        /\ Enter(k, a, c, o, e)
        /\ k \in {"block", "then", "arm", "try", "while", "for", "forever",
                  "do", "foreach"}
        /\ a \in {0, Id(Ready, 3), Id(Ready, 4)}
        /\ c \in {0, Id(Ready, 1), Id(Ready, 2), Id(Ready, 3)}
        /\ o \in {0, Id(Ready, 1), Id(Ready, 2), Id(Ready, 3), Id(Ready, 5)}
        /\ e = live \/ (k = "arm" /\ \E x \in BOOLEAN : e = (live /\ x))
  <2>1. CASE BeginBlock
    BY <2>1 DEF BeginBlock
  <2>2. CASE BeginIf
    BY <2>2 DEF BeginIf
  <2>3. CASE BeginWhile
    BY <2>3 DEF BeginWhile
  <2>4. CASE BeginFor
    <3>1. PICK guarded \in BOOLEAN :
            Enter(IF guarded THEN "for" ELSE "forever",
                  Id(Ready, 3), Id(Ready, 1), Id(Ready, 1), live)
      BY <2>4 DEF BeginFor
    <3>2. PICK j : j = IF guarded THEN "for" ELSE "forever"
      OBVIOUS
    <3>3. Enter(j, Id(Ready, 3), Id(Ready, 1), Id(Ready, 1), live)
      BY <3>1, <3>2
    <3> QED
      BY <3>2, <3>3
  <2>5. CASE BeginDo
    BY <2>5 DEF BeginDo
  <2>6. CASE BeginForeach
    BY <2>6 DEF BeginForeach
  <2>7. CASE BeginMatch
    <3>1. PICK last \in BOOLEAN, always \in BOOLEAN :
            Enter("arm", Id(Ready, 4), Id(Ready, 3),
                  IF last THEN Id(Ready, 3) ELSE Id(Ready, 5),
                  live /\ ~always)
      BY <2>7 DEF BeginMatch
    <3>2. PICK j, x, y : /\ j = IF last THEN Id(Ready, 3) ELSE Id(Ready, 5)
                         /\ x = ~always /\ y = (live /\ ~always)
      OBVIOUS
    <3>3. Enter("arm", Id(Ready, 4), Id(Ready, 3), j, y)
      BY <3>1, <3>2
    <3>4. x \in BOOLEAN /\ y = (live /\ x)
      BY <3>2
    <3> QED
      BY <3>2, <3>3, <3>4
  <2>8. CASE BeginTry
    BY <2>8 DEF BeginTry
  <2> QED
    BY <2>1, <2>2, <2>3, <2>4, <2>5, <2>6, <2>7, <2>8
<1>2. /\ Id(Ready, 1) \in Nat /\ Id(Ready, 2) \in Nat
      /\ Id(Ready, 3) \in Nat /\ Id(Ready, 4) \in Nat
      /\ Id(Ready, 5) \in Nat /\ live \in BOOLEAN
  BY <1>1, NamesFound
<1>3. a \in Nat /\ c \in Nat /\ o \in Nat
  BY <1>1, <1>2
<1>4. k \in Kinds
  BY <1>1, KindsFacts
<1>5. e \in BOOLEAN /\ (e => live)
  BY <1>1, <1>2
<1>6. k \in Loops => (live => e)
  BY <1>1, <1>2, KindsFacts
<1> QED
  BY <1>1, <1>3, <1>4, <1>5, <1>6, SourceBegins

LEMMA EndingsSource ==
  ASSUME WInv, SInv,
         \/ EndFunction \/ EndBlock \/ EndIf \/ EndIfWithoutElse
         \/ EndWhile \/ EndFor \/ EndDo \/ EndForeach \/ EndMatch \/ EndTry
  PROVE  SInv'
<1>1. PICK l : /\ Leave(l) /\ open # <<>>
               /\ l => live \/ Top.out \/ Top.again \/ Top.entry
  <2>1. CASE EndFunction
    <3>1. PICK l : l = (FALSE)
      OBVIOUS
    <3>2. Leave(l) /\ open # <<>>
      BY <2>1, <3>1 DEF EndFunction, Inside
    <3> QED
      BY <3>1, <3>2
  <2>2. CASE EndBlock
    <3>1. PICK l : l = (live)
      OBVIOUS
    <3>2. Leave(l) /\ open # <<>>
      BY <2>2, <3>1 DEF EndBlock, Inside
    <3> QED
      BY <3>1, <3>2
  <2>3. CASE EndIf
    <3>1. PICK l : l = (live \/ Top.out)
      OBVIOUS
    <3>2. Leave(l) /\ open # <<>>
      BY <2>3, <3>1 DEF EndIf, Inside
    <3> QED
      BY <3>1, <3>2
  <2>4. CASE EndIfWithoutElse
    <3>1. PICK l : l = (live \/ Top.entry)
      OBVIOUS
    <3>2. Leave(l) /\ open # <<>>
      BY <2>4, <3>1 DEF EndIfWithoutElse, Inside
    <3> QED
      BY <3>1, <3>2
  <2>5. CASE EndWhile
    <3>1. PICK l : l = (Tested \/ Top.out)
      OBVIOUS
    <3>2. Leave(l) /\ open # <<>>
      BY <2>5, <3>1 DEF EndWhile, Inside
    <3> QED
      BY <3>1, <3>2 DEF Tested
  <2>6. CASE EndFor
    <3>1. PICK l : l = ((Top.kind = "for" /\ Tested) \/ Top.out)
      OBVIOUS
    <3>2. Leave(l) /\ open # <<>>
      BY <2>6, <3>1 DEF EndFor, Inside
    <3> QED
      BY <3>1, <3>2 DEF Tested
  <2>7. CASE EndDo
    <3>1. PICK l : l = (live \/ Top.again \/ Top.out)
      OBVIOUS
    <3>2. Leave(l) /\ open # <<>>
      BY <2>7, <3>1 DEF EndDo, Inside
    <3> QED
      BY <3>1, <3>2
  <2>8. CASE EndForeach
    <3>1. PICK l : l = (Tested \/ Top.out)
      OBVIOUS
    <3>2. Leave(l) /\ open # <<>>
      BY <2>8, <3>1 DEF EndForeach, Inside
    <3> QED
      BY <3>1, <3>2 DEF Tested
  <2>9. CASE EndMatch
    <3>1. PICK l : l = (live \/ Top.entry \/ Top.out)
      OBVIOUS
    <3>2. Leave(l) /\ open # <<>>
      BY <2>9, <3>1 DEF EndMatch, Inside
    <3> QED
      BY <3>1, <3>2
  <2>10. CASE EndTry
    <3>1. PICK l : l = (live \/ Top.out)
      OBVIOUS
    <3>2. Leave(l) /\ open # <<>>
      BY <2>10, <3>1 DEF EndTry, Inside
    <3> QED
      BY <3>1, <3>2
  <2> QED
    BY <2>1, <2>2, <2>3, <2>4, <2>5, <2>6, <2>7, <2>8, <2>9, <2>10
<1>2. /\ open' = SubSeq(open, 1, Len(open) - 1) /\ live' = l
      /\ UNCHANGED source
  BY <1>1 DEF Leave
<1> QED
  BY <1>1, <1>2, SourceLeaves

LEMMA FlagsSame == ASSUME NEW f PROVE FlagsOf(f, f)
BY DEF FlagsOf

\* The last handler goes on with its next part.
LEMMA PartsSource ==
  ASSUME WInv, SInv,
         BeginElse \/ NextArm \/ BeginCatch \/ NextCatch
  PROVE  SInv'
<1>1. PICK k, o, x :
        /\ NextPart([Top EXCEPT !.kind = k, !.other = o,
                                !.entry = Top.entry /\ x], Top.entry)
        /\ x \in BOOLEAN /\ k \in {"else", "arm", "catch"} /\ open # <<>>
        /\ Top.kind \in {"then", "arm", "try", "catch"}
  <2>0. open # <<>> /\ Top \in Frames
    <3>1. open # <<>>
      BY DEF BeginElse, NextArm, BeginCatch, NextCatch, Inside
    <3> QED
      BY <3>1, OpenFacts DEF Top
  <2>1. CASE BeginElse
    <3>1. NextPart([Top EXCEPT !.kind = "else"], Top.entry)
          /\ Top.kind = "then"
      BY <2>1 DEF BeginElse, Inside
    <3>2. [Top EXCEPT !.kind = "else"]
            = [Top EXCEPT !.kind = "else", !.other = Top.other,
                          !.entry = Top.entry /\ TRUE]
      BY <2>0 DEF Frames
    <3>3. NextPart([Top EXCEPT !.kind = "else", !.other = Top.other,
                               !.entry = Top.entry /\ TRUE], Top.entry)
      BY <3>1, <3>2
    <3> QED
      BY <2>0, <3>1, <3>3
  <2>2. CASE NextArm
    <3>1. PICK last \in BOOLEAN, always \in BOOLEAN :
            /\ NextPart([Top EXCEPT
                   !.other = IF last THEN Top.continue ELSE Id(cg, 2),
                   !.entry = @ /\ ~always], Top.entry)
            /\ Top.kind = "arm"
      BY <2>2 DEF NextArm, Inside
    <3>2. PICK o, x : /\ o = IF last THEN Top.continue ELSE Id(cg, 2)
                      /\ x = ~always
      OBVIOUS
    <3>3. [Top EXCEPT !.other = o, !.entry = @ /\ ~always]
            = [Top EXCEPT !.kind = "arm", !.other = o,
                          !.entry = Top.entry /\ x]
      BY <2>0, <3>1, <3>2 DEF Frames
    <3>4. NextPart([Top EXCEPT !.kind = "arm", !.other = o,
                               !.entry = Top.entry /\ x], Top.entry)
      BY <3>1, <3>2, <3>3
    <3>5. x \in BOOLEAN
      BY <3>2
    <3> QED
      BY <2>0, <3>1, <3>4, <3>5
  <2>3. CASE BeginCatch
    <3>1. PICK all \in BOOLEAN :
            /\ NextPart([Top EXCEPT !.kind = "catch",
                                    !.other = Len(blocks) + 2,
                                    !.entry = @ /\ ~all], Top.entry)
            /\ Top.kind = "try"
      BY <2>3 DEF BeginCatch, Inside
    <3>2. PICK o, x : o = Len(blocks) + 2 /\ x = ~all
      OBVIOUS
    <3>3. NextPart([Top EXCEPT !.kind = "catch", !.other = o,
                               !.entry = Top.entry /\ x], Top.entry)
      BY <3>1, <3>2
    <3>4. x \in BOOLEAN
      BY <3>2
    <3> QED
      BY <2>0, <3>1, <3>3, <3>4
  <2>4. CASE NextCatch
    <3>1. PICK all \in BOOLEAN :
            /\ NextPart([Top EXCEPT !.other = Len(blocks) + 2,
                                    !.entry = @ /\ ~all], Top.entry)
            /\ Top.kind = "catch"
      BY <2>4 DEF NextCatch, Inside
    <3>2. PICK o, x : o = Len(blocks) + 2 /\ x = ~all
      OBVIOUS
    <3>3. [Top EXCEPT !.other = Len(blocks) + 2, !.entry = @ /\ ~all]
            = [Top EXCEPT !.kind = "catch", !.other = o,
                          !.entry = Top.entry /\ x]
      BY <2>0, <3>1, <3>2 DEF Frames
    <3>4. NextPart([Top EXCEPT !.kind = "catch", !.other = o,
                               !.entry = Top.entry /\ x], Top.entry)
      BY <3>1, <3>3
    <3>5. x \in BOOLEAN
      BY <3>2
    <3> QED
      BY <2>0, <3>1, <3>4, <3>5
  <2> QED
    BY <2>1, <2>2, <2>3, <2>4
<1>2. PICK f, g, l : /\ f = open[l] /\ l = Len(open)
                     /\ g = [f EXCEPT !.kind = k, !.other = o,
                                      !.entry = f.entry /\ x]
  OBVIOUS
<1>3. PICK w : w = [g EXCEPT !.out = g.out \/ live]
  OBVIOUS
<1>4. /\ open \in Seq(Frames) /\ l \in 1..l /\ f \in Frames
      /\ live \in BOOLEAN /\ DOMAIN open = 1..l
  BY <1>1, <1>2, OpenFacts
<1>5. /\ open' = [open EXCEPT ![l] = w] /\ live' = f.entry
      /\ UNCHANGED source
  BY <1>1, <1>2, <1>3 DEF NextPart, Top
<1>6. /\ w.kind = k /\ w.goto = f.goto /\ w.again = f.again
      /\ w.entry = (f.entry /\ x) /\ w.out = (f.out \/ live)
  BY <1>2, <1>3, <1>4 DEF Frames
<1>7. k \notin Loops /\ f.kind \notin Loops
  <2>1. f.kind \in {"then", "arm", "try", "catch"}
    BY <1>1, <1>2 DEF Top
  <2> QED
    BY <1>1, <2>1, KindsFacts
<1>8. FlagsOf(w, f)
  BY <1>6, <1>7 DEF FlagsOf
<1>9. ASSUME NEW i \in 1..l PROVE FlagsOf(open'[i], open[i])
  <2>1. CASE i = l
    BY <1>2, <1>4, <1>5, <1>8, <2>1
  <2>2. CASE i # l
    <3>1. open'[i] = open[i]
      BY <1>4, <1>5, <2>2
    <3> QED
      BY <3>1, FlagsSame
  <2> QED
    BY <2>1, <2>2
<1>10. Len(open') = Len(open) /\ (live' => live \/ Top.entry)
  BY <1>2, <1>4, <1>5 DEF Top
<1> QED
  BY <1>2, <1>5, <1>9, <1>10, SourceFlags

\* Statements that leave the handlers as they are.
LEMMA StaySource ==
  ASSUME WInv, SInv, open' = open, UNCHANGED source, live' => live
  PROVE  SInv'
<1>1. \A i \in 1..Len(open) : FlagsOf(open'[i], open[i])
  BY FlagsSame
<1> QED
  BY <1>1, SourceFlags

LEMMA LeavesSource ==
  ASSUME WInv, SInv, Break \/ Continue
  PROVE  SInv'
<1>1. PICK i \in InnermostLoop :
        /\ \/ open' = [open EXCEPT ![i].out = @ \/ live]
           \/ open' = [open EXCEPT ![i].again = @ \/ live]
        /\ live' = FALSE /\ UNCHANGED source
  BY DEF Break, Continue
<1>2. PICK f, l : f = open[i] /\ l = Len(open)
  OBVIOUS
<1>3. /\ open \in Seq(Frames) /\ DOMAIN open = 1..l /\ i \in 1..l
      /\ f \in Frames /\ live \in BOOLEAN
  <2>1. i \in DOMAIN open
    BY DEF InnermostLoop
  <2> QED
    BY <1>2, <2>1, OpenFacts
<1>4. PICK w : /\ open' = [open EXCEPT ![i] = w]
               /\ \/ w = [f EXCEPT !.out = f.out \/ live]
                  \/ w = [f EXCEPT !.again = f.again \/ live]
  BY <1>1, <1>2
<1>5. FlagsOf(w, f)
  <2>1. CASE w = [f EXCEPT !.out = f.out \/ live]
    BY <1>3, <2>1 DEF Frames, FlagsOf
  <2>2. CASE w = [f EXCEPT !.again = f.again \/ live]
    BY <1>3, <2>2 DEF Frames, FlagsOf
  <2> QED
    BY <1>4, <2>1, <2>2
<1>6. ASSUME NEW j \in 1..l PROVE FlagsOf(open'[j], open[j])
  <2>1. CASE j = i
    BY <1>2, <1>3, <1>4, <1>5, <2>1
  <2>2. CASE j # i
    <3>1. open'[j] = open[j]
      BY <1>3, <1>4, <2>2
    <3> QED
      BY <3>1, FlagsSame
  <2> QED
    BY <2>1, <2>2
<1>7. Len(open') = Len(open)
  BY <1>3, <1>4
<1> QED
  BY <1>1, <1>2, <1>6, <1>7, SourceFlags

LEMMA GotoSource == ASSUME WInv, SInv, Goto PROVE SInv'
<1>1. /\ open' = open /\ used' = TRUE /\ arrived' = (arrived \/ live)
      /\ live' = FALSE /\ defined' = defined
  BY DEF Goto
<1>2. ASSUME NEW i \in 1..Len(open), open[i].kind \in Loops, ~open[i].entry
      PROVE  /\ \A j \in i..Len(open) : Idle(open[j])
             /\ arrived' /\ ~defined => open[i].goto
  BY <1>1, <1>2 DEF SInv, DeadLoops
<1>3. DeadLoops'
  BY <1>1, <1>2 DEF DeadLoops
<1>4. GotosSeen'
  BY <1>1 DEF SInv, GotosSeen
<1> QED
  BY <1>3, <1>4 DEF SInv

\* Where there is a loop there is an innermost one.
LEMMA InnermostFound ==
  ASSUME WInv, NEW i \in 1..Len(open), open[i].kind \in Loops
  PROVE  \E k \in InnermostLoop : i <= k
<1>1. PICK l : l = Len(open)
  OBVIOUS
<1>2. l \in Nat /\ DOMAIN open = 1..l
  BY <1>1, OpenFacts
<1>3. PICK T : T = {n \in Nat : /\ l - n \in i..l
                                /\ open[l - n].kind \in Loops}
  OBVIOUS
<1>4. l - i \in T
  <2>1. l - i \in Nat /\ l - (l - i) = i /\ i \in i..l
    BY <1>1, <1>2
  <2> QED
    BY <1>3, <2>1
<1>5. PICK n \in T : \A m \in T : n <= m
  BY <1>3, <1>4, LeastNumber
<1>6. PICK k : k = l - n
  OBVIOUS
<1>7. k \in i..l /\ open[k].kind \in Loops /\ n \in Nat
  BY <1>3, <1>5, <1>6
<1>8. ASSUME NEW j \in k + 1..l PROVE open[j].kind \notin Loops
  <2>1. l - j \in Nat /\ l - (l - j) = j /\ j \in i..l /\ ~(n <= l - j)
    BY <1>2, <1>6, <1>7
  <2> QED
    BY <1>3, <1>5, <2>1
<1>9. k \in 1..l /\ i <= k
  BY <1>2, <1>7
<1>10. k \in InnermostLoop
  BY <1>1, <1>2, <1>7, <1>8, <1>9 DEF InnermostLoop
<1> QED
  BY <1>9, <1>10

\* No goto enters a dead loop: its label stays dead.
LEMMA LabelSource == ASSUME WInv, SInv, Label PROVE SInv'
<1>1. /\ open' = open /\ used' = used /\ arrived' = live'
      /\ live' = (live \/ arrived) /\ defined' = TRUE /\ ~defined
      /\ \A k \in InnermostLoop : ~open[k].goto
  BY DEF Label
<1>2. PICK l : l = Len(open)
  OBVIOUS
<1>3. /\ l \in Nat /\ DOMAIN open = 1..l
      /\ \A i \in 1..l : open[i].kind = "function" <=> i = 1
  BY <1>2, OpenFacts
<1>4. ASSUME NEW i \in 1..l, open[i].kind \in Loops, ~open[i].entry
      PROVE  ~live' /\ \A j \in i..l : Idle(open[j])
  <2>1. /\ ~live /\ \A j \in i..l : Idle(open[j])
        /\ arrived /\ ~defined => open[i].goto
    BY <1>2, <1>4 DEF SInv, DeadLoops
  <2>2. PICK k \in InnermostLoop : i <= k
    BY <1>2, <1>4, InnermostFound
  <2>3. k \in i..l
    BY <1>3, <2>2 DEF InnermostLoop
  <2>4. i # 1
    BY <1>3, <1>4 DEF Loops
  <2>5. i \in 2..l
    BY <1>3, <2>4
  <2>6. ~open[i].goto
    <3>1. open[i].goto => open[k].goto
      BY <1>2, <2>3, <2>5 DEF SInv, GotosSeen
    <3> QED
      BY <1>1, <3>1
  <2> QED
    BY <1>1, <2>1, <2>6
<1>5. DeadLoops'
  BY <1>1, <1>2, <1>4 DEF DeadLoops
<1>6. GotosSeen'
  BY <1>1 DEF SInv, GotosSeen
<1> QED
  BY <1>5, <1>6 DEF SInv

LEMMA BeginFunctionSource == ASSUME BeginFunction PROVE SInv'
<1>1. PICK f : f = Frame("function", 0, 0, 0, FALSE)
  OBVIOUS
<1>2. /\ open' = <<f>> /\ arrived' = FALSE
  BY <1>1 DEF BeginFunction
<1>3. /\ f.kind \notin Loops /\ Len(open') = 1 /\ open'[1] = f
  BY <1>1, <1>2 DEF Frame, Loops
<1>4. DeadLoops'
  BY <1>3 DEF DeadLoops
<1>5. GotosSeen'
  <2>1. \A i \in 2..1 : FALSE
    OBVIOUS
  <2> QED
    BY <1>2, <1>3, <2>1 DEF GotosSeen
<1> QED
  BY <1>4, <1>5 DEF SInv

LEMMA SInvNext == ASSUME WInv, SInv, [Next]_vars PROVE SInv'
<1>1. CASE Straight \/ Return \/ Throw
  <2>1. open' = open /\ UNCHANGED source /\ (live' => live)
    BY <1>1 DEF Straight, Return, Throw
  <2> QED
    BY <2>1, StaySource
<1>2. CASE UNCHANGED vars
  <2>1. open' = open /\ UNCHANGED source /\ (live' => live)
    BY <1>2 DEF vars, source
  <2> QED
    BY <2>1, StaySource
<1>3. CASE Break \/ Continue
  BY <1>3, LeavesSource
<1>4. CASE BeginElse \/ NextArm \/ BeginCatch \/ NextCatch
  BY <1>4, PartsSource
<1>5. CASE \/ EndFunction \/ EndBlock \/ EndIf \/ EndIfWithoutElse
           \/ EndWhile \/ EndFor \/ EndDo \/ EndForeach \/ EndMatch \/ EndTry
  BY <1>5, EndingsSource
<1>6. CASE \/ BeginBlock \/ BeginIf \/ BeginWhile \/ BeginFor \/ BeginDo
           \/ BeginForeach \/ BeginMatch \/ BeginTry
  BY <1>6, BeginningsSource
<1>7. CASE BeginFunction
  BY <1>7, BeginFunctionSource
<1>8. CASE Goto
  BY <1>8, GotoSource
<1>9. CASE Label
  BY <1>9, LabelSource
<1> QED
  BY <1>1, <1>2, <1>3, <1>4, <1>5, <1>6, <1>7, <1>8, <1>9 DEF Next

----------------------------------------------------------------------------
(* The theorem *)

\* Inside a function nothing takes back what is doubtful about it.
LEMMA DoubtsStay ==
  ASSUME Next, ~BeginFunction
  PROVE  open # <<>> /\ (careless => careless') /\ (revived => revived')
<1>1. ASSUME \/ Straight \/ Return \/ Throw \/ Break \/ Continue
      PROVE  /\ Statement /\ UNCHANGED <<source, careless>>
  BY <1>1 DEF Straight, Return, Throw, Break, Continue
<1>2. ASSUME Goto \/ Label
      PROVE  /\ Statement /\ (careless => careless') /\ (revived => revived')
  <2>1. CASE Goto
    <3>1. /\ Statement /\ careless' = (careless \/ Foreign)
          /\ revived' = (revived \/ (defined /\ live /\ ~arrived))
      BY <2>1 DEF Goto
    <3> QED
      BY <3>1
  <2>2. CASE Label
    <3>1. /\ Statement /\ careless' = (careless \/ Foreign)
          /\ revived' = revived
      BY <2>2 DEF Label
    <3> QED
      BY <3>1
  <2> QED
    BY <1>2, <2>1, <2>2
<1>3. ASSUME \/ BeginBlock \/ BeginIf \/ BeginWhile \/ BeginDo \/ BeginForeach
             \/ BeginTry
      PROVE  Statement /\ UNCHANGED <<source, careless>>
  BY <1>3 DEF BeginBlock, BeginIf, BeginWhile, BeginDo, BeginForeach,
              BeginTry, Enter, Checked
<1>4. ASSUME BeginFor \/ BeginMatch
      PROVE  Statement /\ UNCHANGED <<source, careless>>
  BY <1>4 DEF BeginFor, BeginMatch, Enter, Checked
<1>5. ASSUME \/ EndFunction \/ EndBlock \/ EndIf \/ EndIfWithoutElse
             \/ EndWhile \/ EndFor \/ EndDo \/ EndForeach \/ EndMatch \/ EndTry
      PROVE  open # <<>> /\ UNCHANGED source /\ (careless => careless')
  <2>1. CASE EndFunction
    <3>1. /\ open # <<>> /\ UNCHANGED source
          /\ careless' = (careless \/ insert # back)
      BY <2>1 DEF EndFunction, Inside, Leave
    <3> QED
      BY <3>1
  <2>2. CASE EndWhile
    <3>1. /\ open # <<>> /\ UNCHANGED source
          /\ careless' = (careless \/ ~Open(cg))
      BY <2>2 DEF EndWhile, Inside, Leave, Unchecked
    <3> QED
      BY <3>1
  <2>3. CASE EndFor
    <3>1. /\ open # <<>> /\ UNCHANGED source
          /\ careless' = (careless \/ ~Open(cg))
      BY <2>3 DEF EndFor, Inside, Leave, Unchecked
    <3> QED
      BY <3>1
  <2>4. CASE \/ EndBlock \/ EndIf \/ EndIfWithoutElse \/ EndDo \/ EndForeach
             \/ EndMatch \/ EndTry
    BY <2>4 DEF EndBlock, EndIf, EndIfWithoutElse, EndDo, EndForeach, EndMatch,
                EndTry, Inside, Leave, Checked
  <2> QED
    BY <1>5, <2>1, <2>2, <2>3, <2>4
<1>6. ASSUME BeginElse \/ NextArm \/ BeginCatch \/ NextCatch
      PROVE  Statement /\ UNCHANGED <<source, careless>>
  BY <1>6 DEF BeginElse, NextArm, BeginCatch, NextCatch, NextPart, Checked
<1>7. /\ Statement => open # <<>>
      /\ UNCHANGED source => revived' = revived
  BY DEF Statement, source
<1> QED
  BY <1>1, <1>2, <1>3, <1>4, <1>5, <1>6, <1>7 DEF Next

LEMMA EndFunctionEmpties == ASSUME WInv, EndFunction PROVE open' = <<>>
<1>1. /\ open # <<>> /\ Top.kind = "function"
      /\ open' = SubSeq(open, 1, Len(open) - 1)
  BY DEF EndFunction, Inside, Leave
<1>2. open \in Seq(Frames) /\ Len(open) \in Nat /\ Len(open) \in 1..Len(open)
  BY <1>1, OpenFacts
<1>3. Len(open) = 1
  <2>1. open[Len(open)].kind = "function" <=> Len(open) = 1
    BY <1>2, OpenFacts
  <2> QED
    BY <1>1, <2>1 DEF Top
<1> QED
  BY <1>1, <1>2, <1>3

LEMMA KeptStays == ASSUME Kept, UNCHANGED vars PROVE Kept'
<1>1. /\ fn' = fn /\ blocks' = blocks /\ insert' = insert /\ back' = back
      /\ label' = label /\ open' = open /\ live' = live /\ used' = used
      /\ arrived' = arrived /\ defined' = defined
  BY DEF vars, source
<1>2. cg' = cg
  BY <1>1 DEF cg
<1>3. OwnIn(cg)' = OwnIn(cg)
  BY <1>1, <1>2 DEF OwnIn
<1>4. Got' = Got
  <2>1. First(cg)' = First(cg)
    BY <1>3 DEF First
  <2> QED
    BY <1>2, <2>1 DEF Got, From, Closed, Size, NextOf, BlockOf
<1>5. HeadsPlaced'
  BY <1>1, <1>3 DEF Kept, HeadsPlaced, LabelWaits
<1>6. Quiet(cg)'
  BY <1>2 DEF Kept, Quiet, BlockOf, Size, NextOf
<1>7. live' <=> Arrives(cg, Got)'
  BY <1>1, <1>2, <1>4 DEF Kept, Arrives, At, Open
<1>8. \A i \in 1..Len(open') : Led(open'[i], Got')
  BY <1>1, <1>4 DEF Kept
<1>9. label' \in OwnIn(cg)' => /\ label' \in Got' <=> arrived'
                               /\ label' \notin Waiting(open, Len(open))'
  BY <1>1, <1>3, <1>4 DEF Kept
<1>10. used' => label' \in OwnIn(cg)'
  BY <1>1, <1>3 DEF Kept
<1> QED
  BY <1>5, <1>6, <1>7, <1>8, <1>9, <1>10 DEF Kept

LEMMA KeptNext ==
  ASSUME Going, Next, ~careless', ~revived', open' # <<>>
  PROVE  Kept'
<1>1. WInv
  BY DEF Going
<1>2. ASSUME BeginFunction \/ EndFunction PROVE Kept'
  BY <1>1, <1>2, BeginFunctionPaths, EndFunctionEmpties
<1>3. ASSUME Straight \/ Return \/ Throw \/ Break \/ Continue \/ Goto \/ Label
      PROVE  Kept'
  BY <1>3, StraightPaths, ReturnPaths, ThrowPaths, BreakPaths, ContinuePaths,
     GotoPaths, LabelPaths
<1>4. ASSUME \/ BeginBlock \/ EndBlock
             \/ BeginIf \/ BeginElse \/ EndIf \/ EndIfWithoutElse
      PROVE  Kept'
  BY <1>4, BeginBlockPaths, EndBlockPaths, BeginIfPaths, BeginElsePaths,
     EndIfPaths, EndIfWithoutElsePaths
<1>5. ASSUME \/ BeginWhile \/ EndWhile \/ BeginFor \/ EndFor
             \/ BeginDo \/ EndDo \/ BeginForeach \/ EndForeach
      PROVE  Kept'
  BY <1>5, BeginWhilePaths, EndWhilePaths, BeginForPaths, EndForPaths,
     BeginDoPaths, EndDoPaths, BeginForeachPaths, EndForeachPaths
<1>6. ASSUME \/ BeginMatch \/ NextArm \/ EndMatch
             \/ BeginTry \/ BeginCatch \/ NextCatch \/ EndTry
      PROVE  Kept'
  BY <1>6, BeginMatchPaths, NextArmPaths, EndMatchPaths, BeginTryPaths,
     BeginCatchPaths, NextCatchPaths, EndTryPaths
<1> QED
  BY <1>2, <1>3, <1>4, <1>5, <1>6 DEF Next

LEMMA PInvInit == ASSUME Init PROVE PInv
<1>1. open = <<>> /\ arrived = FALSE
  BY DEF Init
<1>2. Len(open) = 0
  BY <1>1
<1>3. \A i \in 1..0 : FALSE
  OBVIOUS
<1>4. \A i \in 2..0 : FALSE
  OBVIOUS
<1>5. SInv
  BY <1>1, <1>2, <1>3, <1>4 DEF SInv, DeadLoops, GotosSeen
<1> QED
  BY <1>1, <1>5, WInvInit DEF PInv

LEMMA PInvNext == ASSUME PInv, [Next]_vars PROVE PInv'
<1>1. WInv /\ SInv
  BY DEF PInv
<1>2. WInv' /\ SInv'
  BY <1>1, WInvNext, SInvNext
<1>3. ASSUME open' # <<>>, ~careless', ~revived' PROVE Kept'
  <2>1. CASE BeginFunction
    BY <1>1, <2>1, BeginFunctionPaths
  <2>2. CASE Next /\ ~BeginFunction
    <3>1. open # <<>> /\ ~careless /\ ~revived
      BY <1>3, <2>2, DoubtsStay
    <3>2. Going
      BY <1>1, <3>1 DEF PInv, Going
    <3> QED
      BY <1>3, <2>2, <3>2, KeptNext
  <2>3. CASE UNCHANGED vars
    <3>1. open' = open /\ careless' = careless /\ revived' = revived
      BY <2>3 DEF vars
    <3>2. Kept
      BY <1>3, <3>1 DEF PInv
    <3> QED
      BY <2>3, <3>2, KeptStays
  <2> QED
    BY <2>1, <2>2, <2>3
<1> QED
  BY <1>2, <1>3 DEF PInv

LEMMA PInvPaths == ASSUME PInv PROVE PathsKept
<1> SUFFICES ASSUME open # <<>>, ~careless, ~revived
             PROVE  live = (insert \in Reached /\ blocks[insert].ends = 0)
  BY DEF PathsKept
<1>1. WInv /\ Kept
  BY DEF PInv
<1>2. TInv /\ live \in BOOLEAN
  BY <1>1 DEF WInv, TInv
<1>3. Reached = Got
  BY <1>2, ReachedGot
<1>4. live <=> insert \in Got /\ blocks[insert].ends = 0
  BY <1>1 DEF Kept, Arrives, At, Open, cg
<1> QED
  BY <1>2, <1>3, <1>4

(* What the generator makes of a function is reached by an execution of    *)
(* the generated code exactly where the source is: at every statement, in  *)
(* every function of every module, unless the function is careless, or a   *)
(* goto leads back into dead text.                                         *)
THEOREM PathsAreKept == Spec => []PathsKept
<1>1. Init => PInv
  BY PInvInit
<1>2. PInv /\ [Next]_vars => PInv'
  BY PInvNext
<1>3. PInv => PathsKept
  BY PInvPaths
<1> QED
  BY <1>1, <1>2, <1>3, PTL DEF Spec
=============================================================================
