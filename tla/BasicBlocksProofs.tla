--------------------------- MODULE BasicBlocksProofs ---------------------------
(***************************************************************************)
(* Proofs about BasicBlocks, for every number of functions and statements  *)
(* and every depth to which they nest: the generator names only blocks     *)
(* that it has made, and every block of a finished function ends in one    *)
(* terminator and branches inside the function.  The invariant behind both *)
(* (WInv) is about the stack of handlers: each waits for blocks of its     *)
(* own, and every block that nobody waits for has ended or is the insert   *)
(* point.  Lemmas follow the builder's calls first, then the handlers'     *)
(* ways to begin, to go on and to end, then the handlers one by one.       *)
(***************************************************************************)
EXTENDS BasicBlocks, SequenceTheorems, TLAPS

----------------------------------------------------------------------------
(***************************************************************************)
(* Types.  The insert point is a block while a function is open, and so    *)
(* are the blocks that the open handlers will go on with.                  *)
(***************************************************************************)

Blocks ==
  [fn: Nat, ends: Nat, next: SUBSET Nat, empty: BOOLEAN, updates: BOOLEAN,
   entered: Nat]

\* Blocks of the first f functions that name each other.
BlocksTyped(q, f) ==
  /\ q \in Seq(Blocks)
  /\ \A b \in 1..Len(q) : /\ q[b].fn \in 1..f /\ q[b].next \subseteq 1..Len(q)
                          /\ q[b].entered \in 0..Len(q)

\* Code as the handlers of the current function see it.
Code == [blocks: Seq(Blocks), at: Nat, back: Nat]
Typed(c) ==
  /\ c \in Code /\ BlocksTyped(c.blocks, fn)
  /\ c.at \in 1..Len(c.blocks) /\ c.back \in 1..Len(c.blocks)

Frames ==
  [kind: Kinds, after: Nat, continue: Nat, other: Nat, entry: BOOLEAN,
   goto: BOOLEAN, out: BOOLEAN, again: BOOLEAN]

\* The blocks that a handler remembers are among the first n.
RemembersMade(f, n) ==
  /\ {f.after, f.continue, f.other} \subseteq 0..n
  /\ f.kind \notin {"function", "block"} => f.after # 0 /\ f.other # 0
  /\ f.kind \notin {"function", "block", "then", "else"} => f.continue # 0

StackTyped(q, n) ==
  /\ q \in Seq(Frames)
  /\ \A i \in 1..Len(q) : /\ q[i].kind = "function" <=> i = 1
                          /\ RemembersMade(q[i], n)

TInv ==
  /\ fn \in 0..Functions /\ text \in 0..MaxText
  /\ BlocksTyped(blocks, fn) /\ StackTyped(open, Len(blocks))
  /\ label \in 0..Len(blocks)
  /\ insert \in 0..Len(blocks) /\ back \in 0..Len(blocks)
  /\ live \in BOOLEAN /\ arrived \in BOOLEAN /\ used \in BOOLEAN
  /\ revived \in BOOLEAN
  /\ defined \in BOOLEAN /\ careless \in BOOLEAN
  /\ open # <<>> => fn > 0 /\ insert > 0 /\ back > 0
  /\ defined => label # 0

----------------------------------------------------------------------------
(***************************************************************************)
(* Well-formed functions.  The blocks without a terminator are the insert  *)
(* point, the label that a goto has named and no statement defined yet,    *)
(* and what the open handlers wait for: each handler its own.              *)
(***************************************************************************)

\* The blocks that a handler has made and not placed.
Awaits(f) ==
  CASE f.kind \in {"function", "block"}               -> {}
    [] f.kind \in {"then", "catch"}                   -> {f.after, f.other}
    [] f.kind \in {"else", "while", "for", "forever"} -> {f.after}
    [] f.kind \in {"do", "foreach"} -> {f.after, f.continue}
    [] f.kind \in {"arm", "try"}    -> {f.after, f.continue, f.other}

\* They are different ones; the last arm goes on to the end of the match.
Apart(f) ==
  /\ f.kind \in {"then", "catch"} => f.after # f.other
  /\ f.kind \in {"do", "foreach"} => f.after # f.continue
  /\ f.kind \in {"arm", "try"} => f.after \notin {f.continue, f.other}
  /\ f.kind = "try" => f.continue # f.other

Waiting(q, n) == UNION {Awaits(q[i]) : i \in 1..n}

OwnIn(c) == {b \in 1..Len(c.blocks) : c.blocks[b].fn = fn}
LabelWaits == {b \in OwnIn(cg) : b = label /\ ~defined}

\* Of the function's blocks, those of P wait and the others have ended.
Sound(c, P) ==
  /\ P \subseteq OwnIn(c) /\ c.at \in OwnIn(c) \ P
  /\ \A b \in P : c.blocks[b].ends = 0 /\ c.blocks[b].empty
  /\ \A b \in OwnIn(c) \ P :
       c.blocks[b].ends = 1 \/ (b = c.at /\ c.blocks[b].ends = 0)
  /\ \A b \in OwnIn(c) : c.blocks[b].next \subseteq OwnIn(c)

\* Each handler waits for its own blocks, all of this function.
HandlersApart(q, own, others) ==
  /\ \A i \in 1..Len(q) :
       /\ {q[i].after, q[i].continue, q[i].other} \subseteq own \cup {0}
       /\ Apart(q[i]) /\ Awaits(q[i]) \cap others = {}
  /\ \A i, j \in 1..Len(q) : i # j => Awaits(q[i]) \cap Awaits(q[j]) = {}

InBody ==
  /\ LabelWaits # {} => used
  /\ HandlersApart(open, OwnIn(cg), LabelWaits)
  /\ Sound(cg, Waiting(open, Len(open)) \cup LabelWaits)

WInv ==
  /\ TInv
  /\ open # <<>> /\ ~careless => InBody
  /\ WellFormed

----------------------------------------------------------------------------
(***************************************************************************)
(* What the builder does to the code.  A careless function may have any    *)
(* well-typed code, the others have sound code: the lemmas are about both  *)
(* at once, and Sure(s) says which one it is.                              *)
(***************************************************************************)

Sure(s) == s = "sound"
Good(c, P, s) == Typed(c) /\ (Sure(s) => Sound(c, P))

Size(c)       == Len(c.blocks)
At(c)         == c.at
Back(c)       == c.back
BlockOf(c, b) == c.blocks[b]

\* x takes the place of the block at the insert point.
SetTo(c, x) == [c EXCEPT !.blocks = [c.blocks EXCEPT ![c.at] = x]]
Replaces(x, c) ==
  /\ x \in Blocks /\ x.fn = c.blocks[c.at].fn
  /\ x.next \subseteq 1..Len(c.blocks) /\ x.entered \in 0..Len(c.blocks)

\* The parts of the code under construction.
LEMMA CodeFacts ==
  ASSUME NEW c, Typed(c)
  PROVE  /\ c \in Code /\ c.blocks \in Seq(Blocks) /\ Len(c.blocks) \in Nat
         /\ DOMAIN c.blocks = 1..Len(c.blocks)
         /\ c.at \in 1..Len(c.blocks) /\ c.at \in Nat
         /\ c.back \in 1..Len(c.blocks) /\ c.back \in Nat
         /\ c = [blocks |-> c.blocks, at |-> c.at, back |-> c.back]
         /\ \A b \in 1..Len(c.blocks) :
              /\ c.blocks[b] \in Blocks /\ c.blocks[b].fn \in 1..fn
              /\ c.blocks[b].next \subseteq 1..Len(c.blocks)
              /\ c.blocks[b].entered \in 0..Len(c.blocks)
<1>1. c \in Code /\ c.blocks \in Seq(Blocks)
  BY DEF Typed, Code
<1>2. Len(c.blocks) \in Nat /\ DOMAIN c.blocks = 1..Len(c.blocks)
  BY <1>1, LenProperties
<1>3. \A b \in 1..Len(c.blocks) : c.blocks[b] \in Blocks
  BY <1>1, ElementOfSeq
<1>4. c = [blocks |-> c.blocks, at |-> c.at, back |-> c.back]
  BY <1>1 DEF Code
<1> QED
  BY <1>1, <1>2, <1>3, <1>4 DEF Typed, BlocksTyped

\* The same, as the builder's operators see them.
LEMMA SizeFacts ==
  ASSUME NEW c, NEW P, NEW s, Good(c, P, s)
  PROVE  /\ Size(c) \in Nat /\ At(c) \in 1..Size(c) /\ Back(c) \in 1..Size(c)
         /\ OwnIn(c) \subseteq 1..Size(c)
         /\ Sure(s) =>
              P \subseteq OwnIn(c) /\ At(c) \in OwnIn(c) /\ At(c) \notin P
         /\ Open(c) <=> BlockOf(c, At(c)).ends = 0
BY CodeFacts DEF Good, Sound, Size, At, Back, OwnIn, Open, BlockOf

LEMMA CodeUnder ==
  ASSUME TInv, open # <<>>
  PROVE  /\ Typed(cg) /\ fn \in Nat \ {0}
         /\ Size(cg) = Len(blocks) /\ At(cg) = insert /\ Back(cg) = back
         /\ Len(blocks) \in Nat /\ insert \in 1..Len(blocks)
         /\ back \in 1..Len(blocks)
         /\ \A b : BlockOf(cg, b) = blocks[b]
<1>1. blocks \in Seq(Blocks) /\ Len(blocks) \in Nat
  BY LenProperties DEF TInv, BlocksTyped
<1> QED
  BY <1>1, BoundsAssumption
  DEF TInv, Typed, Code, cg, BlocksTyped, Size, At, Back, BlockOf

\* New blocks wait.
NewIds(c, n) == Size(c) + 1 .. Size(c) + n

LEMMA NewGood ==
  ASSUME fn \in Nat \ {0}, NEW c, NEW P, NEW s, Good(c, P, s),
         NEW n \in Nat \ {0}
  PROVE  LET d == New(c, n)
         IN  /\ Good(d, P \cup NewIds(c, n), s)
             /\ Size(d) = Size(c) + n
             /\ OwnIn(d) = OwnIn(c) \cup NewIds(c, n)
             /\ At(d) = At(c) /\ Back(d) = Back(c)
             /\ \A b \in 1..Size(c) : BlockOf(d, b) = BlockOf(c, b)
             /\ \A b \in NewIds(c, n) : BlockOf(d, b) = Block(fn)
             /\ Open(d) <=> Open(c)
<1>1. PICK l, q, d, r, N :
        /\ l = Len(c.blocks) /\ q = c.blocks /\ N = NewIds(c, n)
        /\ d = New(c, n) /\ r = [i \in 1..n |-> Block(fn)]
  OBVIOUS
<1>0. l \in Nat /\ n \in Nat /\ n # 0 /\ N = l + 1 .. l + n
  BY <1>1, CodeFacts DEF Size, NewIds, Good
<1>2. /\ c \in Code /\ q \in Seq(Blocks) /\ l \in Nat /\ Len(q) = l
      /\ c.at \in 1..l /\ c.back \in 1..l
      /\ \A b \in 1..l : /\ q[b].fn \in 1..fn /\ q[b].next \subseteq 1..l
                         /\ q[b].entered \in 0..l
  BY <1>1, CodeFacts DEF Good
<1>3. /\ Block(fn) \in Blocks /\ Block(fn).fn = fn /\ Block(fn).ends = 0
      /\ Block(fn).next = {} /\ Block(fn).empty /\ Block(fn).entered = 0
  BY DEF Block, Blocks
<1>4. r \in Seq(Blocks) /\ Len(r) = n /\ \A i \in 1..n : r[i] = Block(fn)
  <2>1. r \in [1..n -> Blocks]
    BY <1>1, <1>3
  <2>2. r \in Seq(Blocks)
    BY <2>1, SeqDef
  <2> QED
    BY <1>1, <2>1, <2>2
<1>5. d = [c EXCEPT !.blocks = q \o r]
  BY <1>1 DEF New
<1>6. /\ q \o r \in Seq(Blocks) /\ Len(q \o r) = l + n
      /\ \A b \in 1..l : (q \o r)[b] = q[b]
      /\ \A b \in N : (q \o r)[b] = Block(fn)
  <2>1. \A b \in 1..Len(q) + Len(r) :
          (q \o r)[b] = IF b <= Len(q) THEN q[b] ELSE r[b - Len(q)]
    BY <1>2, <1>4, ConcatProperties
  <2>2. \A b \in 1..l : (q \o r)[b] = q[b]
    BY <1>0, <1>2, <1>4, <2>1
  <2>3. \A b \in N : b \in 1..l + n /\ b > l /\ b - l \in 1..n
    BY <1>0
  <2>4. \A b \in N : (q \o r)[b] = Block(fn)
    BY <1>0, <1>2, <1>4, <2>1, <2>3
  <2>5. q \o r \in Seq(Blocks) /\ Len(q \o r) = Len(q) + Len(r)
    BY <1>2, <1>4, ConcatProperties
  <2> QED
    BY <1>2, <1>4, <2>2, <2>4, <2>5
<1>7. /\ d \in Code /\ d.blocks = q \o r /\ d.at = c.at /\ d.back = c.back
  BY <1>2, <1>5, <1>6 DEF Code
<1>8. \A b \in 1..l + n : b \in 1..l \/ b \in N
  BY <1>0
<1>9. /\ 1..l \subseteq 1..l + n /\ 0..l \subseteq 0..l + n
      /\ N \subseteq 1..l + n /\ N \cap 1..l = {}
  BY <1>0
<1>10. \A b \in 1..l + n : /\ d.blocks[b].fn \in 1..fn
                           /\ d.blocks[b].next \subseteq 1..l + n
                           /\ d.blocks[b].entered \in 0..l + n
  <2>1. \A b \in 1..l : /\ d.blocks[b].fn \in 1..fn
                        /\ d.blocks[b].next \subseteq 1..l + n
                        /\ d.blocks[b].entered \in 0..l + n
    BY <1>2, <1>6, <1>7, <1>9
  <2>2. 0 \in 0..l + n /\ fn \in 1..fn
    BY <1>2
  <2>3. ASSUME NEW b \in N
        PROVE  /\ d.blocks[b].fn \in 1..fn
               /\ d.blocks[b].next \subseteq 1..l + n
               /\ d.blocks[b].entered \in 0..l + n
    <3>1. d.blocks[b] = Block(fn)
      BY <1>6, <1>7
    <3> QED
      BY <1>3, <2>2, <3>1
  <2> QED
    BY <1>8, <2>1, <2>3
<1>11. Typed(d)
  BY <1>2, <1>6, <1>7, <1>9, <1>10 DEF Typed, BlocksTyped
<1>12. OwnIn(d) = OwnIn(c) \cup N
  BY <1>1, <1>3, <1>6, <1>7, <1>8, <1>9 DEF OwnIn
<1>13. Sure(s) => Sound(d, P \cup N)
  <2> SUFFICES ASSUME Sure(s) PROVE Sound(d, P \cup N)
    OBVIOUS
  <2>1. Sound(c, P)
    BY DEF Good
  <2>2. OwnIn(c) \subseteq 1..l
    BY <1>1 DEF OwnIn
  <2>3. /\ P \cup N \subseteq OwnIn(d) /\ d.at \in OwnIn(d) \ (P \cup N)
    BY <1>7, <1>9, <1>12, <2>1, <2>2 DEF Sound
  <2>4. \A b \in P \cup N : d.blocks[b].ends = 0 /\ d.blocks[b].empty
    <3>1. \A b \in P : d.blocks[b].ends = 0 /\ d.blocks[b].empty
      BY <1>1, <1>6, <1>7, <2>1, <2>2 DEF Sound
    <3>2. \A b \in N : d.blocks[b].ends = 0 /\ d.blocks[b].empty
      BY <1>3, <1>6, <1>7
    <3> QED
      BY <3>1, <3>2
  <2>5. \A b \in OwnIn(d) \ (P \cup N) :
          d.blocks[b].ends = 1 \/ (b = d.at /\ d.blocks[b].ends = 0)
    BY <1>1, <1>6, <1>7, <1>12, <2>1, <2>2 DEF Sound
  <2>6. \A b \in OwnIn(d) : d.blocks[b].next \subseteq OwnIn(d)
    <3>1. \A b \in OwnIn(c) : d.blocks[b].next \subseteq OwnIn(c)
      BY <1>1, <1>6, <1>7, <2>1, <2>2 DEF Sound
    <3>2. \A b \in N : d.blocks[b].next = {}
      BY <1>3, <1>6, <1>7
    <3> QED
      BY <1>1, <1>12, <3>1, <3>2
  <2> QED
    BY <2>3, <2>4, <2>5, <2>6 DEF Sound
<1>14. Open(d) <=> Open(c)
  BY <1>1, <1>2, <1>6, <1>7 DEF Open
<1> QED
  BY <1>1, <1>6, <1>7, <1>11, <1>12, <1>13, <1>14
  DEF Good, Size, At, Back, BlockOf

\* The block at the insert point is replaced.
LEMMA SetBlock ==
  ASSUME NEW c, Typed(c), NEW x, Replaces(x, c)
  PROVE  LET d == SetTo(c, x)
         IN  /\ Typed(d) /\ Size(d) = Size(c)
             /\ OwnIn(d) = OwnIn(c) /\ At(d) = At(c) /\ Back(d) = Back(c)
             /\ BlockOf(d, At(c)) = x
             /\ \A b \in 1..Size(c) :
                  b # At(c) => BlockOf(d, b) = BlockOf(c, b)
<1>1. PICK d, q, p, l, a : /\ d = SetTo(c, x) /\ q = c.blocks /\ p = d.blocks
                           /\ l = Len(q) /\ a = c.at
  OBVIOUS
<1>2. /\ c \in Code /\ q \in Seq(Blocks) /\ l \in Nat
      /\ a \in 1..l /\ c.back \in 1..l
      /\ \A b \in 1..l : /\ q[b].fn \in 1..fn /\ q[b].next \subseteq 1..l
                         /\ q[b].entered \in 0..l
  BY <1>1, CodeFacts
<1>0. /\ x \in Blocks /\ x.fn = q[a].fn /\ x.next \subseteq 1..l
      /\ x.entered \in 0..l
  BY <1>1 DEF Replaces
<1>3. PICK r : r = [q EXCEPT ![a] = x]
  OBVIOUS
<1>4. /\ r \in Seq(Blocks) /\ Len(r) = l /\ r[a] = x
      /\ \A b \in 1..l : b # a => r[b] = q[b]
  BY <1>0, <1>1, <1>2, <1>3, ExceptSeq
<1>5. d = [c EXCEPT !.blocks = r]
  BY <1>1, <1>3 DEF SetTo
<1>6. d \in Code /\ p = r /\ d.at = a /\ d.back = c.back
  BY <1>1, <1>2, <1>4, <1>5 DEF Code
<1>7. ASSUME NEW b \in 1..l
      PROVE  /\ p[b].fn \in 1..fn /\ p[b].next \subseteq 1..l
             /\ p[b].entered \in 0..l
  <2>1. CASE b = a
    BY <1>0, <1>2, <1>4, <1>6, <2>1
  <2>2. CASE b # a
    BY <1>2, <1>4, <1>6, <2>2
  <2> QED
    BY <2>1, <2>2
<1>8. Typed(d)
  BY <1>1, <1>2, <1>4, <1>6, <1>7 DEF Typed, BlocksTyped
<1>9. \A b \in 1..l : p[b].fn = q[b].fn
  BY <1>0, <1>1, <1>2, <1>4, <1>6
<1>10. OwnIn(d) = OwnIn(c)
  BY <1>1, <1>4, <1>6, <1>9 DEF OwnIn
<1> QED
  BY <1>1, <1>4, <1>6, <1>8, <1>10 DEF Size, At, Back, BlockOf

\* An instruction that is no terminator.
LEMMA TouchGood ==
  ASSUME NEW c, NEW P, NEW s, Good(c, P, s), NEW x,
         Replaces(x, c), x.ends = BlockOf(c, At(c)).ends,
         x.next = BlockOf(c, At(c)).next
  PROVE  LET d == SetTo(c, x)
         IN  /\ Good(d, P, s) /\ Size(d) = Size(c)
             /\ OwnIn(d) = OwnIn(c) /\ At(d) = At(c) /\ Back(d) = Back(c)
             /\ Open(d) <=> Open(c)
             /\ \A b \in 1..Size(c) :
                  b # At(c) => BlockOf(d, b) = BlockOf(c, b)
<1>0. Typed(c) /\ At(c) \in 1..Size(c)
  BY SizeFacts DEF Good
<1>1. PICK d : d = SetTo(c, x)
  OBVIOUS
<1>2. /\ Typed(d) /\ Size(d) = Size(c)
      /\ OwnIn(d) = OwnIn(c) /\ At(d) = At(c) /\ Back(d) = Back(c)
      /\ BlockOf(d, At(c)) = x
      /\ \A b \in 1..Size(c) : b # At(c) => BlockOf(d, b) = BlockOf(c, b)
  BY <1>0, <1>1, SetBlock
<1>3. /\ OwnIn(c) \subseteq 1..Size(c)
      /\ \A b \in OwnIn(c) : /\ d.blocks[b].ends = c.blocks[b].ends
                             /\ d.blocks[b].next = c.blocks[b].next
  BY <1>2 DEF OwnIn, BlockOf, Size, At
<1>4. Sure(s) => Sound(d, P)
  <2> SUFFICES ASSUME Sure(s) PROVE Sound(d, P)
    OBVIOUS
  <2>1. Sound(c, P)
    BY DEF Good
  <2>2. \A b \in P : b # At(c) /\ b \in 1..Size(c)
    BY <1>3, <2>1 DEF Sound, At
  <2>3. \A b \in P : d.blocks[b].ends = 0 /\ d.blocks[b].empty
    BY <1>2, <2>1, <2>2 DEF Sound, BlockOf
  <2>4. \A b \in OwnIn(d) \ P :
          d.blocks[b].ends = 1 \/ (b = d.at /\ d.blocks[b].ends = 0)
    BY <1>2, <1>3, <2>1 DEF Sound, At
  <2>5. \A b \in OwnIn(d) : d.blocks[b].next \subseteq OwnIn(d)
    BY <1>2, <1>3, <2>1 DEF Sound
  <2> QED
    BY <1>2, <2>1, <2>3, <2>4, <2>5 DEF Sound, At
<1>5. Open(d) <=> Open(c)
  BY <1>2 DEF Open, BlockOf, At
<1> QED
  BY <1>1, <1>2, <1>4, <1>5 DEF Good

\* A terminator of an open block.
LEMMA EndGood ==
  ASSUME NEW c, NEW P, NEW s, Good(c, P, s), NEW T,
         T \subseteq 1..Size(c), Sure(s) => T \subseteq OwnIn(c) /\ Open(c)
  PROVE  LET d == End(c, T)
         IN  /\ Good(d, P, s) /\ Size(d) = Size(c)
             /\ OwnIn(d) = OwnIn(c) /\ At(d) = At(c) /\ Back(d) = Back(c)
             /\ ~Open(d)
             /\ \A b \in 1..Size(c) :
                  b # At(c) => BlockOf(d, b) = BlockOf(c, b)
<1>1. PICK d, x, f : /\ d = End(c, T) /\ f = c.blocks[c.at]
                     /\ x = [f EXCEPT !.ends = f.ends + 1, !.empty = FALSE,
                               !.next = IF f.ends = 0 THEN T ELSE f.next]
  OBVIOUS
<1>2. /\ Typed(c) /\ At(c) \in 1..Size(c) /\ f \in Blocks
      /\ f.next \subseteq 1..Size(c) /\ f.entered \in 0..Size(c)
      /\ Size(c) \in Nat
  BY <1>1, CodeFacts DEF Good, At, Size
<1>3. /\ x \in Blocks /\ x.fn = f.fn /\ x.ends = f.ends + 1
      /\ x.next = IF f.ends = 0 THEN T ELSE f.next
      /\ x.entered = f.entered
  <2>1. T \in SUBSET Nat
    BY <1>2
  <2>2. PICK y \in SUBSET Nat : y = IF f.ends = 0 THEN T ELSE f.next
    BY <1>2, <2>1 DEF Blocks
  <2>3. PICK e \in Nat : e = f.ends + 1
    BY <1>2 DEF Blocks
  <2>4. x = [f EXCEPT !.ends = e, !.empty = FALSE, !.next = y]
    BY <1>1, <2>2, <2>3
  <2>5. x \in Blocks /\ x.ends = e /\ x.next = y
    BY <1>2, <2>4 DEF Blocks
  <2>6. x.fn = f.fn /\ x.entered = f.entered
    BY <1>2, <2>4 DEF Blocks
  <2> QED
    BY <2>2, <2>3, <2>5, <2>6
<1>4. d = SetTo(c, x)
  BY <1>1 DEF End, SetTo
<1>5. /\ Typed(d) /\ Size(d) = Size(c)
      /\ OwnIn(d) = OwnIn(c) /\ At(d) = At(c) /\ Back(d) = Back(c)
      /\ BlockOf(d, At(c)) = x
      /\ \A b \in 1..Size(c) : b # At(c) => BlockOf(d, b) = BlockOf(c, b)
  <2>1. Replaces(x, c)
    BY <1>1, <1>2, <1>3 DEF Replaces, Size
  <2> QED
    BY <1>2, <1>4, <2>1, SetBlock
<1>6. ~Open(d)
  <2>1. x.ends # 0
    BY <1>2, <1>3 DEF Blocks
  <2> QED
    BY <1>5, <2>1 DEF Open, At, BlockOf
<1>7. Sure(s) => Sound(d, P)
  <2> SUFFICES ASSUME Sure(s) PROVE Sound(d, P)
    OBVIOUS
  <2>1. Sound(c, P) /\ T \subseteq OwnIn(c) /\ f.ends = 0
    BY <1>1 DEF Good, Open
  <2>2. OwnIn(c) \subseteq 1..Size(c)
    BY DEF OwnIn, Size
  <2>3. \A b \in P : d.blocks[b].ends = 0 /\ d.blocks[b].empty
    BY <1>5, <2>1, <2>2 DEF Sound, BlockOf, At
  <2>4. \A b \in OwnIn(d) \ P : d.blocks[b].ends = 1
    BY <1>3, <1>5, <2>1, <2>2 DEF Sound, BlockOf, At
  <2>5. \A b \in OwnIn(d) : d.blocks[b].next \subseteq OwnIn(d)
    BY <1>3, <1>5, <2>1, <2>2 DEF Sound, BlockOf
  <2> QED
    BY <1>5, <2>1, <2>3, <2>4, <2>5 DEF Sound, At
<1> QED
  BY <1>1, <1>5, <1>6, <1>7 DEF Good

\* A branch where none is yet.
LEMMA EndOpenGood ==
  ASSUME NEW c, NEW P, NEW s, Good(c, P, s), NEW T,
         T \subseteq 1..Size(c), Sure(s) => T \subseteq OwnIn(c)
  PROVE  LET d == EndOpen(c, T)
         IN  /\ Good(d, P, s) /\ Size(d) = Size(c)
             /\ OwnIn(d) = OwnIn(c) /\ At(d) = At(c) /\ Back(d) = Back(c)
             /\ ~Open(d)
             /\ \A b \in 1..Size(c) :
                  b # At(c) => BlockOf(d, b) = BlockOf(c, b)
<1>1. CASE Open(c)
  BY <1>1, EndGood DEF EndOpen
<1>2. CASE ~Open(c)
  BY <1>2 DEF EndOpen
<1> QED
  BY <1>1, <1>2

\* SetInsertPoint, when the list of blocks ends in l.
MoveTo(c, b, l) == [c EXCEPT !.at = b, !.back = l]

\* The insert point moves to a block that waits.
LEMMA MoveGood ==
  ASSUME NEW c, NEW P, NEW s, Good(c, P, s),
         NEW b \in 1..Size(c), NEW l \in 1..Size(c),
         Sure(s) => ~Open(c) /\ b \in P
  PROVE  LET d == MoveTo(c, b, l)
         IN  /\ Good(d, P \ {b}, s) /\ Size(d) = Size(c)
             /\ OwnIn(d) = OwnIn(c) /\ At(d) = b /\ Back(d) = l
             /\ Sure(s) => Open(d)
             /\ \A i : BlockOf(d, i) = BlockOf(c, i)
<1>1. PICK d : d = MoveTo(c, b, l)
  OBVIOUS
<1>2. c \in Code /\ b \in Nat /\ l \in Nat
  BY CodeFacts DEF Good, Size
<1>3. d \in Code /\ d.blocks = c.blocks /\ d.at = b /\ d.back = l
  BY <1>1, <1>2 DEF Code, MoveTo
<1>4. OwnIn(d) = OwnIn(c)
  BY <1>3 DEF OwnIn
<1>5. Typed(d)
  BY <1>3 DEF Good, Typed, Size
<1>6. Sure(s) => Sound(d, P \ {b})
  <2> SUFFICES ASSUME Sure(s) PROVE Sound(d, P \ {b})
    OBVIOUS
  <2>1. /\ Sound(c, P) /\ b \in P /\ c.blocks[c.at].ends # 0
    BY DEF Good, Open
  <2>2. \A i \in OwnIn(c) \ P : c.blocks[i].ends = 1
    BY <2>1 DEF Sound
  <2> QED
    BY <1>3, <1>4, <2>1, <2>2 DEF Sound
<1>7. Sure(s) => Open(d)
  BY <1>3 DEF Good, Sound, Open
<1> QED
  BY <1>1, <1>3, <1>4, <1>5, <1>6, <1>7 DEF Good, At, Back, Size, BlockOf

----------------------------------------------------------------------------
(***************************************************************************)
(* The steps of a handler.  Code at a stage has m blocks, of which own are *)
(* the function's and those of P wait.                                     *)
(***************************************************************************)
Stage(c, P, s, m, own) ==
  /\ Good(c, P, s) /\ Size(c) = m /\ OwnIn(c) = own

LEMMA StageFacts ==
  ASSUME NEW c, NEW P, NEW s, NEW m, NEW own, Stage(c, P, s, m, own)
  PROVE  /\ m \in Nat /\ own \subseteq 1..m /\ At(c) \in 1..m
         /\ Sure(s) => P \subseteq own
BY SizeFacts DEF Stage

\* The blocks there were are as they were.
LEMMA NewKeeps ==
  ASSUME fn \in Nat \ {0}, NEW c, Typed(c), NEW n \in Nat \ {0}
  PROVE  /\ \A b \in 1..Size(c) : BlockOf(New(c, n), b) = BlockOf(c, b)
         /\ \A b \in NewIds(c, n) : BlockOf(New(c, n), b) = Block(fn)
         /\ At(New(c, n)) = At(c) /\ Back(New(c, n)) = Back(c)
<1>1. PICK P, s : P = {} /\ s = "any"
  OBVIOUS
<1>2. Good(c, P, s)
  BY <1>1 DEF Good, Sure
<1>3. /\ Good(New(c, n), P \cup NewIds(c, n), s)
      /\ At(New(c, n)) = At(c) /\ Back(New(c, n)) = Back(c)
  BY <1>2, NewGood
<1>4. \A b \in 1..Size(c) :
        /\ BlockOf(New(c, n), b) = BlockOf(c, b)
        /\ Good(New(c, n), P \cup NewIds(c, n), s)
  BY <1>2, <1>3, NewGood
<1>5. \A b \in NewIds(c, n) :
        /\ BlockOf(New(c, n), b) = Block(fn)
        /\ Good(New(c, n), P \cup NewIds(c, n), s)
  BY <1>2, <1>3, NewGood
<1> QED
  BY <1>3, <1>4, <1>5

LEMMA NewStage ==
  ASSUME fn \in Nat \ {0}, NEW c, NEW P, NEW s, NEW m, NEW own,
         Stage(c, P, s, m, own), NEW n \in Nat \ {0}
  PROVE  /\ Stage(New(c, n), P \cup (m + 1 .. m + n), s, m + n,
                  own \cup (m + 1 .. m + n))
         /\ Open(New(c, n)) <=> Open(c)
<1>1. NewIds(c, n) = m + 1 .. m + n
  BY DEF Stage, NewIds
<1> QED
  BY <1>1, NewGood DEF Stage

LEMMA NewOne ==
  ASSUME fn \in Nat \ {0}, NEW c, NEW P, NEW s, NEW m, NEW own,
         Stage(c, P, s, m, own)
  PROVE  /\ Stage(New(c, 1), P \cup {m + 1}, s, m + 1, own \cup {m + 1})
         /\ Open(New(c, 1)) <=> Open(c)
<1>1. PICK n \in Nat \ {0} : n = 1
  OBVIOUS
<1>2. m + 1 .. m + n = {m + 1} /\ m \in Nat
  <2>1. m \in Nat
    BY StageFacts
  <2> QED
    BY <1>1, <2>1
<1>3. /\ Stage(New(c, n), P \cup (m + 1 .. m + n), s, m + n,
               own \cup (m + 1 .. m + n))
      /\ Open(New(c, n)) <=> Open(c)
  BY NewStage
<1>4. Stage(New(c, n), P \cup {m + 1}, s, m + n, own \cup {m + 1})
  BY <1>2, <1>3
<1> QED
  BY <1>1, <1>3, <1>4

LEMMA NewTwo ==
  ASSUME fn \in Nat \ {0}, NEW c, NEW P, NEW s, NEW m, NEW own,
         Stage(c, P, s, m, own)
  PROVE  /\ Stage(New(c, 2), P \cup {m + 1, m + 2}, s, m + 2,
                  own \cup {m + 1, m + 2})
         /\ Open(New(c, 2)) <=> Open(c)
<1>1. PICK n \in Nat \ {0} : n = 2
  OBVIOUS
<1>0. PICK N : N = {m + 1, m + 2}
  OBVIOUS
<1>2. m + 1 .. m + n = N
  <2>1. m \in Nat
    BY StageFacts
  <2> QED
    BY <1>0, <1>1, <2>1
<1>3. /\ Stage(New(c, n), P \cup (m + 1 .. m + n), s, m + n,
               own \cup (m + 1 .. m + n))
      /\ Open(New(c, n)) <=> Open(c)
  BY NewStage
<1>4. Stage(New(c, n), P \cup N, s, m + n, own \cup N)
  BY <1>2, <1>3
<1> QED
  BY <1>0, <1>1, <1>3, <1>4

LEMMA NewThree ==
  ASSUME fn \in Nat \ {0}, NEW c, NEW P, NEW s, NEW m, NEW own,
         Stage(c, P, s, m, own)
  PROVE  /\ Stage(New(c, 3), P \cup {m + 1, m + 2, m + 3}, s, m + 3,
                  own \cup {m + 1, m + 2, m + 3})
         /\ Open(New(c, 3)) <=> Open(c)
<1>1. PICK n \in Nat \ {0} : n = 3
  OBVIOUS
<1>0. PICK N : N = {m + 1, m + 2, m + 3}
  OBVIOUS
<1>2. m + 1 .. m + n = N
  <2>1. m \in Nat
    BY StageFacts
  <2> QED
    BY <1>0, <1>1, <2>1
<1>3. /\ Stage(New(c, n), P \cup (m + 1 .. m + n), s, m + n,
               own \cup (m + 1 .. m + n))
      /\ Open(New(c, n)) <=> Open(c)
  BY NewStage
<1>4. Stage(New(c, n), P \cup N, s, m + n, own \cup N)
  BY <1>2, <1>3
<1> QED
  BY <1>0, <1>1, <1>3, <1>4

LEMMA NewFour ==
  ASSUME fn \in Nat \ {0}, NEW c, NEW P, NEW s, NEW m, NEW own,
         Stage(c, P, s, m, own)
  PROVE  /\ Stage(New(c, 4), P \cup {m + 1, m + 2, m + 3, m + 4}, s, m + 4,
                  own \cup {m + 1, m + 2, m + 3, m + 4})
         /\ Open(New(c, 4)) <=> Open(c)
<1>1. PICK n \in Nat \ {0} : n = 4
  OBVIOUS
<1>0. PICK N : N = {m + 1, m + 2, m + 3, m + 4}
  OBVIOUS
<1>2. m + 1 .. m + n = N
  <2>1. m \in Nat
    BY StageFacts
  <2> QED
    BY <1>0, <1>1, <2>1
<1>3. /\ Stage(New(c, n), P \cup (m + 1 .. m + n), s, m + n,
               own \cup (m + 1 .. m + n))
      /\ Open(New(c, n)) <=> Open(c)
  BY NewStage
<1>4. Stage(New(c, n), P \cup N, s, m + n, own \cup N)
  BY <1>2, <1>3
<1> QED
  BY <1>0, <1>1, <1>3, <1>4

LEMMA NewFive ==
  ASSUME fn \in Nat \ {0}, NEW c, NEW P, NEW s, NEW m, NEW own,
         Stage(c, P, s, m, own)
  PROVE  /\ Stage(New(c, 5), P \cup {m + 1, m + 2, m + 3, m + 4, m + 5}, s, m + 5,
                  own \cup {m + 1, m + 2, m + 3, m + 4, m + 5})
         /\ Open(New(c, 5)) <=> Open(c)
<1>1. PICK n \in Nat \ {0} : n = 5
  OBVIOUS
<1>0. PICK N : N = {m + 1, m + 2, m + 3, m + 4, m + 5}
  OBVIOUS
<1>2. m + 1 .. m + n = N
  <2>1. m \in Nat
    BY StageFacts
  <2> QED
    BY <1>0, <1>1, <2>1
<1>3. /\ Stage(New(c, n), P \cup (m + 1 .. m + n), s, m + n,
               own \cup (m + 1 .. m + n))
      /\ Open(New(c, n)) <=> Open(c)
  BY NewStage
<1>4. Stage(New(c, n), P \cup N, s, m + n, own \cup N)
  BY <1>2, <1>3
<1> QED
  BY <1>0, <1>1, <1>3, <1>4

LEMMA EndStage ==
  ASSUME NEW c, NEW P, NEW s, NEW m, NEW own,
         Stage(c, P, s, m, own),
         NEW T, T \subseteq 1..m, Sure(s) => T \subseteq own /\ Open(c)
  PROVE  /\ Stage(End(c, T), P, s, m, own) /\ ~Open(End(c, T))
         /\ At(End(c, T)) = At(c) /\ Back(End(c, T)) = Back(c)
BY EndGood DEF Stage

LEMMA EndOpenStage ==
  ASSUME NEW c, NEW P, NEW s, NEW m, NEW own,
         Stage(c, P, s, m, own),
         NEW T, T \subseteq 1..m, Sure(s) => T \subseteq own
  PROVE  /\ Stage(EndOpen(c, T), P, s, m, own) /\ ~Open(EndOpen(c, T))
         /\ At(EndOpen(c, T)) = At(c) /\ Back(EndOpen(c, T)) = Back(c)
BY EndOpenGood DEF Stage

LEMMA MoveStage ==
  ASSUME NEW c, NEW P, NEW s, NEW m, NEW own,
         Stage(c, P, s, m, own),
         NEW b \in 1..m, NEW l \in 1..m, Sure(s) => ~Open(c) /\ b \in P
  PROVE  /\ Stage(MoveTo(c, b, l), P \ {b}, s, m, own)
         /\ Sure(s) => Open(MoveTo(c, b, l))
         /\ At(MoveTo(c, b, l)) = b
BY MoveGood DEF Stage

LEMMA PlaceStage ==
  ASSUME NEW c, NEW P, NEW s, NEW m, NEW own,
         Stage(c, P, s, m, own),
         NEW b \in 1..m, Sure(s) => ~Open(c) /\ b \in P
  PROVE  /\ Stage(Place(c, b), P \ {b}, s, m, own)
         /\ Sure(s) => Open(Place(c, b))
         /\ At(Place(c, b)) = b
         /\ \A i : BlockOf(Place(c, b), i) = BlockOf(c, i)
<1>1. Place(c, b) = MoveTo(c, b, b)
  <2>1. c = [blocks |-> c.blocks, at |-> c.at, back |-> c.back]
    BY CodeFacts DEF Stage, Good
  <2> QED
    BY <2>1 DEF Place, MoveTo
<1>2. \A i : BlockOf(Place(c, b), i) = BlockOf(c, i)
  BY CodeFacts DEF Stage, Good, Code, Place, BlockOf
<1> QED
  BY <1>1, <1>2, MoveStage

\* Of what an instruction writes besides the terminator nothing is asked here.
LEMMA TouchStage ==
  ASSUME NEW c, NEW P, NEW s, NEW m, NEW own,
         Stage(c, P, s, m, own), NEW x, x \in Blocks,
         x.fn = BlockOf(c, At(c)).fn, x.ends = BlockOf(c, At(c)).ends,
         x.next = BlockOf(c, At(c)).next, x.entered \in 0..m
  PROVE  /\ Stage(SetTo(c, x), P, s, m, own)
         /\ Open(SetTo(c, x)) <=> Open(c)
         /\ At(SetTo(c, x)) = At(c)
<1>1. Replaces(x, c)
  <2>1. c.blocks[c.at].next \subseteq 1..Len(c.blocks)
    BY CodeFacts DEF Stage, Good
  <2> QED
    BY <2>1 DEF Replaces, BlockOf, At, Stage, Size
<1> QED
  BY <1>1, TouchGood DEF Stage

LEMMA StageOf ==
  ASSUME NEW c, NEW P, NEW Q, NEW s, NEW m, NEW own, Stage(c, P, s, m, own),
         Sure(s) => P = Q
  PROVE  Stage(c, Q, s, m, own)
BY DEF Stage, Good

\* A terminator, and on with a block that waits.
LEMMA JumpStage ==
  ASSUME NEW c, NEW P, NEW s, NEW m, NEW own, Stage(c, P, s, m, own),
         NEW T, T \subseteq 1..m, NEW b \in 1..m,
         Sure(s) => T \subseteq own /\ b \in P /\ Open(c)
  PROVE  /\ Stage(Place(End(c, T), b), P \ {b}, s, m, own)
         /\ Sure(s) => Open(Place(End(c, T), b))
         /\ At(Place(End(c, T), b)) = b
<1>1. /\ Stage(End(c, T), P, s, m, own)
      /\ Sure(s) => ~Open(End(c, T))
  <2>1. CASE Sure(s)
    BY <2>1, EndStage
  <2>2. CASE ~Sure(s)
    BY <2>2, EndStage
  <2> QED
    BY <2>1, <2>2
<1> QED
  BY <1>1, PlaceStage

LEMMA JumpOpenStage ==
  ASSUME NEW c, NEW P, NEW s, NEW m, NEW own, Stage(c, P, s, m, own),
         NEW T, T \subseteq 1..m, NEW b \in 1..m,
         Sure(s) => T \subseteq own /\ b \in P
  PROVE  /\ Stage(Place(EndOpen(c, T), b), P \ {b}, s, m, own)
         /\ Sure(s) => Open(Place(EndOpen(c, T), b))
         /\ At(Place(EndOpen(c, T), b)) = b
<1>1. Stage(EndOpen(c, T), P, s, m, own) /\ ~Open(EndOpen(c, T))
  BY EndOpenStage
<1> QED
  BY <1>1, PlaceStage

\* The list of blocks ends in another one.
LEMMA BackStage ==
  ASSUME NEW c, NEW P, NEW s, NEW m, NEW own, Stage(c, P, s, m, own),
         NEW l \in 1..m
  PROVE  /\ Stage([c EXCEPT !.back = l], P, s, m, own)
         /\ Open([c EXCEPT !.back = l]) <=> Open(c)
<1>1. PICK d : d = [c EXCEPT !.back = l]
  OBVIOUS
<1>2. /\ Typed(c) /\ Size(c) = m /\ OwnIn(c) = own
      /\ (Sure(s) => Sound(c, P)) /\ c \in Code /\ c.at \in 1..Len(c.blocks)
  BY CodeFacts DEF Stage, Good
<1>3. d.blocks = c.blocks /\ d.at = c.at /\ d.back = l /\ d \in Code
  <2>1. l \in Nat
    BY <1>2, CodeFacts DEF Size
  <2> QED
    BY <1>1, <1>2, <2>1 DEF Code
<1>4. OwnIn(d) = own /\ Size(d) = m
  BY <1>2, <1>3 DEF OwnIn, Size
<1>5. Typed(d)
  BY <1>2, <1>3 DEF Typed, Size
<1>6. ASSUME Sure(s) PROVE Sound(d, P)
  BY <1>2, <1>3, <1>4, <1>6 DEF Sound
<1>7. Stage(d, P, s, m, own)
  BY <1>4, <1>5, <1>6 DEF Stage, Good
<1>8. Open(d) <=> Open(c)
  BY <1>3 DEF Open
<1> QED
  BY <1>1, <1>7, <1>8

\* Behind a terminator comes a dead block.
LEMMA ReadyStage ==
  ASSUME TInv, open # <<>>, NEW P, NEW s, Good(cg, P, s)
  PROVE  \E m, own :
           /\ Stage(Ready, P, s, m, own) /\ Open(Ready)
           /\ m >= Len(blocks) /\ own \cap (1..Len(blocks)) = OwnIn(cg)
           /\ \A b \in 1..Len(blocks) : BlockOf(Ready, b) = blocks[b]
<1>1. PICK l : l = Len(blocks)
  OBVIOUS
<1>2. /\ fn \in Nat \ {0} /\ Size(cg) = l /\ At(cg) = insert
      /\ l \in Nat /\ insert \in 1..l
      /\ \A b : BlockOf(cg, b) = blocks[b]
      /\ Typed(cg)
  BY <1>1, CodeUnder
<1>3. Stage(cg, P, s, l, OwnIn(cg))
  BY <1>2 DEF Stage
<1>4. OwnIn(cg) \subseteq 1..l
  BY <1>3, StageFacts
<1>5. CASE Open(cg)
  <2>1. Ready = cg
    BY <1>5 DEF Ready
  <2>2. l >= l /\ OwnIn(cg) \cap (1..l) = OwnIn(cg)
    BY <1>2, <1>4
  <2>3. /\ Stage(cg, P, s, l, OwnIn(cg)) /\ Open(cg)
        /\ \A b \in 1..l : BlockOf(cg, b) = blocks[b]
    BY <1>2, <1>3, <1>5
  <2> QED
    BY <1>1, <2>1, <2>2, <2>3
<1>6. CASE ~Open(cg)
  <2>1. PICK n, c, d, own, Q :
          /\ n = l + 1 /\ c = New(cg, 1) /\ d = Place(c, n)
          /\ own = OwnIn(cg) \cup {n} /\ Q = P \cup {n}
    OBVIOUS
  <2>2. Ready = d
    BY <1>2, <1>6, <2>1 DEF Ready, Id, Size
  <2>3. n \in Nat /\ n \in 1..n /\ {n} = l + 1 .. l + 1 /\ n >= l
        /\ n \notin 1..l
    BY <1>2, <2>1
  <2>4. /\ Stage(c, Q, s, n, own) /\ ~Open(c)
        /\ \A b \in 1..l : BlockOf(c, b) = blocks[b]
        /\ BlockOf(c, n) = Block(fn)
    <3>1. /\ Stage(New(cg, 1), P \cup {l + 1}, s, l + 1, OwnIn(cg) \cup {l + 1})
          /\ Open(New(cg, 1)) <=> Open(cg)
      BY <1>2, <1>3, NewOne
    <3>2. PICK k \in Nat \ {0} : k = 1
      OBVIOUS
    <3>3. /\ \A b \in 1..Size(cg) : BlockOf(New(cg, k), b) = BlockOf(cg, b)
          /\ \A b \in NewIds(cg, k) : BlockOf(New(cg, k), b) = Block(fn)
      BY <1>2, NewKeeps
    <3>4. n \in NewIds(cg, k)
      BY <1>2, <2>3, <3>2 DEF NewIds
    <3> QED
      BY <1>2, <1>6, <2>1, <3>1, <3>2, <3>3, <3>4
  <2>5. /\ Stage(d, Q \ {n}, s, n, own) /\ At(d) = n
        /\ \A b : BlockOf(d, b) = BlockOf(c, b)
    <3>1. /\ n \in 1..n /\ (Sure(s) => ~Open(c) /\ n \in Q)
          /\ Stage(c, Q, s, n, own)
      BY <2>1, <2>3, <2>4
    <3>2. /\ Stage(Place(c, n), Q \ {n}, s, n, own) /\ At(Place(c, n)) = n
          /\ \A b : BlockOf(Place(c, n), b) = BlockOf(c, b)
      BY <3>1, PlaceStage
    <3> QED
      BY <2>1, <3>2
  <2>6. Open(d)
    <3>1. BlockOf(d, At(d)).ends = 0
      BY <2>4, <2>5 DEF Block
    <3> QED
      BY <3>1 DEF Open, BlockOf, At
  <2>7. Stage(d, P, s, n, own)
    <3>1. Sure(s) => Q \ {n} = P
      <4>1. Sure(s) => P \subseteq OwnIn(cg)
        BY <1>3, StageFacts
      <4> QED
        BY <1>4, <2>1, <2>3, <4>1
    <3> QED
      BY <2>5, <3>1 DEF Stage, Good
  <2>8. own \cap (1..l) = OwnIn(cg)
    BY <1>4, <2>1, <2>3
  <2> QED
    BY <1>1, <2>2, <2>3, <2>4, <2>5, <2>6, <2>7, <2>8
<1> QED
  BY <1>5, <1>6

----------------------------------------------------------------------------
(***************************************************************************)
(* The stack of handlers q waits for W, in code of n blocks of which own   *)
(* are the function's; L is what the label waits for.                      *)
(***************************************************************************)
StackOK(q, W, n, own, L, s) ==
  /\ StackTyped(q, n)
  /\ Sure(s) => W = Waiting(q, Len(q)) /\ HandlersApart(q, own, L)

Remembers(f) == {f.after, f.continue, f.other}

\* Frames that wait for the same.
SameFrame(f, g) ==
  /\ f.kind = g.kind
  /\ f.after = g.after /\ f.continue = g.continue /\ f.other = g.other

LEMMA SameAwaits ==
  ASSUME NEW f, NEW g, SameFrame(f, g)
  PROVE  /\ Awaits(f) = Awaits(g) /\ (Apart(f) <=> Apart(g))
         /\ Remembers(f) = Remembers(g)
         /\ \A n : RemembersMade(f, n) <=> RemembersMade(g, n)
BY DEF SameFrame, Awaits, Apart, Remembers, RemembersMade

\* What is known of a frame of the stack.
LEMMA StackFacts ==
  ASSUME NEW q, NEW W, NEW n, NEW own, NEW L, NEW s,
         StackOK(q, W, n, own, L, s)
  PROVE  /\ q \in Seq(Frames) /\ Len(q) \in Nat /\ DOMAIN q = 1..Len(q)
         /\ \A i \in 1..Len(q) : /\ q[i] \in Frames
                                 /\ q[i].kind = "function" <=> i = 1
                                 /\ RemembersMade(q[i], n)
         /\ Sure(s) =>
              /\ \A i \in 1..Len(q) :
                   /\ Remembers(q[i]) \subseteq own \cup {0}
                   /\ Apart(q[i]) /\ Awaits(q[i]) \cap L = {}
                   /\ Awaits(q[i]) \subseteq W
              /\ W \cap L = {}
              /\ \A b \in W : \E i \in 1..Len(q) : b \in Awaits(q[i])
              /\ \A i, j \in 1..Len(q) :
                      i # j => Awaits(q[i]) \cap Awaits(q[j]) = {}
<1>1. q \in Seq(Frames) /\ Len(q) \in Nat /\ DOMAIN q = 1..Len(q)
  BY LenProperties DEF StackOK, StackTyped
<1>2. \A i \in 1..Len(q) : q[i] \in Frames
  BY <1>1, ElementOfSeq
<1>3. \A i \in 1..Len(q) : /\ q[i].kind = "function" <=> i = 1
                           /\ RemembersMade(q[i], n)
  BY DEF StackOK, StackTyped
<1>4. ASSUME Sure(s)
      PROVE  /\ \A i \in 1..Len(q) :
                  /\ Remembers(q[i]) \subseteq own \cup {0}
                  /\ Apart(q[i]) /\ Awaits(q[i]) \cap L = {}
             /\ \A i, j \in 1..Len(q) :
                     i # j => Awaits(q[i]) \cap Awaits(q[j]) = {}
  BY <1>4 DEF StackOK, HandlersApart, Remembers
<1>5. ASSUME Sure(s)
      PROVE  \A b : b \in W <=> \E i \in 1..Len(q) : b \in Awaits(q[i])
  BY <1>5 DEF StackOK, Waiting
<1>6. ASSUME Sure(s)
      PROVE  /\ \A i \in 1..Len(q) : Awaits(q[i]) \subseteq W
             /\ W \cap L = {}
  BY <1>4, <1>5, <1>6
<1> QED
  BY <1>1, <1>2, <1>3, <1>4, <1>5, <1>6

\* The same facts make a stack.
LEMMA StackFrom ==
  ASSUME NEW q, NEW W, NEW n, NEW own, NEW L, NEW s, q \in Seq(Frames),
         \A i \in 1..Len(q) : /\ q[i].kind = "function" <=> i = 1
                              /\ RemembersMade(q[i], n),
         Sure(s) => \A i \in 1..Len(q) :
                       /\ Remembers(q[i]) \subseteq own \cup {0}
                       /\ Apart(q[i]) /\ Awaits(q[i]) \cap L = {},
         Sure(s) => \A b : b \in W <=> \E i \in 1..Len(q) : b \in Awaits(q[i]),
         Sure(s) => \A i, j \in 1..Len(q) :
                       i # j => Awaits(q[i]) \cap Awaits(q[j]) = {}
  PROVE  StackOK(q, W, n, own, L, s)
<1>1. StackTyped(q, n)
  BY DEF StackTyped
<1>2. ASSUME Sure(s) PROVE W = Waiting(q, Len(q))
  BY <1>2 DEF Waiting
<1>3. ASSUME Sure(s) PROVE HandlersApart(q, own, L)
  BY <1>3 DEF HandlersApart, Remembers
<1> QED
  BY <1>1, <1>2, <1>3 DEF StackOK

LEMMA MadeGrows ==
  ASSUME NEW f, NEW m \in Nat, NEW n \in Nat, m <= n, RemembersMade(f, m)
  PROVE  RemembersMade(f, n)
<1>1. 0..m \subseteq 0..n
  OBVIOUS
<1> QED
  BY <1>1 DEF RemembersMade

\* Statements make blocks, and the stack stays; so does what it waits for when
\* flags of a handler change.
LEMMA KeepStack ==
  ASSUME NEW q, NEW W, NEW n \in Nat, NEW own, NEW L, NEW s,
         StackOK(q, W, n, own, L, s),
         NEW m \in Nat, n <= m, NEW all, own \subseteq all,
         NEW r \in Seq(Frames), Len(r) = Len(q),
         \A i \in 1..Len(q) : SameFrame(r[i], q[i])
  PROVE  StackOK(r, W, m, all, L, s)
<1>1. \A i \in 1..Len(q) :
        /\ Awaits(r[i]) = Awaits(q[i]) /\ (Apart(r[i]) <=> Apart(q[i]))
        /\ Remembers(r[i]) = Remembers(q[i])
        /\ RemembersMade(r[i], m) <=> RemembersMade(q[i], m)
        /\ r[i].kind = q[i].kind
  BY SameAwaits DEF SameFrame
<1>2. \A i \in 1..Len(r) : /\ r[i].kind = "function" <=> i = 1
                           /\ RemembersMade(r[i], m)
  <2>1. \A i \in 1..Len(q) : /\ q[i].kind = "function" <=> i = 1
                             /\ RemembersMade(q[i], n)
    BY StackFacts
  <2>2. \A i \in 1..Len(q) : RemembersMade(q[i], m)
    BY <2>1, MadeGrows
  <2> QED
    BY <1>1, <2>1, <2>2
<1>3. ASSUME Sure(s)
      PROVE  \A i \in 1..Len(r) :
                /\ Remembers(r[i]) \subseteq all \cup {0}
                /\ Apart(r[i]) /\ Awaits(r[i]) \cap L = {}
  <2>1. \A i \in 1..Len(q) : /\ Remembers(q[i]) \subseteq own \cup {0}
                             /\ Apart(q[i]) /\ Awaits(q[i]) \cap L = {}
    BY <1>3, StackFacts
  <2> QED
    BY <1>1, <2>1
<1>6. Len(r) = Len(q) /\ \A i \in 1..Len(q) : Awaits(r[i]) = Awaits(q[i])
  BY <1>1
<1>4. ASSUME Sure(s)
      PROVE  \A b : b \in W <=> \E i \in 1..Len(r) : b \in Awaits(r[i])
  <2>1. \A b : b \in W <=> \E i \in 1..Len(q) : b \in Awaits(q[i])
    BY <1>4, StackFacts
  <2> QED
    <3>1. PICK l : l = Len(q)
      OBVIOUS
    <3> QED
      BY <1>6, <2>1, <3>1
<1>5. ASSUME Sure(s)
      PROVE  \A i, j \in 1..Len(r) :
                  i # j => Awaits(r[i]) \cap Awaits(r[j]) = {}
  <2>1. \A i, j \in 1..Len(q) : i # j => Awaits(q[i]) \cap Awaits(q[j]) = {}
    BY <1>5, StackFacts
  <2> QED
    <3>1. PICK l : l = Len(q)
      OBVIOUS
    <3> QED
      BY <1>6, <2>1, <3>1
<1> QED
  BY <1>2, <1>3, <1>4, <1>5, StackFrom

LEMMA PushStack ==
  ASSUME NEW q, NEW W, NEW n \in Nat, NEW own, NEW L, NEW s,
         StackOK(q, W, n, own, L, s), q # <<>>,
         NEW m \in Nat, n <= m, NEW all, own \subseteq all,
         NEW f \in Frames, f.kind # "function", RemembersMade(f, m),
         Sure(s) => /\ Remembers(f) \subseteq all \cup {0} /\ Apart(f)
                    /\ Awaits(f) \cap (W \cup L) = {}
  PROVE  StackOK(Append(q, f), W \cup Awaits(f), m, all, L, s)
<1>1. PICK r, l : r = Append(q, f) /\ l = Len(q)
  OBVIOUS
<1>2. /\ r \in Seq(Frames) /\ Len(r) = l + 1 /\ l \in Nat \ {0}
      /\ r[l + 1] = f /\ \A i \in 1..l : r[i] = q[i]
  <2>1. q \in Seq(Frames) /\ l \in Nat
    BY <1>1, StackFacts
  <2> QED
    BY <1>1, <2>1, AppendProperties, EmptySeq
<1>3. \A i \in 1..l + 1 : i \in 1..l \/ i = l + 1
  BY <1>2
<1>4. \A i \in 1..Len(r) : /\ r[i].kind = "function" <=> i = 1
                           /\ RemembersMade(r[i], m)
  <2>1. \A i \in 1..l : /\ q[i].kind = "function" <=> i = 1
                        /\ RemembersMade(q[i], n)
    BY <1>1, StackFacts
  <2>2. \A i \in 1..l : RemembersMade(q[i], m)
    BY <2>1, MadeGrows
  <2>3. l + 1 # 1
    BY <1>2
  <2> QED
    BY <1>2, <1>3, <2>1, <2>2, <2>3
<1>5. ASSUME Sure(s)
      PROVE  \A i \in 1..Len(r) : /\ Remembers(r[i]) \subseteq all \cup {0}
                                  /\ Apart(r[i]) /\ Awaits(r[i]) \cap L = {}
  <2>1. \A i \in 1..l : /\ Remembers(q[i]) \subseteq own \cup {0}
                        /\ Apart(q[i]) /\ Awaits(q[i]) \cap L = {}
    BY <1>1, <1>5, StackFacts
  <2> QED
    BY <1>2, <1>3, <1>5, <2>1
<1>6. ASSUME Sure(s)
      PROVE  \A b : b \in W <=> \E i \in 1..l : b \in Awaits(q[i])
  BY <1>1, <1>6, StackFacts
<1>7. ASSUME Sure(s)
      PROVE  \A b : b \in W \cup Awaits(f)
                      <=> \E i \in 1..Len(r) : b \in Awaits(r[i])
  <2>1. ASSUME NEW b, b \in W \cup Awaits(f)
        PROVE  \E i \in 1..Len(r) : b \in Awaits(r[i])
    <3>1. CASE b \in W
      BY <1>2, <1>6, <1>7, <3>1
    <3>2. CASE b \in Awaits(f)
      BY <1>2, <3>2
    <3> QED
      BY <2>1, <3>1, <3>2
  <2>2. ASSUME NEW b, NEW i \in 1..Len(r), b \in Awaits(r[i])
        PROVE  b \in W \cup Awaits(f)
    BY <1>2, <1>3, <1>6, <1>7, <2>2
  <2> QED
    BY <2>1, <2>2
<1>8. ASSUME Sure(s)
      PROVE  \A i, j \in 1..Len(r) :
                  i # j => Awaits(r[i]) \cap Awaits(r[j]) = {}
  <2>1. ASSUME NEW i \in 1..l, NEW j \in 1..l, i # j
        PROVE  Awaits(q[i]) \cap Awaits(q[j]) = {}
    <3>1. \A g, h \in 1..Len(q) :
            g # h => Awaits(q[g]) \cap Awaits(q[h]) = {}
      BY <1>1, <1>8 DEF StackOK, HandlersApart
    <3> QED
      BY <1>1, <2>1, <3>1
  <2>2. \A i \in 1..l : Awaits(q[i]) \cap Awaits(f) = {}
    BY <1>6, <1>8
  <2> QED
    BY <1>2, <1>3, <2>1, <2>2
<1>9. PICK V : V = W \cup Awaits(f)
  OBVIOUS
<1>10. StackOK(r, V, m, all, L, s)
  BY <1>2, <1>4, <1>5, <1>7, <1>8, <1>9, StackFrom
<1> QED
  BY <1>1, <1>9, <1>10

\* Without the last handler, its blocks are waited for no more.
LEMMA PopStack ==
  ASSUME NEW q, NEW W, NEW n \in Nat, NEW own, NEW L, NEW s,
         StackOK(q, W, n, own, L, s), q # <<>>, q[Len(q)].kind # "function"
  PROVE  LET f == q[Len(q)]
         IN  /\ StackOK(SubSeq(q, 1, Len(q) - 1), W \ Awaits(f), n, own, L, s)
             /\ SubSeq(q, 1, Len(q) - 1) # <<>>
             /\ f \in Frames /\ RemembersMade(f, n)
             /\ Sure(s) => /\ Remembers(f) \subseteq own \cup {0} /\ Apart(f)
                           /\ Awaits(f) \subseteq W /\ Awaits(f) \cap L = {}
                           /\ W \cap L = {}
<1>1. PICK r, l, f : r = SubSeq(q, 1, Len(q) - 1) /\ l = Len(q) /\ f = q[l]
  OBVIOUS
<1>2. /\ q \in Seq(Frames) /\ l \in Nat
      /\ \A i \in 1..l : /\ q[i] \in Frames
                         /\ q[i].kind = "function" <=> i = 1
                         /\ RemembersMade(q[i], n)
  BY <1>1, StackFacts
<1>3. l > 1
  <2>1. l # 0
    BY <1>1, <1>2, EmptySeq
  <2>2. l # 1
    BY <1>1, <1>2
  <2> QED
    BY <1>2, <2>1, <2>2
<1>4. r \in Seq(Frames) /\ Len(r) = l - 1 /\ \A i \in 1..l - 1 : r[i] = q[i]
  <2>1. \A i \in 1..l - 1 : q[i] \in Frames
    BY <1>2
  <2> QED
    BY <1>1, <1>2, <1>3, <2>1, SubSeqProperties
<1>5. l \in 1..l /\ \A i \in 1..l : i \in 1..l - 1 \/ i = l
  BY <1>2, <1>3
<1>6. \A i \in 1..l - 1 : i \in 1..l /\ i # l
  BY <1>2
<1>7. ASSUME Sure(s)
      PROVE  /\ \A i \in 1..l : /\ Remembers(q[i]) \subseteq own \cup {0}
                                /\ Apart(q[i]) /\ Awaits(q[i]) \cap L = {}
                                /\ Awaits(q[i]) \subseteq W
             /\ W \cap L = {}
             /\ \A b \in W : \E i \in 1..l : b \in Awaits(q[i])
             /\ \A i, j \in 1..l : i # j => Awaits(q[i]) \cap Awaits(q[j]) = {}
  <2>1. \A i \in 1..l : /\ Remembers(q[i]) \subseteq own \cup {0}
                        /\ Apart(q[i]) /\ Awaits(q[i]) \cap L = {}
                        /\ Awaits(q[i]) \subseteq W
    BY <1>1, <1>7, StackFacts
  <2>2. W \cap L = {}
    BY <1>7, StackFacts
  <2>3. \A b \in W : \E i \in 1..l : b \in Awaits(q[i])
    BY <1>1, <1>7, StackFacts
  <2>4. \A i, j \in 1..l : i # j => Awaits(q[i]) \cap Awaits(q[j]) = {}
    BY <1>1, <1>7, StackFacts
  <2> QED
    BY <2>1, <2>2, <2>3, <2>4
<1>8. StackOK(r, W \ Awaits(f), n, own, L, s)
  <2>1. \A i \in 1..Len(r) : /\ r[i].kind = "function" <=> i = 1
                             /\ RemembersMade(r[i], n)
    BY <1>2, <1>4, <1>6
  <2>2. ASSUME Sure(s)
        PROVE  \A i \in 1..Len(r) : /\ Remembers(r[i]) \subseteq own \cup {0}
                                    /\ Apart(r[i]) /\ Awaits(r[i]) \cap L = {}
    BY <1>4, <1>6, <1>7, <2>2
  <2>3. ASSUME Sure(s)
        PROVE  \A b : b \in W \ Awaits(f)
                        <=> \E i \in 1..Len(r) : b \in Awaits(r[i])
    <3>1. ASSUME NEW b, b \in W \ Awaits(f)
          PROVE  \E i \in 1..Len(r) : b \in Awaits(r[i])
      <4>1. PICK i \in 1..l : b \in Awaits(q[i])
        BY <1>7, <2>3, <3>1
      <4>2. i \in 1..l - 1
        BY <1>1, <1>5, <3>1, <4>1
      <4> QED
        BY <1>4, <4>1, <4>2
    <3>2. ASSUME NEW i \in 1..l - 1, NEW b, b \in Awaits(r[i])
          PROVE  b \in W \ Awaits(f)
      <4>1. i \in 1..l /\ i # l /\ l \in 1..l /\ b \in Awaits(q[i])
        BY <1>4, <1>5, <1>6, <3>2
      <4> QED
        BY <1>1, <1>7, <2>3, <4>1
    <3> QED
      BY <1>4, <3>1, <3>2
  <2>4. ASSUME Sure(s)
        PROVE  \A i, j \in 1..Len(r) :
                 i # j => Awaits(r[i]) \cap Awaits(r[j]) = {}
    BY <1>4, <1>6, <1>7, <2>4
  <2> QED
    BY <1>4, <2>1, <2>2, <2>3, <2>4, StackFrom
<1>9. r # <<>>
  BY <1>2, <1>3, <1>4, EmptySeq
<1>10. f \in Frames /\ RemembersMade(f, n)
  BY <1>1, <1>2, <1>5
<1>11. ASSUME Sure(s)
       PROVE  /\ Remembers(f) \subseteq own \cup {0} /\ Apart(f)
              /\ Awaits(f) \subseteq W /\ Awaits(f) \cap L = {}
              /\ W \cap L = {}
  BY <1>1, <1>5, <1>7, <1>11
<1> QED
  BY <1>1, <1>8, <1>9, <1>10, <1>11

\* The last handler goes on with its next part.
LEMMA ReplaceStack ==
  ASSUME NEW q, q \in Seq(Frames), q # <<>>, NEW f \in Frames
  PROVE  [q EXCEPT ![Len(q)] = f] = Append(SubSeq(q, 1, Len(q) - 1), f)
<1>1. PICK r, l, p : /\ r = SubSeq(q, 1, Len(q) - 1) /\ l = Len(q)
                     /\ p = [q EXCEPT ![l] = f]
  OBVIOUS
<1>2. l \in Nat \ {0} /\ DOMAIN q = 1..l
  BY <1>1, LenProperties, EmptySeq
<1>3. p \in Seq(Frames) /\ Len(p) = l /\ p[l] = f
      /\ \A i \in 1..l : i # l => p[i] = q[i]
  BY <1>1, <1>2, ExceptSeq
<1>4. r \in Seq(Frames) /\ Len(r) = l - 1 /\ \A i \in 1..l - 1 : r[i] = q[i]
  <2>1. \A i \in 1..l - 1 : q[i] \in Frames
    BY <1>1, <1>2, ElementOfSeq
  <2> QED
    BY <1>1, <1>2, <2>1, SubSeqProperties
<1>5. /\ Append(r, f) \in Seq(Frames) /\ Len(Append(r, f)) = l
      /\ Append(r, f)[l] = f /\ \A i \in 1..l - 1 : Append(r, f)[i] = r[i]
  BY <1>2, <1>4, AppendProperties
<1>6. \A i \in 1..l : p[i] = Append(r, f)[i]
  <2>1. \A i \in 1..l : i = l \/ (i \in 1..l - 1 /\ i # l)
    BY <1>2
  <2> QED
    BY <1>3, <1>4, <1>5, <2>1
<1> QED
  BY <1>1, <1>3, <1>5, <1>6, SeqEqual

----------------------------------------------------------------------------
(* From the invariant to the steps of a handler, and back                  *)

\* s is at most as sure as the generator was careful.
LEMMA Under ==
  ASSUME WInv, open # <<>>, NEW s, Sure(s) => ~careless
  PROVE  LET W == Waiting(open, Len(open))
             L == LabelWaits
             l == Len(blocks)
         IN  /\ Stage(cg, W \cup L, s, l, OwnIn(cg))
             /\ StackOK(open, W, l, OwnIn(cg), L, s)
             /\ l \in Nat /\ fn \in Nat \ {0} /\ Typed(cg)
             /\ OwnIn(cg) \subseteq 1..l
             /\ Sure(s) => /\ W \subseteq OwnIn(cg) /\ L \subseteq OwnIn(cg)
                           /\ W \cap L = {} /\ (L # {} => used)
<1>1. PICK W, L, l : /\ W = Waiting(open, Len(open)) /\ L = LabelWaits
                     /\ l = Len(blocks)
  OBVIOUS
<1>2. /\ Typed(cg) /\ fn \in Nat \ {0} /\ Size(cg) = l /\ l \in Nat
  BY <1>1, CodeUnder DEF WInv
<1>3. Sure(s) => /\ Sound(cg, W \cup L) /\ HandlersApart(open, OwnIn(cg), L)
                 /\ (L # {} => used)
  BY <1>1 DEF WInv, InBody
<1>4. Stage(cg, W \cup L, s, l, OwnIn(cg))
  BY <1>2, <1>3 DEF Stage, Good
<1>5. StackOK(open, W, l, OwnIn(cg), L, s)
  BY <1>1, <1>3 DEF StackOK, WInv, TInv
<1>6. OwnIn(cg) \subseteq 1..l /\ (Sure(s) => W \cup L \subseteq OwnIn(cg))
  BY <1>4, StageFacts
<1>7. Sure(s) => W \cap L = {}
  BY <1>5, StackFacts
<1>8. Sure(s) => W \subseteq OwnIn(cg) /\ L \subseteq OwnIn(cg)
  BY <1>6
<1> QED
  BY <1>1, <1>2, <1>3, <1>4, <1>5, <1>6, <1>7, <1>8

LEMMA SameStack ==
  ASSUME NEW q, NEW W, NEW n \in Nat, NEW own, NEW L, NEW s,
         StackOK(q, W, n, own, L, s),
         NEW m \in Nat, n <= m, NEW all, own \subseteq all
  PROVE  StackOK(q, W, m, all, L, s)
<1>1. q \in Seq(Frames) /\ \A i \in 1..Len(q) : SameFrame(q[i], q[i])
  BY StackFacts DEF SameFrame
<1> QED
  BY <1>1, KeepStack

\* What a handler starts from: code c of m blocks, of which own are the
\* function's, W are waited for by the handlers and L by the label.
Starts(c, W, L, s, m, own) ==
  /\ Stage(c, W \cup L, s, m, own) /\ StackOK(open, W, m, own, L, s)
  /\ L = LabelWaits /\ m \in Nat /\ fn \in Nat \ {0}
  /\ Len(blocks) \in Nat /\ Len(blocks) <= m
  /\ own \subseteq 1..m /\ own \cap (1..Len(blocks)) = OwnIn(cg)
  /\ Sure(s) => /\ ~careless /\ (L # {} => used)
                /\ W \subseteq own /\ L \subseteq own /\ W \cap L = {}

LEMMA UnderStarts ==
  ASSUME WInv, open # <<>>, NEW s, Sure(s) => ~careless
  PROVE  \E W, L : Starts(cg, W, L, s, Len(blocks), OwnIn(cg))
<1>1. PICK W, L, l : /\ W = Waiting(open, Len(open)) /\ L = LabelWaits
                     /\ l = Len(blocks)
  OBVIOUS
<1>2. /\ Stage(cg, W \cup L, s, l, OwnIn(cg))
      /\ StackOK(open, W, l, OwnIn(cg), L, s)
      /\ l \in Nat /\ fn \in Nat \ {0} /\ OwnIn(cg) \subseteq 1..l
      /\ Sure(s) => /\ W \subseteq OwnIn(cg) /\ L \subseteq OwnIn(cg)
                    /\ W \cap L = {} /\ (L # {} => used)
  BY <1>1, Under
<1>3. Starts(cg, W, L, s, Len(blocks), OwnIn(cg))
  BY <1>1, <1>2 DEF Starts
<1> QED
  BY <1>3

\* A statement begins in an open block.
LEMMA ReadyStarts ==
  ASSUME WInv, open # <<>>, NEW s, Sure(s) => ~careless
  PROVE  \E W, L, m, own :
           /\ Starts(Ready, W, L, s, m, own) /\ Open(Ready)
           /\ \A b \in 1..Len(blocks) : BlockOf(Ready, b) = blocks[b]
<1>1. PICK W, L : Starts(cg, W, L, s, Len(blocks), OwnIn(cg))
  BY UnderStarts
<1>2. PICK l : l = Len(blocks)
  OBVIOUS
<1>3. /\ Stage(cg, W \cup L, s, l, OwnIn(cg))
      /\ StackOK(open, W, l, OwnIn(cg), L, s)
      /\ L = LabelWaits /\ l \in Nat /\ fn \in Nat \ {0}
      /\ OwnIn(cg) \subseteq 1..l
      /\ Sure(s) => /\ ~careless /\ (L # {} => used)
                    /\ W \subseteq OwnIn(cg) /\ L \subseteq OwnIn(cg)
                    /\ W \cap L = {}
  BY <1>1, <1>2 DEF Starts
<1>4. Good(cg, W \cup L, s)
  BY <1>3 DEF Stage
<1>5. PICK m, own :
        /\ Stage(Ready, W \cup L, s, m, own) /\ Open(Ready)
        /\ m >= Len(blocks) /\ own \cap (1..Len(blocks)) = OwnIn(cg)
        /\ \A b \in 1..Len(blocks) : BlockOf(Ready, b) = blocks[b]
  BY <1>4, ReadyStage DEF WInv
<1>6. m \in Nat /\ own \subseteq 1..m
  BY <1>5, StageFacts
<1>7. OwnIn(cg) \subseteq own /\ l <= m
  BY <1>2, <1>3, <1>5, <1>6
<1>8. StackOK(open, W, m, own, L, s)
  BY <1>3, <1>6, <1>7, SameStack
<1>9. Starts(Ready, W, L, s, m, own)
  BY <1>2, <1>3, <1>5, <1>6, <1>7, <1>8 DEF Starts
<1> QED
  BY <1>5, <1>9

\* The code that a handler emits.
LEMMA Emitted ==
  ASSUME NEW d, Emit(d), Typed(d), fn' = fn
  PROVE  cg' = d /\ Len(blocks') = Size(d) /\ blocks' = d.blocks
         /\ insert' = d.at /\ back' = d.back /\ OwnIn(cg)' = OwnIn(d)
<1>1. blocks' = d.blocks /\ insert' = d.at /\ back' = d.back
  BY DEF Emit
<1>2. d = [blocks |-> d.blocks, at |-> d.at, back |-> d.back]
  BY CodeFacts
<1>3. cg' = d
  BY <1>1, <1>2 DEF cg
<1>4. OwnIn(cg)' = OwnIn(d)
  BY <1>3 DEF OwnIn
<1> QED
  BY <1>1, <1>3, <1>4 DEF Size

\* A step inside a function that leaves sound code and a sound stack.
LEMMA Finish ==
  ASSUME WInv, open # <<>>, NEW W, NEW L, NEW m, NEW own, NEW s, NEW d,
         Emit(d), Stage(d, W \cup L, s, m, own),
         StackOK(open', W, m, own, L, s), open' # <<>>, fn' = fn,
         text' \in 0..MaxText, label' \in 0..m, live' \in BOOLEAN,
         arrived' \in BOOLEAN, revived' \in BOOLEAN, used' \in BOOLEAN,
         defined' \in BOOLEAN, careless' \in BOOLEAN, defined' => label' # 0,
         ~careless' => Sure(s),
         Sure(s) => /\ L = {b \in own : b = label' /\ ~defined'}
                    /\ (L # {} => used')
  PROVE  WInv'
<1>1. /\ Typed(d) /\ Size(d) = m /\ OwnIn(d) = own
      /\ Sure(s) => Sound(d, W \cup L)
  BY DEF Stage, Good
<1>2. /\ cg' = d /\ Len(blocks') = m /\ blocks' = d.blocks
      /\ insert' = d.at /\ back' = d.back /\ OwnIn(cg)' = own
  BY <1>1, Emitted
<1>3. /\ BlocksTyped(d.blocks, fn) /\ m \in Nat
      /\ d.at \in 1..m /\ d.back \in 1..m
  BY <1>1, <1>2, CodeFacts DEF Typed
<1>4. StackTyped(open', m)
  BY DEF StackOK
<1>5. TInv'
  <2>1. /\ insert' \in 0..Len(blocks') /\ back' \in 0..Len(blocks')
        /\ insert' > 0 /\ back' > 0
    BY <1>2, <1>3
  <2>2. BlocksTyped(blocks', fn') /\ StackTyped(open', Len(blocks'))
    BY <1>2, <1>3, <1>4
  <2>3. fn' \in 0..Functions /\ (open' # <<>> => fn' > 0)
    BY DEF WInv, TInv
  <2>4. label' \in 0..Len(blocks')
    BY <1>2
  <2> QED
    BY <2>1, <2>2, <2>3, <2>4 DEF TInv
<1>6. ASSUME ~careless' PROVE InBody'
  <2>1. Sure(s)
    BY <1>6
  <2>2. LabelWaits' = L
    BY <1>2, <2>1 DEF LabelWaits
  <2>3. Waiting(open', Len(open')) = W /\ HandlersApart(open', own, L)
    BY <2>1 DEF StackOK
  <2>4. PICK P : P = W \cup L
    OBVIOUS
  <2>5. Sound(cg, P)'
    BY <1>1, <1>2, <2>1, <2>4 DEF Sound
  <2>6. HandlersApart(open', OwnIn(cg)', LabelWaits')
    BY <1>2, <2>2, <2>3
  <2>7. P = (Waiting(open, Len(open)) \cup LabelWaits)'
    BY <2>2, <2>3, <2>4
  <2>8. Sound(cg, Waiting(open, Len(open)) \cup LabelWaits)'
    BY <2>5, <2>7
  <2> QED
    BY <2>1, <2>2, <2>6, <2>8 DEF InBody
<1>7. WellFormed'
  BY DEF WellFormed, Finished
<1> QED
  BY <1>5, <1>6, <1>7 DEF WInv

\* A step that leaves the label and the jumps of the source as they are.
Grows(m, own, n, all) ==
  /\ n \in Nat /\ m <= n /\ own \subseteq all /\ all \cap (1..m) = own

LEMMA FinishSame ==
  ASSUME WInv, open # <<>>,
         NEW c, NEW W, NEW L, NEW s, NEW m, NEW own,
         Starts(c, W, L, s, m, own),
         NEW d, NEW V, NEW n, NEW all, Stage(d, V \cup L, s, n, all),
         Grows(m, own, n, all),
         Emit(d), StackOK(open', V, n, all, L, s), open' # <<>>,
         UNCHANGED <<fn, label, source>>, text' \in 0..MaxText,
         live' \in BOOLEAN, careless' \in BOOLEAN, ~careless' => Sure(s)
  PROVE  WInv'
<1>1. /\ label' = label /\ defined' = defined /\ used' = used
      /\ arrived' = arrived /\ revived' = revived /\ fn' = fn
  BY DEF source
<1>2. /\ label \in 0..Len(blocks) /\ arrived \in BOOLEAN /\ revived \in BOOLEAN
      /\ used \in BOOLEAN
      /\ defined \in BOOLEAN /\ (defined => label # 0)
  BY DEF WInv, TInv
<1>3. /\ m \in Nat /\ Len(blocks) \in Nat /\ Len(blocks) <= m
      /\ own \cap (1..Len(blocks)) = OwnIn(cg) /\ L = LabelWaits
      /\ Sure(s) => (L # {} => used)
  BY DEF Starts
<1>4. n \in Nat /\ m <= n /\ own \subseteq all /\ all \cap (1..m) = own
  BY DEF Grows
<1>5. label' \in 0..n
  BY <1>1, <1>2, <1>3, <1>4
<1>6. all \cap (1..Len(blocks)) = OwnIn(cg)
  BY <1>3, <1>4
<1>7. all \subseteq 1..n
  BY StageFacts
<1>8. L = {b \in all : b = label' /\ ~defined'}
  <2>1. L = {b \in OwnIn(cg) : b = label /\ ~defined}
    BY <1>3 DEF LabelWaits
  <2>2. ASSUME NEW b \in all, b = label PROVE b \in OwnIn(cg)
    BY <1>2, <1>3, <1>4, <1>6, <1>7, <2>2
  <2>3. OwnIn(cg) \subseteq all
    BY <1>6
  <2> QED
    BY <1>1, <2>1, <2>2, <2>3
<1>9. Sure(s) => (L # {} => used')
  BY <1>1, <1>3
<1> QED
  BY <1>1, <1>2, <1>4, <1>5, <1>8, <1>9, Finish


\* A handler begins and remembers the frame f.
Pushes(f) ==
  /\ Statement /\ open' = Append(open, f) /\ live' = live
  /\ UNCHANGED <<fn, label, source>>

LEMMA EnterKeeps ==
  ASSUME WInv,
         NEW c, NEW W, NEW L, NEW s, NEW m, NEW own,
         Starts(c, W, L, s, m, own),
         NEW f \in Frames, f.kind # "function", Pushes(f),
         NEW d, NEW n, NEW all,
         Stage(d, (W \cup Awaits(f)) \cup L, s, n, all), Grows(m, own, n, all),
         Emit(d), Checked, ~careless => Sure(s),
         RemembersMade(f, n),
         Sure(s) => /\ Remembers(f) \subseteq all \cup {0} /\ Apart(f)
                    /\ Awaits(f) \cap (W \cup L) = {}
  PROVE  WInv'
<1>1. /\ open # <<>> /\ text' \in 0..MaxText
      /\ open' = Append(open, f) /\ live' = live
      /\ UNCHANGED <<fn, label, source>>
  BY BoundsAssumption DEF WInv, TInv, Pushes, Statement
<1>2. /\ m \in Nat /\ n \in Nat /\ m <= n /\ own \subseteq all
      /\ StackOK(open, W, m, own, L, s)
  BY DEF Starts, Grows
<1>3. StackOK(Append(open, f), W \cup Awaits(f), n, all, L, s)
  BY <1>1, <1>2, PushStack
<1>4. StackOK(open', W \cup Awaits(f), n, all, L, s)
  BY <1>1, <1>3
<1>5. open \in Seq(Frames)
  BY <1>2, StackFacts
<1>6. open' # <<>>
  BY <1>1, <1>5
<1>7. /\ live' \in BOOLEAN /\ careless' \in BOOLEAN
      /\ ~careless' => Sure(s)
  BY <1>1 DEF WInv, TInv, Checked
<1> QED
  BY <1>1, <1>4, <1>6, <1>7, FinishSame

\* The last handler of the stack.
LEMMA TopFacts ==
  ASSUME open # <<>>, NEW f, f = Top, f.kind # "function",
         NEW c, NEW W, NEW L, NEW s, NEW m, NEW own, Starts(c, W, L, s, m, own)
  PROVE  /\ StackOK(SubSeq(open, 1, Len(open) - 1), W \ Awaits(f), m, own, L, s)
         /\ SubSeq(open, 1, Len(open) - 1) # <<>>
         /\ f \in Frames /\ RemembersMade(f, m)
         /\ Sure(s) => /\ Remembers(f) \subseteq own \cup {0} /\ Apart(f)
                       /\ Awaits(f) \subseteq W /\ Awaits(f) \cap L = {}
                       /\ W \cap L = {}
<1>1. /\ StackOK(open, W, m, own, L, s) /\ m \in Nat
      /\ open[Len(open)].kind # "function" /\ f = open[Len(open)]
  BY DEF Starts, Top
<1>2. LET h == open[Len(open)]
      IN  /\ StackOK(SubSeq(open, 1, Len(open) - 1), W \ Awaits(h), m, own, L, s)
          /\ SubSeq(open, 1, Len(open) - 1) # <<>>
          /\ h \in Frames /\ RemembersMade(h, m)
          /\ Sure(s) => /\ Remembers(h) \subseteq own \cup {0} /\ Apart(h)
                        /\ Awaits(h) \subseteq W /\ Awaits(h) \cap L = {}
                        /\ W \cap L = {}
  <2> HIDE <1>1
  <2> QED
    BY <1>1, PopStack
<1> QED
  BY <1>1, <1>2

LEMMA TopAwaits ==
  ASSUME open # <<>>, NEW f, f = Top, f.kind # "function",
         NEW c, NEW W, NEW L, NEW s, NEW m, NEW own,
         Starts(c, W, L, s, m, own),
         Sure(s)
  PROVE  /\ Remembers(f) \subseteq own \cup {0} /\ Apart(f)
         /\ Awaits(f) \subseteq W /\ Awaits(f) \cap L = {}
<1>1. /\ StackOK(open, W, m, own, L, s)
      /\ f = open[Len(open)] /\ Len(open) \in 1..Len(open)
  BY StackFacts DEF Starts, Top
<1> QED
  BY <1>1, StackFacts

\* A handler ends.
Pops ==
  /\ open' = SubSeq(open, 1, Len(open) - 1) /\ live' \in BOOLEAN
  /\ UNCHANGED <<fn, label, source, text>>

LEMMA LeaveKeeps ==
  ASSUME WInv, open # <<>>, NEW f, f = Top, f.kind # "function",
         NEW c, NEW W, NEW L, NEW s, NEW m, NEW own,
         Starts(c, W, L, s, m, own),
         Pops,
         NEW d, NEW n, NEW all,
         Stage(d, (W \ Awaits(f)) \cup L, s, n, all), Grows(m, own, n, all),
         Emit(d), careless' \in BOOLEAN, ~careless' => Sure(s)
  PROVE  WInv'
<1>1. /\ open' = SubSeq(open, 1, Len(open) - 1) /\ live' \in BOOLEAN
      /\ text' = text /\ UNCHANGED <<fn, label, source>>
  BY DEF Pops
<1>2. /\ StackOK(open', W \ Awaits(f), m, own, L, s) /\ open' # <<>>
  BY <1>1, TopFacts
<1>3. /\ m \in Nat /\ n \in Nat /\ m <= n /\ own \subseteq all
  BY DEF Starts, Grows
<1>4. StackOK(open', W \ Awaits(f), n, all, L, s)
  BY <1>2, <1>3, SameStack
<1>5. text' \in 0..MaxText
  BY <1>1 DEF WInv, TInv
<1> QED
  BY <1>1, <1>2, <1>4, <1>5, FinishSame

\* A handler goes on with its next part, and remembers g.
GoesOn(g) ==
  /\ Statement
  /\ open' = [open EXCEPT ![Len(open)] = [g EXCEPT !.out = g.out \/ live]]
  /\ live' \in BOOLEAN /\ UNCHANGED <<fn, label, source>>

LEMMA PartKeeps ==
  ASSUME WInv, open # <<>>, NEW f, f = Top, f.kind # "function",
         NEW c, NEW W, NEW L, NEW s, NEW m, NEW own,
         Starts(c, W, L, s, m, own),
         NEW g \in Frames, g.kind # "function", GoesOn(g),
         NEW d, NEW n, NEW all,
         Stage(d, ((W \ Awaits(f)) \cup Awaits(g)) \cup L, s, n, all),
         Grows(m, own, n, all),
         Emit(d), Checked, ~careless => Sure(s), RemembersMade(g, n),
         Sure(s) => /\ Remembers(g) \subseteq all \cup {0} /\ Apart(g)
                    /\ Awaits(g) \cap ((W \ Awaits(f)) \cup L) = {}
  PROVE  WInv'
<1>1. PICK o : o = [g EXCEPT !.out = g.out \/ live]
  OBVIOUS
<1>2. /\ open' = [open EXCEPT ![Len(open)] = o] /\ live' \in BOOLEAN
      /\ text' \in 0..MaxText /\ UNCHANGED <<fn, label, source>>
  BY <1>1, BoundsAssumption DEF WInv, TInv, GoesOn, Statement
<1>3. /\ o \in Frames /\ SameFrame(o, g) /\ o.kind # "function"
  <2>1. live \in BOOLEAN
    BY DEF WInv, TInv
  <2> QED
    BY <1>1, <2>1 DEF Frames, SameFrame
<1>4. /\ Awaits(o) = Awaits(g) /\ (Apart(o) <=> Apart(g))
      /\ Remembers(o) = Remembers(g) /\ RemembersMade(o, n)
  BY <1>3, SameAwaits
<1>5. PICK p, X : /\ p = SubSeq(open, 1, Len(open) - 1) /\ X = W \ Awaits(f)
  OBVIOUS
<1>6. StackOK(p, X, m, own, L, s) /\ p # <<>>
  BY <1>5, TopFacts
<1>7. /\ m \in Nat /\ n \in Nat /\ m <= n /\ own \subseteq all
      /\ StackOK(open, W, m, own, L, s)
  BY DEF Starts, Grows
<1>8. open \in Seq(Frames) /\ p \in Seq(Frames)
  BY <1>6, <1>7, StackFacts
<1>9. open' = Append(p, o)
  BY <1>2, <1>3, <1>5, <1>8, ReplaceStack
<1>10. Sure(s) => /\ Remembers(o) \subseteq all \cup {0} /\ Apart(o)
                  /\ Awaits(o) \cap (X \cup L) = {}
  BY <1>4, <1>5
<1>11. StackOK(Append(p, o), X \cup Awaits(o), n, all, L, s)
  BY <1>3, <1>4, <1>6, <1>7, <1>10, PushStack
<1>12. StackOK(open', (W \ Awaits(f)) \cup Awaits(g), n, all, L, s)
  BY <1>4, <1>5, <1>9, <1>11
<1>13. open' # <<>>
  BY <1>3, <1>8, <1>9
<1>14. /\ careless' \in BOOLEAN
       /\ ~careless' => Sure(s)
  BY DEF WInv, TInv, Checked
<1> QED
  BY <1>2, <1>12, <1>13, <1>14, FinishSame

----------------------------------------------------------------------------
(* The simple statements *)

LEMMA Careful ==
  ASSUME WInv
  PROVE  \E s : Sure(s) <=> ~careless
<1>1. CASE careless
  <2>1. ~Sure("any")
    BY DEF Sure
  <2> QED
    BY <1>1, <2>1
<1>2. CASE ~careless
  <2>1. Sure("sound")
    BY DEF Sure
  <2> QED
    BY <1>2, <2>1
<1> QED
  BY <1>1, <1>2

\* A statement that changes no more of the handlers than their flags.
LEMMA SimpleKeeps ==
  ASSUME WInv, Statement,
         NEW c, NEW W, NEW L, NEW s, NEW m, NEW own,
         Starts(c, W, L, s, m, own),
         NEW d, NEW n, NEW all, Stage(d, W \cup L, s, n, all),
         Grows(m, own, n, all),
         Emit(d), UNCHANGED <<fn, label, source>>, live' \in BOOLEAN,
         careless' = careless, ~careless => Sure(s),
         open' \in Seq(Frames), Len(open') = Len(open),
         \A i \in 1..Len(open) : SameFrame(open'[i], open[i])
  PROVE  WInv'
<1>1. open # <<>> /\ text' \in 0..MaxText
  BY BoundsAssumption DEF WInv, TInv, Statement
<1>2. /\ m \in Nat /\ n \in Nat /\ m <= n /\ own \subseteq all
      /\ StackOK(open, W, m, own, L, s)
  BY DEF Starts, Grows
<1>3. StackOK(open', W, n, all, L, s)
  BY <1>2, KeepStack
<1>4. open' # <<>>
  <2>1. open \in Seq(Frames)
    BY <1>2, StackFacts
  <2> QED
    BY <1>1, <2>1
<1>5. careless' \in BOOLEAN /\ (~careless' => Sure(s))
  BY DEF WInv, TInv
<1> QED
  BY <1>1, <1>3, <1>4, <1>5, FinishSame

LEMMA OpenSame ==
  ASSUME WInv, open' = open
  PROVE  /\ open' \in Seq(Frames) /\ Len(open') = Len(open)
         /\ \A i \in 1..Len(open) : SameFrame(open'[i], open[i])
BY DEF WInv, TInv, StackTyped, SameFrame

LEMMA GrowsNot ==
  ASSUME NEW c, NEW W, NEW L, NEW s, NEW m, NEW own, Starts(c, W, L, s, m, own)
  PROVE  Grows(m, own, m, own)
<1>1. m \in Nat /\ own \subseteq 1..m
  BY DEF Starts
<1>2. m <= m
  BY <1>1
<1>3. own \cap (1..m) = own
  BY <1>1
<1> QED
  BY <1>1, <1>2, <1>3 DEF Grows

LEMMA StraightKeeps == ASSUME WInv, Straight PROVE WInv'
<1>1. open # <<>> /\ Statement
  BY DEF Straight, Statement
<1>2. PICK s : Sure(s) <=> ~careless
  BY Careful
<1>3. PICK W, L, m, own : Starts(Ready, W, L, s, m, own) /\ Open(Ready)
  BY <1>1, <1>2, ReadyStarts
<1>4. Stage(Ready, W \cup L, s, m, own)
  BY <1>3 DEF Starts
<1>5. PICK b : b = Ready.blocks[Ready.at]
  OBVIOUS
<1>6. /\ b \in Blocks /\ b.entered \in 0..m /\ b = BlockOf(Ready, At(Ready))
  BY <1>4, <1>5, CodeFacts DEF Stage, Good, Size, BlockOf, At
<1>7. PICK x : x = [b EXCEPT !.empty = FALSE]
  OBVIOUS
<1>8. /\ x \in Blocks /\ x.fn = BlockOf(Ready, At(Ready)).fn
      /\ x.ends = BlockOf(Ready, At(Ready)).ends
      /\ x.next = BlockOf(Ready, At(Ready)).next /\ x.entered \in 0..m
  BY <1>6, <1>7 DEF Blocks
<1>9. Stage(SetTo(Ready, x), W \cup L, s, m, own)
  BY <1>4, <1>8, TouchStage
<1>10. Emit(SetTo(Ready, x))
  <2>1. Emit([Ready EXCEPT !.blocks[Ready.at].empty = FALSE])
    BY DEF Straight
  <2>2. [Ready EXCEPT !.blocks[Ready.at].empty = FALSE] = SetTo(Ready, x)
    BY <1>5, <1>7 DEF SetTo
  <2> QED
    BY <2>1, <2>2
<1>11. /\ UNCHANGED <<fn, label, source>> /\ live' \in BOOLEAN
       /\ careless' = careless /\ open' = open
  BY DEF Straight, WInv, TInv
<1> QED
  BY <1>1, <1>2, <1>3, <1>9, <1>10, <1>11, OpenSame, GrowsNot, SimpleKeeps

LEMMA ReturnKeeps == ASSUME WInv, Return PROVE WInv'
<1>1. open # <<>> /\ Statement
  BY DEF Return, Statement
<1>2. PICK s : Sure(s) <=> ~careless
  BY Careful
<1>3. PICK W, L, m, own : Starts(Ready, W, L, s, m, own) /\ Open(Ready)
  BY <1>1, <1>2, ReadyStarts
<1>4. Stage(Ready, W \cup L, s, m, own)
  BY <1>3 DEF Starts
<1>5. Stage(End(Ready, {}), W \cup L, s, m, own)
  BY <1>3, <1>4, EndStage
<1>6. /\ UNCHANGED <<fn, label, source>> /\ live' \in BOOLEAN
      /\ careless' = careless /\ open' = open /\ Emit(End(Ready, {}))
  BY DEF Return
<1> QED
  BY <1>1, <1>2, <1>3, <1>5, <1>6, OpenSame, GrowsNot, SimpleKeeps

\* What new blocks add.
LEMMA GrowsBy ==
  ASSUME NEW c, NEW W, NEW L, NEW s, NEW m, NEW own,
         Starts(c, W, L, s, m, own),
         NEW n \in Nat, m <= n, NEW B, B \subseteq m + 1 .. n
  PROVE  Grows(m, own, n, own \cup B)
<1>1. m \in Nat /\ own \subseteq 1..m
  BY DEF Starts
<1>2. ASSUME NEW x \in B PROVE x \notin 1..m
  BY <1>1
<1>3. (own \cup B) \cap (1..m) = own
  BY <1>1, <1>2
<1> QED
  BY <1>1, <1>3 DEF Grows

LEMMA ThrowKeeps == ASSUME WInv, Throw PROVE WInv'
<1>1. open # <<>> /\ Statement
  BY DEF Throw, Statement
<1>2. PICK s : Sure(s) <=> ~careless
  BY Careful
<1>3. PICK W, L, m, own : Starts(Ready, W, L, s, m, own) /\ Open(Ready)
  BY <1>1, <1>2, ReadyStarts
<1>4. /\ Stage(Ready, W \cup L, s, m, own) /\ fn \in Nat \ {0} /\ m \in Nat
      /\ own \subseteq 1..m /\ (Sure(s) => W \cup L \subseteq own)
  BY <1>3 DEF Starts
<1>5. PICK j, a, n, all :
        j = m + 1 /\ a = m + 2 /\ n = m + 2 /\ all = own \cup {j, a}
  OBVIOUS
<1>6. PICK P : P = (W \cup L) \cup {j, a}
  OBVIOUS
<1>7. Stage(New(Ready, 2), P, s, n, all) /\ Open(New(Ready, 2))
  BY <1>3, <1>4, <1>5, <1>6, NewTwo
<1>8. PICK c1 : c1 = Place(End(New(Ready, 2), {j, a}), j)
  OBVIOUS
<1>9. Stage(c1, P \ {j}, s, n, all) /\ (Sure(s) => Open(c1))
  BY <1>4, <1>5, <1>6, <1>7, <1>8, JumpStage
<1>10. PICK c2 : c2 = Place(End(c1, {}), a)
  OBVIOUS
<1>11. Stage(c2, (P \ {j}) \ {a}, s, n, all) /\ (Sure(s) => Open(c2))
  BY <1>4, <1>5, <1>6, <1>9, <1>10, JumpStage
<1>12. Stage(End(c2, {}), (P \ {j}) \ {a}, s, n, all)
  BY <1>11, EndStage
<1>13. Sure(s) => (P \ {j}) \ {a} = W \cup L
  BY <1>4, <1>5, <1>6
<1>14. Stage(End(c2, {}), W \cup L, s, n, all)
  BY <1>12, <1>13, StageOf
<1>15. Grows(m, own, n, all)
  <2>1. {j, a} \subseteq m + 1 .. n /\ n \in Nat /\ m <= n
    BY <1>4, <1>5
  <2>2. Grows(m, own, n, own \cup {j, a})
    BY <1>3, <2>1, GrowsBy
  <2> QED
    BY <1>5, <2>2
<1>16. Id(Ready, 1) = j /\ Id(Ready, 2) = a
  BY <1>4, <1>5 DEF Stage, Size, Id
<1>17. /\ UNCHANGED <<fn, label, source>> /\ live' \in BOOLEAN
       /\ careless' = careless /\ open' = open /\ Emit(End(c2, {}))
  BY <1>8, <1>10, <1>16 DEF Throw
<1> QED
  BY <1>1, <1>2, <1>3, <1>14, <1>15, <1>17, OpenSame, SimpleKeeps

\* break and continue
LEMMA LeaveForKeeps ==
  ASSUME WInv, Statement,
         NEW i \in InnermostLoop,
         NEW target \in {open[i].after, open[i].continue},
         Emit(LeaveFor(target)), UNCHANGED <<fn, label, source, careless>>,
         live' = FALSE, open' \in Seq(Frames), Len(open') = Len(open),
         \A j \in 1..Len(open) : SameFrame(open'[j], open[j])
  PROVE  WInv'
<1>1. open # <<>>
  BY DEF Statement
<1>2. PICK s : Sure(s) <=> ~careless
  BY Careful
<1>3. PICK W, L, m, own : Starts(Ready, W, L, s, m, own) /\ Open(Ready)
  BY <1>1, <1>2, ReadyStarts
<1>4. /\ Stage(Ready, W \cup L, s, m, own) /\ fn \in Nat \ {0} /\ m \in Nat
      /\ own \subseteq 1..m /\ (Sure(s) => W \cup L \subseteq own)
      /\ StackOK(open, W, m, own, L, s)
  BY <1>3 DEF Starts
<1>5. target \in 1..m /\ (Sure(s) => target \in own)
  <2>1. i \in 1..Len(open) /\ open[i].kind \in Loops
    BY <1>4, StackFacts DEF InnermostLoop
  <2>2. /\ RemembersMade(open[i], m)
        /\ (Sure(s) => Remembers(open[i]) \subseteq own \cup {0})
    BY <1>4, <2>1, StackFacts
  <2>3. open[i].after \in 0..m /\ open[i].continue \in 0..m
    BY <2>2 DEF RemembersMade
  <2>4. open[i].after # 0 /\ open[i].continue # 0
    BY <2>1, <2>2 DEF RemembersMade, Loops
  <2>5. target \in 1..m
    BY <1>4, <2>3, <2>4
  <2>6. Sure(s) => target \in own \cup {0}
    BY <2>2 DEF Remembers
  <2> QED
    BY <2>5, <2>6
<1>6. /\ Stage(End(Ready, {target}), W \cup L, s, m, own)
      /\ ~Open(End(Ready, {target}))
  BY <1>3, <1>4, <1>5, EndStage
<1>7. PICK c : c = End(Ready, {target})
  OBVIOUS
<1>8. PICK b, n, all : b = m + 1 /\ n = m + 1 /\ all = own \cup {b}
  OBVIOUS
<1>9. Stage(New(c, 1), (W \cup L) \cup {b}, s, n, all) /\ ~Open(New(c, 1))
  BY <1>4, <1>6, <1>7, <1>8, NewOne
<1>10. b \in 1..n
  BY <1>4, <1>8
<1>11. Stage(Place(New(c, 1), b), ((W \cup L) \cup {b}) \ {b}, s, n, all)
  BY <1>9, <1>10, PlaceStage
<1>12. Sure(s) => ((W \cup L) \cup {b}) \ {b} = W \cup L
  BY <1>4, <1>8
<1>13. Stage(Place(New(c, 1), b), W \cup L, s, n, all)
  BY <1>11, <1>12, StageOf
<1>14. Grows(m, own, n, all)
  <2>1. {b} \subseteq m + 1 .. n /\ n \in Nat /\ m <= n
    BY <1>4, <1>8
  <2>2. Grows(m, own, n, own \cup {b})
    BY <1>3, <2>1, GrowsBy
  <2> QED
    BY <1>8, <2>2
<1>15. Emit(Place(New(c, 1), b))
  <2>1. Id(Ready, 1) = b
    BY <1>4, <1>8 DEF Stage, Size, Id
  <2> QED
    BY <1>7, <2>1 DEF LeaveFor
<1>16. /\ careless' = careless /\ UNCHANGED <<fn, label, source>>
       /\ live' \in BOOLEAN
  OBVIOUS
<1> QED
  BY <1>2, <1>3, <1>13, <1>14, <1>15, <1>16, SimpleKeeps

LEMMA BreakKeeps == ASSUME WInv, Break PROVE WInv'
<1>1. PICK i \in InnermostLoop :
        /\ Statement /\ Emit(LeaveFor(open[i].after))
        /\ open' = [open EXCEPT ![i].out = @ \/ live] /\ live' = FALSE
        /\ UNCHANGED <<fn, label, source, careless>>
  BY DEF Break
<1>2. open \in Seq(Frames) /\ live \in BOOLEAN
  BY DEF WInv, TInv, StackTyped
<1>3. /\ open' \in Seq(Frames) /\ Len(open') = Len(open)
      /\ \A j \in 1..Len(open) : SameFrame(open'[j], open[j])
  <2>1. i \in 1..Len(open) /\ open[i] \in Frames
    BY <1>2 DEF InnermostLoop
  <2>2. PICK x : x = [open[i] EXCEPT !.out = open[i].out \/ live]
    OBVIOUS
  <2>3. x \in Frames /\ SameFrame(x, open[i])
    BY <1>2, <2>1, <2>2 DEF Frames, SameFrame
  <2>4. open' = [open EXCEPT ![i] = x]
    BY <1>1, <2>2
  <2> QED
    BY <1>2, <2>1, <2>3, <2>4 DEF SameFrame
<1> QED
  BY <1>1, <1>3, LeaveForKeeps

LEMMA ContinueKeeps == ASSUME WInv, Continue PROVE WInv'
<1>1. PICK i \in InnermostLoop :
        /\ Statement /\ Emit(LeaveFor(open[i].continue))
        /\ open' = [open EXCEPT ![i].again = @ \/ live] /\ live' = FALSE
        /\ UNCHANGED <<fn, label, source, careless>>
  BY DEF Continue
<1>2. open \in Seq(Frames) /\ live \in BOOLEAN
  BY DEF WInv, TInv, StackTyped
<1>3. /\ open' \in Seq(Frames) /\ Len(open') = Len(open)
      /\ \A j \in 1..Len(open) : SameFrame(open'[j], open[j])
  <2>1. i \in 1..Len(open) /\ open[i] \in Frames
    BY <1>2 DEF InnermostLoop
  <2>2. PICK x : x = [open[i] EXCEPT !.again = open[i].again \/ live]
    OBVIOUS
  <2>3. x \in Frames /\ SameFrame(x, open[i])
    BY <1>2, <2>1, <2>2 DEF Frames, SameFrame
  <2>4. open' = [open EXCEPT ![i] = x]
    BY <1>1, <2>2
  <2> QED
    BY <1>2, <2>1, <2>3, <2>4 DEF SameFrame
<1> QED
  BY <1>1, <1>3, LeaveForKeeps

----------------------------------------------------------------------------
(* goto and labels: what the label waits for changes.                      *)

\* The handlers wait for the same whatever else waits beside them.
LEMMA OtherLabel ==
  ASSUME NEW q, NEW W, NEW n \in Nat, NEW own, NEW L, NEW s,
         StackOK(q, W, n, own, L, s), NEW M, Sure(s) => W \cap M = {}
  PROVE  StackOK(q, W, n, own, M, s)
<1>1. /\ q \in Seq(Frames)
      /\ \A i \in 1..Len(q) : /\ q[i].kind = "function" <=> i = 1
                              /\ RemembersMade(q[i], n)
  BY StackFacts
<1>2. ASSUME Sure(s)
      PROVE  /\ \A i \in 1..Len(q) :
                   /\ Remembers(q[i]) \subseteq own \cup {0} /\ Apart(q[i])
                   /\ Awaits(q[i]) \subseteq W
             /\ \A b \in W : \E i \in 1..Len(q) : b \in Awaits(q[i])
             /\ \A i, j \in 1..Len(q) :
                     i # j => Awaits(q[i]) \cap Awaits(q[j]) = {}
  <2>1. \A i \in 1..Len(q) : /\ Remembers(q[i]) \subseteq own \cup {0}
                             /\ Apart(q[i]) /\ Awaits(q[i]) \subseteq W
    BY <1>2, StackFacts
  <2>2. \A b \in W : \E i \in 1..Len(q) : b \in Awaits(q[i])
    BY <1>2, StackFacts
  <2>3. \A i, j \in 1..Len(q) : i # j => Awaits(q[i]) \cap Awaits(q[j]) = {}
    BY <1>2, StackFacts
  <2> QED
    BY <2>1, <2>2, <2>3
<1>3. Sure(s) => \A i \in 1..Len(q) : Awaits(q[i]) \cap M = {}
  BY <1>2
<1>4. Sure(s) => \A b : b \in W <=> \E i \in 1..Len(q) : b \in Awaits(q[i])
  BY <1>2
<1> QED
  BY <1>1, <1>2, <1>3, <1>4, StackFrom

\* The label stays, and so does what it waits for.
LEMMA LabelStays ==
  ASSUME WInv,
         NEW c, NEW W, NEW L, NEW s, NEW m, NEW own,
         Starts(c, W, L, s, m, own),
         label' = label, defined' = defined
  PROVE  label' \in 0..m /\ L = {b \in own : b = label' /\ ~defined'}
<1>1. label \in 0..Len(blocks)
  BY DEF WInv, TInv
<1>2. /\ m \in Nat /\ Len(blocks) \in Nat /\ Len(blocks) <= m
      /\ own \subseteq 1..m /\ own \cap (1..Len(blocks)) = OwnIn(cg)
      /\ L = LabelWaits
  BY DEF Starts
<1>3. label' \in 0..m
  BY <1>1, <1>2
<1>4. L = {b \in OwnIn(cg) : b = label /\ ~defined}
  BY <1>2 DEF LabelWaits
<1>5. ASSUME NEW b \in own, b = label PROVE b \in OwnIn(cg)
  BY <1>1, <1>2, <1>5
<1>6. OwnIn(cg) \subseteq own
  BY <1>2
<1> QED
  BY <1>3, <1>4, <1>5, <1>6

\* The label of this function, and the function has its own.
LEMMA OwnLabel ==
  ASSUME WInv,
         NEW c, NEW W, NEW L, NEW s, NEW m, NEW own, Starts(c, W, L, s, m, own)
  PROVE  /\ label \in 0..m
         /\ label = 0 => L = {} /\ ~defined
         /\ label # 0 /\ ~Foreign => label \in own
         /\ label # 0 /\ ~Foreign /\ ~defined => L = {label}
<1>1. label \in 0..Len(blocks) /\ (defined => label # 0)
  BY DEF WInv, TInv
<1>2. /\ m \in Nat /\ Len(blocks) \in Nat /\ Len(blocks) <= m
      /\ own \subseteq 1..m /\ own \cap (1..Len(blocks)) = OwnIn(cg)
      /\ L = {b \in OwnIn(cg) : b = label /\ ~defined}
  BY DEF Starts, LabelWaits
<1>3. label \in 0..m
  BY <1>1, <1>2
<1>4. label = 0 => L = {} /\ ~defined
  BY <1>1, <1>2
<1>5. label # 0 /\ ~Foreign => label \in OwnIn(cg)
  BY <1>1, <1>2 DEF Foreign, OwnIn, cg
<1>6. label # 0 /\ ~Foreign => label \in own
  BY <1>2, <1>5
<1>7. label # 0 /\ ~Foreign /\ ~defined => L = {label}
  BY <1>2, <1>5
<1> QED
  BY <1>3, <1>4, <1>6, <1>7

\* The statements that make, use or place the label's block.
LEMMA JumpKeeps ==
  ASSUME WInv, Statement,
         NEW W, NEW M, NEW s, NEW n, NEW all, NEW d,
         Emit(d), Stage(d, W \cup M, s, n, all),
         StackOK(open, W, n, all, M, s), open' = open, fn' = fn,
         label' \in 1..n, live' \in BOOLEAN, arrived' \in BOOLEAN,
         revived' \in BOOLEAN, used' \in BOOLEAN, defined' \in BOOLEAN, careless' \in BOOLEAN,
         ~careless' => Sure(s),
         Sure(s) => /\ M = {b \in all : b = label' /\ ~defined'}
                    /\ (M # {} => used')
  PROVE  WInv'
<1>1. open # <<>> /\ text' \in 0..MaxText
  BY BoundsAssumption DEF WInv, TInv, Statement
<1>2. n \in Nat
  BY StageFacts
<1>3. label' \in 0..n /\ (defined' => label' # 0)
  BY <1>2
<1>4. StackOK(open', W, n, all, M, s) /\ open' # <<>>
  BY <1>1
<1> QED
  BY <1>1, <1>3, <1>4, Finish

LEMMA GotoKeeps == ASSUME WInv, Goto PROVE WInv'
<1>1. open # <<>> /\ Statement /\ careless' \in BOOLEAN /\ live' \in BOOLEAN
      /\ arrived' \in BOOLEAN /\ revived' \in BOOLEAN /\ open' = open
      /\ fn' = fn /\ used' = TRUE
      /\ defined' = defined /\ defined \in BOOLEAN
  BY DEF Goto, Statement, WInv, TInv, Foreign
<1>2. PICK s : Sure(s) <=> ~(careless \/ Foreign)
  <2>1. CASE careless \/ Foreign
    <3>1. ~Sure("any")
      BY DEF Sure
    <3> QED
      BY <2>1, <3>1
  <2>2. CASE ~(careless \/ Foreign)
    <3>1. Sure("sound")
      BY DEF Sure
    <3> QED
      BY <2>2, <3>1
  <2> QED
    BY <2>1, <2>2
<1>3. ~careless' => Sure(s)
  BY <1>2 DEF Goto
<1>4. PICK W, L, m, own : Starts(Ready, W, L, s, m, own) /\ Open(Ready)
  BY <1>1, <1>2, ReadyStarts
<1>5. /\ Stage(Ready, W \cup L, s, m, own) /\ fn \in Nat \ {0} /\ m \in Nat
      /\ own \subseteq 1..m /\ (Sure(s) => W \cup L \subseteq own)
      /\ StackOK(open, W, m, own, L, s)
  BY <1>4 DEF Starts
<1>6. /\ label \in 0..m
      /\ label = 0 => L = {} /\ ~defined
      /\ label # 0 /\ ~Foreign => label \in own
  BY <1>4, OwnLabel
<1>7. CASE label # 0
  <2>1. label' = label /\ Emit(End(Ready, {label}))
    BY <1>7 DEF Goto
  <2>2. {label} \subseteq 1..m /\ (Sure(s) => {label} \subseteq own)
    BY <1>2, <1>5, <1>6, <1>7
  <2>3. Stage(End(Ready, {label}), W \cup L, s, m, own)
    BY <1>4, <1>5, <2>2, EndStage
  <2>4. L = {b \in own : b = label' /\ ~defined'}
    BY <1>1, <1>4, <2>1, LabelStays
  <2> QED
    BY <1>1, <1>3, <1>5, <2>1, <2>2, <2>3, <2>4, JumpKeeps
<1>8. CASE label = 0
  <2>1. PICK b, n, all : b = m + 1 /\ n = m + 1 /\ all = own \cup {b}
    OBVIOUS
  <2>2. Id(Ready, 1) = b
    BY <1>5, <2>1 DEF Stage, Size, Id
  <2>3. PICK c : c = New(Ready, 1)
    OBVIOUS
  <2>4. label' = b /\ Emit(End([c EXCEPT !.back = b], {b}))
    BY <1>8, <2>2, <2>3 DEF Goto
  <2>5. Stage(c, (W \cup L) \cup {b}, s, n, all) /\ Open(c)
    BY <1>4, <1>5, <2>1, <2>3, NewOne
  <2>6. PICK e : e = [c EXCEPT !.back = b]
    OBVIOUS
  <2>7. b \in 1..n /\ n \in Nat /\ m <= n
    BY <1>5, <2>1
  <2>8. Stage(e, (W \cup L) \cup {b}, s, n, all) /\ Open(e)
    BY <2>5, <2>6, <2>7, BackStage
  <2>9. {b} \subseteq all /\ {b} \subseteq 1..n
    BY <2>1, <2>7
  <2>10. Stage(End(e, {b}), (W \cup L) \cup {b}, s, n, all)
    BY <2>8, <2>9, EndStage
  <2>11. (W \cup L) \cup {b} = W \cup {b}
    BY <1>6, <1>8
  <2>12. Stage(End(e, {b}), W \cup {b}, s, n, all)
    BY <2>10, <2>11
  <2>13. StackOK(open, W, n, all, L, s)
    BY <1>5, <2>1, <2>7, SameStack
  <2>14. Sure(s) => W \cap {b} = {}
    BY <1>5, <2>1
  <2>15. StackOK(open, W, n, all, {b}, s)
    BY <2>7, <2>13, <2>14, OtherLabel
  <2>16. {b} = {x \in all : x = label' /\ ~defined'}
    BY <1>1, <1>6, <1>8, <2>4, <2>9
  <2>17. Emit(End(e, {b})) /\ label' \in 1..n
    BY <2>4, <2>6, <2>7
  <2> QED
    BY <1>1, <1>3, <2>12, <2>15, <2>16, <2>17, JumpKeeps
<1> QED
  BY <1>7, <1>8

LEMMA LabelKeeps == ASSUME WInv, Label PROVE WInv'
<1>1. open # <<>> /\ Statement /\ careless' \in BOOLEAN /\ live' \in BOOLEAN
      /\ arrived' \in BOOLEAN /\ revived' \in BOOLEAN /\ open' = open
      /\ fn' = fn /\ used' = used
      /\ arrived \in BOOLEAN /\ used \in BOOLEAN /\ defined' = TRUE /\ ~defined
  BY DEF Label, Statement, WInv, TInv, Foreign
<1>2. PICK s : Sure(s) <=> ~(careless \/ Foreign)
  <2>1. CASE careless \/ Foreign
    <3>1. ~Sure("any")
      BY DEF Sure
    <3> QED
      BY <2>1, <3>1
  <2>2. CASE ~(careless \/ Foreign)
    <3>1. Sure("sound")
      BY DEF Sure
    <3> QED
      BY <2>2, <3>1
  <2> QED
    BY <2>1, <2>2
<1>3. ~careless' => Sure(s)
  BY <1>2 DEF Label
<1>4. PICK W, L, m, own : Starts(Ready, W, L, s, m, own) /\ Open(Ready)
  BY <1>1, <1>2, ReadyStarts
<1>5. /\ Stage(Ready, W \cup L, s, m, own) /\ fn \in Nat \ {0} /\ m \in Nat
      /\ own \subseteq 1..m
      /\ (Sure(s) => W \cup L \subseteq own /\ W \cap L = {})
      /\ StackOK(open, W, m, own, L, s)
  BY <1>4 DEF Starts
<1>6. /\ label \in 0..m
      /\ label = 0 => L = {}
      /\ label # 0 /\ Sure(s) => label \in own /\ L = {label}
  BY <1>1, <1>2, <1>4, OwnLabel
<1>7. StackOK(open, W, m, own, {}, s)
  BY <1>5, OtherLabel
<1>8. PICK b, n, all : b = m + 1 /\ n = m + 1 /\ all = own \cup {b}
  OBVIOUS
<1>9. /\ Id(Ready, 1) = b /\ b \in 1..n /\ n \in Nat /\ m <= n
      /\ b \notin own /\ own \subseteq all /\ {b} \subseteq all
      /\ {b} \subseteq 1..n
  BY <1>5, <1>8 DEF Stage, Size, Id
<1>10. PICK c : c = New(Ready, 1)
  OBVIOUS
<1>11. Stage(c, (W \cup L) \cup {b}, s, n, all) /\ Open(c)
  BY <1>4, <1>5, <1>8, <1>10, NewOne
<1>12. StackOK(open, W, n, all, {}, s)
  BY <1>5, <1>7, <1>9, SameStack
<1>13. \A X : {} = {x \in X : x = label' /\ ~defined'}
  BY <1>1
<1>14. CASE label = 0
  <2>1. Stage(Place(EndOpen(c, {b}), b), ((W \cup L) \cup {b}) \ {b}, s, n, all)
    BY <1>9, <1>11, JumpOpenStage
  <2>2. Sure(s) => ((W \cup L) \cup {b}) \ {b} = W \cup {}
    BY <1>5, <1>6, <1>9, <1>14
  <2>3. Stage(Place(EndOpen(c, {b}), b), W \cup {}, s, n, all)
    BY <2>1, <2>2, StageOf
  <2>4. Emit(Place(EndOpen(c, {b}), b)) /\ label' \in 1..n
    BY <1>9, <1>10, <1>14 DEF Label
  <2> QED
    BY <1>1, <1>3, <1>12, <1>13, <2>3, <2>4, JumpKeeps
<1>15. CASE label # 0 /\ Ready.blocks[label].empty
  <2>1. PICK e : e = EndOpen(Ready, {label})
    OBVIOUS
  <2>2. /\ {label} \subseteq 1..m /\ label \in 1..m
        /\ (Sure(s) => {label} \subseteq own)
    BY <1>5, <1>6, <1>15
  <2>3. Stage(e, W \cup L, s, m, own) /\ ~Open(e)
    BY <1>5, <2>1, <2>2, EndOpenStage
  <2>4. PICK l : l = e.back
    OBVIOUS
  <2>5. l \in 1..m
    BY <2>3, <2>4, CodeFacts DEF Stage, Good, Size
  <2>6. Sure(s) => label \in W \cup L
    BY <1>6, <1>15
  <2>7. Stage(MoveTo(e, label, l), (W \cup L) \ {label}, s, m, own)
    BY <2>2, <2>3, <2>5, <2>6, MoveStage
  <2>8. Sure(s) => (W \cup L) \ {label} = W \cup {}
    BY <1>5, <1>6, <1>15
  <2>9. Stage(MoveTo(e, label, l), W \cup {}, s, m, own)
    BY <2>7, <2>8, StageOf
  <2>10. MoveTo(e, label, l) = [e EXCEPT !.at = label]
    <3>1. e = [blocks |-> e.blocks, at |-> e.at, back |-> e.back]
      BY <2>3, CodeFacts DEF Stage, Good
    <3> QED
      BY <3>1, <2>4 DEF MoveTo
  <2>11. Emit(MoveTo(e, label, l)) /\ label' \in 1..m
    BY <1>15, <2>1, <2>2, <2>10 DEF Label
  <2> QED
    BY <1>1, <1>3, <1>7, <1>13, <2>9, <2>11, JumpKeeps
<1>16. CASE label # 0 /\ ~Ready.blocks[label].empty
  <2>1. ~Sure(s)
    <3>1. ASSUME Sure(s) PROVE Ready.blocks[label].empty
      <4>1. label \in W \cup L
        BY <1>6, <1>16, <3>1
      <4>2. Sound(Ready, W \cup L)
        BY <1>5, <3>1 DEF Stage, Good
      <4> QED
        BY <4>1, <4>2 DEF Sound
    <3> QED
      BY <1>16, <3>1
  <2>2. Stage(Place(c, b), ((W \cup L) \cup {b}) \ {b}, s, n, all)
    BY <1>9, <1>11, <2>1, PlaceStage
  <2>3. Stage(Place(c, b), W \cup {}, s, n, all)
    BY <2>1, <2>2, StageOf
  <2>4. Emit(Place(c, b)) /\ label' \in 1..n
    BY <1>9, <1>10, <1>16 DEF Label
  <2> QED
    BY <1>1, <1>3, <1>12, <1>13, <2>3, <2>4, JumpKeeps
<1> QED
  BY <1>14, <1>15, <1>16

----------------------------------------------------------------------------
(* The beginnings of the handlers, which make their blocks B.              *)

LEMMA EnterFresh ==
  ASSUME WInv,
         NEW c, NEW W, NEW L, NEW s, NEW m, NEW own,
         Starts(c, W, L, s, m, own),
         NEW f \in Frames, f.kind # "function", Pushes(f),
         NEW B, NEW n \in Nat, m <= n, B \subseteq m + 1 .. n,
         NEW d, NEW P, Stage(d, P, s, n, own \cup B),
         Sure(s) => P = (W \cup L) \cup Awaits(f),
         Emit(d), Checked, ~careless => Sure(s),
         RemembersMade(f, n), Remembers(f) \subseteq B \cup {0}, Apart(f),
         Awaits(f) \subseteq B
  PROVE  WInv'
<1>1. /\ m \in Nat /\ own \subseteq 1..m
      /\ Sure(s) => W \subseteq own /\ L \subseteq own
  BY DEF Starts
<1>2. ASSUME Sure(s) PROVE Awaits(f) \cap (W \cup L) = {}
  <2>1. ASSUME NEW x \in B PROVE x \notin own
    BY <1>1
  <2> QED
    BY <1>1, <1>2, <2>1
<1>3. Sure(s) => P = (W \cup Awaits(f)) \cup L
  OBVIOUS
<1>4. Stage(d, (W \cup Awaits(f)) \cup L, s, n, own \cup B)
  BY <1>3, StageOf
<1>5. Grows(m, own, n, own \cup B)
  BY GrowsBy
<1>6. Sure(s) => Remembers(f) \subseteq (own \cup B) \cup {0}
  OBVIOUS
<1> QED
  BY <1>2, <1>4, <1>5, <1>6, EnterKeeps

\* A handler that begins in an open block.
LEMMA Begins ==
  ASSUME WInv, NEW k, NEW after, NEW continue, NEW other, NEW entry,
         Enter(k, after, continue, other, entry)
  PROVE  \E W, L, s, m, own :
           /\ Starts(Ready, W, L, s, m, own) /\ Open(Ready)
           /\ Stage(Ready, W \cup L, s, m, own)
           /\ fn \in Nat \ {0} /\ m \in Nat /\ own \subseteq 1..m
           /\ Sure(s) => W \cup L \subseteq own
           /\ Sure(s) <=> ~careless
           /\ \A i \in 1..5 : Id(Ready, i) = m + i
           /\ live \in BOOLEAN /\ At(Ready) \in 1..m
<1>1. open # <<>> /\ live \in BOOLEAN
  BY DEF Enter, Statement, WInv, TInv
<1>2. PICK s : Sure(s) <=> ~careless
  BY Careful
<1>3. PICK W, L, m, own : Starts(Ready, W, L, s, m, own) /\ Open(Ready)
  BY <1>1, <1>2, ReadyStarts
<1>4. /\ Stage(Ready, W \cup L, s, m, own) /\ fn \in Nat \ {0} /\ m \in Nat
      /\ own \subseteq 1..m /\ (Sure(s) => W \cup L \subseteq own)
  BY <1>3 DEF Starts
<1>5. \A i \in 1..5 : Id(Ready, i) = m + i
  BY <1>4 DEF Stage, Size, Id
<1>6. At(Ready) \in 1..m
  BY <1>4, StageFacts
<1> QED
  BY <1>1, <1>2, <1>3, <1>4, <1>5, <1>6

LEMMA BeginBlockKeeps == ASSUME WInv, BeginBlock PROVE WInv'
<1>1. Enter("block", 0, 0, 0, live)
  BY DEF BeginBlock
<1>2. PICK W, L, s, m, own :
        /\ Starts(Ready, W, L, s, m, own) /\ Open(Ready)
        /\ Stage(Ready, W \cup L, s, m, own)
        /\ fn \in Nat \ {0} /\ m \in Nat /\ own \subseteq 1..m
        /\ Sure(s) => W \cup L \subseteq own
        /\ Sure(s) <=> ~careless
        /\ \A i \in 1..5 : Id(Ready, i) = m + i
        /\ live \in BOOLEAN /\ At(Ready) \in 1..m
  BY <1>1, Begins
<1>3. PICK f : f = Frame("block", 0, 0, 0, live)
  OBVIOUS
<1>4. PICK B, P : B = {} /\ P = W \cup L
  OBVIOUS
<1>5. /\ Awaits(f) = {} /\ Remembers(f) \subseteq B \cup {0}
      /\ Apart(f) /\ RemembersMade(f, m) /\ Awaits(f) \subseteq B
  BY <1>2, <1>3, <1>4 DEF Frame, Awaits, Apart, Remembers, RemembersMade
<1>6. Stage(Ready, P, s, m, own \cup B)
  BY <1>2, <1>4
<1>7. /\ Sure(s) => P = (W \cup L) \cup Awaits(f)
      /\ m <= m /\ B \subseteq m + 1 .. m
  BY <1>2, <1>4, <1>5
<1>8. Emit(Ready) /\ Checked
  BY DEF BeginBlock
<1>9. Pushes(f)
  BY <1>1, <1>3 DEF Enter, Pushes
<1>10. f \in Frames /\ f.kind # "function"
  BY <1>2, <1>3 DEF Frame, Frames, Kinds, WInv, TInv
<1> QED
  BY <1>2, <1>5, <1>6, <1>7, <1>8, <1>9, <1>10, EnterFresh

LEMMA BeginIfKeeps == ASSUME WInv, BeginIf PROVE WInv'
<1>1. Enter("then", Id(Ready, 3), 0, Id(Ready, 2), live)
  BY DEF BeginIf
<1>2. PICK W, L, s, m, own :
        /\ Starts(Ready, W, L, s, m, own) /\ Open(Ready)
        /\ Stage(Ready, W \cup L, s, m, own)
        /\ fn \in Nat \ {0} /\ m \in Nat /\ own \subseteq 1..m
        /\ Sure(s) => W \cup L \subseteq own
        /\ Sure(s) <=> ~careless
        /\ \A i \in 1..5 : Id(Ready, i) = m + i
        /\ live \in BOOLEAN /\ At(Ready) \in 1..m
  BY <1>1, Begins
<1>3. PICK then, else, merge, n, B, P :
        /\ then = m + 1 /\ else = m + 2 /\ merge = m + 3
        /\ n = m + 3 /\ B = {then, else, merge} /\ P = (W \cup L) \cup B
  OBVIOUS
<1>4. /\ n \in Nat /\ m <= n /\ B \subseteq m + 1 .. n /\ B \subseteq 1..n
      /\ Id(Ready, 1) = then /\ Id(Ready, 2) = else /\ Id(Ready, 3) = merge
  BY <1>2, <1>3
<1>5. PICK c : c = New(Ready, 3)
  OBVIOUS
<1>6. Stage(c, P, s, n, own \cup B) /\ Open(c)
  BY <1>2, <1>3, <1>5, NewThree
<1>7. PICK c1 : c1 = Place(End(c, {then, else}), then)
  OBVIOUS
<1>8. /\ {then, else} \subseteq 1..n /\ {then, else} \subseteq own \cup B
      /\ then \in 1..n /\ then \in P
  BY <1>2, <1>3, <1>4
<1>9. Stage(c1, P \ {then}, s, n, own \cup B) /\ (Sure(s) => Open(c1))
  BY <1>6, <1>7, <1>8, JumpStage
<1>10. PICK f : f = Frame("then", merge, 0, else, live)
  OBVIOUS
<1>11. /\ Awaits(f) = {merge, else} /\ Remembers(f) \subseteq B \cup {0}
       /\ Apart(f) /\ RemembersMade(f, n) /\ Awaits(f) \subseteq B
  BY <1>2, <1>3, <1>4, <1>10 DEF Frame, Awaits, Apart, Remembers, RemembersMade
<1>12. PICK Q : Q = P \ {then}
  OBVIOUS
<1>13. Stage(c1, Q, s, n, own \cup B)
  BY <1>9, <1>12
<1>14. Sure(s) => Q = (W \cup L) \cup Awaits(f)
  BY <1>2, <1>3, <1>11, <1>12
<1>15. Emit(c1) /\ Checked
  BY <1>4, <1>5, <1>7 DEF BeginIf
<1>16. Pushes(f)
  BY <1>1, <1>4, <1>10 DEF Enter, Pushes
<1>17. f \in Frames /\ f.kind # "function"
  BY <1>2, <1>3, <1>10 DEF Frame, Frames, Kinds, Loops, WInv, TInv
<1> QED
  BY <1>2, <1>4, <1>13, <1>11, <1>14, <1>15, <1>16, <1>17, EnterFresh

LEMMA BeginWhileKeeps == ASSUME WInv, BeginWhile PROVE WInv'
<1>1. Enter("while", Id(Ready, 3), Id(Ready, 1), Id(Ready, 1), live)
  BY DEF BeginWhile
<1>2. PICK W, L, s, m, own :
        /\ Starts(Ready, W, L, s, m, own) /\ Open(Ready)
        /\ Stage(Ready, W \cup L, s, m, own)
        /\ fn \in Nat \ {0} /\ m \in Nat /\ own \subseteq 1..m
        /\ Sure(s) => W \cup L \subseteq own
        /\ Sure(s) <=> ~careless
        /\ \A i \in 1..5 : Id(Ready, i) = m + i
        /\ live \in BOOLEAN /\ At(Ready) \in 1..m
  BY <1>1, Begins
<1>3. PICK cond, body, after, n, B, P :
        /\ cond = m + 1 /\ body = m + 2 /\ after = m + 3
        /\ n = m + 3 /\ B = {cond, body, after} /\ P = (W \cup L) \cup B
  OBVIOUS
<1>4. /\ n \in Nat /\ m <= n /\ B \subseteq m + 1 .. n /\ B \subseteq 1..n
      /\ Id(Ready, 1) = cond /\ Id(Ready, 2) = body /\ Id(Ready, 3) = after
  BY <1>2, <1>3
<1>5. PICK c : c = New(Ready, 3)
  OBVIOUS
<1>6. Stage(c, P, s, n, own \cup B) /\ Open(c)
  BY <1>2, <1>3, <1>5, NewThree
<1>7. PICK c1 : c1 = Place(End(c, {cond}), cond)
  OBVIOUS
<1>8. /\ {cond} \subseteq 1..n /\ {cond} \subseteq own \cup B
      /\ cond \in 1..n /\ cond \in P
  BY <1>2, <1>3, <1>4
<1>9. Stage(c1, P \ {cond}, s, n, own \cup B) /\ (Sure(s) => Open(c1))
  BY <1>6, <1>7, <1>8, JumpStage
<1>10. PICK c2 : c2 = Place(End(c1, {body, after}), body)
  OBVIOUS
<1>11. /\ {body, after} \subseteq 1..n /\ {body, after} \subseteq own \cup B
       /\ body \in 1..n /\ body \in P \ {cond}
  BY <1>2, <1>3, <1>4
<1>12. /\ Stage(c2, (P \ {cond}) \ {body}, s, n, own \cup B)
       /\ (Sure(s) => Open(c2))
  BY <1>9, <1>10, <1>11, JumpStage
<1>13. PICK f : f = Frame("while", after, cond, cond, live)
  OBVIOUS
<1>14. /\ Awaits(f) = {after} /\ Remembers(f) \subseteq B \cup {0}
       /\ Apart(f) /\ RemembersMade(f, n) /\ Awaits(f) \subseteq B
  BY <1>2, <1>3, <1>4, <1>13 DEF Frame, Awaits, Apart, Remembers, RemembersMade
<1>15. PICK Q : Q = (P \ {cond}) \ {body}
  OBVIOUS
<1>16. Stage(c2, Q, s, n, own \cup B)
  BY <1>12, <1>15
<1>17. Sure(s) => Q = (W \cup L) \cup Awaits(f)
  BY <1>2, <1>3, <1>14, <1>15
<1>18. Emit(c2) /\ Checked
  BY <1>4, <1>5, <1>7, <1>10 DEF BeginWhile
<1>19. Pushes(f)
  BY <1>1, <1>4, <1>13 DEF Enter, Pushes
<1>20. f \in Frames /\ f.kind # "function"
  BY <1>2, <1>3, <1>13 DEF Frame, Frames, Kinds, Loops, WInv, TInv
<1> QED
  BY <1>2, <1>4, <1>16, <1>14, <1>17, <1>18, <1>19, <1>20, EnterFresh

LEMMA BeginDoKeeps == ASSUME WInv, BeginDo PROVE WInv'
<1>1. Enter("do", Id(Ready, 3), Id(Ready, 2), Id(Ready, 1), live)
  BY DEF BeginDo
<1>2. PICK W, L, s, m, own :
        /\ Starts(Ready, W, L, s, m, own) /\ Open(Ready)
        /\ Stage(Ready, W \cup L, s, m, own)
        /\ fn \in Nat \ {0} /\ m \in Nat /\ own \subseteq 1..m
        /\ Sure(s) => W \cup L \subseteq own
        /\ Sure(s) <=> ~careless
        /\ \A i \in 1..5 : Id(Ready, i) = m + i
        /\ live \in BOOLEAN /\ At(Ready) \in 1..m
  BY <1>1, Begins
<1>3. PICK body, cond, after, n, B, P :
        /\ body = m + 1 /\ cond = m + 2 /\ after = m + 3
        /\ n = m + 3 /\ B = {body, cond, after} /\ P = (W \cup L) \cup B
  OBVIOUS
<1>4. /\ n \in Nat /\ m <= n /\ B \subseteq m + 1 .. n /\ B \subseteq 1..n
      /\ Id(Ready, 1) = body /\ Id(Ready, 2) = cond /\ Id(Ready, 3) = after
  BY <1>2, <1>3
<1>5. PICK c : c = New(Ready, 3)
  OBVIOUS
<1>6. Stage(c, P, s, n, own \cup B) /\ Open(c)
  BY <1>2, <1>3, <1>5, NewThree
<1>7. PICK c1 : c1 = Place(End(c, {body}), body)
  OBVIOUS
<1>8. /\ {body} \subseteq 1..n /\ {body} \subseteq own \cup B
      /\ body \in 1..n /\ body \in P
  BY <1>2, <1>3, <1>4
<1>9. Stage(c1, P \ {body}, s, n, own \cup B) /\ (Sure(s) => Open(c1))
  BY <1>6, <1>7, <1>8, JumpStage
<1>10. PICK f : f = Frame("do", after, cond, body, live)
  OBVIOUS
<1>11. /\ Awaits(f) = {after, cond} /\ Remembers(f) \subseteq B \cup {0}
       /\ Apart(f) /\ RemembersMade(f, n) /\ Awaits(f) \subseteq B
  BY <1>2, <1>3, <1>4, <1>10 DEF Frame, Awaits, Apart, Remembers, RemembersMade
<1>12. PICK Q : Q = P \ {body}
  OBVIOUS
<1>13. Stage(c1, Q, s, n, own \cup B)
  BY <1>9, <1>12
<1>14. Sure(s) => Q = (W \cup L) \cup Awaits(f)
  BY <1>2, <1>3, <1>11, <1>12
<1>15. Emit(c1) /\ Checked
  BY <1>4, <1>5, <1>7 DEF BeginDo
<1>16. Pushes(f)
  BY <1>1, <1>4, <1>10 DEF Enter, Pushes
<1>17. f \in Frames /\ f.kind # "function"
  BY <1>2, <1>3, <1>10 DEF Frame, Frames, Kinds, Loops, WInv, TInv
<1> QED
  BY <1>2, <1>4, <1>13, <1>11, <1>14, <1>15, <1>16, <1>17, EnterFresh

LEMMA BeginForeachKeeps == ASSUME WInv, BeginForeach PROVE WInv'
<1>1. Enter("foreach", Id(Ready, 4), Id(Ready, 3), Id(Ready, 1), live)
  BY DEF BeginForeach
<1>2. PICK W, L, s, m, own :
        /\ Starts(Ready, W, L, s, m, own) /\ Open(Ready)
        /\ Stage(Ready, W \cup L, s, m, own)
        /\ fn \in Nat \ {0} /\ m \in Nat /\ own \subseteq 1..m
        /\ Sure(s) => W \cup L \subseteq own
        /\ Sure(s) <=> ~careless
        /\ \A i \in 1..5 : Id(Ready, i) = m + i
        /\ live \in BOOLEAN /\ At(Ready) \in 1..m
  BY <1>1, Begins
<1>3. PICK cond, body, step, after, n, B, P :
        /\ cond = m + 1 /\ body = m + 2 /\ step = m + 3 /\ after = m + 4
        /\ n = m + 4 /\ B = {cond, body, step, after} /\ P = (W \cup L) \cup B
  OBVIOUS
<1>4. /\ n \in Nat /\ m <= n /\ B \subseteq m + 1 .. n /\ B \subseteq 1..n
      /\ Id(Ready, 1) = cond /\ Id(Ready, 2) = body /\ Id(Ready, 3) = step
      /\ Id(Ready, 4) = after
  BY <1>2, <1>3
<1>5. PICK c : c = New(Ready, 4)
  OBVIOUS
<1>6. Stage(c, P, s, n, own \cup B) /\ Open(c)
  BY <1>2, <1>3, <1>5, NewFour
<1>7. PICK c1 : c1 = Place(End(c, {cond}), cond)
  OBVIOUS
<1>8. /\ {cond} \subseteq 1..n /\ {cond} \subseteq own \cup B
      /\ cond \in 1..n /\ cond \in P
  BY <1>2, <1>3, <1>4
<1>9. Stage(c1, P \ {cond}, s, n, own \cup B) /\ (Sure(s) => Open(c1))
  BY <1>6, <1>7, <1>8, JumpStage
<1>10. PICK c2 : c2 = Place(End(c1, {body, after}), body)
  OBVIOUS
<1>11. /\ {body, after} \subseteq 1..n /\ {body, after} \subseteq own \cup B
       /\ body \in 1..n /\ body \in P \ {cond}
  BY <1>2, <1>3, <1>4
<1>12. /\ Stage(c2, (P \ {cond}) \ {body}, s, n, own \cup B)
       /\ (Sure(s) => Open(c2))
  BY <1>9, <1>10, <1>11, JumpStage
<1>13. PICK f : f = Frame("foreach", after, step, cond, live)
  OBVIOUS
<1>14. /\ Awaits(f) = {after, step} /\ Remembers(f) \subseteq B \cup {0}
       /\ Apart(f) /\ RemembersMade(f, n) /\ Awaits(f) \subseteq B
  BY <1>2, <1>3, <1>4, <1>13 DEF Frame, Awaits, Apart, Remembers, RemembersMade
<1>15. PICK Q : Q = (P \ {cond}) \ {body}
  OBVIOUS
<1>16. Stage(c2, Q, s, n, own \cup B)
  BY <1>12, <1>15
<1>17. Sure(s) => Q = (W \cup L) \cup Awaits(f)
  BY <1>2, <1>3, <1>14, <1>15
<1>18. Emit(c2) /\ Checked
  BY <1>4, <1>5, <1>7, <1>10 DEF BeginForeach
<1>19. Pushes(f)
  BY <1>1, <1>4, <1>13 DEF Enter, Pushes
<1>20. f \in Frames /\ f.kind # "function"
  BY <1>2, <1>3, <1>13 DEF Frame, Frames, Kinds, Loops, WInv, TInv
<1> QED
  BY <1>2, <1>4, <1>16, <1>14, <1>17, <1>18, <1>19, <1>20, EnterFresh

LEMMA BeginTryKeeps == ASSUME WInv, BeginTry PROVE WInv'
<1>1. Enter("try", Id(Ready, 4), Id(Ready, 3), Id(Ready, 2), live)
  BY DEF BeginTry
<1>2. PICK W, L, s, m, own :
        /\ Starts(Ready, W, L, s, m, own) /\ Open(Ready)
        /\ Stage(Ready, W \cup L, s, m, own)
        /\ fn \in Nat \ {0} /\ m \in Nat /\ own \subseteq 1..m
        /\ Sure(s) => W \cup L \subseteq own
        /\ Sure(s) <=> ~careless
        /\ \A i \in 1..5 : Id(Ready, i) = m + i
        /\ live \in BOOLEAN /\ At(Ready) \in 1..m
  BY <1>1, Begins
<1>3. PICK try, catch, finally, end, n, B, P :
        /\ try = m + 1 /\ catch = m + 2 /\ finally = m + 3 /\ end = m + 4
        /\ n = m + 4 /\ B = {try, catch, finally, end} /\ P = (W \cup L) \cup B
  OBVIOUS
<1>4. /\ n \in Nat /\ m <= n /\ B \subseteq m + 1 .. n /\ B \subseteq 1..n
      /\ Id(Ready, 1) = try /\ Id(Ready, 2) = catch /\ Id(Ready, 3) = finally
      /\ Id(Ready, 4) = end
  BY <1>2, <1>3
<1>5. PICK c : c = New(Ready, 4)
  OBVIOUS
<1>6. Stage(c, P, s, n, own \cup B) /\ Open(c)
  BY <1>2, <1>3, <1>5, NewFour
<1>7. PICK c1 : c1 = Place(End(c, {catch, try}), try)
  OBVIOUS
<1>8. /\ {catch, try} \subseteq 1..n /\ {catch, try} \subseteq own \cup B
      /\ try \in 1..n /\ try \in P
  BY <1>2, <1>3, <1>4
<1>9. Stage(c1, P \ {try}, s, n, own \cup B) /\ (Sure(s) => Open(c1))
  BY <1>6, <1>7, <1>8, JumpStage
<1>10. PICK f : f = Frame("try", end, finally, catch, live)
  OBVIOUS
<1>11. /\ Awaits(f) = {end, finally, catch}
       /\ Remembers(f) \subseteq B \cup {0}
       /\ Apart(f) /\ RemembersMade(f, n) /\ Awaits(f) \subseteq B
  BY <1>2, <1>3, <1>4, <1>10 DEF Frame, Awaits, Apart, Remembers, RemembersMade
<1>12. PICK Q : Q = P \ {try}
  OBVIOUS
<1>13. Stage(c1, Q, s, n, own \cup B)
  BY <1>9, <1>12
<1>14. Sure(s) => Q = (W \cup L) \cup Awaits(f)
  BY <1>2, <1>3, <1>11, <1>12
<1>15. Emit(c1) /\ Checked
  BY <1>4, <1>5, <1>7 DEF BeginTry
<1>16. Pushes(f)
  BY <1>1, <1>4, <1>10 DEF Enter, Pushes
<1>17. f \in Frames /\ f.kind # "function"
  BY <1>2, <1>3, <1>10 DEF Frame, Frames, Kinds, Loops, WInv, TInv
<1> QED
  BY <1>2, <1>4, <1>13, <1>11, <1>14, <1>15, <1>16, <1>17, EnterFresh

LEMMA BeginForKeeps == ASSUME WInv, BeginFor PROVE WInv'
<1>1. PICK guarded \in BOOLEAN, updates \in BOOLEAN :
        LET cond  == Id(Ready, 1)
            body  == Id(Ready, 2)
            after == Id(Ready, 3)
            test  == Place(End(New(Ready, 3), {cond}), cond)
            head  == [test EXCEPT !.blocks[cond].entered =
                                    IF updates THEN Ready.at ELSE 0]
        IN  /\ Enter(IF guarded THEN "for" ELSE "forever",
                     after, cond, cond, live)
            /\ Emit(Place(End(head, IF guarded THEN {body, after} ELSE {body}),
                          body)) /\ Checked
  BY DEF BeginFor
<1>2. PICK k, v : /\ k = IF guarded THEN "for" ELSE "forever"
                  /\ v = IF updates THEN Ready.at ELSE 0
  OBVIOUS
<1>3. Enter(k, Id(Ready, 3), Id(Ready, 1), Id(Ready, 1), live)
  BY <1>1, <1>2
<1>4. PICK W, L, s, m, own :
        /\ Starts(Ready, W, L, s, m, own) /\ Open(Ready)
        /\ Stage(Ready, W \cup L, s, m, own)
        /\ fn \in Nat \ {0} /\ m \in Nat /\ own \subseteq 1..m
        /\ Sure(s) => W \cup L \subseteq own
        /\ Sure(s) <=> ~careless
        /\ \A i \in 1..5 : Id(Ready, i) = m + i
        /\ live \in BOOLEAN /\ At(Ready) \in 1..m
  BY <1>3, Begins
<1>5. PICK cond, body, after, n, B, P, T :
        /\ cond = m + 1 /\ body = m + 2 /\ after = m + 3
        /\ n = m + 3 /\ B = {cond, body, after} /\ P = (W \cup L) \cup B
        /\ T = IF guarded THEN {body, after} ELSE {body}
  OBVIOUS
<1>6. /\ n \in Nat /\ m <= n /\ B \subseteq m + 1 .. n /\ B \subseteq 1..n
      /\ Id(Ready, 1) = cond /\ Id(Ready, 2) = body /\ Id(Ready, 3) = after
  BY <1>4, <1>5
<1>7. PICK c : c = New(Ready, 3)
  OBVIOUS
<1>8. Stage(c, P, s, n, own \cup B) /\ Open(c)
  BY <1>4, <1>5, <1>7, NewThree
<1>9. PICK c1 : c1 = Place(End(c, {cond}), cond)
  OBVIOUS
<1>10. /\ {cond} \subseteq 1..n /\ {cond} \subseteq own \cup B
       /\ cond \in 1..n /\ cond \in P
  BY <1>4, <1>5, <1>6
<1>11. /\ Stage(c1, P \ {cond}, s, n, own \cup B)
       /\ Sure(s) => Open(c1)
       /\ At(c1) = cond
  BY <1>8, <1>9, <1>10, JumpStage
<1>12. PICK b : b = c1.blocks[cond]
  OBVIOUS
<1>13. PICK x : x = [b EXCEPT !.entered = v]
  OBVIOUS
<1>14. b \in Blocks /\ b = BlockOf(c1, At(c1))
  <2>1. cond \in 1..Len(c1.blocks)
    BY <1>10, <1>11 DEF Stage, Size
  <2> QED
    BY <1>11, <1>12, <2>1, CodeFacts DEF Stage, Good, BlockOf
<1>15. v \in 0..n /\ v \in Nat
  BY <1>2, <1>4, <1>6 DEF At
<1>16. /\ x \in Blocks /\ x.fn = BlockOf(c1, At(c1)).fn
       /\ x.ends = BlockOf(c1, At(c1)).ends
       /\ x.next = BlockOf(c1, At(c1)).next /\ x.entered \in 0..n
  BY <1>13, <1>14, <1>15 DEF Blocks
<1>17. PICK head : head = SetTo(c1, x)
  OBVIOUS
<1>18. /\ Stage(head, P \ {cond}, s, n, own \cup B)
       /\ Sure(s) => Open(head)
  BY <1>11, <1>16, <1>17, TouchStage
<1>19. PICK c2 : c2 = Place(End(head, T), body)
  OBVIOUS
<1>20. /\ T \subseteq 1..n /\ T \subseteq own \cup B
       /\ body \in 1..n /\ body \in P \ {cond}
  BY <1>4, <1>5, <1>6
<1>21. Stage(c2, (P \ {cond}) \ {body}, s, n, own \cup B)
  BY <1>18, <1>19, <1>20, JumpStage
<1>22. PICK f : f = Frame(k, after, cond, cond, live)
  OBVIOUS
<1>23. /\ Awaits(f) = {after} /\ Remembers(f) \subseteq B \cup {0}
       /\ Apart(f) /\ RemembersMade(f, n) /\ Awaits(f) \subseteq B
  BY <1>2, <1>4, <1>5, <1>6, <1>22
     DEF Frame, Awaits, Apart, Remembers, RemembersMade
<1>24. PICK Q : Q = (P \ {cond}) \ {body}
  OBVIOUS
<1>25. Stage(c2, Q, s, n, own \cup B)
  BY <1>21, <1>24
<1>26. Sure(s) => Q = (W \cup L) \cup Awaits(f)
  BY <1>4, <1>5, <1>23, <1>24
<1>27. Emit(c2) /\ Checked
  <2>1. head = [c1 EXCEPT !.blocks[cond].entered = v]
    <3>1. c1.at = cond
      BY <1>11 DEF At
    <3> QED
      BY <1>12, <1>13, <1>17, <3>1 DEF SetTo
  <2> QED
    BY <1>1, <1>2, <1>5, <1>6, <1>7, <1>9, <1>19, <2>1
<1>28. Pushes(f)
  BY <1>3, <1>6, <1>22 DEF Enter, Pushes
<1>29. f \in Frames /\ f.kind # "function"
  BY <1>2, <1>4, <1>5, <1>22 DEF Frame, Frames, Kinds, Loops, WInv, TInv
<1> QED
  BY <1>4, <1>6, <1>25, <1>23, <1>26, <1>27, <1>28, <1>29, EnterFresh

\* The first arm of a match, and whatever comes behind it.
ArmBlocks(B, check, body, end, merge, following) ==
  /\ B = {check, body, end, merge, following}
  /\ {check, body} \cap {end, merge, following} = {} /\ check # body
  /\ merge \notin {end, following}
IsArm(f, merge, end, following) ==
  /\ f.kind = "arm" /\ f.after = merge /\ f.continue = end
  /\ f.other = following

LEMMA FirstArm ==
  ASSUME WInv,
         NEW W, NEW L, NEW s, NEW m, NEW own, Starts(Ready, W, L, s, m, own),
         Sure(s) <=> ~careless,
         NEW check, NEW body, NEW end, NEW merge, NEW following, NEW B,
         ArmBlocks(B, check, body, end, merge, following),
         NEW n \in Nat, m <= n, B \subseteq m + 1 .. n,
         NEW c, Stage(c, (W \cup L) \cup B, s, n, own \cup B), Open(c),
         NEW T, T \subseteq {body, following},
         NEW f \in Frames, IsArm(f, merge, end, following), Pushes(f),
         Emit(Place(End(Place(End(c, {check}), check), T), body)), Checked
  PROVE  WInv'
<1>1. PICK P : P = (W \cup L) \cup B
  OBVIOUS
<1>2. /\ m \in Nat /\ own \subseteq 1..m
      /\ (Sure(s) => W \cup L \subseteq own)
  BY DEF Starts
<1>3. /\ B \subseteq 1..n /\ Stage(c, P, s, n, own \cup B)
      /\ {check, body, following} \subseteq B /\ check # body
  BY <1>1, <1>2 DEF ArmBlocks
<1>4. PICK c1 : c1 = Place(End(c, {check}), check)
  OBVIOUS
<1>5. /\ {check} \subseteq 1..n /\ {check} \subseteq own \cup B
      /\ check \in 1..n /\ check \in P
  BY <1>1, <1>3
<1>6. Stage(c1, P \ {check}, s, n, own \cup B) /\ (Sure(s) => Open(c1))
  BY <1>3, <1>4, <1>5, JumpStage
<1>7. PICK c2 : c2 = Place(End(c1, T), body)
  OBVIOUS
<1>8. /\ T \subseteq 1..n /\ T \subseteq own \cup B
      /\ body \in 1..n /\ body \in P \ {check}
  BY <1>1, <1>3
<1>9. Stage(c2, (P \ {check}) \ {body}, s, n, own \cup B)
  BY <1>6, <1>7, <1>8, JumpStage
<1>10. /\ Awaits(f) = {merge, end, following}
       /\ Remembers(f) \subseteq B \cup {0} /\ Awaits(f) \subseteq B
       /\ Apart(f) /\ RemembersMade(f, n)
  <2>1. ASSUME NEW b \in B PROVE b \in 1..n /\ b # 0
    BY <1>3
  <2> QED
    BY <2>1 DEF Awaits, Apart, Remembers, RemembersMade, ArmBlocks, IsArm
<1>11. PICK Q : Q = (P \ {check}) \ {body}
  OBVIOUS
<1>12. Stage(c2, Q, s, n, own \cup B)
  BY <1>9, <1>11
<1>13. Sure(s) => Q = (W \cup L) \cup Awaits(f)
  <2>1. ASSUME NEW b \in B PROVE b \notin own
    BY <1>2
  <2> QED
    BY <1>1, <1>2, <1>10, <1>11, <2>1 DEF ArmBlocks
<1>14. Emit(c2)
  BY <1>4, <1>7
<1>15. f.kind # "function"
  BY DEF IsArm
<1> QED
  BY <1>12, <1>10, <1>13, <1>14, <1>15, EnterFresh

LEMMA BeginMatchKeeps == ASSUME WInv, BeginMatch PROVE WInv'
<1>1. PICK last \in BOOLEAN, always \in BOOLEAN :
        LET check == Id(Ready, 1)
            body  == Id(Ready, 2)
            end   == Id(Ready, 3)
            merge == Id(Ready, 4)
            following == IF last THEN end ELSE Id(Ready, 5)
            c     == End(New(Ready, IF last THEN 4 ELSE 5), {check})
        IN  /\ Enter("arm", merge, end, following, live /\ ~always)
            /\ Emit(Arm(c, check, body, following, always)) /\ Checked
  BY DEF BeginMatch
<1>2. PICK W, L, s, m, own :
        /\ Starts(Ready, W, L, s, m, own) /\ Open(Ready)
        /\ Stage(Ready, W \cup L, s, m, own)
        /\ fn \in Nat \ {0} /\ m \in Nat /\ own \subseteq 1..m
        /\ Sure(s) => W \cup L \subseteq own
        /\ Sure(s) <=> ~careless
        /\ \A i \in 1..5 : Id(Ready, i) = m + i
        /\ live \in BOOLEAN /\ At(Ready) \in 1..m
  BY <1>1, Begins
<1>3. PICK check, body, end, merge, entry :
        /\ check = m + 1 /\ body = m + 2 /\ end = m + 3 /\ merge = m + 4
        /\ entry = (live /\ ~always)
  OBVIOUS
<1>4. /\ Id(Ready, 1) = check /\ Id(Ready, 2) = body /\ Id(Ready, 3) = end
      /\ Id(Ready, 4) = merge /\ Id(Ready, 5) = m + 5 /\ entry \in BOOLEAN
  BY <1>2, <1>3
<1>5. CASE last
  <2>1. PICK following, n, B, T :
          /\ following = end /\ n = m + 4
          /\ B = {check, body, end, merge}
          /\ T = IF always THEN {body} ELSE {body, following}
    OBVIOUS
  <2>2. PICK c : c = New(Ready, 4)
    OBVIOUS
  <2>3. Stage(c, (W \cup L) \cup B, s, n, own \cup B) /\ Open(c)
    BY <1>2, <1>3, <2>1, <2>2, NewFour
  <2>4. PICK f : f = Frame("arm", merge, end, following, entry)
    OBVIOUS
  <2>5. Pushes(f)
    BY <1>1, <1>3, <1>4, <1>5, <2>1, <2>4 DEF Enter, Pushes
  <2>6. Emit(Place(End(Place(End(c, {check}), check), T), body)) /\ Checked
    BY <1>1, <1>4, <1>5, <2>1, <2>2 DEF Arm
  <2>7. f \in Frames /\ IsArm(f, merge, end, following)
    BY <1>2, <1>3, <1>4, <2>1, <2>4 DEF Frame, Frames, Kinds, IsArm, WInv, TInv
  <2>8. /\ ArmBlocks(B, check, body, end, merge, following)
        /\ T \subseteq {body, following}
        /\ n \in Nat /\ m <= n /\ B \subseteq m + 1 .. n
    BY <1>2, <1>3, <2>1 DEF ArmBlocks
  <2> QED
    BY <1>2, <2>3, <2>5, <2>6, <2>7, <2>8, FirstArm
<1>6. CASE ~last
  <2>1. PICK following, n, B, T :
          /\ following = m + 5 /\ n = m + 5
          /\ B = {check, body, end, merge, following}
          /\ T = IF always THEN {body} ELSE {body, following}
    OBVIOUS
  <2>2. PICK c : c = New(Ready, 5)
    OBVIOUS
  <2>3. Stage(c, (W \cup L) \cup B, s, n, own \cup B) /\ Open(c)
    BY <1>2, <1>3, <2>1, <2>2, NewFive
  <2>4. PICK f : f = Frame("arm", merge, end, following, entry)
    OBVIOUS
  <2>5. Pushes(f)
    BY <1>1, <1>3, <1>4, <1>6, <2>1, <2>4 DEF Enter, Pushes
  <2>6. Emit(Place(End(Place(End(c, {check}), check), T), body)) /\ Checked
    BY <1>1, <1>4, <1>6, <2>1, <2>2 DEF Arm
  <2>7. f \in Frames /\ IsArm(f, merge, end, following)
    BY <1>2, <1>3, <1>4, <2>1, <2>4 DEF Frame, Frames, Kinds, IsArm, WInv, TInv
  <2>8. /\ ArmBlocks(B, check, body, end, merge, following)
        /\ T \subseteq {body, following}
        /\ n \in Nat /\ m <= n /\ B \subseteq m + 1 .. n
    BY <1>2, <1>3, <2>1 DEF ArmBlocks
  <2> QED
    BY <1>2, <2>3, <2>5, <2>6, <2>7, <2>8, FirstArm
<1> QED
  BY <1>5, <1>6

----------------------------------------------------------------------------
(* The ends of the handlers: f is the last of the stack.                   *)

EndsWith(f, s) ==
  /\ open # <<>> /\ f = Top /\ f.kind # "function"
  /\ Sure(s) => ~careless

\* What it starts from, and that its frame's blocks are the function's.
Ending(f, s, W, L, m, own) ==
  /\ Starts(cg, W, L, s, m, own) /\ Stage(cg, W \cup L, s, m, own)
  /\ Grows(m, own, m, own) /\ m = Len(blocks)
  /\ fn \in Nat \ {0} /\ m \in Nat /\ own \subseteq 1..m
  /\ f \in Frames /\ RemembersMade(f, m)
  /\ Sure(s) => /\ W \subseteq own /\ L \subseteq own /\ W \cap L = {}
                /\ Remembers(f) \subseteq own \cup {0} /\ Apart(f)
                /\ Awaits(f) \subseteq W /\ Awaits(f) \cap L = {}

LEMMA Ends ==
  ASSUME WInv, NEW f, NEW s, EndsWith(f, s)
  PROVE  \E W, L, m, own : Ending(f, s, W, L, m, own)
<1>1. open # <<>> /\ f = Top /\ f.kind # "function" /\ (Sure(s) => ~careless)
  BY DEF EndsWith
<1>2. PICK W, L, m, own : /\ Starts(cg, W, L, s, Len(blocks), OwnIn(cg))
                          /\ m = Len(blocks) /\ own = OwnIn(cg)
  BY <1>1, UnderStarts
<1>3. Starts(cg, W, L, s, m, own)
  BY <1>2
<1>4. /\ Stage(cg, W \cup L, s, m, own)
      /\ fn \in Nat \ {0} /\ m \in Nat /\ own \subseteq 1..m
      /\ Sure(s) => W \subseteq own /\ L \subseteq own /\ W \cap L = {}
  BY <1>3 DEF Starts
<1>5. Grows(m, own, m, own)
  BY <1>3, GrowsNot
<1>6. PICK c : c = cg
  OBVIOUS
<1>7. Starts(c, W, L, s, m, own)
  BY <1>3, <1>6
<1>8. StackOK(SubSeq(open, 1, Len(open) - 1), W \ Awaits(f), m, own, L, s)
  BY <1>7, <1>1, TopFacts
<1>9. f \in Frames /\ RemembersMade(f, m)
  BY <1>7, <1>1, TopFacts
<1>10. ASSUME Sure(s)
      PROVE  /\ Remembers(f) \subseteq own \cup {0} /\ Apart(f)
             /\ Awaits(f) \subseteq W /\ Awaits(f) \cap L = {}
  BY <1>7, <1>10, <1>1, TopAwaits
<1> QED
  BY <1>2, <1>3, <1>4, <1>5, <1>9, <1>10 DEF Ending

\* The blocks that a handler's frame names.
LEMMA NamesMade ==
  ASSUME NEW f, NEW m \in Nat, NEW own, NEW s, RemembersMade(f, m),
         Sure(s) => Remembers(f) \subseteq own \cup {0}, own \subseteq 1..m,
         f.kind \notin {"function", "block"}
  PROVE  /\ f.after \in 1..m /\ f.other \in 1..m
         /\ Sure(s) => f.after \in own /\ f.other \in own
         /\ f.kind \notin {"then", "else"} =>
              f.continue \in 1..m /\ (Sure(s) => f.continue \in own)
BY DEF RemembersMade, Remembers

\* A handler that does not make blocks, and leaves no more of its own.
LEMMA EndKeeps ==
  ASSUME WInv, open # <<>>, NEW f, f = Top, f.kind # "function",
         NEW W, NEW L, NEW s, NEW m, NEW own, Starts(cg, W, L, s, m, own),
         Pops, NEW d, NEW Q, Stage(d, Q, s, m, own),
         Sure(s) => Q = (W \cup L) \ Awaits(f),
         Sure(s) => Awaits(f) \cap L = {},
         Emit(d), careless' \in BOOLEAN, ~careless' => Sure(s)
  PROVE  WInv'
<1>1. Sure(s) => Q = (W \ Awaits(f)) \cup L
  OBVIOUS
<1>2. Stage(d, (W \ Awaits(f)) \cup L, s, m, own)
  BY <1>1, StageOf
<1>3. Grows(m, own, m, own)
  BY GrowsNot
<1> QED
  BY <1>2, <1>3, LeaveKeeps

LEMMA EndBlockKeeps == ASSUME WInv, EndBlock PROVE WInv'
<1>1. PICK f : f = Top
  OBVIOUS
<1>2. open # <<>> /\ f.kind = "block" /\ f.kind # "function"
  BY <1>1 DEF EndBlock, Inside
<1>3. PICK s : Sure(s) <=> ~careless
  BY Careful
<1>from. PICK W, L, m, own : Ending(f, s, W, L, m, own)
  <2>1. EndsWith(f, s)
    BY <1>1, <1>2, <1>3 DEF EndsWith
  <2> QED
    BY <2>1, Ends
<1>4. /\ Starts(cg, W, L, s, m, own) /\ Stage(cg, W \cup L, s, m, own)
      /\ f \in Frames
  BY <1>from DEF Ending
<1>5. Awaits(f) = {}
  BY <1>2 DEF Awaits
<1>6. PICK Q : Q = W \cup L
  OBVIOUS
<1>7. /\ Stage(cg, Q, s, m, own)
      /\ Sure(s) => Q = (W \cup L) \ Awaits(f)
      /\ Sure(s) => Awaits(f) \cap L = {}
  BY <1>4, <1>5, <1>6
<1>8. Pops
  BY DEF EndBlock, Leave, Pops, WInv, TInv
<1>9. /\ Emit(cg) /\ careless' \in BOOLEAN
      /\ ~careless' => Sure(s)
  BY <1>3 DEF EndBlock, Emit, cg, WInv, TInv
<1> QED
  BY <1>1, <1>2, <1>4, <1>7, <1>8, <1>9, EndKeeps

LEMMA EndIfKeeps == ASSUME WInv, EndIf PROVE WInv'
<1>1. PICK f : f = Top
  OBVIOUS
<1>2. open # <<>> /\ f.kind = "else" /\ f.kind # "function"
  BY <1>1 DEF EndIf, Inside
<1>3. PICK s : Sure(s) <=> ~careless
  BY Careful
<1>from. PICK W, L, m, own : Ending(f, s, W, L, m, own)
  <2>1. EndsWith(f, s)
    BY <1>1, <1>2, <1>3 DEF EndsWith
  <2> QED
    BY <2>1, Ends
<1>4. /\ Starts(cg, W, L, s, m, own) /\ Stage(cg, W \cup L, s, m, own)
      /\ m \in Nat /\ own \subseteq 1..m
      /\ f \in Frames /\ RemembersMade(f, m)
      /\ Sure(s) => /\ Remembers(f) \subseteq own \cup {0}
                    /\ Awaits(f) \subseteq W /\ Awaits(f) \cap L = {}
  BY <1>from DEF Ending
<1>5. PICK a : a = f.after
  OBVIOUS
<1>6. a \in 1..m /\ (Sure(s) => a \in own)
  BY <1>2, <1>4, <1>5, NamesMade
<1>7. Awaits(f) = {a} /\ (Sure(s) => a \in W)
  BY <1>2, <1>4, <1>5 DEF Awaits
<1>8. PICK d : d = Place(EndOpen(cg, {a}), a)
  OBVIOUS
<1>9. /\ {a} \subseteq 1..m /\ a \in 1..m
      /\ Sure(s) => {a} \subseteq own /\ a \in W \cup L
  BY <1>6, <1>7
<1>10. Stage(d, (W \cup L) \ {a}, s, m, own)
  BY <1>4, <1>8, <1>9, JumpOpenStage
<1>11. PICK Q : Q = (W \cup L) \ {a}
  OBVIOUS
<1>12. /\ Stage(d, Q, s, m, own)
       /\ Sure(s) => Q = (W \cup L) \ Awaits(f)
       /\ Sure(s) => Awaits(f) \cap L = {}
  BY <1>4, <1>7, <1>10, <1>11
<1>13. Pops
  BY <1>1, <1>4 DEF EndIf, Leave, Pops, WInv, TInv, Frames
<1>14. /\ Emit(d) /\ careless' \in BOOLEAN
       /\ ~careless' => Sure(s)
  BY <1>1, <1>3, <1>5, <1>8 DEF EndIf, Checked, WInv, TInv
<1> QED
  BY <1>1, <1>2, <1>4, <1>12, <1>13, <1>14, EndKeeps

LEMMA CarefulOpen ==
  ASSUME WInv
  PROVE  \E s : Sure(s) <=> ~(careless \/ ~Open(cg))
<1>1. CASE careless \/ ~Open(cg)
  <2>1. ~Sure("any")
    BY DEF Sure
  <2> QED
    BY <1>1, <2>1
<1>2. CASE ~(careless \/ ~Open(cg))
  <2>1. Sure("sound")
    BY DEF Sure
  <2> QED
    BY <1>2, <2>1
<1> QED
  BY <1>1, <1>2

LEMMA EndIfWithoutElseKeeps == ASSUME WInv, EndIfWithoutElse PROVE WInv'
<1>1. PICK f : f = Top
  OBVIOUS
<1>2. open # <<>> /\ f.kind = "then" /\ f.kind # "function"
  BY <1>1 DEF EndIfWithoutElse, Inside
<1>3. PICK s : Sure(s) <=> ~careless
  BY Careful
<1>from. PICK W, L, m, own : Ending(f, s, W, L, m, own)
  <2>1. EndsWith(f, s)
    BY <1>1, <1>2, <1>3 DEF EndsWith
  <2> QED
    BY <2>1, Ends
<1>4. /\ Starts(cg, W, L, s, m, own) /\ Stage(cg, W \cup L, s, m, own)
      /\ m \in Nat /\ own \subseteq 1..m
      /\ f \in Frames /\ RemembersMade(f, m)
      /\ Sure(s) => /\ Remembers(f) \subseteq own \cup {0} /\ Apart(f)
                    /\ Awaits(f) \subseteq W /\ Awaits(f) \cap L = {}
  BY <1>from DEF Ending
<1>5. PICK a, o : a = f.after /\ o = f.other
  OBVIOUS
<1>6. /\ a \in 1..m /\ o \in 1..m
      /\ Sure(s) => a \in own /\ o \in own
  BY <1>2, <1>4, <1>5, NamesMade
<1>7. /\ Awaits(f) = {a, o}
      /\ Sure(s) => a \in W /\ o \in W
      /\ Sure(s) => o # a
  BY <1>2, <1>4, <1>5 DEF Awaits, Apart
<1>8. PICK c1 : c1 = Place(EndOpen(cg, {a}), o)
  OBVIOUS
<1>9. /\ {a} \subseteq 1..m /\ o \in 1..m
      /\ Sure(s) => {a} \subseteq own /\ o \in W \cup L
  BY <1>6, <1>7
<1>10. /\ Stage(c1, (W \cup L) \ {o}, s, m, own)
       /\ Sure(s) => Open(c1)
  BY <1>4, <1>8, <1>9, JumpOpenStage
<1>11. PICK c2 : c2 = Place(EndOpen(c1, {a}), a)
  OBVIOUS
<1>12. /\ {a} \subseteq 1..m /\ a \in 1..m
       /\ Sure(s) => {a} \subseteq own /\ a \in (W \cup L) \ {o}
  BY <1>6, <1>7
<1>13. /\ Stage(c2, ((W \cup L) \ {o}) \ {a}, s, m, own)
       /\ Sure(s) => Open(c2)
  BY <1>10, <1>11, <1>12, JumpOpenStage
<1>14. PICK Q : Q = ((W \cup L) \ {o}) \ {a}
  OBVIOUS
<1>15. /\ Stage(c2, Q, s, m, own)
       /\ Sure(s) => Q = (W \cup L) \ Awaits(f)
       /\ Sure(s) => Awaits(f) \cap L = {}
  BY <1>4, <1>7, <1>13, <1>14
<1>16. Pops
  BY <1>1, <1>4 DEF EndIfWithoutElse, Tested, Leave, Pops, WInv, TInv, Frames
<1>17. /\ Emit(c2) /\ careless' \in BOOLEAN
       /\ ~careless' => Sure(s)
  BY <1>1, <1>3, <1>5, <1>8, <1>11 DEF EndIfWithoutElse, Checked, WInv, TInv
<1> QED
  BY <1>1, <1>2, <1>4, <1>15, <1>16, <1>17, EndKeeps

LEMMA EndDoKeeps == ASSUME WInv, EndDo PROVE WInv'
<1>1. PICK f : f = Top
  OBVIOUS
<1>2. open # <<>> /\ f.kind = "do" /\ f.kind # "function"
  BY <1>1 DEF EndDo, Inside
<1>3. PICK s : Sure(s) <=> ~careless
  BY Careful
<1>from. PICK W, L, m, own : Ending(f, s, W, L, m, own)
  <2>1. EndsWith(f, s)
    BY <1>1, <1>2, <1>3 DEF EndsWith
  <2> QED
    BY <2>1, Ends
<1>4. /\ Starts(cg, W, L, s, m, own) /\ Stage(cg, W \cup L, s, m, own)
      /\ m \in Nat /\ own \subseteq 1..m
      /\ f \in Frames /\ RemembersMade(f, m)
      /\ Sure(s) => /\ Remembers(f) \subseteq own \cup {0} /\ Apart(f)
                    /\ Awaits(f) \subseteq W /\ Awaits(f) \cap L = {}
  BY <1>from DEF Ending
<1>5. PICK a, o, t : a = f.after /\ o = f.other /\ t = f.continue
  OBVIOUS
<1>6. /\ a \in 1..m /\ o \in 1..m /\ t \in 1..m
      /\ Sure(s) => a \in own /\ o \in own /\ t \in own
  BY <1>2, <1>4, <1>5, NamesMade
<1>7. /\ Awaits(f) = {a, t}
      /\ Sure(s) => a \in W /\ t \in W
      /\ Sure(s) => t # a
  BY <1>2, <1>4, <1>5 DEF Awaits, Apart
<1>8. PICK c1 : c1 = Place(EndOpen(cg, {t}), t)
  OBVIOUS
<1>9. /\ {t} \subseteq 1..m /\ t \in 1..m
      /\ Sure(s) => {t} \subseteq own /\ t \in W \cup L
  BY <1>6, <1>7
<1>10. /\ Stage(c1, (W \cup L) \ {t}, s, m, own)
       /\ Sure(s) => Open(c1)
  BY <1>4, <1>8, <1>9, JumpOpenStage
<1>11. PICK c2 : c2 = Place(End(c1, {o, a}), a)
  OBVIOUS
<1>12. /\ {o, a} \subseteq 1..m /\ a \in 1..m
       /\ Sure(s) => {o, a} \subseteq own /\ a \in (W \cup L) \ {t}
  BY <1>6, <1>7
<1>13. /\ Stage(c2, ((W \cup L) \ {t}) \ {a}, s, m, own)
       /\ Sure(s) => Open(c2)
  BY <1>10, <1>11, <1>12, JumpStage
<1>14. PICK Q : Q = ((W \cup L) \ {t}) \ {a}
  OBVIOUS
<1>15. /\ Stage(c2, Q, s, m, own)
       /\ Sure(s) => Q = (W \cup L) \ Awaits(f)
       /\ Sure(s) => Awaits(f) \cap L = {}
  BY <1>4, <1>7, <1>13, <1>14
<1>16. Pops
  BY <1>1, <1>4 DEF EndDo, Tested, Leave, Pops, WInv, TInv, Frames
<1>17. /\ Emit(c2) /\ careless' \in BOOLEAN
       /\ ~careless' => Sure(s)
  BY <1>1, <1>3, <1>5, <1>8, <1>11 DEF EndDo, Checked, WInv, TInv
<1> QED
  BY <1>1, <1>2, <1>4, <1>15, <1>16, <1>17, EndKeeps

LEMMA EndForeachKeeps == ASSUME WInv, EndForeach PROVE WInv'
<1>1. PICK f : f = Top
  OBVIOUS
<1>2. open # <<>> /\ f.kind = "foreach" /\ f.kind # "function"
  BY <1>1 DEF EndForeach, Inside
<1>3. PICK s : Sure(s) <=> ~careless
  BY Careful
<1>from. PICK W, L, m, own : Ending(f, s, W, L, m, own)
  <2>1. EndsWith(f, s)
    BY <1>1, <1>2, <1>3 DEF EndsWith
  <2> QED
    BY <2>1, Ends
<1>4. /\ Starts(cg, W, L, s, m, own) /\ Stage(cg, W \cup L, s, m, own)
      /\ m \in Nat /\ own \subseteq 1..m
      /\ f \in Frames /\ RemembersMade(f, m)
      /\ Sure(s) => /\ Remembers(f) \subseteq own \cup {0} /\ Apart(f)
                    /\ Awaits(f) \subseteq W /\ Awaits(f) \cap L = {}
  BY <1>from DEF Ending
<1>5. PICK a, o, t : a = f.after /\ o = f.other /\ t = f.continue
  OBVIOUS
<1>6. /\ a \in 1..m /\ o \in 1..m /\ t \in 1..m
      /\ Sure(s) => a \in own /\ o \in own /\ t \in own
  BY <1>2, <1>4, <1>5, NamesMade
<1>7. /\ Awaits(f) = {a, t}
      /\ Sure(s) => a \in W /\ t \in W
      /\ Sure(s) => t # a
  BY <1>2, <1>4, <1>5 DEF Awaits, Apart
<1>8. PICK c1 : c1 = Place(EndOpen(cg, {t}), t)
  OBVIOUS
<1>9. /\ {t} \subseteq 1..m /\ t \in 1..m
      /\ Sure(s) => {t} \subseteq own /\ t \in W \cup L
  BY <1>6, <1>7
<1>10. /\ Stage(c1, (W \cup L) \ {t}, s, m, own)
       /\ Sure(s) => Open(c1)
  BY <1>4, <1>8, <1>9, JumpOpenStage
<1>11. PICK c2 : c2 = Place(End(c1, {o}), a)
  OBVIOUS
<1>12. /\ {o} \subseteq 1..m /\ a \in 1..m
       /\ Sure(s) => {o} \subseteq own /\ a \in (W \cup L) \ {t}
  BY <1>6, <1>7
<1>13. /\ Stage(c2, ((W \cup L) \ {t}) \ {a}, s, m, own)
       /\ Sure(s) => Open(c2)
  BY <1>10, <1>11, <1>12, JumpStage
<1>14. PICK Q : Q = ((W \cup L) \ {t}) \ {a}
  OBVIOUS
<1>15. /\ Stage(c2, Q, s, m, own)
       /\ Sure(s) => Q = (W \cup L) \ Awaits(f)
       /\ Sure(s) => Awaits(f) \cap L = {}
  BY <1>4, <1>7, <1>13, <1>14
<1>16. Pops
  BY <1>1, <1>4 DEF EndForeach, Tested, Leave, Pops, WInv, TInv, Frames
<1>17. /\ Emit(c2) /\ careless' \in BOOLEAN
       /\ ~careless' => Sure(s)
  BY <1>1, <1>3, <1>5, <1>8, <1>11 DEF EndForeach, Checked, WInv, TInv
<1> QED
  BY <1>1, <1>2, <1>4, <1>15, <1>16, <1>17, EndKeeps

LEMMA EndWhileKeeps == ASSUME WInv, EndWhile PROVE WInv'
<1>1. PICK f : f = Top
  OBVIOUS
<1>2. open # <<>> /\ f.kind = "while" /\ f.kind # "function"
  BY <1>1 DEF EndWhile, Inside
<1>3. PICK s : Sure(s) <=> ~(careless \/ ~Open(cg))
  BY CarefulOpen
<1>from. PICK W, L, m, own : Ending(f, s, W, L, m, own)
  <2>1. EndsWith(f, s)
    BY <1>1, <1>2, <1>3 DEF EndsWith
  <2> QED
    BY <2>1, Ends
<1>4. /\ Starts(cg, W, L, s, m, own) /\ Stage(cg, W \cup L, s, m, own)
      /\ m \in Nat /\ own \subseteq 1..m
      /\ f \in Frames /\ RemembersMade(f, m)
      /\ Sure(s) => /\ Remembers(f) \subseteq own \cup {0} /\ Apart(f)
                    /\ Awaits(f) \subseteq W /\ Awaits(f) \cap L = {}
  BY <1>from DEF Ending
<1>5. PICK a, o : a = f.after /\ o = f.other
  OBVIOUS
<1>6. /\ a \in 1..m /\ o \in 1..m
      /\ Sure(s) => a \in own /\ o \in own
  BY <1>2, <1>4, <1>5, NamesMade
<1>7. /\ Awaits(f) = {a}
      /\ Sure(s) => a \in W
  BY <1>2, <1>4, <1>5 DEF Awaits, Apart
<1>8. PICK c1 : c1 = Place(End(cg, {o}), a)
  OBVIOUS
<1>9. /\ {o} \subseteq 1..m /\ a \in 1..m
      /\ Sure(s) => {o} \subseteq own /\ a \in W \cup L /\ Open(cg)
  BY <1>3, <1>6, <1>7
<1>10. /\ Stage(c1, (W \cup L) \ {a}, s, m, own)
       /\ Sure(s) => Open(c1)
  BY <1>4, <1>8, <1>9, JumpStage
<1>11. PICK Q : Q = (W \cup L) \ {a}
  OBVIOUS
<1>12. /\ Stage(c1, Q, s, m, own)
       /\ Sure(s) => Q = (W \cup L) \ Awaits(f)
       /\ Sure(s) => Awaits(f) \cap L = {}
  BY <1>4, <1>7, <1>10, <1>11
<1>13. Pops
  BY <1>1, <1>4 DEF EndWhile, Tested, Leave, Pops, WInv, TInv, Frames
<1>14. /\ Emit(c1) /\ careless' \in BOOLEAN
       /\ ~careless' => Sure(s)
  BY <1>1, <1>3, <1>5, <1>8 DEF EndWhile, Unchecked, WInv, TInv
<1> QED
  BY <1>1, <1>2, <1>4, <1>12, <1>13, <1>14, EndKeeps

LEMMA EndForKeeps == ASSUME WInv, EndFor PROVE WInv'
<1>1. PICK f : f = Top
  OBVIOUS
<1>2. open # <<>> /\ f.kind \in {"for", "forever"} /\ f.kind # "function"
  BY <1>1 DEF EndFor, Inside
<1>3. PICK s : Sure(s) <=> ~(careless \/ ~Open(cg))
  BY CarefulOpen
<1>from. PICK W, L, m, own : Ending(f, s, W, L, m, own)
  <2>1. EndsWith(f, s)
    BY <1>1, <1>2, <1>3 DEF EndsWith
  <2> QED
    BY <2>1, Ends
<1>4. /\ Starts(cg, W, L, s, m, own) /\ Stage(cg, W \cup L, s, m, own)
      /\ m \in Nat /\ own \subseteq 1..m
      /\ f \in Frames /\ RemembersMade(f, m)
      /\ Sure(s) => /\ Remembers(f) \subseteq own \cup {0} /\ Apart(f)
                    /\ Awaits(f) \subseteq W /\ Awaits(f) \cap L = {}
  BY <1>from DEF Ending
<1>5. PICK a, o : a = f.after /\ o = f.other
  OBVIOUS
<1>6. /\ a \in 1..m /\ o \in 1..m
      /\ Sure(s) => a \in own /\ o \in own
  BY <1>2, <1>4, <1>5, NamesMade
<1>7. /\ Awaits(f) = {a}
      /\ Sure(s) => a \in W
  BY <1>2, <1>4, <1>5 DEF Awaits
<1>8. PICK b, u : /\ b = blocks[insert]
                  /\ u = (b.updates \/ blocks[o].entered # 0)
  OBVIOUS
<1>9. PICK x : x = [b EXCEPT !.updates = u]
  OBVIOUS
<1>10. /\ b \in Blocks /\ b = BlockOf(cg, At(cg)) /\ b.entered \in 0..m
       /\ u \in BOOLEAN
  <2>1. b = cg.blocks[cg.at]
    BY <1>8 DEF cg
  <2>2. b \in Blocks /\ b.entered \in 0..m
    BY <1>4, <2>1, CodeFacts DEF Stage, Good, Size
  <2>3. u \in BOOLEAN
    BY <1>8, <2>2 DEF Blocks
  <2> QED
    BY <2>1, <2>2, <2>3 DEF BlockOf, At
<1>11. /\ x \in Blocks /\ x.fn = BlockOf(cg, At(cg)).fn
       /\ x.ends = BlockOf(cg, At(cg)).ends
       /\ x.next = BlockOf(cg, At(cg)).next /\ x.entered \in 0..m
  BY <1>9, <1>10 DEF Blocks
<1>12. PICK last : last = SetTo(cg, x)
  OBVIOUS
<1>13. /\ Stage(last, W \cup L, s, m, own)
       /\ Open(last) <=> Open(cg)
  BY <1>4, <1>11, <1>12, TouchStage
<1>14. PICK c1 : c1 = Place(End(last, {o}), a)
  OBVIOUS
<1>15. /\ {o} \subseteq 1..m /\ a \in 1..m
       /\ Sure(s) => {o} \subseteq own /\ a \in W \cup L /\ Open(last)
  BY <1>3, <1>6, <1>7, <1>13
<1>16. Stage(c1, (W \cup L) \ {a}, s, m, own)
  BY <1>13, <1>14, <1>15, JumpStage
<1>17. PICK Q : Q = (W \cup L) \ {a}
  OBVIOUS
<1>18. /\ Stage(c1, Q, s, m, own)
       /\ Sure(s) => Q = (W \cup L) \ Awaits(f)
       /\ Sure(s) => Awaits(f) \cap L = {}
  BY <1>4, <1>7, <1>16, <1>17
<1>19. Pops
  BY <1>1, <1>4 DEF EndFor, Tested, Leave, Pops, WInv, TInv, Frames
<1>20. Emit(c1)
  <2>1. last = [cg EXCEPT !.blocks[insert].updates =
                            @ \/ blocks[Top.other].entered # 0]
    BY <1>1, <1>5, <1>8, <1>9, <1>12 DEF SetTo, cg
  <2> QED
    BY <1>1, <1>5, <1>14, <2>1 DEF EndFor
<1>21. /\ careless' \in BOOLEAN
       /\ ~careless' => Sure(s)
  BY <1>3 DEF EndFor, Unchecked, WInv, TInv
<1> QED
  BY <1>1, <1>2, <1>4, <1>18, <1>19, <1>20, <1>21, EndKeeps

LEMMA EndMatchKeeps == ASSUME WInv, EndMatch PROVE WInv'
<1>1. PICK f : f = Top
  OBVIOUS
<1>2. /\ open # <<>> /\ f.kind = "arm" /\ f.kind # "function"
      /\ f.other = f.continue
  BY <1>1 DEF EndMatch, Inside
<1>3. PICK s : Sure(s) <=> ~careless
  BY Careful
<1>from. PICK W, L, m, own : Ending(f, s, W, L, m, own)
  <2>1. EndsWith(f, s)
    BY <1>1, <1>2, <1>3 DEF EndsWith
  <2> QED
    BY <2>1, Ends
<1>4. /\ Starts(cg, W, L, s, m, own) /\ Stage(cg, W \cup L, s, m, own)
      /\ m \in Nat /\ own \subseteq 1..m
      /\ f \in Frames /\ RemembersMade(f, m)
      /\ Sure(s) => /\ Remembers(f) \subseteq own \cup {0} /\ Apart(f)
                    /\ Awaits(f) \subseteq W /\ Awaits(f) \cap L = {}
  BY <1>from DEF Ending
<1>5. PICK a, t : a = f.after /\ t = f.continue
  OBVIOUS
<1>6. /\ a \in 1..m /\ t \in 1..m
      /\ Sure(s) => a \in own /\ t \in own
  BY <1>2, <1>4, <1>5, NamesMade
<1>7. /\ Awaits(f) = {a, t}
      /\ Sure(s) => a \in W /\ t \in W /\ a # t
  BY <1>2, <1>4, <1>5 DEF Awaits, Apart
<1>8. PICK c1 : c1 = Place(EndOpen(cg, {a}), t)
  OBVIOUS
<1>9. /\ {a} \subseteq 1..m /\ t \in 1..m
      /\ Sure(s) => {a} \subseteq own /\ t \in W \cup L
  BY <1>6, <1>7
<1>10. /\ Stage(c1, (W \cup L) \ {t}, s, m, own)
       /\ Sure(s) => Open(c1)
  BY <1>4, <1>8, <1>9, JumpOpenStage
<1>11. PICK c2 : c2 = Place(End(c1, {a}), a)
  OBVIOUS
<1>12. /\ {a} \subseteq 1..m /\ a \in 1..m
       /\ Sure(s) => {a} \subseteq own /\ a \in (W \cup L) \ {t}
  BY <1>6, <1>7
<1>13. Stage(c2, ((W \cup L) \ {t}) \ {a}, s, m, own)
  BY <1>10, <1>11, <1>12, JumpStage
<1>14. PICK Q : Q = ((W \cup L) \ {t}) \ {a}
  OBVIOUS
<1>15. /\ Stage(c2, Q, s, m, own)
       /\ Sure(s) => Q = (W \cup L) \ Awaits(f)
       /\ Sure(s) => Awaits(f) \cap L = {}
  BY <1>4, <1>7, <1>13, <1>14
<1>16. Pops
  BY <1>1, <1>4 DEF EndMatch, Leave, Pops, WInv, TInv, Frames
<1>17. /\ Emit(c2) /\ careless' \in BOOLEAN
       /\ ~careless' => Sure(s)
  <2>1. PICK e : e = Place(EndOpen(cg, {Top.after}), Top.continue)
    OBVIOUS
  <2>2. Emit(Place(End(e, {Top.after}), Top.after))
    BY <2>1 DEF EndMatch
  <2>3. Emit(c2)
    BY <1>1, <1>5, <1>8, <1>11, <2>1, <2>2
  <2>4. careless' = careless /\ careless \in BOOLEAN
    BY DEF EndMatch, Checked, WInv, TInv
  <2> QED
    BY <1>3, <2>3, <2>4
<1> QED
  BY <1>1, <1>2, <1>4, <1>15, <1>16, <1>17, EndKeeps

\* What no catch matches: two blocks are made, and neither waits in the end.
LEMMA EndTryKeeps == ASSUME WInv, EndTry PROVE WInv'
<1>1. PICK f : f = Top
  OBVIOUS
<1>2. open # <<>> /\ f.kind = "catch" /\ f.kind # "function"
  BY <1>1 DEF EndTry, Inside
<1>3. PICK s : Sure(s) <=> ~careless
  BY Careful
<1>from. PICK W, L, m, own : Ending(f, s, W, L, m, own)
  <2>1. EndsWith(f, s)
    BY <1>1, <1>2, <1>3 DEF EndsWith
  <2> QED
    BY <2>1, Ends
<1>4. /\ Starts(cg, W, L, s, m, own) /\ Stage(cg, W \cup L, s, m, own)
      /\ fn \in Nat \ {0} /\ m \in Nat /\ own \subseteq 1..m
      /\ f \in Frames /\ RemembersMade(f, m)
      /\ Sure(s) => /\ W \subseteq own /\ L \subseteq own
                    /\ Remembers(f) \subseteq own \cup {0} /\ Apart(f)
                    /\ Awaits(f) \subseteq W /\ Awaits(f) \cap L = {}
  BY <1>from DEF Ending
<1>5. PICK a, o : a = f.after /\ o = f.other
  OBVIOUS
<1>6. /\ a \in 1..m /\ o \in 1..m
      /\ Sure(s) => a \in own /\ o \in own
  BY <1>2, <1>4, <1>5, NamesMade
<1>7. /\ Awaits(f) = {a, o}
      /\ Sure(s) => a \in W /\ o \in W /\ a # o
  BY <1>2, <1>4, <1>5 DEF Awaits, Apart
<1>8. PICK rethrow, abort, n, all :
        /\ rethrow = m + 1 /\ abort = m + 2
        /\ n = m + 2 /\ all = own \cup {rethrow, abort}
  OBVIOUS
<1>9. PICK e, P : e = EndOpen(cg, {a}) /\ P = (W \cup L) \cup {rethrow, abort}
  OBVIOUS
<1>10. /\ {a} \subseteq 1..m
       /\ Sure(s) => {a} \subseteq own
  BY <1>6
<1>11. Stage(e, W \cup L, s, m, own) /\ ~Open(e)
  BY <1>4, <1>9, <1>10, EndOpenStage
<1>12. PICK c : c = New(e, 2)
  OBVIOUS
<1>13. Stage(c, P, s, n, all) /\ ~Open(c)
  BY <1>4, <1>8, <1>9, <1>11, <1>12, NewTwo
<1>14. PICK l : l = c.back
  OBVIOUS
<1>15. /\ l \in 1..n /\ n \in Nat /\ m <= n
       /\ {a, o, rethrow, abort} \subseteq 1..n
       /\ {rethrow, abort} \subseteq all
       /\ rethrow \notin 1..m /\ abort \notin 1..m /\ rethrow # abort
  BY <1>4, <1>6, <1>8, <1>13, <1>14, CodeFacts DEF Stage, Good, Size
<1>16. PICK c1 : c1 = MoveTo(c, o, l)
  OBVIOUS
<1>17. /\ Stage(c1, P \ {o}, s, n, all)
       /\ Sure(s) => Open(c1)
  <2>1. o \in 1..n /\ (Sure(s) => ~Open(c) /\ o \in P)
    BY <1>7, <1>9, <1>13, <1>15
  <2> QED
    BY <1>13, <1>15, <1>16, <2>1, MoveStage
<1>18. PICK c2 : c2 = Place(End(c1, {abort, rethrow}), rethrow)
  OBVIOUS
<1>19. /\ {abort, rethrow} \subseteq 1..n /\ rethrow \in 1..n
       /\ {abort, rethrow} \subseteq all /\ rethrow \in P \ {o}
  BY <1>6, <1>9, <1>15
<1>20. /\ Stage(c2, (P \ {o}) \ {rethrow}, s, n, all)
       /\ Sure(s) => Open(c2)
  BY <1>17, <1>18, <1>19, JumpStage
<1>21. PICK c3 : c3 = Place(End(c2, {}), abort)
  OBVIOUS
<1>22. /\ {} \subseteq 1..n /\ {} \subseteq all /\ abort \in 1..n
       /\ abort \in (P \ {o}) \ {rethrow}
  BY <1>6, <1>9, <1>15
<1>23. /\ Stage(c3, ((P \ {o}) \ {rethrow}) \ {abort}, s, n, all)
       /\ Sure(s) => Open(c3)
  BY <1>20, <1>21, <1>22, JumpStage
<1>24. PICK c4 : c4 = Place(End(c3, {}), a)
  OBVIOUS
<1>25. /\ a \in 1..n
       /\ Sure(s) => a \in ((P \ {o}) \ {rethrow}) \ {abort}
  BY <1>6, <1>7, <1>9, <1>15
<1>26. Stage(c4, (((P \ {o}) \ {rethrow}) \ {abort}) \ {a}, s, n, all)
  BY <1>22, <1>23, <1>24, <1>25, JumpStage
<1>27. Sure(s) =>
         (((P \ {o}) \ {rethrow}) \ {abort}) \ {a} = (W \ Awaits(f)) \cup L
  <2>1. ASSUME Sure(s), NEW b \in W \cup L PROVE b \notin {rethrow, abort}
    BY <1>4, <1>15, <2>1
  <2> QED
    BY <1>4, <1>7, <1>9, <2>1
<1>28. Stage(c4, (W \ Awaits(f)) \cup L, s, n, all)
  BY <1>26, <1>27, StageOf
<1>29. Grows(m, own, n, all)
  <2>1. {rethrow, abort} \subseteq m + 1 .. n
    BY <1>4, <1>8
  <2>2. Grows(m, own, n, own \cup {rethrow, abort})
    BY <1>4, <1>15, <2>1, GrowsBy
  <2> QED
    BY <1>8, <2>2
<1>30. Pops
  BY <1>1, <1>4 DEF EndTry, Leave, Pops, WInv, TInv, Frames
<1>31. Emit(c4)
  <2>1. Id(cg, 1) = rethrow /\ Id(cg, 2) = abort
    BY <1>4, <1>8 DEF Stage, Size, Id
  <2>2. c1 = [c EXCEPT !.at = o]
    <3>1. c = [blocks |-> c.blocks, at |-> c.at, back |-> c.back]
      BY <1>13, CodeFacts DEF Stage, Good
    <3> QED
      BY <1>14, <1>16, <3>1 DEF MoveTo
  <2> QED
    BY <1>1, <1>5, <1>9, <1>12, <1>18, <1>21, <1>24, <2>1, <2>2 DEF EndTry
<1>32. /\ careless' \in BOOLEAN
       /\ ~careless' => Sure(s)
  BY <1>3 DEF EndTry, Checked, WInv, TInv
<1> QED
  BY <1>1, <1>2, <1>4, <1>28, <1>29, <1>30, <1>31, <1>32, LeaveKeeps

----------------------------------------------------------------------------
(* The next part of a construct: the frame f becomes g.                    *)

LEMMA BeginElseKeeps == ASSUME WInv, BeginElse PROVE WInv'
<1>1. PICK f : f = Top
  OBVIOUS
<1>2. open # <<>> /\ f.kind = "then" /\ f.kind # "function"
  BY <1>1 DEF BeginElse, Inside
<1>3. PICK s : Sure(s) <=> ~careless
  BY Careful
<1>from. PICK W, L, m, own : Ending(f, s, W, L, m, own)
  <2>1. EndsWith(f, s)
    BY <1>1, <1>2, <1>3 DEF EndsWith
  <2> QED
    BY <2>1, Ends
<1>4. /\ Starts(cg, W, L, s, m, own) /\ Stage(cg, W \cup L, s, m, own)
      /\ m \in Nat /\ own \subseteq 1..m
      /\ f \in Frames /\ RemembersMade(f, m)
      /\ Sure(s) => /\ Remembers(f) \subseteq own \cup {0} /\ Apart(f)
                    /\ Awaits(f) \subseteq W /\ Awaits(f) \cap L = {}
  BY <1>from DEF Ending
<1>5. PICK a, o : a = f.after /\ o = f.other
  OBVIOUS
<1>6. /\ a \in 1..m /\ o \in 1..m
      /\ Sure(s) => a \in own /\ o \in own
  BY <1>2, <1>4, <1>5, NamesMade
<1>7. /\ Awaits(f) = {a, o}
      /\ Sure(s) => a \in W /\ o \in W /\ a # o
  BY <1>2, <1>4, <1>5 DEF Awaits, Apart
<1>8. PICK d : d = Place(EndOpen(cg, {a}), o)
  OBVIOUS
<1>9. /\ {a} \subseteq 1..m /\ o \in 1..m
      /\ Sure(s) => {a} \subseteq own /\ o \in W \cup L
  BY <1>6, <1>7
<1>10. Stage(d, (W \cup L) \ {o}, s, m, own)
  BY <1>4, <1>8, <1>9, JumpOpenStage
<1>11. PICK g : g = [f EXCEPT !.kind = "else"]
  OBVIOUS
<1>12. /\ g \in Frames /\ g.kind = "else" /\ g.kind # "function"
       /\ g.after = a /\ g.other = o /\ g.continue = f.continue
  BY <1>4, <1>5, <1>11 DEF Frames, Kinds
<1>13. Awaits(g) = {a} /\ Apart(g) /\ Remembers(g) = Remembers(f)
  BY <1>5, <1>12 DEF Awaits, Apart, Remembers
<1>14. RemembersMade(g, m)
  BY <1>2, <1>4, <1>5, <1>12 DEF RemembersMade
<1>15. Sure(s) => (W \cup L) \ {o} = ((W \ Awaits(f)) \cup Awaits(g)) \cup L
  BY <1>4, <1>7, <1>13
<1>16. Stage(d, ((W \ Awaits(f)) \cup Awaits(g)) \cup L, s, m, own)
  BY <1>10, <1>15, StageOf
<1>17. Sure(s) => /\ Remembers(g) \subseteq own \cup {0} /\ Apart(g)
                  /\ Awaits(g) \cap ((W \ Awaits(f)) \cup L) = {}
  BY <1>4, <1>7, <1>13
<1>20. Grows(m, own, m, own)
  BY <1>4, GrowsNot
<1>18. GoesOn(g)
  BY <1>1, <1>4, <1>11 DEF BeginElse, NextPart, GoesOn, Frames
<1>19. Emit(d) /\ Checked
  BY <1>1, <1>5, <1>8 DEF BeginElse
<1> QED
  BY <1>1, <1>2, <1>3, <1>4, <1>12, <1>14, <1>16, <1>17, <1>18, <1>19,
     <1>20, PartKeeps

\* An arm of a match: k blocks are made, its body and what may follow it.
LEMMA ArmFollows ==
  ASSUME WInv, open # <<>>, NEW f, f = Top, f.kind = "arm",
         NEW s, Sure(s) <=> ~careless,
         NEW W, NEW L, NEW m, NEW own, Starts(cg, W, L, s, m, own),
         NEW n, NEW B, NEW body, NEW following,
         n \in Nat, m <= n, B \subseteq m + 1 .. n, body \in B,
         B = {body, following} \/ (B = {body} /\ following = f.continue),
         following # body, f.other # f.continue,
         NEW c, Stage(c, (W \cup L) \cup B, s, n, own \cup B), ~Open(c),
         NEW T, T \subseteq {body, following},
         NEW g \in Frames, IsArm(g, f.after, f.continue, following), GoesOn(g),
         Emit(Place(End(Place(c, f.other), T), body)), Checked
  PROVE  WInv'
<1>1. /\ m \in Nat /\ own \subseteq 1..m /\ f.kind # "function"
      /\ Sure(s) => W \subseteq own /\ L \subseteq own
  BY DEF Starts
<1>2. f \in Frames /\ RemembersMade(f, m)
  <2>1. StackOK(open, W, m, own, L, s)
    BY DEF Starts
  <2>2. open \in Seq(Frames) /\ Len(open) \in Nat
    BY <2>1, StackFacts
  <2>3. Len(open) \in 1..Len(open)
    BY <2>2
  <2>4. \A i \in 1..Len(open) : open[i] \in Frames /\ RemembersMade(open[i], m)
    BY <2>1, StackFacts
  <2> QED
    BY <2>3, <2>4 DEF Top
<1>3. ASSUME Sure(s)
      PROVE  /\ Remembers(f) \subseteq own \cup {0} /\ Apart(f)
             /\ Awaits(f) \subseteq W /\ Awaits(f) \cap L = {}
  BY <1>1, <1>3, TopAwaits
<1>4. PICK a, o, t : a = f.after /\ o = f.other /\ t = f.continue
  OBVIOUS
<1>5. /\ a \in 1..m /\ o \in 1..m /\ t \in 1..m
      /\ Sure(s) => a \in own /\ o \in own /\ t \in own
  BY <1>1, <1>2, <1>3, <1>4, NamesMade
<1>6. /\ Awaits(f) = {a, o, t}
      /\ Sure(s) => a \in W /\ o \in W /\ t \in W /\ a \notin {o, t}
  BY <1>3, <1>4 DEF Awaits, Apart
<1>7. /\ B \subseteq 1..n /\ B \cap (1..m) = {} /\ T \subseteq B \cup {t}
      /\ following \in B \cup {t} /\ o # t
  BY <1>1, <1>4
<1>8. PICK P : P = (W \cup L) \cup B
  OBVIOUS
<1>9. PICK c1 : c1 = Place(c, o)
  OBVIOUS
<1>10. /\ o \in 1..n
       /\ Sure(s) => ~Open(c) /\ o \in P
  BY <1>1, <1>5, <1>6, <1>8
<1>11. Stage(c, P, s, n, own \cup B)
  BY <1>8
<1>12. /\ Stage(c1, P \ {o}, s, n, own \cup B)
       /\ Sure(s) => Open(c1)
  BY <1>9, <1>10, <1>11, PlaceStage
<1>13. PICK d : d = Place(End(c1, T), body)
  OBVIOUS
<1>14. /\ T \subseteq 1..n /\ body \in 1..n
       /\ Sure(s) => T \subseteq own \cup B /\ body \in P \ {o}
  BY <1>1, <1>5, <1>7, <1>8
<1>15. Stage(d, (P \ {o}) \ {body}, s, n, own \cup B)
  BY <1>12, <1>13, <1>14, JumpStage
<1>16. /\ g.kind # "function" /\ Awaits(g) = {a, t, following}
       /\ Remembers(g) = {a, t, following}
  BY <1>4 DEF IsArm, Awaits, Remembers
<1>17. /\ RemembersMade(g, n)
       /\ Sure(s) => Apart(g)
  <2>1. /\ a \in 1..n /\ t \in 1..n /\ following \in 1..n
        /\ Sure(s) => a \notin {t, following}
    BY <1>1, <1>5, <1>6, <1>7
  <2> QED
    BY <1>4, <2>1 DEF IsArm, RemembersMade, Apart
<1>18. ASSUME Sure(s)
       PROVE  (P \ {o}) \ {body} = ((W \ Awaits(f)) \cup Awaits(g)) \cup L
  <2>1. /\ B \cap (W \cup L) = {} /\ {a, o, t} \cap L = {}
        /\ {a, o, t} \subseteq W
    BY <1>1, <1>3, <1>6, <1>7, <1>18
  <2>2. (P \ {o}) \ {body} = ((W \cup L) \ {o}) \cup (B \ {body})
    BY <1>7, <1>5, <1>8, <2>1
  <2>3. Awaits(g) = {a, t} \cup (B \ {body})
    BY <1>4, <1>5, <1>7, <1>16
  <2>4. o \notin {a, t}
    BY <1>6, <1>7, <1>18
  <2> QED
    BY <1>6, <2>1, <2>2, <2>3, <2>4
<1>19. Stage(d, ((W \ Awaits(f)) \cup Awaits(g)) \cup L, s, n, own \cup B)
  BY <1>15, <1>18, StageOf
<1>20. Sure(s) => /\ Remembers(g) \subseteq (own \cup B) \cup {0} /\ Apart(g)
                  /\ Awaits(g) \cap ((W \ Awaits(f)) \cup L) = {}
  BY <1>1, <1>3, <1>5, <1>6, <1>7, <1>16, <1>17
<1>21. Grows(m, own, n, own \cup B)
  BY GrowsBy
<1>22. Emit(d)
  BY <1>4, <1>9, <1>13
<1> QED
  BY <1>1, <1>16, <1>17, <1>19, <1>20, <1>21, <1>22, PartKeeps

LEMMA NextArmKeeps == ASSUME WInv, NextArm PROVE WInv'
<1>1. PICK f : f = Top
  OBVIOUS
<1>2. PICK last \in BOOLEAN, always \in BOOLEAN :
        LET body      == Id(cg, 1)
            following == IF last THEN Top.continue ELSE Id(cg, 2)
            c         == New(EndOpen(cg, {Top.after}), IF last THEN 1 ELSE 2)
        IN  /\ Inside("arm") /\ Top.other # Top.continue
            /\ Emit(Arm(c, Top.other, body, following, always)) /\ Checked
            /\ NextPart([Top EXCEPT !.other = following,
                                    !.entry = @ /\ ~always], Top.entry)
  BY DEF NextArm
<1>3. /\ open # <<>> /\ f.kind = "arm" /\ f.kind # "function"
      /\ f.other # f.continue
  BY <1>1, <1>2 DEF Inside
<1>4. PICK s : Sure(s) <=> ~careless
  BY Careful
<1>from. PICK W, L, m, own : Ending(f, s, W, L, m, own)
  <2>1. EndsWith(f, s)
    BY <1>1, <1>3, <1>4 DEF EndsWith
  <2> QED
    BY <2>1, Ends
<1>5. /\ Starts(cg, W, L, s, m, own) /\ Stage(cg, W \cup L, s, m, own)
      /\ Grows(m, own, m, own) /\ m = Len(blocks)
      /\ fn \in Nat \ {0} /\ m \in Nat /\ own \subseteq 1..m
      /\ f \in Frames /\ RemembersMade(f, m)
      /\ Sure(s) => /\ W \subseteq own /\ L \subseteq own /\ W \cap L = {}
                    /\ Remembers(f) \subseteq own \cup {0} /\ Apart(f)
                    /\ Awaits(f) \subseteq W /\ Awaits(f) \cap L = {}
  BY <1>from DEF Ending
<1>6. PICK a, t : a = f.after /\ t = f.continue
  OBVIOUS
<1>7. /\ a \in 1..m /\ t \in 1..m
      /\ Sure(s) => a \in own
  BY <1>3, <1>5, <1>6, NamesMade
<1>8. PICK e : e = EndOpen(cg, {a})
  OBVIOUS
<1>9. /\ {a} \subseteq 1..m
      /\ Sure(s) => {a} \subseteq own
  BY <1>7
<1>10. Stage(e, W \cup L, s, m, own) /\ ~Open(e)
  BY <1>5, <1>8, <1>9, EndOpenStage
<1>11. PICK body : body = m + 1
  OBVIOUS
<1>12. /\ Id(cg, 1) = body /\ Id(cg, 2) = m + 2 /\ body \notin 1..m
       /\ body \in Nat
  BY <1>5, <1>11 DEF Stage, Size, Id
<1>13. CASE last
  <2>1. PICK n, B, following, T :
          /\ n = m + 1 /\ B = {body} /\ following = t
          /\ T = IF always THEN {body} ELSE {body, following}
    OBVIOUS
  <2>2. PICK c : c = New(e, 1)
    OBVIOUS
  <2>3. Stage(c, (W \cup L) \cup B, s, n, own \cup B) /\ ~Open(c)
    BY <1>5, <1>10, <1>11, <2>1, <2>2, NewOne
  <2>4. PICK g : g = [f EXCEPT !.other = following, !.entry = f.entry /\ ~always]
    OBVIOUS
  <2>5. g \in Frames /\ IsArm(g, f.after, f.continue, following)
    BY <1>3, <1>5, <1>6, <1>7, <2>1, <2>4 DEF Frames, IsArm
  <2>6. GoesOn(g)
    BY <1>1, <1>2, <1>5, <1>6, <1>13, <2>1, <2>4
       DEF NextPart, GoesOn, Frames
  <2>7. Emit(Place(End(Place(c, f.other), T), body)) /\ Checked
    BY <1>1, <1>2, <1>6, <1>8, <1>12, <1>13, <2>1, <2>2 DEF Arm
  <2>8. /\ n \in Nat /\ m <= n /\ B \subseteq m + 1 .. n /\ body \in B
        /\ B = {body} /\ following = f.continue
        /\ following # body /\ T \subseteq {body, following}
    BY <1>5, <1>6, <1>7, <1>11, <1>12, <2>1
  <2> QED
    BY <1>1, <1>3, <1>4, <1>5, <2>3, <2>5, <2>6, <2>7, <2>8, ArmFollows
<1>14. CASE ~last
  <2>1. PICK n, following, B, T :
          /\ n = m + 2 /\ following = m + 2 /\ B = {body, following}
          /\ T = IF always THEN {body} ELSE {body, following}
    OBVIOUS
  <2>2. PICK c : c = New(e, 2)
    OBVIOUS
  <2>3. Stage(c, (W \cup L) \cup B, s, n, own \cup B) /\ ~Open(c)
    BY <1>5, <1>10, <1>11, <2>1, <2>2, NewTwo
  <2>4. PICK g : g = [f EXCEPT !.other = following, !.entry = f.entry /\ ~always]
    OBVIOUS
  <2>5. g \in Frames /\ IsArm(g, f.after, f.continue, following)
    <3>1. following \in Nat /\ f \in Frames
      BY <1>5, <2>1
    <3> QED
      BY <1>3, <2>4, <3>1 DEF Frames, IsArm
  <2>6. GoesOn(g)
    BY <1>1, <1>2, <1>5, <1>12, <1>14, <2>1, <2>4
       DEF NextPart, GoesOn, Frames
  <2>7. Emit(Place(End(Place(c, f.other), T), body)) /\ Checked
    BY <1>1, <1>2, <1>6, <1>8, <1>12, <1>14, <2>1, <2>2 DEF Arm
  <2>8. /\ n \in Nat /\ m <= n /\ B \subseteq m + 1 .. n /\ body \in B
        /\ B = {body, following}
        /\ following # body /\ T \subseteq {body, following}
    BY <1>5, <1>11, <1>12, <2>1
  <2> QED
    BY <1>1, <1>3, <1>4, <1>5, <2>3, <2>5, <2>6, <2>7, <2>8, ArmFollows
<1> QED
  BY <1>13, <1>14

CatchBlocks(m, own, n, all, body, rest) ==
  body = m + 1 /\ rest = m + 2 /\ n = m + 2 /\ all = own \cup {body, rest}
IsCatch(f, after, continue, rest) ==
  /\ f.kind = "catch" /\ f.after = after /\ f.continue = continue
  /\ f.other = rest

\* A catch: c tests the exception in the dispatch block, where it is open.  The
\* catch's body and the block for the rest are made.
LEMMA CatchFollows ==
  ASSUME WInv, open # <<>>, NEW f, f = Top, f.kind \in {"try", "catch"},
         NEW s, Sure(s) <=> ~careless,
         NEW W, NEW L, NEW m, NEW own, Starts(cg, W, L, s, m, own),
         NEW c, NEW n, NEW all, NEW body, NEW rest,
         Stage(c, ((W \cup L) \ Awaits(f)) \cup {f.after, body, rest}, s, n, all),
         Sure(s) => Open(c),
         CatchBlocks(m, own, n, all, body, rest),
         NEW T, T \subseteq {body, rest},
         NEW g \in Frames, IsCatch(g, f.after, f.continue, rest), GoesOn(g),
         Emit(MoveTo(End(c, T), body, rest)), Checked
  PROVE  WInv'
<1>1. /\ m \in Nat /\ own \subseteq 1..m /\ f.kind # "function"
      /\ Sure(s) => W \subseteq own /\ L \subseteq own
  BY DEF Starts
<1>2. f \in Frames /\ RemembersMade(f, m)
  BY <1>1, TopFacts
<1>3. ASSUME Sure(s)
      PROVE  /\ Remembers(f) \subseteq own \cup {0} /\ Apart(f)
             /\ Awaits(f) \subseteq W /\ Awaits(f) \cap L = {}
  BY <1>1, <1>3, TopAwaits
<1>4. PICK a, t : a = f.after /\ t = f.continue
  OBVIOUS
<1>5. /\ a \in 1..m /\ t \in 1..m
      /\ Sure(s) => a \in own /\ t \in own
  BY <1>1, <1>2, <1>3, <1>4, NamesMade
<1>6. a \in Awaits(f)
  BY <1>4 DEF Awaits
<1>7. /\ n \in Nat /\ m <= n /\ {body, rest} \subseteq m + 1 .. n
      /\ body \in 1..n /\ rest \in 1..n /\ body # rest
      /\ body \notin 1..m /\ rest \notin 1..m /\ {body, rest} \subseteq all
      /\ all = own \cup {body, rest}
  BY <1>1 DEF CatchBlocks
<1>8. PICK P : P = ((W \cup L) \ Awaits(f)) \cup {a, body, rest}
  OBVIOUS
<1>9. Stage(c, P, s, n, all)
  BY <1>4, <1>8
<1>10. T \subseteq 1..n /\ T \subseteq all
  BY <1>7
<1>11. Stage(End(c, T), P, s, n, all) /\ ~Open(End(c, T))
  BY <1>9, <1>10, EndStage
<1>12. PICK e, d : e = End(c, T) /\ d = MoveTo(e, body, rest)
  OBVIOUS
<1>13. body \in P
  BY <1>8
<1>14. Stage(e, P, s, n, all) /\ ~Open(e)
  BY <1>11, <1>12
<1>15. Stage(MoveTo(e, body, rest), P \ {body}, s, n, all)
  BY <1>7, <1>13, <1>14, MoveStage
<1>16. Stage(d, P \ {body}, s, n, all)
  BY <1>12, <1>15
<1>17. /\ g.kind # "function" /\ Awaits(g) = {a, rest}
       /\ Remembers(g) = {a, t, rest}
  BY <1>4 DEF IsCatch, Awaits, Remembers
<1>18. RemembersMade(g, n) /\ Apart(g)
  <2>1. a \in 1..n /\ t \in 1..n /\ a # rest
    BY <1>1, <1>5, <1>7
  <2> QED
    BY <1>4, <1>7, <2>1 DEF IsCatch, RemembersMade, Apart
<1>19. ASSUME Sure(s)
       PROVE  P \ {body} = ((W \ Awaits(f)) \cup Awaits(g)) \cup L
  <2>1. body \notin W \cup L /\ Awaits(f) \cap L = {} /\ body # a
    BY <1>1, <1>3, <1>5, <1>7, <1>19
  <2>2. (W \cup L) \ Awaits(f) = (W \ Awaits(f)) \cup L
    BY <2>1
  <2> QED
    BY <1>7, <1>8, <1>17, <2>1, <2>2
<1>20. Stage(d, ((W \ Awaits(f)) \cup Awaits(g)) \cup L, s, n, all)
  BY <1>16, <1>19, StageOf
<1>21. Sure(s) => /\ Remembers(g) \subseteq all \cup {0} /\ Apart(g)
                  /\ Awaits(g) \cap ((W \ Awaits(f)) \cup L) = {}
  BY <1>1, <1>3, <1>5, <1>6, <1>7, <1>17, <1>18
<1>22. Grows(m, own, n, all)
  <2>1. Grows(m, own, n, own \cup {body, rest})
    BY <1>7, GrowsBy
  <2> QED
    BY <1>7, <2>1
<1>23. Emit(d)
  BY <1>12
<1> QED
  BY <1>1, <1>17, <1>18, <1>20, <1>21, <1>22, <1>23, PartKeeps

LEMMA BeginCatchKeeps == ASSUME WInv, BeginCatch PROVE WInv'
<1>1. PICK f : f = Top
  OBVIOUS
<1>2. PICK any \in BOOLEAN :
        LET finally == End(Place(EndOpen(cg, {Top.continue}), Top.continue),
                           {Top.after})
        IN  /\ Inside("try")
            /\ Emit(Catch(Place(finally, Top.other), Top.other, any))
            /\ Checked
            /\ NextPart([Top EXCEPT !.kind = "catch", !.other = Len(blocks) + 2,
                                    !.entry = @ /\ ~any], Top.entry)
  BY DEF BeginCatch
<1>3. open # <<>> /\ f.kind = "try" /\ f.kind # "function"
  BY <1>1, <1>2 DEF Inside
<1>4. PICK s : Sure(s) <=> ~careless
  BY Careful
<1>from. PICK W, L, m, own : Ending(f, s, W, L, m, own)
  <2>1. EndsWith(f, s)
    BY <1>1, <1>3, <1>4 DEF EndsWith
  <2> QED
    BY <2>1, Ends
<1>5. /\ Starts(cg, W, L, s, m, own) /\ Stage(cg, W \cup L, s, m, own)
      /\ Grows(m, own, m, own) /\ m = Len(blocks)
      /\ fn \in Nat \ {0} /\ m \in Nat /\ own \subseteq 1..m
      /\ f \in Frames /\ RemembersMade(f, m)
      /\ Sure(s) => /\ W \subseteq own /\ L \subseteq own /\ W \cap L = {}
                    /\ Remembers(f) \subseteq own \cup {0} /\ Apart(f)
                    /\ Awaits(f) \subseteq W /\ Awaits(f) \cap L = {}
  BY <1>from DEF Ending
<1>6. PICK a, o, t : a = f.after /\ o = f.other /\ t = f.continue
  OBVIOUS
<1>7. /\ a \in 1..m /\ o \in 1..m /\ t \in 1..m
      /\ Sure(s) => a \in own /\ o \in own /\ t \in own
  BY <1>3, <1>5, <1>6, NamesMade
<1>8. /\ Awaits(f) = {a, o, t}
      /\ Sure(s) => a \in W /\ o \in W /\ t \in W /\ a \notin {o, t} /\ t # o
  BY <1>3, <1>5, <1>6 DEF Awaits, Apart
<1>9. PICK c1 : c1 = Place(EndOpen(cg, {t}), t)
  OBVIOUS
<1>10. /\ {t} \subseteq 1..m /\ t \in 1..m
       /\ Sure(s) => {t} \subseteq own /\ t \in W \cup L
  BY <1>7, <1>8
<1>11. /\ Stage(c1, (W \cup L) \ {t}, s, m, own)
       /\ Sure(s) => Open(c1)
  BY <1>5, <1>9, <1>10, JumpOpenStage
<1>12. PICK c2 : c2 = Place(End(c1, {a}), o)
  OBVIOUS
<1>13. /\ {a} \subseteq 1..m /\ o \in 1..m
       /\ Sure(s) => {a} \subseteq own /\ o \in (W \cup L) \ {t}
  BY <1>7, <1>8
<1>14. /\ Stage(c2, ((W \cup L) \ {t}) \ {o}, s, m, own)
       /\ Sure(s) => Open(c2)
       /\ At(c2) = o
  BY <1>11, <1>12, <1>13, JumpStage
<1>15. PICK body, rest, n, all, T :
         /\ body = m + 1 /\ rest = m + 2 /\ n = m + 2
         /\ all = own \cup {body, rest}
         /\ T = IF any THEN {body} ELSE {body, rest}
  OBVIOUS
<1>16. PICK c : c = New(c2, 2)
  OBVIOUS
<1>17. /\ Stage(c, (((W \cup L) \ {t}) \ {o}) \cup {body, rest}, s, n, all)
       /\ Sure(s) => Open(c)
  BY <1>5, <1>14, <1>15, <1>16, NewTwo
<1>18. Sure(s) => (((W \cup L) \ {t}) \ {o}) \cup {body, rest}
                    = ((W \cup L) \ Awaits(f)) \cup {f.after, body, rest}
  BY <1>6, <1>8
<1>19. Stage(c, ((W \cup L) \ Awaits(f)) \cup {f.after, body, rest}, s, n, all)
  BY <1>17, <1>18, StageOf
<1>20. PICK g : g = [f EXCEPT !.kind = "catch", !.other = rest,
                              !.entry = f.entry /\ ~any]
  OBVIOUS
<1>21. g \in Frames /\ IsCatch(g, f.after, f.continue, rest)
  <2>1. rest \in Nat /\ f \in Frames
    BY <1>5, <1>15
  <2> QED
    BY <1>20, <2>1 DEF Frames, Kinds, IsCatch
<1>22. GoesOn(g)
  BY <1>1, <1>2, <1>5, <1>15, <1>20 DEF NextPart, GoesOn, Frames
<1>23. Emit(MoveTo(End(c, T), body, rest))
  <2>1. Id(c2, 1) = body /\ Id(c2, 2) = rest
    BY <1>14, <1>15 DEF Stage, Size, Id
  <2>2. c = [c EXCEPT !.at = o]
    <3>1. c = [blocks |-> c.blocks, at |-> c.at, back |-> c.back]
      BY <1>17, CodeFacts DEF Stage, Good
    <3>2. At(c) = At(c2)
      BY <1>5, <1>14, <1>16, NewKeeps DEF Stage, Good
    <3>3. c.at = o
      BY <1>14, <3>2 DEF At
    <3> QED
      BY <3>1, <3>3
  <2>3. Emit(Catch(c2, o, any))
    BY <1>1, <1>2, <1>6, <1>9, <1>12
  <2>4. Catch(c2, o, any) = [End([c EXCEPT !.at = o], T)
                               EXCEPT !.at = body, !.back = rest]
    BY <1>15, <1>16, <2>1 DEF Catch
  <2> QED
    BY <2>2, <2>3, <2>4 DEF MoveTo
<1>24. /\ Checked /\ T \subseteq {body, rest} /\ f.kind \in {"try", "catch"}
       /\ CatchBlocks(m, own, n, all, body, rest)
  BY <1>2, <1>3, <1>15 DEF CatchBlocks
<1> QED
  BY <1>1, <1>3, <1>4, <1>5, <1>17, <1>19, <1>21, <1>22, <1>23, <1>24,
     CatchFollows

LEMMA NextCatchKeeps == ASSUME WInv, NextCatch PROVE WInv'
<1>1. PICK f : f = Top
  OBVIOUS
<1>2. PICK any \in BOOLEAN :
        /\ Inside("catch")
        /\ Emit(Catch(EndOpen(cg, {Top.after}), Top.other, any)) /\ Checked
        /\ NextPart([Top EXCEPT !.other = Len(blocks) + 2,
                                !.entry = @ /\ ~any], Top.entry)
  BY DEF NextCatch
<1>3. open # <<>> /\ f.kind = "catch" /\ f.kind # "function"
  BY <1>1, <1>2 DEF Inside
<1>4. PICK s : Sure(s) <=> ~careless
  BY Careful
<1>from. PICK W, L, m, own : Ending(f, s, W, L, m, own)
  <2>1. EndsWith(f, s)
    BY <1>1, <1>3, <1>4 DEF EndsWith
  <2> QED
    BY <2>1, Ends
<1>5. /\ Starts(cg, W, L, s, m, own) /\ Stage(cg, W \cup L, s, m, own)
      /\ Grows(m, own, m, own) /\ m = Len(blocks)
      /\ fn \in Nat \ {0} /\ m \in Nat /\ own \subseteq 1..m
      /\ f \in Frames /\ RemembersMade(f, m)
      /\ Sure(s) => /\ W \subseteq own /\ L \subseteq own /\ W \cap L = {}
                    /\ Remembers(f) \subseteq own \cup {0} /\ Apart(f)
                    /\ Awaits(f) \subseteq W /\ Awaits(f) \cap L = {}
  BY <1>from DEF Ending
<1>6. PICK a, o : a = f.after /\ o = f.other
  OBVIOUS
<1>7. /\ a \in 1..m /\ o \in 1..m
      /\ Sure(s) => a \in own /\ o \in own
  BY <1>3, <1>5, <1>6, NamesMade
<1>8. /\ Awaits(f) = {a, o}
      /\ Sure(s) => a \in W /\ o \in W /\ a # o
  BY <1>3, <1>5, <1>6 DEF Awaits, Apart
<1>9. PICK c1 : c1 = EndOpen(cg, {a})
  OBVIOUS
<1>10. /\ {a} \subseteq 1..m
       /\ Sure(s) => {a} \subseteq own
  BY <1>7
<1>11. Stage(c1, W \cup L, s, m, own) /\ ~Open(c1)
  BY <1>5, <1>9, <1>10, EndOpenStage
<1>12. PICK body, rest, n, all, T, P :
         /\ body = m + 1 /\ rest = m + 2 /\ n = m + 2
         /\ all = own \cup {body, rest}
         /\ T = IF any THEN {body} ELSE {body, rest}
         /\ P = (W \cup L) \cup {body, rest}
  OBVIOUS
<1>13. PICK c2 : c2 = New(c1, 2)
  OBVIOUS
<1>14. Stage(c2, P, s, n, all) /\ ~Open(c2)
  BY <1>5, <1>11, <1>12, <1>13, NewTwo
<1>15. PICK l : l = c2.back
  OBVIOUS
<1>16. l \in 1..n /\ o \in 1..n
  BY <1>5, <1>7, <1>12, <1>14, <1>15, CodeFacts DEF Stage, Good, Size
<1>17. PICK c : c = MoveTo(c2, o, l)
  OBVIOUS
<1>18. /\ Stage(c, P \ {o}, s, n, all)
       /\ Sure(s) => Open(c)
  <2>1. Sure(s) => ~Open(c2) /\ o \in P
    BY <1>8, <1>12, <1>14
  <2> QED
    BY <1>14, <1>16, <1>17, <2>1, MoveStage
<1>19. Sure(s) => P \ {o} = ((W \cup L) \ Awaits(f)) \cup {f.after, body, rest}
  <2>1. o \notin {body, rest}
    BY <1>5, <1>7, <1>12
  <2> QED
    BY <1>6, <1>8, <1>12, <2>1
<1>20. Stage(c, ((W \cup L) \ Awaits(f)) \cup {f.after, body, rest}, s, n, all)
  BY <1>18, <1>19, StageOf
<1>21. PICK g : g = [f EXCEPT !.other = rest, !.entry = f.entry /\ ~any]
  OBVIOUS
<1>22. g \in Frames /\ IsCatch(g, f.after, f.continue, rest)
  <2>1. rest \in Nat /\ f \in Frames
    BY <1>5, <1>12
  <2> QED
    BY <1>3, <1>21, <2>1 DEF Frames, Kinds, IsCatch
<1>23. GoesOn(g)
  BY <1>1, <1>2, <1>5, <1>12, <1>21 DEF NextPart, GoesOn, Frames
<1>24. Emit(MoveTo(End(c, T), body, rest))
  <2>1. Id(c1, 1) = body /\ Id(c1, 2) = rest
    BY <1>11, <1>12 DEF Stage, Size, Id
  <2>2. c = [c2 EXCEPT !.at = o]
    <3>1. c2 = [blocks |-> c2.blocks, at |-> c2.at, back |-> c2.back]
      BY <1>14, CodeFacts DEF Stage, Good
    <3> QED
      BY <1>15, <1>17, <3>1 DEF MoveTo
  <2>3. Emit(Catch(c1, o, any))
    BY <1>1, <1>2, <1>6, <1>9
  <2>4. Catch(c1, o, any) = [End([c2 EXCEPT !.at = o], T)
                               EXCEPT !.at = body, !.back = rest]
    BY <1>12, <1>13, <2>1 DEF Catch
  <2> QED
    BY <2>2, <2>3, <2>4 DEF MoveTo
<1>25. /\ Checked /\ T \subseteq {body, rest} /\ f.kind \in {"try", "catch"}
       /\ CatchBlocks(m, own, n, all, body, rest)
  BY <1>2, <1>3, <1>12 DEF CatchBlocks
<1> QED
  BY <1>1, <1>3, <1>4, <1>5, <1>18, <1>20, <1>22, <1>23, <1>24, <1>25,
     CatchFollows

----------------------------------------------------------------------------
(* Functions begin and end.                                                *)

LEMMA BeginFunctionKeeps == ASSUME WInv, BeginFunction PROVE WInv'
<1>1. /\ open = <<>> /\ fn < Functions /\ fn' = fn + 1 /\ text' = text
      /\ insert' = Len(blocks') /\ back' = Len(blocks')
      /\ open' = <<Frame("function", 0, 0, 0, FALSE)>>
      /\ live' = TRUE /\ careless' = FALSE /\ arrived' = FALSE /\ revived' = FALSE
      /\ used' = FALSE /\ defined' = FALSE
      /\ label' = IF label = 0 THEN 0 ELSE 1
  BY DEF BeginFunction
<1>2. PICK old : old = IF label = 0 THEN <<>>
                       ELSE <<[blocks[label] EXCEPT !.ends = 1, !.next = {},
                                                    !.entered = 0]>>
  OBVIOUS
<1>3. blocks' = Append(old, Block(fn'))
  BY <1>2 DEF BeginFunction
<1>4. /\ fn \in 0..Functions /\ text \in 0..MaxText /\ used \in BOOLEAN
      /\ BlocksTyped(blocks, fn) /\ label \in 0..Len(blocks)
  BY DEF WInv, TInv
<1>5. fn' \in Nat \ {0} /\ fn \in Nat /\ fn' \in 0..Functions /\ fn' \in 1..fn'
  BY <1>1, <1>4, BoundsAssumption
<1>6. /\ old \in Seq(Blocks) /\ Len(old) = label'
      /\ \A b \in 1..Len(old) : /\ old[b].fn \in 1..fn /\ old[b].next = {}
                                /\ old[b].entered = 0
  <2>1. CASE label = 0
    BY <1>1, <1>2, <2>1
  <2>2. CASE label # 0
    <3>1. PICK x : x = [blocks[label] EXCEPT !.ends = 1, !.next = {},
                                           !.entered = 0]
      OBVIOUS
    <3>2. blocks[label] \in Blocks /\ blocks[label].fn \in 1..fn
      BY <1>4, <2>2 DEF BlocksTyped
    <3>3. x \in Blocks /\ x.fn \in 1..fn /\ x.next = {} /\ x.entered = 0
      BY <3>1, <3>2 DEF Blocks
    <3>4. old = <<x>> /\ label' = 1
      BY <1>1, <1>2, <2>2, <3>1
    <3> QED
      BY <3>3, <3>4
  <2> QED
    BY <2>1, <2>2
<1>7. PICK x : x = Block(fn')
  OBVIOUS
<1>8. /\ x \in Blocks /\ x.fn = fn' /\ x.ends = 0 /\ x.next = {}
      /\ x.entered = 0
  BY <1>5, <1>7 DEF Block, Blocks
<1>9. /\ blocks' \in Seq(Blocks) /\ Len(blocks') = Len(old) + 1
      /\ Len(old) \in Nat
      /\ blocks'[Len(blocks')] = x
      /\ \A b \in 1..Len(old) : blocks'[b] = old[b]
  BY <1>3, <1>6, <1>7, <1>8
<1>10. BlocksTyped(blocks', fn')
  <2>1. ASSUME NEW b \in 1..Len(blocks')
        PROVE  /\ blocks'[b].fn \in 1..fn' /\ blocks'[b].next = {}
               /\ blocks'[b].entered = 0
    <3>1. CASE b = Len(blocks')
      BY <1>5, <1>8, <1>9, <3>1
    <3>2. CASE b \in 1..Len(old)
      BY <1>1, <1>5, <1>6, <1>9, <3>2
    <3> QED
      BY <1>9, <2>1, <3>1, <3>2
  <2>2. 0 \in 0..Len(blocks')
    BY <1>9
  <2> QED
    BY <1>9, <2>1, <2>2 DEF BlocksTyped
<1>11. PICK f : f = Frame("function", 0, 0, 0, FALSE)
  OBVIOUS
<1>12. /\ f \in Frames /\ f.kind = "function" /\ f.after = 0
       /\ f.continue = 0 /\ f.other = 0
  BY <1>4, <1>11 DEF Frame, Frames, Kinds
<1>13. open' = <<f>> /\ open' # <<>> /\ Len(open') = 1
  BY <1>1, <1>11
<1>14. StackTyped(open', Len(blocks'))
  <2>1. RemembersMade(f, Len(blocks'))
    BY <1>9, <1>12 DEF RemembersMade
  <2> QED
    BY <1>12, <1>13, <2>1 DEF StackTyped
<1>15. TInv'
  <2>1. /\ label' \in 0..Len(blocks') /\ insert' \in 0..Len(blocks')
        /\ back' \in 0..Len(blocks') /\ insert' > 0 /\ back' > 0
    BY <1>1, <1>6, <1>9
  <2>2. /\ fn' \in 0..Functions /\ text' \in 0..MaxText /\ fn' > 0
        /\ BlocksTyped(blocks', fn') /\ StackTyped(open', Len(blocks'))
    BY <1>1, <1>4, <1>5, <1>10, <1>14
  <2>3. /\ live' \in BOOLEAN /\ arrived' \in BOOLEAN /\ revived' \in BOOLEAN
        /\ used' \in BOOLEAN
        /\ defined' \in BOOLEAN /\ careless' \in BOOLEAN
    BY <1>1
  <2>4. defined' => label' # 0
    BY <1>1
  <2> QED
    BY <2>1, <2>2, <2>3, <2>4 DEF TInv
<1>16. InBody'
  <2>1. OwnIn(cg)' = {Len(blocks')}
    <3>1. OwnIn(cg)' = {b \in 1..Len(blocks') : blocks'[b].fn = fn'}
      BY DEF OwnIn, cg
    <3>2. ASSUME NEW b \in 1..Len(blocks')
          PROVE  blocks'[b].fn = fn' <=> b = Len(blocks')
      <4>1. CASE b = Len(blocks')
        BY <1>8, <1>9, <4>1
      <4>2. CASE b \in 1..Len(old)
        BY <1>1, <1>5, <1>6, <1>9, <4>2
      <4> QED
        BY <1>9, <3>2, <4>1, <4>2
    <3>3. Len(blocks') \in 1..Len(blocks')
      BY <1>9
    <3> QED
      BY <3>1, <3>2, <3>3
  <2>2. LabelWaits' = {}
    BY <1>6, <1>9, <2>1 DEF LabelWaits
  <2>3. Awaits(f) = {} /\ Apart(f)
    BY <1>12 DEF Awaits, Apart
  <2>4. Waiting(open', Len(open')) = {}
    BY <1>13, <2>3 DEF Waiting
  <2>5. HandlersApart(open', OwnIn(cg)', LabelWaits')
    BY <1>12, <1>13, <2>3 DEF HandlersApart
  <2>6. Sound(cg, {})'
    <3>1. cg'.blocks = blocks' /\ cg'.at = Len(blocks')
      BY <1>1 DEF cg
    <3> QED
      BY <1>8, <1>9, <2>1, <3>1 DEF Sound
  <2>7. (Waiting(open, Len(open)) \cup LabelWaits)' = {}
    BY <2>2, <2>4
  <2>8. Sound(cg, Waiting(open, Len(open)) \cup LabelWaits)'
    BY <2>6, <2>7
  <2> QED
    BY <2>2, <2>5, <2>8 DEF InBody
<1>17. WellFormed'
  BY <1>13 DEF WellFormed, Finished
<1> QED
  BY <1>15, <1>16, <1>17 DEF WInv

LEMMA EndFunctionKeeps == ASSUME WInv, EndFunction PROVE WInv'
<1>1. /\ open # <<>> /\ Top.kind = "function" /\ (used => defined)
      /\ Emit(IF blocks[back].ends = 0 THEN End(cg, {}) ELSE cg)
      /\ careless' = (careless \/ insert # back)
      /\ open' = SubSeq(open, 1, Len(open) - 1) /\ live' = FALSE
      /\ text' = text /\ UNCHANGED <<fn, label, source>>
  BY DEF EndFunction, Inside, Leave
<1>2. PICK s : Sure(s) <=> ~(careless \/ insert # back)
  <2>1. CASE careless \/ insert # back
    <3>1. ~Sure("any")
      BY DEF Sure
    <3> QED
      BY <2>1, <3>1
  <2>2. CASE ~(careless \/ insert # back)
    <3>1. Sure("sound")
      BY DEF Sure
    <3> QED
      BY <2>2, <3>1
  <2> QED
    BY <2>1, <2>2
<1>3. PICK W, L : Starts(cg, W, L, s, Len(blocks), OwnIn(cg))
  BY <1>1, <1>2, UnderStarts
<1>4. PICK m, own : m = Len(blocks) /\ own = OwnIn(cg)
  OBVIOUS
<1>5. /\ Stage(cg, W \cup L, s, m, own) /\ StackOK(open, W, m, own, L, s)
      /\ L = LabelWaits /\ m \in Nat
      /\ Sure(s) => (L # {} => used)
  BY <1>3, <1>4 DEF Starts
<1>6. Len(open) = 1 /\ open' = <<>>
  <2>1. open \in Seq(Frames) /\ Len(open) \in Nat
    BY <1>5, StackFacts
  <2>2. Len(open) \in 1..Len(open)
    BY <1>1, <2>1
  <2>3. (open[Len(open)].kind = "function") <=> (Len(open) = 1)
    <3>1. \A i \in 1..Len(open) : (open[i].kind = "function") <=> (i = 1)
      BY <1>5, StackFacts
    <3> QED
      BY <2>2, <3>1
  <2>4. Len(open) = 1
    BY <1>1, <2>3 DEF Top
  <2>5. SubSeq(open, 1, 0) = <<>>
    BY <2>1, <2>4
  <2> QED
    BY <1>1, <2>4, <2>5
<1>7. Sure(s) => W \cup L = {}
  <2>1. Sure(s) => W = {}
    <3>1. Awaits(open[1]) = {}
      BY <1>1, <1>6 DEF Top, Awaits
    <3>2. Sure(s) => \A b \in W : \E i \in 1..Len(open) : b \in Awaits(open[i])
      BY <1>5, StackFacts
    <3> QED
      BY <1>6, <3>1, <3>2
  <2>2. Sure(s) => L = {}
    BY <1>1, <1>5 DEF LabelWaits
  <2> QED
    BY <2>1, <2>2
<1>8. Stage(cg, {}, s, m, own)
  BY <1>5, <1>7, StageOf
<1>9. PICK d : d = IF blocks[back].ends = 0 THEN End(cg, {}) ELSE cg
  OBVIOUS
<1>10. Sure(s) => (Open(cg) <=> blocks[back].ends = 0)
  BY <1>2 DEF Open, cg
<1>11. /\ Stage(d, {}, s, m, own)
       /\ Sure(s) => ~Open(d)
  <2>1. CASE blocks[back].ends = 0
    <3>1. Sure(s) => {} \subseteq own /\ Open(cg)
      BY <1>10, <2>1
    <3>2. Stage(End(cg, {}), {}, s, m, own) /\ ~Open(End(cg, {}))
      BY <1>8, <3>1, EndStage
    <3> QED
      BY <1>9, <2>1, <3>2
  <2>2. CASE blocks[back].ends # 0
    BY <1>8, <1>9, <1>10, <2>2
  <2> QED
    BY <2>1, <2>2
<1>12. /\ Typed(d) /\ Size(d) = m /\ OwnIn(d) = own /\ fn' = fn
       /\ Sure(s) => Sound(d, {})
  BY <1>1, <1>11 DEF Stage, Good
<1>13. /\ Len(blocks') = m /\ blocks' = d.blocks /\ insert' = d.at
       /\ back' = d.back /\ OwnIn(cg)' = own
  BY <1>1, <1>9, <1>12, Emitted
<1>14. TInv'
  <2>1. /\ BlocksTyped(blocks', fn') /\ insert' \in 1..m /\ back' \in 1..m
    BY <1>12, <1>13, CodeFacts DEF Typed
  <2>2. StackTyped(open', Len(blocks'))
    BY <1>6 DEF StackTyped
  <2>3. /\ fn \in 0..Functions /\ text \in 0..MaxText /\ label \in 0..m
        /\ arrived \in BOOLEAN /\ revived \in BOOLEAN /\ used \in BOOLEAN
        /\ defined \in BOOLEAN
        /\ careless \in BOOLEAN /\ (defined => label # 0)
    BY <1>4 DEF WInv, TInv
  <2>4. /\ label' = label /\ arrived' = arrived /\ revived' = revived
        /\ used' = used
        /\ defined' = defined
    BY <1>1 DEF source
  <2>5. live' \in BOOLEAN /\ careless' \in BOOLEAN
    BY <1>1
  <2> QED
    BY <1>1, <1>5, <1>6, <1>12, <1>13, <2>1, <2>2, <2>3, <2>4, <2>5 DEF TInv
<1>15. ASSUME ~careless' PROVE Accepted'
  <2>1. Sure(s)
    BY <1>1, <1>2, <1>15
  <2>2. \A b \in own : d.blocks[b].ends = 1 /\ d.blocks[b].next \subseteq own
    BY <1>11, <1>12, <2>1 DEF Sound, Open
  <2>3. Own' = own
    <3>1. Own' = OwnIn(cg)'
      BY DEF Own, Ids, OwnIn, cg
    <3> QED
      BY <1>13, <3>1
  <2> QED
    BY <1>13, <2>2, <2>3 DEF Accepted
<1>16. WellFormed'
  BY <1>15 DEF WellFormed
<1> QED
  BY <1>6, <1>14, <1>16 DEF WInv

----------------------------------------------------------------------------
(* The theorems                                                            *)

LEMMA WInvInit == ASSUME Init PROVE WInv
<1>1. TInv
  <2>1. blocks = <<>> /\ open = <<>> /\ Len(blocks) = 0 /\ fn = 0
    BY DEF Init
  <2>2. BlocksTyped(<<>>, 0)
    BY DEF BlocksTyped
  <2>3. StackTyped(<<>>, 0)
    BY DEF StackTyped
  <2>4. fn \in 0..Functions /\ text \in 0..MaxText
    BY BoundsAssumption DEF Init
  <2>5. /\ label \in 0..Len(blocks) /\ insert \in 0..Len(blocks)
        /\ back \in 0..Len(blocks)
    BY <2>1 DEF Init
  <2>6. /\ live \in BOOLEAN /\ arrived \in BOOLEAN /\ revived \in BOOLEAN
        /\ used \in BOOLEAN
        /\ defined \in BOOLEAN /\ careless \in BOOLEAN /\ ~defined
    BY DEF Init
  <2> QED
    BY <2>1, <2>2, <2>3, <2>4, <2>5, <2>6 DEF TInv
<1>2. WellFormed /\ open = <<>>
  BY DEF Init, WellFormed, Finished
<1> QED
  BY <1>1, <1>2 DEF WInv

LEMMA WInvStutter == ASSUME WInv, UNCHANGED vars PROVE WInv'
<1>1. /\ fn' = fn /\ blocks' = blocks /\ insert' = insert /\ back' = back
      /\ label' = label /\ open' = open /\ live' = live /\ arrived' = arrived
      /\ revived' = revived
      /\ used' = used /\ defined' = defined /\ text' = text
      /\ careless' = careless
  BY DEF vars
<1>2. TInv' <=> TInv
  BY <1>1 DEF TInv
<1>3. cg' = cg /\ OwnIn(cg)' = OwnIn(cg)
  BY <1>1 DEF cg, OwnIn
<1>4. LabelWaits' = LabelWaits
  BY <1>1, <1>3 DEF LabelWaits
<1>5. PICK P : P = Waiting(open, Len(open)) \cup LabelWaits
  OBVIOUS
<1>6. Sound(cg, P) => Sound(cg, P)'
  BY <1>1, <1>3 DEF Sound
<1>7. P = (Waiting(open, Len(open)) \cup LabelWaits)'
  BY <1>1, <1>4, <1>5
<1>8. Sound(cg, P)' => Sound(cg, Waiting(open, Len(open)) \cup LabelWaits)'
  BY <1>7
<1>9. InBody => InBody'
  BY <1>1, <1>3, <1>4, <1>5, <1>6, <1>8 DEF InBody
<1>10. WellFormed => WellFormed'
  BY <1>1 DEF WellFormed, Finished, Accepted, Own, Ids
<1> QED
  BY <1>1, <1>2, <1>9, <1>10 DEF WInv

LEMMA WInvNext == ASSUME WInv, [Next]_vars PROVE WInv'
<1>1. ASSUME BeginFunction \/ EndFunction PROVE WInv'
  BY <1>1, BeginFunctionKeeps, EndFunctionKeeps
<1>2. ASSUME Straight \/ Return \/ Throw \/ Break \/ Continue \/ Goto \/ Label
      PROVE  WInv'
  BY <1>2, StraightKeeps, ReturnKeeps, ThrowKeeps, BreakKeeps, ContinueKeeps,
     GotoKeeps, LabelKeeps
<1>3. ASSUME \/ BeginBlock \/ EndBlock
             \/ BeginIf \/ BeginElse \/ EndIf \/ EndIfWithoutElse
      PROVE  WInv'
  BY <1>3, BeginBlockKeeps, EndBlockKeeps, BeginIfKeeps, BeginElseKeeps,
     EndIfKeeps, EndIfWithoutElseKeeps
<1>4. ASSUME \/ BeginWhile \/ EndWhile \/ BeginFor \/ EndFor
             \/ BeginDo \/ EndDo \/ BeginForeach \/ EndForeach
      PROVE  WInv'
  BY <1>4, BeginWhileKeeps, EndWhileKeeps, BeginForKeeps, EndForKeeps,
     BeginDoKeeps, EndDoKeeps, BeginForeachKeeps, EndForeachKeeps
<1>5. ASSUME \/ BeginMatch \/ NextArm \/ EndMatch
             \/ BeginTry \/ BeginCatch \/ NextCatch \/ EndTry
      PROVE  WInv'
  BY <1>5, BeginMatchKeeps, NextArmKeeps, EndMatchKeeps, BeginTryKeeps,
     BeginCatchKeeps, NextCatchKeeps, EndTryKeeps
<1>6. CASE UNCHANGED vars
  BY <1>6, WInvStutter
<1>7. CASE Next
  BY <1>1, <1>2, <1>3, <1>4, <1>5, <1>7 DEF Next
<1> QED
  BY <1>6, <1>7

LEMMA WInvAlways == Spec => []WInv
<1>1. Init => WInv
  BY WInvInit
<1>2. WInv /\ [Next]_vars => WInv'
  BY WInvNext
<1> QED
  BY <1>1, <1>2, PTL DEF Spec

LEMMA WInvTypes == ASSUME WInv PROVE TypeOK
<1>1. TInv
  BY DEF WInv
<1>2. PICK S : S = [fn: 1..Functions, ends: Nat, next: SUBSET Ids,
                    empty: BOOLEAN, updates: BOOLEAN, entered: 0..Len(blocks)]
  OBVIOUS
<1>3. blocks \in Seq(Blocks) /\ fn \in 0..Functions
  BY <1>1 DEF TInv, BlocksTyped
<1>4. ASSUME NEW b \in 1..Len(blocks) PROVE blocks[b] \in S
  <2>1. blocks[b] \in Blocks
    BY <1>3
  <2>2. /\ blocks[b].fn \in 1..fn /\ blocks[b].next \subseteq 1..Len(blocks)
        /\ blocks[b].entered \in 0..Len(blocks)
    BY <1>1 DEF TInv, BlocksTyped
  <2>3. blocks[b].fn \in 1..Functions
    BY <1>3, <2>2, BoundsAssumption
  <2> QED
    BY <1>2, <2>1, <2>2, <2>3 DEF Blocks, Ids
<1>5. blocks \in Seq(S)
  BY <1>3, <1>4
<1>6. open \in Seq(Frames) /\ DOMAIN open = 1..Len(open)
  BY <1>1 DEF TInv, StackTyped
<1>7. ASSUME NEW i \in DOMAIN open
      PROVE  /\ open[i].kind \in Kinds
             /\ (open[i].kind = "function") = (i = 1)
             /\ {open[i].after, open[i].continue, open[i].other}
                  \subseteq 0..Len(blocks)
             /\ {open[i].entry, open[i].goto, open[i].out, open[i].again}
                  \subseteq BOOLEAN
  <2>1. open[i] \in Frames
    BY <1>6
  <2>2. open[i].kind = "function" <=> i = 1
    BY <1>1, <1>6 DEF TInv, StackTyped
  <2>3. RemembersMade(open[i], Len(blocks))
    BY <1>1, <1>6 DEF TInv, StackTyped
  <2>4. (open[i].kind = "function") = (i = 1)
    BY <2>2
  <2>5. {open[i].entry, open[i].goto, open[i].out, open[i].again}
          \subseteq BOOLEAN
    BY <2>1 DEF Frames
  <2> QED
    BY <2>1, <2>3, <2>4, <2>5 DEF Frames, RemembersMade
<1>8. /\ text \in 0..MaxText /\ {insert, back, label} \subseteq 0..Len(blocks)
      /\ {live, arrived, used, defined, revived, careless} \subseteq BOOLEAN
  BY <1>1 DEF TInv
<1> QED
  BY <1>2, <1>3, <1>5, <1>7, <1>8 DEF TypeOK

\* The generator names only blocks that it has made: the insert point, the
\* label's block, the targets the open handlers remember and the successors of
\* every terminator.
THEOREM TypeCorrect == Spec => []TypeOK
BY WInvAlways, WInvTypes, PTL

\* Every block of a finished function ends in one terminator and branches
\* inside the function, however its statements nest, when no while or for body
\* ends in a terminator, the last label's block is the last of the list and no
\* label has the name of an earlier function's.
THEOREM FunctionsWellFormed == Spec => []WellFormed
<1>1. WInv => WellFormed
  BY DEF WInv
<1> QED
  BY <1>1, WInvAlways, PTL
=============================================================================
