---------------------------- MODULE ScopesProofs ----------------------------
(***************************************************************************)
(* Proofs about Scopes, for any names and any bounds, of programs in which *)
(* no block hides a variable of the function.                              *)
(***************************************************************************)
EXTENDS Scopes, SequenceTheorems, FiniteSetTheorems, WellFoundedInduction, TLAPS

-----------------------------------------------------------------------------
(* Lookups in the first scopes of a table *)

\* The variable that the first i scopes of a table have for n.
From(table, i, n) ==
  IF \A j \in 1 .. i : table[j][n] = 0 THEN 0
  ELSE table[CHOOSE j \in 1 .. i : /\ table[j][n] # 0
                                   /\ \A k \in 1 .. i : table[k][n] # 0 => k <= j][n]

\* A set of indexes has a last one.
LEMMA LastIndex ==
    ASSUME NEW L \in Nat, NEW F \in SUBSET (1 .. L), F # {}
    PROVE  \E i \in F : \A j \in F : j <= i
<1> DEFINE T == {m \in Nat : L - m \in F}
<1>1. PICK i \in F : TRUE
  OBVIOUS
<1>2. L - i \in Nat /\ L - (L - i) = i
  BY <1>1
<1>3. T # {}
  BY <1>1, <1>2
<1>4. PICK x \in T : \A y \in T : ~ (<<y, x>> \in OpToRel(<, Nat))
  BY <1>3, WFMin, NatLessThanWellFounded
<1>5. \A y \in T : ~ (y < x)
  BY <1>4 DEF OpToRel
<1>6. ASSUME NEW j \in F PROVE j <= L - x
  <2>1. L - j \in Nat /\ L - (L - j) = j
    OBVIOUS
  <2>2. ~ (L - j < x) /\ x \in Nat
    BY <1>4, <1>5, <2>1
  <2> QED
    BY <2>1, <2>2
<1>7. L - x \in F
  BY <1>4
<1> QED
  BY <1>6, <1>7

\* What is found is in a scope behind which no other has the name.
LEMMA FromFound ==
    ASSUME NEW table, NEW i \in Nat, NEW n, ~ \A j \in 1 .. i : table[j][n] = 0
    PROVE  \E j \in 1 .. i : /\ table[j][n] # 0 /\ From(table, i, n) = table[j][n]
                             /\ \A k \in 1 .. i : table[k][n] # 0 => k <= j
<1> DEFINE F == {j \in 1 .. i : table[j][n] # 0}
<1>1. \E j \in F : \A k \in F : k <= j
  BY LastIndex
<1>2. \E j \in 1 .. i : /\ table[j][n] # 0
                        /\ \A k \in 1 .. i : table[k][n] # 0 => k <= j
  BY <1>1
<1> QED
  BY <1>2 DEF From

\* The last scope that has a name decides what it is.
LEMMA FromLast ==
    ASSUME NEW table, NEW i \in Nat, NEW n, NEW j \in 1 .. i,
           table[j][n] # 0, \A k \in j + 1 .. i : table[k][n] = 0
    PROVE  From(table, i, n) = table[j][n]
<1>1. PICK k \in 1 .. i : /\ table[k][n] # 0 /\ From(table, i, n) = table[k][n]
                          /\ \A l \in 1 .. i : table[l][n] # 0 => l <= k
  BY FromFound
<1>2. j <= k /\ ~ (k \in j + 1 .. i)
  BY <1>1
<1> QED
  BY <1>1, <1>2

\* What the last scope has is found.
LEMMA FromTop ==
    ASSUME NEW table, NEW i \in Nat \ {0}, NEW n, table[i][n] # 0
    PROVE  From(table, i, n) = table[i][n]
<1>1. i \in 1 .. i /\ \A k \in i + 1 .. i : table[k][n] = 0
  OBVIOUS
<1> QED
  BY <1>1, FromLast

\* A name is found if a scope has it, and only then.
LEMMA FromNone ==
    ASSUME NEW table, NEW i \in Nat, NEW n
    PROVE  From(table, i, n) = 0 <=> \A j \in 1 .. i : table[j][n] = 0
<1>1. CASE \A j \in 1 .. i : table[j][n] = 0
  BY <1>1 DEF From
<1>2. CASE ~ \A j \in 1 .. i : table[j][n] = 0
  BY <1>2, FromFound
<1> QED
  BY <1>1, <1>2

\* The lookup looks into the last scope first and then behind it.
LEMMA FromStep ==
    ASSUME NEW table, NEW i \in Nat \ {0}, NEW n
    PROVE  From(table, i, n) =
             IF table[i][n] # 0 THEN table[i][n] ELSE From(table, i - 1, n)
<1>1. CASE table[i][n] # 0
  BY <1>1, FromLast
<1>2. CASE table[i][n] = 0 /\ \A j \in 1 .. i - 1 : table[j][n] = 0
  <2>1. \A j \in 1 .. i : table[j][n] = 0
    BY <1>2
  <2> QED
    BY <1>2, <2>1, FromNone
<1>3. CASE table[i][n] = 0 /\ ~ \A j \in 1 .. i - 1 : table[j][n] = 0
  <2>1. PICK j \in 1 .. i - 1 :
          /\ table[j][n] # 0 /\ From(table, i - 1, n) = table[j][n]
          /\ \A k \in 1 .. i - 1 : table[k][n] # 0 => k <= j
    BY <1>3, FromFound
  <2>2. \A k \in j + 1 .. i : table[k][n] = 0
    BY <1>3, <2>1
  <2>3. From(table, i, n) = table[j][n]
    BY <2>1, <2>2, FromLast
  <2> QED
    BY <1>3, <2>1, <2>3
<1> QED
  BY <1>1, <1>2, <1>3

\* Scopes that do not have the name do not change what it is.
LEMMA FromBehind ==
    ASSUME NEW table, NEW i \in Nat, NEW n, NEW j \in 0 .. i,
           \A k \in j + 1 .. i : table[k][n] = 0
    PROVE  From(table, i, n) = From(table, j, n)
<1>1. CASE \A k \in 1 .. j : table[k][n] = 0
  <2>1. \A k \in 1 .. i : table[k][n] = 0
    BY <1>1
  <2> QED
    BY <1>1, <2>1, FromNone
<1>2. CASE ~ \A k \in 1 .. j : table[k][n] = 0
  <2>1. PICK m \in 1 .. j : /\ table[m][n] # 0 /\ From(table, j, n) = table[m][n]
                            /\ \A k \in 1 .. j : table[k][n] # 0 => k <= m
    BY <1>2, FromFound
  <2>2. \A k \in m + 1 .. i : table[k][n] = 0
    BY <2>1
  <2> QED
    BY <2>1, <2>2, FromLast
<1> QED
  BY <1>1, <1>2

\* Tables that agree on a name in their first scopes agree on what it is there.
LEMMA FromSame ==
    ASSUME NEW table, NEW other, NEW i \in Nat, NEW n,
           \A j \in 1 .. i : table[j][n] = other[j][n]
    PROVE  From(table, i, n) = From(other, i, n)
<1>1. CASE \A k \in 1 .. i : table[k][n] = 0
  BY <1>1, FromNone
<1>2. CASE ~ \A k \in 1 .. i : table[k][n] = 0
  <2>1. PICK m \in 1 .. i : /\ table[m][n] # 0 /\ From(table, i, n) = table[m][n]
                            /\ \A k \in 1 .. i : table[k][n] # 0 => k <= m
    BY <1>2, FromFound
  <2>2. other[m][n] # 0 /\ \A k \in m + 1 .. i : other[k][n] = 0
    BY <2>1
  <2> QED
    BY <2>1, <2>2, FromLast
<1> QED
  BY <1>1, <1>2

\* Both lookups are of this kind.
LEMMA InnermostFrom ==
    ASSUME NEW S, NEW table \in Seq(S), NEW n
    PROVE  Innermost(table, n) = From(table, Len(table), n)
<1> DEFINE Found == {i \in DOMAIN table : table[i][n] # 0}
<1>1. DOMAIN table = 1 .. Len(table) /\ Len(table) \in Nat
  BY LenProperties
<1>2. CASE Found = {}
  BY <1>1, <1>2, FromNone DEF Innermost
<1>3. CASE Found # {}
  <2> DEFINE i == CHOOSE i \in Found : \A j \in Found : j <= i
  <2>1. i \in Found /\ \A j \in Found : j <= i
    BY <1>1, <1>3, LastIndex
  <2>2. Innermost(table, n) = table[i][n]
    BY <1>3 DEF Innermost
  <2>3. table[i][n] # 0 /\ i \in 1 .. Len(table)
        /\ \A k \in i + 1 .. Len(table) : table[k][n] = 0
    BY <1>1, <2>1
  <2> HIDE DEF i
  <2> QED
    BY <1>1, <2>2, <2>3, FromLast
<1> QED
  BY <1>2, <1>3

-----------------------------------------------------------------------------
(* Typing *)

TableScope == [Names -> Declarations]

FrameType == [kind : {"function", "method", "block"} \cup DOMAIN Headers,
              binds : SUBSET Names, previous : TableScope,
              defers : 0 .. MaxDefers, around : Nat]

DeferredType == [name : Names, meant : Declarations, ended : BOOLEAN]

\* The scopes of the k-th construct are those behind `around` up to here.
End(k) == IF k = Len(open) THEN Len(lexical) ELSE open[k + 1].around

\* The scopes are those of the constructs that are open, one after the other.
ScopesOfConstructs ==
  /\ open = <<>> => Len(lexical) = 1
  /\ open # <<>> => open[1].kind \in {"function", "method"} /\ open[1].around = 1
  /\ \A k \in 1 .. Len(open) : End(k) = open[k].around + Entered(open[k].kind)
  /\ \A k \in 2 .. Len(open) : /\ open[k].kind \notin {"function", "method"}
                               /\ open[k].around >= 3
  /\ open # <<>> => Len(lexical) >= 3

\* The scopes of a function and of its class are gone when it ends.
NothingOutside ==
  /\ open = <<>> => fields = None /\ bases = None /\ deferred = <<>>
  /\ functions = 0 => open = <<>>

Typed ==
  /\ scopes \in Seq(TableScope) /\ lexical \in Seq(TableScope)
  /\ Len(scopes) = Len(lexical)
  /\ bases \in TableScope /\ namedValues \in TableScope
  /\ globals \in TableScope /\ fields \in TableScope
  /\ open \in Seq(FrameType) /\ Len(open) <= MaxDepth
  /\ deferred \in Seq(DeferredType) /\ Len(deferred) <= MaxDefers
  /\ emitted \subseteq [meant : Declarations, given : Declarations, ended : BOOLEAN]
  /\ made \in Declarations /\ functions \in 0 .. MaxFunctions

TInv == Typed /\ ScopesOfConstructs /\ NothingOutside

\* No scope has the place of a number that is not a declaration.
LEMMA NoneType == None \in TableScope
BY BoundsAssumption DEF None, TableScope, Declarations

\* One scope more.
LEMMA PushOne ==
    ASSUME NEW S, NEW q \in Seq(S), NEW a \in S
    PROVE  /\ Append(q, a) \in Seq(S) /\ Len(Append(q, a)) = Len(q) + 1
           /\ Append(q, a)[Len(q) + 1] = a
           /\ \A i \in 1 .. Len(q) : Append(q, a)[i] = q[i]
BY AppendProperties

\* Two scopes more.
LEMMA PushTwo ==
    ASSUME NEW S, NEW q \in Seq(S), NEW a \in S, NEW b \in S
    PROVE  /\ q \o <<a, b>> \in Seq(S) /\ Len(q \o <<a, b>>) = Len(q) + 2
           /\ (q \o <<a, b>>)[Len(q) + 1] = a
           /\ (q \o <<a, b>>)[Len(q) + 2] = b
           /\ \A i \in 1 .. Len(q) : (q \o <<a, b>>)[i] = q[i]
<1>1. <<a, b>> \in Seq(S) /\ Len(<<a, b>>) = 2 /\ <<a, b>>[1] = a /\ <<a, b>>[2] = b
  OBVIOUS
<1>2. Len(q) \in Nat
  BY LenProperties
<1> QED
  BY <1>1, <1>2, ConcatProperties

\* Three scopes more.
LEMMA PushThree ==
    ASSUME NEW S, NEW q \in Seq(S), NEW a \in S, NEW b \in S, NEW c \in S
    PROVE  /\ q \o <<a, b, c>> \in Seq(S) /\ Len(q \o <<a, b, c>>) = Len(q) + 3
           /\ (q \o <<a, b, c>>)[Len(q) + 1] = a
           /\ (q \o <<a, b, c>>)[Len(q) + 2] = b
           /\ (q \o <<a, b, c>>)[Len(q) + 3] = c
           /\ \A i \in 1 .. Len(q) : (q \o <<a, b, c>>)[i] = q[i]
<1>1. /\ <<a, b, c>> \in Seq(S) /\ Len(<<a, b, c>>) = 3
      /\ <<a, b, c>>[1] = a /\ <<a, b, c>>[2] = b /\ <<a, b, c>>[3] = c
  OBVIOUS
<1>2. Len(q) \in Nat
  BY LenProperties
<1> QED
  BY <1>1, <1>2, ConcatProperties

\* The first scopes.
LEMMA Prefix ==
    ASSUME NEW S, NEW q \in Seq(S), NEW k \in 0 .. Len(q)
    PROVE  /\ SubSeq(q, 1, k) \in Seq(S) /\ Len(SubSeq(q, 1, k)) = k
           /\ \A i \in 1 .. k : SubSeq(q, 1, k)[i] = q[i]
<1>1. \A i \in 1 .. k : q[i] \in S
  BY ElementOfSeq
<1> QED
  BY <1>1, SubSeqProperties

\* The lookups give declarations.
LEMMA LookupType ==
    ASSUME NEW table \in Seq(TableScope), NEW n \in Names
    PROVE  Innermost(table, n) \in Declarations
<1>1. DOMAIN table = 1 .. Len(table) /\ Len(table) \in Nat
  BY LenProperties
<1>2. CASE From(table, Len(table), n) = 0
  BY <1>2, InnermostFrom, BoundsAssumption DEF Declarations
<1>3. CASE From(table, Len(table), n) # 0
  <2>1. PICK j \in 1 .. Len(table) : From(table, Len(table), n) = table[j][n]
    BY <1>1, <1>3, FromNone, FromFound
  <2>2. table[j] \in TableScope
    BY ElementOfSeq
  <2> QED
    BY <2>1, <2>2, InnermostFrom DEF TableScope
<1> QED
  BY <1>2, <1>3

\* A set of names has a number of elements.
LEMMA Count ==
    ASSUME NEW names \in SUBSET Names
    PROVE  Cardinality(names) \in Nat
BY NamesAssumption, FS_Subset, FS_CardinalityType

\* New names have new numbers.
LEMMA BindingsType ==
    ASSUME NEW names \in SUBSET Names, NEW k \in Nat, NEW b \in Bindings(names, k),
           k + Cardinality(names) <= MaxDeclarations
    PROVE  /\ b \in TableScope
           /\ \A n \in Names : /\ b[n] # 0 <=> n \in names
                               /\ b[n] # 0 => b[n] > k /\ b[n] <= k + Cardinality(names)
<1>1. Cardinality(names) \in Nat
  BY Count
<1>2. b \in [Names -> {0} \cup (k + 1) .. (k + Cardinality(names))]
      /\ \A n \in Names : b[n] # 0 <=> n \in names
  BY DEF Bindings
<1>3. \A n \in Names : b[n] \in {0} \cup (k + 1) .. (k + Cardinality(names))
  BY <1>2
<1>4. \A n \in Names : b[n] \in Declarations
  BY <1>1, <1>3, BoundsAssumption DEF Declarations
<1> QED
  BY <1>1, <1>2, <1>3, <1>4 DEF TableScope

\* A scope with others behind it.
LEMMA BehindType ==
    ASSUME NEW a \in TableScope, NEW b \in TableScope
    PROVE  /\ Behind(a, b) \in TableScope
           /\ \A n \in Names : Behind(a, b)[n] = IF a[n] = 0 THEN b[n] ELSE a[n]
BY DEF Behind, TableScope

\* Every construct has at least one scope, a function's at least two.
LEMMA EnteredType ==
    /\ \A kind : Entered(kind) \in 1 .. 3
    /\ \A kind \in {"function", "method"} : Entered(kind) >= 2
BY DEF Entered

\* What typing says of the tables and of the constructs.
LEMMA Facts ==
    ASSUME TInv
    PROVE  /\ Len(lexical) \in Nat \ {0} /\ Len(scopes) = Len(lexical)
           /\ DOMAIN lexical = 1 .. Len(lexical) /\ DOMAIN scopes = 1 .. Len(lexical)
           /\ \A i \in 1 .. Len(lexical) : lexical[i] \in TableScope /\ scopes[i] \in TableScope
           /\ Len(open) \in Nat /\ DOMAIN open = 1 .. Len(open)
           /\ \A k \in 1 .. Len(open) : open[k] \in FrameType
           /\ open = <<>> <=> Len(open) = 0
           /\ Len(deferred) \in Nat /\ DOMAIN deferred = 1 .. Len(deferred)
           /\ \A i \in 1 .. Len(deferred) : deferred[i] \in DeferredType
           /\ made \in Nat
<1>1. /\ Len(lexical) \in Nat /\ Len(scopes) = Len(lexical)
      /\ DOMAIN lexical = 1 .. Len(lexical) /\ DOMAIN scopes = 1 .. Len(lexical)
      /\ Len(open) \in Nat /\ DOMAIN open = 1 .. Len(open)
      /\ Len(deferred) \in Nat /\ DOMAIN deferred = 1 .. Len(deferred)
  BY LenProperties DEF TInv, Typed
<1>2. /\ \A i \in 1 .. Len(lexical) : lexical[i] \in TableScope /\ scopes[i] \in TableScope
      /\ \A k \in 1 .. Len(open) : open[k] \in FrameType
      /\ \A i \in 1 .. Len(deferred) : deferred[i] \in DeferredType
  BY <1>1, ElementOfSeq DEF TInv, Typed
<1>3. open = <<>> <=> Len(open) = 0
  BY EmptySeq DEF TInv, Typed
<1>4. Len(lexical) # 0
  BY DEF TInv, ScopesOfConstructs
<1>5. made \in Nat
  BY BoundsAssumption DEF TInv, Typed, Declarations
<1> QED
  BY <1>1, <1>2, <1>3, <1>4, <1>5

\* A construct inside a function puts its scopes on top.
LEMMA PushConstruct ==
    ASSUME TInv, open # <<>>, NEW f \in FrameType,
           f.kind \notin {"function", "method"}, f.around = Len(lexical),
           open' = Append(open, f), Len(lexical') = Len(lexical) + Entered(f.kind)
    PROVE  ScopesOfConstructs' /\ open' \in Seq(FrameType) /\ Len(open') = Len(open) + 1
<1>0. Len(open) \in Nat
  BY Facts
<1>1. /\ open' \in Seq(FrameType) /\ Len(open') = Len(open) + 1
      /\ open'[Len(open) + 1] = f /\ \A k \in 1 .. Len(open) : open'[k] = open[k]
  BY PushOne DEF TInv, Typed
<1>2. open' # <<>>
  BY <1>1, Facts, EmptySeq
<1>3. Len(lexical') >= 3
  BY EnteredType, Facts DEF TInv, ScopesOfConstructs
<1>4. open'[1].kind \in {"function", "method"} /\ open'[1].around = 1
  BY <1>1, Facts DEF TInv, ScopesOfConstructs
<1>5. ASSUME NEW k \in 1 .. Len(open')
      PROVE  End(k)' = open'[k].around + Entered(open'[k].kind)
  <2>1. CASE k = Len(open) + 1
    BY <1>1, <2>1 DEF End
  <2>2. CASE k \in 1 .. Len(open)
    <3>1. End(k) = open[k].around + Entered(open[k].kind)
      BY <2>2 DEF TInv, ScopesOfConstructs
    <3>2. CASE k = Len(open)
      BY <1>1, <2>2, <3>1, <3>2 DEF End
    <3>3. CASE k # Len(open)
      <4>1. /\ k + 1 \in 1 .. Len(open) /\ k # Len(open')
            /\ open'[k + 1] = open[k + 1] /\ open'[k] = open[k]
        BY <1>0, <1>1, <2>2, <3>3
      <4> QED
        BY <3>1, <3>3, <4>1 DEF End
    <3> QED
      BY <3>2, <3>3
  <2> QED
    BY <1>0, <1>1, <2>1, <2>2
<1>6. ASSUME NEW k \in 2 .. Len(open')
      PROVE  open'[k].kind \notin {"function", "method"} /\ open'[k].around >= 3
  <2>1. CASE k = Len(open) + 1
    BY <1>1, <2>1 DEF TInv, ScopesOfConstructs
  <2>2. CASE k \in 2 .. Len(open)
    BY <1>1, <2>2 DEF TInv, ScopesOfConstructs
  <2> QED
    BY <1>0, <1>1, <2>1, <2>2
<1> QED
  BY <1>1, <1>2, <1>3, <1>4, <1>5, <1>6 DEF ScopesOfConstructs

\* The end of a construct takes its scopes away.
LEMMA PopConstruct ==
    ASSUME TInv, Len(open) > 1, open' \in Seq(FrameType), Len(open') = Len(open) - 1,
           \A k \in 1 .. Len(open) - 1 : open'[k] = open[k],
           Len(lexical') = Current.around
    PROVE  ScopesOfConstructs' /\ open' # <<>>
<1>0. Len(open) \in Nat
  BY Facts
<1>1. /\ open' \in Seq(FrameType) /\ Len(open') = Len(open) - 1
      /\ \A k \in 1 .. Len(open) - 1 : open'[k] = open[k]
  OBVIOUS
<1>2. open' # <<>>
  <2>1. Len(open') # 0
    BY <1>0, <1>1
  <2> QED
    BY <2>1, EmptySeq
<1>3. Len(lexical') >= 3
  BY Facts DEF TInv, ScopesOfConstructs, Current
<1>4. open'[1].kind \in {"function", "method"} /\ open'[1].around = 1
  BY <1>1, Facts DEF TInv, ScopesOfConstructs
<1>5. ASSUME NEW k \in 1 .. Len(open')
      PROVE  End(k)' = open'[k].around + Entered(open'[k].kind)
  <2>1. k \in 1 .. Len(open)
    BY <1>1, Facts
  <2>2. End(k) = open[k].around + Entered(open[k].kind)
    BY <2>1 DEF TInv, ScopesOfConstructs
  <2>3. End(k)' = End(k)
    <3>1. CASE k = Len(open')
      BY <1>0, <1>1, <3>1 DEF End, Current
    <3>2. CASE k # Len(open')
      BY <1>0, <1>1, <3>2 DEF End
    <3> QED
      BY <3>1, <3>2
  <2> QED
    BY <1>1, <2>2, <2>3
<1>6. \A k \in 2 .. Len(open') : /\ open'[k].kind \notin {"function", "method"}
                                 /\ open'[k].around >= 3
  BY <1>1, Facts DEF TInv, ScopesOfConstructs
<1> QED
  BY <1>1, <1>2, <1>3, <1>4, <1>5, <1>6 DEF ScopesOfConstructs

\* The construct that is open, and where its scopes begin.
LEMMA CurrentFacts ==
    ASSUME TInv, InFunction
    PROVE  /\ Current \in FrameType /\ Current.around \in 1 .. Len(lexical) - 1
           /\ Len(lexical) = Current.around + Entered(Current.kind)
           /\ Len(lexical) >= 3
<1>1. Len(open) \in 1 .. Len(open)
  BY Facts DEF InFunction
<1>2. /\ Current \in FrameType /\ Len(lexical) = Current.around + Entered(Current.kind)
      /\ Len(lexical) >= 3
  BY <1>1, Facts DEF TInv, ScopesOfConstructs, InFunction, End, Current
<1>3. Current.around \in Nat
  BY <1>2 DEF FrameType
<1>4. CASE Len(open) = 1
  BY <1>2, <1>3, <1>4, EnteredType DEF TInv, ScopesOfConstructs, InFunction, Current
<1>5. CASE Len(open) > 1
  BY <1>2, <1>3, <1>5, Facts, EnteredType DEF TInv, ScopesOfConstructs, InFunction, Current
<1> QED
  BY <1>1, <1>4, <1>5, Facts

\* Deferred expressions are generated with declarations or with nothing.
LEMMA EmitsType ==
    ASSUME TInv, NEW marker \in Nat
    PROVE  emitCombinedCleanup(marker)
             \subseteq [meant : Declarations, given : Declarations, ended : BOOLEAN]
<1> SUFFICES ASSUME NEW i \in (marker + 1) .. Len(deferred)
             PROVE  [meant |-> deferred[i].meant, given |-> generateIdentifier(deferred[i].name),
                     ended |-> deferred[i].ended]
                      \in [meant : Declarations, given : Declarations, ended : BOOLEAN]
  BY DEF emitCombinedCleanup
<1>1. deferred[i] \in DeferredType
  BY Facts
<1>2. generateIdentifier(deferred[i].name) \in Declarations
  BY <1>1 DEF TInv, Typed, TableScope, generateIdentifier, DeferredType
<1> QED
  BY <1>1, <1>2 DEF DeferredType

-----------------------------------------------------------------------------
(* Every action keeps the types *)

\* A new declaration in a scope.
LEMMA AddType ==
    ASSUME NEW a \in TableScope, NEW n \in Names, NEW d \in Declarations
    PROVE  /\ addSymbol(a, n, d) \in TableScope /\ [a EXCEPT ![n] = d] \in TableScope
           /\ \A m \in Names : addSymbol(a, n, d)[m] = IF m = n /\ a[n] = 0 THEN d ELSE a[m]
           /\ \A m \in Names : [a EXCEPT ![n] = d][m] = IF m = n THEN d ELSE a[m]
BY DEF addSymbol, TableScope

\* A new number is one.
LEMMA NewNumber ==
    ASSUME TInv, made < MaxDeclarations
    PROVE  made + 1 \in Declarations
BY Facts, BoundsAssumption DEF Declarations

\* A global variable is in both tables, each in its one scope.
LEMMA DeclareGlobalType ==
    ASSUME TInv, NEW n \in Names, DeclareGlobal(n)
    PROVE  /\ TInv' /\ Len(lexical) = 1 /\ open = <<>>
           /\ Len(lexical') = 1 /\ Len(scopes') = 1
           /\ \A m \in Names :
                /\ scopes'[1][m] = IF m = n /\ scopes[1][n] = 0 THEN made + 1 ELSE scopes[1][m]
                /\ lexical'[1][m] = IF m = n THEN made + 1 ELSE lexical[1][m]
<1>1. open = <<>> /\ Len(lexical) = 1
  BY DEF TInv, NothingOutside, ScopesOfConstructs, DeclareGlobal
<1>2. scopes[1] \in TableScope /\ lexical[1] \in TableScope
  BY <1>1, Facts
<1>3. made + 1 \in Declarations
  BY NewNumber DEF DeclareGlobal
<1> DEFINE s == addSymbol(scopes[1], n, made + 1)
           l == [lexical[1] EXCEPT ![n] = made + 1]
<1>4. scopes' = <<s>> /\ lexical' = <<l>> /\ s \in TableScope /\ l \in TableScope
  BY <1>2, <1>3, AddType DEF DeclareGlobal
<1>5. ASSUME NEW m \in Names
      PROVE  /\ s[m] = IF m = n /\ scopes[1][n] = 0 THEN made + 1 ELSE scopes[1][m]
             /\ l[m] = IF m = n THEN made + 1 ELSE lexical[1][m]
  <2>1. s[m] = IF m = n /\ scopes[1][n] = 0 THEN made + 1 ELSE scopes[1][m]
    BY <1>2 DEF addSymbol, TableScope
  <2>2. l[m] = IF m = n THEN made + 1 ELSE lexical[1][m]
    BY <1>2 DEF TableScope
  <2> QED
    BY <2>1, <2>2
<1> HIDE DEF s, l
<1>6. /\ scopes' \in Seq(TableScope) /\ lexical' \in Seq(TableScope)
      /\ Len(scopes') = 1 /\ Len(lexical') = 1 /\ scopes'[1] = s /\ lexical'[1] = l
  BY <1>4
<1>7. globals' \in TableScope
  BY <1>3, AddType DEF DeclareGlobal, TInv, Typed
<1>8. Typed'
  BY <1>3, <1>6, <1>7 DEF Typed, TInv, DeclareGlobal
<1>9. ScopesOfConstructs'
  <2>1. open' = <<>> /\ Len(open') = 0
    BY <1>1, EmptySeq DEF DeclareGlobal
  <2> QED
    BY <1>6, <2>1 DEF ScopesOfConstructs
<1>10. NothingOutside'
  BY <1>1 DEF NothingOutside, TInv, DeclareGlobal
<1> QED
  BY <1>1, <1>5, <1>6, <1>8, <1>9, <1>10 DEF TInv

\* A function begins: its scopes are the only ones behind the globals'.
LEMMA BeginType ==
    ASSUME TInv, open = <<>>, NEW kind \in {"function", "method"}, NEW names \in SUBSET Names,
           Len(lexical') = 1 + Entered(kind), open' = <<Frame(kind, names)>>
    PROVE  ScopesOfConstructs' /\ open' \in Seq(FrameType) /\ Len(open') = 1
<1>1. Len(lexical) = 1
  BY DEF TInv, ScopesOfConstructs
<1> DEFINE f == Frame(kind, names)
<1>2. f \in FrameType /\ f.kind = kind /\ f.around = 1
  BY <1>1, Facts DEF Frame, FrameType, TInv, Typed
<1>9. open' = <<f>>
  OBVIOUS
<1> HIDE DEF f
<1>3. /\ open' \in Seq(FrameType) /\ Len(open') = 1 /\ open'[1] = f /\ open' # <<>>
  BY <1>2, <1>9
<1> QED
  BY <1>2, <1>3, EnteredType DEF ScopesOfConstructs, End

\* A function adds the scopes of its parameters and of its body.
LEMMA OpenFunctionType ==
    ASSUME TInv, NEW names \in SUBSET Names, OpenFunction(names)
    PROVE  /\ TInv' /\ Len(lexical) = 1 /\ Len(lexical') = 3 /\ Len(open') = 1
           /\ made' = made + Cardinality(names) /\ Cardinality(names) \in Nat
           /\ scopes'[1] = scopes[1] /\ lexical'[1] = lexical[1]
           /\ \E params \in Bindings(names, made) :
                /\ params \in TableScope /\ namedValues' = params
                /\ scopes'[2] = params /\ scopes'[3] = BlockScope(params, None)
                /\ lexical'[2] = params /\ lexical'[3] = None
<1>1. open = <<>> /\ Len(lexical) = 1 /\ Len(scopes) = 1
  BY Facts DEF TInv, ScopesOfConstructs, OpenFunction, InFunction
<1>2. Cardinality(names) \in Nat /\ made \in Nat
  BY Count, Facts
<1>3. PICK params \in Bindings(names, made) :
        /\ scopes' = scopes \o <<params, BlockScope(params, None)>>
        /\ lexical' = lexical \o <<params, None>>
        /\ namedValues' = params
  BY DEF OpenFunction
<1>4. params \in TableScope
  BY <1>2, BindingsType DEF OpenFunction
<1>5. BlockScope(params, None) \in TableScope
  BY <1>4, NoneType, BehindType DEF BlockScope
<1>6. /\ scopes' \in Seq(TableScope) /\ lexical' \in Seq(TableScope)
      /\ Len(scopes') = 3 /\ Len(lexical') = 3
      /\ scopes'[1] = scopes[1] /\ lexical'[1] = lexical[1]
      /\ scopes'[2] = params /\ scopes'[3] = BlockScope(params, None)
      /\ lexical'[2] = params /\ lexical'[3] = None
  <2>1. scopes \in Seq(TableScope) /\ lexical \in Seq(TableScope)
    BY DEF TInv, Typed
  <2>2. /\ scopes' \in Seq(TableScope) /\ Len(scopes') = Len(scopes) + 2
        /\ scopes'[Len(scopes) + 1] = params
        /\ scopes'[Len(scopes) + 2] = BlockScope(params, None)
        /\ \A i \in 1 .. Len(scopes) : scopes'[i] = scopes[i]
    BY <1>3, <1>4, <1>5, <2>1, PushTwo
  <2>3. /\ lexical' \in Seq(TableScope) /\ Len(lexical') = Len(lexical) + 2
        /\ lexical'[Len(lexical) + 1] = params
        /\ lexical'[Len(lexical) + 2] = None
        /\ \A i \in 1 .. Len(lexical) : lexical'[i] = lexical[i]
    BY <1>3, <1>4, <2>1, NoneType, PushTwo
  <2> QED
    BY <1>1, <2>2, <2>3
<1>7. ScopesOfConstructs' /\ open' \in Seq(FrameType) /\ Len(open') = 1 /\ open' # <<>>
  <2>1. open' = <<Frame("function", names)>>
    BY DEF OpenFunction
  <2> QED
    BY <1>1, <1>6, <2>1, BeginType DEF Entered
<1>8. deferred' \in Seq(DeferredType) /\ Len(deferred') = 0
  BY EmptySeq DEF OpenFunction
<1>9. made' = made + Cardinality(names) /\ made' \in Declarations /\ functions' \in 0 .. MaxFunctions
  <2>1. /\ made' = made + Cardinality(names) /\ made + Cardinality(names) <= MaxDeclarations
        /\ functions' = functions + 1 /\ functions < MaxFunctions
    BY DEF OpenFunction
  <2>2. functions \in 0 .. MaxFunctions
    BY DEF TInv, Typed
  <2> QED
    BY <1>2, <2>1, <2>2, BoundsAssumption DEF Declarations
<1>10. Typed'
  BY <1>3, <1>4, <1>6, <1>7, <1>8, <1>9, NoneType, BoundsAssumption
  DEF Typed, TInv, OpenFunction
<1>11. NothingOutside'
  BY <1>7 DEF NothingOutside, OpenFunction, TInv, Typed
<1> QED
  BY <1>1, <1>2, <1>3, <1>4, <1>6, <1>7, <1>9, <1>10, <1>11 DEF TInv

\* What both passes have at the beginning of a method.
MethodTables(inherited, names, k, members, params, base) ==
  /\ k >= made /\ k + Cardinality(names) = made' /\ made' <= MaxDeclarations
  /\ \A n \in Names : members[n] # 0 => members[n] <= k
  /\ \A n \in Names : base[n] = IF n \in inherited THEN members[n] ELSE 0
  /\ members \in TableScope /\ params \in TableScope
  /\ namedValues' = params /\ fields' = members /\ bases' = base
  /\ scopes'[2] = members /\ scopes'[3] = params
  /\ scopes'[4] = BlockScope(params, base)
  /\ lexical'[2] = members /\ lexical'[3] = params /\ lexical'[4] = None

\* A method has its class's fields around its parameters.
LEMMA OpenMethodType ==
    ASSUME TInv, NEW own \in SUBSET Names, NEW inherited \in SUBSET Names,
           NEW names \in SUBSET Names, OpenMethod(own, inherited, names)
    PROVE  /\ TInv' /\ Len(lexical) = 1 /\ Len(lexical') = 4 /\ Len(open') = 1
           /\ scopes'[1] = scopes[1] /\ lexical'[1] = lexical[1]
           /\ \E k \in Nat : \E members \in Bindings(own \cup inherited, made) :
              \E params \in Bindings(names, k) : \E base \in TableScope :
                MethodTables(inherited, names, k, members, params, base)
<1>1. open = <<>> /\ Len(lexical) = 1 /\ Len(scopes) = 1
  BY Facts DEF TInv, ScopesOfConstructs, OpenMethod, InFunction
<1> DEFINE k == made + Cardinality(own \cup inherited)
<1>2. /\ Cardinality(names) \in Nat /\ Cardinality(own \cup inherited) \in Nat
      /\ made \in Nat /\ k \in Nat /\ k >= made
      /\ made' = k + Cardinality(names) /\ made' <= MaxDeclarations
  <2>1. Cardinality(names) \in Nat /\ Cardinality(own \cup inherited) \in Nat /\ made \in Nat
    BY Count, Facts
  <2> QED
    BY <2>1 DEF OpenMethod
<1>3. PICK members \in Bindings(own \cup inherited, made) :
      \E params \in Bindings(names, k) :
        LET base == [n \in Names |-> IF n \in inherited THEN members[n] ELSE 0]
        IN /\ scopes' = scopes \o <<members, params, BlockScope(params, base)>>
           /\ lexical' = lexical \o <<members, params, None>>
           /\ namedValues' = params
           /\ fields' = members /\ bases' = base
  BY DEF OpenMethod
<1> DEFINE base == [n \in Names |-> IF n \in inherited THEN members[n] ELSE 0]
<1>4. PICK params \in Bindings(names, k) :
        /\ scopes' = scopes \o <<members, params, BlockScope(params, base)>>
        /\ lexical' = lexical \o <<members, params, None>>
        /\ namedValues' = params
        /\ fields' = members /\ bases' = base
  BY <1>3
<1>5. /\ members \in TableScope
      /\ \A n \in Names : members[n] # 0 => members[n] <= k
  <2>1. made + Cardinality(own \cup inherited) <= MaxDeclarations
    BY <1>2, BoundsAssumption
  <2>2. own \cup inherited \in SUBSET Names
    OBVIOUS
  <2> QED
    BY <1>2, <2>1, <2>2, BindingsType
<1>6. params \in TableScope
  BY <1>2, BindingsType
<1>7. base \in TableScope
      /\ \A n \in Names : base[n] = IF n \in inherited THEN members[n] ELSE 0
  BY <1>5, BoundsAssumption DEF TableScope, Declarations
<1> HIDE DEF base, k
<1>8. BlockScope(params, base) \in TableScope
  BY <1>6, <1>7, BehindType DEF BlockScope
<1>9. /\ scopes' \in Seq(TableScope) /\ lexical' \in Seq(TableScope)
      /\ Len(scopes') = 4 /\ Len(lexical') = 4
      /\ scopes'[1] = scopes[1] /\ lexical'[1] = lexical[1]
      /\ scopes'[2] = members /\ scopes'[3] = params
      /\ scopes'[4] = BlockScope(params, base)
      /\ lexical'[2] = members /\ lexical'[3] = params /\ lexical'[4] = None
  <2>1. scopes \in Seq(TableScope) /\ lexical \in Seq(TableScope)
    BY DEF TInv, Typed
  <2>2. /\ scopes' \in Seq(TableScope) /\ Len(scopes') = Len(scopes) + 3
        /\ scopes'[Len(scopes) + 1] = members
        /\ scopes'[Len(scopes) + 2] = params
        /\ scopes'[Len(scopes) + 3] = BlockScope(params, base)
        /\ \A i \in 1 .. Len(scopes) : scopes'[i] = scopes[i]
    BY <1>4, <1>5, <1>6, <1>8, <2>1, PushThree
  <2>3. /\ lexical' \in Seq(TableScope) /\ Len(lexical') = Len(lexical) + 3
        /\ lexical'[Len(lexical) + 1] = members
        /\ lexical'[Len(lexical) + 2] = params
        /\ lexical'[Len(lexical) + 3] = None
        /\ \A i \in 1 .. Len(lexical) : lexical'[i] = lexical[i]
    BY <1>4, <1>5, <1>6, <2>1, NoneType, PushThree
  <2> QED
    BY <1>1, <2>2, <2>3
<1>10. ScopesOfConstructs' /\ open' \in Seq(FrameType) /\ Len(open') = 1 /\ open' # <<>>
  <2>1. open' = <<Frame("method", names)>>
    BY DEF OpenMethod
  <2> QED
    BY <1>1, <1>9, <2>1, BeginType DEF Entered
<1>11. deferred' \in Seq(DeferredType) /\ Len(deferred') = 0
  BY EmptySeq DEF OpenMethod
<1>12. made' \in Declarations /\ functions' \in 0 .. MaxFunctions
  <2>1. made' \in Nat
    BY <1>2
  <2>2. functions' = functions + 1 /\ functions < MaxFunctions
    BY DEF OpenMethod
  <2>3. functions \in 0 .. MaxFunctions
    BY DEF TInv, Typed
  <2> QED
    BY <1>2, <2>1, <2>2, <2>3, BoundsAssumption DEF Declarations
<1>13. Typed'
  <2>1. globals' = globals /\ emitted' = {}
    BY DEF OpenMethod
  <2>2. bases' \in TableScope /\ fields' \in TableScope /\ namedValues' \in TableScope
    BY <1>4, <1>5, <1>6, <1>7 DEF base
  <2> QED
    BY <1>9, <1>10, <1>11, <1>12, <2>1, <2>2, BoundsAssumption DEF Typed, TInv
<1>14. NothingOutside'
  BY <1>10 DEF NothingOutside, OpenMethod, TInv, Typed
<1>15. TInv'
  BY <1>10, <1>13, <1>14 DEF TInv
<1> QED
  <2>1. MethodTables(inherited, names, k, members, params, base)
    BY <1>2, <1>4, <1>5, <1>6, <1>7, <1>9 DEF MethodTables
  <2> QED
    BY <1>1, <1>2, <1>7, <1>9, <1>10, <1>15, <2>1

\* A declaration changes the last scope of both tables, and the map.
LEMMA DeclareType ==
    ASSUME TInv, NEW n \in Names, Declare(n)
    PROVE  /\ TInv' /\ Len(lexical') = Len(lexical) /\ Len(lexical) >= 3
           /\ \A i \in 1 .. Len(lexical) - 1 :
                 scopes'[i] = scopes[i] /\ lexical'[i] = lexical[i]
           /\ \A m \in Names :
                /\ scopes'[Len(lexical)][m] =
                     IF m = n /\ scopes[Len(lexical)][n] = 0 THEN made + 1
                     ELSE scopes[Len(lexical)][m]
                /\ lexical'[Len(lexical)][m] = IF m = n THEN made + 1 ELSE lexical[Len(lexical)][m]
                /\ namedValues'[m] = IF m = n THEN made + 1 ELSE namedValues[m]
<1> DEFINE L == Len(lexical)
<1>1. /\ L \in 1 .. Len(scopes) /\ L \in Nat /\ L >= 3 /\ Len(scopes) = L
      /\ scopes[L] \in TableScope /\ lexical[L] \in TableScope
  BY Facts, CurrentFacts DEF Declare
<1>2. made + 1 \in Declarations
  BY NewNumber DEF Declare
<1> DEFINE s == addSymbol(scopes[L], n, made + 1)
           l == [lexical[L] EXCEPT ![n] = made + 1]
<1>3. /\ scopes' = [scopes EXCEPT ![L] = s] /\ lexical' = [lexical EXCEPT ![L] = l]
  BY <1>1 DEF Declare, WithTop, Top
<1>4. s \in TableScope /\ l \in TableScope
  BY <1>1, <1>2, AddType
<1>5. ASSUME NEW m \in Names
      PROVE  /\ s[m] = IF m = n /\ scopes[L][n] = 0 THEN made + 1 ELSE scopes[L][m]
             /\ l[m] = IF m = n THEN made + 1 ELSE lexical[L][m]
  <2>1. s[m] = IF m = n /\ scopes[L][n] = 0 THEN made + 1 ELSE scopes[L][m]
    BY <1>1 DEF addSymbol, TableScope
  <2>2. l[m] = IF m = n THEN made + 1 ELSE lexical[L][m]
    BY <1>1 DEF TableScope
  <2> QED
    BY <2>1, <2>2
<1> HIDE DEF s, l
<1>6. /\ scopes' \in Seq(TableScope) /\ Len(scopes') = L /\ scopes'[L] = s
      /\ \A i \in 1 .. L - 1 : scopes'[i] = scopes[i]
  BY <1>1, <1>3, <1>4, ExceptSeq DEF TInv, Typed
<1>7. /\ lexical' \in Seq(TableScope) /\ Len(lexical') = L /\ lexical'[L] = l
      /\ \A i \in 1 .. L - 1 : lexical'[i] = lexical[i]
  BY <1>1, <1>3, <1>4, ExceptSeq DEF TInv, Typed
<1>8. /\ namedValues' \in TableScope
      /\ \A m \in Names : namedValues'[m] = IF m = n THEN made + 1 ELSE namedValues[m]
  BY <1>2 DEF Declare, TInv, Typed, TableScope
<1>9. Typed'
  BY <1>1, <1>2, <1>6, <1>7, <1>8 DEF Typed, TInv, Declare
<1>10. ScopesOfConstructs'
  BY <1>7 DEF ScopesOfConstructs, End, TInv, Declare
<1>11. NothingOutside'
  BY DEF NothingOutside, Declare, TInv
<1> QED
  BY <1>1, <1>5, <1>6, <1>7, <1>8, <1>9, <1>10, <1>11 DEF TInv

\* A construct is entered with what the tables are then.
LEMMA FrameFacts ==
    ASSUME TInv, NEW kind \in {"block"} \cup DOMAIN Headers, NEW names \in SUBSET Names
    PROVE  /\ Frame(kind, names) \in FrameType
           /\ Frame(kind, names).kind = kind /\ Frame(kind, names).binds = names
           /\ Frame(kind, names).previous = namedValues
           /\ Frame(kind, names).defers = Len(deferred)
           /\ Frame(kind, names).around = Len(lexical)
           /\ kind \notin {"function", "method"}
           /\ kind # "block" => Entered(kind) = 2
<1>1. Len(deferred) \in 0 .. MaxDefers /\ Len(lexical) \in Nat
  BY Facts, BoundsAssumption DEF TInv, Typed
<1> QED
  BY <1>1 DEF Frame, FrameType, TInv, Typed, Headers, Entered

\* A block adds a scope, which starts with copies for the analyzer.
LEMMA OpenBlockType ==
    ASSUME TInv, OpenBlock
    PROVE  /\ TInv' /\ Len(lexical') = Len(lexical) + 1 /\ Len(lexical) >= 3
           /\ \A i \in 1 .. Len(lexical) : scopes'[i] = scopes[i] /\ lexical'[i] = lexical[i]
           /\ scopes'[Len(lexical) + 1] = BlockScope(scopes[Len(lexical)], bases)
           /\ lexical'[Len(lexical) + 1] = None
           /\ Len(open') = Len(open) + 1 /\ open'[Len(open) + 1] = Frame("block", {})
           /\ \A k \in 1 .. Len(open) : open'[k] = open[k]
<1> DEFINE f == Frame("block", {})
           L == Len(lexical)
           b == BlockScope(scopes[L], bases)
<1>1. L \in Nat /\ L >= 3 /\ Len(scopes) = L /\ scopes[L] \in TableScope /\ open # <<>>
      /\ Len(open) \in Nat
  BY Facts, CurrentFacts DEF OpenBlock, InFunction
<1>2. f \in FrameType /\ f.around = L /\ f.kind = "block"
  BY FrameFacts
<1>3. b \in TableScope
  BY <1>1, BehindType DEF BlockScope, TInv, Typed
<1>4. /\ scopes' = Append(scopes, b) /\ lexical' = Append(lexical, None)
      /\ open' = Append(open, f)
  BY <1>1 DEF OpenBlock, Top
<1> HIDE DEF f, b
<1>5. /\ scopes' \in Seq(TableScope) /\ Len(scopes') = L + 1 /\ scopes'[L + 1] = b
      /\ \A i \in 1 .. L : scopes'[i] = scopes[i]
  BY <1>1, <1>3, <1>4, PushOne DEF TInv, Typed
<1>6. /\ lexical' \in Seq(TableScope) /\ Len(lexical') = L + 1 /\ lexical'[L + 1] = None
      /\ \A i \in 1 .. L : lexical'[i] = lexical[i]
  BY <1>1, <1>4, NoneType, PushOne DEF TInv, Typed
<1>7. /\ Len(open') = Len(open) + 1 /\ open'[Len(open) + 1] = f
      /\ \A k \in 1 .. Len(open) : open'[k] = open[k]
  BY <1>2, <1>4, PushOne DEF TInv, Typed
<1>8. ScopesOfConstructs' /\ open' \in Seq(FrameType)
  BY <1>1, <1>2, <1>4, <1>6, PushConstruct DEF Entered
<1>9. Len(open') <= MaxDepth
  BY <1>1, <1>7, BoundsAssumption DEF OpenBlock
<1>10. Typed'
  BY <1>5, <1>6, <1>8, <1>9 DEF Typed, TInv, OpenBlock
<1>11. NothingOutside'
  <2>1. Len(open') # 0
    BY <1>1, <1>7
  <2>2. open' # <<>>
    BY <2>1, EmptySeq
  <2> QED
    BY <1>1, <2>2 DEF NothingOutside, OpenBlock, TInv
<1> QED
  BY <1>1, <1>5, <1>6, <1>7, <1>8, <1>10, <1>11 DEF TInv, f, b

\* A header adds the scopes of its names and of its body.
LEMMA OpenHeaderType ==
    ASSUME TInv, NEW kind \in DOMAIN Headers, NEW names \in SUBSET Names,
           OpenHeader(kind, names)
    PROVE  /\ TInv' /\ Len(lexical') = Len(lexical) + 2 /\ Len(lexical) >= 3
           /\ \A i \in 1 .. Len(lexical) : scopes'[i] = scopes[i] /\ lexical'[i] = lexical[i]
           /\ \E binding \in Bindings(names, made) :
                /\ binding \in TableScope /\ namedValues' = Behind(binding, namedValues)
                /\ \A n \in Names : /\ binding[n] # 0 <=> n \in names
                                    /\ binding[n] # 0 => binding[n] > made
                /\ scopes'[Len(lexical) + 1] = binding
                /\ scopes'[Len(lexical) + 2] = BlockScope(binding, bases)
                /\ lexical'[Len(lexical) + 1] = binding
                /\ lexical'[Len(lexical) + 2] = None
           /\ Len(open') = Len(open) + 1 /\ open'[Len(open) + 1] = Frame(kind, names)
           /\ \A k \in 1 .. Len(open) : open'[k] = open[k]
           /\ made' >= made
<1> DEFINE f == Frame(kind, names)
           L == Len(lexical)
<1>1. L \in Nat /\ L >= 3 /\ Len(scopes) = L /\ open # <<>> /\ Len(open) \in Nat /\ made \in Nat
  BY Facts, CurrentFacts DEF OpenHeader, InFunction
<1>2. f \in FrameType /\ f.around = L /\ f.kind = kind /\ Entered(kind) = 2
      /\ kind \notin {"function", "method"}
  BY FrameFacts DEF Headers
<1>3. Cardinality(names) \in Nat /\ made' = made + Cardinality(names)
      /\ made' <= MaxDeclarations
  BY Count DEF OpenHeader
<1>4. PICK binding \in Bindings(names, made) :
        /\ scopes' = scopes \o <<binding, BlockScope(binding, bases)>>
        /\ lexical' = lexical \o <<binding, None>>
        /\ namedValues' = Behind(binding, namedValues)
  BY DEF OpenHeader
<1>5. /\ binding \in TableScope
      /\ \A n \in Names : /\ binding[n] # 0 <=> n \in names
                          /\ binding[n] # 0 => binding[n] > made
  BY <1>1, <1>3, BindingsType
<1> DEFINE b == BlockScope(binding, bases)
<1>6. b \in TableScope /\ namedValues' \in TableScope
  BY <1>4, <1>5, BehindType DEF BlockScope, TInv, Typed
<1>7. open' = Append(open, f)
  BY DEF OpenHeader
<1>19. scopes' = scopes \o <<binding, b>>
  BY <1>4
<1> HIDE DEF f, b
<1>8. /\ scopes' \in Seq(TableScope) /\ Len(scopes') = L + 2
      /\ scopes'[L + 1] = binding /\ scopes'[L + 2] = b
      /\ \A i \in 1 .. L : scopes'[i] = scopes[i]
  <2>1. scopes \in Seq(TableScope) /\ b \in TableScope /\ binding \in TableScope
    BY <1>5, <1>6 DEF TInv, Typed
  <2>2. /\ scopes' \in Seq(TableScope) /\ Len(scopes') = Len(scopes) + 2
        /\ scopes'[Len(scopes) + 1] = binding
        /\ scopes'[Len(scopes) + 2] = b
        /\ \A i \in 1 .. Len(scopes) : scopes'[i] = scopes[i]
    BY <1>19, <2>1, PushTwo
  <2> QED
    BY <1>1, <2>2
<1>9. /\ lexical' \in Seq(TableScope) /\ Len(lexical') = L + 2
      /\ lexical'[L + 1] = binding /\ lexical'[L + 2] = None
      /\ \A i \in 1 .. L : lexical'[i] = lexical[i]
  BY <1>1, <1>4, <1>5, NoneType, PushTwo DEF TInv, Typed
<1>10. /\ Len(open') = Len(open) + 1 /\ open'[Len(open) + 1] = f
       /\ \A k \in 1 .. Len(open) : open'[k] = open[k]
  BY <1>2, <1>7, PushOne DEF TInv, Typed
<1>11. ScopesOfConstructs' /\ open' \in Seq(FrameType)
  BY <1>1, <1>2, <1>7, <1>9, PushConstruct
<1>12. Len(open') <= MaxDepth
  BY <1>1, <1>10, BoundsAssumption DEF OpenHeader
<1>13. made' \in Declarations /\ made' >= made
  BY <1>1, <1>3, BoundsAssumption DEF Declarations
<1>14. Typed'
  <2>1. UNCHANGED <<bases, globals, fields, deferred, functions>> /\ emitted' = {}
    BY DEF OpenHeader
  <2> QED
    BY <1>6, <1>8, <1>9, <1>11, <1>12, <1>13, <2>1 DEF Typed, TInv
<1>15. NothingOutside'
  <2>1. Len(open') # 0
    BY <1>1, <1>10
  <2>2. open' # <<>>
    BY <2>1, EmptySeq
  <2> QED
    BY <1>1, <2>2 DEF NothingOutside, OpenHeader, TInv
<1>16. TInv'
  BY <1>11, <1>14, <1>15 DEF TInv
<1> QED
  BY <1>1, <1>4, <1>5, <1>8, <1>9, <1>10, <1>13, <1>16 DEF f, b

\* A deferred expression is remembered with the variable it was analyzed with.
LEMMA DeferType ==
    ASSUME TInv, NEW n \in Names, Defer(n)
    PROVE  /\ TInv' /\ Len(deferred') = Len(deferred) + 1
           /\ deferred'[Len(deferred) + 1] =
                [name |-> n, meant |-> lookupSymbol(n), ended |-> FALSE]
           /\ \A i \in 1 .. Len(deferred) : deferred'[i] = deferred[i]
<1> DEFINE d == [name |-> n, meant |-> lookupSymbol(n), ended |-> FALSE]
<1>1. d \in DeferredType
  BY LookupType DEF DeferredType, lookupSymbol, TInv, Typed
<1>2. deferred' = Append(deferred, d)
  BY DEF Defer
<1> HIDE DEF d
<1>3. /\ deferred' \in Seq(DeferredType) /\ Len(deferred') = Len(deferred) + 1
      /\ deferred'[Len(deferred) + 1] = d
      /\ \A i \in 1 .. Len(deferred) : deferred'[i] = deferred[i]
  BY <1>1, <1>2, PushOne DEF TInv, Typed
<1>4. Len(deferred') <= MaxDefers
  BY <1>3, Facts, BoundsAssumption DEF Defer
<1>5. Typed'
  BY <1>3, <1>4 DEF Typed, TInv, Defer
<1>6. ScopesOfConstructs'
  BY DEF ScopesOfConstructs, End, TInv, Defer
<1>7. NothingOutside'
  BY DEF NothingOutside, TInv, Defer, InFunction
<1> QED
  BY <1>3, <1>5, <1>6, <1>7 DEF TInv, d

\* What a construct leaves in the generator's map.
LEMMA LeftType ==
    ASSUME TInv, NEW frame \in FrameType
    PROVE  Left(frame) \in TableScope
<1> SUFFICES ASSUME NEW n \in Names
             PROVE  (IF n \notin frame.binds THEN namedValues[n]
                     ELSE IF frame.kind \in {"foreach", "arm"} THEN 0
                     ELSE IF frame.kind = "catch" THEN frame.previous[n]
                     ELSE namedValues[n]) \in Declarations
  BY DEF Left, TableScope
<1>1. namedValues[n] \in Declarations /\ frame.previous[n] \in Declarations /\ 0 \in Declarations
  BY BoundsAssumption DEF TInv, Typed, TableScope, FrameType, Declarations
<1> QED
  BY <1>1

\* The end of a construct takes its scopes away and nothing else.
LEMMA CloseType ==
    ASSUME TInv, Close
    PROVE  /\ TInv' /\ Len(lexical') = Current.around /\ Len(lexical') < Len(lexical)
           /\ \A i \in 1 .. Len(lexical') : scopes'[i] = scopes[i] /\ lexical'[i] = lexical[i]
           /\ Len(open) > 1 /\ Len(open') = Len(open) - 1
           /\ \A k \in 1 .. Len(open') : open'[k] = open[k]
           /\ namedValues' = Left(Current) /\ Current \in FrameType
           /\ Len(deferred') = Len(deferred)
           /\ \A i \in 1 .. Len(deferred) :
                deferred'[i] = [deferred[i] EXCEPT !.ended = @ \/ i > Current.defers]
<1> DEFINE a == Current.around
           p == Len(open) - 1
<1>1. InFunction
  BY Facts DEF Close, InFunction
<1>2. /\ Current \in FrameType /\ a \in 1 .. Len(lexical) - 1
      /\ Len(lexical) - Entered(Current.kind) = a
      /\ Len(scopes) = Len(lexical) /\ Len(lexical) \in Nat
      /\ a \in 0 .. Len(scopes) /\ a \in 0 .. Len(lexical)
  <2>1. /\ Current \in FrameType /\ a \in 1 .. Len(lexical) - 1
        /\ Len(lexical) = a + Entered(Current.kind)
    BY <1>1, CurrentFacts
  <2>2. Len(scopes) = Len(lexical) /\ Len(lexical) \in Nat
    BY Facts
  <2>3. Entered(Current.kind) \in 1 .. 3
    BY EnteredType
  <2> HIDE DEF a
  <2> QED
    BY <2>1, <2>2, <2>3
<1>3. p \in 0 .. Len(open) /\ p \in Nat /\ Len(open) \in Nat /\ Len(open) > 1
  BY Facts DEF Close
<1>4. /\ scopes' = SubSeq(scopes, 1, a) /\ lexical' = SubSeq(lexical, 1, a)
      /\ open' = SubSeq(open, 1, p)
  BY <1>2 DEF Close, exitScopes
<1>5. /\ scopes' \in Seq(TableScope) /\ Len(scopes') = a
      /\ \A i \in 1 .. a : scopes'[i] = scopes[i]
  BY <1>2, <1>4, Prefix DEF TInv, Typed
<1>6. /\ lexical' \in Seq(TableScope) /\ Len(lexical') = a
      /\ \A i \in 1 .. a : lexical'[i] = lexical[i]
  BY <1>2, <1>4, Prefix DEF TInv, Typed
<1>7. /\ open' \in Seq(FrameType) /\ Len(open') = p
      /\ \A k \in 1 .. p : open'[k] = open[k]
  BY <1>3, <1>4, Prefix DEF TInv, Typed
<1>8. ScopesOfConstructs' /\ open' # <<>>
  BY <1>3, <1>6, <1>7, PopConstruct
<1>9. /\ Len(deferred') = Len(deferred) /\ deferred' \in Seq(DeferredType)
      /\ \A i \in 1 .. Len(deferred) :
           deferred'[i] = [deferred[i] EXCEPT !.ended = @ \/ i > Current.defers]
  <2> DEFINE d(i) == [deferred[i] EXCEPT !.ended = @ \/ i > Current.defers]
  <2>1. deferred' = [i \in 1 .. Len(deferred) |-> d(i)]
    BY Facts DEF Close
  <2>2. \A i \in 1 .. Len(deferred) : d(i) \in DeferredType
    BY Facts DEF DeferredType
  <2> HIDE DEF d
  <2>3. Len(deferred) \in Nat
    BY Facts
  <2>4. deferred' \in Seq(DeferredType) /\ Len(deferred') = Len(deferred)
    BY <2>1, <2>2, <2>3
  <2> QED
    BY <2>1, <2>4 DEF d
<1>10. namedValues' = Left(Current) /\ namedValues' \in TableScope
  BY <1>2, LeftType DEF Close
<1>11. emitted' \subseteq [meant : Declarations, given : Declarations, ended : BOOLEAN]
  <2>1. Current.defers \in Nat
    BY <1>2, BoundsAssumption DEF FrameType
  <2> QED
    BY <2>1, EmitsType DEF Close
<1>12. UNCHANGED <<bases, globals, fields, made, functions>>
  BY DEF Close
<1>13. Typed'
  <2>1. Len(open') <= MaxDepth
    BY <1>3, <1>7, BoundsAssumption DEF TInv, Typed
  <2>2. Len(deferred') <= MaxDefers
    BY <1>9 DEF TInv, Typed
  <2> HIDE DEF a, p
  <2> QED
    BY <1>5, <1>6, <1>7, <1>9, <1>10, <1>11, <1>12, <2>1, <2>2 DEF Typed, TInv
<1>14. NothingOutside'
  BY <1>1, <1>8, <1>12 DEF NothingOutside, TInv, InFunction
<1>15. TInv'
  BY <1>8, <1>13, <1>14 DEF TInv
<1> HIDE DEF a, p
<1> QED
  BY <1>2, <1>3, <1>5, <1>6, <1>7, <1>9, <1>10, <1>15 DEF a, p

\* A return or a throw changes nothing but what is generated.
LEMMA LeaveType ==
    ASSUME TInv, Leave
    PROVE  TInv'
<1>1. emitted' \subseteq [meant : Declarations, given : Declarations, ended : BOOLEAN]
  BY EmitsType DEF Leave
<1>2. Typed'
  BY <1>1 DEF Typed, TInv, Leave
<1>3. ScopesOfConstructs'
  BY DEF ScopesOfConstructs, End, TInv, Leave
<1>4. NothingOutside'
  BY DEF NothingOutside, TInv, Leave
<1> QED
  BY <1>2, <1>3, <1>4 DEF TInv

\* The end of a function leaves the global variables.
LEMMA EndFunctionType ==
    ASSUME TInv, EndFunction
    PROVE  /\ TInv' /\ Len(lexical') = 1 /\ open' = <<>>
           /\ scopes'[1] = scopes[1] /\ lexical'[1] = lexical[1]
<1>1. InFunction /\ Len(open) = 1
  BY Facts DEF EndFunction, InFunction
<1>2. Current.around = 1
  BY <1>1 DEF TInv, ScopesOfConstructs, Current, InFunction
<1>3. /\ Len(lexical) - Entered(Current.kind) = 1
      /\ Len(scopes) = Len(lexical)
      /\ 1 \in 0 .. Len(scopes) /\ 1 \in 0 .. Len(lexical)
  BY <1>1, <1>2, CurrentFacts, Facts, EnteredType
<1>4. /\ scopes' = SubSeq(scopes, 1, 1) /\ lexical' = SubSeq(lexical, 1, 1)
  BY <1>2, <1>3 DEF EndFunction, exitScopes
<1>5. /\ scopes' \in Seq(TableScope) /\ Len(scopes') = 1 /\ scopes'[1] = scopes[1]
  BY <1>3, <1>4, Prefix DEF TInv, Typed
<1>6. /\ lexical' \in Seq(TableScope) /\ Len(lexical') = 1 /\ lexical'[1] = lexical[1]
  BY <1>3, <1>4, Prefix DEF TInv, Typed
<1>7. /\ open' = <<>> /\ open' \in Seq(FrameType) /\ Len(open') = 0
      /\ deferred' = <<>> /\ deferred' \in Seq(DeferredType) /\ Len(deferred') = 0
  BY EmptySeq DEF EndFunction
<1>8. emitted' \subseteq [meant : Declarations, given : Declarations, ended : BOOLEAN]
  BY EmitsType DEF EndFunction
<1>9. fields' = None /\ bases' = None /\ UNCHANGED <<namedValues, globals, made, functions>>
  BY DEF EndFunction
<1>10. Typed'
  BY <1>5, <1>6, <1>7, <1>8, <1>9, NoneType, BoundsAssumption DEF Typed, TInv
<1>11. ScopesOfConstructs'
  BY <1>6, <1>7 DEF ScopesOfConstructs
<1>12. NothingOutside'
  BY <1>7, <1>9 DEF NothingOutside
<1> QED
  BY <1>5, <1>6, <1>7, <1>10, <1>11, <1>12 DEF TInv

\* The compiler starts with the scope of the global variables.
LEMMA InitType == Init => TInv
<1> SUFFICES ASSUME Init PROVE TInv
  OBVIOUS
<1>1. scopes = <<None>> /\ lexical = <<None>> /\ open = <<>> /\ deferred = <<>>
  BY DEF Init
<1>2. scopes \in Seq(TableScope) /\ lexical \in Seq(TableScope)
      /\ Len(scopes) = 1 /\ Len(lexical) = 1
  BY <1>1, NoneType
<1>3. open \in Seq(FrameType) /\ Len(open) = 0 /\ deferred \in Seq(DeferredType)
      /\ Len(deferred) = 0
  BY <1>1, EmptySeq
<1>4. Typed
  BY <1>2, <1>3, NoneType, BoundsAssumption DEF Init, Typed, Declarations
<1>5. ScopesOfConstructs
  BY <1>1, <1>2, <1>3 DEF ScopesOfConstructs
<1>6. NothingOutside
  BY DEF Init, NothingOutside
<1> QED
  BY <1>4, <1>5, <1>6 DEF TInv

\* Nothing is done.
LEMMA StutterType ==
    ASSUME TInv, UNCHANGED vars
    PROVE  TInv'
BY DEF TInv, vars, Typed, ScopesOfConstructs, NothingOutside, End

\* The types are kept.
LEMMA TypeStep == TInv /\ [Next]_vars => TInv'
<1> SUFFICES ASSUME TInv, [Next]_vars PROVE TInv'
  OBVIOUS
<1>1. CASE \E n \in Names : DeclareGlobal(n)
  BY <1>1, DeclareGlobalType
<1>2. CASE \E names \in SUBSET Names : OpenFunction(names)
  BY <1>2, OpenFunctionType
<1>3. CASE \E own, inherited, names \in SUBSET Names : OpenMethod(own, inherited, names)
  BY <1>3, OpenMethodType
<1>4. CASE \E n \in Names : Declare(n)
  BY <1>4, DeclareType
<1>5. CASE OpenBlock
  BY <1>5, OpenBlockType
<1>6. CASE \E kind \in DOMAIN Headers, names \in SUBSET Names : OpenHeader(kind, names)
  BY <1>6, OpenHeaderType
<1>7. CASE \E n \in Names : Defer(n)
  BY <1>7, DeferType
<1>8. CASE Close
  BY <1>8, CloseType
<1>9. CASE Leave
  BY <1>9, LeaveType
<1>10. CASE EndFunction
  BY <1>10, EndFunctionType
<1>11. CASE UNCHANGED vars
  BY <1>11, StutterType
<1> QED
  BY <1>1, <1>2, <1>3, <1>4, <1>5, <1>6, <1>7, <1>8, <1>9, <1>10, <1>11 DEF Next

\* What the types say.
LEMMA TypeOfState == TInv => TypeOK
<1> SUFFICES ASSUME TInv PROVE TypeOK
  OBVIOUS
<1>1. Len(scopes) = 1 <=> open = <<>>
  BY Facts DEF TInv, ScopesOfConstructs
<1>2. \A use \in emitted : {use.meant, use.given} \subseteq Declarations
  BY DEF TInv, Typed
<1> QED
  BY <1>1, <1>2 DEF TInv, Typed, TypeOK, TableScope

\* Every table has declarations only, and the scopes outside of functions are
\* those of the global variables alone.
THEOREM TypeCorrect == Spec => []TypeOK
<1>1. Spec => []TInv
  BY InitType, TypeStep, PTL DEF Spec
<1> QED
  BY <1>1, TypeOfState, PTL

-----------------------------------------------------------------------------
(* The analyzer's tables have what the language's have *)

\* What a scope of the analyzer's has is what the language says of a name
\* there; a base class's field is seen in every scope of the method, and no
\* scope of a body has a global variable or a field of the method's own class.
Level(i) ==
  \A n \in Names :
    /\ scopes[i][n] # 0 => scopes[i][n] = From(lexical, i, n)
    /\ lexical[i][n] # 0 => scopes[i][n] # 0
    /\ i >= 2 /\ bases[n] # 0 => From(lexical, i, n) = bases[n]
    /\ i >= 3 /\ scopes[i][n] # 0 =>
         \/ scopes[i][n] = bases[n]
         \/ scopes[i][n] # globals[n] /\ scopes[i][n] # fields[n]

\* The global variables and the fields, and their numbers.
Outer ==
  /\ scopes[1] = globals /\ lexical[1] = globals
  /\ \A n \in Names : globals[n] <= made /\ fields[n] <= made
  /\ \A n \in Names : globals[n] # 0 => fields[n] = 0
  /\ \A n \in Names : bases[n] # 0 => bases[n] = fields[n]

FInv == TInv /\ Outer /\ \A i \in 1 .. Len(lexical) : Level(i)

\* A scope that stays, behind those that stay, is as it was.
LEMMA LevelKept ==
    ASSUME NEW i \in Nat, Level(i), scopes'[i] = scopes[i], lexical'[i] = lexical[i],
           \A j \in 1 .. i : lexical'[j] = lexical[j],
           UNCHANGED <<bases, globals, fields>>
    PROVE  Level(i)'
<1>1. \A n \in Names : From(lexical', i, n) = From(lexical, i, n)
  BY FromSame
<1> QED
  BY <1>1 DEF Level

\* With the same scopes both lookups find the same.
LEMMA LevelsFind ==
    ASSUME FInv, NEW n \in Names
    PROVE  /\ lookupSymbol(n) = From(scopes, Len(lexical), n)
           /\ Meant(n) = From(lexical, Len(lexical), n)
           /\ lookupSymbol(n) = Meant(n)
<1> DEFINE L == Len(lexical)
<1>1. L \in Nat /\ Len(scopes) = L
  BY Facts DEF FInv
<1>2. lookupSymbol(n) = From(scopes, L, n) /\ Meant(n) = From(lexical, L, n)
  BY <1>1, InnermostFrom DEF FInv, TInv, Typed, lookupSymbol, Meant
<1>3. CASE \A j \in 1 .. L : lexical[j][n] = 0
  <2>1. ASSUME NEW j \in 1 .. L PROVE scopes[j][n] = 0
    <3>1. \A k \in 1 .. j : lexical[k][n] = 0
      BY <1>1, <1>3
    <3>2. From(lexical, j, n) = 0
      BY <3>1, FromNone
    <3> QED
      BY <3>2 DEF FInv, Level
  <2> QED
    BY <1>1, <1>2, <1>3, <2>1, FromNone
<1>4. CASE ~ \A j \in 1 .. L : lexical[j][n] = 0
  <2>1. PICK j \in 1 .. L : /\ lexical[j][n] # 0 /\ From(lexical, L, n) = lexical[j][n]
                            /\ \A k \in 1 .. L : lexical[k][n] # 0 => k <= j
    BY <1>1, <1>4, FromFound
  <2>2. scopes[j][n] # 0
    BY <2>1 DEF FInv, Level
  <2>3. PICK k \in 1 .. L : /\ scopes[k][n] # 0 /\ From(scopes, L, n) = scopes[k][n]
                            /\ \A m \in 1 .. L : scopes[m][n] # 0 => m <= k
    BY <1>1, <2>2, FromFound
  <2>4. j <= k /\ j \in 1 .. k /\ k \in Nat
    BY <1>1, <2>2, <2>3
  <2>5. \A m \in j + 1 .. k : lexical[m][n] = 0
    BY <1>1, <2>1, <2>4
  <2>6. From(lexical, k, n) = lexical[j][n]
    BY <2>1, <2>4, <2>5, FromLast
  <2>7. scopes[k][n] = From(lexical, k, n)
    BY <2>3 DEF FInv, Level
  <2> QED
    BY <1>2, <2>1, <2>3, <2>6, <2>7
<1> QED
  BY <1>2, <1>3, <1>4

\* The analyzer's and the language's scopes of a global variable.
LEMMA DeclareGlobalFound ==
    ASSUME FInv, NEW n \in Names, DeclareGlobal(n)
    PROVE  FInv'
<1>1. /\ TInv' /\ Len(lexical) = 1 /\ open = <<>> /\ Len(lexical') = 1
      /\ \A m \in Names :
           /\ scopes'[1][m] = IF m = n /\ scopes[1][n] = 0 THEN made + 1 ELSE scopes[1][m]
           /\ lexical'[1][m] = IF m = n THEN made + 1 ELSE lexical[1][m]
  BY DeclareGlobalType DEF FInv
<1>2. /\ scopes[1] = globals /\ lexical[1] = globals /\ globals[n] = 0
      /\ globals' = [globals EXCEPT ![n] = made + 1] /\ made' = made + 1
      /\ fields = None /\ bases = None /\ fields' = None /\ bases' = None
  BY <1>1 DEF FInv, Outer, DeclareGlobal, TInv, NothingOutside
<1>3. /\ scopes'[1] \in TableScope /\ lexical'[1] \in TableScope /\ made \in Nat
      /\ globals \in TableScope /\ globals' \in TableScope
  <2>1. Len(scopes') = 1
    BY <1>1 DEF TInv, Typed
  <2>2. made \in Nat
    BY Facts DEF FInv
  <2>3. /\ scopes' \in Seq(TableScope) /\ lexical' \in Seq(TableScope)
        /\ globals \in TableScope /\ globals' \in TableScope
    BY <1>1 DEF FInv, TInv, Typed
  <2>4. scopes'[1] \in TableScope /\ lexical'[1] \in TableScope
    BY <1>1, <2>1, <2>3, ElementOfSeq
  <2> QED
    BY <2>2, <2>3, <2>4
<1>4. \A m \in Names : /\ globals'[m] = IF m = n THEN made + 1 ELSE globals[m]
                       /\ scopes'[1][m] = globals'[m] /\ lexical'[1][m] = globals'[m]
  BY <1>1, <1>2, <1>3 DEF TableScope
<1>5. scopes'[1] = globals' /\ lexical'[1] = globals'
  BY <1>3, <1>4 DEF TableScope
<1>6. Outer'
  <2>1. \A m \in Names : globals[m] <= made
    BY DEF FInv, Outer
  <2>2. \A m \in Names : globals[m] \in Nat
    BY <1>3, BoundsAssumption DEF TableScope, Declarations
  <2>3. \A m \in Names : globals'[m] <= made' /\ fields'[m] <= made'
    BY <1>2, <1>3, <1>4, <2>1, <2>2 DEF None
  <2>4. \A m \in Names : fields'[m] = 0 /\ bases'[m] = 0
    BY <1>2 DEF None
  <2> QED
    BY <1>5, <2>3, <2>4 DEF Outer
<1>7. Level(1)'
  <2>1. \A m \in Names : lexical'[1][m] # 0 => From(lexical', 1, m) = lexical'[1][m]
    BY FromTop
  <2> QED
    BY <1>5, <2>1 DEF Level
<1> QED
  BY <1>1, <1>6, <1>7 DEF FInv

\* The tables inside of a function, whose parameters are declared after every
\* global variable.
LEMMA OpenFunctionFound ==
    ASSUME FInv, NEW names \in SUBSET Names, OpenFunction(names)
    PROVE  FInv'
<1>1. /\ TInv' /\ Len(lexical) = 1 /\ Len(lexical') = 3
      /\ made' = made + Cardinality(names) /\ Cardinality(names) \in Nat
      /\ scopes'[1] = scopes[1] /\ lexical'[1] = lexical[1]
  BY OpenFunctionType DEF FInv
<1>2. PICK params \in Bindings(names, made) :
        /\ params \in TableScope /\ namedValues' = params
        /\ scopes'[2] = params /\ scopes'[3] = BlockScope(params, None)
        /\ lexical'[2] = params /\ lexical'[3] = None
  BY OpenFunctionType DEF FInv
<1>3. /\ globals' = globals /\ fields' = None /\ bases' = None /\ made \in Nat
      /\ globals \in TableScope
      /\ \A n \in Names : fields'[n] = 0 /\ bases'[n] = 0 /\ None[n] = 0
  BY Facts DEF OpenFunction, FInv, None, TInv, Typed
<1>4. \A n \in Names : params[n] # 0 => params[n] > made
  BY <1>1, <1>3, BindingsType DEF OpenFunction
<1>5. scopes[1] = globals /\ lexical[1] = globals
      /\ \A n \in Names : globals[n] <= made /\ globals[n] \in Nat
  BY <1>3, BoundsAssumption DEF FInv, Outer, TableScope, Declarations
<1>6. Outer'
  BY <1>1, <1>3, <1>5 DEF Outer
<1>7. \A n \in Names : params[n] \in Nat /\ params[n] # 0 => params[n] # globals[n]
  BY <1>2, <1>3, <1>4, <1>5
<1>8. \A n \in Names : params[n] \in Nat
  BY <1>2, BoundsAssumption DEF TableScope, Declarations
<1>9. \A n \in Names : BlockScope(params, None)[n] = params[n]
  BY <1>2, <1>3, NoneType, BehindType DEF BlockScope
<1>10. Level(1)'
  <2>1. \A n \in Names : lexical'[1][n] # 0 => From(lexical', 1, n) = lexical'[1][n]
    BY FromTop
  <2> QED
    BY <1>1, <1>5, <2>1 DEF Level
<1>11. Level(2)'
  <2>1. \A n \in Names : lexical'[2][n] # 0 => From(lexical', 2, n) = lexical'[2][n]
    BY FromTop
  <2> QED
    BY <1>2, <1>3, <2>1 DEF Level
<1>12. Level(3)'
  <2>1. ASSUME NEW n \in Names, params[n] # 0 PROVE From(lexical', 3, n) = params[n]
    <3>1. \A k \in 2 + 1 .. 3 : lexical'[k][n] = 0
      BY <1>2, <1>3
    <3>2. lexical'[2][n] # 0 /\ 2 \in 1 .. 3 /\ 3 \in Nat
      BY <1>2, <2>1
    <3>3. From(lexical', 3, n) = lexical'[2][n]
      BY <3>1, <3>2, FromLast
    <3> QED
      BY <1>2, <3>3
  <2> QED
    BY <1>2, <1>3, <1>7, <1>8, <1>9, <2>1 DEF Level
<1>13. \A i \in 1 .. Len(lexical') : i = 1 \/ i = 2 \/ i = 3
  BY <1>1
<1> QED
  BY <1>1, <1>6, <1>10, <1>11, <1>12, <1>13 DEF FInv

\* The tables inside of a method.
LEMMA OpenMethodFound ==
    ASSUME FInv, NEW own \in SUBSET Names, NEW inherited \in SUBSET Names,
           NEW names \in SUBSET Names, OpenMethod(own, inherited, names)
    PROVE  FInv'
<1>1. /\ TInv' /\ Len(lexical) = 1 /\ Len(lexical') = 4
      /\ scopes'[1] = scopes[1] /\ lexical'[1] = lexical[1]
  BY OpenMethodType DEF FInv
<1>21. PICK k \in Nat : \E members \in Bindings(own \cup inherited, made) :
         \E params \in Bindings(names, k) : \E base \in TableScope :
            MethodTables(inherited, names, k, members, params, base)
  BY OpenMethodType DEF FInv
<1>2. PICK members \in Bindings(own \cup inherited, made),
           params \in Bindings(names, k), base \in TableScope :
        MethodTables(inherited, names, k, members, params, base)
  BY <1>21
<1>3. /\ k >= made /\ k + Cardinality(names) = made' /\ made' <= MaxDeclarations
      /\ \A n \in Names : members[n] # 0 => members[n] <= k
      /\ \A n \in Names : base[n] = (IF n \in inherited THEN members[n] ELSE 0)
      /\ members \in TableScope /\ params \in TableScope
      /\ namedValues' = params /\ fields' = members /\ bases' = base
      /\ scopes'[2] = members /\ scopes'[3] = params
      /\ scopes'[4] = BlockScope(params, base)
      /\ lexical'[2] = members /\ lexical'[3] = params /\ lexical'[4] = None
  BY <1>2 DEF MethodTables
<1>4. /\ globals' = globals /\ made \in Nat /\ globals \in TableScope
      /\ inherited \cap names = {}
      /\ \A n \in own \cup inherited : Fresh(n)
      /\ \A n \in Names : None[n] = 0
  BY Facts DEF OpenMethod, FInv, None, TInv, Typed
<1>5. Cardinality(names) \in Nat
  BY Count
<1>6. \A n \in Names : /\ members[n] # 0 <=> n \in own \cup inherited
                       /\ params[n] # 0 <=> n \in names
                       /\ params[n] # 0 => params[n] > k
  <2>1. \A n \in Names : /\ params[n] # 0 <=> n \in names
                         /\ params[n] # 0 => params[n] > k
    BY <1>3, BindingsType
  <2>2. \A n \in Names : members[n] # 0 <=> n \in own \cup inherited
    BY DEF Bindings
  <2> QED
    BY <2>1, <2>2
<1>7. scopes[1] = globals /\ lexical[1] = globals
      /\ \A n \in Names : /\ globals[n] <= made /\ globals[n] \in Nat
                          /\ members[n] \in Nat /\ params[n] \in Nat /\ base[n] \in Nat
  BY <1>3, <1>4, BoundsAssumption DEF FInv, Outer, TableScope, Declarations
<1>8. ASSUME NEW n \in Names, members[n] # 0
      PROVE  globals[n] = 0
  <2>1. Meant(n) = 0
    BY <1>4, <1>6, <1>8 DEF Fresh
  <2>2. From(lexical, 1, n) = 0
    BY <1>1, <2>1, LevelsFind
  <2> QED
    BY <1>7, <2>2, FromNone
<1>9. /\ \A n \in Names : params[n] # 0 => params[n] # globals[n] /\ params[n] # members[n]
      /\ \A n \in Names : members[n] <= k
  <2>1. ASSUME NEW n \in Names PROVE members[n] <= k
    <3>1. members[n] \in Nat /\ k \in Nat
      BY <1>7
    <3> QED
      BY <1>3, <3>1
  <2>2. ASSUME NEW n \in Names, params[n] # 0
        PROVE  params[n] # globals[n] /\ params[n] # members[n]
    <3>1. params[n] > k /\ k >= made
      BY <1>3, <1>6, <2>2
    <3> QED
      BY <1>4, <1>7, <2>1, <3>1
  <2> QED
    BY <2>1, <2>2
<1>10. Outer'
  <2>1. made' \in Nat /\ k <= made' /\ made <= made'
    BY <1>3, <1>4, <1>5
  <2>2. \A n \in Names : globals'[n] <= made' /\ fields'[n] <= made'
    BY <1>3, <1>4, <1>7, <1>9, <2>1
  <2>3. \A n \in Names : globals'[n] # 0 => fields'[n] = 0
    BY <1>3, <1>4, <1>8
  <2>4. \A n \in Names : bases'[n] # 0 => bases'[n] = fields'[n]
    BY <1>3
  <2> QED
    BY <1>1, <1>4, <1>7, <2>2, <2>3, <2>4 DEF Outer
<1>11. \A n \in Names : BlockScope(params, base)[n] = IF params[n] = 0 THEN base[n] ELSE params[n]
  BY <1>3, BehindType DEF BlockScope
<1>12. Level(1)'
  <2>1. \A n \in Names : lexical'[1][n] # 0 => From(lexical', 1, n) = lexical'[1][n]
    BY FromTop
  <2> QED
    BY <1>1, <1>7, <2>1 DEF Level
<1>13. \A n \in Names : members[n] # 0 => From(lexical', 2, n) = members[n]
  <2>1. \A n \in Names : lexical'[2][n] # 0 => From(lexical', 2, n) = lexical'[2][n]
    BY FromTop
  <2> QED
    BY <1>3, <2>1
<1>14. Level(2)'
  BY <1>3, <1>13 DEF Level
<1>15. \A n \in Names : params[n] # 0 => From(lexical', 3, n) = params[n]
  <2>1. \A n \in Names : lexical'[3][n] # 0 => From(lexical', 3, n) = lexical'[3][n]
    BY FromTop
  <2> QED
    BY <1>3, <2>1
<1>16. ASSUME NEW n \in Names, base[n] # 0
       PROVE  /\ From(lexical', 3, n) = base[n] /\ params[n] = 0
  <2>1. params[n] = 0 /\ members[n] = base[n]
    BY <1>3, <1>4, <1>6, <1>16
  <2>2. From(lexical', 3, n) = From(lexical', 2, n)
    BY <1>3, <2>1, FromStep
  <2> QED
    BY <1>13, <1>16, <2>1, <2>2
<1>17. Level(3)'
  BY <1>3, <1>4, <1>9, <1>15, <1>16 DEF Level
<1>18. \A n \in Names : From(lexical', 4, n) = From(lexical', 3, n)
  <2>1. \A n \in Names : lexical'[4][n] = 0
    BY <1>3, <1>4
  <2> QED
    BY <2>1, FromStep
<1>19. Level(4)'
  BY <1>3, <1>4, <1>9, <1>11, <1>15, <1>16, <1>18 DEF Level
<1>20. \A i \in 1 .. Len(lexical') : i = 1 \/ i = 2 \/ i = 3 \/ i = 4
  BY <1>1
<1> QED
  BY <1>1, <1>10, <1>12, <1>14, <1>17, <1>19, <1>20 DEF FInv

\* A name that a body declares is not in the body's own scope before.
LEMMA DeclaredIsNew ==
    ASSUME ~Hiding, FInv, InFunction, NEW n \in Names, MayDeclare(n)
    PROVE  scopes[Len(lexical)][n] = 0
<1> DEFINE L == Len(lexical)
<1>1. L \in 1 .. Len(lexical) /\ L >= 3
  BY Facts, CurrentFacts DEF FInv
<1>2. Level(L)
  BY <1>1 DEF FInv
<1>3. CASE Fresh(n)
  <2>1. From(lexical, L, n) = 0
    BY <1>3, LevelsFind DEF Fresh
  <2> QED
    BY <1>2, <2>1 DEF Level
<1>4. CASE Outside(n)
  <2>1. From(lexical, L, n) \in {globals[n], fields[n]} /\ bases[n] = 0
    BY <1>4, LevelsFind DEF Outside
  <2> QED
    BY <1>1, <1>2, <2>1 DEF Level
<1> QED
  BY <1>3, <1>4 DEF MayDeclare

\* A declaration in a body.
LEMMA DeclareFound ==
    ASSUME ~Hiding, FInv, NEW n \in Names, Declare(n)
    PROVE  FInv'
<1>0. PICK L \in Nat : L = Len(lexical)
  BY Facts DEF FInv
<1>1. /\ TInv' /\ Len(lexical') = L /\ L >= 3 /\ L = Len(lexical) /\ made \in Nat
      /\ \A i \in 1 .. L - 1 : scopes'[i] = scopes[i] /\ lexical'[i] = lexical[i]
      /\ \A m \in Names :
           /\ scopes'[L][m] = IF m = n /\ scopes[L][n] = 0 THEN made + 1 ELSE scopes[L][m]
           /\ lexical'[L][m] = IF m = n THEN made + 1 ELSE lexical[L][m]
  BY <1>0, Facts, DeclareType DEF FInv
<1>2. scopes[L][n] = 0
  BY <1>0, DeclaredIsNew DEF Declare
<1>3. UNCHANGED <<bases, globals, fields>> /\ made' = made + 1
  BY DEF Declare
<1>4. \A m \in Names : globals[m] <= made /\ fields[m] <= made
                       /\ globals[m] \in Nat /\ fields[m] \in Nat
  BY BoundsAssumption DEF FInv, Outer, TInv, Typed, TableScope, Declarations
<1>5. Outer'
  <2>1. \A m \in Names : globals'[m] <= made' /\ fields'[m] <= made'
    BY <1>1, <1>3, <1>4
  <2>2. scopes'[1] = scopes[1] /\ lexical'[1] = lexical[1]
    BY <1>1
  <2> QED
    BY <1>3, <2>1, <2>2 DEF Outer, FInv
<1>6. ASSUME NEW i \in 1 .. L - 1 PROVE Level(i)'
  <2>1. /\ Level(i) /\ i \in Nat /\ scopes'[i] = scopes[i] /\ lexical'[i] = lexical[i]
        /\ \A j \in 1 .. i : lexical'[j] = lexical[j]
    BY <1>1 DEF FInv
  <2> QED
    BY <1>3, <2>1, LevelKept
<1>7. Level(L)'
  <2>1. Level(L)
    BY <1>1 DEF FInv
  <2>2. ASSUME NEW m \in Names, m # n
        PROVE  /\ From(lexical', L, m) = From(lexical, L, m)
               /\ scopes'[L][m] = scopes[L][m] /\ lexical'[L][m] = lexical[L][m]
    <3>1. \A j \in 1 .. L : lexical'[j][m] = lexical[j][m]
      BY <1>1, <2>2
    <3> QED
      BY <1>1, <2>2, <3>1, FromSame
  <2>3. /\ From(lexical', L, n) = made + 1 /\ scopes'[L][n] = made + 1
        /\ lexical'[L][n] = made + 1
    <3>1. lexical'[L][n] = made + 1 /\ made + 1 # 0
      BY <1>1
    <3>2. From(lexical', L, n) = lexical'[L][n]
      BY <1>1, <3>1, FromTop
    <3> QED
      BY <1>1, <1>2, <3>1, <3>2
  <2>4. bases[n] = 0
    <3>1. CASE Fresh(n)
      <4>1. From(lexical, L, n) = 0
        BY <1>0, <3>1, LevelsFind DEF Fresh
      <4> QED
        BY <1>1, <2>1, <4>1 DEF Level
    <3>2. CASE Outside(n)
      BY <3>2 DEF Outside
    <3> QED
      BY <3>1, <3>2 DEF Declare, MayDeclare
  <2>5. made + 1 # globals[n] /\ made + 1 # fields[n]
    BY <1>1, <1>4
  <2> QED
    BY <1>3, <2>1, <2>2, <2>3, <2>4, <2>5 DEF Level
<1>8. \A i \in 1 .. L : i \in 1 .. L - 1 \/ i = L
  BY <1>1
<1> QED
  BY <1>1, <1>5, <1>6, <1>7, <1>8 DEF FInv

\* A block's scope starts with copies.
LEMMA OpenBlockFound ==
    ASSUME FInv, OpenBlock
    PROVE  FInv'
<1>0. PICK L \in Nat : L = Len(lexical)
  BY Facts DEF FInv
<1>1. /\ TInv' /\ Len(lexical') = L + 1 /\ L >= 3 /\ L = Len(lexical)
      /\ \A i \in 1 .. L : scopes'[i] = scopes[i] /\ lexical'[i] = lexical[i]
      /\ scopes'[L + 1] = BlockScope(scopes[L], bases)
      /\ lexical'[L + 1] = None
      /\ scopes[L] \in TableScope /\ bases \in TableScope
  <2>1. TInv /\ bases \in TableScope
    BY DEF FInv, TInv, Typed
  <2>2. L >= 3
    BY <1>0, <2>1, OpenBlockType
  <2>3. scopes[L] \in TableScope
    <3>1. L \in 1 .. Len(lexical)
      BY <1>0, <2>2
    <3> QED
      BY <2>1, <3>1, Facts
  <2>4. /\ TInv' /\ Len(lexical') = L + 1
        /\ \A i \in 1 .. L : scopes'[i] = scopes[i] /\ lexical'[i] = lexical[i]
        /\ scopes'[L + 1] = BlockScope(scopes[L], bases) /\ lexical'[L + 1] = None
    BY <1>0, <2>1, OpenBlockType
  <2> QED
    BY <1>0, <2>1, <2>2, <2>3, <2>4
<1>2. UNCHANGED <<bases, globals, fields, made>>
  BY DEF OpenBlock
<1>3. Outer'
  <2>1. scopes'[1] = scopes[1] /\ lexical'[1] = lexical[1]
    BY <1>1
  <2> QED
    BY <1>2, <2>1 DEF Outer, FInv
<1>4. ASSUME NEW i \in 1 .. L PROVE Level(i)'
  <2>1. /\ Level(i) /\ i \in Nat /\ scopes'[i] = scopes[i] /\ lexical'[i] = lexical[i]
        /\ \A j \in 1 .. i : lexical'[j] = lexical[j]
    BY <1>1 DEF FInv
  <2> QED
    BY <1>2, <2>1, LevelKept
<1>5. Level(L + 1)'
  <2>1. Level(L)
    BY <1>1 DEF FInv
  <2>2. \A n \in Names : lexical'[L + 1][n] = 0
    BY <1>1 DEF None
  <2>3. \A n \in Names : scopes'[L + 1][n] = IF scopes[L][n] = 0 THEN bases[n] ELSE scopes[L][n]
    BY <1>1, BehindType DEF BlockScope
  <2>4. ASSUME NEW n \in Names PROVE From(lexical', L + 1, n) = From(lexical, L, n)
    <3>1. From(lexical', L + 1, n) = From(lexical', L, n)
      <4>1. L + 1 \in Nat \ {0} /\ (L + 1) - 1 = L
        BY <1>1
      <4> QED
        BY <2>2, <4>1, FromStep
    <3>2. From(lexical', L, n) = From(lexical, L, n)
      <4>1. \A i \in 1 .. L : lexical'[i][n] = lexical[i][n]
        BY <1>1
      <4> QED
        BY <4>1, FromSame
    <3> QED
      BY <3>1, <3>2
  <2>5. L >= 2 /\ L >= 3
    BY <1>1
  <2> QED
    BY <1>2, <2>1, <2>2, <2>3, <2>4, <2>5 DEF Level
<1>6. \A i \in 1 .. L + 1 : i \in 1 .. L \/ i = L + 1
  BY <1>1
<1> QED
  BY <1>1, <1>3, <1>4, <1>5, <1>6 DEF FInv

\* A base class's field is not hidden.
LEMMA BaseIsNotHidden ==
    ASSUME ~Hiding, FInv, InFunction, NEW kind, NEW n \in Names, MayBind(kind, n)
    PROVE  bases[n] = 0
<1>0. PICK L \in Nat : L = Len(lexical)
  BY Facts DEF FInv
<1>1. L \in 1 .. Len(lexical) /\ L >= 2
  BY <1>0, Facts, CurrentFacts DEF FInv
<1>2. CASE Fresh(n)
  <2>1. From(lexical, L, n) = 0
    BY <1>0, <1>2, LevelsFind DEF Fresh
  <2>2. Level(L)
    BY <1>1 DEF FInv
  <2> QED
    BY <1>1, <2>1, <2>2 DEF Level
<1> QED
  BY <1>2 DEF MayBind, Outside

\* A statement's header has a scope, and its body another one.
LEMMA OpenHeaderFound ==
    ASSUME ~Hiding, FInv, NEW kind \in DOMAIN Headers, NEW names \in SUBSET Names,
           OpenHeader(kind, names)
    PROVE  FInv'
<1>0. PICK L \in Nat : L = Len(lexical)
  BY Facts DEF FInv
<1>1. /\ TInv' /\ Len(lexical') = L + 2 /\ L >= 3 /\ L = Len(lexical)
      /\ \A i \in 1 .. L : scopes'[i] = scopes[i] /\ lexical'[i] = lexical[i]
      /\ made' >= made /\ made \in Nat /\ bases \in TableScope
  BY <1>0, Facts, OpenHeaderType DEF FInv, TInv, Typed
<1>2. PICK binding \in Bindings(names, made) :
        /\ binding \in TableScope
        /\ \A n \in Names : /\ binding[n] # 0 <=> n \in names
                            /\ binding[n] # 0 => binding[n] > made
        /\ scopes'[L + 1] = binding
        /\ scopes'[L + 2] = BlockScope(binding, bases)
        /\ lexical'[L + 1] = binding
        /\ lexical'[L + 2] = None
  BY <1>0, OpenHeaderType DEF FInv
<1>3. UNCHANGED <<bases, globals, fields>>
  BY DEF OpenHeader
<1>4. \A n \in Names : /\ globals[n] <= made /\ fields[n] <= made
                       /\ globals[n] \in Nat /\ fields[n] \in Nat /\ binding[n] \in Nat
                       /\ None[n] = 0
  BY <1>2, BoundsAssumption DEF FInv, Outer, TInv, Typed, TableScope, Declarations, None
<1>5. Outer'
  <2>1. scopes'[1] = scopes[1] /\ lexical'[1] = lexical[1]
    BY <1>1
  <2>2. made' \in Nat
    BY <1>1, Facts, BoundsAssumption DEF TInv, Typed, Declarations
  <2>3. \A n \in Names : globals'[n] <= made' /\ fields'[n] <= made'
    BY <1>1, <1>3, <1>4, <2>2
  <2> QED
    BY <1>3, <2>1, <2>3 DEF Outer, FInv
<1>6. ASSUME NEW i \in 1 .. L PROVE Level(i)'
  <2>1. /\ Level(i) /\ i \in Nat /\ scopes'[i] = scopes[i] /\ lexical'[i] = lexical[i]
        /\ \A j \in 1 .. i : lexical'[j] = lexical[j]
    BY <1>1 DEF FInv
  <2> QED
    BY <1>3, <2>1, LevelKept
<1>7. Level(L)
  BY <1>1 DEF FInv
<1>8. \A n \in Names : binding[n] # 0 =>
         /\ bases[n] = 0 /\ binding[n] # globals[n] /\ binding[n] # fields[n]
  <2>1. ASSUME NEW n \in Names, binding[n] # 0 PROVE bases[n] = 0
    <3>1. n \in names
      BY <1>2, <2>1
    <3>2. MayBind(kind, n) /\ InFunction
      BY <3>1 DEF OpenHeader
    <3> QED
      BY <3>2, BaseIsNotHidden
  <2>2. ASSUME NEW n \in Names, binding[n] # 0
        PROVE  binding[n] # globals[n] /\ binding[n] # fields[n]
    <3>1. binding[n] > made
      BY <1>2, <2>2
    <3> QED
      BY <1>1, <1>4, <3>1
  <2> QED
    BY <2>1, <2>2
<1>9. ASSUME NEW n \in Names
      PROVE  From(lexical', L + 1, n) = IF binding[n] # 0 THEN binding[n] ELSE From(lexical, L, n)
  <2>1. L + 1 \in Nat \ {0} /\ (L + 1) - 1 = L
    BY <1>1
  <2>2. From(lexical', L, n) = From(lexical, L, n)
    <3>1. \A i \in 1 .. L : lexical'[i][n] = lexical[i][n]
      BY <1>1
    <3> QED
      BY <3>1, FromSame
  <2>3. From(lexical', L + 1, n) =
          IF lexical'[L + 1][n] # 0 THEN lexical'[L + 1][n] ELSE From(lexical', (L + 1) - 1, n)
    BY <2>1, FromStep
  <2> QED
    BY <1>2, <2>1, <2>2, <2>3
<1>10. ASSUME NEW n \in Names
       PROVE  From(lexical', L + 2, n) = From(lexical', L + 1, n)
  <2>1. L + 2 \in Nat \ {0} /\ (L + 2) - 1 = L + 1
    BY <1>1
  <2>2. lexical'[L + 2][n] = 0
    BY <1>2, <1>4
  <2>3. From(lexical', L + 2, n) = From(lexical', (L + 2) - 1, n)
    BY <2>1, <2>2, FromStep
  <2> QED
    BY <2>1, <2>3
<1>11. L >= 2 /\ L >= 3
  BY <1>1
<1>12. Level(L + 1)'
  BY <1>2, <1>3, <1>7, <1>8, <1>9, <1>11 DEF Level
<1>13. Level(L + 2)'
  <2>1. \A n \in Names : scopes'[L + 2][n] = IF binding[n] = 0 THEN bases[n] ELSE binding[n]
    BY <1>1, <1>2, BehindType DEF BlockScope
  <2> QED
    BY <1>2, <1>3, <1>4, <1>7, <1>8, <1>9, <1>10, <1>11, <2>1 DEF Level
<1>14. \A i \in 1 .. L + 2 : i \in 1 .. L \/ i = L + 1 \/ i = L + 2
  BY <1>1
<1> QED
  BY <1>1, <1>5, <1>6, <1>12, <1>13, <1>14 DEF FInv

\* The tables are as they were before a construct that has ended.
LEMMA CloseFound ==
    ASSUME FInv, Close
    PROVE  FInv'
<1>0. PICK L \in Nat : L = Len(lexical')
  BY CloseType, Facts, LenProperties DEF FInv, TInv, Typed
<1>1. /\ TInv' /\ Len(lexical') = L /\ L < Len(lexical) /\ Len(lexical) \in Nat
      /\ \A i \in 1 .. L : scopes'[i] = scopes[i] /\ lexical'[i] = lexical[i]
  BY <1>0, Facts, CloseType DEF FInv
<1>2. UNCHANGED <<bases, globals, fields, made>>
  BY DEF Close
<1>3. L >= 1
  <2>1. InFunction
    BY Facts DEF FInv, Close, InFunction
  <2> QED
    BY <1>0, <2>1, CurrentFacts, CloseType DEF FInv
<1>4. Outer'
  <2>1. scopes'[1] = scopes[1] /\ lexical'[1] = lexical[1]
    BY <1>1, <1>3
  <2> QED
    BY <1>2, <2>1 DEF Outer, FInv
<1>5. ASSUME NEW i \in 1 .. L PROVE Level(i)'
  <2>1. /\ Level(i) /\ i \in Nat /\ scopes'[i] = scopes[i] /\ lexical'[i] = lexical[i]
        /\ \A j \in 1 .. i : lexical'[j] = lexical[j]
    BY <1>1 DEF FInv
  <2> QED
    BY <1>2, <2>1, LevelKept
<1> QED
  BY <1>1, <1>4, <1>5 DEF FInv

\* The end of a function leaves the scope of the global variables.
LEMMA EndFunctionFound ==
    ASSUME FInv, EndFunction
    PROVE  FInv'
<1>1. /\ TInv' /\ Len(lexical') = 1 /\ scopes'[1] = scopes[1] /\ lexical'[1] = lexical[1]
  BY EndFunctionType DEF FInv
<1>2. /\ globals' = globals /\ made' = made
      /\ \A n \in Names : fields'[n] = 0 /\ bases'[n] = 0
  BY DEF EndFunction, None
<1>3. scopes[1] = globals /\ lexical[1] = globals
      /\ \A n \in Names : globals[n] <= made /\ globals[n] \in Nat /\ made \in Nat
  BY Facts, BoundsAssumption DEF FInv, Outer, TInv, Typed, TableScope, Declarations
<1>4. \A n \in Names : fields'[n] <= made'
  BY <1>2, <1>3
<1>5. Outer'
  BY <1>1, <1>2, <1>3, <1>4 DEF Outer
<1>6. Level(1)'
  <2>1. \A n \in Names : lexical'[1][n] # 0 => From(lexical', 1, n) = lexical'[1][n]
    BY FromTop
  <2> QED
    BY <1>1, <1>3, <2>1 DEF Level
<1> QED
  BY <1>1, <1>5, <1>6 DEF FInv

\* At the beginning there is nothing to find.
LEMMA InitFound == Init => FInv
<1> SUFFICES ASSUME Init PROVE FInv
  OBVIOUS
<1>1. TInv
  BY InitType
<1>2. /\ scopes[1] = None /\ lexical[1] = None /\ Len(lexical) = 1 /\ globals = None
      /\ fields = None /\ bases = None /\ made = 0 /\ \A n \in Names : None[n] = 0
  BY DEF Init, None
<1>3. Outer
  BY <1>2 DEF Outer
<1>4. Level(1)
  BY <1>2 DEF Level
<1> QED
  BY <1>1, <1>2, <1>3, <1>4 DEF FInv

\* What changes neither table nor what the names outside are.
LEMMA SameFound ==
    ASSUME FInv, TInv', UNCHANGED <<scopes, lexical, bases, globals, fields, made>>
    PROVE  FInv'
<1>1. Outer'
  BY DEF FInv, Outer
<1>2. ASSUME NEW i \in 1 .. Len(lexical) PROVE Level(i)'
  <2>1. i \in Nat /\ Level(i)
    BY DEF FInv
  <2> QED
    BY <2>1, LevelKept
<1> QED
  BY <1>1, <1>2 DEF FInv

\* Every step keeps what the tables have.
LEMMA FoundStep == ~Hiding /\ FInv /\ [Next]_vars => FInv'
<1> SUFFICES ASSUME ~Hiding, FInv, [Next]_vars PROVE FInv'
  OBVIOUS
<1>1. CASE \E n \in Names : DeclareGlobal(n)
  BY <1>1, DeclareGlobalFound
<1>2. CASE \E names \in SUBSET Names : OpenFunction(names)
  BY <1>2, OpenFunctionFound
<1>3. CASE \E own, inherited, names \in SUBSET Names : OpenMethod(own, inherited, names)
  BY <1>3, OpenMethodFound
<1>4. CASE \E n \in Names : Declare(n)
  BY <1>4, DeclareFound
<1>5. CASE OpenBlock
  BY <1>5, OpenBlockFound
<1>6. CASE \E kind \in DOMAIN Headers, names \in SUBSET Names : OpenHeader(kind, names)
  BY <1>6, OpenHeaderFound
<1>7. CASE \E n \in Names : Defer(n)
  BY <1>7, DeferType, SameFound DEF FInv, Defer
<1>8. CASE Close
  BY <1>8, CloseFound
<1>9. CASE Leave
  BY <1>9, LeaveType, SameFound DEF FInv, Leave
<1>10. CASE EndFunction
  BY <1>10, EndFunctionFound
<1>11. CASE UNCHANGED vars
  BY <1>11, StutterType, SameFound DEF FInv, vars
<1> QED
  BY <1>1, <1>2, <1>3, <1>4, <1>5, <1>6, <1>7, <1>8, <1>9, <1>10, <1>11 DEF Next

\* If no block hides a variable of its function, the analyzer finds the
\* innermost variable of a name, although its scopes start with copies.
THEOREM InnermostFound == ASSUME ~Hiding PROVE Spec => []InnermostIsFound
<1>1. FInv => InnermostIsFound
  BY LevelsFind DEF InnermostIsFound
<1>2. FInv /\ [Next]_vars => FInv'
  BY FoundStep
<1> QED
  BY <1>1, <1>2, InitFound, PTL DEF Spec

-----------------------------------------------------------------------------
(* The generator's map gives what the analyzer finds *)

\* What a name is that the map has as d: if it does not have it, a global
\* variable or a field.
Otherwise(d, global, field) == IF d # 0 THEN d ELSE IF global # 0 THEN global ELSE field

Agreed ==
  open # <<>> =>
    \A n \in Names : From(lexical, Len(lexical), n) # 0 =>
      Otherwise(namedValues[n], globals[n], fields[n]) = From(lexical, Len(lexical), n)

\* A name of a construct that is something else around it is given back when
\* it ends, and it declares no other name that is something around it.
GivenBack(table, global, field, frame, end) ==
  \A n \in Names : From(table, frame.around, n) # 0 =>
    /\ n \in frame.binds =>
         \/ /\ frame.kind \in {"foreach", "arm"}
            /\ Otherwise(0, global[n], field[n]) = From(table, frame.around, n)
         \/ /\ frame.kind = "catch"
            /\ Otherwise(frame.previous[n], global[n], field[n]) = From(table, frame.around, n)
    /\ n \notin frame.binds => \A i \in frame.around + 1 .. end : table[i][n] = 0

\* A construct's scopes are behind those of the constructs around it.
FrameOK(k) ==
  /\ open[k].around < Len(lexical)
  /\ \A j \in 1 .. k - 1 : End(j) <= open[k].around
  /\ k >= 2 => GivenBack(lexical, globals, fields, open[k], End(k))

NInv == FInv /\ Agreed /\ \A k \in 1 .. Len(open) : FrameOK(k)

\* What is known of the constructs.
LEMMA EndFacts ==
    ASSUME TInv, NEW k \in 1 .. Len(open)
    PROVE  /\ open[k].around \in Nat /\ End(k) \in Nat
           /\ open[k].around < End(k)
           /\ End(k) = open[k].around + Entered(open[k].kind)
           /\ open[k] \in FrameType
<1>1. open[k] \in FrameType /\ open[k].around \in Nat
  BY Facts DEF FrameType
<1>2. End(k) = open[k].around + Entered(open[k].kind)
  BY DEF TInv, ScopesOfConstructs
<1>3. Entered(open[k].kind) \in 1 .. 3
  BY EnteredType
<1> QED
  BY <1>1, <1>2, <1>3

\* No construct has scopes that are not there.
LEMMA EndInside ==
    ASSUME NInv, NEW k \in 1 .. Len(open)
    PROVE  End(k) <= Len(lexical)
<1>0. Len(lexical) \in Nat /\ Len(open) \in Nat
  BY Facts DEF NInv, FInv
<1>1. CASE k = Len(open)
  BY <1>0, <1>1 DEF End
<1>2. CASE k # Len(open)
  <2>1. k + 1 \in 1 .. Len(open)
    BY <1>0, <1>2
  <2>2. open[k + 1].around < Len(lexical) /\ open[k + 1].around \in Nat
    BY <2>1, EndFacts DEF NInv, FrameOK, FInv
  <2> QED
    BY <1>0, <1>2, <2>2 DEF End
<1> QED
  BY <1>1, <1>2

\* A construct inside of others does not change where they end.
LEMMA EndPushed ==
    ASSUME TInv, Len(open') = Len(open) + 1,
           \A j \in 1 .. Len(open) : open'[j] = open[j],
           open'[Len(open) + 1].around = Len(lexical),
           NEW k \in 1 .. Len(open)
    PROVE  End(k)' = End(k)
<1>0. Len(open) \in Nat
  BY Facts
<1>1. CASE k = Len(open)
  <2>1. k # Len(open') /\ k + 1 = Len(open) + 1
    BY <1>0, <1>1
  <2> QED
    BY <1>1, <2>1 DEF End
<1>2. CASE k # Len(open)
  <2>1. k # Len(open') /\ k + 1 \in 1 .. Len(open)
    BY <1>0, <1>2
  <2> QED
    BY <1>2, <2>1 DEF End
<1> QED
  BY <1>1, <1>2

\* Nor does the end of a construct.
LEMMA EndPopped ==
    ASSUME TInv, Len(open) > 1, Len(open') = Len(open) - 1,
           \A j \in 1 .. Len(open') : open'[j] = open[j],
           Len(lexical') = open[Len(open)].around,
           NEW k \in 1 .. Len(open')
    PROVE  End(k)' = End(k)
<1>0. Len(open) \in Nat
  BY Facts
<1>1. CASE k = Len(open')
  <2>1. k # Len(open) /\ k + 1 = Len(open)
    BY <1>0, <1>1
  <2> QED
    BY <1>1, <2>1 DEF End
<1>2. CASE k # Len(open')
  <2>1. k # Len(open) /\ k + 1 \in 1 .. Len(open')
    BY <1>0, <1>2
  <2> QED
    BY <1>2, <2>1 DEF End
<1> QED
  BY <1>1, <1>2

\* What a construct gives back depends on its scopes and those around it.
LEMMA GivenBackSame ==
    ASSUME NEW table, NEW other, NEW global, NEW field, NEW frame, NEW end,
           frame.around \in Nat, end \in Nat, frame.around < end,
           \A i \in 1 .. end : other[i] = table[i],
           GivenBack(table, global, field, frame, end)
    PROVE  GivenBack(other, global, field, frame, end)
<1>1. \A n \in Names : From(other, frame.around, n) = From(table, frame.around, n)
  BY FromSame
<1>2. \A i \in frame.around + 1 .. end : other[i] = table[i]
  OBVIOUS
<1> QED
  BY <1>1, <1>2 DEF GivenBack

\* A construct that stays, with its scopes and those around it, is as it was.
LEMMA FrameKept ==
    ASSUME NInv, NEW k \in 1 .. Len(open), open'[k] = open[k], End(k)' = End(k),
           \A j \in 1 .. k - 1 : End(j)' = End(j),
           open[k].around < Len(lexical'),
           \A i \in 1 .. End(k) : lexical'[i] = lexical[i],
           UNCHANGED <<globals, fields>>
    PROVE  FrameOK(k)'
<1>1. FrameOK(k) /\ TInv
  BY DEF NInv, FInv
<1>2. open[k].around \in Nat /\ End(k) \in Nat /\ open[k].around < End(k)
  BY <1>1, EndFacts
<1>3. GivenBack(lexical, globals, fields, open[k], End(k))
        => GivenBack(lexical', globals', fields', open[k], End(k))
  <2>1. \A i \in 1 .. End(k) : lexical'[i] = lexical[i]
    OBVIOUS
  <2> QED
    BY <1>2, <2>1, GivenBackSame
<1>4. \A j \in 1 .. k - 1 : End(j)' <= open'[k].around
  BY <1>1 DEF FrameOK
<1>5. k >= 2 => GivenBack(lexical', globals', fields', open'[k], End(k)')
  BY <1>1, <1>3 DEF FrameOK
<1>6. open'[k].around < Len(lexical')
  OBVIOUS
<1> QED
  BY <1>4, <1>5, <1>6 DEF FrameOK

\* Outside of functions there is nothing to agree on.
LEMMA OutsideAgreed ==
    ASSUME FInv', open' = <<>>
    PROVE  NInv'
<1>1. Len(open') = 0
  BY EmptySeq
<1>2. \A k \in 1 .. Len(open') : FrameOK(k)'
  BY <1>1
<1> QED
  BY <1>2 DEF NInv, Agreed

\* A function that has begun has one construct.
LEMMA FirstFrame ==
    ASSUME FInv', Agreed', Len(open') = 1
    PROVE  NInv'
<1>1. open' # <<>> /\ open'[1].around = 1 /\ Len(lexical') >= 3 /\ Len(lexical') \in Nat
  <2>1. open' # <<>>
    BY EmptySeq
  <2> QED
    BY <2>1, LenProperties DEF FInv, TInv, Typed, ScopesOfConstructs
<1>2. FrameOK(1)'
  BY <1>1 DEF FrameOK
<1>3. \A k \in 1 .. Len(open') : k = 1
  OBVIOUS
<1> QED
  BY <1>2, <1>3 DEF NInv

\* A function begins with its parameters and the global variables.
LEMMA OpenFunctionAgreed ==
    ASSUME FInv, NEW names \in SUBSET Names, OpenFunction(names)
    PROVE  Agreed' /\ Len(open') = 1
<1>1. /\ Len(lexical') = 3 /\ lexical'[1] = lexical[1] /\ Len(open') = 1
  BY OpenFunctionType DEF FInv
<1>2. PICK params \in Bindings(names, made) :
        /\ params \in TableScope /\ namedValues' = params
        /\ lexical'[2] = params /\ lexical'[3] = None
  BY OpenFunctionType DEF FInv
<1>3. /\ globals' = globals /\ lexical[1] = globals
      /\ \A n \in Names : fields'[n] = 0 /\ None[n] = 0
  BY DEF OpenFunction, FInv, Outer, None
<1>4. ASSUME NEW n \in Names, From(lexical', 3, n) # 0
      PROVE  Otherwise(namedValues'[n], globals'[n], fields'[n]) = From(lexical', 3, n)
  <2>1. From(lexical', 3, n) = From(lexical', 2, n)
    <3>1. lexical'[3][n] = 0 /\ 3 \in Nat \ {0} /\ 3 - 1 = 2
      BY <1>2, <1>3
    <3> QED
      BY <3>1, FromStep
  <2>2. From(lexical', 2, n) = IF params[n] # 0 THEN params[n] ELSE From(lexical', 1, n)
    <3>1. lexical'[2][n] = params[n] /\ 2 \in Nat \ {0} /\ 2 - 1 = 1
      BY <1>2
    <3> QED
      BY <3>1, FromStep
  <2>3. From(lexical', 1, n) # 0 => From(lexical', 1, n) = globals[n]
    <3>1. CASE lexical'[1][n] # 0
      BY <1>1, <1>3, <3>1, FromTop
    <3>2. CASE lexical'[1][n] = 0
      <4>1. \A j \in 1 .. 1 : lexical'[j][n] = 0
        BY <3>2
      <4> QED
        BY <4>1, FromNone
    <3> QED
      BY <3>1, <3>2
  <2> QED
    BY <1>2, <1>3, <1>4, <2>1, <2>2, <2>3 DEF Otherwise
<1> QED
  BY <1>1, <1>4 DEF Agreed

\* A method begins with its parameters, the fields and the global variables.
LEMMA OpenMethodAgreed ==
    ASSUME FInv, NEW own \in SUBSET Names, NEW inherited \in SUBSET Names,
           NEW names \in SUBSET Names, OpenMethod(own, inherited, names)
    PROVE  Agreed' /\ Len(open') = 1
<1>1. /\ Len(lexical') = 4 /\ lexical'[1] = lexical[1] /\ Len(open') = 1
  BY OpenMethodType DEF FInv
<1>2. PICK k \in Nat : \E members \in Bindings(own \cup inherited, made) :
         \E params \in Bindings(names, k) : \E base \in TableScope :
            MethodTables(inherited, names, k, members, params, base)
  BY OpenMethodType DEF FInv
<1>3. PICK members \in Bindings(own \cup inherited, made),
           params \in Bindings(names, k), base \in TableScope :
        MethodTables(inherited, names, k, members, params, base)
  BY <1>2
<1>4. /\ namedValues' = params /\ fields' = members
      /\ lexical'[2] = members /\ lexical'[3] = params /\ lexical'[4] = None
  BY <1>3 DEF MethodTables
<1>5. /\ globals' = globals /\ lexical[1] = globals
      /\ \A n \in Names : None[n] = 0
  BY DEF OpenMethod, FInv, Outer, None
<1>6. \A n \in Names : globals'[n] # 0 => fields'[n] = 0
  BY OpenMethodFound DEF FInv, Outer
<1>7. ASSUME NEW n \in Names, From(lexical', 4, n) # 0
      PROVE  Otherwise(namedValues'[n], globals'[n], fields'[n]) = From(lexical', 4, n)
  <2>1. From(lexical', 4, n) = From(lexical', 3, n)
    <3>1. lexical'[4][n] = 0 /\ 4 \in Nat \ {0} /\ 4 - 1 = 3
      BY <1>4, <1>5
    <3> QED
      BY <3>1, FromStep
  <2>2. From(lexical', 3, n) = IF params[n] # 0 THEN params[n] ELSE From(lexical', 2, n)
    <3>1. lexical'[3][n] = params[n] /\ 3 \in Nat \ {0} /\ 3 - 1 = 2
      BY <1>4
    <3> QED
      BY <3>1, FromStep
  <2>3. From(lexical', 2, n) = IF members[n] # 0 THEN members[n] ELSE From(lexical', 1, n)
    <3>1. lexical'[2][n] = members[n] /\ 2 \in Nat \ {0} /\ 2 - 1 = 1
      BY <1>4
    <3> QED
      BY <3>1, FromStep
  <2>4. From(lexical', 1, n) # 0 => From(lexical', 1, n) = globals[n]
    <3>1. CASE lexical'[1][n] # 0
      BY <1>1, <1>5, <3>1, FromTop
    <3>2. CASE lexical'[1][n] = 0
      <4>1. \A j \in 1 .. 1 : lexical'[j][n] = 0
        BY <3>2
      <4> QED
        BY <4>1, FromNone
    <3> QED
      BY <3>1, <3>2
  <2> QED
    BY <1>4, <1>5, <1>6, <1>7, <2>1, <2>2, <2>3, <2>4 DEF Otherwise
<1> QED
  BY <1>1, <1>7 DEF Agreed

\* A declaration is what its name is from then on.
LEMMA DeclareAgreed ==
    ASSUME ~Hiding, NInv, NEW n \in Names, Declare(n)
    PROVE  NInv'
<1>0. PICK L \in Nat : L = Len(lexical)
  BY Facts DEF NInv, FInv
<1>1. /\ FInv' /\ Len(lexical') = L /\ L >= 3 /\ L = Len(lexical) /\ made \in Nat
      /\ \A i \in 1 .. L - 1 : lexical'[i] = lexical[i]
      /\ \A m \in Names :
           /\ lexical'[L][m] = IF m = n THEN made + 1 ELSE lexical[L][m]
           /\ namedValues'[m] = IF m = n THEN made + 1 ELSE namedValues[m]
  BY <1>0, Facts, DeclareType, DeclareFound DEF NInv, FInv
<1>2. UNCHANGED <<globals, fields, open>> /\ open # <<>> /\ MayDeclare(n)
  BY DEF Declare, InFunction
<1>3. Agreed'
  <2>1. ASSUME NEW m \in Names, m # n, From(lexical', L, m) # 0
        PROVE  Otherwise(namedValues'[m], globals'[m], fields'[m]) = From(lexical', L, m)
    <3>1. \A j \in 1 .. L : lexical'[j][m] = lexical[j][m]
      BY <1>1, <2>1
    <3>2. From(lexical', L, m) = From(lexical, L, m)
      BY <3>1, FromSame
    <3>3. namedValues'[m] = namedValues[m]
      BY <1>1, <2>1
    <3> QED
      BY <1>1, <1>2, <2>1, <3>2, <3>3 DEF NInv, Agreed
  <2>2. Otherwise(namedValues'[n], globals'[n], fields'[n]) = From(lexical', L, n)
    <3>1. lexical'[L][n] = made + 1 /\ namedValues'[n] = made + 1 /\ made + 1 # 0
          /\ L \in Nat \ {0}
      BY <1>1
    <3>2. From(lexical', L, n) = lexical'[L][n]
      BY <3>1, FromTop
    <3> QED
      BY <3>1, <3>2 DEF Otherwise
  <2> QED
    BY <1>1, <2>1, <2>2 DEF Agreed
<1>4. \A k \in 1 .. Len(open) : End(k)' = End(k)
  BY <1>1, <1>2 DEF End
<1>5. Len(open) \in Nat /\ Len(open) # 0
  BY <1>2, Facts DEF NInv, FInv
<1>6. ASSUME NEW k \in 1 .. Len(open), k # Len(open) PROVE FrameOK(k)'
  <2>1. k + 1 \in 1 .. Len(open)
    BY <1>5, <1>6
  <2>2. End(k) < L /\ open[k].around < L /\ End(k) \in Nat
    <3>1. End(k) = open[k + 1].around
      BY <1>6 DEF End
    <3>2. open[k + 1].around < Len(lexical) /\ open[k].around < Len(lexical)
      BY <2>1 DEF NInv, FrameOK
    <3> QED
      BY <1>1, <3>1, <3>2, EndFacts DEF NInv, FInv
  <2>3. \A i \in 1 .. End(k) : lexical'[i] = lexical[i]
    BY <1>1, <2>2
  <2>4. \A j \in 1 .. k - 1 : End(j)' = End(j)
    BY <1>4, <1>5
  <2> QED
    BY <1>1, <1>2, <1>4, <2>2, <2>3, <2>4, FrameKept
<1>7. ASSUME NEW k \in 1 .. Len(open), k = Len(open) PROVE FrameOK(k)'
  <2>1. FrameOK(k) /\ open[k].around \in Nat /\ End(k) = L /\ open[k].around < L
    BY <1>1, <1>7, EndFacts DEF NInv, FInv, FrameOK, End
  <2>2. \A j \in 1 .. k - 1 : End(j)' <= open'[k].around
    <3>1. \A j \in 1 .. k - 1 : j \in 1 .. Len(open) /\ End(j) <= open[k].around
      BY <1>7, <2>1 DEF FrameOK
    <3> QED
      BY <1>2, <1>4, <3>1
  <2>3. ASSUME k >= 2 PROVE GivenBack(lexical', globals', fields', open'[k], End(k)')
    <3>1. GivenBack(lexical, globals, fields, open[k], L)
      BY <2>1, <2>3 DEF FrameOK
    <3>2. From(lexical, L, n) = 0
      <4>1. Fresh(n)
        BY <1>2, <1>7, <2>3 DEF MayDeclare
      <4> QED
        BY <1>0, <4>1, LevelsFind DEF Fresh, NInv
    <3>3. From(lexical, open[k].around, n) = 0
      <4>1. \A j \in 1 .. L : lexical[j][n] = 0
        BY <3>2, FromNone
      <4>2. \A j \in 1 .. open[k].around : lexical[j][n] = 0
        BY <2>1, <4>1
      <4> QED
        BY <2>1, <4>2, FromNone
    <3>4. \A m \in Names : From(lexical', open[k].around, m) = From(lexical, open[k].around, m)
      <4>1. PICK a \in Nat : a = open[k].around
        BY <2>1
      <4>2. a < L
        BY <2>1, <4>1
      <4>3. \A j \in 1 .. a : lexical'[j] = lexical[j]
        BY <1>1, <4>2
      <4>4. ASSUME NEW m \in Names PROVE From(lexical', a, m) = From(lexical, a, m)
        <5>1. \A j \in 1 .. a : lexical'[j][m] = lexical[j][m]
          BY <4>3
        <5> QED
          BY <5>1, FromSame
      <4> QED
        BY <4>1, <4>4
    <3>5. \A m \in Names : m # n => \A i \in open[k].around + 1 .. L :
             lexical'[i][m] = lexical[i][m]
      <4>1. \A i \in open[k].around + 1 .. L : i \in 1 .. L - 1 \/ i = L
        BY <2>1
      <4> QED
        BY <1>1, <4>1
    <3>6. End(k)' = L
      BY <1>4, <2>1
    <3> QED
      BY <1>2, <3>1, <3>3, <3>4, <3>5, <3>6 DEF GivenBack
  <2> QED
    BY <1>1, <1>2, <2>1, <2>2, <2>3 DEF FrameOK
<1> QED
  BY <1>1, <1>2, <1>3, <1>6, <1>7 DEF NInv

\* The constructs around a new one are as they were.
LEMMA FramesPushed ==
    ASSUME NInv, Len(open') = Len(open) + 1,
           \A k \in 1 .. Len(open) : open'[k] = open[k],
           open'[Len(open) + 1].around = Len(lexical),
           Len(lexical') \in Nat, Len(lexical') > Len(lexical),
           \A i \in 1 .. Len(lexical) : lexical'[i] = lexical[i],
           UNCHANGED <<globals, fields>>,
           GivenBack(lexical', globals', fields', open'[Len(open) + 1], Len(lexical'))
    PROVE  \A k \in 1 .. Len(open') : FrameOK(k)'
<1>0. Len(open) \in Nat /\ Len(lexical) \in Nat /\ TInv
  BY Facts DEF NInv, FInv
<1>1. \A k \in 1 .. Len(open) : End(k)' = End(k) /\ End(k) <= Len(lexical) /\ End(k) \in Nat
  BY <1>0, EndPushed, EndInside, EndFacts
<1>2. ASSUME NEW k \in 1 .. Len(open) PROVE FrameOK(k)'
  <2>1. open[k].around < Len(lexical')
    <3>1. open[k].around < Len(lexical)
      BY DEF NInv, FrameOK
    <3>2. open[k].around \in Nat
      BY <1>0, EndFacts
    <3> QED
      BY <1>0, <3>1, <3>2
  <2>2. \A i \in 1 .. End(k) : lexical'[i] = lexical[i]
    BY <1>0, <1>1
  <2>3. \A j \in 1 .. k - 1 : End(j)' = End(j)
    BY <1>0, <1>1
  <2> QED
    BY <1>1, <2>1, <2>2, <2>3, FrameKept
<1>3. PICK l \in Nat : l = Len(open) + 1
  BY <1>0
<1>4. FrameOK(l)'
  <2>1. open'[l].around < Len(lexical')
    BY <1>3
  <2>2. \A j \in 1 .. l - 1 : End(j)' <= open'[l].around
    BY <1>0, <1>1, <1>3
  <2>3. End(l)' = Len(lexical')
    BY <1>3 DEF End
  <2> QED
    BY <1>3, <2>1, <2>2, <2>3 DEF FrameOK
<1>5. \A k \in 1 .. Len(open') : k \in 1 .. Len(open) \/ k = l
  BY <1>0, <1>3
<1> QED
  BY <1>2, <1>4, <1>5

\* A block adds no name.
LEMMA OpenBlockAgreed ==
    ASSUME NInv, OpenBlock
    PROVE  NInv'
<1>0. PICK L \in Nat : L = Len(lexical)
  BY Facts DEF NInv, FInv
<1>1. /\ FInv' /\ Len(lexical') = L + 1 /\ L >= 3 /\ L = Len(lexical)
      /\ \A i \in 1 .. L : lexical'[i] = lexical[i]
      /\ lexical'[L + 1] = None
      /\ Len(open') = Len(open) + 1 /\ open'[Len(open) + 1] = Frame("block", {})
      /\ \A k \in 1 .. Len(open) : open'[k] = open[k]
  BY <1>0, OpenBlockType, OpenBlockFound DEF NInv, FInv
<1>2. UNCHANGED <<globals, fields, namedValues>> /\ open # <<>>
      /\ \A n \in Names : None[n] = 0
  BY DEF OpenBlock, InFunction, None
<1>3. Agreed'
  <2>1. ASSUME NEW n \in Names PROVE From(lexical', L + 1, n) = From(lexical, L, n)
    <3>1. L + 1 \in Nat \ {0} /\ (L + 1) - 1 = L /\ lexical'[L + 1][n] = 0
      BY <1>1, <1>2
    <3>2. From(lexical', L + 1, n) = From(lexical', L, n)
      BY <3>1, FromStep
    <3>3. \A i \in 1 .. L : lexical'[i][n] = lexical[i][n]
      BY <1>1
    <3>4. From(lexical', L, n) = From(lexical, L, n)
      BY <3>3, FromSame
    <3> QED
      BY <3>2, <3>4
  <2> QED
    BY <1>1, <1>2, <2>1 DEF Agreed, NInv
<1>4. Frame("block", {}).around = L /\ Frame("block", {}).binds = {}
  BY <1>1, FrameFacts DEF NInv, FInv
<1>5. GivenBack(lexical', globals', fields', open'[Len(open) + 1], Len(lexical'))
  <2>1. \A n \in Names : \A i \in L + 1 .. L + 1 : lexical'[i][n] = 0
    BY <1>1, <1>2
  <2> QED
    BY <1>1, <1>4, <2>1 DEF GivenBack
<1>6. \A k \in 1 .. Len(open') : FrameOK(k)'
  <2>1. Len(lexical') \in Nat /\ Len(lexical') > Len(lexical)
    BY <1>1
  <2> QED
    BY <1>1, <1>2, <1>4, <1>5, <2>1, FramesPushed
<1> QED
  BY <1>1, <1>3, <1>6 DEF NInv

\* A construct's names are given back to what they were.
LEMMA BoundGivenBack ==
    ASSUME ~Hiding, NInv, InFunction, NEW kind, NEW n \in Names, MayBind(kind, n),
           From(lexical, Len(lexical), n) # 0
    PROVE  \/ /\ kind \in {"foreach", "arm"}
              /\ Otherwise(0, globals[n], fields[n]) = From(lexical, Len(lexical), n)
           \/ /\ kind = "catch"
              /\ Otherwise(namedValues[n], globals[n], fields[n])
                   = From(lexical, Len(lexical), n)
<1>1. Meant(n) = From(lexical, Len(lexical), n)
  BY LevelsFind DEF NInv
<1>2. ~Fresh(n)
  BY <1>1 DEF Fresh
<1>3. CASE kind = "catch"
  BY <1>3 DEF NInv, Agreed, InFunction
<1>4. CASE kind \in {"foreach", "arm"} /\ Outside(n)
  <2>1. globals[n] # 0 => fields[n] = 0
    BY DEF NInv, FInv, Outer
  <2> QED
    BY <1>1, <1>4, <2>1 DEF Outside, Otherwise
<1> QED
  BY <1>2, <1>3, <1>4 DEF MayBind

\* A header's names are what its body finds, and are given back.
LEMMA OpenHeaderAgreed ==
    ASSUME ~Hiding, NInv, NEW kind \in DOMAIN Headers, NEW names \in SUBSET Names,
           OpenHeader(kind, names)
    PROVE  NInv'
<1>0. PICK L \in Nat : L = Len(lexical)
  BY Facts DEF NInv, FInv
<1>1. /\ FInv' /\ Len(lexical') = L + 2 /\ L >= 3 /\ L = Len(lexical)
      /\ \A i \in 1 .. L : lexical'[i] = lexical[i]
      /\ Len(open') = Len(open) + 1 /\ open'[Len(open) + 1] = Frame(kind, names)
      /\ \A k \in 1 .. Len(open) : open'[k] = open[k]
  BY <1>0, OpenHeaderType, OpenHeaderFound DEF NInv, FInv
<1>2. PICK binding \in Bindings(names, made) :
        /\ binding \in TableScope /\ namedValues' = Behind(binding, namedValues)
        /\ \A n \in Names : binding[n] # 0 <=> n \in names
        /\ lexical'[L + 1] = binding /\ lexical'[L + 2] = None
  BY <1>0, OpenHeaderType DEF NInv, FInv
<1>3. /\ UNCHANGED <<globals, fields>> /\ open # <<>> /\ InFunction
      /\ \A n \in Names : None[n] = 0
      /\ \A n \in names : MayBind(kind, n)
  BY DEF OpenHeader, InFunction, None
<1>4. ASSUME NEW n \in Names
      PROVE  namedValues'[n] = IF binding[n] = 0 THEN namedValues[n] ELSE binding[n]
  BY <1>2, BehindType DEF NInv, FInv, TInv, Typed
<1>5. Agreed'
  <2>1. ASSUME NEW n \in Names
        PROVE  From(lexical', L + 2, n) =
                 IF binding[n] # 0 THEN binding[n] ELSE From(lexical, L, n)
    <3>1. L + 2 \in Nat \ {0} /\ (L + 2) - 1 = L + 1 /\ lexical'[L + 2][n] = 0
          /\ L + 1 \in Nat \ {0} /\ (L + 1) - 1 = L /\ lexical'[L + 1][n] = binding[n]
      BY <1>1, <1>2, <1>3
    <3>2. From(lexical', L + 2, n) = From(lexical', L + 1, n)
      BY <3>1, FromStep
    <3>3. From(lexical', L + 1, n) =
            IF binding[n] # 0 THEN binding[n] ELSE From(lexical', L, n)
      BY <3>1, FromStep
    <3>4. From(lexical', L, n) = From(lexical, L, n)
      <4>1. \A i \in 1 .. L : lexical'[i][n] = lexical[i][n]
        BY <1>1
      <4> QED
        BY <4>1, FromSame
    <3> QED
      BY <3>2, <3>3, <3>4
  <2>2. ASSUME NEW n \in Names, From(lexical', L + 2, n) # 0
        PROVE  Otherwise(namedValues'[n], globals'[n], fields'[n]) = From(lexical', L + 2, n)
    <3>1. CASE binding[n] # 0
      BY <1>4, <2>1, <3>1 DEF Otherwise
    <3>2. CASE binding[n] = 0
      BY <1>1, <1>3, <1>4, <2>1, <2>2, <3>2 DEF NInv, Agreed
    <3> QED
      BY <3>1, <3>2
  <2> QED
    BY <1>1, <2>2 DEF Agreed
<1>6. /\ Frame(kind, names).around = L /\ Frame(kind, names).binds = names
      /\ Frame(kind, names).kind = kind /\ Frame(kind, names).previous = namedValues
  BY <1>1 DEF Frame
<1>7. GivenBack(lexical', globals', fields', Frame(kind, names), L + 2)
  <2>1. \A n \in Names : From(lexical', L, n) = From(lexical, L, n)
    <3>1. \A i \in 1 .. L : lexical'[i] = lexical[i]
      BY <1>1
    <3> QED
      BY <3>1, FromSame
  <2>2. ASSUME NEW n \in Names, n \in names, From(lexical, L, n) # 0
        PROVE  \/ /\ kind \in {"foreach", "arm"}
                  /\ Otherwise(0, globals[n], fields[n]) = From(lexical, L, n)
               \/ /\ kind = "catch"
                  /\ Otherwise(namedValues[n], globals[n], fields[n]) = From(lexical, L, n)
    BY <1>1, <1>3, <2>2, BoundGivenBack
  <2>3. ASSUME NEW n \in Names, n \notin names, NEW i \in L + 1 .. L + 2
        PROVE  lexical'[i][n] = 0
    <3>1. i = L + 1 \/ i = L + 2
      OBVIOUS
    <3> QED
      BY <1>2, <1>3, <2>3, <3>1
  <2> QED
    BY <1>3, <1>6, <2>1, <2>2, <2>3 DEF GivenBack
<1>8. \A k \in 1 .. Len(open') : FrameOK(k)'
  <2>1. Len(lexical') \in Nat /\ Len(lexical') > Len(lexical)
    BY <1>1
  <2> QED
    BY <1>1, <1>3, <1>6, <1>7, <2>1, FramesPushed
<1> QED
  BY <1>1, <1>5, <1>8 DEF NInv

\* At the end of a construct its names are what they were around it, and the
\* other names are what they are in it.
LEMMA CloseAgreed ==
    ASSUME NInv, Close
    PROVE  NInv'
<1>0. PICK a \in Nat, k \in Nat : a = Len(lexical') /\ k = Len(open)
  BY CloseType, Facts, LenProperties DEF NInv, FInv, TInv, Typed
<1>1. /\ FInv' /\ Len(lexical') = a /\ a < Len(lexical) /\ Len(lexical) \in Nat
      /\ \A i \in 1 .. a : lexical'[i] = lexical[i]
      /\ k = Len(open) /\ k > 1 /\ Len(open') = k - 1
      /\ \A j \in 1 .. k - 1 : open'[j] = open[j]
      /\ namedValues' = Left(open[k]) /\ open[k].around = a
  BY <1>0, Facts, CloseType, CloseFound DEF NInv, FInv, Current
<1>2. UNCHANGED <<globals, fields>>
  BY DEF Close
<1>3. k \in 1 .. Len(open) /\ open # <<>> /\ End(k) = Len(lexical)
  BY <1>1, Facts DEF NInv, FInv, End
<1>4. GivenBack(lexical, globals, fields, open[k], Len(lexical))
  BY <1>1, <1>3 DEF NInv, FrameOK
<1>5. Agreed'
  <2>1. ASSUME NEW n \in Names PROVE From(lexical', a, n) = From(lexical, a, n)
    <3>1. \A i \in 1 .. a : lexical'[i][n] = lexical[i][n]
      BY <1>1
    <3> QED
      BY <3>1, FromSame
  <2>2. ASSUME NEW n \in Names, From(lexical, a, n) # 0, n \in open[k].binds
        PROVE  Otherwise(namedValues'[n], globals[n], fields[n]) = From(lexical, a, n)
    BY <1>1, <1>4, <2>2 DEF GivenBack, Left
  <2>3. ASSUME NEW n \in Names, From(lexical, a, n) # 0, n \notin open[k].binds
        PROVE  Otherwise(namedValues'[n], globals[n], fields[n]) = From(lexical, a, n)
    <3>1. \A i \in a + 1 .. Len(lexical) : lexical[i][n] = 0
      BY <1>1, <1>4, <2>3 DEF GivenBack
    <3>2. From(lexical, Len(lexical), n) = From(lexical, a, n)
      <4>1. Len(lexical) \in Nat /\ a \in 0 .. Len(lexical)
        BY <1>1
      <4> QED
        BY <3>1, <4>1, FromBehind
    <3>3. namedValues'[n] = namedValues[n]
      BY <1>1, <2>3 DEF Left
    <3> QED
      BY <1>3, <2>3, <3>2, <3>3 DEF NInv, Agreed
  <2> QED
    BY <1>1, <1>2, <2>1, <2>2, <2>3 DEF Agreed
<1>6. ASSUME NEW j \in 1 .. k - 1 PROVE End(j)' = End(j) /\ j \in 1 .. Len(open)
  BY <1>1, EndPopped DEF NInv, FInv
<1>7. ASSUME NEW j \in 1 .. k - 1 PROVE FrameOK(j)'
  <2>1. End(j) <= a /\ End(j) \in Nat /\ open[j].around < End(j) /\ open[j].around \in Nat
    BY <1>1, <1>3, <1>6, EndFacts DEF NInv, FInv, FrameOK
  <2>2. \A i \in 1 .. End(j) : lexical'[i] = lexical[i]
    BY <1>1, <2>1
  <2>3. open[j].around < Len(lexical')
    BY <1>1, <2>1
  <2>4. \A m \in 1 .. j - 1 : End(m)' = End(m)
    BY <1>6
  <2> QED
    BY <1>1, <1>2, <1>6, <2>2, <2>3, <2>4, FrameKept
<1> QED
  BY <1>1, <1>5, <1>7 DEF NInv

\* What changes neither the tables nor the map.
LEMMA SameAgreed ==
    ASSUME NInv, FInv', UNCHANGED <<lexical, open, namedValues, globals, fields>>
    PROVE  NInv'
<1>1. Agreed'
  BY DEF NInv, Agreed
<1>2. \A k \in 1 .. Len(open) : FrameOK(k)'
  BY DEF NInv, FrameOK, End
<1> QED
  BY <1>1, <1>2 DEF NInv

\* At the beginning nothing is open.
LEMMA InitAgreed == Init => NInv
<1> SUFFICES ASSUME Init PROVE NInv
  OBVIOUS
<1>1. open = <<>> /\ Len(open) = 0
  BY EmptySeq DEF Init
<1>2. \A k \in 1 .. Len(open) : FrameOK(k)
  BY <1>1
<1> QED
  BY <1>1, <1>2, InitFound DEF NInv, Agreed

\* Every step keeps the map and the tables agreed.
LEMMA AgreedStep == ~Hiding /\ NInv /\ [Next]_vars => NInv'
<1> SUFFICES ASSUME ~Hiding, NInv, [Next]_vars PROVE NInv'
  OBVIOUS
<1>0. FInv /\ FInv'
  BY FoundStep DEF NInv
<1>1. CASE \E n \in Names : DeclareGlobal(n)
  <2>1. open' = <<>>
    BY <1>0, <1>1 DEF DeclareGlobal, FInv, TInv, NothingOutside
  <2> QED
    BY <1>0, <2>1, OutsideAgreed
<1>2. CASE \E names \in SUBSET Names : OpenFunction(names)
  BY <1>0, <1>2, OpenFunctionAgreed, FirstFrame
<1>3. CASE \E own, inherited, names \in SUBSET Names : OpenMethod(own, inherited, names)
  BY <1>0, <1>3, OpenMethodAgreed, FirstFrame
<1>4. CASE \E n \in Names : Declare(n)
  BY <1>4, DeclareAgreed
<1>5. CASE OpenBlock
  BY <1>5, OpenBlockAgreed
<1>6. CASE \E kind \in DOMAIN Headers, names \in SUBSET Names : OpenHeader(kind, names)
  BY <1>6, OpenHeaderAgreed
<1>7. CASE \E n \in Names : Defer(n)
  BY <1>0, <1>7, SameAgreed DEF Defer
<1>8. CASE Close
  BY <1>8, CloseAgreed
<1>9. CASE Leave
  BY <1>0, <1>9, SameAgreed DEF Leave
<1>10. CASE EndFunction
  BY <1>0, <1>10, OutsideAgreed DEF EndFunction
<1>11. CASE UNCHANGED vars
  BY <1>0, <1>11, SameAgreed DEF vars
<1> QED
  BY <1>1, <1>2, <1>3, <1>4, <1>5, <1>6, <1>7, <1>8, <1>9, <1>10, <1>11 DEF Next

\* If no block hides a variable of its function, the generator's one map of a
\* function gives every name the analyzer finds the analyzer's variable.
THEOREM MapAgrees == ASSUME ~Hiding PROVE Spec => []NamesAgree
<1>1. NInv => NamesAgree
  <2> SUFFICES ASSUME NInv, InFunction, NEW n \in Names, lookupSymbol(n) # 0
               PROVE  generateIdentifier(n) = lookupSymbol(n)
    BY DEF NamesAgree
  <2>1. lookupSymbol(n) = From(lexical, Len(lexical), n)
    BY LevelsFind DEF NInv
  <2> QED
    BY <2>1 DEF NInv, Agreed, InFunction, Otherwise, generateIdentifier
<1>2. NInv /\ [Next]_vars => NInv'
  BY AgreedStep
<1> QED
  BY <1>1, <1>2, InitAgreed, PTL DEF Spec

-----------------------------------------------------------------------------
(* A block runs what it deferred with the variables it was analyzed with *)

\* The expressions deferred in the k-th construct, and not in one inside of it
\* that is open, are those behind its `defers` up to here.
Until(k) == IF k = Len(open) THEN Len(deferred) ELSE open[k + 1].defers

\* Expressions whose names are still what they were when they were deferred.
Runnable(table, expressions, first, last, end) ==
  \A i \in first + 1 .. last : ~expressions[i].ended =>
    /\ expressions[i].meant # 0
    /\ From(table, end, expressions[i].name) = expressions[i].meant

DefersOK(k) ==
  /\ open[k].defers <= Len(deferred)
  /\ k >= 2 => Runnable(lexical, deferred, open[k].defers, Until(k), End(k))

DInv == NInv /\ \A k \in 1 .. Len(open) : DefersOK(k)

\* What is deferred in a construct is there.
LEMMA UntilInside ==
    ASSUME DInv, NEW k \in 1 .. Len(open)
    PROVE  /\ Until(k) \in Nat /\ Until(k) <= Len(deferred)
           /\ open[k].defers \in Nat /\ open[k].defers <= Len(deferred)
<1>0. Len(deferred) \in Nat /\ Len(open) \in Nat
  BY Facts DEF DInv, NInv, FInv
<1>1. ASSUME NEW j \in 1 .. Len(open)
      PROVE  open[j].defers \in Nat /\ open[j].defers <= Len(deferred)
  BY BoundsAssumption, EndFacts DEF FrameType, DInv, NInv, FInv, DefersOK
<1>2. CASE k = Len(open)
  BY <1>0, <1>1, <1>2 DEF Until
<1>3. CASE k # Len(open)
  <2>1. k + 1 \in 1 .. Len(open)
    BY <1>0, <1>3
  <2> QED
    BY <1>1, <1>3, <2>1 DEF Until
<1> QED
  BY <1>2, <1>3

\* What is runnable depends on the scopes up to the construct's end, and on
\* the expressions of the construct.
LEMMA RunnableSame ==
    ASSUME NEW table, NEW other, NEW expressions, NEW others,
           NEW first \in Nat, NEW last \in Nat, NEW end \in Nat,
           Runnable(table, expressions, first, last, end),
           \A i \in 1 .. end : other[i] = table[i],
           \A i \in 1 .. last : /\ others[i].name = expressions[i].name
                                /\ others[i].meant = expressions[i].meant
                                /\ ~others[i].ended => ~expressions[i].ended
    PROVE  Runnable(other, others, first, last, end)
<1>1. ASSUME NEW n PROVE From(other, end, n) = From(table, end, n)
  <2>1. \A i \in 1 .. end : other[i][n] = table[i][n]
    OBVIOUS
  <2> QED
    BY <2>1, FromSame
<1>2. \A i \in first + 1 .. last : i \in 1 .. last
  OBVIOUS
<1> QED
  BY <1>1, <1>2 DEF Runnable

\* The deferred expressions of a construct that stays, with its scopes, are
\* runnable as before.
LEMMA DefersKept ==
    ASSUME DInv, NEW k \in 1 .. Len(open), open'[k] = open[k],
           End(k)' = End(k), Until(k)' = Until(k), Len(deferred') >= Len(deferred),
           Len(deferred') \in Nat,
           \A i \in 1 .. End(k) : lexical'[i] = lexical[i],
           \A i \in 1 .. Len(deferred) :
              /\ deferred'[i].name = deferred[i].name
              /\ deferred'[i].meant = deferred[i].meant
              /\ ~deferred'[i].ended => ~deferred[i].ended
    PROVE  DefersOK(k)'
<1>1. /\ Until(k) \in Nat /\ Until(k) <= Len(deferred) /\ Len(deferred) \in Nat
      /\ open[k].defers \in Nat /\ open[k].defers <= Len(deferred) /\ End(k) \in Nat
  BY UntilInside, EndFacts, Facts DEF DInv, NInv, FInv
<1>2. open'[k].defers <= Len(deferred')
  BY <1>1
<1>3. ASSUME k >= 2
      PROVE  Runnable(lexical', deferred', open'[k].defers, Until(k)', End(k)')
  <2>1. Runnable(lexical, deferred, open[k].defers, Until(k), End(k))
    BY <1>3 DEF DInv, DefersOK
  <2>2. \A i \in 1 .. Until(k) : /\ deferred'[i].name = deferred[i].name
                                 /\ deferred'[i].meant = deferred[i].meant
                                 /\ ~deferred'[i].ended => ~deferred[i].ended
    BY <1>1
  <2>3. Runnable(lexical', deferred', open[k].defers, Until(k), End(k))
    BY <1>1, <2>1, <2>2, RunnableSame
  <2> QED
    BY <2>3
<1> QED
  BY <1>2, <1>3 DEF DefersOK

\* A construct that is opened has deferred nothing.
LEMMA DefersPushed ==
    ASSUME DInv, NInv', Len(open') = Len(open) + 1,
           \A k \in 1 .. Len(open) : open'[k] = open[k],
           open'[Len(open) + 1].around = Len(lexical),
           open'[Len(open) + 1].defers = Len(deferred),
           \A i \in 1 .. Len(lexical) : lexical'[i] = lexical[i],
           deferred' = deferred
    PROVE  DInv'
<1>0. /\ Len(open) \in Nat /\ Len(lexical) \in Nat /\ Len(deferred) \in Nat /\ TInv
      /\ Len(deferred') = Len(deferred)
  BY Facts DEF DInv, NInv, FInv
<1>1. ASSUME NEW k \in 1 .. Len(open) PROVE DefersOK(k)'
  <2>1. End(k)' = End(k) /\ End(k) <= Len(lexical) /\ End(k) \in Nat
    BY <1>0, EndPushed, EndInside, EndFacts DEF DInv
  <2>2. Until(k)' = Until(k)
    <3>1. CASE k = Len(open)
      <4>1. k # Len(open') /\ k + 1 = Len(open) + 1
        BY <1>0, <3>1
      <4> QED
        BY <3>1, <4>1 DEF Until
    <3>2. CASE k # Len(open)
      <4>1. k # Len(open') /\ k + 1 \in 1 .. Len(open)
        BY <1>0, <3>2
      <4> QED
        BY <3>2, <4>1 DEF Until
    <3> QED
      BY <3>1, <3>2
  <2>3. \A i \in 1 .. End(k) : lexical'[i] = lexical[i]
    BY <1>0, <2>1
  <2> QED
    BY <1>0, <2>1, <2>2, <2>3, DefersKept
<1>2. PICK l \in Nat : l = Len(open) + 1
  BY <1>0
<1>3. DefersOK(l)'
  <2>1. Until(l)' = Len(deferred)
    BY <1>2 DEF Until
  <2>2. \A i \in Len(deferred) + 1 .. Len(deferred) : FALSE
    BY <1>0
  <2>3. open'[l].defers = Len(deferred) /\ open'[l].defers <= Len(deferred')
    BY <1>0, <1>2
  <2> QED
    BY <2>1, <2>2, <2>3 DEF DefersOK, Runnable
<1>4. \A k \in 1 .. Len(open') : k \in 1 .. Len(open) \/ k = l
  BY <1>0, <1>2
<1> QED
  BY <1>1, <1>3, <1>4 DEF DInv

\* A function begins without deferred expressions.
LEMMA FirstDefers ==
    ASSUME NInv', TInv, open = <<>>, NEW kind, NEW names, open' = <<Frame(kind, names)>>
    PROVE  DInv'
<1>1. deferred = <<>> /\ Len(deferred) = 0 /\ Len(deferred') \in Nat
  BY EmptySeq, LenProperties DEF TInv, NothingOutside, NInv, FInv, Typed
<1>2. Len(open') = 1 /\ open'[1].defers = 0
  BY <1>1 DEF Frame
<1>3. DefersOK(1)'
  BY <1>1, <1>2 DEF DefersOK
<1>4. \A k \in 1 .. Len(open') : k = 1
  BY <1>2
<1> QED
  BY <1>3, <1>4 DEF DInv

\* A declaration in a block has not the name of anything deferred in it.
LEMMA DeclareDefers ==
    ASSUME ~Hiding, DInv, NEW n \in Names, Declare(n)
    PROVE  DInv'
<1>0. PICK L \in Nat : L = Len(lexical)
  BY Facts DEF DInv, NInv, FInv
<1>1. /\ NInv' /\ Len(lexical') = L /\ L = Len(lexical)
      /\ \A i \in 1 .. L - 1 : lexical'[i] = lexical[i]
      /\ \A m \in Names : lexical'[L][m] = IF m = n THEN made + 1 ELSE lexical[L][m]
  BY <1>0, DeclareType, DeclareAgreed DEF DInv, NInv, FInv
<1>2. /\ UNCHANGED <<open, deferred>> /\ MayDeclare(n) /\ InFunction
      /\ Len(open) \in Nat /\ Len(deferred) \in Nat
  BY Facts DEF Declare, DInv, NInv, FInv
<1>3. \A k \in 1 .. Len(open) : End(k)' = End(k) /\ Until(k)' = Until(k)
  BY <1>1, <1>2 DEF End, Until
<1>4. ASSUME NEW k \in 1 .. Len(open), k # Len(open) PROVE DefersOK(k)'
  <2>1. k + 1 \in 1 .. Len(open)
    BY <1>2, <1>4
  <2>2. End(k) < L /\ End(k) \in Nat
    <3>1. End(k) = open[k + 1].around
      BY <1>4 DEF End
    <3>2. open[k + 1].around < Len(lexical)
      BY <2>1 DEF DInv, NInv, FrameOK
    <3> QED
      BY <1>1, <3>1, <3>2, EndFacts DEF DInv, NInv, FInv
  <2>3. \A i \in 1 .. End(k) : lexical'[i] = lexical[i]
    BY <1>1, <2>2
  <2> QED
    BY <1>2, <1>3, <2>3, DefersKept
<1>5. ASSUME NEW k \in 1 .. Len(open), k = Len(open) PROVE DefersOK(k)'
  <2>1. End(k) = L
    BY <1>1, <1>5 DEF End
  <2>2. ASSUME k >= 2
        PROVE  Runnable(lexical', deferred', open'[k].defers, Until(k)', End(k)')
    <3>1. Runnable(lexical, deferred, open[k].defers, Until(k), L)
      BY <2>1, <2>2 DEF DInv, DefersOK
    <3>2. From(lexical, L, n) = 0
      <4>1. Fresh(n)
        BY <1>2, <1>5, <2>2 DEF MayDeclare
      <4> QED
        BY <1>0, <4>1, LevelsFind DEF Fresh, DInv, NInv
    <3>3. ASSUME NEW m \in Names, m # n PROVE From(lexical', L, m) = From(lexical, L, m)
      <4>1. \A i \in 1 .. L : lexical'[i][m] = lexical[i][m]
        BY <1>1, <3>3
      <4> QED
        BY <4>1, FromSame
    <3>4. ASSUME NEW i \in open[k].defers + 1 .. Until(k), ~deferred[i].ended
          PROVE  /\ deferred[i].meant # 0
                 /\ From(lexical', L, deferred[i].name) = deferred[i].meant
      <4>1. deferred[i].meant # 0 /\ From(lexical, L, deferred[i].name) = deferred[i].meant
        BY <3>1, <3>4 DEF Runnable
      <4>2. i \in 1 .. Len(deferred)
        BY <1>2, UntilInside
      <4>3. deferred[i].name \in Names
        BY <4>2, Facts DEF DInv, NInv, FInv, DeferredType
      <4>4. deferred[i].name # n
        BY <3>2, <4>1
      <4> QED
        BY <3>3, <4>1, <4>3, <4>4
    <3>5. Runnable(lexical', deferred, open[k].defers, Until(k), L)
      BY <3>4 DEF Runnable
    <3> QED
      BY <1>2, <1>3, <2>1, <3>5
  <2>3. open'[k].defers <= Len(deferred')
    BY <1>2 DEF DInv, DefersOK
  <2> QED
    BY <2>2, <2>3 DEF DefersOK
<1> QED
  BY <1>1, <1>2, <1>4, <1>5 DEF DInv

\* A name is deferred with what it is.
LEMMA DeferDefers ==
    ASSUME DInv, NInv', NEW n \in Names, Defer(n)
    PROVE  DInv'
<1> DEFINE d == [name |-> n, meant |-> lookupSymbol(n), ended |-> FALSE]
<1>1. /\ Len(deferred') = Len(deferred) + 1 /\ deferred'[Len(deferred) + 1] = d
      /\ \A i \in 1 .. Len(deferred) : deferred'[i] = deferred[i]
      /\ Len(deferred) \in Nat /\ Len(open) \in Nat
  BY Facts, DeferType DEF DInv, NInv, FInv
<1>2. UNCHANGED <<lexical, open>> /\ lookupSymbol(n) # 0
  BY DEF Defer
<1>3. \A k \in 1 .. Len(open) : End(k)' = End(k)
  BY <1>2 DEF End
<1>4. /\ d.name = n /\ d.meant = lookupSymbol(n)
      /\ lookupSymbol(n) = From(lexical, Len(lexical), n)
  BY LevelsFind DEF DInv, NInv
<1> HIDE DEF d
<1>5. ASSUME NEW k \in 1 .. Len(open), k # Len(open) PROVE DefersOK(k)'
  <2>1. Until(k)' = Until(k)
    BY <1>2, <1>5 DEF Until
  <2> QED
    BY <1>1, <1>2, <1>3, <2>1, DefersKept
<1>6. ASSUME NEW k \in 1 .. Len(open), k = Len(open) PROVE DefersOK(k)'
  <2>1. /\ End(k) = Len(lexical) /\ Until(k) = Len(deferred) /\ Until(k)' = Len(deferred) + 1
        /\ open[k].defers \in Nat /\ open[k].defers <= Len(deferred)
    BY <1>1, <1>2, <1>6, UntilInside DEF End, Until
  <2>2. ASSUME k >= 2, NEW i \in open[k].defers + 1 .. Len(deferred) + 1, ~deferred'[i].ended
        PROVE  /\ deferred'[i].meant # 0
               /\ From(lexical, Len(lexical), deferred'[i].name) = deferred'[i].meant
    <3>1. CASE i = Len(deferred) + 1
      BY <1>1, <1>2, <1>4, <3>1
    <3>2. CASE i # Len(deferred) + 1
      <4>1. i \in open[k].defers + 1 .. Len(deferred) /\ i \in 1 .. Len(deferred)
        BY <1>1, <2>1, <3>2
      <4>2. Runnable(lexical, deferred, open[k].defers, Len(deferred), Len(lexical))
        BY <2>1, <2>2 DEF DInv, DefersOK
      <4> QED
        BY <1>1, <2>2, <4>1, <4>2 DEF Runnable
    <3> QED
      BY <3>1, <3>2
  <2>3. k >= 2 => Runnable(lexical, deferred', open[k].defers, Len(deferred) + 1, Len(lexical))
    BY <2>2 DEF Runnable
  <2>4. open[k].defers <= Len(deferred')
    BY <1>1, <2>1
  <2>5. End(k)' = Len(lexical)
    BY <1>3, <2>1
  <2> QED
    BY <1>2, <2>1, <2>3, <2>4, <2>5 DEF DefersOK
<1> QED
  BY <1>2, <1>5, <1>6 DEF DInv

\* At the end of a construct what was deferred in it has ended.
LEMMA CloseDefers ==
    ASSUME DInv, Close
    PROVE  DInv'
<1>0. PICK a \in Nat, k \in Nat : a = Len(lexical') /\ k = Len(open)
  BY CloseType, Facts, LenProperties DEF DInv, NInv, FInv, TInv, Typed
<1>1. /\ NInv' /\ Len(lexical') = a /\ a < Len(lexical) /\ Len(lexical) \in Nat
      /\ \A i \in 1 .. a : lexical'[i] = lexical[i]
      /\ k = Len(open) /\ k > 1 /\ Len(open') = k - 1
      /\ \A j \in 1 .. k - 1 : open'[j] = open[j]
      /\ open[k].around = a
      /\ Len(deferred') = Len(deferred) /\ Len(deferred) \in Nat
      /\ \A i \in 1 .. Len(deferred) :
           deferred'[i] = [deferred[i] EXCEPT !.ended = @ \/ i > open[k].defers]
  BY <1>0, Facts, CloseType, CloseAgreed DEF DInv, NInv, FInv, Current
<1>2. ASSUME NEW i \in 1 .. Len(deferred)
      PROVE  /\ deferred'[i].name = deferred[i].name
             /\ deferred'[i].meant = deferred[i].meant
             /\ ~deferred'[i].ended => ~deferred[i].ended /\ ~(i > open[k].defers)
  <2>1. deferred[i] \in [name : Names, meant : Declarations, ended : BOOLEAN]
    BY Facts DEF DInv, NInv, FInv, DeferredType
  <2>2. deferred'[i] = [deferred[i] EXCEPT !.ended = @ \/ i > open[k].defers]
    BY <1>1
  <2> QED
    BY <2>1, <2>2
<1>3. ASSUME NEW j \in 1 .. k - 1
      PROVE  /\ End(j)' = End(j) /\ j \in 1 .. Len(open)
             /\ End(j) <= a /\ End(j) \in Nat
             /\ \A i \in 1 .. End(j) : lexical'[i] = lexical[i]
  <2>1. End(j)' = End(j) /\ j \in 1 .. Len(open)
    BY <1>1, EndPopped DEF DInv, NInv, FInv
  <2>2. End(j) <= a /\ End(j) \in Nat
    <3>1. k \in 1 .. Len(open)
      BY <1>1
    <3>2. End(j) <= open[k].around
      BY <3>1 DEF DInv, NInv, FrameOK
    <3> QED
      BY <1>1, <2>1, <3>2, EndFacts DEF DInv, NInv, FInv
  <2>3. \A i \in 1 .. End(j) : i \in 1 .. a
    BY <2>2
  <2> QED
    BY <1>1, <2>1, <2>2, <2>3
<1>4. ASSUME NEW j \in 1 .. k - 1, j # k - 1 PROVE DefersOK(j)'
  <2>1. Until(j)' = Until(j)
    <3>1. j + 1 \in 1 .. k - 1 /\ j # Len(open) /\ j # Len(open')
      BY <1>1, <1>4
    <3> QED
      BY <1>1, <3>1 DEF Until
  <2>2. /\ j \in 1 .. Len(open) /\ open'[j] = open[j]
        /\ Len(deferred') >= Len(deferred) /\ Len(deferred') \in Nat
    BY <1>1, <1>3
  <2> QED
    BY <1>2, <1>3, <2>1, <2>2, DefersKept
<1>5. ASSUME NEW j \in 1 .. k - 1, j = k - 1 PROVE DefersOK(j)'
  <2>1. /\ Until(j) = open[k].defers /\ Until(j)' = Len(deferred) /\ open'[j] = open[j]
        /\ j \in 1 .. Len(open)
    <3>1. j # Len(open) /\ j = Len(open') /\ j + 1 = k
      BY <1>1, <1>5
    <3> QED
      BY <1>1, <1>3, <3>1 DEF Until
  <2>2. Until(j) \in Nat /\ open[j].defers \in Nat /\ open[j].defers <= Len(deferred)
    BY <2>1, UntilInside
  <2>3. ASSUME j >= 2, NEW i \in open[j].defers + 1 .. Len(deferred), ~deferred'[i].ended
        PROVE  /\ deferred'[i].meant # 0
               /\ From(lexical', End(j), deferred'[i].name) = deferred'[i].meant
    <3>1. i \in 1 .. Len(deferred)
      BY <1>1, <2>2
    <3>2. /\ ~deferred[i].ended /\ i \in open[j].defers + 1 .. Until(j)
          /\ deferred'[i].name = deferred[i].name /\ deferred'[i].meant = deferred[i].meant
      BY <1>2, <2>1, <2>2, <2>3, <3>1
    <3>3. Runnable(lexical, deferred, open[j].defers, Until(j), End(j))
      BY <2>1, <2>3 DEF DInv, DefersOK
    <3>4. From(lexical', End(j), deferred[i].name) = From(lexical, End(j), deferred[i].name)
      <4>1. PICK e \in Nat : e = End(j)
        BY <1>3
      <4>2. \A m \in 1 .. e : lexical'[m] = lexical[m]
        BY <1>3, <4>1
      <4>3. ASSUME NEW n PROVE From(lexical', e, n) = From(lexical, e, n)
        <5>1. \A m \in 1 .. e : lexical'[m][n] = lexical[m][n]
          BY <4>2
        <5> QED
          BY <5>1, FromSame
      <4> QED
        BY <4>1, <4>3
    <3> QED
      BY <3>2, <3>3, <3>4 DEF Runnable
  <2>4. j >= 2 => Runnable(lexical', deferred', open[j].defers, Len(deferred), End(j))
    BY <2>3 DEF Runnable
  <2> QED
    BY <1>1, <1>3, <2>1, <2>2, <2>4 DEF DefersOK
<1> QED
  BY <1>1, <1>4, <1>5 DEF DInv

\* What changes neither the lexical scopes nor the deferred expressions.
LEMMA SameDefers ==
    ASSUME DInv, NInv', UNCHANGED <<lexical, open, deferred>>
    PROVE  DInv'
<1>1. ASSUME NEW k \in 1 .. Len(open) PROVE DefersOK(k)'
  <2>1. DefersOK(k) /\ End(k)' = End(k) /\ Until(k)' = Until(k)
    BY DEF DInv, End, Until
  <2> QED
    BY <2>1 DEF DefersOK
<1> QED
  BY <1>1 DEF DInv

\* Outside of functions nothing is deferred.
LEMMA OutsideDefers ==
    ASSUME NInv', open' = <<>>
    PROVE  DInv'
<1>1. Len(open') = 0
  BY EmptySeq
<1>2. \A k \in 1 .. Len(open') : DefersOK(k)'
  BY <1>1
<1> QED
  BY <1>2 DEF DInv

\* At the beginning nothing is deferred.
LEMMA InitDefers == Init => DInv
<1> SUFFICES ASSUME Init PROVE DInv
  OBVIOUS
<1>1. Len(open) = 0
  BY EmptySeq DEF Init
<1>2. \A k \in 1 .. Len(open) : DefersOK(k)
  BY <1>1
<1> QED
  BY <1>2, InitAgreed DEF DInv

\* Every step keeps what is deferred runnable.
LEMMA DefersStep == ~Hiding /\ DInv /\ [Next]_vars => DInv'
<1> SUFFICES ASSUME ~Hiding, DInv, [Next]_vars PROVE DInv'
  OBVIOUS
<1>0. NInv /\ TInv /\ NInv'
  BY AgreedStep DEF DInv, NInv, FInv
<1>1. CASE \E n \in Names : DeclareGlobal(n)
  <2>1. open' = <<>>
    BY <1>0, <1>1 DEF DeclareGlobal, TInv, NothingOutside
  <2> QED
    BY <1>0, <2>1, OutsideDefers
<1>2. CASE \E names \in SUBSET Names : OpenFunction(names)
  <2>1. PICK names \in SUBSET Names : OpenFunction(names)
    BY <1>2
  <2>2. open = <<>> /\ open' = <<Frame("function", names)>>
    BY <2>1 DEF OpenFunction, InFunction
  <2> QED
    BY <1>0, <2>2, FirstDefers
<1>3. CASE \E own, inherited, names \in SUBSET Names : OpenMethod(own, inherited, names)
  <2>1. PICK own \in SUBSET Names, inherited \in SUBSET Names, names \in SUBSET Names :
          OpenMethod(own, inherited, names)
    BY <1>3
  <2>2. open = <<>> /\ open' = <<Frame("method", names)>>
    BY <2>1 DEF OpenMethod, InFunction
  <2> QED
    BY <1>0, <2>2, FirstDefers
<1>4. CASE \E n \in Names : Declare(n)
  BY <1>4, DeclareDefers
<1>5. CASE OpenBlock
  <2>1. /\ Len(open') = Len(open) + 1 /\ open'[Len(open) + 1] = Frame("block", {})
        /\ \A k \in 1 .. Len(open) : open'[k] = open[k]
        /\ \A i \in 1 .. Len(lexical) : lexical'[i] = lexical[i]
    BY <1>0, <1>5, OpenBlockType
  <2>2. Frame("block", {}).around = Len(lexical) /\ Frame("block", {}).defers = Len(deferred)
    BY <1>0, FrameFacts
  <2>3. deferred' = deferred
    BY <1>5 DEF OpenBlock
  <2> QED
    BY <1>0, <2>1, <2>2, <2>3, DefersPushed
<1>6. CASE \E kind \in DOMAIN Headers, names \in SUBSET Names : OpenHeader(kind, names)
  <2>0. PICK kind \in DOMAIN Headers, names \in SUBSET Names : OpenHeader(kind, names)
    BY <1>6
  <2>1. /\ Len(open') = Len(open) + 1 /\ open'[Len(open) + 1] = Frame(kind, names)
        /\ \A k \in 1 .. Len(open) : open'[k] = open[k]
        /\ \A i \in 1 .. Len(lexical) : lexical'[i] = lexical[i]
    BY <1>0, <2>0, OpenHeaderType
  <2>2. Frame(kind, names).around = Len(lexical) /\ Frame(kind, names).defers = Len(deferred)
    BY DEF Frame
  <2>3. deferred' = deferred
    BY <2>0 DEF OpenHeader
  <2> QED
    BY <1>0, <2>1, <2>2, <2>3, DefersPushed
<1>7. CASE \E n \in Names : Defer(n)
  BY <1>0, <1>7, DeferDefers
<1>8. CASE Close
  BY <1>8, CloseDefers
<1>9. CASE Leave
  BY <1>0, <1>9, SameDefers DEF Leave
<1>10. CASE EndFunction
  BY <1>0, <1>10, OutsideDefers DEF EndFunction
<1>11. CASE UNCHANGED vars
  BY <1>0, <1>11, SameDefers DEF vars
<1> QED
  BY <1>1, <1>2, <1>3, <1>4, <1>5, <1>6, <1>7, <1>8, <1>9, <1>10, <1>11 DEF Next

\* Only the end of a construct inside of a function makes fewer of them.
LEMMA OnlyCloseCloses ==
    ASSUME TInv, Next, Len(open') < Len(open), open' # <<>>
    PROVE  Close
<1>0. Len(open) \in Nat
  BY Facts
<1>1. CASE \E n \in Names : DeclareGlobal(n)
  BY <1>0, <1>1 DEF DeclareGlobal
<1>2. CASE \E names \in SUBSET Names : OpenFunction(names)
  BY <1>0, <1>2, OpenFunctionType, Facts DEF OpenFunction, InFunction
<1>3. CASE \E own, inherited, names \in SUBSET Names : OpenMethod(own, inherited, names)
  BY <1>0, <1>3, OpenMethodType, Facts DEF OpenMethod, InFunction
<1>4. CASE \E n \in Names : Declare(n)
  BY <1>0, <1>4 DEF Declare
<1>5. CASE OpenBlock
  BY <1>0, <1>5, OpenBlockType
<1>6. CASE \E kind \in DOMAIN Headers, names \in SUBSET Names : OpenHeader(kind, names)
  BY <1>0, <1>6, OpenHeaderType
<1>7. CASE \E n \in Names : Defer(n)
  BY <1>0, <1>7 DEF Defer
<1>8. CASE Leave
  BY <1>0, <1>8 DEF Leave
<1>9. CASE EndFunction
  BY <1>9 DEF EndFunction
<1> QED
  BY <1>1, <1>2, <1>3, <1>4, <1>5, <1>6, <1>7, <1>8, <1>9 DEF Next

\* If no block hides a variable of its function, what a block deferred runs at
\* its end with the variables it was analyzed with.
THEOREM DefersRun == ASSUME ~Hiding PROVE Spec => BlocksRunTheirDefers
<1>1. ASSUME DInv, [Next]_vars
      PROVE  [Len(open') < Len(open) /\ open' # <<>>
                => \A use \in emitted' : ~use.ended => use.given = use.meant]_vars
  <2> SUFFICES ASSUME Len(open') < Len(open), open' # <<>>,
                      NEW use \in emitted', ~use.ended
               PROVE  use.given = use.meant
    OBVIOUS
  <2>0. TInv /\ FInv /\ NInv /\ Len(open) \in Nat
    BY <1>1, Facts DEF DInv, NInv, FInv
  <2>1. Close
    <3>1. ~ UNCHANGED vars
      BY <2>0 DEF vars
    <3> QED
      BY <1>1, <2>0, <3>1, OnlyCloseCloses
  <2>2. PICK k \in Nat : k = Len(open)
    BY <2>0
  <2>3. k \in 1 .. Len(open) /\ k >= 2 /\ Current = open[k] /\ open # <<>>
    BY <2>1, <2>2, Facts, <2>0 DEF Close, Current
  <2>4. /\ Until(k) = Len(deferred) /\ End(k) = Len(lexical)
        /\ Len(deferred) \in Nat
        /\ open[k].defers \in Nat
    BY <1>1, <2>0, <2>2, <2>3, UntilInside, Facts DEF Until, End
  <2>5. Runnable(lexical, deferred, open[k].defers, Len(deferred), Len(lexical))
    BY <1>1, <2>3, <2>4 DEF DInv, DefersOK
  <2>6. PICK i \in open[k].defers + 1 .. Len(deferred) :
          use = [meant |-> deferred[i].meant,
                 given |-> generateIdentifier(deferred[i].name),
                 ended |-> deferred[i].ended]
    BY <2>1, <2>3 DEF Close, emitCombinedCleanup
  <2>7. /\ ~deferred[i].ended /\ use.meant = deferred[i].meant
        /\ use.given = generateIdentifier(deferred[i].name)
    BY <2>6
  <2>8. deferred[i].meant # 0
        /\ From(lexical, Len(lexical), deferred[i].name) = deferred[i].meant
    BY <2>5, <2>7 DEF Runnable
  <2>9. deferred[i].name \in Names
    <3>1. i \in 1 .. Len(deferred)
      BY <2>4
    <3> QED
      BY <2>0, <3>1, Facts DEF DeferredType
  <2>10. generateIdentifier(deferred[i].name) = From(lexical, Len(lexical), deferred[i].name)
    BY <2>0, <2>3, <2>8, <2>9 DEF NInv, Agreed, Otherwise, generateIdentifier
  <2> QED
    BY <2>7, <2>8, <2>10
<1>2. DInv /\ [Next]_vars => DInv'
  BY DefersStep
<1> QED
  BY <1>1, <1>2, InitDefers, PTL DEF Spec, BlocksRunTheirDefers
=============================================================================
