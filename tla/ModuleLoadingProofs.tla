-------------------------- MODULE ModuleLoadingProofs --------------------------
(***************************************************************************)
(* Proofs about ModuleLoading, for all modules, paths, import graphs and   *)
(* declarations.                                                           *)
(***************************************************************************)
EXTENDS ModuleLoading, SequenceTheorems, FiniteSetTheorems, TLAPS

(***************************************************************************)
(* The loader.  A module that was loaded is in one place: it waits in the  *)
(* queue of the activation that loaded it, it is the unit of an activation,*)
(* or it has been appended.                                                *)
(***************************************************************************)

\* The program is the unit of the outermost activation and of no other.
ProgramOutermost ==
    /\ status = "loading" => frames # << >>
    /\ \A f \in DOMAIN frames : frames[f].unit = Program <=> f = 1

\* A file is read for an import that has not been loaded.
ReadingWanted == reading => frames # << >> /\ MoreImports /\ Wanted \notin loaded

Queue(f) == frames[f].queue

Waiting(m) == \E f \in DOMAIN frames : \E i \in DOMAIN Queue(f) : Queue(f)[i] = m
Active(u) == \E f \in DOMAIN frames : frames[f].unit = u

UnitsOnce ==
    /\ \A f, g \in DOMAIN frames : frames[f].unit = frames[g].unit => f = g
    /\ \A f \in DOMAIN frames : frames[f].unit \in loaded \cup {Program}

QueuedOnce ==
    \A f \in DOMAIN frames : \A i \in DOMAIN Queue(f) :
        /\ Queue(f)[i] \in loaded
        /\ Queue(f)[i] \notin Appended
        /\ ~Active(Queue(f)[i])
        /\ \A g \in DOMAIN frames : \A j \in DOMAIN Queue(g) :
               Queue(f)[i] = Queue(g)[j] => f = g /\ i = j

LInv ==
    /\ TypeOK
    /\ ProgramOutermost /\ ReadingWanted
    /\ UnitsOnce /\ QueuedOnce /\ AppendedOnce
    /\ Appended \subseteq loaded \cup {Program}

-----------------------------------------------------------------------------
(***************************************************************************)
(* What is linked.                                                         *)
(***************************************************************************)

\* Nothing that was loaded is forgotten.
Kept == \A m \in loaded : m \in Appended \/ Active(m) \/ Waiting(m)

\* The imports of a unit that were visited have been loaded.
ImportsLoaded ==
    /\ \A u \in Appended : Imported(u) \subseteq loaded
    /\ \A f \in DOMAIN frames : \A i \in 1 .. frames[f].next - 1 :
           imports[frames[f].unit][i] \in loaded

\* Only what the program reaches is loaded.
OnlyReached == \A S \in SUBSET Unit : Promise!Closed(S) => loaded \subseteq S

KInv == LInv /\ Kept /\ ImportsLoaded /\ OnlyReached

-----------------------------------------------------------------------------
(* Every module has a parent, the unit that loaded it.                     *)

QueuedByImporter ==
    /\ \A f \in DOMAIN frames : \A i \in DOMAIN Queue(f) :
           Queue(f)[i] \in Imported(frames[f].unit)
    /\ \A f \in DOMAIN frames :
           f > 1 => frames[f].unit \in Imported(frames[f - 1].unit)

ParentsFollow ==
    \A m \in Appended \ {Program} :
        \E p \in Unit : m \in Imported(p) /\ (Active(p) \/ Before(m, p))

LinkedAtEnd == status = "linked" => frames = << >>

PInv == KInv /\ QueuedByImporter /\ ParentsFollow /\ LinkedAtEnd

-----------------------------------------------------------------------------
LinksDiffer ==
    \A d, e \in Result \cup DeclsOf(Program) :
        /\ d # e /\ d.unit # Program
        /\ Kind(d) \in Compared /\ Kind(e) \in Compared
        => LinkName(d) # LinkName(e)

NInv == LInv /\ LinksDiffer
-----------------------------------------------------------------------------
(* Lemmas about the stack of activations *)

\* Every activation is a frame, and its index of the next import is in range.
LEMMA FrameFacts ==
    ASSUME TypeOK
    PROVE  /\ Len(frames) \in Nat /\ DOMAIN frames = 1 .. Len(frames)
           /\ \A f \in 1 .. Len(frames) :
                 /\ frames[f] \in Frame
                 /\ frames[f].unit \in Unit /\ frames[f].next \in Nat
                 /\ frames[f].queue \in Seq(Modules)
                 /\ Len(frames[f].queue) \in Nat
                 /\ DOMAIN frames[f].queue = 1 .. Len(frames[f].queue)
                 /\ \A i \in 1 .. Len(frames[f].queue) : frames[f].queue[i] \in Modules
                 /\ imports[frames[f].unit] \in Seq(Modules)
                 /\ Len(imports[frames[f].unit]) \in Nat
                 /\ DOMAIN imports[frames[f].unit] = 1 .. Len(imports[frames[f].unit])
                 /\ frames[f].next \in 1 .. Len(imports[frames[f].unit]) + 1
<1>1. Len(frames) \in Nat /\ DOMAIN frames = 1 .. Len(frames)
  BY LenProperties DEF TypeOK
<1> SUFFICES ASSUME NEW f \in 1 .. Len(frames)
             PROVE  /\ frames[f] \in Frame
                    /\ frames[f].unit \in Unit /\ frames[f].next \in Nat
                    /\ frames[f].queue \in Seq(Modules)
                    /\ Len(frames[f].queue) \in Nat
                    /\ DOMAIN frames[f].queue = 1 .. Len(frames[f].queue)
                    /\ \A i \in 1 .. Len(frames[f].queue) :
                           frames[f].queue[i] \in Modules
                    /\ imports[frames[f].unit] \in Seq(Modules)
                    /\ Len(imports[frames[f].unit]) \in Nat
                    /\ DOMAIN imports[frames[f].unit]
                          = 1 .. Len(imports[frames[f].unit])
                    /\ frames[f].next \in 1 .. Len(imports[frames[f].unit]) + 1
  BY <1>1
<1>2. frames[f] \in Frame
  BY <1>1, ElementOfSeq DEF TypeOK
<1>3. /\ frames[f].unit \in Unit /\ frames[f].next \in Nat
      /\ frames[f].queue \in Seq(Modules)
  BY <1>2 DEF Frame
<1>4. imports[frames[f].unit] \in Seq(Modules)
  BY <1>3 DEF TypeOK, Imports
<1>5. \A i \in 1 .. Len(frames[f].queue) : frames[f].queue[i] \in Modules
  BY <1>3, ElementOfSeq
<1>6. /\ Len(frames[f].queue) \in Nat
      /\ DOMAIN frames[f].queue = 1 .. Len(frames[f].queue)
  BY <1>3, LenProperties
<1>7. /\ Len(imports[frames[f].unit]) \in Nat
      /\ DOMAIN imports[frames[f].unit] = 1 .. Len(imports[frames[f].unit])
  BY <1>4, LenProperties
<1> QED
  BY <1>1, <1>2, <1>3, <1>4, <1>5, <1>6, <1>7 DEF TypeOK

\* What is known of the import at hand.
LEMMA WantedFacts ==
    ASSUME TypeOK, frames # << >>
    PROVE  /\ Len(frames) \in 1 .. Len(frames)
           /\ MoreImports <=> TopFrame.next \in 1 .. Len(imports[TopFrame.unit])
           /\ MoreImports => Wanted \in Modules
<1>1. Len(frames) \in 1 .. Len(frames)
  BY EmptySeq, FrameFacts DEF TypeOK
<1>2. MoreImports <=> TopFrame.next \in 1 .. Len(imports[TopFrame.unit])
  BY <1>1, FrameFacts DEF TopFrame, MoreImports
<1>3. imports[TopFrame.unit] \in Seq(Modules)
  BY <1>1, FrameFacts DEF TopFrame
<1>4. MoreImports => Wanted \in Modules
  BY <1>2, <1>3, ElementOfSeq DEF Wanted
<1> QED
  BY <1>1, <1>2, <1>4

\* A frame after one more import.
LEMMA FrameAfter ==
    ASSUME NEW r \in Frame, NEW more \in Seq(Modules)
    PROVE  LET new == [r EXCEPT !.next = @ + 1, !.queue = @ \o more] IN
           /\ new \in Frame /\ new.unit = r.unit
           /\ new.next = r.next + 1 /\ new.queue = r.queue \o more
<1> DEFINE passed == [r EXCEPT !.next = @ + 1]
           new == [r EXCEPT !.next = @ + 1, !.queue = @ \o more]
<1>1. r.unit \in Unit /\ r.next \in Nat /\ r.queue \in Seq(Modules)
  BY DEF Frame
<1>2. r.queue \o more \in Seq(Modules) /\ r.next + 1 \in Nat
  BY <1>1, ConcatProperties
<1>3. passed = [unit |-> r.unit, next |-> r.next + 1, queue |-> r.queue]
  BY DEF Frame
<1>4. /\ passed \in Frame /\ passed.unit = r.unit
      /\ passed.next = r.next + 1 /\ passed.queue = r.queue
  BY <1>1, <1>2, <1>3 DEF Frame
<1>5. new = [passed EXCEPT !.queue = r.queue \o more]
  BY <1>4, Zenon
<1> HIDE DEF passed, new
<1> QED
  BY <1>2, <1>4, <1>5 DEF Frame, new

\* Advance changes the index and the queue of the top frame.
LEMMA AdvanceFacts ==
    ASSUME TypeOK, frames # << >>, MoreImports, NEW more \in Seq(Modules),
           Advance(more)
    PROVE  /\ frames' \in Seq(Frame) /\ Len(frames') = Len(frames)
           /\ DOMAIN frames' = 1 .. Len(frames) /\ frames' # << >>
           /\ \A f \in 1 .. Len(frames) :
                 /\ frames'[f].unit = frames[f].unit
                 /\ f # Len(frames) => frames'[f] = frames[f]
           /\ frames'[Len(frames)].next = TopFrame.next + 1
           /\ frames'[Len(frames)].queue = TopFrame.queue \o more
<1> DEFINE L == Len(frames)
           new == [TopFrame EXCEPT !.next = @ + 1, !.queue = @ \o more]
<1>1. L \in 1 .. L /\ L \in Nat /\ TopFrame \in Frame /\ frames \in Seq(Frame)
  BY FrameFacts, WantedFacts DEF TopFrame, TypeOK
<1>3. /\ new \in Frame /\ new.unit = TopFrame.unit
      /\ new.next = TopFrame.next + 1 /\ new.queue = TopFrame.queue \o more
  BY <1>1, FrameAfter
<1>4. frames' = [frames EXCEPT ![L] = new]
  BY DEF Advance, TopFrame
<1> HIDE DEF new
<1>5. /\ frames' \in Seq(Frame) /\ Len(frames') = L
      /\ \A f \in 1 .. L : frames'[f] = IF f = L THEN new ELSE frames[f]
  BY <1>1, <1>3, <1>4, ExceptSeq
<1>6. DOMAIN frames' = 1 .. L /\ frames' # << >>
  BY <1>1, <1>5, LenProperties, EmptySeq
<1> QED
  BY <1>1, <1>3, <1>5, <1>6 DEF TopFrame

\* Descend takes the head of the top frame's queue and opens a frame for it.
LEMMA DescendFacts ==
    ASSUME TypeOK, frames # << >>, Descend
    PROVE  LET child == Head(TopFrame.queue) IN
           /\ frames' \in Seq(Frame) /\ Len(frames') = Len(frames) + 1
           /\ DOMAIN frames' = 1 .. Len(frames) + 1 /\ frames' # << >>
           /\ \A f \in 1 .. Len(frames) :
                 /\ frames'[f].unit = frames[f].unit
                 /\ frames'[f].next = frames[f].next
                 /\ f # Len(frames) => frames'[f] = frames[f]
           /\ frames'[Len(frames)].queue = Tail(TopFrame.queue)
           /\ frames'[Len(frames) + 1] = FrameOf(child)
           /\ child \in Modules /\ child = TopFrame.queue[1]
           /\ Len(TopFrame.queue) \in Nat \ {0}
           /\ DOMAIN Tail(TopFrame.queue) = 1 .. Len(TopFrame.queue) - 1
           /\ \A i \in 1 .. Len(TopFrame.queue) - 1 :
                  Tail(TopFrame.queue)[i] = TopFrame.queue[i + 1]
<1> DEFINE L == Len(frames)
           child == Head(TopFrame.queue)
           new == [TopFrame EXCEPT !.queue = Tail(@)]
           under == [frames EXCEPT ![L] = new]
<1>1. L \in 1 .. L /\ L \in Nat /\ TopFrame \in Frame /\ frames \in Seq(Frame)
  BY FrameFacts, WantedFacts DEF TopFrame, TypeOK
<1>2. TopFrame.queue \in Seq(Modules) /\ TopFrame.queue # << >>
  BY <1>1 DEF Frame, Descend
<1>3. /\ child \in Modules /\ Tail(TopFrame.queue) \in Seq(Modules)
      /\ Len(Tail(TopFrame.queue)) = Len(TopFrame.queue) - 1
      /\ \A i \in 1 .. Len(TopFrame.queue) - 1 :
             Tail(TopFrame.queue)[i] = TopFrame.queue[i + 1]
      /\ Len(TopFrame.queue) \in Nat \ {0}
      /\ DOMAIN Tail(TopFrame.queue) = 1 .. Len(TopFrame.queue) - 1
  BY <1>2, HeadTailProperties, EmptySeq, LenProperties
<1>4. child = TopFrame.queue[1]
  BY <1>2
<1>5. /\ new \in Frame /\ new.unit = TopFrame.unit
      /\ new.next = TopFrame.next /\ new.queue = Tail(TopFrame.queue)
  BY <1>1, <1>3 DEF Frame
<1>6. FrameOf(child) \in Frame
  BY <1>3, EmptySeq DEF FrameOf, Frame, Unit
<1>7. frames' = Append(under, FrameOf(child))
  BY DEF Descend, TopFrame
<1> HIDE DEF new, child
<1>8. /\ under \in Seq(Frame) /\ Len(under) = L
      /\ \A f \in 1 .. L : under[f] = IF f = L THEN new ELSE frames[f]
  BY <1>1, <1>5, ExceptSeq
<1> HIDE DEF under
<1>9. /\ frames' \in Seq(Frame) /\ Len(frames') = L + 1
      /\ \A f \in 1 .. L : frames'[f] = IF f = L THEN new ELSE frames[f]
      /\ frames'[L + 1] = FrameOf(child) /\ frames' # << >>
  BY <1>1, <1>6, <1>7, <1>8, AppendProperties
<1>10. DOMAIN frames' = 1 .. L + 1
  BY <1>9, LenProperties
<1> QED
  BY <1>1, <1>3, <1>4, <1>5, <1>9, <1>10 DEF TopFrame, child

\* Leaving out the last elements of a sequence leaves the first.
LEMMA FirstElements ==
    ASSUME NEW S, NEW q \in Seq(S), NEW k \in 0 .. Len(q)
    PROVE  /\ SubSeq(q, 1, k) \in Seq(S)
           /\ Len(SubSeq(q, 1, k)) = k
           /\ \A i \in 1 .. k : SubSeq(q, 1, k)[i] = q[i]
<1>1. \A i \in 1 .. k : q[i] \in S
  BY ElementOfSeq
<1> QED
  BY <1>1, SubSeqProperties

\* An activation that ends leaves the ones under it as they are.
LEMMA ReturnFacts ==
    ASSUME TypeOK, frames # << >>, frames' = Return
    PROVE  /\ frames' \in Seq(Frame) /\ Len(frames') = Len(frames) - 1
           /\ DOMAIN frames' = 1 .. Len(frames) - 1
           /\ \A f \in 1 .. Len(frames) - 1 : frames'[f] = frames[f]
           /\ frames' = << >> <=> Len(frames) = 1
<1>1. Len(frames) \in Nat \ {0} /\ Len(frames) - 1 \in 0 .. Len(frames)
  BY FrameFacts, WantedFacts
<1>2. /\ frames' \in Seq(Frame) /\ Len(frames') = Len(frames) - 1
      /\ \A f \in 1 .. Len(frames) - 1 : frames'[f] = frames[f]
  BY <1>1, FirstElements DEF Return, TypeOK
<1> QED
  BY <1>1, <1>2, LenProperties, EmptySeq

\* One more unit is appended.
LEMMA AppendFacts ==
    ASSUME TypeOK, NEW u \in Unit, appended' = Append(appended, u)
    PROVE  /\ appended' \in Seq(Unit) /\ Len(appended) \in Nat
           /\ DOMAIN appended = 1 .. Len(appended)
           /\ DOMAIN appended' = 1 .. Len(appended) + 1
           /\ \A i \in 1 .. Len(appended) : appended'[i] = appended[i]
           /\ appended'[Len(appended) + 1] = u
           /\ Appended' = Appended \cup {u}
<1>1. appended \in Seq(Unit)
  BY DEF TypeOK
<1>2. /\ appended' \in Seq(Unit) /\ Len(appended) \in Nat
      /\ DOMAIN appended = 1 .. Len(appended)
      /\ DOMAIN appended' = 1 .. Len(appended) + 1
      /\ \A i \in 1 .. Len(appended) : appended'[i] = appended[i]
      /\ appended'[Len(appended) + 1] = u
  BY <1>1, AppendProperties, LenProperties
<1>3. Appended' = Appended \cup {u}
  BY <1>2 DEF Appended
<1> QED
  BY <1>2, <1>3

-----------------------------------------------------------------------------
(* Every module is in one place *)

\* Steps that leave the units and the queues of the frames alone.
LEMMA SamePlaces ==
    ASSUME LInv, DOMAIN frames' = DOMAIN frames,
           \A f \in DOMAIN frames : /\ frames'[f].unit = frames[f].unit
                                    /\ frames'[f].queue = frames[f].queue,
           UNCHANGED <<loaded, appended>>, TypeOK', ReadingWanted',
           frames # << >>, frames' # << >>
    PROVE  LInv'
<1>1. ProgramOutermost' /\ UnitsOnce'
  BY DEF LInv, ProgramOutermost, UnitsOnce
<1>2. Appended' = Appended /\ AppendedOnce'
  BY DEF LInv, AppendedOnce, Appended
<1>3. QueuedOnce'
  BY <1>2 DEF LInv, QueuedOnce, Queue, Active
<1> QED
  BY <1>1, <1>2, <1>3 DEF LInv

\* While imports are loaded there is an activation.
LEMMA LoadingHasFrame ==
    ASSUME LInv, status = "loading"
    PROVE  /\ TypeOK /\ frames # << >> /\ Len(frames) \in 1 .. Len(frames)
           /\ Len(frames) \in Nat /\ DOMAIN frames = 1 .. Len(frames)
  BY WantedFacts, FrameFacts DEF LInv, ProgramOutermost

LEMMA LInvInit == Init => LInv
<1> SUFFICES ASSUME Init PROVE LInv
  OBVIOUS
<1>1. imports \in Imports /\ decls \in Decls
  BY SourcesAssumption DEF Init
<1>2. FrameOf(Program) \in Frame
  BY EmptySeq DEF FrameOf, Frame, Unit
<1>3. /\ frames = << FrameOf(Program) >> /\ frames \in Seq(Frame)
      /\ DOMAIN frames = {1} /\ frames[1] = FrameOf(Program)
  BY <1>2 DEF Init
<1>4. Len(imports[Program]) \in Nat
  BY <1>1, LenProperties DEF Imports, Unit
<1>5. TypeOK
  <2>1. \A f \in DOMAIN frames :
             frames[f].next \in 1 .. Len(imports[frames[f].unit]) + 1
    BY <1>3, <1>4 DEF FrameOf
  <2>2. appended \in Seq(Unit) /\ frames \in Seq(Frame)
    BY <1>3, EmptySeq DEF Init
  <2> QED
    BY <1>1, <2>1, <2>2 DEF Init, TypeOK, Status
<1>6. /\ frames[1].unit = Program /\ frames[1].queue = << >>
      /\ DOMAIN appended = {} /\ Appended = {} /\ frames # << >>
  BY <1>3 DEF FrameOf, Init, Appended
<1> QED
  BY <1>3, <1>5, <1>6
  DEF Init, LInv, ProgramOutermost, ReadingWanted, UnitsOnce, QueuedOnce,
      AppendedOnce, Queue, Active

\* The steps that read a file, or end without a program.
LEMMA LInvRead ==
    ASSUME LInv, BeginLoad \/ LoadFails \/ RejectDuplicate
    PROVE  LInv'
<1>1. /\ status = "loading"
      /\ UNCHANGED <<imports, decls, loaded, frames, appended>>
  BY DEF BeginLoad, LoadFails, RejectDuplicate, Ready, Source
<1>2. TypeOK /\ frames # << >> /\ (MoreImports => Wanted \in Modules)
  BY <1>1, LoadingHasFrame, WantedFacts
<1>3. TypeOK'
  BY <1>1, <1>2 DEF TypeOK, BeginLoad, LoadFails, RejectDuplicate, Status
<1>4. ReadingWanted'
  BY <1>1, <1>2 DEF LInv, ReadingWanted, BeginLoad, LoadFails, RejectDuplicate,
                    MoreImports, Wanted, TopFrame
<1> QED
  BY <1>1, <1>2, <1>3, <1>4, SamePlaces

\* The typing of the step past an import.
LEMMA AdvanceType ==
    ASSUME TypeOK, frames # << >>, MoreImports, NEW more \in Seq(Modules),
           Advance(more), UNCHANGED <<imports, decls, appended, status>>,
           reading' \in BOOLEAN, loaded' \subseteq Modules,
           loading' \subseteq Modules
    PROVE  TypeOK'
<1>1. frames' \in Seq(Frame)
  BY AdvanceFacts
<1>2. ASSUME NEW f \in DOMAIN frames'
      PROVE  frames'[f].next \in 1 .. Len(imports'[frames'[f].unit]) + 1
  <2>1. f \in 1 .. Len(frames) /\ frames'[f].unit = frames[f].unit
    BY AdvanceFacts
  <2>2. CASE f = Len(frames)
    <3>1. /\ TopFrame.next \in 1 .. Len(imports[TopFrame.unit])
          /\ Len(imports[TopFrame.unit]) \in Nat
      BY <2>1, <2>2, WantedFacts, FrameFacts DEF TopFrame
    <3>2. frames'[f].next = TopFrame.next + 1 /\ frames[f] = TopFrame
      BY <2>2, AdvanceFacts DEF TopFrame
    <3> QED
      BY <2>1, <3>1, <3>2
  <2>3. CASE f # Len(frames)
    BY <2>1, <2>3, AdvanceFacts, FrameFacts
  <2> QED
    BY <2>2, <2>3
<1> QED
  BY <1>1, <1>2 DEF TypeOK

LEMMA LInvAgain ==
    ASSUME LInv, LoadAgain
    PROVE  LInv'
<1>1. /\ status = "loading" /\ ~reading /\ MoreImports /\ Advance(<< >>)
      /\ UNCHANGED <<imports, decls, loaded, loading, reading, appended, status>>
  BY DEF LoadAgain, Source
<1>2. TypeOK /\ frames # << >> /\ << >> \in Seq(Modules)
  BY <1>1, LoadingHasFrame, EmptySeq
<1>3. TypeOK'
  BY <1>1, <1>2, AdvanceType DEF TypeOK
<1>4. TopFrame.queue \o << >> = TopFrame.queue
  BY <1>1, <1>2, LoadingHasFrame, FrameFacts, ConcatEmptySeq DEF TopFrame
<1>5. /\ DOMAIN frames' = DOMAIN frames /\ frames' # << >>
      /\ \A f \in DOMAIN frames : /\ frames'[f].unit = frames[f].unit
                                  /\ frames'[f].queue = frames[f].queue
  BY <1>1, <1>2, <1>4, AdvanceFacts, LoadingHasFrame DEF TopFrame
<1>6. ReadingWanted'
  BY <1>1 DEF ReadingWanted
<1> QED
  BY <1>1, <1>2, <1>3, <1>5, <1>6, SamePlaces

\* The module that was read waits at the end of the top frame's queue.
LEMMA EndLoadFacts ==
    ASSUME LInv, EndLoad
    PROVE  /\ TypeOK' /\ frames' # << >> /\ DOMAIN frames' = DOMAIN frames
           /\ Wanted \in Modules /\ Wanted \in Imported(TopFrame.unit)
           /\ Wanted \notin loaded
           /\ loaded' = loaded \cup {Wanted} /\ status = "loading"
           /\ UNCHANGED <<imports, decls, appended, status>> /\ reading' = FALSE
           /\ \A f \in DOMAIN frames :
                 /\ frames'[f].unit = frames[f].unit
                 /\ f # Len(frames) => frames'[f] = frames[f]
           /\ DOMAIN frames'[Len(frames)].queue = 1 .. Len(TopFrame.queue) + 1
           /\ \A i \in 1 .. Len(TopFrame.queue) :
                 frames'[Len(frames)].queue[i] = TopFrame.queue[i]
           /\ frames'[Len(frames)].queue[Len(TopFrame.queue) + 1] = Wanted
           /\ frames'[Len(frames)].next = TopFrame.next + 1
<1>1. /\ status = "loading" /\ reading /\ reading' = FALSE
      /\ Advance(<<Wanted>>) /\ loaded' = loaded \cup {Wanted}
      /\ loading' = loading \ {Wanted}
      /\ UNCHANGED <<imports, decls, appended, status>>
  BY DEF EndLoad, Source
<1>2. /\ TypeOK /\ frames # << >> /\ MoreImports /\ Wanted \notin loaded
      /\ Len(frames) \in DOMAIN frames /\ DOMAIN frames = 1 .. Len(frames)
  BY <1>1, LoadingHasFrame DEF LInv, ReadingWanted
<1>3. Wanted \in Modules
  BY <1>2, WantedFacts
<1>4. <<Wanted>> \in Seq(Modules)
  BY <1>3
<1>5. TypeOK'
  BY <1>1, <1>2, <1>3, <1>4, AdvanceType DEF TypeOK
<1>6. Wanted \in Imported(TopFrame.unit)
  BY <1>2 DEF Imported, Wanted, MoreImports
<1>7. TopFrame.queue \in Seq(Modules) /\ Len(TopFrame.queue) \in Nat
  BY <1>2, FrameFacts DEF TopFrame
<1> DEFINE q == TopFrame.queue \o <<Wanted>>
<1>8. /\ q \in Seq(Modules) /\ Len(q) = Len(TopFrame.queue) + 1
      /\ \A i \in 1 .. Len(TopFrame.queue) : q[i] = TopFrame.queue[i]
      /\ q[Len(TopFrame.queue) + 1] = Wanted
  BY <1>3, <1>4, <1>7, ConcatProperties
<1>9. DOMAIN q = 1 .. Len(TopFrame.queue) + 1
  BY <1>8, LenProperties
<1>10. frames'[Len(frames)].queue = q
  BY <1>1, <1>2, <1>4, AdvanceFacts
<1> HIDE DEF q
<1>11. /\ frames' # << >> /\ DOMAIN frames' = DOMAIN frames
       /\ \A f \in DOMAIN frames : /\ frames'[f].unit = frames[f].unit
                                   /\ f # Len(frames) => frames'[f] = frames[f]
       /\ frames'[Len(frames)].next = TopFrame.next + 1
  BY <1>1, <1>2, <1>4, AdvanceFacts
<1> QED
  BY <1>1, <1>2, <1>3, <1>5, <1>6, <1>8, <1>9, <1>10, <1>11

LEMMA LInvEnd ==
    ASSUME LInv, EndLoad
    PROVE  LInv'
<1> DEFINE L == Len(frames)
           K == Len(TopFrame.queue)
<1>0. /\ appended' = appended /\ DOMAIN frames' = DOMAIN frames
      /\ \A f \in DOMAIN frames : frames'[f].unit = frames[f].unit
      /\ Wanted \in Modules /\ Wanted \notin loaded
  BY EndLoadFacts
<1>1. /\ Appended' = Appended /\ AppendedOnce'
      /\ Appended \subseteq loaded \cup {Program}
  <2>1. Appended' = Appended
    BY <1>0 DEF Appended
  <2> QED
    BY <1>0, <2>1 DEF LInv, AppendedOnce
<1>2. ProgramOutermost' /\ ReadingWanted'
  BY EndLoadFacts DEF LInv, ProgramOutermost, ReadingWanted
<1>3. UnitsOnce'
  BY EndLoadFacts DEF LInv, UnitsOnce
<1>4. /\ Wanted \notin Appended' /\ Wanted # Program
      /\ \A f \in DOMAIN frames : frames[f].unit # Wanted
      /\ \A f \in DOMAIN frames : \A i \in DOMAIN Queue(f) : Queue(f)[i] # Wanted
  <2>1. Wanted # Program /\ Wanted \notin Appended'
    BY <1>0, <1>1, ProgramAssumption
  <2> QED
    BY <1>0, <2>1 DEF LInv, UnitsOnce, QueuedOnce
<1>5. /\ L \in DOMAIN frames /\ Queue(L) = TopFrame.queue
      /\ DOMAIN Queue(L) = 1 .. K /\ K \in Nat
  BY EndLoadFacts, LoadingHasFrame, FrameFacts DEF Queue, TopFrame
<1>6. ASSUME NEW f \in DOMAIN frames, NEW i \in DOMAIN Queue(f)'
      PROVE  \/ i \in DOMAIN Queue(f) /\ Queue(f)'[i] = Queue(f)[i]
             \/ f = L /\ i = K + 1 /\ Queue(f)'[i] = Wanted
  <2>1. CASE f # L
    BY <2>1, EndLoadFacts DEF Queue
  <2>2. CASE f = L
    <3>1. i \in 1 .. K \/ i = K + 1
      BY <1>5, <1>6, <2>2, EndLoadFacts DEF Queue
    <3> QED
      BY <1>5, <2>2, <3>1, EndLoadFacts DEF Queue
  <2> QED
    BY <2>1, <2>2
<1>7. QueuedOnce'
  <2> SUFFICES ASSUME NEW f \in DOMAIN frames, NEW i \in DOMAIN Queue(f)'
               PROVE  /\ Queue(f)'[i] \in loaded'
                      /\ Queue(f)'[i] \notin Appended'
                      /\ \A g \in DOMAIN frames : frames[g].unit # Queue(f)'[i]
                      /\ \A g \in DOMAIN frames : \A j \in DOMAIN Queue(g)' :
                             Queue(f)'[i] = Queue(g)'[j] => f = g /\ i = j
    BY EndLoadFacts DEF QueuedOnce, Active
  <2>1. CASE i \in DOMAIN Queue(f) /\ Queue(f)'[i] = Queue(f)[i]
    <3>1. /\ Queue(f)[i] \in loaded /\ Queue(f)[i] \notin Appended
          /\ Queue(f)[i] # Wanted
          /\ \A g \in DOMAIN frames : frames[g].unit # Queue(f)[i]
          /\ \A g \in DOMAIN frames : \A j \in DOMAIN Queue(g) :
                 Queue(f)[i] = Queue(g)[j] => f = g /\ i = j
      BY <1>4, <2>1 DEF LInv, QueuedOnce, Active
    <3> QED
      BY <1>1, <1>6, <2>1, <3>1, EndLoadFacts
  <2>2. CASE f = L /\ i = K + 1 /\ Queue(f)'[i] = Wanted
    BY <1>4, <1>6, <2>2, EndLoadFacts
  <2> QED
    BY <1>6, <2>1, <2>2
<1> QED
  BY <1>1, <1>2, <1>3, <1>7, EndLoadFacts DEF LInv

\* The child leaves the queue of its importer and becomes the unit on top.
LEMMA DescendPlaces ==
    ASSUME LInv, Descend
    PROVE  LET L == Len(frames)
               K == Len(TopFrame.queue)
               child == TopFrame.queue[1] IN
           /\ frames # << >> /\ frames' # << >> /\ status = "loading"
           /\ L \in DOMAIN frames /\ L \in Nat /\ K \in Nat \ {0}
           /\ DOMAIN frames = 1 .. L /\ DOMAIN frames' = 1 .. L + 1
           /\ Queue(L) = TopFrame.queue /\ DOMAIN Queue(L) = 1 .. K
           /\ child = Queue(L)[1] /\ child \in Modules /\ child # Program
           /\ \A f \in DOMAIN frames : /\ frames'[f].unit = frames[f].unit
                                       /\ frames'[f].next = frames[f].next
           /\ \A f \in DOMAIN frames : f # L => frames'[f].queue = Queue(f)
           /\ DOMAIN frames'[L].queue = 1 .. K - 1
           /\ \A i \in 1 .. K - 1 : frames'[L].queue[i] = Queue(L)[i + 1]
           /\ frames'[L + 1] = FrameOf(child) /\ DOMAIN frames'[L + 1].queue = {}
           /\ UNCHANGED <<imports, decls, loaded, loading, reading, appended, status>>
<1> DEFINE L == Len(frames)
           child == TopFrame.queue[1]
<1>1. /\ status = "loading"
      /\ UNCHANGED <<imports, decls, loaded, loading, reading, appended, status>>
  BY DEF Descend, Ready, Source
<1>2. /\ TypeOK /\ frames # << >> /\ L \in DOMAIN frames /\ L \in Nat
      /\ DOMAIN frames = 1 .. L
  BY <1>1, LoadingHasFrame
<1>3. DOMAIN TopFrame.queue = 1 .. Len(TopFrame.queue)
  BY <1>2, FrameFacts DEF TopFrame
<1>4. /\ frames' # << >> /\ DOMAIN frames' = 1 .. L + 1
      /\ \A f \in 1 .. L : /\ frames'[f].unit = frames[f].unit
                           /\ frames'[f].next = frames[f].next
                           /\ f # L => frames'[f] = frames[f]
      /\ frames'[L].queue = Tail(TopFrame.queue)
      /\ frames'[L + 1] = FrameOf(child) /\ child \in Modules
      /\ Len(TopFrame.queue) \in Nat \ {0}
  BY <1>2, DescendFacts
<1>5. /\ DOMAIN Tail(TopFrame.queue) = 1 .. Len(TopFrame.queue) - 1
      /\ \A i \in 1 .. Len(TopFrame.queue) - 1 :
             Tail(TopFrame.queue)[i] = TopFrame.queue[i + 1]
  BY <1>2, DescendFacts
<1>6. /\ Queue(L) = TopFrame.queue
      /\ \A f \in DOMAIN frames : f # L => frames'[f].queue = Queue(f)
      /\ frames'[L + 1].queue = << >>
  <2>1. \A c : FrameOf(c).queue = << >>
    BY DEF FrameOf
  <2>2. Queue(L) = TopFrame.queue
    BY DEF Queue, TopFrame
  <2> QED
    BY <1>2, <1>4, <2>1, <2>2 DEF Queue
<1>7. child # Program /\ DOMAIN frames'[L + 1].queue = {}
  BY <1>4, <1>6, ProgramAssumption
<1> QED
  BY <1>1, <1>2, <1>3, <1>4, <1>5, <1>6, <1>7

LEMMA LInvDescend ==
    ASSUME LInv, Descend
    PROVE  LInv'
<1>0. PICK L, K, child : /\ L = Len(frames) /\ K = Len(TopFrame.queue)
                         /\ child = TopFrame.queue[1]
  OBVIOUS
<1>1. /\ L \in DOMAIN frames /\ L \in Nat /\ K \in Nat \ {0}
      /\ DOMAIN frames = 1 .. L /\ DOMAIN frames' = 1 .. L + 1
      /\ \A f \in DOMAIN frames : frames'[f].unit = frames[f].unit
      /\ frames'[L + 1].unit = child /\ child # Program
      /\ UNCHANGED <<loaded, appended, status, reading>> /\ frames' # << >>
  BY <1>0, DescendPlaces DEF FrameOf
<1>2. /\ DOMAIN Queue(L) = 1 .. K /\ child = Queue(L)[1]
      /\ \A f \in DOMAIN frames : f # L => Queue(f)' = Queue(f)
      /\ DOMAIN Queue(L)' = 1 .. K - 1
      /\ \A i \in 1 .. K - 1 : Queue(L)'[i] = Queue(L)[i + 1]
      /\ DOMAIN Queue(L + 1)' = {}
  BY <1>0, DescendPlaces DEF Queue
<1>3. TypeOK'
  <2>1. TypeOK /\ frames # << >>
    BY DescendPlaces DEF LInv
  <2>2. frames' \in Seq(Frame)
    BY <2>1, DescendFacts
  <2>3. \A f \in DOMAIN frames' :
            frames'[f].next \in 1 .. Len(imports'[frames'[f].unit]) + 1
    <3> SUFFICES ASSUME NEW f \in DOMAIN frames'
                 PROVE  frames'[f].next \in 1 .. Len(imports[frames'[f].unit]) + 1
      BY DescendPlaces
    <3>1. CASE f \in DOMAIN frames
      BY <2>1, <3>1, DescendPlaces, FrameFacts
    <3>2. CASE f = L + 1
      <4>1. frames'[f].next = 1 /\ frames'[f].unit = child /\ child \in Modules
        BY <1>0, <3>2, DescendPlaces DEF FrameOf
      <4>2. imports[child] \in Seq(Modules)
        BY <2>1, <4>1 DEF TypeOK, Imports, Unit
      <4> QED
        BY <4>1, <4>2, LenProperties
    <3> QED
      BY <1>1, <3>1, <3>2
  <2> QED
    BY <2>1, <2>2, <2>3, DescendPlaces DEF TypeOK
<1>4. /\ child \in loaded /\ child \notin Appended
      /\ \A f \in DOMAIN frames : frames[f].unit # child
      /\ \A f \in DOMAIN frames : \A i \in DOMAIN Queue(f) :
             Queue(f)[i] = child => f = L /\ i = 1
  BY <1>1, <1>2 DEF LInv, QueuedOnce, Active
<1>5. ProgramOutermost' /\ ReadingWanted'
  <2>1. ~reading'
    BY <1>1 DEF Descend, Ready
  <2> QED
    BY <1>1, <2>1 DEF LInv, ProgramOutermost, ReadingWanted
<1>6. UnitsOnce'
  BY <1>1, <1>4 DEF LInv, UnitsOnce
<1>7. Appended' = Appended /\ AppendedOnce'
  <2>1. Appended' = Appended
    BY <1>1 DEF Appended
  <2> QED
    BY <1>1, <1>4, <2>1 DEF LInv, AppendedOnce
<1>8. ASSUME NEW f \in DOMAIN frames', NEW i \in DOMAIN Queue(f)'
      PROVE  /\ f \in DOMAIN frames
             /\ \/ f # L /\ i \in DOMAIN Queue(f) /\ Queue(f)'[i] = Queue(f)[i]
                \/ /\ f = L /\ i \in Nat /\ i + 1 \in DOMAIN Queue(f) /\ i + 1 # 1
                   /\ Queue(f)'[i] = Queue(f)[i + 1]
  <2>1. f \in DOMAIN frames
    BY <1>1, <1>2, <1>8
  <2>2. CASE f # L
    BY <1>2, <1>8, <2>1, <2>2
  <2>3. CASE f = L
    BY <1>1, <1>2, <1>8, <2>3
  <2> QED
    BY <2>1, <2>2, <2>3
<1>9. QueuedOnce'
  <2> SUFFICES ASSUME NEW f \in DOMAIN frames', NEW i \in DOMAIN Queue(f)'
               PROVE  /\ Queue(f)'[i] \in loaded
                      /\ Queue(f)'[i] \notin Appended
                      /\ \A g \in DOMAIN frames' : frames'[g].unit # Queue(f)'[i]
                      /\ \A g \in DOMAIN frames' : \A j \in DOMAIN Queue(g)' :
                             Queue(f)'[i] = Queue(g)'[j] => f = g /\ i = j
    BY <1>1, <1>7 DEF QueuedOnce, Active
  <2>1. PICK p \in DOMAIN Queue(f) :
            /\ Queue(f)'[i] = Queue(f)[p] /\ p = IF f = L THEN i + 1 ELSE i
            /\ f \in DOMAIN frames /\ (f = L => i \in Nat /\ p # 1)
    BY <1>8
  <2>2. /\ Queue(f)[p] \in loaded /\ Queue(f)[p] \notin Appended
        /\ Queue(f)[p] # child
        /\ \A g \in DOMAIN frames : frames[g].unit # Queue(f)[p]
        /\ \A g \in DOMAIN frames : \A j \in DOMAIN Queue(g) :
               Queue(f)[p] = Queue(g)[j] => f = g /\ p = j
    BY <1>4, <2>1 DEF LInv, QueuedOnce, Active
  <2>3. \A g \in DOMAIN frames' : frames'[g].unit # Queue(f)'[i]
    BY <1>1, <2>1, <2>2
  <2>4. ASSUME NEW g \in DOMAIN frames', NEW j \in DOMAIN Queue(g)',
               Queue(f)'[i] = Queue(g)'[j]
        PROVE  f = g /\ i = j
    <3>1. PICK o \in DOMAIN Queue(g) :
              /\ Queue(g)'[j] = Queue(g)[o] /\ o = IF g = L THEN j + 1 ELSE j
              /\ g \in DOMAIN frames /\ (g = L => j \in Nat)
      BY <1>8
    <3>2. f = g /\ p = o
      BY <2>1, <2>2, <2>4, <3>1
    <3> QED
      BY <2>1, <3>1, <3>2
  <2> QED
    BY <2>1, <2>2, <2>3, <2>4
<1> QED
  BY <1>1, <1>3, <1>5, <1>6, <1>7, <1>9 DEF LInv

\* Both ends of an activation: its unit is appended, its frame is gone.
Closes(u) ==
    /\ u = TopFrame.unit /\ status = "loading" /\ ~reading /\ ~MoreImports
    /\ TopFrame.queue = << >>
    /\ appended' = Append(appended, u) /\ frames' = Return
    /\ \/ u # Program /\ status' = "loading"
       \/ u = Program /\ status' = "linked"
    /\ UNCHANGED <<imports, decls, loaded, loading, reading>>

LEMMA AppendCloses ==
    ASSUME AppendModule \/ FinishLinking
    PROVE  Closes(TopFrame.unit)
  BY DEF AppendModule, FinishLinking, Ready, Source, Closes

LEMMA ClosePlaces ==
    ASSUME LInv, NEW u, Closes(u)
    PROVE  LET L == Len(frames) IN
           /\ frames # << >> /\ L \in Nat \ {0} /\ L \in DOMAIN frames
           /\ DOMAIN frames = 1 .. L /\ DOMAIN frames' = 1 .. L - 1
           /\ u = frames[L].unit /\ u \in Unit /\ Queue(L) = << >>
           /\ u \notin Appended /\ Appended' = Appended \cup {u}
           /\ \A f \in DOMAIN frames' : frames'[f] = frames[f]
           /\ u = Program <=> L = 1
           /\ frames' = << >> <=> L = 1
           /\ TypeOK'
<1> DEFINE L == Len(frames)
<1>1. /\ TypeOK /\ frames # << >> /\ L \in Nat \ {0} /\ L \in DOMAIN frames
      /\ DOMAIN frames = 1 .. L
  BY LoadingHasFrame DEF Closes
<1>2. /\ DOMAIN frames' = 1 .. L - 1 /\ frames' \in Seq(Frame)
      /\ \A f \in DOMAIN frames' : frames'[f] = frames[f]
      /\ frames' = << >> <=> L = 1
  BY <1>1, ReturnFacts DEF Closes
<1>3. u = frames[L].unit /\ u \in Unit /\ Queue(L) = << >>
  BY <1>1, FrameFacts DEF Closes, TopFrame, Queue
<1>4. u \notin Appended /\ (u = Program <=> L = 1)
  BY <1>1, <1>3 DEF LInv, AppendedOnce, ProgramOutermost
<1>5. Appended' = Appended \cup {u} /\ appended' \in Seq(Unit)
  BY <1>1, <1>3, AppendFacts DEF Closes
<1>6. TypeOK'
  BY <1>1, <1>2, <1>5 DEF TypeOK, Closes, Status
<1> QED
  BY <1>1, <1>2, <1>3, <1>4, <1>5, <1>6

LEMMA LInvClose ==
    ASSUME LInv, NEW u, Closes(u)
    PROVE  LInv'
<1> DEFINE L == Len(frames)
<1>1. /\ L \in Nat \ {0} /\ L \in DOMAIN frames
      /\ DOMAIN frames = 1 .. L /\ DOMAIN frames' = 1 .. L - 1
      /\ u = frames[L].unit /\ u \in Unit
      /\ u \notin Appended /\ Appended' = Appended \cup {u}
      /\ \A f \in DOMAIN frames' : frames'[f] = frames[f]
      /\ u = Program <=> L = 1
      /\ frames' = << >> <=> L = 1
  BY ClosePlaces
<1>2. TypeOK'
  BY ClosePlaces
<1>3. ProgramOutermost' /\ ReadingWanted' /\ UnitsOnce'
  BY <1>1 DEF LInv, ProgramOutermost, ReadingWanted, UnitsOnce, Closes
<1>4. AppendedOnce'
  <2>1. \A i, j \in DOMAIN appended' : appended'[i] = appended'[j] => i = j
    <3>1. TypeOK /\ appended' = Append(appended, u)
      BY DEF LInv, Closes
    <3>2. /\ DOMAIN appended = 1 .. Len(appended) /\ Len(appended) \in Nat
          /\ DOMAIN appended' = 1 .. Len(appended) + 1
          /\ \A i \in 1 .. Len(appended) : appended'[i] = appended[i]
          /\ appended'[Len(appended) + 1] = u
      BY <1>1, <3>1, AppendFacts
    <3>3. \A i \in 1 .. Len(appended) : appended[i] # u
      BY <1>1, <3>2 DEF Appended
    <3> QED
      BY <3>2, <3>3 DEF LInv, AppendedOnce
  <2>2. \A f \in DOMAIN frames' : frames'[f].unit \notin Appended'
    BY <1>1 DEF LInv, UnitsOnce, AppendedOnce
  <2> QED
    BY <2>1, <2>2 DEF AppendedOnce
<1>5. QueuedOnce'
  <2>1. /\ \A f \in DOMAIN frames' : f \in DOMAIN frames /\ Queue(f)' = Queue(f)
        /\ loaded' = loaded
    BY <1>1 DEF Queue, Closes
  <2>2. \A f \in DOMAIN frames : \A i \in DOMAIN Queue(f) : Queue(f)[i] # u
    BY <1>1 DEF LInv, QueuedOnce, Active
  <2> QED
    BY <1>1, <2>1, <2>2 DEF LInv, QueuedOnce, Active
<1>6. Appended' \subseteq loaded' \cup {Program}
  BY <1>1 DEF LInv, UnitsOnce, Closes
<1> QED
  BY <1>2, <1>3, <1>4, <1>5, <1>6 DEF LInv

LEMMA LInvNext == LInv /\ [Next]_vars => LInv'
<1> SUFFICES ASSUME LInv, [Next]_vars PROVE LInv'
  OBVIOUS
<1>1. CASE BeginLoad \/ LoadFails \/ RejectDuplicate
  BY <1>1, LInvRead
<1>2. CASE LoadAgain
  BY <1>2, LInvAgain
<1>3. CASE EndLoad
  BY <1>3, LInvEnd
<1>4. CASE Descend
  BY <1>4, LInvDescend
<1>5. CASE AppendModule \/ FinishLinking
  BY <1>5, AppendCloses, LInvClose
<1>6. CASE UNCHANGED vars
  BY <1>6 DEF vars, LInv, TypeOK, ProgramOutermost, ReadingWanted, UnitsOnce,
              QueuedOnce, AppendedOnce, Appended, Queue, Active, MoreImports,
              Wanted, TopFrame
<1> QED
  BY <1>1, <1>2, <1>3, <1>4, <1>5, <1>6 DEF Next

\* The state of the loader keeps its types: indices stay in the lists of
\* imports, and only modules are loaded, queued and appended.
THEOREM TypeCorrect == Spec => []TypeOK
<1>1. LInv => TypeOK
  BY DEF LInv
<1> QED
  BY <1>1, LInvInit, LInvNext, PTL DEF Spec

\* No unit is appended twice, through whatever paths it is imported, and no
\* activation has a unit that was appended.
THEOREM EachAppendedOnce == Spec => []AppendedOnce
<1>1. LInv => AppendedOnce
  BY DEF LInv
<1> QED
  BY <1>1, LInvInit, LInvNext, PTL DEF Spec

-----------------------------------------------------------------------------
(* What is linked is what the program reaches *)

LEMMA KInvInit == Init => KInv
<1> SUFFICES ASSUME Init PROVE KInv
  OBVIOUS
<1>1. LInv
  BY LInvInit
<1>2. loaded = {} /\ Appended = {}
  BY DEF Init, Appended
<1>3. /\ DOMAIN frames = {1} /\ frames[1].next = 1
  BY DEF Init, FrameOf
<1> QED
  BY <1>1, <1>2, <1>3 DEF KInv, Kept, ImportsLoaded, OnlyReached

\* Steps that keep the places keep what is said of them.
LEMMA SameKept ==
    ASSUME Kept, DOMAIN frames' = DOMAIN frames,
           \A f \in DOMAIN frames : /\ frames'[f].unit = frames[f].unit
                                    /\ frames'[f].queue = frames[f].queue,
           UNCHANGED <<loaded, appended>>
    PROVE  Kept'
<1>1. Appended' = Appended
  BY DEF Appended
<1> QED
  BY <1>1 DEF Kept, Active, Waiting, Queue

\* What the program reaches does not depend on the step.
LEMMA SameReached ==
    ASSUME OnlyReached, UNCHANGED imports, loaded' \subseteq loaded
    PROVE  OnlyReached'
  BY DEF OnlyReached, Promise!Closed, Promise!Imported

LEMMA KInvRead ==
    ASSUME KInv, BeginLoad \/ LoadFails \/ RejectDuplicate
    PROVE  KInv'
<1>1. UNCHANGED <<imports, loaded, frames, appended>>
  BY DEF BeginLoad, LoadFails, RejectDuplicate, Source
<1>2. LInv' /\ Kept' /\ OnlyReached'
  BY <1>1, LInvRead, SameKept, SameReached DEF KInv
<1>3. Appended' = Appended
  BY <1>1 DEF Appended
<1>4. ImportsLoaded'
  BY <1>1, <1>3 DEF KInv, ImportsLoaded, Imported
<1> QED
  BY <1>2, <1>4 DEF KInv

\* The import that was visited last is loaded.
LEMMA VisitedLoaded ==
    ASSUME TypeOK, ImportsLoaded, frames # << >>, MoreImports,
           DOMAIN frames' = DOMAIN frames, UNCHANGED <<imports, appended>>,
           \A f \in DOMAIN frames :
              /\ frames'[f].unit = frames[f].unit
              /\ f # Len(frames) => frames'[f] = frames[f],
           frames'[Len(frames)].next = TopFrame.next + 1,
           loaded \subseteq loaded', Wanted \in loaded'
    PROVE  ImportsLoaded'
<1> PICK L : L = Len(frames)
  OBVIOUS
<1>1. Appended' = Appended
  BY DEF Appended
<1>2. \A u \in Appended' : Imported(u)' \subseteq loaded'
  BY <1>1 DEF ImportsLoaded, Imported
<1>3. ASSUME NEW f \in DOMAIN frames', NEW i \in 1 .. frames'[f].next - 1
      PROVE  imports[frames'[f].unit][i] \in loaded'
  <2>1. f \in DOMAIN frames /\ frames'[f].unit = frames[f].unit
    BY <1>3
  <2>2. CASE f # L
    BY <1>3, <2>1, <2>2 DEF ImportsLoaded
  <2>3. CASE f = L
    <3>1. TopFrame.next \in Nat /\ frames[f] = TopFrame
      BY <2>1, <2>3, FrameFacts DEF TopFrame
    <3>2. i \in 1 .. TopFrame.next
      BY <1>3, <2>3, <3>1
    <3>3. CASE i = TopFrame.next
      BY <2>1, <3>1, <3>3 DEF Wanted
    <3>4. CASE i \in 1 .. TopFrame.next - 1
      BY <2>1, <3>1, <3>4 DEF ImportsLoaded
    <3> QED
      BY <3>1, <3>2, <3>3, <3>4
  <2> QED
    BY <2>2, <2>3
<1> QED
  BY <1>2, <1>3 DEF ImportsLoaded

LEMMA KInvAgain ==
    ASSUME KInv, LoadAgain
    PROVE  KInv'
<1>1. /\ status = "loading" /\ MoreImports /\ Advance(<< >>) /\ Wanted \in loaded
      /\ UNCHANGED <<imports, loaded, appended>>
  BY DEF LoadAgain, Source
<1>2. /\ TypeOK /\ frames # << >> /\ DOMAIN frames = 1 .. Len(frames)
      /\ << >> \in Seq(Modules) /\ Len(frames) \in 1 .. Len(frames)
  BY <1>1, LoadingHasFrame, EmptySeq DEF KInv
<1>3. TopFrame.queue \o << >> = TopFrame.queue
  BY <1>2, FrameFacts, ConcatEmptySeq DEF TopFrame
<1>4. /\ DOMAIN frames' = DOMAIN frames
      /\ \A f \in DOMAIN frames : /\ frames'[f].unit = frames[f].unit
                                  /\ f # Len(frames) => frames'[f] = frames[f]
      /\ frames'[Len(frames)].next = TopFrame.next + 1
      /\ frames'[Len(frames)].queue = frames[Len(frames)].queue
  BY <1>1, <1>2, <1>3, AdvanceFacts DEF TopFrame
<1>5. \A f \in DOMAIN frames : frames'[f].queue = frames[f].queue
  BY <1>4
<1>6. ImportsLoaded'
  BY <1>1, <1>2, <1>4, VisitedLoaded DEF KInv
<1>7. Kept' /\ OnlyReached'
  BY <1>1, <1>4, <1>5, SameKept, SameReached DEF KInv
<1> QED
  BY <1>6, <1>7, LInvAgain DEF KInv

LEMMA KInvEnd ==
    ASSUME KInv, EndLoad
    PROVE  KInv'
<1>0. PICK L, K, m : L = Len(frames) /\ K = Len(TopFrame.queue) /\ m = Wanted
  OBVIOUS
<1>1. /\ LInv /\ LInv' /\ m \in Modules /\ m \in Imported(TopFrame.unit)
      /\ loaded' = loaded \cup {m} /\ UNCHANGED <<imports, appended>>
      /\ DOMAIN frames' = DOMAIN frames /\ status = "loading"
      /\ \A f \in DOMAIN frames : /\ frames'[f].unit = frames[f].unit
                                  /\ f # L => frames'[f] = frames[f]
  BY <1>0, EndLoadFacts, LInvEnd DEF KInv
<1>2. /\ TypeOK /\ L \in DOMAIN frames /\ frames # << >> /\ K \in Nat
      /\ TopFrame = frames[L] /\ DOMAIN frames[L].queue = 1 .. K
  BY <1>0, <1>1, LoadingHasFrame, FrameFacts DEF TopFrame
<1>3. /\ DOMAIN frames'[L].queue = 1 .. K + 1
      /\ \A i \in 1 .. K : frames'[L].queue[i] = frames[L].queue[i]
      /\ frames'[L].queue[K + 1] = m
  BY <1>0, <1>1, <1>2, EndLoadFacts DEF KInv
<1>4. ImportsLoaded'
  <2>1. MoreImports
    BY DEF KInv, LInv, ReadingWanted, EndLoad
  <2>2. frames'[Len(frames)].next = TopFrame.next + 1
    BY <1>1, EndLoadFacts
  <2> QED
    BY <1>0, <1>1, <1>2, <2>1, <2>2, VisitedLoaded DEF KInv
<1>5. Kept'
  <2>1. Appended' = Appended
    BY <1>1 DEF Appended
  <2>2. Waiting(m)'
    BY <1>1, <1>2, <1>3 DEF Waiting, Queue
  <2>3. ASSUME NEW x, Active(x)
        PROVE  Active(x)'
    BY <1>1, <2>3 DEF Active
  <2>4. ASSUME NEW x, Waiting(x)
        PROVE  Waiting(x)'
    <3>1. PICK f \in DOMAIN frames : \E i \in DOMAIN Queue(f) : Queue(f)[i] = x
      BY <2>4 DEF Waiting
    <3>2. PICK i \in DOMAIN Queue(f) : Queue(f)[i] = x
      BY <3>1
    <3>3. i \in DOMAIN frames'[f].queue /\ frames'[f].queue[i] = x
      BY <1>1, <1>2, <1>3, <3>2 DEF Queue
    <3> QED
      BY <1>1, <3>1, <3>3 DEF Waiting, Queue
  <2> QED
    BY <1>1, <2>1, <2>2, <2>3, <2>4 DEF KInv, Kept
<1>6. OnlyReached'
  <2> SUFFICES ASSUME NEW S \in SUBSET Unit, Promise!Closed(S)
               PROVE  loaded' \subseteq S
    BY <1>1 DEF OnlyReached, Promise!Closed, Promise!Imported
  <2>1. loaded \subseteq S /\ Program \in S
    BY DEF KInv, OnlyReached, Promise!Closed
  <2>2. TopFrame.unit \in S
    BY <1>1, <1>2, <2>1 DEF LInv, UnitsOnce
  <2>3. m \in S
    BY <1>1, <2>2 DEF Promise!Closed, Promise!Imported, Imported
  <2> QED
    BY <1>1, <2>1, <2>3
<1> QED
  BY <1>1, <1>4, <1>5, <1>6 DEF KInv

LEMMA KInvDescend ==
    ASSUME KInv, Descend
    PROVE  KInv'
<1>0. PICK L, K, child : /\ L = Len(frames) /\ K = Len(TopFrame.queue)
                         /\ child = TopFrame.queue[1]
  OBVIOUS
<1>1. /\ LInv /\ LInv' /\ UNCHANGED <<imports, loaded, appended>>
      /\ L \in DOMAIN frames /\ L \in Nat /\ K \in Nat \ {0}
      /\ DOMAIN frames = 1 .. L /\ DOMAIN frames' = 1 .. L + 1
      /\ \A f \in DOMAIN frames : /\ frames'[f].unit = frames[f].unit
                                  /\ frames'[f].next = frames[f].next
      /\ frames'[L + 1].unit = child /\ frames'[L + 1].next = 1
  BY <1>0, DescendPlaces, LInvDescend DEF KInv, FrameOf
<1>2. /\ DOMAIN Queue(L) = 1 .. K /\ child = Queue(L)[1]
      /\ \A f \in DOMAIN frames : f # L => Queue(f)' = Queue(f)
      /\ DOMAIN Queue(L)' = 1 .. K - 1
      /\ \A i \in 1 .. K - 1 : Queue(L)'[i] = Queue(L)[i + 1]
  BY <1>0, DescendPlaces DEF Queue, KInv
<1>3. Appended' = Appended
  BY <1>1 DEF Appended
<1>4. ImportsLoaded'
  <2>1. \A u \in Appended' : Imported(u)' \subseteq loaded'
    BY <1>1, <1>3 DEF KInv, ImportsLoaded, Imported
  <2>2. ASSUME NEW f \in DOMAIN frames', NEW i \in 1 .. frames'[f].next - 1
        PROVE  imports[frames'[f].unit][i] \in loaded
    <3>1. f \in DOMAIN frames
      BY <1>1, <2>2
    <3> QED
      BY <1>1, <2>2, <3>1 DEF KInv, ImportsLoaded
  <2> QED
    BY <1>1, <2>1, <2>2 DEF ImportsLoaded
<1>5. ASSUME NEW x, Active(x)
      PROVE  Active(x)'
  BY <1>1, <1>5 DEF Active
<1>6. ASSUME NEW x, Waiting(x)
      PROVE  Waiting(x)' \/ Active(x)'
  <2>1. PICK f \in DOMAIN frames : \E i \in DOMAIN Queue(f) : Queue(f)[i] = x
    BY <1>6 DEF Waiting
  <2>2. PICK i \in DOMAIN Queue(f) : Queue(f)[i] = x
    BY <2>1
  <2>3. CASE f # L
    BY <1>1, <1>2, <2>2, <2>3 DEF Waiting
  <2>4. CASE f = L /\ i = 1
    BY <1>1, <1>2, <2>2, <2>4 DEF Active
  <2>5. CASE f = L /\ i # 1
    <3>1. i - 1 \in 1 .. K - 1 /\ (i - 1) + 1 = i
      BY <1>1, <1>2, <2>2, <2>5
    <3>2. i - 1 \in DOMAIN Queue(f)' /\ Queue(f)'[i - 1] = x
      BY <1>2, <2>2, <2>5, <3>1
    <3> QED
      BY <1>1, <2>5, <3>2 DEF Waiting
  <2> QED
    BY <2>3, <2>4, <2>5
<1>7. Kept' /\ OnlyReached'
  BY <1>1, <1>3, <1>5, <1>6, SameReached DEF KInv, Kept
<1> QED
  BY <1>1, <1>4, <1>7 DEF KInv

LEMMA KInvClose ==
    ASSUME KInv, NEW u, Closes(u)
    PROVE  KInv'
<1>0. PICK L : L = Len(frames)
  OBVIOUS
<1>1. /\ LInv /\ LInv' /\ TypeOK /\ UNCHANGED <<imports, loaded>>
      /\ frames # << >> /\ L \in Nat \ {0} /\ L \in DOMAIN frames
      /\ DOMAIN frames = 1 .. L /\ DOMAIN frames' = 1 .. L - 1
      /\ u = frames[L].unit /\ Queue(L) = << >>
      /\ Appended' = Appended \cup {u}
      /\ \A f \in DOMAIN frames' : frames'[f] = frames[f]
  BY <1>0, ClosePlaces, LInvClose DEF KInv, LInv, Closes
<1>2. Imported(u) \subseteq loaded
  <2>1. /\ TopFrame = frames[L] /\ DOMAIN imports[u] = 1 .. Len(imports[u])
        /\ frames[L].next \in 1 .. Len(imports[u]) + 1 /\ Len(imports[u]) \in Nat
    BY <1>0, <1>1, FrameFacts DEF TopFrame
  <2>2. frames[L].next = Len(imports[u]) + 1
    BY <1>1, <2>1 DEF Closes, MoreImports
  <2>3. \A i \in 1 .. frames[L].next - 1 : imports[u][i] \in loaded
    BY <1>1 DEF KInv, ImportsLoaded
  <2> QED
    BY <2>1, <2>2, <2>3 DEF Imported
<1>3. ImportsLoaded'
  BY <1>1, <1>2 DEF KInv, ImportsLoaded, Imported
<1>4. \A x : Active(x) => x = u \/ Active(x)'
  BY <1>1 DEF Active
<1>5. \A x : Waiting(x) => Waiting(x)'
  BY <1>1 DEF Waiting, Queue
<1>6. Kept' /\ OnlyReached'
  BY <1>1, <1>4, <1>5, SameReached DEF KInv, Kept
<1> QED
  BY <1>1, <1>3, <1>6 DEF KInv

LEMMA KInvNext == KInv /\ [Next]_vars => KInv'
<1> SUFFICES ASSUME KInv, [Next]_vars PROVE KInv'
  OBVIOUS
<1>1. CASE BeginLoad \/ LoadFails \/ RejectDuplicate
  BY <1>1, KInvRead
<1>2. CASE LoadAgain
  BY <1>2, KInvAgain
<1>3. CASE EndLoad
  BY <1>3, KInvEnd
<1>4. CASE Descend
  BY <1>4, KInvDescend
<1>5. CASE AppendModule \/ FinishLinking
  BY <1>5, AppendCloses, KInvClose
<1>6. CASE UNCHANGED vars
  <2>1. LInv' /\ UNCHANGED <<imports, loaded, frames, appended>>
    BY <1>6, LInvNext DEF vars, KInv
  <2>2. Appended' = Appended
    BY <2>1 DEF Appended
  <2> QED
    BY <2>1, <2>2, SameKept, SameReached DEF KInv, ImportsLoaded, Imported
<1> QED
  BY <1>1, <1>2, <1>3, <1>4, <1>5, <1>6 DEF Next

\* When the program itself is appended, everything else has been.
LEMMA AllAppended ==
    ASSUME KInv, Closes(Program)
    PROVE  loaded \subseteq Appended
<1>1. DOMAIN frames = {1} /\ frames[1].unit = Program /\ Queue(1) = << >>
  BY ClosePlaces DEF KInv
<1>2. TypeOK
  BY DEF KInv, LInv
<1>3. \A m \in loaded : ~Waiting(m) /\ ~Active(m)
  BY <1>1, <1>2, ProgramAssumption DEF Waiting, Active, TypeOK
<1> QED
  BY <1>3 DEF KInv, Kept

\* Loading and appending implement the promise: each step links one module
\* that was not linked, fails, or changes nothing of what is linked, and the
\* program is finished when exactly what it reaches has been linked.
THEOREM LinksWhatIsReached == Spec => Promise!Linking
<1>1. Init => Promise!Init
  <2> SUFFICES ASSUME Init PROVE Promise!Init
    OBVIOUS
  <2>1. Unit \ {Program} = Modules
    BY ProgramAssumption DEF Unit
  <2> QED
    BY <2>1, SourcesAssumption DEF Init, Promise!Init, Imports
<1>2. KInv /\ [Next]_vars => [Promise!Next]_(Promise!vars)
  <2> SUFFICES ASSUME KInv, [Next]_vars
               PROVE  Promise!Next \/ UNCHANGED Promise!vars
    OBVIOUS
  <2>1. Promise!Linked = Appended
    BY DEF Promise!Linked, Appended
  <2>2. CASE BeginLoad \/ LoadFails \/ RejectDuplicate
    <3>1. /\ status = "loading" /\ UNCHANGED <<imports, appended>>
          /\ status' \in {"loading", "cyclic", "unreadable", "duplicate"}
      BY <2>2 DEF BeginLoad, LoadFails, RejectDuplicate, Ready, Source
    <3> QED
      BY <3>1 DEF Promise!Next, Promise!Fail, Promise!vars
  <2>3. CASE LoadAgain \/ EndLoad \/ Descend \/ UNCHANGED vars
    BY <2>3 DEF LoadAgain, EndLoad, Descend, vars, Source, Promise!vars
  <2>4. CASE AppendModule
    <3>1. Closes(TopFrame.unit) /\ TopFrame.unit # Program
      BY <2>4, AppendCloses DEF AppendModule
    <3>2. TopFrame.unit \in Unit \ (Appended \cup {Program})
      BY <3>1, ClosePlaces DEF KInv
    <3> QED
      BY <2>1, <3>1, <3>2 DEF Closes, Promise!Next, Promise!Link
  <2>5. CASE FinishLinking
    <3>1. Closes(Program) /\ appended' = Append(appended, Program)
      BY <2>5, AppendCloses DEF FinishLinking
    <3>2. /\ LInv /\ Imported(Program) \subseteq loaded
          /\ \A u \in Appended : Imported(u) \subseteq loaded
      <4>1. Program \in Appended' /\ loaded' = loaded /\ imports' = imports
        BY <3>1, ClosePlaces DEF KInv, Closes
      <4>2. KInv'
        BY <3>1, KInvClose
      <4> QED
        BY <4>1, <4>2 DEF KInv, ImportsLoaded, Imported
    <3>3. loaded \subseteq Appended /\ Appended \subseteq loaded \cup {Program}
      BY <3>1, <3>2, AllAppended DEF LInv
    <3>4. Promise!Closed(Appended \cup {Program})
      BY <3>2, <3>3 DEF Promise!Closed, Promise!Imported, Imported
    <3>5. \A S \in SUBSET Unit : Promise!Closed(S) => Appended \subseteq S
      BY <3>3 DEF KInv, OnlyReached, Promise!Closed
    <3> QED
      BY <2>1, <3>1, <3>4, <3>5 DEF Closes, Promise!Next, Promise!Finish
  <2> QED
    BY <2>2, <2>3, <2>4, <2>5 DEF Next
<1> QED
  BY <1>1, <1>2, KInvInit, KInvNext, PTL DEF Spec, Promise!Linking

-----------------------------------------------------------------------------
(* An only child precedes its parent *)

LEMMA PInvInit == Init => PInv
<1> SUFFICES ASSUME Init PROVE PInv
  OBVIOUS
<1>1. KInv
  BY KInvInit
<1>2. Appended = {} /\ DOMAIN frames = {1} /\ frames[1].queue = << >>
  BY DEF Init, Appended, FrameOf
<1> QED
  BY <1>1, <1>2
  DEF PInv, QueuedByImporter, ParentsFollow, LinkedAtEnd, Queue, Init

\* Steps that leave the units and queues of the frames alone.
LEMMA SameParents ==
    ASSUME QueuedByImporter, ParentsFollow, DOMAIN frames' = DOMAIN frames,
           \A f \in DOMAIN frames : /\ frames'[f].unit = frames[f].unit
                                    /\ frames'[f].queue = frames[f].queue,
           UNCHANGED <<imports, appended>>, TypeOK
    PROVE  QueuedByImporter' /\ ParentsFollow'
<1>1. /\ Appended' = Appended
      /\ \A u, v : Before(u, v)' <=> Before(u, v)
  BY DEF Appended, Before
<1>2. ParentsFollow'
  BY <1>1 DEF ParentsFollow, Active, Imported
<1>3. \A f \in DOMAIN frames : f > 1 => f - 1 \in DOMAIN frames
  BY FrameFacts
<1>4. QueuedByImporter'
  BY <1>3 DEF QueuedByImporter, Queue, Imported
<1> QED
  BY <1>2, <1>4

LEMMA PInvSame ==
    ASSUME PInv, BeginLoad \/ LoadFails \/ RejectDuplicate \/ LoadAgain
    PROVE  PInv'
<1>1. /\ KInv' /\ TypeOK /\ status = "loading" /\ UNCHANGED <<imports, appended>>
      /\ status' # "linked"
  BY KInvRead, KInvAgain
  DEF PInv, KInv, LInv, BeginLoad, LoadFails, RejectDuplicate, LoadAgain, Ready, Source
<1>2. /\ DOMAIN frames' = DOMAIN frames
      /\ \A f \in DOMAIN frames : /\ frames'[f].unit = frames[f].unit
                                  /\ frames'[f].queue = frames[f].queue
  <2>1. CASE LoadAgain
    <3>1. /\ MoreImports /\ Advance(<< >>) /\ frames # << >>
          /\ << >> \in Seq(Modules) /\ Len(frames) \in 1 .. Len(frames)
          /\ DOMAIN frames = 1 .. Len(frames)
      BY <1>1, <2>1, LoadingHasFrame, EmptySeq DEF PInv, KInv, LoadAgain
    <3>2. TopFrame.queue \o << >> = TopFrame.queue
      BY <1>1, <3>1, FrameFacts, ConcatEmptySeq DEF TopFrame
    <3> QED
      BY <1>1, <3>1, <3>2, AdvanceFacts DEF TopFrame
  <2>2. CASE ~LoadAgain
    BY <2>2 DEF BeginLoad, LoadFails, RejectDuplicate
  <2> QED
    BY <2>1, <2>2
<1> QED
  BY <1>1, <1>2, SameParents DEF PInv, LinkedAtEnd

LEMMA PInvEnd ==
    ASSUME PInv, EndLoad
    PROVE  PInv'
<1>0. PICK L, K, m : L = Len(frames) /\ K = Len(TopFrame.queue) /\ m = Wanted
  OBVIOUS
<1>1. /\ KInv' /\ LInv /\ TypeOK /\ status = "loading"
      /\ UNCHANGED <<imports, appended, status>>
      /\ DOMAIN frames' = DOMAIN frames /\ m \in Imported(TopFrame.unit)
      /\ \A f \in DOMAIN frames : /\ frames'[f].unit = frames[f].unit
                                  /\ f # L => frames'[f] = frames[f]
  BY <1>0, EndLoadFacts, KInvEnd DEF PInv, KInv, LInv
<1>2. /\ L \in DOMAIN frames /\ DOMAIN frames = 1 .. L /\ L \in Nat
      /\ TopFrame = frames[L] /\ DOMAIN frames[L].queue = 1 .. K /\ K \in Nat
  BY <1>0, <1>1, LoadingHasFrame, FrameFacts DEF TopFrame
<1>3. /\ DOMAIN frames'[L].queue = 1 .. K + 1
      /\ \A i \in 1 .. K : frames'[L].queue[i] = frames[L].queue[i]
      /\ frames'[L].queue[K + 1] = m
  BY <1>0, <1>1, <1>2, EndLoadFacts
<1>4. ParentsFollow'
  <2>1. /\ Appended' = Appended
        /\ \A u, v : Before(u, v)' <=> Before(u, v)
    BY <1>1 DEF Appended, Before
  <2> QED
    BY <1>1, <2>1 DEF PInv, ParentsFollow, Active, Imported
<1>5. ASSUME NEW f \in DOMAIN frames', NEW i \in DOMAIN Queue(f)'
      PROVE  Queue(f)'[i] \in Imported(frames[f].unit)
  <2>1. CASE f # L
    BY <1>1, <1>5, <2>1 DEF PInv, QueuedByImporter, Queue
  <2>2. CASE f = L /\ i \in 1 .. K
    BY <1>1, <1>2, <1>3, <1>5, <2>2 DEF PInv, QueuedByImporter, Queue
  <2>3. CASE f = L /\ i = K + 1
    BY <1>1, <1>2, <1>3, <1>5, <2>3 DEF Queue
  <2> QED
    BY <1>2, <1>3, <1>5, <2>1, <2>2, <2>3 DEF Queue
<1>6. QueuedByImporter'
  <2>1. \A f \in DOMAIN frames' : f > 1 => f - 1 \in DOMAIN frames
    BY <1>1, <1>2
  <2>2. \A f \in DOMAIN frames' : f > 1 =>
            frames'[f].unit \in Imported(frames[f - 1].unit)
    BY <1>1, <2>1 DEF PInv, QueuedByImporter
  <2> QED
    BY <1>1, <1>5, <2>1, <2>2 DEF QueuedByImporter, Imported
<1> QED
  BY <1>1, <1>4, <1>6 DEF PInv, LinkedAtEnd

LEMMA PInvDescend ==
    ASSUME PInv, Descend
    PROVE  PInv'
<1>0. PICK L, K, child : /\ L = Len(frames) /\ K = Len(TopFrame.queue)
                         /\ child = TopFrame.queue[1]
  OBVIOUS
<1>1. /\ KInv' /\ UNCHANGED <<imports, appended, status>> /\ status = "loading"
      /\ L \in DOMAIN frames /\ L \in Nat /\ K \in Nat \ {0}
      /\ DOMAIN frames = 1 .. L /\ DOMAIN frames' = 1 .. L + 1
      /\ \A f \in DOMAIN frames : frames'[f].unit = frames[f].unit
      /\ frames'[L + 1].unit = child
  BY <1>0, DescendPlaces, KInvDescend DEF PInv, KInv, FrameOf
<1>2. /\ DOMAIN Queue(L) = 1 .. K /\ child = Queue(L)[1]
      /\ \A f \in DOMAIN frames : f # L => Queue(f)' = Queue(f)
      /\ DOMAIN Queue(L)' = 1 .. K - 1
      /\ \A i \in 1 .. K - 1 : Queue(L)'[i] = Queue(L)[i + 1]
      /\ DOMAIN Queue(L + 1)' = {}
  BY <1>0, DescendPlaces DEF Queue, PInv, KInv
<1>3. ParentsFollow'
  <2>1. /\ Appended' = Appended
        /\ \A u, v : Before(u, v)' <=> Before(u, v)
    BY <1>1 DEF Appended, Before
  <2>2. \A x : Active(x) => Active(x)'
    BY <1>1 DEF Active
  <2> QED
    BY <1>1, <2>1, <2>2 DEF PInv, ParentsFollow, Imported
<1>4. ASSUME NEW f \in DOMAIN frames', NEW i \in DOMAIN Queue(f)'
      PROVE  Queue(f)'[i] \in Imported(frames'[f].unit)
  <2>1. f \in DOMAIN frames
    BY <1>1, <1>2, <1>4
  <2>2. CASE f # L
    BY <1>1, <1>2, <1>4, <2>1, <2>2 DEF PInv, QueuedByImporter
  <2>3. CASE f = L
    <3>1. i \in 1 .. K - 1 /\ i + 1 \in DOMAIN Queue(f)
      BY <1>1, <1>2, <1>4, <2>3
    <3> QED
      BY <1>1, <1>2, <2>1, <2>3, <3>1 DEF PInv, QueuedByImporter
  <2> QED
    BY <2>2, <2>3
<1>5. ASSUME NEW f \in DOMAIN frames', f > 1
      PROVE  frames'[f].unit \in Imported(frames'[f - 1].unit)
  <2>1. CASE f \in DOMAIN frames
    <3>1. f - 1 \in DOMAIN frames
      BY <1>1, <1>5, <2>1
    <3> QED
      BY <1>1, <1>5, <2>1, <3>1 DEF PInv, QueuedByImporter
  <2>2. CASE f = L + 1
    <3>1. f - 1 = L /\ child \in Imported(frames[L].unit)
      BY <1>1, <1>2, <2>2 DEF PInv, QueuedByImporter
    <3> QED
      BY <1>1, <2>2, <3>1
  <2> QED
    BY <1>1, <2>1, <2>2
<1>6. QueuedByImporter'
  BY <1>1, <1>4, <1>5 DEF QueuedByImporter, Imported
<1> QED
  BY <1>1, <1>3, <1>6 DEF PInv, LinkedAtEnd

LEMMA PInvClose ==
    ASSUME PInv, NEW u, Closes(u)
    PROVE  PInv'
<1>0. PICK L : L = Len(frames)
  OBVIOUS
<1>1. /\ KInv' /\ TypeOK /\ UNCHANGED imports
      /\ L \in Nat \ {0} /\ L \in DOMAIN frames
      /\ DOMAIN frames = 1 .. L /\ DOMAIN frames' = 1 .. L - 1
      /\ u = frames[L].unit /\ u \in Unit
      /\ Appended' = Appended \cup {u}
      /\ \A f \in DOMAIN frames' : frames'[f] = frames[f]
      /\ u = Program <=> L = 1
      /\ frames' = << >> <=> L = 1
      /\ appended' = Append(appended, u)
  BY <1>0, ClosePlaces, KInvClose DEF PInv, KInv, LInv, Closes
<1>2. LinkedAtEnd'
  BY <1>1 DEF LinkedAtEnd, Closes
<1>3. QueuedByImporter'
  <2>1. \A f \in DOMAIN frames' : f \in DOMAIN frames
    BY <1>1
  <2>2. \A f \in DOMAIN frames' : f > 1 => f - 1 \in DOMAIN frames'
    BY <1>1
  <2>3. \A f \in DOMAIN frames' : Queue(f)' = Queue(f)
    BY <1>1 DEF Queue
  <2>4. \A f \in DOMAIN frames' : \A i \in DOMAIN Queue(f)' :
            Queue(f)'[i] \in Imported(frames'[f].unit)
    BY <1>1, <2>1, <2>3 DEF PInv, QueuedByImporter, Imported
  <2>5. \A f \in DOMAIN frames' :
            f > 1 => frames'[f].unit \in Imported(frames'[f - 1].unit)
    BY <1>1, <2>1, <2>2 DEF PInv, QueuedByImporter, Imported
  <2> QED
    BY <1>1, <2>4, <2>5 DEF QueuedByImporter, Imported
<1>4. ParentsFollow'
  <2>1. /\ DOMAIN appended = 1 .. Len(appended) /\ Len(appended) \in Nat
        /\ DOMAIN appended' = 1 .. Len(appended) + 1
        /\ \A i \in 1 .. Len(appended) : appended'[i] = appended[i]
        /\ appended'[Len(appended) + 1] = u
    BY <1>1, AppendFacts
  <2>2. \A x, y : Before(x, y) => Before(x, y)'
    BY <2>1 DEF Before
  <2>3. \A x \in Appended : Before(x, u)'
    BY <2>1 DEF Before, Appended
  <2>4. \A x : Active(x) => x = u \/ Active(x)'
    BY <1>1 DEF Active
  <2>5. ASSUME NEW x \in Appended \ {Program}
        PROVE  \E p \in Unit : x \in Imported(p) /\ (Active(p)' \/ Before(x, p)')
    BY <2>2, <2>3, <2>4 DEF PInv, ParentsFollow
  <2>6. ASSUME u # Program
        PROVE  \E p \in Unit : u \in Imported(p) /\ Active(p)'
    <3>0. PICK p : p = frames[L - 1].unit
      OBVIOUS
    <3>1. L - 1 \in DOMAIN frames' /\ L > 1
      BY <1>1, <2>6
    <3>2. L - 1 \in 1 .. L /\ L - 1 \in DOMAIN frames /\ p \in Unit
      <4>1. L \in Nat /\ L = Len(frames) /\ DOMAIN frames = 1 .. L
        BY <1>0, <1>1, FrameFacts
      <4>2. L - 1 \in 1 .. L /\ L - 1 \in DOMAIN frames
        BY <3>1, <4>1
      <4>3. \A f \in 1 .. Len(frames) : frames[f].unit \in Unit
        BY <1>0, <1>1, FrameFacts
      <4> QED
        BY <3>0, <4>1, <4>2, <4>3
    <3>4. u \in Imported(p)
      BY <1>1, <3>0, <3>1 DEF PInv, QueuedByImporter
    <3>3. Active(p)'
      BY <1>1, <3>0, <3>1 DEF Active
    <3> QED
      BY <3>2, <3>3, <3>4
  <2> QED
    BY <1>1, <2>5, <2>6 DEF ParentsFollow, Imported
<1> QED
  BY <1>1, <1>2, <1>3, <1>4 DEF PInv

LEMMA PInvNext == PInv /\ [Next]_vars => PInv'
<1> SUFFICES ASSUME PInv, [Next]_vars PROVE PInv'
  OBVIOUS
<1>1. CASE BeginLoad \/ LoadFails \/ RejectDuplicate \/ LoadAgain
  BY <1>1, PInvSame
<1>2. CASE EndLoad
  BY <1>2, PInvEnd
<1>3. CASE Descend
  BY <1>3, PInvDescend
<1>4. CASE AppendModule \/ FinishLinking
  BY <1>4, AppendCloses, PInvClose
<1>5. CASE UNCHANGED vars
  BY <1>5, KInvNext, SameParents DEF vars, PInv, KInv, LInv, LinkedAtEnd
<1> QED
  BY <1>1, <1>2, <1>3, <1>4, <1>5 DEF Next

\* A module that one other unit alone imports precedes it: the unit that
\* loaded it is the unit that imports it, and was still an activation when
\* the module was appended.
THEOREM ChildPrecedesParent == Spec => []OnlyChildFirst
<1>1. PInv => OnlyChildFirst
  <2> SUFFICES ASSUME PInv, IsLinked, NEW u \in Appended, NEW m \in Modules,
                      Importers(m) = {u}, u # m
               PROVE  Before(m, u)
    BY DEF OnlyChildFirst
  <2>1. m \in Imported(u)
    BY DEF Importers
  <2>2. m \in loaded /\ m \in Appended
    BY <2>1 DEF PInv, KInv, ImportsLoaded, Kept, LinkedAtEnd, IsLinked, Active,
                Waiting
  <2>3. PICK p \in Unit : m \in Imported(p) /\ (Active(p) \/ Before(m, p))
    BY <2>2, ProgramAssumption DEF PInv, ParentsFollow
  <2>4. Before(m, p)
    BY <2>3 DEF PInv, LinkedAtEnd, IsLinked, Active
  <2>5. p \in Importers(m)
    BY <2>3, <2>4 DEF Importers, Before, Appended
  <2> QED
    BY <2>4, <2>5
<1> QED
  BY <1>1, PInvInit, PInvNext, PTL DEF Spec


-----------------------------------------------------------------------------
(* Link names *)

\* A declaration is one of a unit of the program, of a kind and with a name.
LEMMA DeclFacts ==
    ASSUME TypeOK, NEW u \in Unit, NEW d \in DeclsOf(u)
    PROVE  /\ d.unit = u /\ d.at \in Nat /\ d = [unit |-> d.unit, at |-> d.at]
           /\ Kind(d) \in DeclKind /\ Name(d) \in Seq(STRING)
<1>1. PICK i \in DOMAIN decls[u] : d = [unit |-> u, at |-> i]
  BY DEF DeclsOf
<1>2. decls[u] \in Seq([kind : DeclKind, name : Seq(STRING)])
  BY DEF TypeOK, Decls
<1>3. i \in 1 .. Len(decls[u]) /\ Len(decls[u]) \in Nat
  BY <1>2, LenProperties
<1>4. decls[u][i] \in [kind : DeclKind, name : Seq(STRING)]
  BY <1>2, <1>3, ElementOfSeq
<1> QED
  BY <1>1, <1>3, <1>4 DEF Kind, Name

LEMMA AppendedUnits == TypeOK => Appended \subseteq Unit
<1> SUFFICES ASSUME TypeOK, NEW i \in DOMAIN appended PROVE appended[i] \in Unit
  BY DEF Appended
<1>1. appended \in Seq(Unit)
  BY DEF TypeOK
<1> QED
  BY <1>1, LenProperties, ElementOfSeq

\* The check against `seen' and against the module's earlier declarations
\* keeps the link names of the module's declarations new.
LEMMA NewLinkNames ==
    ASSUME TypeOK, NEW u \in Unit, ~Clash(u),
           NEW d \in DeclsOf(u), NEW e \in Result \cup DeclsOf(Program),
           Kind(d) \in Compared, Kind(e) \in Compared
    PROVE  LinkName(d) # LinkName(e)
<1>1. LinkName(d) \notin Seen
  BY DEF Clash
<1>2. CASE e \in DeclsOf(Program)
  <2>1. e.unit = Program /\ Name(e) \in Seq(STRING)
    BY <1>2, DeclFacts DEF Unit
  <2>2. LinkName(e) = Name(e)
    BY <2>1, ConcatEmptySeq DEF LinkName, Prefix
  <2> QED
    BY <1>1, <1>2, <2>2 DEF Seen
<1>3. CASE e \in Result
  BY <1>1, <1>3 DEF Seen, Result
<1> QED
  BY <1>2, <1>3

LEMMA OwnLinkNames ==
    ASSUME TypeOK, NEW u \in Unit, ~Clash(u),
           NEW d \in DeclsOf(u), NEW e \in DeclsOf(u), d # e,
           Kind(d) \in Compared, Kind(e) \in Compared
    PROVE  LinkName(d) # LinkName(e)
<1>1. d.at < e.at \/ e.at < d.at
  BY DeclFacts
<1> QED
  BY <1>1 DEF Clash

LEMMA NInvInit == Init => NInv
<1> SUFFICES ASSUME Init PROVE NInv
  OBVIOUS
<1>1. Result = {}
  BY DEF Init, Result, Appended
<1>2. \A d \in DeclsOf(Program) : d.unit = Program
  BY DEF DeclsOf
<1> QED
  BY <1>1, <1>2, LInvInit DEF NInv, LinksDiffer

\* The units that are appended are the only thing link names depend on.
LEMMA NInvSame ==
    ASSUME NInv, LInv', UNCHANGED <<decls, appended>>
    PROVE  NInv'
  BY DEF NInv, LinksDiffer, Result, Appended, DeclsOf, Kind, Name, LinkName

LEMMA NInvAppend ==
    ASSUME NInv, LInv', AppendModule
    PROVE  NInv'
<1>0. PICK u : u = TopFrame.unit
  OBVIOUS
<1>1. /\ TypeOK /\ u \in Unit /\ ~Clash(u) /\ u # Program
      /\ UNCHANGED decls /\ appended' = Append(appended, u)
  BY <1>0, LoadingHasFrame, FrameFacts
  DEF AppendModule, Ready, NInv, LInv, TopFrame, Source
<1>2. Appended' = Appended \cup {u}
  <2>1. /\ DOMAIN appended = 1 .. Len(appended) /\ Len(appended) \in Nat
        /\ DOMAIN appended' = 1 .. Len(appended) + 1
        /\ \A i \in 1 .. Len(appended) : appended'[i] = appended[i]
        /\ appended'[Len(appended) + 1] = u
    BY <1>1, AppendFacts
  <2>2. Appended' \subseteq Appended \cup {u}
    BY <2>1 DEF Appended
  <2>3. Appended \cup {u} \subseteq Appended'
    BY <2>1 DEF Appended
  <2> QED
    BY <2>2, <2>3
<1>3. /\ Result' = Result \cup DeclsOf(u)
      /\ DeclsOf(Program)' = DeclsOf(Program)
      /\ \A d : /\ Kind(d)' = Kind(d) /\ LinkName(d)' = LinkName(d)
  BY <1>1, <1>2 DEF Result, DeclsOf, Kind, Name, LinkName
<1>4. ASSUME NEW d \in Result \cup DeclsOf(u) \cup DeclsOf(Program),
             NEW e \in Result \cup DeclsOf(u) \cup DeclsOf(Program),
             d # e, d.unit # Program,
             Kind(d) \in Compared, Kind(e) \in Compared
      PROVE  LinkName(d) # LinkName(e)
  <2>1. CASE d \in DeclsOf(u) /\ e \in DeclsOf(u)
    BY <1>1, <1>4, <2>1, OwnLinkNames
  <2>2. CASE d \in DeclsOf(u) /\ e \notin DeclsOf(u)
    BY <1>1, <1>4, <2>2, NewLinkNames
  <2>3. CASE d \notin DeclsOf(u) /\ e \in DeclsOf(u)
    BY <1>1, <1>4, <2>3, NewLinkNames
  <2>4. CASE d \notin DeclsOf(u) /\ e \notin DeclsOf(u)
    BY <1>4, <2>4 DEF NInv, LinksDiffer
  <2> QED
    BY <2>1, <2>2, <2>3, <2>4
<1>5. LinksDiffer'
  BY <1>3, <1>4 DEF LinksDiffer
<1> QED
  BY <1>5 DEF NInv

\* The program's declarations were there all the time.
LEMMA NInvFinish ==
    ASSUME NInv, LInv', FinishLinking
    PROVE  NInv'
<1>1. /\ TypeOK /\ Program \in Unit
      /\ UNCHANGED decls /\ appended' = Append(appended, Program)
  BY DEF FinishLinking, NInv, LInv, Source, Unit
<1>2. Appended' \subseteq Appended \cup {Program}
  <2>1. /\ DOMAIN appended = 1 .. Len(appended) /\ Len(appended) \in Nat
        /\ DOMAIN appended' = 1 .. Len(appended) + 1
        /\ \A i \in 1 .. Len(appended) : appended'[i] = appended[i]
        /\ appended'[Len(appended) + 1] = Program
    BY <1>1, AppendFacts
  <2> QED
    BY <2>1 DEF Appended
<1>3. /\ (Result \cup DeclsOf(Program))' \subseteq Result \cup DeclsOf(Program)
      /\ \A d : /\ Kind(d)' = Kind(d) /\ LinkName(d)' = LinkName(d)
  BY <1>1, <1>2 DEF Result, DeclsOf, Kind, Name, LinkName
<1>4. LinksDiffer'
  BY <1>3 DEF NInv, LinksDiffer
<1> QED
  BY <1>4 DEF NInv

LEMMA NInvNext == NInv /\ [Next]_vars => NInv'
<1> SUFFICES ASSUME NInv, [Next]_vars PROVE NInv'
  OBVIOUS
<1>1. LInv'
  BY LInvNext DEF NInv
<1>2. CASE AppendModule
  BY <1>1, <1>2, NInvAppend
<1>3. CASE FinishLinking
  BY <1>1, <1>3, NInvFinish
<1>4. CASE ~AppendModule /\ ~FinishLinking
  <2>1. UNCHANGED <<decls, appended>>
    BY <1>4 DEF Next, vars, Source, LoadAgain, BeginLoad, EndLoad, LoadFails,
                Descend, RejectDuplicate
  <2> QED
    BY <1>1, <2>1, NInvSame
<1> QED
  BY <1>2, <1>3, <1>4

\* Two classes, structs or variables of the result have different link
\* names when one of them comes from a module: appendLoadedProgram compares
\* the names of the module with `seen' and with each other before any of them
\* is appended, and the prefix of every module is fixed.
THEOREM LinkNamesDiffer == Spec => []LinkNamesDistinct
<1>1. NInv => LinkNamesDistinct
  BY DEF NInv, LinksDiffer, LinkNamesDistinct
<1> QED
  BY <1>1, NInvInit, NInvNext, PTL DEF Spec

\* Of two declarations of the result one was registered before the other.
LEMMA OneIsFirst ==
    ASSUME TypeOK, NEW d \in Result, NEW e \in Result, d # e
    PROVE  Precedes(d, e) \/ Precedes(e, d)
<1>1. /\ d.unit \in Appended /\ d.at \in DOMAIN decls[d.unit]
      /\ d = [unit |-> d.unit, at |-> d.at]
  BY DEF Result, DeclsOf
<1>2. /\ e.unit \in Appended /\ e.at \in DOMAIN decls[e.unit]
      /\ e = [unit |-> e.unit, at |-> e.at]
  BY DEF Result, DeclsOf
<1>3. CASE d.unit = e.unit
  <2>1. DOMAIN decls[d.unit] = 1 .. Len(decls[d.unit]) /\ Len(decls[d.unit]) \in Nat
    BY <1>1, AppendedUnits, LenProperties DEF TypeOK, Decls
  <2>2. d.at \in Int /\ e.at \in Int /\ d.at # e.at
    BY <1>1, <1>2, <1>3, <2>1
  <2> QED
    BY <1>3, <2>2 DEF Precedes
<1>4. CASE d.unit # e.unit
  <2>1. PICK i \in DOMAIN appended : appended[i] = d.unit
    BY <1>1 DEF Appended
  <2>2. PICK j \in DOMAIN appended : appended[j] = e.unit
    BY <1>2 DEF Appended
  <2>3. DOMAIN appended = 1 .. Len(appended) /\ Len(appended) \in Nat
    BY LenProperties DEF TypeOK
  <2>4. i < j \/ j < i
    BY <1>4, <2>1, <2>2, <2>3
  <2> QED
    BY <2>1, <2>2, <2>4 DEF Precedes, Before
<1> QED
  BY <1>3, <1>4

LEMMA NeverBeforeItself ==
    ASSUME TypeOK, AppendedOnce, NEW d \in Result
    PROVE  ~Precedes(d, d)
<1>1. ~Before(d.unit, d.unit)
  <2>1. DOMAIN appended = 1 .. Len(appended) /\ Len(appended) \in Nat
    BY LenProperties DEF TypeOK
  <2> QED
    BY <2>1 DEF AppendedOnce, Before
<1>2. d.at \in Int
  <2>1. d.unit \in Appended /\ d.at \in DOMAIN decls[d.unit]
    BY DEF Result, DeclsOf
  <2>2. DOMAIN decls[d.unit] = 1 .. Len(decls[d.unit]) /\ Len(decls[d.unit]) \in Nat
    BY <2>1, AppendedUnits, LenProperties DEF TypeOK, Decls
  <2> QED
    BY <2>1, <2>2
<1> QED
  BY <1>1, <1>2 DEF Precedes

\* In a module an unqualified type is the module's own when it has one and
\* nothing with the same link name was registered before it: it is the one
\* that lookupSymbol finds under the prefixed name, which is looked up before
\* all others.  An enum that shares its link name with no other type is found
\* by its metadata if not by its symbol.
THEOREM OwnTypesWin == Spec => []OwnTypesFirst
<1>1. TypeOK /\ AppendedOnce => OwnTypesFirst
  <2> SUFFICES ASSUME TypeOK, AppendedOnce, NEW d \in Result, d.unit # Program,
                      Kind(d) \in TypeKind
               PROVE  /\ ~Hidden(d) =>
                             /\ TypeFound(d.unit, Name(d)) = {d}
                             /\ TypeMeant(d.unit, Name(d)) = {LinkName(d)}
                      /\ /\ Kind(d) = "enum"
                         /\ \A e \in Result \ {d} : Kind(e) \in TypeKind => LinkName(e) # LinkName(d)
                         => TypeFound(d.unit, Name(d)) = {d}
    BY DEF OwnTypesFirst
  <2> DEFINE own == Own(d.unit, TypeKind, Name(d))
  <2>1. LinkName(d) = Prefix(d.unit) \o Name(d)
    BY DEF LinkName, TypeKind, Function
  <2>2. own = {e \in First(LinkName(d)) : Kind(e) \in TypeKind}
    BY <2>1 DEF Own
  <2>3. ASSUME ~Hidden(d)
        PROVE  /\ TypeFound(d.unit, Name(d)) = {d}
               /\ TypeMeant(d.unit, Name(d)) = {LinkName(d)}
    <3>1. d \in First(LinkName(d))
      BY <2>3 DEF First, Hidden
    <3>2. ASSUME NEW e \in First(LinkName(d))
          PROVE  e = d
      <4>1. e \in Result /\ LinkName(e) = LinkName(d) /\ ~Precedes(d, e)
        BY <3>2 DEF First
      <4>2. ~Precedes(e, d)
        BY <2>3, <4>1 DEF Hidden
      <4> QED
        BY <4>1, <4>2, OneIsFirst
    <3>3. own = {d}
      BY <2>2, <3>1, <3>2
    <3> QED
      BY <2>1, <3>3 DEF TypeFound, TypeMeant
  <2>4. ASSUME Kind(d) = "enum",
               \A e \in Result \ {d} : Kind(e) \in TypeKind => LinkName(e) # LinkName(d)
        PROVE  TypeFound(d.unit, Name(d)) = {d}
    <3>1. own \subseteq {d}
      BY <2>2, <2>4 DEF First
    <3>2. \A e \in Result \ {d} :
              LinkName(e) = LinkName(d) => Kind(e) \notin {"class", "struct", "enum"}
      BY <2>4 DEF TypeKind
    <3>3. ~Precedes(d, d)
      BY NeverBeforeItself
    <3>4. EnumOf(LinkName(d)) = {d}
      BY <2>4, <3>2, <3>3 DEF EnumOf
    <3>5. EnumMeant(d.unit, Name(d)) = {d}
      BY <2>1, <3>4 DEF EnumMeant
    <3>6. CASE own = {}
      BY <3>5, <3>6 DEF TypeFound
    <3>7. CASE own # {}
      BY <3>1, <3>7 DEF TypeFound
    <3> QED
      BY <3>6, <3>7
  <2> QED
    BY <2>3, <2>4
<1> QED
  BY <1>1, TypeCorrect, EachAppendedOnce, PTL

LEMMA ImageFinite ==
    ASSUME NEW S, IsFiniteSet(S), NEW f, f = [x \in S |-> f[x]]
    PROVE  IsFiniteSet({f[x] : x \in S})
<1>1. f \in Surjection(S, {f[x] : x \in S})
  BY DEF Surjection
<1> QED
  BY <1>1, FS_Surjection

LEMMA ResultFinite == TypeOK => IsFiniteSet(Result)
<1> SUFFICES ASSUME TypeOK PROVE IsFiniteSet(Result)
  OBVIOUS
<1>1. IsFiniteSet(Appended)
  <2>1. /\ appended = [i \in 1 .. Len(appended) |-> appended[i]]
        /\ DOMAIN appended = 1 .. Len(appended) /\ Len(appended) \in Nat
    BY LenProperties DEF TypeOK
  <2>2. IsFiniteSet(1 .. Len(appended))
    BY <2>1, FS_Interval
  <2>3. IsFiniteSet({appended[i] : i \in 1 .. Len(appended)})
    BY <2>1, <2>2, ImageFinite
  <2> QED
    BY <2>1, <2>3 DEF Appended
<1>2. ASSUME NEW u \in Appended
      PROVE  IsFiniteSet(DeclsOf(u))
  <2> DEFINE places == [i \in DOMAIN decls[u] |-> [unit |-> u, at |-> i]]
  <2>1. DOMAIN decls[u] = 1 .. Len(decls[u]) /\ Len(decls[u]) \in Nat
    BY <1>2, AppendedUnits, LenProperties DEF TypeOK, Decls
  <2>2. IsFiniteSet(DOMAIN decls[u])
    <3>1. IsFiniteSet(1 .. Len(decls[u]))
      BY <2>1, FS_Interval
    <3> QED
      BY <2>1, <3>1
  <2>3. places = [i \in DOMAIN decls[u] |-> places[i]]
    OBVIOUS
  <2>4. DeclsOf(u) = {places[i] : i \in DOMAIN decls[u]}
    BY DEF DeclsOf
  <2> HIDE DEF places
  <2> QED
    BY <2>2, <2>3, <2>4, ImageFinite
<1>3. IsFiniteSet({DeclsOf(u) : u \in Appended})
  <2> DEFINE texts == [u \in Appended |-> DeclsOf(u)]
  <2>1. /\ texts = [u \in Appended |-> texts[u]]
        /\ {DeclsOf(u) : u \in Appended} = {texts[u] : u \in Appended}
    OBVIOUS
  <2> HIDE DEF texts
  <2>2. IsFiniteSet({texts[u] : u \in Appended})
    BY <1>1, <2>1, ImageFinite
  <2> QED
    BY <2>1, <2>2, Zenon
<1> QED
  BY <1>2, <1>3, FS_UNION DEF Result

\* A name that two modules declare means nothing to the program unless it is
\* a link name as well: both declarations are candidates for the short name.
THEOREM AmbiguousHasNoMeaning == Spec => []AmbiguousIsRefused
<1>1. TypeOK => AmbiguousIsRefused
  <2> SUFFICES ASSUME TypeOK, NEW d \in Result, NEW e \in Result,
                      d.unit # e.unit, {d.unit, e.unit} \subseteq Modules,
                      Name(d) = Name(e), Group(Kind(d)) = Group(Kind(e)),
                      ~Registered(DeclKind, Name(d))
               PROVE  /\ Group(Kind(d)) = "type" => TypeFound(Program, Name(d)) = {}
                      /\ Kind(d) = Function => FunctionMeant(Program, Name(d)) = {}
    BY DEF AmbiguousIsRefused
  <2> DEFINE n == Name(d)
             C == Candidates(Group(Kind(d)), n)
  <2>1. \A c \in Result : Kind(c) \in DeclKind
    BY AppendedUnits, DeclFacts DEF Result
  <2>2. d \in C /\ e \in C /\ d # e
    BY <2>1, ProgramAssumption DEF Candidates, Registered
  <2>3. IsFiniteSet(C)
    BY ResultFinite, FS_Subset DEF Candidates
  <2>4. Cardinality(C) # 1
    BY <2>2, <2>3, FS_Singleton
  <2>5. Alias(Group(Kind(d)), n) = {}
    BY <2>4 DEF Alias
  <2>6. /\ First(n) = {} /\ EnumOf(n) = {} /\ ~Registered({Function}, n)
    BY <2>1 DEF Registered, First, EnumOf, DeclKind
  <2>7. Group(Kind(d)) = "type" => TypeFound(Program, n) = {}
    BY <2>5, <2>6 DEF TypeFound, EnumMeant, GlobalType, Own, First, Prefix
  <2>8. Kind(d) = Function => FunctionMeant(Program, n) = {}
    BY <2>5, <2>6 DEF FunctionMeant, Group, Function, TypeKind
  <2> QED
    BY <2>7, <2>8
<1> QED
  BY <1>1, TypeCorrect, PTL

-----------------------------------------------------------------------------
(* The check for circular imports *)

\* loadingModules_ holds the module whose file is being parsed and nothing
\* else: it is emptied before the imports of that module are looked at.
OnlyTheRead == loading = IF reading THEN {Wanted} ELSE {}

CInv == OnlyTheRead /\ status # "cyclic"

\* The exception "Circular dependency detected" of loadModule is never thrown,
\* whatever the modules import: no module is found in loadingModules_.
THEOREM CycleNeverReported == Spec => [](status # "cyclic")
<1>1. Init => CInv
  BY DEF Init, CInv, OnlyTheRead
<1>2. CInv /\ [Next]_vars => CInv'
  <2> SUFFICES ASSUME CInv, [Next]_vars PROVE CInv'
    OBVIOUS
  <2>1. CASE BeginLoad
    <3>1. loading = {} /\ reading' /\ status' = "loading"
      BY <2>1 DEF BeginLoad, CInv, OnlyTheRead
    <3>2. Wanted' = Wanted
      BY <2>1 DEF BeginLoad, Source, Wanted, TopFrame
    <3> QED
      BY <2>1, <3>1, <3>2 DEF BeginLoad, CInv, OnlyTheRead
  <2>2. CASE EndLoad
    BY <2>2 DEF EndLoad, CInv, OnlyTheRead
  <2>3. CASE LoadAgain \/ Descend \/ AppendModule \/ FinishLinking
    BY <2>3 DEF LoadAgain, Descend, AppendModule, FinishLinking, Ready, CInv,
                OnlyTheRead
  <2>4. CASE LoadFails \/ RejectDuplicate \/ UNCHANGED vars
    <3>1. UNCHANGED <<loading, reading>> /\ Wanted' = Wanted
      BY <2>4 DEF LoadFails, RejectDuplicate, vars, Source, Wanted, TopFrame
    <3>2. status' # "cyclic"
      BY <2>4 DEF LoadFails, RejectDuplicate, vars, CInv
    <3> QED
      BY <3>1, <3>2 DEF CInv, OnlyTheRead
  <2> QED
    BY <2>1, <2>2, <2>3, <2>4 DEF Next
<1>3. CInv => status # "cyclic"
  BY DEF CInv
<1> QED
  BY <1>1, <1>2, <1>3, PTL DEF Spec
=============================================================================
