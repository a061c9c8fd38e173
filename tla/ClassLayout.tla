------------------------------ MODULE ClassLayout ------------------------------
(* Classes and interfaces, from their declaration to the tables by which generated    *)
(* code finds fields, methods and destructors.                                         *)
(*                                                                                    *)
(* The analyzer takes the classes in the order of the program: it registers the base,  *)
(* adds the members nobody wrote (a destructor that the base needs, the default        *)
(* methods of interfaces) and checks that interfaces are implemented. The generator    *)
(* then numbers the methods of all interfaces behind the slots that classes can have,  *)
(* and lays out one class after the other from the tables of its base. A call or a     *)
(* delete later reads a slot number of the static type in the table of the object.     *)
(*                                                                                    *)
(* The classes are the numbers 1..N, in the order of the program; Interfaces likewise, *)
(* a base interface before those that extend it (analyzeInterfaceDecl finds no other). *)
(* A method is "plain", or "virtual" when it is marked virtual or override: both       *)
(* passes test for either word. Every class has one field of its own.                  *)
EXTENDS Naturals, Sequences, FiniteSets, Functions, SequencesExt

CONSTANTS
  N,             \* number of classes
  Shapes,        \* the inheritance graphs considered: base class of each class, or 0
  Declarations,  \* the members that a class may have
  Interfaces,    \* 1..k
  Extends,       \* [Interfaces -> SUBSET Interfaces]: baseInterfaces
  Members,       \* names of the methods of an interface
  Defaults       \* methods that have a default implementation in their interface

Classes == 1..N
Kinds == {"plain", "virtual"}

ASSUME ShapesAssumption == N \in Nat \ {0} /\ Shapes \subseteq [Classes -> 0..N]
ASSUME InterfacesAssumption ==
  /\ Interfaces \subseteq Nat /\ IsFiniteSet(Interfaces)
  /\ Extends \in [Interfaces -> SUBSET Interfaces]
  /\ \A i \in Interfaces : \A j \in Extends[i] : j < i
  /\ Members \in [Interfaces -> Seq(STRING \ {"~"})]
\* "~" stands for a destructor, it is no identifier.
ASSUME DeclarationsAssumption ==
  Declarations \subseteq
    [methods : Seq([name : STRING \ {"~"}, kind : Kinds]),
     interfaces : SUBSET Interfaces, destructor : {"none", "plain", "virtual"}]

VARIABLES
  base,      \* baseClass of every class declaration
  decl,      \* members of the classes analyzed so far, with those that were added
  extends,   \* base classes that the analyzer has registered (ClassType.baseClasses)
  rejected,  \* the analyzer has reported an error
  slots,     \* virtualSlots_ of the classes generated so far
  vtable,    \* vtableFunctions_, with the size of the table
  layout,    \* structTypes_
  withTable  \* classesWithVTable_

vars == <<base, decl, extends, rejected, slots, vtable, layout, withTable>>

Analyzed == Len(decl)
Generated == Len(layout)
Complete == Generated = N /\ ~rejected
Declared(c) == {decl[c].methods[k].name : k \in DOMAIN decl[c].methods}
Marked(c) == {decl[c].methods[k].name :
                k \in {j \in DOMAIN decl[c].methods : decl[c].methods[j].kind = "virtual"}}

(* -------------------------------- the analyzer ---------------------------------- *)

\* A class that `up` does not cover yet has no known base.
HasUp(up, c) == c \in DOMAIN up /\ up[c] # 0
Extended(up, line) ==
  IF HasUp(up, Last(line)) THEN Append(line, up[Last(line)]) ELSE line

\* A class and its ancestors along a relation `up`, nearest first.
Line(up, c) ==
  LET line[k \in 0..N] == IF k = 0 THEN <<c>> ELSE Extended(up, line[k - 1])
  IN line[N]

Ancestors(up, c) == ToSet(Line(up, c))

\* The interfaces that an interface stands for: InterfaceType::implements.
Covered(i) ==
  LET covered[k \in Interfaces] == {k} \cup UNION {covered[j] : j \in Extends[k]}
  IN covered[i]

\* ClassType::getMethod: the nearest class that declares the method, or 0.
Nearest(up, c, method) ==
  LET line == Line(up, c)
      having == {k \in DOMAIN line : line[k] <= Analyzed /\ method \in Declared(line[k])}
  IN IF having = {} THEN 0 ELSE line[CHOOSE k \in having : \A j \in having : k <= j]

\* analyzeMemberExpr: the call is dispatched when the declaration it finds is marked.
Dispatched(c, method) ==
  LET owner == Nearest(extends, c, method) IN owner # 0 /\ method \in Marked(owner)

\* ClassType::implements.
Implements(c, i) ==
  \E a \in Ancestors(extends, c) : \E j \in decl[a].interfaces : i \in Covered(j)

\* Mutant of Circular: only the base of the base is compared.
CircularOneLevel(c, b) == b <= Analyzed /\ extends[b] = c

\* checkCircularInheritance: the class is among the ancestors of its base, as far as
\* they have been registered.
Circular(c, b) == c \in ToSet(Tail(Line(extends, b)))

\* Mutant of DestructorOf: no destructor is added.
DestructorAsWritten(d, b) == d.destructor

\* The class gets a destructor of its own when its base has one already.
DestructorOf(d, b) ==
  IF d.destructor = "none" /\ b \in 1..Analyzed /\ decl[b].destructor # "none"
  THEN "plain" ELSE d.destructor

\* A base that the analyzer has seen already, with the method or without.
Inherits(b, method) == b \in 1..Analyzed /\ Nearest(extends, b, method) # 0

\* Default methods of the interfaces of this class that neither it nor a base declares.
Added(d, b) ==
  LET own == {d.methods[k].name : k \in DOMAIN d.methods}
      wanted == (UNION {ToSet(Members[i]) : i \in d.interfaces}) \cap Defaults
  IN SetToSeq({[name |-> m, kind |-> "plain"] :
                 m \in {w \in wanted : w \notin own /\ ~Inherits(b, w)}})

\* checkInterfaceImplementation: the methods of the interfaces named here, not those
\* of the interfaces that they extend.
Unimplemented(methods, interfaces, b) ==
  {m \in UNION {ToSet(Members[i]) : i \in interfaces} :
     /\ \A k \in DOMAIN methods : methods[k].name # m
     /\ ~Inherits(b, m)}

\* analyzeClassDecl of the next class of the program.
AnalyzeClass(d) ==
  LET c == Analyzed + 1
      b == IF base[c] # 0 /\ Circular(c, base[c]) THEN 0 ELSE base[c]
      methods == d.methods \o Added(d, b)
  IN /\ Analyzed < N
     /\ decl' = Append(decl, [methods |-> methods, interfaces |-> d.interfaces,
                              destructor |-> DestructorOf(d, b)])
     /\ extends' = Append(extends, b)
     /\ rejected' = (rejected \/ b # base[c]
                       \/ Unimplemented(methods, d.interfaces, b) # {})
     /\ UNCHANGED <<base, slots, vtable, layout, withTable>>

(* -------------------------------- the generator --------------------------------- *)

Empty == <<0, "">>
\* The element of a layout that points to the table; a field has the number of its class.
Vptr == 0

\* collectInterfaceInfo: all interface methods, each once. The code takes those of base
\* interfaces first; the properties hold of any order.
InterfaceMethods == SetToSeq(UNION {ToSet(Members[i]) : i \in Interfaces})

\* interfaceMethodSlots_, counted from 0.
InterfaceSlot(m) == CHOOSE k \in 0..(Len(InterfaceMethods) - 1) : InterfaceMethods[k + 1] = m

\* The member functions of a class, its destructor included.
MemberFunctions(c) ==
  1..(Len(decl[c].methods) + (IF decl[c].destructor = "none" THEN 0 ELSE 1))

\* interfaceBaseSlot_: every member function of every class could need a slot.
InterfaceBase == Cardinality(UNION {{c} \X MemberFunctions(c) : c \in Classes})

HasBase(c) == base[c] # 0
BaseHasTable(c) == HasBase(c) /\ base[c] \in withTable

\* Only a root class introduces a table, or the base has one.
HasSlots(c) ==
  \/ BaseHasTable(c)
  \/ /\ ~HasBase(c)
     /\ (Marked(c) # {} \/ decl[c].destructor = "virtual" \/ decl[c].interfaces # {})

BaseSlots(c) == IF BaseHasTable(c) THEN slots[base[c]] ELSE <<>>
BaseTable(c) == IF BaseHasTable(c) THEN vtable[base[c]] ELSE <<>>

\* The names that get a slot in this class, "~" among them.
Slotted(c) ==
  LET inherited == DOMAIN BaseSlots(c)
  IN IF ~HasSlots(c) THEN {}
     ELSE {m \in Declared(c) : m \in Marked(c) \cup inherited}
            \cup {m \in {"~"} : decl[c].destructor = "virtual" \/ m \in inherited}

\* n comes before m among the members; the destructor is treated last.
Precedes(c, n, m) ==
  \E k \in DOMAIN decl[c].methods :
    decl[c].methods[k].name = n /\ \A j \in 1..k : decl[c].methods[j].name # m

\* virtualSlots_: slots of the base keep their number, new names are counted on.
Slots(c) ==
  LET inherited == BaseSlots(c)
      new == Slotted(c) \ DOMAIN inherited
  IN [m \in DOMAIN inherited \cup new |->
        IF m \in DOMAIN inherited THEN inherited[m]
        ELSE Cardinality(DOMAIN inherited) + Cardinality({n \in new : Precedes(c, n, m)})]

\* findMethodOwner: along the bases that have been generated already.
Owner(c, m) ==
  LET line == Line(SubSeq(base, 1, Generated + 1), c)
      having == {k \in DOMAIN line : line[k] <= Generated + 1 /\ m \in Declared(line[k])}
  IN IF having = {} THEN 0 ELSE line[CHOOSE k \in having : \A j \in having : k <= j]

\* Class slots that this class fills: its own bodies. An inherited destructor slot
\* is left alone by a class without destructor.
Filled(c) ==
  {m \in Slotted(c) : m # "~" \/ decl[c].destructor # "none"}

\* The class slot that an entry of the base keeps or this class replaces.
ClassEntry(c, slot) ==
  LET own == Slots(c)
      filling == {m \in Filled(c) : own[m] = slot}
  IN IF filling # {} THEN <<c, CHOOSE m \in filling : TRUE>>
     ELSE IF slot \in DOMAIN BaseTable(c) THEN BaseTable(c)[slot] ELSE Empty

\* Mutant of InterfaceEntry: only classes that name an interface fill interface slots.
InterfaceEntryOfImplementer(c, m, inherited) ==
  IF decl[c].interfaces # {} /\ Owner(c, m) # 0 THEN <<Owner(c, m), m>> ELSE inherited

\* The interface slot of a method: a class that names an interface looks for the method
\* along its bases, and its own methods replace what was inherited in any case.
InterfaceEntry(c, m, inherited) ==
  IF m \in Declared(c) THEN <<c, m>>
  ELSE IF decl[c].interfaces # {} /\ Owner(c, m) # 0 THEN <<Owner(c, m), m>>
  ELSE inherited

\* vtableFunctions_, as a function from slots to bodies (a class and a name). The table
\* grows to the last slot that is needed.
VTable(c) ==
  LET end == InterfaceBase + Len(InterfaceMethods)
      taken == DOMAIN BaseTable(c) \cup {Slots(c)[m] : m \in Slotted(c)}
                 \cup (IF decl[c].interfaces = {} THEN {} ELSE 0..(end - 1))
      entry(slot) ==
        IF slot \in InterfaceBase..(end - 1)
        THEN InterfaceEntry(c, InterfaceMethods[slot - InterfaceBase + 1], ClassEntry(c, slot))
        ELSE ClassEntry(c, slot)
  IN [slot \in UNION {0..last : last \in taken} |-> entry(slot)]

HasTable(c) == HasSlots(c) \/ DOMAIN VTable(c) # {}

\* Mutant of Layout: every class with a table gets a pointer of its own.
LayoutOwnPointer(c) ==
  (IF HasTable(c) THEN <<Vptr>> ELSE <<>>)
  \o (IF HasBase(c) /\ base[c] <= Generated THEN layout[base[c]] ELSE <<>>)
  \o <<c>>

\* structTypes_: a table pointer in front when the base has none, then the base's
\* elements if the base has been laid out, then the class's own field.
Layout(c) ==
  (IF HasTable(c) /\ ~BaseHasTable(c) THEN <<Vptr>> ELSE <<>>)
  \o (IF HasBase(c) /\ base[c] <= Generated THEN layout[base[c]] ELSE <<>>)
  \o <<c>>

\* generateClassDecl of the next class.
GenerateClass ==
  LET c == Generated + 1 IN
  /\ Analyzed = N /\ Generated < N
  /\ ~rejected
  /\ slots' = Append(slots, Slots(c))
  /\ vtable' = Append(vtable, VTable(c))
  /\ layout' = Append(layout, Layout(c))
  /\ withTable' = withTable \cup {x \in {c} : HasTable(x)}
  /\ UNCHANGED <<base, decl, extends, rejected>>

(* -------------------------------- generated code -------------------------------- *)

\* What the slot holds in the table of an object: its first word has to be the table.
Read(o, slot) ==
  IF layout[o][1] = Vptr /\ slot \in DOMAIN vtable[o] THEN vtable[o][slot] ELSE Empty

\* A method called through a pointer to class s on an object of class o: the body that
\* runs. A call that is not dispatched looks the function up along the bases of s.
Called(o, s, m) ==
  IF Dispatched(s, m) /\ m \in DOMAIN slots[s] THEN Read(o, slots[s][m])
  ELSE <<Nearest(base, s, m), m>>

\* A method of an interface, called on an object of class o.
InterfaceCalled(o, m) == Read(o, InterfaceBase + InterfaceSlot(m))

\* A destructor calls the one of its direct base, if there is that function.
Destructors(c) ==
  LET line == Line(base, c)
      last == CHOOSE k \in 0..Len(line) :
                /\ \A j \in 1..k : decl[line[j]].destructor # "none"
                /\ k = Len(line) \/ decl[line[k + 1]].destructor = "none"
  IN SubSeq(line, 1, last)

\* delete through a pointer to class s: the destructors that run, in order.
Deleted(o, s) ==
  IF "~" \in DOMAIN slots[s]
  THEN LET entry == Read(o, slots[s]["~"]) IN
       IF entry = Empty THEN <<>> ELSE Destructors(entry[1])
  ELSE Destructors(s)

\* Mutant of IsSubclass: only the class and its direct base.
IsSubclassDirect(c, b) == c = b \/ base[c] = b

\* classIsSubclass and classHasInterface.
IsSubclass(c, b) == b \in Ancestors(base, c)
HasInterface(c, i) == \E a \in Ancestors(base, c) : \E j \in decl[a].interfaces : i \in Covered(j)

\* A thrown pointer of static type s carries the tag of s, and the table of its object
\* when s has one; a catch names the tags and tables of the classes that it accepts.
Caught(o, s, accepted) ==
  s \in accepted \/ (s \in withTable /\ layout[o][1] = Vptr /\ o \in accepted)
CaughtAsClass(o, s, c) == Caught(o, s, {a \in Classes : IsSubclass(a, c)})
CaughtAsInterface(o, s, i) == Caught(o, s, {a \in Classes : HasInterface(a, i)})

Init ==
  /\ base \in Shapes
  /\ decl = <<>> /\ extends = <<>> /\ rejected = FALSE
  /\ slots = <<>> /\ vtable = <<>> /\ layout = <<>> /\ withTable = {}

\* A program with errors is not generated; a complete one is left to the program.
Done == ((rejected /\ Analyzed = N) \/ Complete) /\ UNCHANGED vars

Next ==
  \/ \E d \in Declarations : AnalyzeClass(d)
  \/ GenerateClass
  \/ Done

Spec == Init /\ [][Next]_vars

(* ---------------------------------- properties ---------------------------------- *)

TypeOK ==
  /\ base \in Shapes /\ rejected \in BOOLEAN
  /\ Analyzed <= N /\ Len(extends) = Analyzed /\ Generated <= Analyzed
  /\ \A c \in 1..Analyzed :
       /\ \A k \in DOMAIN decl[c].methods : decl[c].methods[k].kind \in Kinds
       /\ decl[c].interfaces \subseteq Interfaces
       /\ decl[c].destructor \in {"none", "plain", "virtual"}
       /\ extends[c] \in {0, base[c]}
       /\ base[c] # c => c \notin ToSet(Tail(Line(extends, c)))
  /\ Len(slots) = Generated /\ Len(vtable) = Generated
  /\ withTable \subseteq 1..Generated

\* Programs whose classes follow their bases.
BasesFirst == \A c \in Classes : base[c] < c

\* What generateClassDecl says it does not support: virtual methods, a virtual
\* destructor or interfaces in a class whose base has no table.
Supported ==
  \A c \in Classes : HasBase(c) /\ base[c] \notin withTable =>
    Marked(c) = {} /\ decl[c].destructor # "virtual" /\ decl[c].interfaces = {}

Sound == Complete /\ BasesFirst /\ Supported

\* A call that the analyzer dispatches, and every call through an interface, runs the
\* body nearest to the class of the object, in whatever class of the line the method,
\* the interface or the override was introduced.
CallsReachOverride ==
  Sound =>
    \A o \in Classes :
      /\ \A s \in Ancestors(base, o) : \A m \in Declared(s) :
           Dispatched(s, m) => Called(o, s, m) = <<Nearest(base, o, m), m>>
      /\ \A i \in Interfaces : \A k \in DOMAIN Members[i] :
           Implements(o, i) /\ Nearest(base, o, Members[i][k]) # 0
             => InterfaceCalled(o, Members[i][k])
                  = <<Nearest(base, o, Members[i][k]), Members[i][k]>>

\* An object of a derived class serves as one of its base: the base's elements keep
\* their places, its slots keep their numbers, no two methods share one, and the slots
\* of classes end before those of interfaces begin.
LayoutsAgree ==
  Sound =>
    \A o \in Classes :
      /\ HasBase(o) => /\ IsPrefix(layout[base[o]], layout[o])
                       /\ \A m \in DOMAIN slots[base[o]] : slots[o][m] = slots[base[o]][m]
      /\ IsInjective(slots[o])
      /\ \A m \in DOMAIN slots[o] : slots[o][m] < InterfaceBase

\* Deleting an object as what it is, or through a base whose destructor is virtual,
\* runs the destructor of every class of its line that has one, each once and the
\* derived one first.
DestructorsComplete ==
  Sound =>
    \A o \in Classes : \A s \in Ancestors(base, o) :
      o = s \/ "~" \in DOMAIN slots[s] =>
        LET deleted == Deleted(o, s)
        IN /\ ToSet(deleted) = {a \in Ancestors(base, o) : decl[a].destructor # "none"}
           /\ \A j, k \in DOMAIN deleted :
                j < k => deleted[k] \in Ancestors(base, deleted[j]) \ {deleted[j]}

\* A pointer thrown as a class with a table is caught by the classes and interfaces
\* of the object that was thrown, and by no other.
CatchesDynamicType ==
  Sound =>
    \A o \in Classes : \A s \in Ancestors(base, o) \cap withTable :
      /\ \A c \in Classes : CaughtAsClass(o, s, c) <=> c \in Ancestors(base, o)
      /\ \A i \in Interfaces : CaughtAsInterface(o, s, i) <=> Implements(o, i)
================================================================================
