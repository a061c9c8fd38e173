------------------------------ MODULE Conversions ------------------------------
(* Which values the analyzer lets into which variables, and what they point to     *)
(* afterwards.                                                                     *)
(*                                                                                 *)
(* isTypeCompatible (semantic/SemanticAnalyzer.cpp) decides every declaration,     *)
(* assignment and argument.  It works on static types alone: a chain of accepted   *)
(* conversions should still leave every pointer, slice, reference and interface    *)
(* value on memory that its type describes, and not turn a readonly view into a    *)
(* writable one.  Some conversions that the code accepts do not: Flaws names them, *)
(* `flaws' records which of them a program has used, and the properties say that   *)
(* nothing else goes wrong.  The module has the relation with the type classes it  *)
(* asks (types/*.cpp), the choice among overloads, and a memory that programs fill *)
(* statement by statement.                                                         *)
(*                                                                                 *)
(* Left out: numbers (a scalar is 0 for all that matters here), the values of      *)
(* objects, function, tuple, union, generic, enum and rectangular types, template  *)
(* and variadic functions, and what a called function returns.                     *)
EXTENDS Integers, Sequences, FiniteSets

CONSTANTS
  Classes,      \* names of classes
  Bases,        \* Bases[c]: the base classes of c
  Implemented,  \* Implemented[c]: the interfaces in the declaration of c
  Extended,     \* Extended[i]: the base interfaces of interface i
  Families,     \* [objects, types, overloads]: the variables a program starts with,
                \* the types of the ones it declares, the overloads of its function
  MaxVariables  \* bound on the variables that a program declares

VARIABLES
  family,       \* the element of Families
  cells,        \* the variables in the order of their declaration: static type,
                \* whether the declaration says const, and the value
  flaws         \* the unsound conversions in the statements so far

vars == <<family, cells, flaws>>

--------------------------------------------------------------------------------
(* Types. *)

Primitive(name) == [kind |-> "primitive", name |-> name]
Class(c) == [kind |-> "class", name |-> c]
Interface(i) == [kind |-> "interface", name |-> i]
LiteralView == [kind |-> "literalview"]
Pointer(t) == [kind |-> "pointer", of |-> t]
Slice(t) == [kind |-> "slice", of |-> t]
Reference(t) == [kind |-> "reference", of |-> t]
Nullable(t) == [kind |-> "nullable", of |-> t]
Readonly(t) == [kind |-> "readonly", of |-> t]
Array(t, n) == [kind |-> "array", of |-> t, size |-> n]

\* The type of the literal null.
Void == Primitive("void")

RECURSIVE unwrapReadonly(_)
unwrapReadonly(t) == IF t.kind = "readonly" THEN unwrapReadonly(t.of) ELSE t

Integral == {"byte", "sbyte", "short", "ushort", "int", "uint", "long", "ulong", "char"}
Floating == {"float", "double", "fp16", "bf16"}

Size(name) ==
  CASE name \in {"bool", "byte", "sbyte"} -> 1
    [] name \in {"short", "ushort", "char", "fp16", "bf16"} -> 2
    [] name \in {"int", "uint", "float"} -> 4
    [] name \in {"long", "ulong", "double"} -> 8
    [] OTHER -> 0

RECURSIVE InterfaceImplements(_, _), Implements(_, _)
InterfaceImplements(i, other) ==
  i = other \/ \E base \in Extended[i] : InterfaceImplements(base, other)

Implements(c, i) ==
  \/ \E own \in Implemented[c] : InterfaceImplements(own, i)
  \/ \E base \in Bases[c] : Implements(base, i)

--------------------------------------------------------------------------------
(* isCompatibleWith and isSubtypeOf of the type classes. *)

RECURSIVE isCompatibleWith(_, _), isSubtypeOf(_, _)

\* A string literal is a view of readonly bytes.
ViewsLiteral(t) ==
  /\ t.kind \in {"pointer", "slice"}
  /\ t.of.kind = "readonly"
  /\ unwrapReadonly(t.of) = Primitive("byte")

ClassIsCompatible(t, other) ==
  \/ other = t
  \/ other.kind = "interface" /\ Implements(t.name, other.name)

LiteralIsCompatible(t, other) == other = t \/ ViewsLiteral(other)

isCompatibleWithImpl(t, other) ==
  \/ t.kind = "primitive" /\ other = t
  \/ t.kind = "pointer" /\ other.kind = "pointer" /\ isSubtypeOf(t.of, other.of)
  \/ /\ t.kind \in {"slice", "reference", "nullable"} /\ other.kind = t.kind
     /\ isCompatibleWith(t.of, other.of)
  \/ /\ t.kind = "array" /\ other.kind = "array" /\ t.size = other.size
     /\ isCompatibleWith(t.of, other.of)
  \/ t.kind = "class" /\ ClassIsCompatible(t, other)
  \/ /\ t.kind = "interface" /\ other.kind = "interface"
     /\ InterfaceImplements(t.name, other.name)
  \/ t.kind = "literalview" /\ LiteralIsCompatible(t, other)

\* A top-level readonly may come and go on either side: it is about the copy.
isCompatibleWith(t, other) ==
  \/ t.kind = "readonly" /\ isCompatibleWith(t.of, other)
  \/ other.kind = "readonly" /\ isCompatibleWith(t, other.of)
  \/ /\ t.kind # "readonly" /\ other.kind # "readonly"
     /\ isCompatibleWithImpl(t, other)

\* Mutant of NarrowerPrimitive: the sizes alone decide.
NotWider(t, other) == Size(t.name) <= Size(other.name)

NarrowerPrimitive(t, other) ==
  /\ \/ {t.name, other.name} \subseteq Integral
     \/ {t.name, other.name} \subseteq Floating
  /\ Size(t.name) <= Size(other.name)

NullableIsSubtype(t, other) ==
  IF other.kind = "nullable" THEN isSubtypeOf(t.of, other.of)
                             ELSE isCompatibleWith(t.of, other)

ArrayIsSubtype(t, other) ==
  /\ other.kind = "slice" \/ (other.kind = "array" /\ t.size = other.size)
  /\ isSubtypeOf(t.of, other.of)

ClassIsSubtype(t, other) ==
  \/ ClassIsCompatible(t, other)
  \/ other.kind = "class" /\ \E base \in Bases[t.name] : isSubtypeOf(Class(base), other)

isSubtypeOfImpl(t, other) ==
  \/ t.kind \in {"primitive", "interface", "literalview"} /\ isCompatibleWithImpl(t, other)
  \/ t.kind = "primitive" /\ other.kind = "primitive" /\ NarrowerPrimitive(t, other)
  \/ /\ t.kind \in {"pointer", "slice", "reference"} /\ other.kind = t.kind
     /\ isSubtypeOf(t.of, other.of)
  \/ t.kind = "nullable" /\ NullableIsSubtype(t, other)
  \/ t.kind = "array" /\ ArrayIsSubtype(t, other)
  \/ t.kind = "class" /\ ClassIsSubtype(t, other)

isSubtypeOf(t, other) ==
  \/ t.kind = "readonly" /\ isSubtypeOf(t.of, other)
  \/ other.kind = "readonly" /\ isSubtypeOf(t, other.of)
  \/ t.kind # "readonly" /\ other.kind # "readonly" /\ isSubtypeOfImpl(t, other)

--------------------------------------------------------------------------------
(* isTypeCompatible of the analyzer. *)

\* The primitive types that each primitive type turns into, other than itself.
Widened(name) ==
  LET fractions == {"float", "double"}
      words == {"int", "uint", "long", "ulong"}
      halves == {"short", "ushort"}
      bytes == {"byte", "sbyte"} IN
  CASE name \in bytes -> halves \cup words \cup fractions
    [] name \in halves -> words \cup fractions
    [] name \in {"int", "uint"} -> bytes \cup halves \cup {"long", "ulong"} \cup fractions
    [] name \in {"long", "ulong"} -> fractions
    [] name = "float" -> {"double"}
    [] name = "double" -> {"float"}
    [] name = "char" -> words
    [] OTHER -> {}

tryImplicitConversion(expected, actual) ==
  /\ expected.kind = "primitive" /\ actual.kind = "primitive"
  /\ expected = actual \/ expected.name \in Widened(actual.name)

\* Mutant of KeepsReadonly: the guard is missing.
AlwaysKeepsReadonly(expected, actual) == TRUE

\* Readonly may be added to what a pointer, slice or array views, never removed.
KeepsReadonly(expected, actual) ==
  actual.of.kind = "readonly" => expected.of.kind = "readonly"

RECURSIVE isTypeCompatible(_, _)

\* An array for an array of its size, an array or a slice for a slice.
SequenceConverts(expected, actual) ==
  /\ KeepsReadonly(expected, actual)
  /\ isTypeCompatible(unwrapReadonly(expected.of), unwrapReadonly(actual.of))
  /\ expected.kind = "array" => expected.size = actual.size

PointerConverts(expected, actual) ==
  KeepsReadonly(expected, actual) /\ isSubtypeOf(actual, expected)

LiteralConverts(expected) ==
  /\ expected.of.kind = "readonly"
  /\ unwrapReadonly(expected.of) \in {Primitive("byte"), Primitive("char")}

\* The alternatives of the code in its order; the ones it can no longer reach below
\* (a second test of pointers, pointers from references) are left out.
isTypeCompatible(expected, actual) ==
  LET are(e, a) == expected.kind = e /\ actual.kind \in a IN
  IF actual = Void THEN expected = Void \/ expected.kind \in {"nullable", "pointer"}
  ELSE IF expected.kind = "reference" THEN isTypeCompatible(expected.of, actual)
  ELSE IF actual.kind = "reference" THEN isTypeCompatible(expected, actual.of)
  ELSE IF expected.kind = "nullable" /\ actual.kind # "nullable"
    THEN isTypeCompatible(expected.of, actual)
  ELSE IF expected = actual THEN TRUE
  ELSE IF are("interface", {"pointer"}) /\ actual.of.kind = "class"
    THEN Implements(actual.of.name, expected.name)
  ELSE IF are("pointer", {"pointer"}) THEN PointerConverts(expected, actual)
  ELSE IF are("array", {"array"}) \/ are("slice", {"array", "slice"})
    THEN SequenceConverts(expected, actual)
  ELSE IF are("pointer", {"array"}) THEN isTypeCompatible(expected.of, actual.of)
  ELSE \/ are("pointer", {"literalview"}) /\ LiteralConverts(expected)
       \/ isSubtypeOf(actual, expected)
       \/ tryImplicitConversion(expected, actual)

--------------------------------------------------------------------------------
(* Expressions.  Each has a static type, a value (0 for null and for numbers, the  *)
(* index of a cell for all that points) and a place, 0 when it has none.           *)

Cells == DOMAIN cells

Expression(type, value, place) == [type |-> type, value |-> value, place |-> place]

\* The variable behind a reference.
Referent(v) == IF cells[v].type.kind = "reference" THEN cells[v].value ELSE v

\* analyzeIdentifierExpr: the name of a reference has the type of what it refers to.
Named(v) ==
  LET t == cells[v].type IN
  Expression(IF t.kind = "reference" THEN t.of ELSE t, cells[Referent(v)].value,
             Referent(v))

\* ^v: the pointer to a constant views it as readonly.
AddressOf(v) ==
  LET t == Named(v).type IN
  Expression(Pointer(IF cells[v].const THEN Readonly(t) ELSE t), Referent(v), 0)

\* &v
Ref(v) == Expression(Reference(Named(v).type), Referent(v), Referent(v))

\* v^
Dereferenced(v) ==
  LET target == Named(v).value IN
  Expression(Named(v).type.of, cells[target].value, target)

\* v.ptr and v[i..j] of an array or a slice.
PointerTo(v) == Expression(Pointer(Named(v).type.of), Named(v).value, 0)
Range(v) == Expression(Slice(Named(v).type.of), Named(v).value, 0)

\* The name of an array stands for its storage.
Storage(v) ==
  IF Named(v).type.kind = "array" THEN [Named(v) EXCEPT !.value = @ + Referent(v)]
                                  ELSE Named(v)

Pointers == {v \in Cells : Named(v).type.kind = "pointer" /\ Named(v).value # 0}
Sequential == {v \in Cells : Named(v).type.kind \in {"array", "slice"}}

\* Objects are not copied here, so a class has no expressions but pointers to it.
Objects == {v \in Cells : unwrapReadonly(Named(v).type).kind = "class"}

Expressions ==
  {Expression(Void, 0, 0)}
    \cup {Storage(v) : v \in Cells \ Objects}
    \cup {AddressOf(v) : v \in Cells} \cup {Ref(v) : v \in Cells \ Objects}
    \cup {Dereferenced(v) : v \in {p \in Pointers : Named(p).value \notin Objects}}
    \cup {[PointerTo(v) EXCEPT !.value = Storage(v).value] : v \in Sequential}
    \cup {[Range(v) EXCEPT !.value = Storage(v).value] : v \in Sequential}

--------------------------------------------------------------------------------
(* Statements. *)

\* The type of an expression below the reference that it may be.
Unreferenced(e) == IF e.type.kind = "reference" THEN e.type.of ELSE e.type

\* A writable reference binds places only, a readonly one also values; both compare
\* the types below the reference.
Binds(type, e) ==
  IF type.of.kind = "readonly"
    THEN isTypeCompatible(unwrapReadonly(type.of), Unreferenced(e))
    ELSE e.type.kind = "reference" /\ isTypeCompatible(type.of, e.type.of)

Accepts(type, e) ==
  IF type.kind = "reference" THEN Binds(type, e) /\ e.place # 0
  ELSE isTypeCompatible(type, Unreferenced(e))

\* What a variable of the type holds: a reference the place, others the value.
Converted(type, e) ==
  IF type.kind = "reference" THEN e.place
  ELSE IF e.type.kind = "reference" THEN Storage(e.place).value
  ELSE e.value

Cell(type, const, e) ==
  [type |-> type, const |-> const, value |-> Converted(type, e)]

\* What a variable of the type lets the program reach.
RECURSIVE Viewed(_)
Viewed(t) ==
  IF t.kind \in {"readonly", "nullable"} THEN Viewed(t.of)
  ELSE IF t.kind \in {"pointer", "slice", "reference"} THEN t.of
  ELSE IF t.kind = "literalview" THEN Readonly(Primitive("byte"))
  ELSE t

\* The type of the memory that an expression offers to a variable of the type: a
\* reference takes its place, others what it views, an array its elements.
Offered(type, e) ==
  LET t == Unreferenced(e) IN
  IF type.kind = "reference" THEN t ELSE IF t.kind = "array" THEN t.of ELSE Viewed(t)

Numbers == Integral \cup Floating

\* A number seen as one of another type: behind a pointer one that is as wide or
\* wider, in elements and behind a reference any that values convert to.
OtherNumber(type, e) ==
  LET seen == unwrapReadonly(Viewed(type))
      offered == unwrapReadonly(Offered(type, e))
      names == {seen.name, offered.name}
      pointers == Viewed(type) # type /\ type.kind \notin {"slice", "reference"}
                    /\ Unreferenced(e).kind \in {"pointer", "nullable"} IN
  /\ seen.kind = "primitive" /\ offered.kind = "primitive" /\ seen # offered
  /\ names \subseteq Numbers
  /\ pointers => /\ names \subseteq Integral \/ names \subseteq Floating
                 /\ Size(offered.name) <= Size(seen.name)

\* A pointer seen as one of another type: p^^ and references to pointers.
OtherPointer(type, e) ==
  LET seen == unwrapReadonly(Viewed(type))
      offered == unwrapReadonly(Offered(type, e)) IN
  seen.kind = "pointer" /\ offered.kind = "pointer" /\ seen # offered

\* Readonly given up, in the branches of isTypeCompatible that do not compare it.
Writes(type, e) ==
  /\ Viewed(type) # type /\ Viewed(type).kind # "readonly"
  /\ Offered(type, e).kind = "readonly"

\* A constant whose name, or range, or .ptr is not readonly.
NamesConstant(type, e) ==
  /\ Viewed(type) # type /\ Viewed(type).kind # "readonly"
  /\ \/ type.kind = "reference" /\ cells[e.place].const
     \/ /\ type.kind # "reference"
        /\ Unreferenced(e).kind \in {"array", "slice", "pointer"}
        /\ Unreferenced(e).of.kind # "readonly"
        /\ e.value # 0 /\ cells[e.value].const /\ cells[e.value].type.kind = "array"

\* The flaws of one accepted conversion; the README lists them with the lines.
Flaws(type, e) ==
  {f \in {"number", "pointer", "nullable", "decay", "reference", "constant"} :
     CASE f = "number" -> OtherNumber(type, e)
       [] f = "pointer" -> OtherPointer(type, e)
       [] f = "nullable" -> Unreferenced(e).kind = "nullable" /\ Writes(type, e)
       [] f = "decay" -> /\ Unreferenced(e).kind = "array"
                         /\ type.kind \in {"pointer", "nullable"}
                         /\ Writes(type, e)
       [] f = "reference" -> type.kind = "reference" /\ Writes(type, e)
       [] f = "constant" -> NamesConstant(type, e)}

Declared == Len(cells) - Len(family.objects)

Init ==
  /\ family \in Families
  /\ cells = family.objects
  /\ flaws = {}

\* A declaration with a type, or with var and the type of the initializer, which
\* always accepts itself.
Declare(const) ==
  /\ Declared < MaxVariables
  /\ \E e \in Expressions, type \in family.types :
       /\ Accepts(type, e)
       /\ cells' = Append(cells, Cell(type, const, e))
       /\ flaws' = flaws \cup Flaws(type, e)
  /\ UNCHANGED family

Assignable(v) ==
  /\ ~cells[v].const /\ cells[v].type # LiteralView
  /\ cells[v].type.kind = "reference" => cells[v].type.of.kind # "readonly"

Assign ==
  /\ \E v \in Cells \ Objects, e \in Expressions :
       /\ Assignable(v)
       /\ isTypeCompatible(cells[v].type, e.type)
       /\ cells[v].type.kind # "array"
       /\ cells' = [cells EXCEPT ![Referent(v)].value = Converted(Named(v).type, e)]
       /\ flaws' = flaws \cup Flaws(Named(v).type, e)
  /\ UNCHANGED family

\* p^ = e
AssignThrough ==
  /\ \E p \in Pointers, e \in Expressions :
       LET target == Dereferenced(p) IN
         /\ target.type.kind # "readonly"
         /\ unwrapReadonly(target.type).kind \notin {"class", "array"}
         /\ isTypeCompatible(target.type, e.type)
         /\ cells' = [cells EXCEPT ![target.place].value = Converted(target.type, e)]
         /\ flaws' = flaws \cup Flaws(target.type, e)
  /\ UNCHANGED family

\* One argument for a parameter, as overload resolution sees it.
Viable(params, arguments) ==
  /\ Len(params) = Len(arguments)
  /\ \A i \in DOMAIN params :
       IF params[i].kind = "reference" THEN Binds(params[i], arguments[i])
       ELSE isTypeCompatible(params[i], arguments[i].type)

Exact(params, arguments) ==
  /\ Viable(params, arguments)
  /\ \A i \in DOMAIN params : params[i] = arguments[i].type

\* The overloads that a call may reach: one when the analyzer accepts it, else none.
Selected(arguments) ==
  LET viable == {f \in family.overloads : Viable(f, arguments)}
      exact == {f \in viable : Exact(f, arguments)} IN
  IF Cardinality(exact) = 1 THEN exact
  ELSE IF Cardinality(viable) = 1 THEN viable
  ELSE {}

\* The body of the called function sees its parameters; the call does not return
\* here, so that the body goes on with the variables of the caller at hand.
Call ==
  /\ \E params \in family.overloads :
       /\ Declared + Len(params) <= MaxVariables
       /\ \E first, second \in Expressions :
         LET arguments == <<first, second>> IN
         /\ params \in Selected(arguments)
         /\ \A i \in DOMAIN params :
              params[i].kind = "reference" => arguments[i].place # 0
         /\ cells' = cells \o
              [i \in DOMAIN params |-> Cell(params[i], FALSE, arguments[i])]
         /\ flaws' = flaws
              \cup UNION {Flaws(params[i], arguments[i]) : i \in DOMAIN params}
  /\ UNCHANGED family

Next ==
  \/ \E const \in BOOLEAN : Declare(const)
  \/ Assign
  \/ AssignThrough
  \/ Call

Spec == Init /\ [][Next]_vars

--------------------------------------------------------------------------------
(* Properties. *)

RECURSIVE Derives(_, _)
Derives(c, d) == c = d \/ \E base \in Bases[c] : Derives(base, d)

\* The memory of a variable of type t can be used as a view says.
Serves(t, view) ==
  LET stored == unwrapReadonly(t)
      seen == unwrapReadonly(view) IN
  \/ stored = seen
  \/ stored.kind = "array" /\ unwrapReadonly(stored.of) = seen
  \/ /\ stored.kind = "class" /\ seen.kind = "class"
     /\ Derives(stored.name, seen.name)
  \/ /\ stored.kind = "class" /\ seen.kind = "interface"
     /\ Implements(stored.name, seen.name)

Reaching == {v \in Cells : cells[v].value # 0 /\ cells[v].type.kind # "array"}

\* A chain of accepted declarations, assignments and calls, none of which sees a
\* number or a pointer as one of another type in the ways of Flaws, leaves the memory
\* behind every pointer, slice, reference and interface value as its static type
\* says: the class or a class below it, a class that implements the interface, the
\* same number.  Members and slots are found by the static type alone.
PointeesConform ==
  flaws \cap {"number", "pointer"} = {} =>
    \A v \in Reaching : Serves(cells[cells[v].value].type, Viewed(cells[v].type))

\* A constant, a readonly variable, an array of readonly elements, a literal.
Protected(v) ==
  \/ cells[v].const
  \/ cells[v].type.kind = "readonly"
  \/ cells[v].type.kind = "array" /\ cells[v].type.of.kind = "readonly"

WritesNothingProtected ==
  \A v \in Reaching : Protected(cells[v].value) => Viewed(cells[v].type).kind = "readonly"

\* Readonly is only ever added, but for the flaws that give it up: no chain of the
\* other accepted conversions, those that change the width of numbers included,
\* leads to a view through which a constant, a readonly variable or a literal
\* could be written.
ReadonlyKept ==
  flaws \cap {"pointer", "nullable", "decay", "reference", "constant"} = {} =>
    WritesNothingProtected

\* The same without exceptions, which the code does not give (the README says where).
ReadonlyAlwaysKept == WritesNothingProtected

================================================================================
