----------------------------- MODULE MCConversions -----------------------------
(* Conversions for four families of types, and for one more that shows a flaw.      *)
EXTENDS Conversions

MCClasses == {"Base", "Left", "Right"}
MCBases == [c \in MCClasses |-> IF c = "Base" THEN {} ELSE {"Base"}]
MCImplemented == [c \in MCClasses |-> IF c = "Left" THEN {"Narrow"} ELSE {}]
MCExtended == [i \in {"Narrow", "Wide"} |-> IF i = "Narrow" THEN {"Wide"} ELSE {}]

Var(t) == [type |-> t, const |-> FALSE, value |-> 0]
Const(t) == [type |-> t, const |-> TRUE, value |-> 0]

Byte == Primitive("byte")
Word == Primitive("int")
Float == Primitive("float")

\* Objects of a base and of two classes below it, one of them readonly.
ClassFamily ==
  LET base == Class("Base")
      left == Class("Left")
      right == Class("Right") IN
  [objects |-> <<Var(base), Var(left), Const(left), Var(Readonly(right))>>,
   types |-> {Pointer(base), Pointer(left), Pointer(right), Pointer(Readonly(base)),
              Pointer(Readonly(left)), Interface("Narrow"), Interface("Wide"),
              Nullable(Pointer(base))},
   overloads |-> {<<Pointer(base), Interface("Wide")>>,
                  <<Pointer(left), Interface("Wide")>>,
                  <<Pointer(Readonly(base)), Pointer(Readonly(left))>>}]

\* Numbers of several widths, pointers and references to them.
NumberFamily ==
  [objects |-> <<Const(Byte), Var(Readonly(Word)), Var(Word)>>,
   types |-> {Pointer(Byte), Pointer(Readonly(Byte)), Pointer(Word),
              Nullable(Pointer(Readonly(Byte))), Reference(Readonly(Byte)), Reference(Word)},
   overloads |-> {<<Pointer(Byte), Pointer(Word)>>,
                  <<Pointer(Readonly(Byte)), Pointer(Readonly(Byte))>>,
                  <<Reference(Readonly(Byte)), Pointer(Word)>>}]

\* Arrays, slices and literals: the last object is the text of a string literal.
ArrayFamily ==
  [objects |-> <<Var(Array(Byte, 2)), Const(Array(Byte, 2)), Var(Array(Readonly(Byte), 3)),
                 Var(Array(Float, 2)), [type |-> LiteralView, const |-> FALSE, value |-> 3]>>,
   types |-> {Slice(Byte), Slice(Readonly(Byte)), Slice(Float), Pointer(Byte)},
   overloads |-> {<<Slice(Byte), Slice(Byte)>>,
                  <<Slice(Readonly(Byte)), Pointer(Readonly(Byte))>>}]

\* Pointers to pointers.
NestedFamily ==
  [objects |-> <<Var(Byte), Const(Byte), Var(Float)>>,
   types |-> {Pointer(Byte), Pointer(Readonly(Byte)), Pointer(Pointer(Byte)),
              Pointer(Pointer(Readonly(Byte))), Reference(Pointer(Byte)), Pointer(Float)},
   overloads |-> {<<Pointer(Pointer(Byte)), Pointer(Byte)>>}]

MCFamilies == {ClassFamily, NumberFamily, ArrayFamily, NestedFamily}

\* Nullable pointers to readonly numbers beside writable pointers.
NullablePointers ==
  {[objects |-> <<Var(Byte), Const(Byte), Var(Readonly(Byte))>>,
    types |-> {Pointer(Byte), Pointer(Readonly(Byte)), Nullable(Pointer(Readonly(Byte)))},
    overloads |-> {}]}
================================================================================
