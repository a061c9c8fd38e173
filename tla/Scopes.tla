------------------------------- MODULE Scopes -------------------------------
(***************************************************************************)
(* What a variable's name denotes, for the two passes that each find it    *)
(* out for themselves.  The analyzer has a table of scopes, and a block's  *)
(* scope starts with copies of the variables of the scope around it.  The  *)
(* generator has one map per function, which no block restores: foreach,   *)
(* match and catch take their own names out again.  Deferred expressions   *)
(* are analyzed where they stand and generated where they run.             *)
(*                                                                         *)
(* A program is written one construct at a time and both passes follow it; *)
(* neither tells the other what it found.  A body is a block, a            *)
(* declaration is a number, and 0 is none.                                 *)
(***************************************************************************)
EXTENDS Naturals, Sequences, FiniteSets

CONSTANTS Names,           \* the variables' names
          Hiding,          \* blocks hide the variables around them
          MaxDeclarations, \* how many variables a program declares
          MaxDepth,        \* how deep blocks nest, the function's included
          MaxDefers,       \* how many defer statements a function has
          MaxFunctions     \* how many functions a program has

ASSUME HidingAssumption == Hiding \in BOOLEAN
ASSUME NamesAssumption == IsFiniteSet(Names)
ASSUME BoundsAssumption ==
  /\ MaxDeclarations \in Nat /\ MaxDefers \in Nat /\ MaxFunctions \in Nat
  /\ MaxDepth \in Nat \ {0}

VARIABLES
  scopes,      \* symbolTable.scopes: of each name its first symbol
  bases,       \* the base class's fields, of the method that is analyzed
  namedValues, \* the generator's map of a function's variables
  globals,     \* module()->getNamedGlobal
  fields,      \* structInfo_ of the class whose method is generated
  open,        \* the constructs both passes are inside of
  deferred,    \* deferExpressions_, with the variable the analyzer found
  emitted,     \* the deferred expressions that have just been generated
  made,        \* how many variables have been declared
  functions,   \* how many functions have been begun
  lexical      \* the same scopes by the language's rules

vars == <<scopes, bases, namedValues, globals, fields, open, deferred, emitted, made, functions, lexical>>

None == [n \in Names |-> 0]

---------------------------------------------------------------------------
(* The two lookups, and the language's. *)

Innermost(table, n) ==
  LET Found == {i \in DOMAIN table : table[i][n] # 0}
  IN IF Found = {} THEN 0
     ELSE table[CHOOSE i \in Found : \A j \in Found : j <= i][n]

lookupSymbol(n) == Innermost(scopes, n)

generateIdentifier(n) ==
  IF namedValues[n] # 0 THEN namedValues[n]
  ELSE IF globals[n] # 0 THEN globals[n]
  ELSE fields[n]

Meant(n) == Innermost(lexical, n)

---------------------------------------------------------------------------
(* The symbol table. *)

(* The first symbol of a name stays the first. *)
addSymbol(scope, n, d) == IF scope[n] = 0 THEN [scope EXCEPT ![n] = d] ELSE scope

(* Symbols added behind those of a scope. *)
Behind(scope, more) == [n \in Names |-> IF scope[n] = 0 THEN more[n] ELSE scope[n]]

(* A block's own variables come behind the variables of the scope around it *)
(* and the fields of the base class.                                        *)
BlockScope(parent, inherited) == Behind(parent, inherited)

Top(table) == table[Len(table)]
WithTop(table, scope) == [table EXCEPT ![Len(table)] = scope]

---------------------------------------------------------------------------
(* Programs. *)

Current == open[Len(open)]
InFunction == open # <<>>

(* What a declaration of n would hide: nothing, or a global variable or a   *)
(* field of the method's own class.  A field of a base class hides nothing  *)
(* and is not hidden, and no field has the name of a global variable.       *)
Fresh(n) == Meant(n) = 0
Outside(n) == Meant(n) \in {globals[n], fields[n]} /\ bases[n] = 0

(* A variable of the function's outermost block may hide what is outside of *)
(* the function; one of a block inside of it hides nothing, or if Hiding    *)
(* anything around the block.                                               *)
MayDeclare(n) ==
  \/ Fresh(n)
  \/ Len(open) = 1 /\ Outside(n)
  \/ /\ Hiding /\ Len(open) > 1
     /\ Top(lexical)[n] = 0 /\ n \notin Current.binds

(* The generator takes these names back: a catch gives its name back to a   *)
(* variable of the function, foreach and match to what is outside.          *)
MayBind(kind, n) ==
  \/ Hiding
  \/ Fresh(n)
  \/ kind = "catch" /\ bases[n] = 0
  \/ kind \in {"foreach", "arm"} /\ Outside(n)

(* Names with the numbers of their declarations, in any order, from k + 1 on. *)
Bindings(names, k) == {b \in [Names -> {0} \cup (k + 1) .. (k + Cardinality(names))] :
                         /\ \A n \in Names : b[n] # 0 <=> n \in names
                         /\ \A n, m \in names : b[n] = b[m] => n = m}

Init ==
  /\ scopes = <<None>> /\ lexical = <<None>>
  /\ bases = None /\ namedValues = None /\ globals = None /\ fields = None
  /\ open = <<>> /\ deferred = <<>> /\ emitted = {}
  /\ made = 0 /\ functions = 0

(* All global variables come before the functions' bodies, in both passes. *)
DeclareGlobal(n) ==
  /\ functions = 0 /\ made < MaxDeclarations /\ globals[n] = 0
  /\ made' = made + 1
  /\ scopes' = <<addSymbol(scopes[1], n, made + 1)>>
  /\ globals' = [globals EXCEPT ![n] = made + 1]
  /\ lexical' = <<[lexical[1] EXCEPT ![n] = made + 1]>>
  /\ UNCHANGED <<bases, namedValues, fields, open, deferred, emitted, functions>>

Frame(kind, names) == [kind |-> kind, binds |-> names, previous |-> namedValues,
                       defers |-> Len(deferred), around |-> Len(lexical)]

(* A function's parameters have a scope, its body another one. *)
OpenFunction(names) ==
  /\ ~InFunction /\ functions < MaxFunctions /\ functions' = functions + 1
  /\ made + Cardinality(names) <= MaxDeclarations
  /\ made' = made + Cardinality(names)
  /\ \E params \in Bindings(names, made) :
       /\ scopes' = scopes \o <<params, BlockScope(params, None)>>
       /\ lexical' = lexical \o <<params, None>>
       /\ namedValues' = params
  /\ open' = <<Frame("function", names)>>
  /\ deferred' = <<>> /\ emitted' = {}
  /\ fields' = None /\ bases' = None
  /\ UNCHANGED globals

(* A method is a function in the scope of its class, which has the class's *)
(* fields and those of its base.                                           *)
OpenMethod(own, inherited, names) ==
  /\ ~InFunction /\ functions < MaxFunctions /\ functions' = functions + 1
  /\ own \cup inherited # {} /\ own \cap inherited = {} /\ inherited \cap names = {}
  /\ \A n \in own \cup inherited : Fresh(n)
  /\ made' = made + Cardinality(own \cup inherited) + Cardinality(names)
  /\ made' <= MaxDeclarations
  /\ \E members \in Bindings(own \cup inherited, made) :
     \E params \in Bindings(names, made + Cardinality(own \cup inherited)) :
       LET base == [n \in Names |-> IF n \in inherited THEN members[n] ELSE 0]
       IN /\ scopes' = scopes \o <<members, params, BlockScope(params, base)>>
          /\ lexical' = lexical \o <<members, params, None>>
          /\ namedValues' = params
          /\ fields' = members /\ bases' = base
  /\ open' = <<Frame("method", names)>>
  /\ deferred' = <<>> /\ emitted' = {}
  /\ UNCHANGED globals

Declare(n) ==
  /\ InFunction /\ made < MaxDeclarations
  /\ MayDeclare(n)
  /\ made' = made + 1
  /\ scopes' = WithTop(scopes, addSymbol(Top(scopes), n, made + 1))
  /\ namedValues' = [namedValues EXCEPT ![n] = made + 1]
  /\ lexical' = WithTop(lexical, [Top(lexical) EXCEPT ![n] = made + 1])
  /\ emitted' = {}
  /\ UNCHANGED <<bases, globals, fields, open, deferred, functions>>

OpenBlock ==
  /\ InFunction /\ Len(open) < MaxDepth
  /\ scopes' = Append(scopes, BlockScope(Top(scopes), bases))
  /\ lexical' = Append(lexical, None)
  /\ open' = Append(open, Frame("block", {}))
  /\ emitted' = {}
  /\ UNCHANGED <<bases, namedValues, globals, fields, deferred, made, functions>>

(* A statement with a scope of its own around the body's: a while or do,  *)
(* which binds nothing, a for and its variable, a foreach and its         *)
(* variable with or without an index, an arm and its name, a catch.       *)
Headers == [while |-> {0}, for |-> {1}, foreach |-> {1, 2}, arm |-> {0, 1}, catch |-> {0, 1}]

OpenHeader(kind, names) ==
  /\ InFunction /\ Len(open) < MaxDepth
  /\ Cardinality(names) \in Headers[kind]
  /\ made + Cardinality(names) <= MaxDeclarations
  /\ \A n \in names : MayBind(kind, n)
  /\ made' = made + Cardinality(names)
  /\ \E binding \in Bindings(names, made) :
       /\ scopes' = scopes \o <<binding, BlockScope(binding, bases)>>
       /\ lexical' = lexical \o <<binding, None>>
       /\ namedValues' = Behind(binding, namedValues)
  /\ open' = Append(open, Frame(kind, names))
  /\ emitted' = {}
  /\ UNCHANGED <<bases, globals, fields, deferred, functions>>

---------------------------------------------------------------------------
(* Ends of constructs, and the deferred expressions that run there. *)

Defer(n) ==
  /\ InFunction /\ Len(deferred) < MaxDefers
  /\ lookupSymbol(n) # 0
  /\ deferred' = Append(deferred,
                         [name |-> n, meant |-> lookupSymbol(n), ended |-> FALSE])
  /\ emitted' = {}
  /\ UNCHANGED <<scopes, bases, namedValues, globals, fields, open, made, functions, lexical>>

(* Mutant of Left: a loop's or an arm's name stays. *)
KeepsNames(frame) ==
  [n \in Names |-> IF n \in frame.binds /\ frame.kind = "catch" THEN frame.previous[n]
                   ELSE namedValues[n]]

(* What the generator's map is when a construct is left: foreach and match  *)
(* erase their names, a catch puts back what its name was.                  *)
Left(frame) ==
  [n \in Names |->
    IF n \notin frame.binds THEN namedValues[n]
    ELSE IF frame.kind \in {"foreach", "arm"} THEN 0
    ELSE IF frame.kind = "catch" THEN frame.previous[n]
    ELSE namedValues[n]]

(* Mutant of emitCombinedCleanup: the construct's names are gone already. *)
EmitsTooLate(marker) ==
  {LET n == deferred[i].name
   IN [meant |-> deferred[i].meant, ended |-> deferred[i].ended,
       given |-> IF Left(Current)[n] # 0 THEN Left(Current)[n]
                 ELSE IF globals[n] # 0 THEN globals[n] ELSE fields[n]]
     : i \in (marker + 1) .. Len(deferred)}

(* The expressions from a marker on, each with the analyzer's variable and  *)
(* the generator's; `ended` if its block has come to its end before.        *)
emitCombinedCleanup(marker) ==
  {[meant |-> deferred[i].meant, given |-> generateIdentifier(deferred[i].name),
    ended |-> deferred[i].ended] : i \in (marker + 1) .. Len(deferred)}

(* The calls of enterScope for a construct: for a header and a body; for a  *)
(* method's class too.                                                      *)
Entered(kind) == CASE kind = "block" -> 1 [] kind = "method" -> 3 [] OTHER -> 2

(* Mutant of exitScopes: the scope of a statement's header stays. *)
KeepsHeaders(table) ==
  SubSeq(table, 1, Len(table) - (IF Len(open) = 1 THEN Entered(Current.kind) ELSE 1))

(* Mutant of exitScopes: the scope of a method's class stays. *)
KeepsClasses(table) == SubSeq(table, 1, Len(table) - (IF Current.kind = "block" THEN 1 ELSE 2))

(* As many calls of exitScope. *)
exitScopes(table) == SubSeq(table, 1, Len(table) - Entered(Current.kind))

Close ==
  /\ Len(open) > 1
  /\ emitted' = emitCombinedCleanup(Current.defers)
  /\ scopes' = exitScopes(scopes)
  /\ lexical' = SubSeq(lexical, 1, Current.around)
  /\ namedValues' = Left(Current)
  /\ open' = SubSeq(open, 1, Len(open) - 1)
  /\ deferred' = [i \in DOMAIN deferred |->
                    [deferred[i] EXCEPT !.ended = @ \/ i > Current.defers]]
  /\ UNCHANGED <<bases, globals, fields, made, functions>>

(* A return or a throw generates every deferred expression so far; those  *)
(* of blocks that have ended are skipped when it is executed, but have to *)
(* be generated.                                                          *)
Leave ==
  /\ InFunction
  /\ emitted' = emitCombinedCleanup(0)
  /\ UNCHANGED <<scopes, bases, namedValues, globals, fields, open, deferred, made, functions, lexical>>

(* The end of the body, and the function's frame for exceptions, whose    *)
(* code comes after it and runs what was registered when one is thrown.   *)
EndFunction ==
  /\ Len(open) = 1
  /\ emitted' = emitCombinedCleanup(0)
  /\ scopes' = exitScopes(scopes)
  /\ lexical' = SubSeq(lexical, 1, Current.around)
  /\ open' = <<>> /\ deferred' = <<>>
  /\ fields' = None /\ bases' = None
  /\ UNCHANGED <<namedValues, globals, made, functions>>

Next ==
  \/ \E n \in Names : DeclareGlobal(n)
  \/ \E names \in SUBSET Names : OpenFunction(names)
  \/ \E own, inherited, names \in SUBSET Names : OpenMethod(own, inherited, names)
  \/ \E n \in Names : Declare(n)
  \/ OpenBlock
  \/ \E kind \in DOMAIN Headers, names \in SUBSET Names : OpenHeader(kind, names)
  \/ \E n \in Names : Defer(n)
  \/ Close
  \/ Leave
  \/ EndFunction

Spec == Init /\ [][Next]_vars

---------------------------------------------------------------------------
(* Properties. *)

Declarations == 0 .. MaxDeclarations

TypeOK ==
  /\ scopes \in Seq([Names -> Declarations]) /\ lexical \in Seq([Names -> Declarations])
  /\ Len(scopes) = 1 <=> open = <<>>
  /\ {bases, namedValues, globals, fields} \subseteq [Names -> Declarations]
  /\ made \in Declarations /\ functions \in 0 .. MaxFunctions
  /\ \A use \in emitted : {use.meant, use.given} \subseteq Declarations
  /\ Len(open) <= MaxDepth /\ Len(deferred) <= MaxDefers

(* The analyzer finds the declaration of a name in the innermost scope      *)
(* that has one, although a block's scope starts with copies of the         *)
(* variables around it and these come first (SymbolTable.cpp:31,            *)
(* SemanticAnalyzer.cpp:2898).                                              *)
InnermostIsFound == \A n \in Names : lookupSymbol(n) = Meant(n)

(* Wherever the analyzer lets a name be used, the generator's flat map      *)
(* gives the same variable: no name of a block that has ended, of a loop,   *)
(* an arm or a catch, or of an earlier function has stayed or has taken     *)
(* another one away (LLVMCodeGenerator.cpp:4282, 6979).                     *)
NamesAgree ==
  InFunction => \A n \in Names : lookupSymbol(n) # 0 => generateIdentifier(n) = lookupSymbol(n)

(* What a block deferred runs at its end with the variables it was analyzed *)
(* with: those of its loop, arm or catch have not been taken out yet        *)
(* (LLVMCodeGenerator.cpp:7014).                                            *)
BlocksRunTheirDefers ==
  [][Len(open') < Len(open) /\ open' # <<>>
       => \A use \in emitted' : ~use.ended => use.given = use.meant]_vars

(* So does every other code for a deferred expression: what is generated at *)
(* a return or throw, again at the end of a block around its own, and in    *)
(* the function's frame for exceptions (LLVMCodeGenerator.cpp:1501, 7059).  *)
DefersAgree == \A use \in emitted : use.given = use.meant
=============================================================================
