------------------------------ MODULE Parsing ------------------------------
(***************************************************************************)
(* A text goes through the lexer and the parser of the compiler.           *)
(*                                                                         *)
(* The writer makes the text, in one of three ways: as a syntax tree that  *)
(* grows and is written down as the language's documents say, with the     *)
(* parentheses that their table of operators asks for (docs/spec); as any  *)
(* sequence of tokens, in some place of a program; or as any sequence of   *)
(* characters.  The rules of Grammar and of Lexing read what is written.   *)
(***************************************************************************)
EXTENDS Grammar, FiniteSets

CONSTANTS
  Sizes,         \* how many constructs a tree of each sort may have
  Conditionals,  \* whether "a ? b : c" is written
  Places,        \* [rule, before]: where any tokens may stand
  Alphabet, MostTokens,
  Characters     \* [of, most]: sets of characters, and how many of them

ASSUME ParsingAssumption ==
  /\ Conditionals \in BOOLEAN
  /\ MostTokens \in Nat

VARIABLES
  sort,    \* what is written: a sort of trees, "tokens" or "characters"
  tree,    \* the tree written so far
  size,    \* the constructs in it
  text     \* the tokens or characters written so far

vars == <<sort, tree, size, text>>

Lexer == INSTANCE Lexing

---------------------------------------------------------------------------
(* The smallest tree of each sort; it grows where it still has one.        *)

Name == Leaf("n")
Value == Leaf("x")
Type0 == Leaf("T")
Statement0 == Leaf("break")
Declaration0 == Node("VariableDecl", <<Leaf("int"), Leaf("_")>>)

Smallest == [Expression |-> Value, Type |-> Type0, Statement |-> Statement0,
             Declaration |-> Declaration0]

Operation(op) == Node("BinaryExpr", <<Value, Leaf(op), Value>>)
Parameter0 == Node("Parameter", <<Type0, Name>>)
Parameters0 == Node("Parameters", <<Parameter0>>)
Block(kids) == Node("CompoundStmt", kids)
Assigned == Node("BinaryExpr", <<Name, Leaf("="), Value>>)

Expressions ==
  {Operation(op) : op \in {"=", "||", "&&", "==", "<", "<<", "+", "-", "*"}} \cup
  {Node("UnaryExpr", <<Leaf("-"), Value>>), Node("UnaryExpr", <<Value, Leaf("^")>>),
   Node("CallExpr", <<Value, Node("Arguments", <<Value>>)>>),
   Node("SubscriptExpr", <<Value, Value>>), Node("MemberExpr", <<Value, Name>>),
   Node("TupleExpr", <<Value, Value>>), Node("LambdaExpr", <<Name, Value>>),
   Node("StructInitExpr", <<Name, Node("Fields", <<Value>>)>>),
   Node("ArrayInitExpr", <<Leaf("1"), Value>>), Node("SizeofExpr", <<Type0>>),
   Node("NewExpr", <<Type0, Node("Arguments", <<Value>>)>>),
   Node("TypeIsExpr", <<Name, Leaf("class")>>)} \cup
  (IF Conditionals THEN {Node("ConditionalExpr", <<Value, Value, Value>>)} ELSE {})

Types ==
  {Node("PointerType", <<Type0>>), Node("ReferenceType", <<Type0>>),
   Node("NullableType", <<Type0>>), Node("ReadonlyType", <<Type0>>),
   Node("SliceType", <<Type0>>), Node("ArrayType", <<Type0, Value>>),
   Node("GenericType", <<Name, Type0>>), Node("GenericType", <<Name, Type0, Type0>>),
   Node("FunctionType", <<Type0, Type0>>),
   Node("TupleType", <<Leaf("int"), Node("GenericType", <<Name, Type0>>)>>)}

Statements ==
  {Node("ExprStmt", <<Assigned>>),
   Node("ExprStmt", <<Node("CallExpr", <<Name, Node("Arguments", <<Value>>)>>)>>),
   Node("VariableDecl", <<Type0, Name, Value>>),
   Node("VariableDecl", <<Leaf("var"), Name, Value>>),
   Node("VariableDecl", <<Leaf("late"), Type0, Name>>),
   Block(<<Statement0, Statement0>>),
   Node("IfStmt", <<Value, Statement0>>), Node("IfStmt", <<Value, Statement0, Statement0>>),
   Node("WhileStmt", <<Value, Statement0>>), Node("DoWhileStmt", <<Statement0, Value>>),
   Node("ReturnStmt", <<Value>>), Node("ReturnStmt", <<>>), Node("ThrowStmt", <<>>),
   Node("ForStmt", <<Node("VariableDecl", <<Type0, Name, Value>>), Value, Value, Statement0>>),
   Node("Foreach", <<Leaf("var"), Name, Value, Statement0>>),
   Node("LabelStmt", <<Name>>), Node("GotoStmt", <<Name>>),
   Node("MatchStmt", <<Value, Node("MatchArm", <<Node("Pattern", <<Name, Name>>),
                                                 Block(<<Statement0>>)>>),
                       Node("MatchArm", <<Leaf("_"), Node("ExprStmt", <<Assigned>>)>>)>>),
   Node("TryStmt", <<Block(<<Statement0>>), Node("CatchStmt", <<Parameter0, Block(<<>>)>>)>>),
   Node("DeferStmt", <<Block(<<Statement0>>)>>)}

Function(head) == Node("FunctionDecl", head \o <<Block(<<Statement0>>)>>)

Declarations ==
  {Function(<<Name, Parameters0, Type0>>),
   Function(<<Name, Node("TemplateParameters", <<Leaf("integer")>>), Parameters0, Type0>>),
   Function(<<Leaf("+"), Parameters0, Type0>>),
   Function(<<Type0, Leaf("get"), Parameters0>>),
   Function(<<Name, Parameters0>>), Function(<<Leaf("~"), Name, Node("Parameters", <<>>)>>),
   Node("ClassDecl", <<Name, Declaration0, Declaration0>>),
   Node("StructDecl", <<Name, Node("TemplateParameters", <<Leaf("integer")>>), Declaration0>>),
   Node("InterfaceDecl", <<Name, Node("FunctionDecl", <<Type0, Name, Parameters0>>)>>),
   Node("NamespaceDecl", <<Name, Declaration0>>), Node("ExtensionDecl", <<Type0, Declaration0>>),
   Node("ExternDecl", <<Leaf("'s'"), Declaration0>>),
   Node("EnumDecl", <<Name, Node("EnumMember", <<Name>>), Node("EnumMember", <<Name, Value>>)>>),
   Node("GetterDecl", <<Name, Type0, Block(<<Statement0>>)>>),
   Node("SetterDecl", <<Name, Node("Parameter", <<Name, Type0>>), Block(<<Statement0>>)>>),
   Node("TypeAliasDecl", <<Name, Type0>>), Node("ConstDecl", <<Type0, Name, Value>>),
   Node("VariableDecl", <<Type0, Name, Value>>),
   Node("VariableDecl", <<Leaf("let"), Name, Value>>),
   Node("ImportDecl", <<Name, Name>>), Node("ModuleDecl", <<Name, Name>>)}

RECURSIVE Grown(_)
Grown(node) ==
  CASE node = Value -> Expressions
    [] node = Type0 -> Types
    [] node = Statement0 -> Statements
    [] node = Declaration0 -> Declarations
    [] OTHER -> UNION {{[node EXCEPT !.kids[i] = kid] : kid \in Grown(node.kids[i])} :
                         i \in DOMAIN node.kids}

---------------------------------------------------------------------------
(* How a tree is written. *)

OperatorLevel ==
  [op \in {"*", "+", "-", "<<", "<", "==", "&&", "||", "="} |->
     CASE op = "*" -> 4 [] op \in {"+", "-"} -> 5 [] op = "<<" -> 6 [] op = "<" -> 9
       [] op = "==" -> 11 [] op = "&&" -> 12 [] op = "||" -> 13 [] op = "=" -> 16]

(* The lines of the table of operators, the tightest first; "is" is        *)
(* written between the comparisons and the equalities.                     *)
Level(e) ==
  CASE e.label = "BinaryExpr" -> OperatorLevel[e.kids[2].label]
    [] e.label = "UnaryExpr" -> IF e.kids[1] = Leaf("-") THEN 3 ELSE 1
    [] e.label \in {"NewExpr", "SizeofExpr"} -> 3
    [] e.label \in {"CallExpr", "SubscriptExpr", "MemberExpr"} -> 1
    [] e.label = "TypeIsExpr" -> 10
    [] e.label = "ConditionalExpr" -> 15
    [] e.label = "LambdaExpr" -> 17
    [] OTHER -> 0

(* The loosest operands that an operation takes without parentheses: left  *)
(* to right, or right to left for the assignments and conditionals.        *)
Bounds(e) ==
  LET l == Level(e)
  IN CASE e.label = "ConditionalExpr" -> <<l - 1, 17, l>>
       [] e.label = "LambdaExpr" -> <<0, l>>
       [] l = 16 -> <<l - 1, 0, l>>
       [] e.label = "UnaryExpr" -> <<l, l>>
       [] OTHER -> <<l, 0, l - 1>>

RECURSIVE Written(_)
Operand(e, i) ==
  LET w == Written(e.kids[i])
  IN IF Level(e.kids[i]) > Bounds(e)[i] THEN <<"(">> \o w \o <<")">> ELSE w

RECURSIVE Listed(_, _)
Listed(nodes, mark) ==
  CASE nodes = <<>> -> <<>>
    [] Len(nodes) = 1 -> Written(nodes[1])
    [] OTHER -> Written(nodes[1]) \o mark \o Listed(Tail(nodes), mark)

Rest(node, i) == SubSeq(node.kids, i, Len(node.kids))
Braced(nodes) == <<"{">> \o Listed(nodes, <<>>) \o <<"}">>
Parenthesized(node) == <<"(">> \o Written(node) \o <<")">>

WrittenExpression(e) ==
  LET k == e.kids
  IN CASE e.label = "BinaryExpr" -> Operand(e, 1) \o Written(k[2]) \o Operand(e, 3)
       [] e.label = "UnaryExpr" -> Operand(e, 1) \o Operand(e, 2)
       [] e.label = "ConditionalExpr" ->
            Operand(e, 1) \o <<"?">> \o Operand(e, 2) \o <<":">> \o Operand(e, 3)
       [] e.label = "LambdaExpr" -> Written(k[1]) \o <<"=>">> \o Operand(e, 2)
       [] e.label = "CallExpr" -> Operand(e, 1) \o Written(k[2])
       [] e.label = "Arguments" -> <<"(">> \o Listed(k, <<",">>) \o <<")">>
       [] e.label = "SubscriptExpr" -> Operand(e, 1) \o <<"[">> \o Written(k[2]) \o <<"]">>
       [] e.label = "MemberExpr" -> Operand(e, 1) \o <<".">> \o Written(k[2])
       [] e.label = "TupleExpr" -> <<"(">> \o Listed(k, <<",">>) \o <<")">>
       [] e.label = "StructInitExpr" -> Written(k[1]) \o Written(k[2])
       [] e.label = "Fields" -> <<"{">> \o Listed(k, <<",">>) \o <<"}">>
       [] e.label = "ArrayInitExpr" -> <<"[">> \o Listed(k, <<",">>) \o <<"]">>
       [] e.label = "SizeofExpr" -> <<"sizeof">> \o Parenthesized(k[1])
       [] e.label = "NewExpr" -> <<"new">> \o Written(k[1]) \o Written(k[2])
       [] e.label = "TypeIsExpr" -> Written(k[1]) \o <<"is">> \o Written(k[2])

WrittenType(t) ==
  LET k == t.kids
  IN CASE t.label = "PointerType" -> Written(k[1]) \o <<"^">>
       [] t.label = "ReferenceType" -> Written(k[1]) \o <<"&">>
       [] t.label = "NullableType" -> Written(k[1]) \o <<"?">>
       [] t.label = "ReadonlyType" -> Written(k[1]) \o <<"!">>
       [] t.label = "SliceType" -> Written(k[1]) \o <<"[", "]">>
       [] t.label = "ArrayType" -> Written(k[1]) \o <<"[">> \o Written(k[2]) \o <<"]">>
       [] t.label = "GenericType" ->
            Written(k[1]) \o <<"<">> \o Listed(Tail(k), <<",">>) \o <<">">>
       [] t.label = "FunctionType" -> <<"func">> \o Parenthesized(k[1]) \o <<"->">> \o Written(k[2])
       [] t.label = "TupleType" -> <<"(">> \o Listed(k, <<",">>) \o <<")">>

(* A variable: what is before its name, the name, and its first value. *)
Variable(node) ==
  LET k == node.kids
  IN IF Len(k) = 3 /\ k[1] # Leaf("late")
     THEN Written(k[1]) \o Written(k[2]) \o <<"=">> \o Written(k[3])
     ELSE Listed(k, <<>>)

WrittenStatement(s) ==
  LET k == s.kids
      otherwise == IF Len(k) = 3 THEN <<"else">> \o Written(k[3]) ELSE <<>>
  IN CASE s.label = "ExprStmt" -> Written(k[1]) \o <<";">>
       [] s.label = "VariableDecl" -> Variable(s) \o <<";">>
       [] s.label = "CompoundStmt" -> Braced(k)
       [] s.label = "IfStmt" -> <<"if">> \o Parenthesized(k[1]) \o Written(k[2]) \o otherwise
       [] s.label = "WhileStmt" -> <<"while">> \o Parenthesized(k[1]) \o Written(k[2])
       [] s.label = "DoWhileStmt" ->
            <<"do">> \o Written(k[1]) \o <<"while">> \o Parenthesized(k[2]) \o <<";">>
       [] s.label = "ReturnStmt" -> <<"return">> \o Listed(k, <<>>) \o <<";">>
       [] s.label = "ThrowStmt" -> <<"throw">> \o Listed(k, <<>>) \o <<";">>
       [] s.label = "ForStmt" -> <<"for", "(">> \o Variable(k[1]) \o <<";">> \o Written(k[2])
            \o <<";">> \o Written(k[3]) \o <<")">> \o Written(k[4])
       [] s.label = "Foreach" -> <<"for", "(">> \o Written(k[1]) \o Written(k[2]) \o <<":">>
            \o Written(k[3]) \o <<")">> \o Written(k[4])
       [] s.label = "LabelStmt" -> Written(k[1]) \o <<":">>
       [] s.label = "GotoStmt" -> <<"goto">> \o Written(k[1]) \o <<";">>
       [] s.label = "MatchStmt" -> <<"match">> \o Parenthesized(k[1]) \o Braced(Tail(k))
       [] s.label = "MatchArm" -> Written(k[1]) \o <<"=>">> \o Written(k[2])
       [] s.label = "Pattern" -> Listed(k, <<".">>)
       [] s.label = "TryStmt" -> <<"try">> \o Listed(k, <<>>)
       [] s.label = "CatchStmt" -> <<"catch">> \o Parenthesized(k[1]) \o Written(k[2])
       [] s.label = "DeferStmt" -> <<"defer">> \o Written(k[1])

(* A function with "func" has its type after "->", one with a type in      *)
(* front, a constructor and a destructor have none.                        *)
WrittenFunction(f) ==
  LET k == f.kids
      parameters == CHOOSE i \in DOMAIN k : k[i].label = "Parameters"
      after == Rest(f, parameters + 1)
      arrow == Len(after) = 2
      operator == k[1].label = "+"
      body == IF after = <<>> THEN <<";">> ELSE Written(after[Len(after)])
  IN (IF arrow THEN <<"func">> ELSE <<>>) \o (IF operator THEN <<"operator">> ELSE <<>>)
     \o Listed(SubSeq(k, 1, parameters), <<>>)
     \o (IF arrow THEN <<"->">> \o Written(after[1]) ELSE <<>>) \o body

WrittenDeclaration(d) ==
  LET k == d.kids
      params == IF Len(k) > 1 /\ k[2].label = "TemplateParameters" THEN 2 ELSE 1
      named == Listed(SubSeq(k, 1, params), <<>>)
      members == Braced(Rest(d, params + 1))
  IN CASE d.label = "FunctionDecl" -> WrittenFunction(d)
       [] d.label = "Parameters" -> <<"(">> \o Listed(k, <<",">>) \o <<")">>
       [] d.label = "Parameter" -> Listed(k, IF k[1] = Name THEN <<":">> ELSE <<>>)
       [] d.label = "TemplateParameters" -> <<"<">> \o Listed(k, <<",">>) \o <<">">>
       [] d.label = "ClassDecl" -> <<"class">> \o named \o members
       [] d.label = "StructDecl" -> <<"struct">> \o named \o members
       [] d.label = "InterfaceDecl" -> <<"interface">> \o named \o members
       [] d.label = "NamespaceDecl" -> <<"namespace">> \o named \o members
       [] d.label = "ExtensionDecl" -> <<"extension">> \o named \o members
       [] d.label = "ExternDecl" -> <<"extern">> \o named \o members
       [] d.label = "EnumDecl" ->
            <<"enum">> \o named \o <<"{">> \o Listed(Tail(k), <<",">>) \o <<"}">>
       [] d.label = "EnumMember" -> Listed(k, <<"=">>)
       [] d.label = "GetterDecl" ->
            <<"get">> \o Written(k[1]) \o <<"->">> \o Written(k[2]) \o Written(k[3])
       [] d.label = "SetterDecl" ->
            <<"set">> \o Written(k[1]) \o Parenthesized(k[2]) \o Written(k[3])
       [] d.label = "TypeAliasDecl" -> <<"using">> \o Listed(k, <<"=">>) \o <<";">>
       [] d.label = "ConstDecl" -> <<"const">> \o Variable(d) \o <<";">>
       [] d.label = "ImportDecl" -> <<"import">> \o Listed(k, <<".">>) \o <<";">>
       [] d.label = "ModuleDecl" -> <<"module">> \o Listed(k, <<".">>) \o <<";">>

Labels(nodes) == {node.label : node \in nodes}

Written(node) ==
  CASE node.kids = <<>> /\ node.label = "break" -> <<"break", ";">>
    [] node.kids = <<>> /\ node.label \notin {"CompoundStmt", "ReturnStmt", "ThrowStmt", "Parameters"}
         -> <<node.label>>
    [] node.label \in Labels(Expressions) \cup {"Arguments", "Fields", "ConditionalExpr"}
         -> WrittenExpression(node)
    [] node.label \in Labels(Types) -> WrittenType(node)
    [] node.label \in Labels(Statements) \cup {"MatchArm", "Pattern", "CatchStmt"}
         -> WrittenStatement(node)
    [] OTHER -> WrittenDeclaration(node)

---------------------------------------------------------------------------
(* What the documents allow to write and the parser reads otherwise, or    *)
(* not at all; the README gives the places.                                *)

RECURSIVE Nodes(_)
Nodes(node) == {node} \cup UNION {Nodes(node.kids[i]) : i \in DOMAIN node.kids}

(* A statement that ends in an "if" without "else", which would take an    *)
(* "else" that comes after it.                                             *)
RECURSIVE OpenIf(_)
OpenIf(s) ==
  \/ s.label = "IfStmt" /\ Len(s.kids) = 2
  \/ s.label \in {"IfStmt", "WhileStmt", "ForStmt", "Foreach"} /\ OpenIf(s.kids[Len(s.kids)])

StartsWith(node, tokens) == Head(Written(node)) \in tokens

Suffixed == {"PointerType", "ReferenceType", "NullableType", "ReadonlyType", "SliceType", "ArrayType"}
IsAssignment(e) == e.label = "BinaryExpr" /\ e.kids[2] = Leaf("=")

Misread(node) ==
  LET k == node.kids
  IN CASE node.label = "BinaryExpr" -> k[2].label = "<" /\ Head(Operand(node, 3)) = "("
       [] node.label = "Fields" -> \E i \in DOMAIN k : IsAssignment(k[i])
       [] node.label \in Suffixed -> k[1].label = "FunctionType"
       [] node.label = "IfStmt" -> Len(k) = 3 /\ OpenIf(k[2])
       [] node.label = "ExprStmt" -> StartsWith(node, {"("})
       [] node.label = "VariableDecl" ->
            \E i \in 1..2 : StartsWith(k[i], {"("} \cup (IF sort = "Declaration" THEN {"func"} ELSE {}))
       [] node.label = "FunctionDecl" -> StartsWith(node, {"(", "func"}) /\ k[1].label \notin Identifier
       [] OTHER -> FALSE

Writable(node) == \A n \in Nodes(node) : ~Misread(n)

---------------------------------------------------------------------------

Init ==
  /\ sort \in DOMAIN Sizes \cup {"tokens", "characters"}
  /\ tree = IF sort \in DOMAIN Sizes THEN Smallest[sort] ELSE NoNode
  /\ size = 0
  /\ text = <<>>

(* A construct takes the place of a smallest tree. *)
Grow ==
  /\ sort \in DOMAIN Sizes /\ size < Sizes[sort]
  /\ tree' \in Grown(tree)
  /\ size' = size + 1
  /\ UNCHANGED <<sort, text>>

TypeToken ==
  /\ sort = "tokens" /\ Len(text) < MostTokens
  /\ \E token \in Alphabet : text' = Append(text, token)
  /\ UNCHANGED <<sort, tree, size>>

TypeCharacter ==
  /\ sort = "characters"
  /\ \E i \in DOMAIN Characters : \E c \in Characters[i].of :
       /\ Len(text) < Characters[i].most
       /\ \A k \in DOMAIN text : text[k] \in Characters[i].of
       /\ text' = Append(text, c)
  /\ UNCHANGED <<sort, tree, size>>

Next == Grow \/ TypeToken \/ TypeCharacter

Spec == Init /\ [][Next]_vars

---------------------------------------------------------------------------

ReadBack(s) ==
  (sort = s /\ Writable(tree)) =>
     LET written == Written(tree)
         r == Reading(s, written)
     IN r.out = "ok" /\ r.at = Len(written) + 1 /\ r.tree = tree

(* An expression with the parentheses that the table of operators asks for *)
(* is read as the tree it was written from, and a type too (the chain of   *)
(* functions from parseExpression to parsePrimaryExpr, and parseType).     *)
ExpressionsReadBack == ReadBack("Expression") /\ ReadBack("Type")

(* So is an expression with a conditional in it, as the documents write it *)
(* (README.md:232, "return a > b ? a : b;").                               *)
ConditionalsReadBack ==
  (\E node \in Nodes(tree) : node.label = "ConditionalExpr") => ReadBack("Expression")

(* So is a statement: a declaration is told from an expression, an "else"  *)
(* and a "catch" belong where they were written (parseStatement).          *)
StatementsReadBack == ReadBack("Statement")

(* So is a declaration, which the parser finds by trying one kind after    *)
(* the other and going back (parseDeclaration and the members' loops).     *)
DeclarationsReadBack == ReadBack("Declaration")

(* In these bodies a member for which parseDeclaration returns nullptr is  *)
(* neither passed over nor reported.                                       *)
Unguarded(p) == p.before # <<>> /\ p.before[1] \in {"struct", "interface", "extension"}

(* The parser comes to an end: no loop of it goes round without taking a   *)
(* token, whatever tokens stand in these places.  The one exception is     *)
(* __line__ in the body of a struct, an interface or an extension, which   *)
(* is taken for the start of a type and then for none (Parser.cpp:1412,    *)
(* 1681, 1771): no other token, and no other place, has the parser hang.   *)
Halts ==
  sort = "tokens" =>
     \A p \in Places :
        LET stalls == Reading(p.rule, p.before \o text).out = "stall"
        IN /\ stalls => Unguarded(p) /\ \E i \in DOMAIN text : text[i] \in Builtin
           /\ Unguarded(p) /\ text # <<>> /\ text[1] \in Builtin => stalls

(* The lexer takes the longest token each time, with blanks and comments   *)
(* between, and leaves nothing of the text out (nextToken).                *)
TokensAreLongest ==
  sort = "characters" =>
     LET tokens == Lexer!Tokens(text)
         before(i) == IF i = 1 THEN 1 ELSE tokens[i - 1].to
     IN /\ \A i \in DOMAIN tokens : Lexer!IsLongest(text, before(i), tokens[i])
        /\ Lexer!IsBlank(SubSeq(text, before(Len(tokens) + 1), Len(text)), TRUE)
=============================================================================
