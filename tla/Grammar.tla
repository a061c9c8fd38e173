------------------------------ MODULE Grammar ------------------------------
(***************************************************************************)
(* The recursive-descent parser (src/src/parser/Parser.cpp): one rule for  *)
(* each parse function, and the reader that carries a rule out.            *)
(*                                                                         *)
(* A rule is the sequence of the steps its function takes on the tokens:   *)
(* checks, matches, expectations, calls, loops and speculations (a state   *)
(* saved, some tokens tried, the state restored).  A function ends in one  *)
(* of the ways the C++ one can: it returns a node, it returns nullptr      *)
(* (perhaps after it moved), error() throws, or a loop goes round without  *)
(* consuming anything, which never ends ("stalls").                        *)
(*                                                                         *)
(* A token is the string that is written; all names and literals of one    *)
(* kind are treated alike, so one or two of each stand for them.           *)
(***************************************************************************)
EXTENDS Naturals, Sequences

---------------------------------------------------------------------------
(* Tokens. *)

Identifier == {"x", "n", "T", "_", "integer"}
TypeKindName == {"integer"}
Primitive == {"int", "double"}
TypeKeyword == Primitive \cup {"void", "func"}
Builtin == {"__line__"}
TypeStart == TypeKeyword \cup Identifier \cup Builtin \cup {"("}
Access == {"public", "private", "protected", "internal"}
FunctionSpecifier == Access \cup {"static", "virtual", "abstract", "override"}
Integer == {"1"}
StringLiteral == {"'s'"}
Literal == Integer \cup StringLiteral \cup {"1.5", "'c'", "true", "false", "null"}
EndOfFile == "end of file"

---------------------------------------------------------------------------
(* Syntax trees: a node has a label and children; a token that matters is *)
(* a leaf.                                                                 *)

Node(label, kids) == [label |-> label, kids |-> kids]
Leaf(token) == Node(token, <<>>)
NoNode == Leaf("nullptr")

---------------------------------------------------------------------------
(* The steps of a rule. *)

Skip == [do |-> "skip"]                         \* advance()
Push == [do |-> "push"]                         \* keep the token, advance()
Need(T) == [do |-> "need", of |-> T]            \* if (!match(T)) return nullptr
Lack(T) == [do |-> "lack", of |-> T]            \* if (check(T)) return nullptr
Eat(T) == [do |-> "eat", of |-> T]              \* expect(T)
If(T, yes, no) == [do |-> "if", of |-> T, yes |-> yes, no |-> no]
Seen(test, yes, no) == [do |-> "seen", test |-> test, yes |-> yes, no |-> no]
While(T, body) == [do |-> "while", of |-> T, body |-> body]
Until(T, body) == [do |-> "until", of |-> T, body |-> body]
Call(f) == [do |-> "call", rule |-> f, null |-> "skip"]     \* nullptr: go on
Must(f) == [do |-> "call", rule |-> f, null |-> "throw"]    \* nullptr: error
Give(f) == [do |-> "call", rule |-> f, null |-> "null"]     \* nullptr: return it
Hold(f) == [do |-> "call", rule |-> f, null |-> "hold"]     \* nullptr: a child
Member(f) == [do |-> "call", rule |-> f, null |-> "advance"]  \* nullptr: advance()
Try(f) == [do |-> "try", rule |-> f]            \* try { } catch (...) { restore }
Join(label) == [do |-> "join", label |-> label, from |-> 1]
JoinMany(label) == [do |-> "join", label |-> label, from |-> 2]
AtLeast(n) == [do |-> "atleast", n |-> n]
NameOnly == [do |-> "name"]
Attach == [do |-> "attach"]
FirstName == [do |-> "first name"]
OutIsReference == [do |-> "out"]
Label(label) == [do |-> "label", label |-> label]
Return == [do |-> "end", out |-> "done"]
Null == [do |-> "end", out |-> "null"]
Fail == [do |-> "end", out |-> "throw"]                     \* error()
Break == [do |-> "end", out |-> "break"]

(* Forms the functions have in common. *)
Take(T) == If(T, <<Push>>, <<Fail>>)
Opt(T) == If(T, <<Push>>, <<>>)
On(T, yes) == If(T, <<Skip>> \o yes, <<>>)
Many(f) == <<Hold(f), While({","}, <<Skip, Hold(f)>>)>>
ListTo(close, f) == <<If({close}, <<>>, Many(f)), Eat({close})>>
Names == <<Take(Identifier), While({","}, <<Skip, Take(Identifier)>>)>>
Path == <<Take(Identifier), While({"."}, <<Skip, Take(Identifier)>>)>>
\* Mutant of Binary: one operator of a line.
BinaryOnce(operand, ops, f) == operand \o <<If(ops, <<Push, Hold(f), Join("BinaryExpr")>>, <<>>)>>
Binary(operand, ops, f) == operand \o <<While(ops, <<Push, Hold(f), Join("BinaryExpr")>>)>>
MembersTo(step) == <<Until({"}", EndOfFile}, <<step>>), Eat({"}"})>>
TypeParameters == On({"<"}, <<Call("TemplateParameters"), Eat({">"})>>)
---------------------------------------------------------------------------
(* Programs and declarations. *)

ParseProgram ==
  <<Label("Program"), Until({EndOfFile}, <<Member("Declaration")>>)>>

ParseConst ==
  <<Label("ConstDecl"), Skip, Opt(Access), Must("Type"), Take(Identifier),
    On({"="}, <<Hold("Expression")>>), Eat({";"})>>

ParseVariableOrMethod ==
  <<If(Access \cup {"static"} \cup TypeStart, <<Try("FunctionDecl")>>, <<>>),
    If(Access \cup {"static", "late", "var", "let"} \cup TypeStart,
       <<Seen(<<While(Access \cup {"static"}, <<Skip>>), Opt({"late"}),
                Opt({"var", "let"}), Need({"("})>>,
              <<While(Access \cup {"static"}, <<Push>>), Opt({"late"}),
                Opt({"var", "let"}), Call("TupleDestructuringDecl"), Return>>,
              <<Try("VariableDeclTried"), Give("VariableDecl"), Return>>)>>,
       <<Fail>>)>>

(* A declaration tries its alternatives in turn; what one of them reports  *)
(* is dropped, and the next one starts where it had started.               *)
ParseDeclaration ==
  <<While({"["}, <<Call("AttributeApplication")>>),
    On({"module"}, <<Give("ModuleDecl"), Return>>),
    On({"extern"}, <<Give("ExternDecl"), Return>>),
    Seen(<<If(Access, <<Skip>>, <<>>), Need({"import"})>>,
         <<Opt(Access), Skip, Give("ImportDecl"), Return>>, <<>>),
    If({"extension"}, <<Give("ExtensionDecl"), Return>>, <<>>),
    If({"func"}, <<Give("FunctionDecl"), Return>>, <<>>),
    Try("GetterDecl"), Try("SetterDecl"), Try("FunctionDecl"),
    If({"concept"}, <<Give("ConceptDecl"), Return>>, <<>>),
    If({"attribute"}, <<Give("AttributeDecl"), Return>>, <<>>),
    Try("NamespaceDecl"), Try("ClassDecl"), Try("InterfaceDecl"),
    Try("StructDecl"), Try("EnumDecl"), Try("TypeAliasDecl"),
    If({"const"}, <<Give("ConstDecl"), Return>>, <<>>)>>
  \o ParseVariableOrMethod

ParseModuleDecl == <<Label("ModuleDecl")>> \o Path \o <<Eat({";"})>>

ParseImportDecl ==
  <<Label("ImportDecl")>> \o Path \o <<On({"as"}, <<Take(Identifier)>>), Eat({";"})>>

ParseTupleDestructuringDecl ==
  <<Label("TupleDestructuringDecl"), Eat({"("}),
    If({")"}, <<>>, Names), Eat({")"}), AtLeast(2),
    Eat({"="}), Hold("Expression"), Eat({";"})>>

(* The three functions for variables: a parse with errors, one for the     *)
(* head of a "for", and one that returns nullptr instead of an error.      *)
VariableModifiers ==
  While(Access \cup {"static"}, <<If(Access, <<Push, On({":"}, <<>>)>>, <<Push>>)>>)

VariableHead(typed, paren) ==
  LET named == <<If(paren, <<Fail>>, <<>>)>>
      explicit == named \o <<Call("Type")>>
  IN If({"late"},
        <<Push, If({"var"}, <<Push>> \o named,
                   <<If({"let"}, <<Push>> \o (IF typed THEN explicit ELSE named),
                        explicit)>>)>>,
        <<If({"var", "let"}, <<Push>> \o named, explicit)>>)

Initializer ==
  If({"="}, <<Skip, Hold("Expression")>>, <<If({"{"}, <<Hold("StructInit")>>, <<>>)>>)

VariableName == If(Identifier, <<Push>>, <<Null>>)

ParseVariableDecl ==
  <<Label("VariableDecl"), VariableModifiers, VariableHead(FALSE, {"("}),
    VariableName, Initializer, Eat({";"})>>

ParseVariableDeclForFor ==
  <<Label("VariableDecl"), VariableModifiers, VariableHead(FALSE, {}),
    VariableName, Initializer>>

TryParseVariableDecl ==
  <<Label("VariableDecl"), VariableModifiers, VariableHead(TRUE, {"("}),
    VariableName, Initializer, Need({";"})>>

ParseNamespaceDecl ==
  <<Label("NamespaceDecl"), Need({"namespace"}), Take(Identifier), Eat({"{"})>>
  \o MembersTo(Member("Declaration"))

ParseExternDecl ==
  <<Label("ExternDecl"), Take(StringLiteral),
    If({"{"}, <<Skip>> \o MembersTo(Member("Declaration")), <<Must("FunctionDecl")>>)>>

---------------------------------------------------------------------------
(* Functions. *)

OverloadedOperator ==
  If({"["}, <<Push, Eat({"]"})>>,
     <<If({"("}, <<Push, Eat({")"})>>,
          <<Take({"+", "-", "*", "/", "%", "**", "==", "!=", "<", "<=", ">", ">=",
                  "+=", "-=", "*=", "/=", "%=", "&", "|", "~", "!", "&&", "||",
                  "<<", ">>"})>>)>>)

BareOperator == <<Skip, OverloadedOperator>>

FunctionBody ==
  <<On({":"}, <<On({"base"}, <<Eat({"("}), If({")"}, <<>>, <<Hold("Expression")>>),
                               Eat({")"})>>)>>),
    If({"=>"}, <<Skip, Hold("Expression"), Eat({";"})>>,
       <<If({"{"}, <<Call("CompoundStmt")>>, <<Eat({";"})>>)>>)>>

(* What follows the name; "!" marks a method that does not change its      *)
(* object, and "->" is for functions without a type in front.              *)
FunctionRest(bang, arrow) ==
  <<TypeParameters, Eat({"("}), Call("ParameterList"), Eat({")"}),
    On(bang, <<>>), On(arrow, <<Hold("Type")>>),
    On({"where"}, <<Hold("WhereClause")>>),
    On({"requires"}, <<Hold("RequiresExpression")>>)>>
  \o FunctionBody

MethodName == If(Identifier \cup {"get", "set"}, <<Push>>, <<Null>>)

(* A constructor has its name before "("; a method has a type and a name,  *)
(* and type parameters only after a type that starts with a name.          *)
ParseMember ==
  <<Seen(<<Need(Identifier), Need({"("})>>,
         <<Push>> \o FunctionRest({"!"}, {"->"}),
         <<If(TypeStart, <<>>, <<Null>>),
           If(Identifier, <<Give("Type"), MethodName>>,
              <<Give("Type"), MethodName, If({"("}, <<>>, <<Null>>)>>)>>
           \o FunctionRest({"!"}, {}))>>

ParseFunctionDecl ==
  <<Label("FunctionDecl"),
    Seen(<<While(FunctionSpecifier, <<Skip>>), Need({"implicit"}), Need({"operator"}),
           Give("Type"), If({"("}, <<>>, <<Null>>)>>,
         <<While(FunctionSpecifier, <<Push>>), Skip, Skip, Must("Type")>>
           \o FunctionRest({}, {}),
         <<While(FunctionSpecifier, <<Push>>),
           If({"func"},
              <<Skip, If({"operator"}, BareOperator, <<Take(Identifier)>>)>>
                \o FunctionRest({"!"}, {"->"}),
              <<If({"~"}, <<Push, Take(Identifier)>> \o FunctionRest({"!"}, {"->"}),
                   <<If({"operator"}, BareOperator \o FunctionRest({"!"}, {"->"}),
                        ParseMember)>>)>>)>>)>>

ParseParameterList ==
  <<Label("Parameters"),
    If({")"}, <<>>, <<Give("Parameter"), While({","}, <<Skip, Give("Parameter")>>)>>)>>

ParseParameter ==
  <<Label("Parameter"),
    If({"out"}, <<Push, If({"...", "self"}, <<Fail>>, <<>>)>>, <<>>),
    If({"..."}, <<Push, Return>>, <<>>),
    If({"self"}, <<Push, On({"!"}, <<>>), Opt(Identifier), Return>>, <<>>),
    Seen(<<Need(Identifier), Need({":"})>>,
         <<Push, Skip, Must("Type"), On({"="}, <<Hold("Expression")>>), Return>>, <<>>),
    If(Identifier \cup TypeKeyword \cup {"("}, <<>>, <<Fail>>),
    Hold("Type"), OutIsReference,
    Opt({"..."}), Opt(Identifier), On({"="}, <<Hold("Expression")>>)>>

ParseTemplateParameters ==
  LET parameter == <<Take(Identifier), On({":"}, <<Hold("Type")>>), Opt({"..."})>>
  IN <<Label("TemplateParameters"),
       If({">"}, <<>>, parameter \o <<While({","}, <<Skip>> \o parameter)>>)>>

ParseTemplateArguments ==
  LET argument == If(Identifier, <<Hold("Type")>>, <<Hold("Expression")>>)
  IN <<Label("TemplateArguments"),
       If({">"}, <<>>, <<argument, While({","}, <<Skip, argument>>)>>)>>

ParseWhereClause ==
  LET constraint == <<If(Identifier, <<>>, <<Fail>>), Must("Type")>>
  IN <<Label("WhereClause")>> \o constraint \o <<While({","}, <<Skip>> \o constraint)>>

ParseRequiresExpression ==
  LET body == <<If({"{"}, <<Skip, Call("RequirementList"), Eat({"}"})>>, <<>>)>>
      parameters == <<Give("Parameter"), While({","}, <<Skip, Give("Parameter")>>),
                      Eat({")"})>>
      bare == <<If({")"}, <<>>, <<Call("RequirementList")>>), Eat({")"})>>
  IN <<Label("RequiresExpression"), Eat({"("}),
       If({")"}, bare,
          <<Seen(<<Give("Parameter"), If({",", ")"}, <<>>, <<Null>>)>>,
                 parameters \o body, bare)>>)>>

ParseRequirement ==
  <<Label("Requirement"),
    If({"{"}, <<Skip, Must("Expression"), Eat({"}"}),
                On({"->"}, <<Must("Type")>>), Return>>, <<>>),
    On({"requires"}, <<Hold("Type"), Return>>),
    If(Identifier, <<Hold("Type"), On({"("}, ListTo(")", "Expression"))>>, <<Fail>>)>>

ParseRequirementList ==
  <<Label("Requirements"),
    Until({}, <<Call("Requirement"),
                If({";", ","}, <<Skip, If({"}", ")", EndOfFile}, <<Break>>, <<>>)>>,
                   <<Break>>)>>)>>

---------------------------------------------------------------------------
(* Classes, interfaces, structs, enums, extensions and what is in them.    *)

Bases == On({":"}, Names)

\* Mutant of ClassMember: a member that is not read is not passed over.
ClassMemberCalled ==
  Seen(<<Need(Access), Need({":"})>>, <<Skip, Skip>>, <<Call("Declaration")>>)

(* "public:" changes the access of the members after it. *)
ClassMember ==
  Seen(<<Need(Access), Need({":"})>>, <<Skip, Skip>>, <<Member("Declaration")>>)

ParseClassDecl ==
  <<Label("ClassDecl"), While(Access \cup {"abstract"}, <<Push>>),
    Need({"class"}), Take(Identifier), TypeParameters, Bases,
    On({"where"}, <<Hold("WhereClause")>>), Eat({"{"})>>
  \o MembersTo(ClassMember) \o <<On({";"}, <<>>)>>

ParseInterfaceDecl ==
  <<Label("InterfaceDecl"), Opt(Access), Need({"interface"}), Take(Identifier),
    Bases, Eat({"{"})>> \o MembersTo(Call("Declaration"))

ParseStructDecl ==
  <<Label("StructDecl"), Opt(Access), Need({"struct"}), Take(Identifier),
    TypeParameters, Eat({"{"})>> \o MembersTo(Hold("Declaration"))

ParseExtensionDecl ==
  <<Label("ExtensionDecl"), Need({"extension"}), Must("Type"), Eat({"{"})>>
  \o MembersTo(Hold("Declaration"))

ParseEnumDecl ==
  <<Label("EnumDecl"), Opt(Access), Need({"enum"}), Take(Identifier), Eat({"{"})>>
  \o <<Until({"}", EndOfFile}, <<Hold("EnumMember"), If({","}, <<Skip>>, <<Break>>)>>),
       Eat({"}"})>>

ParseEnumMember ==
  <<Label("EnumMember"), Take(Identifier), On({"="}, <<Hold("Expression")>>)>>

AccessorBody(end) ==
  If({"=>"}, <<Skip, Hold("Expression"), Eat({";"})>>,
     <<If({"{"}, <<Call("CompoundStmt")>>, end)>>)

ParseGetterDecl ==
  <<Label("GetterDecl"), While(Access \cup {"static"}, <<Push>>), Need({"get"}),
    If(Identifier, <<Push>>, <<Null>>), Eat({"->"}), Must("Type"),
    AccessorBody(<<Fail>>)>>

ParseSetterDecl ==
  <<Label("SetterDecl"), While(Access \cup {"static"}, <<Push>>), Need({"set"}),
    Take(Identifier), Eat({"("}), Must("Parameter"), Eat({")"}),
    AccessorBody(<<Eat({";"})>>)>>

ParseTypeAliasDecl ==
  <<Label("TypeAliasDecl"), Opt(Access), Need({"using"}), Take(Identifier),
    Eat({"="}), Must("Type"), While({"|"}, <<Skip, Must("Type")>>), Eat({";"})>>

(* Without "=", the constraints and the body of a concept are skipped. *)
ParseConceptDecl ==
  <<Label("ConceptDecl"), Need({"concept"}), Take(Identifier),
    On({"<"}, Names \o <<Eat({">"})>>),
    If({"="}, <<Skip, Eat({"requires"}), Give("RequiresExpression"), Eat({";"}), Return>>,
       <<>>),
    On({"where"}, <<Until({"{", ";", EndOfFile}, <<Skip>>)>>),
    If({"{"}, <<Skip, Until({"}", EndOfFile}, <<Skip>>), Eat({"}"})>>, <<Eat({";"})>>)>>

ParseAttributeDecl ==
  <<Label("AttributeDecl"), Need({"attribute"}), Take(Identifier), Eat({"{"}),
    Until({"}", EndOfFile},
          <<Take(Identifier), On({":"}, <<Must("Type")>>), On({"="}, <<Must("Expression")>>),
            If({","}, <<Skip>>, <<Break>>)>>),
    Eat({"}"})>>

ParseAttributeApplication ==
  <<Label("AttributeApplication"), Need({"["}), Take(Identifier),
    On({"("}, <<Until({")", EndOfFile},
                      <<Seen(<<Need(Identifier), Need({"="})>>, <<Push, Skip>>, <<>>),
                        Must("Expression"), If({","}, <<Skip>>, <<Break>>)>>),
                Eat({")"})>>),
    Eat({"]"})>>

---------------------------------------------------------------------------
(* Statements. *)

Applied == Seen(<<Need({"["}), Need(Identifier), If({"]", "("}, <<>>, <<Null>>)>>,
                <<Call("AttributeApplication")>>, <<Break>>)

Keyword(token, rule) == If({token}, <<Skip, Give(rule), Return>>, <<>>)

\* Mutant of DeclarationOrExpression: without going back.
DeclarationFirst ==
  <<If({"var", "let", "late", "static"} \cup TypeStart, <<Give("VariableDecl"), Return>>, <<>>),
    Give("ExprStmt")>>

(* What may start a type is first taken for a declaration. *)
DeclarationOrExpression ==
  <<If({"var", "let", "late", "static"} \cup TypeStart,
       <<Seen(<<Opt({"static"}), Opt({"late"}), Opt({"var", "let"}), Need({"("})>>,
              <<Opt({"static"}), Opt({"late"}), Opt({"var", "let"}),
                Call("TupleDestructuringDecl"), Return>>,
              <<Try("VariableDeclTried")>>)>>, <<>>),
    Give("ExprStmt")>>

ParseStatement ==
  <<While({"["}, <<Applied>>),
    If({"{"}, <<Give("CompoundStmt"), Return>>, <<>>),
    On({";"}, <<Null>>),
    Keyword("if", "IfStmt"), Keyword("while", "WhileStmt"), Keyword("do", "DoWhileStmt"),
    Keyword("return", "ReturnStmt"), Keyword("yield", "YieldStmt"),
    Keyword("for", "ForStmt"), Keyword("foreach", "ForeachStmt"),
    Keyword("comptime", "ComptimeStmt"),
    If({"break", "continue"}, <<Push, Eat({";"}), Return>>, <<>>),
    On({"goto"}, <<Take(Identifier), Eat({";"}), Join("GotoStmt"), Return>>),
    Keyword("try", "TryStmt"), Keyword("throw", "ThrowStmt"), Keyword("defer", "DeferStmt"),
    On({"match"}, <<Give("MatchStmt"), On({";"}, <<>>), Return>>),
    If({"const"}, <<Give("ConstDecl"), Return>>, <<>>),
    Seen(<<Need(Identifier), Need({":"})>>, <<Push, Skip, Join("LabelStmt"), Return>>, <<>>)>>
  \o DeclarationOrExpression

ParseExprStmt == <<Label("ExprStmt"), Hold("Expression"), Eat({";"})>>

Optional(f) == If({";"}, <<>>, <<Hold(f)>>)

ParseReturnStmt == <<Label("ReturnStmt"), Optional("Expression"), Eat({";"})>>
ParseYieldStmt == <<Label("YieldStmt"), Optional("Expression"), Eat({";"})>>
ParseThrowStmt == <<Label("ThrowStmt"), Optional("Expression"), Eat({";"})>>

ParseCompoundStmt ==
  <<Label("CompoundStmt"), Eat({"{"})>> \o MembersTo(Call("Statement"))

Condition == <<Eat({"("}), Hold("Expression"), Eat({")"})>>
Branches == <<Hold("Statement"), On({"else"}, <<Hold("Statement")>>)>>

ParseIfStmt == <<Label("IfStmt")>> \o Condition \o Branches

ParseWhileStmt == <<Label("WhileStmt")>> \o Condition \o <<Hold("Statement")>>

ParseDoWhileStmt ==
  <<Label("DoWhileStmt"), Hold("Statement"), Eat({"while"})>> \o Condition \o <<Eat({";"})>>

OverCollection == <<Hold("Expression"), Eat({")"}), Hold("Statement")>>

ParseForStmt ==
  <<Label("ForStmt"), Eat({"("}),
    Seen(<<Need({"var", "let"}), Need(Identifier), Need({":"})>>,
         <<Label("Foreach"), Push, Push, Skip>> \o OverCollection \o <<Return>>, <<>>),
    Hold("ForInit"),
    If({";"}, <<>>, <<Hold("Expression")>>), Eat({";"}),
    If({")"}, <<>>, <<Hold("Expression")>>), Eat({")"}), Hold("Statement")>>

ParseForInit ==
  <<If({";"}, <<Skip, Null>>, <<>>),
    If({"var", "let", "late"} \cup TypeStart,
       <<Call("VariableDeclForFor")>>, <<Hold("Expression")>>),
    Eat({";"})>>

ParseForeachVariableDecl == <<Take({"var", "let"}), Take(Identifier)>>

ParseForeachStmt ==
  <<Label("Foreach"), Eat({"("})>> \o ParseForeachVariableDecl
  \o <<On({","}, ParseForeachVariableDecl), Eat({":"})>> \o OverCollection

ParseMatchStmt ==
  <<Label("MatchStmt")>> \o Condition \o <<Eat({"{"})>> \o MembersTo(Hold("MatchArm"))

ParseMatchArm ==
  <<Label("MatchArm"), Must("Pattern"), On({"if"}, <<Hold("Expression")>>), Eat({"=>"}),
    If({"{"}, <<Hold("CompoundStmt")>>, <<Hold("ExprStmt")>>)>>

ParsePattern ==
  <<If({"_"}, <<Push, Return>>, <<>>),
    If(Identifier, Path \o <<Join("Pattern"), Return>>, <<>>),
    Take(Literal \ {"1.5"})>>

ParseTryStmt ==
  <<Label("TryStmt"), Hold("Statement"), While({"catch"}, <<Skip, Hold("CatchStmt")>>)>>

ParseCatchStmt ==
  <<Label("CatchStmt"), Eat({"("}), If({"..."}, <<Push>>, <<Must("Parameter")>>),
    Eat({")"}), Hold("Statement")>>

ParseDeferStmt ==
  <<Label("DeferStmt"),
    If({"{"}, <<Hold("CompoundStmt")>>, <<Hold("Expression"), Eat({";"})>>)>>

ParseComptimeStmt ==
  <<Label("ComptimeStmt"),
    If({"if"}, <<Label("ComptimeIfStmt"), Skip>> \o Condition \o Branches,
       <<Hold("Statement")>>)>>

---------------------------------------------------------------------------
(* Expressions, from the tightest operators to the loosest.  A function of *)
(* this chain first calls the next tighter one: its rule starts with the   *)
(* steps of that one.                                                      *)

ParseMultiplicativeExpr == Binary(<<Call("UnaryExpr")>>, {"*", "/", "%"}, "UnaryExpr")
ParseAdditiveExpr == Binary(ParseMultiplicativeExpr, {"+", "-"}, "MultiplicativeExpr")
ParseShiftExpr == Binary(ParseAdditiveExpr, {"<<", ">>"}, "AdditiveExpr")
ParseRelationalExpr == Binary(ParseShiftExpr, {"<", "<=", ">", ">="}, "ShiftExpr")

(* "is" takes one kind, and forgets an operand that is not a name. *)
ParseIsExpr ==
  ParseRelationalExpr \o
  <<If({"is"}, <<Skip, Take({"struct", "class", "enum", "interface"} \cup Primitive
                            \cup TypeKindName),
                 NameOnly, Join("TypeIsExpr")>>, <<>>)>>

(* "|" and "^" are tokens of other kinds: InclusiveOr and ExclusiveOr wait  *)
(* for tokens that the lexer never makes.                                  *)
ParseEqualityExpr == Binary(ParseIsExpr, {"==", "!="}, "IsExpr")
ParseAndExpr == Binary(ParseEqualityExpr, {"&"}, "EqualityExpr")
ParseExclusiveOrExpr == Binary(ParseAndExpr, {"token Xor"}, "AndExpr")
ParseInclusiveOrExpr == Binary(ParseExclusiveOrExpr, {"token Or"}, "ExclusiveOrExpr")
ParseLogicalAndExpr == Binary(ParseInclusiveOrExpr, {"&&"}, "InclusiveOrExpr")
ParseLogicalOrExpr == Binary(ParseLogicalAndExpr, {"||"}, "LogicalAndExpr")

ParseConditionalExpr ==
  ParseLogicalOrExpr \o
  <<On({"?"}, <<Hold("Expression"), Eat({":"}), Hold("ConditionalExpr"),
                Join("ConditionalExpr")>>)>>

ParseAssignmentExpr ==
  ParseConditionalExpr \o
  <<If({"=", "+=", "-=", "*=", "/=", "%="},
       <<Push, Hold("AssignmentExpr"), Join("BinaryExpr")>>, <<>>)>>

ParseExpression == ParseAssignmentExpr

ParseUnaryExpr ==
  <<If({"+", "-", "!", "token BitNot", "^", "&", "await", "++", "--"},
       <<Label("UnaryExpr"), Push, Hold("UnaryExpr"), Return>>, <<>>),
    If({"@"}, <<Label("ReflectionExpr"), Skip,
                If({"typeof"}, <<Skip, Eat({"("}), Must("Expression"), Eat({")"})>>,
                               <<Must("Type")>>), Return>>, <<>>),
    If({"sizeof"}, <<Label("SizeofExpr"), Skip, Eat({"("}), Must("Type"), Eat({")"}),
                     Return>>, <<>>),
    If({"typeof"}, <<Label("TypeofExpr"), Skip>> \o Condition \o <<Return>>, <<>>),
    Call("PrimaryExpr")>>

(* A name before "{" is the type of an initializer, before "=>" the        *)
(* parameter of a lambda, which ends the expression.                       *)
NamedExpr ==
  Seen(<<Give("Type"), Need({"{"})>>,
       <<Hold("Type"), Hold("StructInit"), Join("StructInitExpr")>>,
       <<Take(Identifier),
         On({"=>"}, <<Hold("Expression"), Join("LambdaExpr"), Return>>)>>)

(* After "[": an array when the next tokens look like its first element,   *)
(* else a lambda with captures.                                            *)
Bracketed ==
  LET array == <<Hold("ArrayInit")>>
      other == <<Seen(<<Need(Identifier), Need({"(", ".", "->"})>>, array,
                      <<Hold("LambdaOrArrayInit")>>)>>
  IN <<Skip, If({"["} \cup (Literal \ {"true", "false"}), array, other)>>

(* "<" is tried as the start of type arguments; when that returns, and no  *)
(* ">" follows, it is left to the comparison.                              *)
GenericSuffix ==
  LET arguments == If({">"}, <<>>, <<Give("Type"), While({","}, <<Skip, Give("Type")>>)>>)
  IN Seen(<<Skip, arguments, Need({">"})>>, <<Skip, arguments, Skip, Attach>>, <<Break>>)

ParsePostfixExpr ==
  While({"(", "<", "[", ".", "->", "^", "~", "?", "++", "--", "!", "..", "..=", "::", "..."},
    <<If({"("}, <<Skip, Call("CallExpr"), Join("CallExpr")>>,
      <<If({"<"}, <<GenericSuffix>>,
        <<If({"["}, <<Skip, Hold("Expression"), Eat({"]"}), Join("SubscriptExpr")>>,
          <<If({"."}, <<Skip, If({"["}, <<Skip, Hold("Expression"), Eat({"]"}),
                                          Join("MetaFieldAccessExpr")>>,
                                 <<Take(Identifier), Join("MemberExpr")>>)>>,
            <<If({"->", "::"}, <<Push, Take(Identifier), Join("MemberExpr")>>,
              <<If({"..", "..="}, <<Push, Hold("PrimaryExpr"), Join("BinaryExpr")>>,
                <<Push, Join("UnaryExpr")>>)>>)>>)>>)>>)>>)>>)

ParsePrimaryExpr ==
  <<If({"self", "base"} \cup Builtin \cup Literal, <<Push>>,
    <<If({"{"}, <<Hold("StructInit")>>,
      <<If(Identifier \cup TypeKeyword, <<NamedExpr>>,
        <<If({"("}, <<Skip, Hold("TupleOrGrouping")>>,
          <<If({"["}, Bracketed,
            <<If({"new"}, <<Skip, Hold("NewExpr")>>,
              <<If({"delete"}, <<Skip, Hold("DeleteExpr")>>, <<Fail>>)>>)>>)>>)>>)>>)>>),
    ParsePostfixExpr>>

ParseCallExpr == <<Label("Arguments")>> \o ListTo(")", "Expression")

ParseArrayInit ==
  <<Label("ArrayInitExpr"),
    If({"]"}, <<>>,
       <<Hold("Expression"),
         If({";"}, <<Label("RepeatedArray"), Skip, Hold("Expression")>>,
            <<While({","}, <<Skip, Hold("Expression")>>)>>)>>),
    Eat({"]"})>>

LambdaBody ==
  If({"=>"}, <<Skip, Hold("Expression")>>,
     <<Eat({"{"}), Hold("CompoundStmt")>>)

ParseLambdaExpr ==
  <<Label("LambdaExpr"), On({"("}, <<Call("LambdaParams"), Eat({")"})>>), LambdaBody>>

(* The token after "[" is passed over before the captures are read. *)
ParseLambdaOrArrayInit ==
  <<If({"]"}, <<Skip, If({"(", "=>"}, <<Give("LambdaExpr"), Return>>,
                                      <<Label("ArrayInitExpr"), Return>>)>>, <<>>),
    Skip, Call("LambdaCaptures"), Eat({"]"}),
    If({"(", "=>"}, <<Call("LambdaExpr"), Join("LambdaExpr")>>, <<Give("ArrayInit")>>)>>

ParseLambdaCaptures ==
  LET capture == <<Opt({"&"}), If(Identifier \cup {"="}, <<>>, <<Fail>>), Opt({"="}),
                   Opt(Identifier)>>
  IN <<Label("Captures"), If({"]"}, <<>>, capture \o <<While({","}, <<Skip>> \o capture)>>)>>

ParseLambdaParams ==
  LET parameter == <<Hold("Type"), Take(Identifier), On({"="}, <<Hold("Expression")>>)>>
  IN <<Label("Parameters"),
       If({")"}, <<>>, parameter \o <<While({","}, <<Skip>> \o parameter)>>)>>

ParseTupleOrGrouping ==
  <<Seen(<<Need({"..."}), Need({"+", "-", "*", "/"}), Lack({")"})>>,
         <<Label("FoldExpr"), Skip, Push, Hold("Expression"), Eat({")"}), Return>>, <<>>)>>
  \o ListTo(")", "Expression") \o <<AtLeast(1), JoinMany("TupleExpr")>>

ParseStructInit ==
  LET field == <<Seen(<<Need(Identifier), Need({":", "="})>>, <<Push, Skip>>, <<>>),
                 Hold("Expression")>>
  IN <<Label("Fields"), Eat({"{"}),
       If({"}"}, <<>>, field \o <<While({","}, <<Skip>> \o field)>>), Eat({"}"})>>

ParseNewExpr ==
  <<Label("NewExpr"), Hold("Type"), On({"("}, <<Call("CallExpr")>>)>>

ParseDeleteExpr ==
  <<Label("DeleteExpr"), If({"["}, <<Push, Eat({"]"})>>, <<>>), Hold("Expression")>>

---------------------------------------------------------------------------
(* Types. *)

FunctionTypeFrom(argument) ==
  <<Label("FunctionType"), Skip, Eat({"("}),
    If({")"}, <<>>, <<argument, While({","}, <<Skip, argument>>)>>), Eat({")"})>>

(* A type argument list that does not end in ">" is no type argument list; *)
(* a generic type keeps the first part of the path it is written with.     *)
GenericType(arguments, otherwise) ==
  If({"<"}, <<Seen(<<Skip>> \o arguments \o <<Need({">"})>>,
                   <<FirstName, Skip>> \o arguments \o <<Skip, Join("GenericType")>>,
                   otherwise)>>, <<>>)

ParseBasicType ==
  LET arguments == <<If({">"}, <<>>, <<Give("Type"), While({","}, <<Skip, Give("Type")>>)>>)>>
  IN <<If(Identifier \cup TypeKeyword, <<>>, <<Null>>),
       If({"func"}, FunctionTypeFrom(Must("Type"))
                    \o <<If({"->"}, <<Skip, Must("Type")>>, <<>>), Return>>, <<>>),
       If(Identifier,
          <<Push, Seen(<<Need({"."}), Need(Identifier)>>,
                       <<While({"."}, <<Seen(<<Skip, Need(Identifier)>>, <<Skip, Push>>,
                                             <<Break>>)>>),
                         Join("NamedType")>>, <<>>)>>,
          <<Push>>),
       GenericType(arguments, <<>>),
       If({"!"}, <<Skip, Join("ReadonlyType")>>, <<>>)>>

ArraySuffix ==
  If({"]"}, <<Skip, Join("SliceType")>>,
    <<If({"$"}, <<Skip, Eat({"]"}), Join("DeducedArrayType")>>,
      <<If({","}, <<While({","}, <<Push>>), Eat({"]"}), Join("RectangularSliceType")>>,
           Many("Expression") \o <<Eat({"]"}), Join("ArrayType")>>)>>)>>)

ParseTypeSuffix ==
  While({"^", "&", "?", "!", "[", "<"},
    <<If({"^"}, <<Skip, Join("PointerType")>>,
      <<If({"&"}, <<Skip, Join("ReferenceType")>>,
        <<If({"?"}, <<Skip, Join("NullableType")>>,
          <<If({"!"}, <<Skip, Join("ReadonlyType")>>,
            <<If({"["}, <<Skip, ArraySuffix>>,
                 <<GenericType(<<Call("TemplateArguments")>>, <<Break>>)>>)>>)>>)>>)>>)>>)
ParseType ==
  <<If({"("},
       <<Skip>> \o ListTo(")", "BasicType")
         \o <<AtLeast(2), Join("TupleType"), If({"!"}, <<Skip, Join("ReadonlyType")>>, <<>>)>>,
       <<If({"func"}, FunctionTypeFrom(Hold("Type"))
                      \o <<On({"->"}, <<Hold("Type")>>), Return>>,
            <<Give("BasicType")>>)>>)>>
  \o <<ParseTypeSuffix>>

---------------------------------------------------------------------------
(* The reader: a position in the tokens, how the function goes on, and the *)
(* label and children of the node that it builds.                          *)

Rules ==
  [Program |-> ParseProgram, TemplateParameters |-> ParseTemplateParameters,
   Declaration |-> ParseDeclaration,
   AttributeApplication |-> ParseAttributeApplication, ModuleDecl |-> ParseModuleDecl,
   ExternDecl |-> ParseExternDecl, ImportDecl |-> ParseImportDecl,
   ExtensionDecl |-> ParseExtensionDecl, FunctionDecl |-> ParseFunctionDecl,
   GetterDecl |-> ParseGetterDecl, SetterDecl |-> ParseSetterDecl,
   ConceptDecl |-> ParseConceptDecl, AttributeDecl |-> ParseAttributeDecl,
   NamespaceDecl |-> ParseNamespaceDecl, ClassDecl |-> ParseClassDecl,
   InterfaceDecl |-> ParseInterfaceDecl, StructDecl |-> ParseStructDecl,
   EnumDecl |-> ParseEnumDecl, TypeAliasDecl |-> ParseTypeAliasDecl,
   ConstDecl |-> ParseConst, Type |-> ParseType, Expression |-> ParseExpression,
   TupleDestructuringDecl |-> ParseTupleDestructuringDecl,
   VariableDeclTried |-> TryParseVariableDecl, VariableDecl |-> ParseVariableDecl,
   StructInit |-> ParseStructInit, CompoundStmt |-> ParseCompoundStmt,
   ParameterList |-> ParseParameterList, WhereClause |-> ParseWhereClause,
   RequiresExpression |-> ParseRequiresExpression, Parameter |-> ParseParameter,
   RequirementList |-> ParseRequirementList, Requirement |-> ParseRequirement,
   EnumMember |-> ParseEnumMember, MatchStmt |-> ParseMatchStmt,
   ExprStmt |-> ParseExprStmt, Statement |-> ParseStatement, ForInit |-> ParseForInit,
   VariableDeclForFor |-> ParseVariableDeclForFor, MatchArm |-> ParseMatchArm,
   Pattern |-> ParsePattern, CatchStmt |-> ParseCatchStmt,
   AssignmentExpr |-> ParseAssignmentExpr, ConditionalExpr |-> ParseConditionalExpr,
   LogicalOrExpr |-> ParseLogicalOrExpr, RelationalExpr |-> ParseRelationalExpr,
   UnaryExpr |-> ParseUnaryExpr, PrimaryExpr |-> ParsePrimaryExpr,
   ArrayInit |-> ParseArrayInit, LambdaOrArrayInit |-> ParseLambdaOrArrayInit,
   CallExpr |-> ParseCallExpr, TupleOrGrouping |-> ParseTupleOrGrouping,
   NewExpr |-> ParseNewExpr, DeleteExpr |-> ParseDeleteExpr,
   LambdaParams |-> ParseLambdaParams, LambdaExpr |-> ParseLambdaExpr,
   LambdaCaptures |-> ParseLambdaCaptures,
   BasicType |-> ParseBasicType, TemplateArguments |-> ParseTemplateArguments,
   IfStmt |-> ParseIfStmt, WhileStmt |-> ParseWhileStmt,
   DoWhileStmt |-> ParseDoWhileStmt, ReturnStmt |-> ParseReturnStmt,
   YieldStmt |-> ParseYieldStmt, ForStmt |-> ParseForStmt,
   ForeachStmt |-> ParseForeachStmt, ComptimeStmt |-> ParseComptimeStmt,
   TryStmt |-> ParseTryStmt, ThrowStmt |-> ParseThrowStmt,
   DeferStmt |-> ParseDeferStmt, LogicalAndExpr |-> ParseLogicalAndExpr,
   InclusiveOrExpr |-> ParseInclusiveOrExpr, ExclusiveOrExpr |-> ParseExclusiveOrExpr,
   AndExpr |-> ParseAndExpr, EqualityExpr |-> ParseEqualityExpr,
   IsExpr |-> ParseIsExpr, ShiftExpr |-> ParseShiftExpr,
   AdditiveExpr |-> ParseAdditiveExpr, MultiplicativeExpr |-> ParseMultiplicativeExpr]

Token(s) == IF s.at > Len(s.text) THEN EndOfFile ELSE s.text[s.at]

Advance(s) == IF s.at > Len(s.text) THEN s ELSE [s EXCEPT !.at = @ + 1]

Ends(s, out) == [s EXCEPT !.out = out]

Add(s, node) == [s EXCEPT !.kids = Append(@, node)]

(* What a function returns: the node it labelled, or the last one it got. *)
Returns(s) == s.out \in {"go", "done"} /\ (s.label # "" \/ s.kids # <<>>)
Returned(s) == IF s.label # "" THEN Node(s.label, s.kids) ELSE s.kids[Len(s.kids)]

IsName(node) == node.label \in Identifier \cup {"self"}

RECURSIVE Enter(_, _), Run(_, _), Then(_, _), Perform(_, _), Repeat(_, _, _), Again(_, _, _, _)

Enter(rule, s) ==
  Run(Rules[rule], [s EXCEPT !.out = "go", !.label = "", !.kids = <<>>])

Run(steps, s) ==
  CASE steps = <<>> -> s
    [] Len(steps) = 1 -> Perform(steps[1], s)
    [] OTHER -> LET half == Len(steps) \div 2
                IN Then(SubSeq(steps, half + 1, Len(steps)), Run(SubSeq(steps, 1, half), s))

Then(steps, s) == IF s.out = "go" THEN Run(steps, s) ELSE s

(* A round that consumes nothing is followed by the same round for ever. *)
Repeat(step, s, in) ==
  IF (Token(s) \in step.of) = in THEN Again(step, s, in, Run(step.body, s)) ELSE s

Again(step, s, in, r) ==
  CASE r.out = "go" -> IF r.at = s.at THEN Ends(r, "stall") ELSE Repeat(step, r, in)
    [] r.out = "break" -> Ends(r, "go")
    [] OTHER -> r

(* The functions look one token ahead, or save the state, read on, and     *)
(* restore it; an error in what they read on leaves them.                  *)
LookAhead(step, s, ahead) ==
  CASE ahead.out = "go" -> Run(step.yes, s)
    [] ahead.out \in {"throw", "stall"} -> Ends(s, ahead.out)
    [] OTHER -> Run(step.no, s)

AfterCall(step, s, r) ==
  CASE r.out \in {"throw", "stall"} -> Ends(s, r.out)
    [] Returns(r) -> Add([s EXCEPT !.at = r.at], Returned(r))
    [] OTHER -> LET t == [s EXCEPT !.at = r.at]
                IN CASE step.null = "skip" -> t
                     [] step.null = "hold" -> Add(t, NoNode)
                     [] step.null = "advance" -> Advance(t)
                     [] OTHER -> Ends(t, step.null)

\* Mutant of AfterTry: the position is not restored.
AfterTryThere(s, r) ==
  CASE r.out = "stall" -> Ends(s, "stall")
    [] Returns(r) -> Ends(Add([s EXCEPT !.at = r.at], Returned(r)), "done")
    [] OTHER -> [s EXCEPT !.at = r.at]

AfterTry(s, r) ==
  CASE r.out = "stall" -> Ends(s, "stall")
    [] Returns(r) -> Ends(Add([s EXCEPT !.at = r.at], Returned(r)), "done")
    [] OTHER -> s

Joined(step, s) ==
  IF Len(s.kids) < step.from THEN s ELSE [s EXCEPT !.kids = <<Node(step.label, @)>>]

(* Type arguments stay with a name, and are dropped after anything else. *)
Attached(s) ==
  [s EXCEPT !.kids = IF IsName(@[1]) THEN <<Node("Identifier", @)>> ELSE <<@[1]>>]

BadOut(s) ==
  /\ s.kids[1] = Leaf("out")
  /\ \/ s.kids[2].label # "ReferenceType"
     \/ s.kids[2].kids[1].label = "ReadonlyType"

Perform(step, s) ==
  CASE step.do = "if" -> Run(IF Token(s) \in step.of THEN step.yes ELSE step.no, s)
    [] step.do = "skip" -> Advance(s)
    [] step.do = "push" -> Advance(Add(s, Leaf(Token(s))))
    [] step.do = "need" -> IF Token(s) \in step.of THEN Advance(s) ELSE Ends(s, "null")
    [] step.do = "lack" -> IF Token(s) \in step.of THEN Ends(s, "null") ELSE s
    [] step.do = "eat" -> IF Token(s) \in step.of THEN Advance(s) ELSE Ends(s, "throw")
    [] step.do = "while" -> Repeat(step, s, TRUE)
    [] step.do = "until" -> Repeat(step, s, FALSE)
    [] step.do = "seen" -> LookAhead(step, s, Run(step.test, s))
    [] step.do = "call" -> AfterCall(step, s, Enter(step.rule, s))
    [] step.do = "try" -> AfterTry(s, Enter(step.rule, s))
    [] step.do = "join" -> Joined(step, s)
    [] step.do = "label" -> [s EXCEPT !.label = step.label]
    [] step.do = "end" -> Ends(s, step.out)
    [] step.do = "atleast" -> IF Len(s.kids) < step.n THEN Ends(s, "throw") ELSE s
    [] step.do = "name" -> [s EXCEPT !.kids[1] = IF IsName(@) THEN @ ELSE Leaf("unknown")]
    [] step.do = "first name" -> [s EXCEPT !.kids[1] = IF @.label = "NamedType" THEN @.kids[1] ELSE @]
    [] step.do = "attach" -> Attached(s)
    [] step.do = "out" -> IF BadOut(s) THEN Ends(s, "throw") ELSE s

(* How the tokens are read by a rule: "ok" with a tree, or how it failed. *)
Reading(rule, text) ==
  LET s == Enter(rule, [text |-> text, at |-> 1, out |-> "go", label |-> "", kids |-> <<>>])
  IN IF Returns(s) THEN [out |-> "ok", at |-> s.at, tree |-> Returned(s)]
     ELSE [out |-> IF s.out \in {"throw", "stall"} THEN s.out ELSE "null",
           at |-> s.at, tree |-> NoNode]
=============================================================================
