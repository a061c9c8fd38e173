----------------------------- MODULE ModuleLoading -----------------------------
(***************************************************************************)
(* ModuleLoader: the imports of the program are loaded and their           *)
(* declarations are appended to it under prefixed names, and the analyzer  *)
(* then gives each unqualified or qualified name a meaning in the result.  *)
(*                                                                         *)
(* loadImportsInto and appendLoadedProgram load all the imports of a unit  *)
(* first and then append what was loaded, child by child: a frame of       *)
(* `frames' is one activation of them.  An identifier is the sequence of   *)
(* its parts between double underscores, as prefixing joins them.          *)
(***************************************************************************)
EXTENDS Integers, Sequences, FiniteSets

CONSTANTS
    Modules,       \* modules that an import can name
    Program,       \* the unit being compiled
    Path,          \* module -> its path, a sequence of identifier parts
    Sources        \* source files considered: what units import and declare

Unit == Modules \cup {Program}

Function == "function"
TypeKind == {"class", "struct", "interface", "enum", "alias"}
DeclKind == TypeKind \cup {Function, "variable"}

MainName == <<"main">>

ASSUME ProgramAssumption == Program \notin Modules
ASSUME PathAssumption ==
    /\ Path \in [Modules -> Seq(STRING)]
    /\ \A m \in Modules : Path[m] # << >>
    /\ \A m, n \in Modules : Path[m] = Path[n] => m = n

Imports == [Unit -> Seq(Modules)]
Decls == [Unit -> Seq([kind : DeclKind, name : Seq(STRING)])]

ASSUME SourcesAssumption == Sources \subseteq [imports : Imports, decls : Decls]

VARIABLES
    imports,       \* unit -> the modules it imports, in order
    decls,         \* unit -> its declarations, in order
    loaded,        \* loadedModules_
    loading,       \* loadingModules_
    reading,       \* whether the file of the current import is being parsed
    frames,        \* activations of the append, the program's at the bottom
    appended,      \* units whose declarations are in the result, in order
    status         \* how far the compilation is

vars == <<imports, decls, loaded, loading, reading, frames, appended, status>>

Source == <<imports, decls>>

Prefix(u) == IF u = Program THEN << >> ELSE Path[u]

\* next: import to load; queue: modules loaded and not appended.
Frame == [unit : Unit, next : Nat, queue : Seq(Modules)]
FrameOf(u) == [unit |-> u, next |-> 1, queue |-> << >>]

TopFrame == frames[Len(frames)]
Wanted == imports[TopFrame.unit][TopFrame.next]
MoreImports == TopFrame.next \in DOMAIN imports[TopFrame.unit]

Status == {"loading", "cyclic", "unreadable", "duplicate", "linked"}

TypeOK ==
    /\ imports \in Imports /\ decls \in Decls
    /\ loaded \subseteq Modules /\ loading \subseteq Modules
    /\ reading \in BOOLEAN
    /\ frames \in Seq(Frame)
    /\ \A f \in DOMAIN frames :
           frames[f].next \in 1 .. Len(imports[frames[f].unit]) + 1
    /\ appended \in Seq(Unit)
    /\ status \in Status

Init ==
    /\ \E s \in Sources : imports = s.imports /\ decls = s.decls
    /\ loaded = {} /\ loading = {} /\ reading = FALSE
    /\ frames = << FrameOf(Program) >>
    /\ appended = << >>
    /\ status = "loading"

-----------------------------------------------------------------------------
(* loadModule *)

\* The top frame after its next import; `more' is what it has to append.
Advance(more) ==
    frames' = [frames EXCEPT ![Len(frames)].next = @ + 1,
                             ![Len(frames)].queue = @ \o more]

\* Mutant of LoadAgain: the import after it is skipped.
LoadAgainSkips ==
    /\ status = "loading" /\ ~reading /\ MoreImports
    /\ Wanted \in loaded
    /\ frames' = [frames EXCEPT ![Len(frames)].next = @ + 2]
    /\ UNCHANGED <<Source, loaded, loading, reading, appended, status>>

\* A module loaded before yields nothing to append.
LoadAgain ==
    /\ status = "loading" /\ ~reading /\ MoreImports
    /\ Wanted \in loaded
    /\ Advance(<< >>)
    /\ UNCHANGED <<Source, loaded, loading, reading, appended, status>>

\* A module in loadingModules_ is a cycle, any other one is entered there.
BeginLoad ==
    /\ status = "loading" /\ ~reading /\ MoreImports
    /\ Wanted \notin loaded
    /\ status' = IF Wanted \in loading THEN "cyclic" ELSE "loading"
    /\ loading' = loading \cup {Wanted}
    /\ reading' = (Wanted \notin loading)
    /\ UNCHANGED <<Source, loaded, frames, appended>>

\* Mutant of EndLoad: the module is not remembered.
EndLoadForgets ==
    /\ status = "loading" /\ reading
    /\ reading' = FALSE
    /\ loading' = loading \ {Wanted}
    /\ Advance(<<Wanted>>)
    /\ UNCHANGED <<Source, loaded, appended, status>>

\* The file is parsed: the module leaves loadingModules_ before any of its
\* own imports is loaded.
EndLoad ==
    /\ status = "loading" /\ reading
    /\ reading' = FALSE
    /\ loading' = loading \ {Wanted}
    /\ loaded' = loaded \cup {Wanted}
    /\ Advance(<<Wanted>>)
    /\ UNCHANGED <<Source, appended, status>>

\* The file does not exist or does not parse: the exception ends the compiler.
LoadFails ==
    /\ status = "loading" /\ reading
    /\ status' = "unreadable"
    /\ UNCHANGED <<Source, loaded, loading, reading, frames, appended>>

-----------------------------------------------------------------------------
(* appendLoadedProgram *)

Ready == status = "loading" /\ ~reading /\ ~MoreImports

\* The next loaded child is appended before the unit itself.
Descend ==
    /\ Ready /\ TopFrame.queue # << >>
    /\ frames' = Append([frames EXCEPT ![Len(frames)].queue = Tail(@)],
                        FrameOf(Head(TopFrame.queue)))
    /\ UNCHANGED <<Source, loaded, loading, reading, appended, status>>

Appended == {appended[i] : i \in DOMAIN appended}

\* A declaration is a place in the text of a unit.
DeclsOf(u) == {[unit |-> u, at |-> i] : i \in DOMAIN decls[u]}
Kind(d) == decls[d.unit][d.at].kind
Name(d) == decls[d.unit][d.at].name

\* The name a declaration has in the result: prefixed with the module's
\* path, but for a function named main.
LinkName(d) ==
    IF Kind(d) = Function /\ Name(d) = MainName THEN Name(d)
                                               ELSE Prefix(d.unit) \o Name(d)

\* topLevelName does not know interfaces, enums and aliases, and functions
\* of modules are not compared.
Compared == {"class", "struct", "variable"}

\* Mutant of Seen: only the program's own names.
SeenProgram ==
    {Name(d) : d \in {e \in DeclsOf(Program) :
                         Kind(e) \in Compared \cup {Function}}}

\* The set `seen': the program's names and those that were appended.
Seen ==
    {Name(d) : d \in {e \in DeclsOf(Program) :
                         Kind(e) \in Compared \cup {Function}}}
    \cup UNION {{LinkName(d) : d \in {e \in DeclsOf(u) : Kind(e) \in Compared}}
                  : u \in Appended}

Clash(u) ==
    \E d \in DeclsOf(u) :
        /\ Kind(d) \in Compared
        /\ \/ LinkName(d) \in Seen
           \/ \E e \in DeclsOf(u) : /\ Kind(e) \in Compared /\ e.at < d.at
                                    /\ LinkName(e) = LinkName(d)

Return == SubSeq(frames, 1, Len(frames) - 1)

\* Mutant of AppendModule: the children are not waited for.
AppendModuleEarly ==
    /\ Ready /\ TopFrame.unit # Program
    /\ ~Clash(TopFrame.unit)
    /\ appended' = Append(appended, TopFrame.unit)
    /\ frames' = Return
    /\ UNCHANGED <<Source, loaded, loading, reading, status>>

\* A module without children left is renamed and appended as a whole.
AppendModule ==
    /\ Ready /\ TopFrame.queue = << >> /\ TopFrame.unit # Program
    /\ ~Clash(TopFrame.unit)
    /\ appended' = Append(appended, TopFrame.unit)
    /\ frames' = Return
    /\ UNCHANGED <<Source, loaded, loading, reading, status>>

RejectDuplicate ==
    /\ Ready /\ TopFrame.queue = << >> /\ TopFrame.unit # Program
    /\ Clash(TopFrame.unit)
    /\ status' = "duplicate"
    /\ UNCHANGED <<Source, loaded, loading, reading, frames, appended>>

\* All imports are in: the program's own declarations follow them.
FinishLinking ==
    /\ Ready /\ TopFrame.queue = << >> /\ TopFrame.unit = Program
    /\ appended' = Append(appended, Program)
    /\ frames' = Return
    /\ status' = "linked"
    /\ UNCHANGED <<Source, loaded, loading, reading>>

Next ==
    \/ LoadAgain \/ BeginLoad \/ EndLoad \/ LoadFails
    \/ Descend \/ AppendModule \/ RejectDuplicate \/ FinishLinking

\* The loader waits for nothing but the file system.
Spec == Init /\ [][Next]_vars /\ WF_vars(Next)

-----------------------------------------------------------------------------
(* The analyzer's view of the result in the body of a free function, which *)
(* is analyzed when all declarations are registered.                       *)

Result == UNION {DeclsOf(u) : u \in Appended}

\* The three tables of short names, see ModuleFunctionAlias and its kin.
Group(kind) == IF kind \in TypeKind THEN "type" ELSE kind

Candidates(group, n) ==
    {d \in Result : /\ d.unit # Program /\ Group(Kind(d)) = group
                    /\ Name(d) = n /\ LinkName(d) # n}

ProgramNames ==
    {Name(d) : d \in {e \in DeclsOf(Program) :
                         Kind(e) \in Compared \cup {Function}}}

\* Mutant of Alias: the link name of some candidate.
AliasOfSome(group, n) ==
    LET links == {LinkName(d) : d \in Candidates(group, n)}
    IN  IF links # {} /\ n \notin ProgramNames
        THEN {CHOOSE l \in links : TRUE} ELSE {}

\* The link name a short name stands for, as a set of at most one: only one
\* module declaration has it and topLevelName finds none in the program.
Alias(group, n) ==
    LET links == {LinkName(d) : d \in Candidates(group, n)}
    IN  IF Cardinality(Candidates(group, n)) = 1 /\ n \notin ProgramNames
        THEN links ELSE {}

Registered(kinds, link) ==
    \E d \in Result : Kind(d) \in kinds /\ LinkName(d) = link

Before(u, v) == \E i, j \in DOMAIN appended :
                    i < j /\ appended[i] = u /\ appended[j] = v

\* analyze registers the declarations in the order of the result.
Precedes(d, e) ==
    Before(d.unit, e.unit) \/ (d.unit = e.unit /\ d.at < e.at)

\* lookupSymbol in the global scope, as a set of at most one: of the symbols
\* of one name, of whatever kinds, the first is found.
First(link) ==
    {d \in Result :
        /\ LinkName(d) = link
        /\ ~\E e \in Result : LinkName(e) = link /\ Precedes(e, d)}

\* Short names of functions are symbols themselves unless a function has
\* the name already.
IsFunction(n) == Registered({Function}, n) \/ Alias(Function, n) # {}

\* Whether lookupSymbol finds n; link names are looked up globally only.
IsSymbol(n) == First(n) # {} \/ IsFunction(n)

\* The unit's own symbol of one of the kinds, found under its prefixed name.
Own(u, kinds, n) ==
    {d \in First(Prefix(u) \o n) : u # Program /\ Kind(d) \in kinds}

\* The enum whose metadata is registered under a link name: classes register
\* theirs in the second pass, structs and enums in the first.
EnumOf(link) ==
    {d \in Result :
        /\ Kind(d) = "enum" /\ LinkName(d) = link
        /\ ~\E e \in Result :
               /\ LinkName(e) = link
               /\ \/ Kind(e) = "class"
                  \/ Kind(e) \in {"struct", "enum"} /\ Precedes(d, e)}

\* resolveEnumMetadata.
EnumMeant(u, n) ==
    IF u # Program /\ EnumOf(Prefix(u) \o n) # {} THEN EnumOf(Prefix(u) \o n)
    ELSE IF EnumOf(n) # {} THEN EnumOf(n)
    ELSE UNION {EnumOf(l) : l \in Alias("type", n)}

\* analyzeTypeByName below the enums: the global name, then the alias.
GlobalType(n) ==
    LET found(link) == {d \in First(link) : Kind(d) \in TypeKind}
    IN  IF found(n) # {} THEN found(n)
        ELSE UNION {found(l) : l \in Alias("type", n)}

\* Mutant of TypeFound: the global name first.
TypeFoundGlobally(u, n) ==
    IF GlobalType(n) # {} THEN GlobalType(n)
    ELSE IF Own(u, TypeKind, n) # {} THEN Own(u, TypeKind, n)
    ELSE EnumMeant(u, n)

\* analyzeNamedType, the declaration whose type is taken: the unit's own
\* symbol if that is a type, else an enum by its metadata, else a global one.
TypeFound(u, n) ==
    IF Own(u, TypeKind, n) # {} THEN Own(u, TypeKind, n)
    ELSE IF EnumMeant(u, n) # {} THEN EnumMeant(u, n)
    ELSE GlobalType(n)

\* The name analyzeNamedType leaves in the tree for the generator: the
\* prefixed one, else that of the alias whatever type was found.
TypeMeant(u, n) ==
    IF TypeFound(u, n) = {} THEN {}
    ELSE IF Own(u, TypeKind, n) # {} THEN {Prefix(u) \o n}
    ELSE IF Alias("type", n) # {} THEN Alias("type", n) ELSE {n}

\* analyzeIdentifierExpr: any global symbol of that name, then the alias,
\* then the unit's own variable.
VariableMeant(u, n) ==
    IF IsSymbol(n) THEN {n}
    ELSE IF Alias("variable", n) # {} THEN Alias("variable", n)
    ELSE IF Own(u, {"variable"}, n) # {} THEN {Prefix(u) \o n} ELSE {}

\* analyzeCallExpr: the functions of that name, then the unit's own.
FunctionMeant(u, n) ==
    IF Registered({Function}, n) THEN {n}
    ELSE IF Alias(Function, n) # {} THEN Alias(Function, n)
    ELSE IF u # Program /\ Registered({Function}, Prefix(u) \o n)
    THEN {Prefix(u) \o n} ELSE {}

\* The name an import is registered under: the last part of its path.
Qualifier(m) == <<Path[m][Len(Path[m])]>>

\* analyzeImportDecl: only the program's imports are still in the result,
\* and of two with the same name the first is registered.
QualifierMeans(q) ==
    {m \in Modules :
        \E i \in DOMAIN imports[Program] :
            /\ imports[Program][i] = m /\ Qualifier(m) = q
            /\ \A j \in 1 .. i - 1 : Qualifier(imports[Program][j]) # q}

-----------------------------------------------------------------------------
(* Properties *)

IsLinked == status = "linked"
Imported(u) == {imports[u][i] : i \in DOMAIN imports[u]}
Importers(m) == {u \in Appended : m \in Imported(u)}
\* loadedModules_ keeps every unit from being appended twice, through
\* whatever paths it is imported, and what is still to be appended has not
\* been appended.
AppendedOnce ==
    /\ \A i, j \in DOMAIN appended : appended[i] = appended[j] => i = j
    /\ \A f \in DOMAIN frames : frames[f].unit \notin Appended

\* The promise of LinkedProgram: exactly what the program reaches is linked,
\* once, the program last, and linking ends even when imports are cyclic.
Promise == INSTANCE LinkedProgram WITH
    linked <- appended,
    status <- IF status \in {"loading", "linked"} THEN status ELSE "failed"
KeepsPromise == Promise!Spec

\* A module that one other unit alone imports precedes that unit.
OnlyChildFirst ==
    IsLinked => \A u \in Appended, m \in Modules :
                    Importers(m) = {u} /\ u # m => Before(m, u)

\* Two classes, structs or variables of the result have different link
\* names when one of them comes from a module, even where the parts of a
\* path and of a name are joined to the same identifier.
LinkNamesDistinct ==
    IsLinked =>
        \A d, e \in Result :
            /\ d # e /\ d.unit # Program
            /\ Kind(d) \in Compared /\ Kind(e) \in Compared
            => LinkName(d) # LinkName(e)

\* A declaration with the same link name was registered before d.
Hidden(d) == \E e \in Result : LinkName(e) = LinkName(d) /\ Precedes(e, d)

\* In a module an unqualified type is the module's own when it has one,
\* whatever the program and other modules declare, unless a function, an
\* interface or another name that is not compared was joined to the same
\* identifier and registered first.  A lone enum is found even then.
OwnTypesFirst ==
    IsLinked =>
        \A d \in Result :
            d.unit # Program /\ Kind(d) \in TypeKind =>
                /\ ~Hidden(d) => /\ TypeFound(d.unit, Name(d)) = {d}
                                 /\ TypeMeant(d.unit, Name(d)) = {LinkName(d)}
                /\ /\ Kind(d) = "enum"
                   /\ \A e \in Result \ {d} : Kind(e) \in TypeKind => LinkName(e) # LinkName(d)
                   => TypeFound(d.unit, Name(d)) = {d}

\* A name that two modules declare, and that is not the link name of some
\* declaration as well, means nothing to the program: it has to be qualified.
AmbiguousIsRefused ==
    IsLinked =>
        \A d, e \in Result :
            /\ d.unit # e.unit /\ {d.unit, e.unit} \subseteq Modules
            /\ Name(d) = Name(e) /\ Group(Kind(d)) = Group(Kind(e))
            /\ ~Registered(DeclKind, Name(d))
            => /\ Group(Kind(d)) = "type" => TypeFound(Program, Name(d)) = {}
               /\ Kind(d) = Function => FunctionMeant(Program, Name(d)) = {}

-----------------------------------------------------------------------------
(* What the documents and comments say and the result does not satisfy *)

\* The text of the module specification: imports that form a cycle across
\* modules are an error.
CyclesRejected ==
    IsLinked => \A u, v \in Appended :
                    ~(u # v /\ u \in Imported(v) /\ v \in Imported(u))

\* The text of the module specification: modules are compiled in the order
\* of their dependencies.
DependenciesFirst ==
    IsLinked => \A u, v \in Appended :
                    /\ v \in Imported(u) /\ u # v
                    /\ u \notin Imported(v)
                    => Before(v, u)

\* The comment in analyze: the imports are registered first so that the code
\* of imported modules can use qualified names.
QualifiersKnown ==
    IsLinked => \A u \in Appended : \A m \in Imported(u) :
                    QualifierMeans(Qualifier(m)) # {}

\* The status document: in a module an unqualified name is the module's own
\* variable or function when it has one.
OwnNamesFirst ==
    IsLinked =>
        \A d \in Result :
            d.unit # Program /\ Name(d) # MainName =>
                /\ Kind(d) = "variable" =>
                      VariableMeant(d.unit, Name(d)) = {LinkName(d)}
                /\ Kind(d) = Function =>
                      FunctionMeant(d.unit, Name(d)) = {LinkName(d)}

\* The comment in loadImportsInto: a short name in conflict with the program
\* is not made an alias, so the program's own types keep their names.
ProgramTypesFirst ==
    IsLinked =>
        \A d \in DeclsOf(Program) :
            Kind(d) \in TypeKind => TypeMeant(Program, Name(d)) = {Name(d)}

\* The comment in appendLoadedProgram: free functions are isolated by the
\* prefix of their module.
FunctionsIsolated ==
    IsLinked =>
        \A d, e \in Result :
            d.unit # e.unit /\ Kind(d) = Function /\ Kind(e) = Function =>
                LinkName(d) # LinkName(e)
=============================================================================
