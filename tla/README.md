# A TLA+ model of the C^ compiler

C^ (C-Hat) is a compiler written in C++23 on LLVM: lexer, recursive-descent
parser, module loader, semantic analyzer, LLVM code generator, and a driver that
dumps, runs, emits or links the result. Line numbers below refer to
`src/src/...`; `SA` is `semantic/SemanticAnalyzer.cpp`, `CG` is
`llvm/LLVMCodeGenerator.cpp`, `ML` is `semantic/ModuleLoader.cpp`.

The compiler is one sequential process; nothing is shared between threads and
nothing persists but its output. What is hard about it is long chains of state:

- the code it *emits* is a small state machine of its own: registered cleanups, a
  global exception handler, setjmp frames, and jumps through all of them;
- what the analyzer *believes* about a variable is saved, restored and merged at
  every statement with parts, and has to be true of all executions at once;
- the generator's insert point, block list and tables of targets are threaded
  through handlers that each assume something of the handler before;
- the loader rewrites names and drops imports, and later passes resolve names in
  what is left.

A test reaches one program at a time. The modules here take *any* statement as the
next one, so that TLC walks through all programs up to a bound. Where the code is a
pure function of its input (the parser, type compatibility, class tables), the input
grows step by step and every prefix is a state.

## 1. Inventory

### Parts, state, operations

| Part | State it keeps | Operations | What makes it correct |
|---|---|---|---|
| Driver `main.cpp` | options, input, status | read, parse, link modules, analyze, generate, verify, emit or run | a failing stage stops the ones behind it and shows in the exit code |
| Lexer `lexer/` | position, line, interpolation depth | `nextToken` | every character belongs to one token; interpolation returns to the string it left |
| Parser `parser/` | two tokens, lexer position for speculative parses | one routine per construct, `tryParseVariableDecl` | a failed speculation restores what it consumed; errors terminate |
| AST, `ast/AstClone.cpp` | trees | node classes, deep copy | a clone shares nothing with its source |
| ModuleLoader `semantic/ModuleLoader.*` | `loadedModules_`, `loadingModules_`, three alias lists | `loadModule`, `loadImportsInto`, `appendLoadedProgram` | every reachable module is linked once, no two things get one name |
| SymbolTable | stack of scopes | enter, exit, add, lookup | a name means the innermost declaration |
| SemanticAnalyzer, passes | `currentProgram_`, symbol table, `model_`, registries of generics, concepts, extensions | `analyze` 70-211 and the `analyze...Decl` family | declarations are known before bodies are analyzed; specializations are analyzed too |
| SemanticAnalyzer, late variables | `lateVariables_`, `currentOutParams_` | snapshot, restore and merge in each statement handler | no accepted program reads an uninitialised variable; a correct program is not rejected |
| SemanticAnalyzer, statements | `loopDepth_`, `definedLabels_`, `currentFunctionLabels_` | checks of break, continue, goto, defer bodies | what the generator relies on is rejected before |
| Types `types/` | type terms | `isCompatibleWith`, conversions | compatibility respects the sub-type order |
| Overloads, generics | `instantiatedFunctions_`, `specialized...Decls_`, the `...Specializations_` lists | ranking, deduction, instantiation | each instance is generated once; instantiation ends |
| Classes, interfaces | class types, member tables | inheritance, override and access checks | a slot keeps its meaning along a hierarchy |
| Code generator, cleanup | `deferExpressions_`, `destructorEntries_` and their markers, `tryCleanupMarkers_`, `exceptionHandlerStack_` | register, emit cleanup, install and restore handlers | every registered cleanup runs once, in reverse order, before its block is left |
| Code generator, blocks | insert point, `breakTargets_`, `continueTargets_`, `labelBlocks_` | one handler per statement | every block ends in one terminator; control reaches what the source reaches |
| Code generator, classes | `structInfo_`, `virtualSlots_`, `vtableFunctions_`, deferred member bodies | declare, lay out, `finalizeVTables` | caller and callee agree on slots |
| Code generator, values | `namedValues_`, `functions_`, sret tables | expressions, calls | a name is the value the analyzer meant |
| LLVMIRGenerator | the LLVM module | verify, optimise, emit, JIT | it only wraps LLVM |
| `codegen/CodeGenerator` | - | - | not called by `main` any more |

### How the parts interact

`main` parses the file, and when there are module paths lets `loadImportsInto`
append the declarations of all imported modules to the program under prefixed
names. The loader's aliases are handed to the analyzer, which sees one program.
The analyzer annotates the tree, fills `SemanticModel` and appends
specializations to the same program; its `moduleLoader_` parses the program's
imports a second time only to register qualifiers. The generator takes over the
tree, trusts every check of the analyzer, and returns a module that `verifyIR`
inspects. The generated code interacts with itself across functions through one
global, the exception handler: a chain of jmp_buf frames that every framed
function and every try extends and must shorten again.

### Hard behaviours

Exceptions that enter a try by longjmp, past code that never runs; jumps out of
and into protected regions; a compile-time list of cleanups that stands for a
run-time history; cleanups that throw while cleanups run; joins of flags over
branches that return; blocks that end before their handler does; merge blocks
nobody reaches; a graph of imports with diamonds and rings; names that meet after
they have been prefixed; tables that outlive the function or block they describe.
`PROJECT.json` lists each hazard at its line.

## 2. Plan

1. `ScopedCleanup`, `FunctionCleanup`, `FunctionCleanupProofs`: the behaviour of the
   generated code that the language promises most about. *Done, with all its safety
   properties proved.*
2. `LinkedProgram`, `ModuleLoading`, `ModuleLoadingProofs`: linking, and what names
   mean after it. *Done, proved.*
3. `LateVariables`, `LateVariablesProofs`, `LateAlarmsProofs`: definite
   initialisation. *Done, proved.*
4. `BasicBlocks`, `BasicBlocksProofs`, `BlockPathsProofs`: the control flow of all
   statements. *Done, proved.*
5. `ClassLayout`, `ClassLayoutProofs`: slots, tables and fields of classes against the
   dispatch that the language promises. *Done, proved.*
6. `Grammar`, `Lexing`, `Parsing`: what is written is what is read, and reading
   ends. *Done, without templates, attributes, interpolation.*
7. `Conversions`: compatibility, conversions and overloads, against a memory that
   accepted programs fill. *Done for the types section 3 names.*
8. `Scopes`, `ScopesProofs`: symbol table and generator's map against the language's
   scopes. *Done, without lambdas and namespaces.*
9. Open: `Instantiation` (the caches of generics and the specializations appended while
   `analyze` runs); expressions' blocks; proofs about `Conversions`, with recursive
   functions in the place of its RECURSIVE operators.

Abstract specifications: `ScopedCleanup` (what a block owes), `LinkedProgram` (what
linking produces), and inside the modules the language's scopes (`lexical`), its
dispatch (`CallsReachOverride`), its grammar as a writer and its memory. Both abstract
specifications are shown to be implemented by TLC and, their liveness apart, by proof.

## 3. Modules

### FunctionCleanup (with ScopedCleanup, MCFunctionCleanup, FunctionCleanupProofs)

One activation of one generated function. A *site* is a `defer` statement or a
variable with a destructor; the sites 1..N are the merge of `deferExpressions_` and
`destructorEntries_` by sequence number. `at` is the length of the lists where the
text has got to, a scope's `mark` the marker it pushed (`deferScopeMarkers_`,
`loopDeferMarkers_`, `tryCleanupMarkers_`), `count[s]` the run-time counter or flag,
`handler` the global exception handler, `job` the cleanup being executed, `pending`
a history variable with the registrations that have not run.

| Actions | Code |
|---|---|
| `EnterBlock`, `ExitBlock`, `FinishBlock` | `generateCompoundStmt` CG 6979-7023 |
| `EnterLoop`, `LoopBack`, `LoopLeave` | while, do and for, CG 7211-7554 |
| `EnterTry`, `ExitTry`, `Catch`, `NoMatch` | `generateTryStmt` CG 7764-7961 |
| `Register`, `Skip` | `generateDeferStmt`, `registerDestructorForClassName` CG 8060-8263 |
| `Break`, `Continue`, `Goto`, `Return`, `Throw` and `Finish...` | CG 7026-7170, 7557-7590, 7974-8055, 9021-9082 |
| `RunSite`, `SiteThrows`, `Consumed` | `emitSingleDefer`, `emitSingleDestructor` CG 8105-8330 |
| `CalleeThrows`, `EnterFrame`, `FinishFrame`, `LeaveFunction`, `WildJump` | the function frame, CG 1909-2008 |

`Emitter` selects the routine that generates the function, because they differ: only
`generateFunctionDecl` collects label depths, and extension methods have no frame.
`Features` is the class of functions considered. `ScopedCleanup` is the promise of
the language manual (defer before the end of its block, last in first out, also
under exceptions): a stack of obligations with depths, whose only ways to shrink are
running the last one and ending. `FunctionCleanup` refines it with `todo <- pending`,
`depth <-` the number of open blocks.

Properties: `HandlerIsInnermost`, `NoWildJump`, `NoOrphan` (no obligation of a block
that has been left), `NoneLost`, `FrameLosesNone`, `CountsAreExact`, the refinement
`KeepsPromise`, and the liveness property `CleanupEnds`.

Fairness is `WF(CleanupStep) /\ WF(UnwindStep)`: emitted code between a jump and its
target has no condition to wait for, so it goes on. Nothing is assumed about
statements; a program may stay in a loop forever.

Left out: what a catch clause matches (a try may or may not have a catch that
matches), exception values, the field and base destructors a destructor calls,
coroutines, and calls other than that they may throw.

### ModuleLoading (with LinkedProgram, MCModuleLoading, ModuleLoadingProofs)

`imports` and `decls` are the source files, chosen initially and never changed.
`frames` is the stack of activations of `loadImportsInto` / `appendLoadedProgram`
(ML 153-427): a frame first loads all imports of its unit (`LoadAgain`, `BeginLoad`,
`EndLoad`, `LoadFails`: `loadModule` ML 85-150) and then appends what it loaded
(`Descend`, `AppendModule`, `RejectDuplicate`, `FinishLinking`). Identifiers are
sequences of parts joined by `__`, so that prefixing can produce equal names from
different ones. `First` is `lookupSymbol`: all kinds of declarations share one table,
and of those that were joined to one identifier the first that was registered is found.
On it rest the analyzer's lookups in the body of a free function: `TypeFound` (the
declaration whose type is taken), `TypeMeant` (the name left for the generator),
`VariableMeant`, `FunctionMeant` and `QualifierMeans`. `OwnTypesFirst` excepts the types
that `Hidden` says another name was registered before, see section 5. `LinkedProgram` is the abstract promise:
the units are appended once each, the program last (`Linking`), and linking ends
(the fairness that `Spec` adds to `Linking`).

`MCModuleLoading` has three families of sources: all import graphs, with one function
each (`Graphs`); one graph with all kinds of declarations (`Names`); and modules `a`,
`a.b` and `b`, whose link names meet (`Meeting`: `b__x` of the program's view may be
`x` of module b or `b__x` of a; a type of a is hidden by a function of a.b).

Fairness is `WF(Next)`: the loader waits for nothing but the file system.

### LateVariables (with LateVariablesProofs, LateAlarmsProofs)

One variable `x`, late or an out parameter, followed through all statement handlers
of `SemanticAnalyzer` (SA 2988-3425). `late` is its entry in `lateVariables_`;
`open` is the stack of active handlers with the snapshots they hold. Next to the
flag runs what it approximates: `paths`, the set of executions that reach this
place, each reduced to whether it has initialised `x`. A statement takes one action
when it begins, one between its parts, one at its end; `late'` is computed from the
snapshots as the code does (`JoinIf`, `JoinTry`, `MergeCatch`, `Leave`) and `paths'`
from the meaning of the statement. `rejected` holds the errors the analyzer reports
in a step and `faulty` the faults that some execution commits in it.

The properties compare the two: `StructuredIsSafe` (a fault is always rejected, but
for references given to methods and constructors), `NoFalseAlarm` (a rejection has a
faulty execution, but for the update of a for), `TrackedInScope` (x is tracked in its
scope, and after a for whose init declares it until the statement around it ends: a
frame that `leaks`). Two history flags delimit what the analyzer approximates: `loose`
is set when `x` is first assigned in a loop body, a for update, a match arm, or on only
one side of a try and its catches; `unseen` when paths end by a throw, or in a loop body
or arm that returns, which `statementDefinitelyReturns` does not see, when a method
fills `x` as its out argument, or when a for leaves its own `x` tracked as unset.

Left out: break, continue and goto, defer bodies and lambdas that assign, `&&` and
`||`, a second `x` declared where the first is tracked (its flag and the outer one's are
one map entry), and loop bodies and arms that are not blocks.

### BasicBlocks (with BasicBlocksProofs, BlockPathsProofs)

The functions of a module are generated statement by statement. `blocks` are the
LLVM blocks with the number of their terminators and their successors, `insert` the
insert point, `back` the last block of the function's list, `label` the entry of
`labelBlocks_`, `open` the active handlers with their targets. Each action is the
piece of a `generate...Stmt` up to the body it generates, or from the body's end to
its own. `live` says whether an execution of the *source* gets here. `WellFormed` is
what LLVM's verifier asks; `PathsKept` says that the generated code reaches the
insert point exactly when the source reaches the statement.

`careless` marks the handlers that write a branch without looking whether the block
is closed already. `while` and `for` bodies that end in return, throw or goto are
of this kind (a second terminator, which the verifier rejects), and so are labels
that share their name with an earlier function's.

`live` is computed once, when a statement is generated. A goto that leads *back* to a
label in dead text (`if (x) { return; L:; } else { goto L; }`) makes live what was
generated as dead; `revived` marks such functions, of which `PathsKept` says nothing
from there on. `arrived` says whether an execution gets to the label: until the label
comes, by a goto, and from then on as it was found there.

Left out: blocks inside expressions, cleanup code and the function frame (those are
FunctionCleanup), goto into a loop from outside, a second label name, a label on a
block that already has instructions.

### ClassLayout (with MCClassLayout and ClassLayoutProofs)

The classes of a program, in its order, go first through the analyzer
(`AnalyzeClass`: bases, the destructor a base makes necessary, default methods,
missing implementations; SA 1215-1330, 1634-1741, 6897-7001) and then through the generator
(`GenerateClass`: CG 285-332, 2202-2495): `slots` is `virtualSlots_`,
`vtable` is `vtableFunctions_`, `layout` is `structTypes_`. `Called`,
`InterfaceCalled`, `Deleted` and `Caught` are what generated code does with a table
later: it reads the slot that the *static* type gives in the table of the *dynamic*
one. The properties compare that with the inheritance graph alone.

Two things are written as what they compute instead of how. `collectInterfaceInfo`
orders the methods of interfaces, those of a base interface first: the module takes
some order, the same for all classes (`InterfaceMethods`). The code counts slots while
it walks the members: the module gives a new name the number of slots taken before it,
those of the base and those of new names that come earlier (`Precedes`, `Slots`).

`Sound` names the programs the properties are about: bases declared first, and
`Supported`, no class that adds virtual methods, a virtual destructor or interfaces to
a base without a table (CG 2211 starts a table only at the root).

Left out: static methods, templates, access, properties, several bases, destructors of
field types, and constructors in the count of `InterfaceBase`.

### Grammar, Lexing, Parsing (with MCParsing)

`Grammar` has a rule for each `parse...` function of the parser (a sequence of steps:
check, match, expect, call, loop, speculate and restore) and one reader that carries
rules out, `Lexing` the branches of `nextToken`. Both are functions of the text.
`Parsing` makes the text: a syntax tree that grows one construct at a time and is
written down with the parentheses that the language's table of operators asks for; any
tokens in some place of a program; or any characters. A rule ends as its C++ function
can: with a node, with nullptr, with an error, or never, when a loop goes round
without consuming anything. `Halts` says that this happens for one token in three places
and nowhere else: `__line__` in the body of a struct, an interface or an extension
(`Unguarded`).

`Writable` excludes what is written but misread; each exclusion is a disagreement,
listed in section 5. Left out: templates, attributes, modules, extensions, asm,
comptime, error messages; interpolation, escapes and unicode.

### Conversions (with MCConversions)

`isTypeCompatible` and `tryImplicitConversion` (SA 6386-6834) with the type classes it asks (`types/*.cpp`) and the
choice among overloads. Properties of such a relation by itself (is it transitive?)
say little, so the module gives it a meaning: `cells` are variables with their static
types and what they point to, and `Declare`, `Assign`, `AssignThrough` and `Call` are
the statements the analyzer accepts. Some accepted conversions are unsound; `Flaws`
names them by the two types and the branch that lets them through, and the history
variable `flaws`, which no guard reads, holds those a program has used:

| Flaw | What is accepted | Where |
|---|---|---|
| `number` | `byte^` to `int^` (as wide or wider, whole or with fraction); an element of an array or slice, or the place behind a reference, as any number its values convert to | PrimitiveType.cpp:54, SA 6508, 6525, 6541, 6627, 4820 |
| `pointer` | `A^^` to `B^^`, `byte^^` to `byte!^^`, references to such pointers | PointerType.cpp:41 |
| `nullable` | `byte!^?` to `byte^` | NullableType.cpp:34 |
| `decay` | an array of readonly elements to a writable pointer | SA 6627-6632 |
| `reference` | an `int&` to a readonly variable | Type.cpp:66, SA 4820 |
| `constant` | an `int&` to a constant; the name, `.ptr` or a range of a constant array | SA 4138, 5061, 5312 |

`PointeesConform`: without the first two, what a variable points to is of a type that
the view describes. `ReadonlyKept`: without the last five, no view to protected memory
is writable. All six are met in the run, in programs that mix them with the sound ones;
that nothing else goes wrong is what the properties say. Each speaks of the states up
to which the program has used none of its flaws.

Left out: the values of numbers and objects, function, tuple, union, generic, enum and
rectangular types, template and variadic functions, results, and mangled names.

### Scopes (with MCScopes, ScopesProofs)

The analyzer and the generator both find out what a name denotes, each for itself.
`scopes` is the analyzer's table (SymbolTable.cpp), in which a block's scope begins
with copies of its parent's variables and the fields of the base class; `namedValues`
is the generator's one map per function, which blocks never restore, foreach and match
erase from and catch restores; `globals` and `fields` are its fallbacks
(CG 4281-4353). `lexical` follows the same program by the language's rules. `deferred`
holds the expressions that are analyzed where they stand and generated where they run;
`emitted` compares the two for those just generated.

With `Hiding = FALSE` programs may use a name again in a sibling block, a parameter or
outermost local may hide a global or a field of its class, a catch may hide anything
but fields of a base, a foreach or arm what is outside of the function. Hiding beyond
that is where the passes fail: run `shadowing` and section 5.

Left out: lambdas, static fields, symbols of functions and classes, namespaces, whether
a variable is a reference.

## 4. Runs

Passing runs:

| Run | Bounds | What it shows |
|---|---|---|
| `cleanup_promise` | 2 sites, depth 4, counter 2, emitter "namespace", features `Structured` | functions of blocks, loops, tries, all jumps that stay inside a try, and forward goto keep the promise of ScopedCleanup; handlers are restored; cleanups end |
| `cleanup_unwinding` | 1 site, depth 3, counter 2, emitter "member", all features | whatever the function does, counters are exact and no exception leaves a frame with a cleanup armed |
| `modules` | all import graphs of a program and three modules with at most two imports each (14641); 6912 choices of declarations for a program, a module and its submodule; 512 for three modules whose link names meet | each unit once, children before a single importer, link names distinct, a module sees its own types first unless they are hidden, ambiguous short names refused, and the refinement of LinkedProgram with termination |
| `late_variables` | nesting depth 3 | the analyzer tracks `x` in its scope, misses no uninitialised use and raises no false alarm within the stated classes (3.2 million states) |
| `basic_blocks` | 2 functions, depth 3, 4 statements | blocks are well formed and keep the paths of the source |
| `classes` | 3 classes in 8 inheritance graphs, 2 methods, 2 interfaces | a call, delete or catch through any static type reaches what the object's class provides; fields keep their place |
| `parsing` | trees of 3 constructs (declarations 2), 2 tokens of 20 in 20 places, up to 5 characters of four sets | trees read back as themselves, reading ends (but for `__line__` in three kinds of body), tokens are longest and leave nothing out |
| `conversions` | 4 families, 3 declarations | but for the named flaws, accepted statements keep views on memory of their type and readonly memory readonly |
| `scopes` | 2 names, 4 declarations, depth 3, 1 defer, 2 functions | both passes find the innermost declaration, also for what a block deferred |

Why the bounds are enough. Two sites give every order of a registration and a run
(both kinds, same block or nested), depth 4 a block in a try in a loop in a block,
counter 2 a registration on top of one that has not run. One site suffices for the
unwinding properties, which speak of each site by itself. Three modules give rings, diamonds, repeated and
nested imports; a name clash needs two declarations. In LateVariables depth 3 is the
function and two statements, so that each join meets each other kind of statement as
its part, any number of statements long; there is no bound on length. In BasicBlocks
four statements in two functions give every pair of nested constructs with a jump.
Three classes give a middle of a chain, where overriding and adding meet, and two
siblings; two interfaces one that extends the other. Three constructs give every
operator an operand on each side with operators of its own. Three declarations give a
chain of two conversions and a write through its end. Two names give a name that is
taken again beside one that is not; four declarations a global, a parameter, and two
locals or a loop's.

Runs that show a disagreement between the code and a document:

| Run | What the documents say | What the code does |
|---|---|---|
| `stale_handler` | goto may leave a try (Goto语句设计.md:132) | break, continue and goto out of a try leave its jmp_buf installed; a later throw jumps into a dead frame |
| `continue_in_for` | the update runs after every iteration (语言语句规范.md:346) | continue branches to the condition |
| `shadowing` | an inner scope may hide a variable of an outer one (语言语句规范.md:655) | the copy of the outer variable comes first in the block's scope (SymbolTable.cpp:36), so the analyzer goes on using the outer one |

## 5. Disagreements

These configurations are not part of the runs; each ends in a counterexample of the
one property it names:

| Configuration, property | What the documents say | What the code does |
|---|---|---|
| `try_body_defer_late.cfg`, NoOrphan | a defer runs also when an exception leaves its block (语言语句规范.md:561) | an exception of a callee enters the catch past the cleanups of the try body, which run when the function ends |
| `import_cycle.cfg`, CyclesRejected | cyclic imports are forbidden (模块系统规范.md:254) | a module leaves `loadingModules_` before its own imports are loaded (ML 107), so no cycle is found and all are linked; theorem `CycleNeverReported`: the exception is never thrown |
| `module_own_names.cfg`, OwnNamesFirst | a module's unqualified name is its own first (语法速查:377) | variables and functions are looked up globally first (SA 4281) |
| `late_in_loop.cfg`, AcceptedIsSafe | an assignment in a loop proves nothing behind it (choose/012:175) | it counts, though the loop may run zero times |
| `label_ends_function.cfg`, VerifierAccepts | functions may end in a label (Goto语句设计.md:115) | the implicit return is only written when the last block of the *list* is open, so the label's block may stay without terminator |
| `conditional.cfg`, ConditionalsReadBack | `return a > b ? a : b;` (README.md:232) | "?" after an operand is taken as the operator that passes null on (Parser.cpp:2957) |
| `nullable_pointers.cfg`, ReadonlyAlwaysKept | the address of an `int!` may not reach an `int^` (PointerTest.cpp:178) | it may by way of `int!^?`, whose conversion does not compare readonly (NullableType.cpp:34) |
| `deferred_names.cfg`, DefersAgree | a defer runs in its block's context (语言语句规范.md:561) | its names are resolved where it is generated: after `defer use(x); var x ...; return` it is the local x, and a variable of a loop or an arm is unknown in the code of a return or of the frame |

Met while modelling, without a configuration:

*Cleanup.* `generateFunctionBody` does not collect label depths: goto out of a block
skips its cleanups (语法速查:348), and a backward goto over the registrations a, b runs
b, b, a, a at the end. Extension methods have no frame: an exception of a callee passes
their defers. A defer that always throws inside the frame loops. A `return` in a
destructor skips the field and base destructors behind it (CG 2959-3030).

*Late variables.* `previousOutParams` (SA 986) is saved after the function's parameters
were added, so `currentOutParams_` never shrinks (`OwnOutParameters`). A try and its
falling-through catches are joined by *or* (SA 3420; choose/012:168 asks for *and*);
match arms are analyzed in sequence. A late variable inside the scope of another of
that name shares its flag. A return inside a loop, or a try whose catches all return,
is not a definite return. The update of a for is analyzed before the body (SA 3158):
`for(; c; i = x) { x = 1; }` is rejected though `x` is always written first, and an
assignment in the update counts for the body. A late variable of a for-init
(Parser.cpp:3998) stays tracked behind the loop until the statement around it ends,
because `analyzeForStmt` takes no snapshot: uses of another `x` there are rejected if
the loop left it unset. Only calls of functions look at reference arguments (SA 4508,
4435): a method, a constructor or a struct initialiser may be given `&x` of an
uninitialised `x` (SA 4570, 4683, 4954), and when it has an out parameter there, `x`
stays uninitialised for the analyzer and later uses of it are rejected. `HandOver`,
`FillByMethod`, `BeginFor` and `EndFor` have these cases; the properties say where they
exclude them.

*Modules.* Children come first only along single imports (`DependenciesFirst`);
qualifiers of imports inside modules are not registered (`QualifiersKnown`, SA 73); an
alias hides a type of the program (`ProgramTypesFirst`, ML 378). Functions, interfaces,
enums and aliases are not in `seen` (ML 311): a function `x` of `a.b` and a class `b__x`
of `a` are both linked as `a__b__x`, and since `a.b` is registered first, its function
hides the class in `a` (SA 6018, 6225; SymbolTable.cpp:44).

*Blocks and driver.* Labels are not cleared between functions: goto may branch into an
earlier one. Errors of the generator are only printed; the exit code stays 0 when
linking or emitting the object file fails.

*Classes.* Methods of base interfaces need not be implemented and leave a null slot;
their defaults are not copied. A base declared after its class gives a layout without
the base's fields and no call of its constructor or destructor. `class A : A` passes
`checkCircularInheritance`, and `hasMethod` then never ends. Fields that are arrays are
destroyed in ascending order (CG 2985; 语法速查:328 says reverse). Several bases are
accepted and only the first is laid out. An unmarked redeclaration in a middle class
turns calls through it static (语法速查:390). A class value without a constructor gets
no table pointer.

*Parsing* (what `Writable` excludes, and more). Misread: a parenthesis on the right of
"<"; an else after an open if; a variable whose type begins with "(" (元组规范.md:46)
or, in a declaration, with func, and methods of such types; suffixes on function types;
statements that begin with "("; `n {x = x}`; "&" below "=="; tuples of other than basic
types; `is` and ranges beside other operators; arrays and match guards that begin or
end in a bare name. `__line__` in the body of a struct, an interface or an extension
loops forever (Parser.cpp:1681, 1412, 1771; a class body passes over it, 1353). Lambda bodies need `{ {`. `|`, `~`
and `**` are lexed and never read as operators. `A<B<C>>` ends in a shift. Errors in a
speculation are swallowed and the text read again, exponentially. A concept's `where`
and body, and the body of `requires () {...}`, are skipped. A generic type keeps only
the first part of a path. An unclosed quote gives a token without a value, and lines
inside strings are not counted.

*Types.* `T?` becomes `T` unchecked, and null fits plain pointers (内存管理规范.md:190).
Pointers to numbers follow their widths (`byte^` to `int^`), as do slices (`byte[]` to
`float[]`) and pointers of pointers (`A^^`, `byte^^` to `byte!^^`); the comment at
SA 6572 that forbids it is behind the return. An array of readonly elements decays to
a writable pointer (SA 6627-6632). An `int&` binds readonly variables, constants and
variables of another width; the name, `.ptr` and slices of constant arrays are
writable, as is `s[0]` through `T![]` (类型系统规范.md:195). `Flaws` of Conversions names
these.

*Scopes.* Besides `shadowing`: after an inner block the generator keeps the inner
variable, also of a hidden global; foreach and match erase an outer local of their
name; a field of a base hides a parameter inside a nested loop body; of a field and a
global of one name the analyzer takes the field and the generator the global; a name
once a reference and later a pointer is read through; `generateLambdaExpr` clears
`namedValues_` and leaves the builder in the lambda (CG 6789-6839).

## 6. Proofs

TLAPS checks the following for every value of the constants.

`FunctionCleanupProofs` assumes only the constants' named assumptions.
`TypeCorrect` rests on `TInv`: types, the body's block is the outermost scope, and a
jump being cleaned up has a scope to continue in (`JobHasTarget`; without it the
`SubSeq` that closes scopes could be of any length). `HandlerCorrect` and
`NoWildJumps` hold when no jump leaves a try (`"jump_out_of_try" \notin Features`)
and rest on `HInv`: every try remembers the handler the scopes around it leave
installed (`SavedHandlers`), jumps close no try (`JumpClosesNoTry`), and the
handler during a cleanup and while an exception is under way is what its target
expects (`HandlerInCleanup`, `HandlerInUnwind`). `HandlerIsInnermost` alone is not
inductive: it says nothing of a cleanup in progress. The condition is needed: run
`stale_handler` shows the property violated without it.

Its second part is about lost cleanups. `CountersExact` and `FramesLoseNone` hold of
all functions. `CountsAreExact` is inductive together with the types (`EInv`). The
second adds that in a function with a frame the caller's handler is installed again only
by a return or when all counters are 0 (`CallersHandlerLast`, with `TriesSaveInner`: no
try remembers it), and that the frame cleans from 0 to N (`FrameCleansAll`): `FInv`. `BlocksLoseNone`, `ActivationsLoseNone` and the
refinement `PromiseKept` are about the functions of `PlainFunctions`: no feature but
forward goto, and that only where label depths are collected. The other
features (cleanups that throw, an exception of a callee that enters a try, jumps out of
a try and so on) are where the promise fails; section 5 has cases. Their `CInv`
says that markers grow inwards (`MarksInOrder`), that each registration belongs to one
open block and lies before what is open inside of it (`Owned`), that registrations are
in the order of the text (`InTextOrder`), and that a cleanup in progress reaches from
the last registration down to the first block that is left (`JobCleansEnough`). The
last conjunct is the point: the code computes the range of a cleanup from markers, once,
before it runs.

`ModuleLoadingProofs` assumes what `ModuleLoading` assumes of its constants, so it
covers any number of modules and any imports, with rings. `LInv` (types; no unit has
two activations, is queued twice or queued when it was appended: `UnitsOnce`,
`QueuedOnce`) gives `TypeCorrect` and `EachAppendedOnce`. `KInv` adds that what is
loaded is queued, active or appended (`Kept`), that the imports of an appended unit are
loaded (`ImportsLoaded`) and that only what the program reaches is (`OnlyReached`):
this gives the refinement `LinksWhatIsReached` of `LinkedProgram`, without its
fairness. `PInv` remembers for every module a parent (`ParentsFollow`) and gives
`ChildPrecedesParent`. `LinkNamesDiffer`, `OwnTypesWin` and `AmbiguousHasNoMeaning` are
about names in the result; `OwnTypesWin` needs that of two declarations one is
registered first (`OneIsFirst`) and none before itself (`NeverBeforeItself`), which
rests on `EachAppendedOnce`. Proving the last one showed that its property had been too
strong: a short name that two modules declare may still be the link name of a
declaration (`b__x`), which is then found first. The graph of the run had no such names;
the property now says so and the sources `Meeting` contain them. `CycleNeverReported`
turns the counterexample of `import_cycle.cfg` into a statement about all imports.

`LateVariablesProofs`: `TypeCorrect`, and `StructuredSafety` from the inductive
`SInv`. It says that while no join was too kind, *every* flag in sight, of the place,
of a snapshot and of a finished part, speaks for all paths it stands for
(`StaysSet`, `EndsRight`), that what `statementDefinitelyReturns` calls ended has no
paths left (`Holds`, `Under`), and that an out parameter is tracked in all of its
function (`Tracks`). Every join is then a case analysis on flags, with the paths of
the parts known to be right. `JoinsAreRight` is `Spec => []SInv`.

`LateAlarmsProofs`: `ScopesTracked` from `DInv`, which says of every open handler that
what it restores is what its outside had (`EnteredRight`), and `NoFalseAlarms` from
`AInv`. Only a for that declares `x` in its init may be entered with `x` tracked and
declare it all the same (`EnteredIn`); where it ends, the statement around takes the
mark over (`leaks`). False alarms need the dual of `SInv`: an unset flag has a path with `x`
uninitialised, in the place and in every part that a join will use (`Speaks`,
`PartsSpeak`), a part that has not returned has paths where its statement had
(`AroundAlive`), and parts only ever lose paths (`PartsRight`). `SInv` is not used:
the two directions of the approximation are independent.

`BasicBlocksProofs` assumes `BoundsAssumption` only. Both theorems rest on `WInv`. Its
first part, `TInv`, is types: what a handler remembers are blocks that exist, and the
function's handler is the first of the stack, which is why `break` finds a loop of this
function. Its second part, `InBody`, is about a function in progress that was not
careless. Every open handler waits for blocks of its own (`Awaits`, `Apart`,
`HandlersApart`); what is waited for, by a handler or by a goto, is empty and open, and
any other block of the function has one terminator or is the insert point (`Sound`).
`WellFormed` says nothing of a function in progress, so it is far from inductive:
it follows because at the function's end no handler is left to wait. A handler's
step is a row of builder calls (`New`, `Place`, `End`, `EndOpen`), each with a lemma on
what it does to the set of waiting blocks; then there is one lemma for how the stack
may begin, change or end a part, and one per action that joins the two. Typed
code, which careless functions have too, and sound code are treated together: `Sure(s)`
tells them apart.

`BlockPathsProofs` goes on to `PathsAreKept`. `Reached` is computed by steps, as many as
there are blocks; `ReachedGot` shows, by a count of the blocks found (`IteratesFill`),
that this is the least set `Got` with the first block and whatever its blocks lead to.
A new branch may change a least set in any way, but not here: a terminator of a reached
block adds its successors and no more (`EndWalk`), because what it adds is a block that
is waited for, which leads nowhere (`WaitsQuiet`), or has been reached before. `PInv`
adds two parts to `WInv`, which keep this true.
- `Kept`: of every block that an open handler remembers it says whether it is reached,
  by the handler's notes on the source (`Led`): `after` if an execution has got to the
  end of a part or past a `break`, a loop's head if one entered the loop, and so on;
  and that the label's block is reached if an execution has got to the label or a goto.
- `SInv`, of the source alone: in a loop that no execution enters none gets anywhere,
  so that the branches back to its head come from blocks that are not reached
  (`DeadLoops`). This is where it matters that no goto enters a loop from outside: a
  loop that stands behind such a goto remembers it, and so does every handler inside of
  it (`GotosSeen`).

The attempt showed that the property had been false. In
`if (x) { return; L: ; ... } else { goto L }` the statements behind the label are generated
while nothing leads there, and a later goto makes them live. The code that is generated
is right, but the model's `live` had been decided by then; the run's bounds were one
statement too small to see it. `revived` now marks such functions, `PathsKept` says
nothing of them from that goto on, and the proof needs it in one place: `GotoPaths`.

`ScopesProofs` assumes a finite set of names and natural bounds. `TypeCorrect` rests on
`TInv`, which adds to the types that the scopes of the open constructs fill the tables
one after the other (`ScopesOfConstructs`): with it the scopes that `Close` takes away
are those its construct brought. The other three theorems hold for programs in which no
block hides a variable of its function (`~Hiding`); run `shadowing` shows that the
condition is needed. Each invariant extends the one before:
- `FInv` (`InnermostFound`) says of every scope of the analyzer's, not of the last only,
  that what it has is what the language finds there, that a base class's field is seen
  in all scopes of a method, and that no scope of a body has a global variable or a field
  of the own class, which is why a local that hides one is the first of its name
  (`Level`).
- `NInv` (`MapAgrees`) says of every open construct what its end will need: a name it
  binds is, around it, what foreach or match leave it to or what the catch remembers,
  and a name it does not bind and that is something around it is not declared in it
  (`GivenBack`).
- `DInv` (`DefersRun`) says of every open construct that the names of what is deferred
  in it, and not in a block that has ended, are still what they were then, at the
  construct's own end (`Runnable`). It does not hold of a function's outermost block,
  whose variables may come after the defer statement: section 5, `DefersAgree`.

The proofs use lemmas about sequences (a prefix, a pushed frame, a changed last frame)
because the provers know little of `SubSeq` and `Append` by themselves, and
`ScopesProofs` some about lookups: `From` is a lookup in the first scopes of a table,
and the lemmas say which scopes it depends on.

`ClassLayoutProofs` assumes what `ClassLayout` assumes of its constants: any number of
classes, any inheritance graphs, interfaces and members. The prover's library states
induction with an operator as parameter, which its provers cannot instantiate. Here
what holds is put into a set of numbers, and a nonempty set of numbers has a least
element (`LeastNumber`, from the library's well-founded sets); `Induction` and
`ClassInduction` follow. (`BlockPathsProofs` does the same.) The argument has three parts.
- Lines. The recursive function in `Line` is unfolded once (`LineUnfolds`); under a
  relation that falls, a line is the class and then the line of its base
  (`LineOfPart`, `LineOrder`), so `Nearest`, `Owner` and `Destructors` pass from a class
  to its base (`NearestUnfolds`, `OwnerIsNearest`).
- `Inv`. `Rows` says of every row of the tables, in every state, that it is what the
  generator makes of the row of its base: later classes never touch it. `Analysis`
  and `Heirs` say the same of the analyzer's bases, destructors and default methods.
  `Acyclic` says that no base that was registered leads back to its class. It is the
  one part that cannot assume that bases come first, and is what `Typed` needs:
  `NoNewCycle` shows that a class which is not in the line of its base closes no ring.
- Complete programs. From `Inv` alone, by induction over the classes: the slots of a
  line are one numbering, below the number of members counted so far (`SlotsRight`,
  `Counted`), the body in a slot is the nearest one (`BodiesRight`, `InterfacesRight`),
  a class above which some class has a destructor has one (`DestructorsRun`).

None of the four properties is inductive, or says anything, before the program is
complete; they hold because every row is a function of the one of its base.

Only model-checked: liveness (`CleanupEnds`, `Halts`, the termination in
`LinkedProgram`), which is beyond the prover under fairness; and the other properties of
Parsing and Conversions. These two modules use
RECURSIVE operators over trees of any depth, and the prover loses its arithmetic in
such modules.

## 7. Not modelled

Generics: an instance is made once per mangled name and analyzed on the spot, so what
could be modelled is a cache whose key is text and a substitution in copied trees.
Coroutines have no resumption in the generator yet. AST, clone, diagnostics,
LLVMIRGenerator and the standard library translate or format without keeping state
between calls; expressions are instruction selection, but for names (Scopes) and
dispatch (ClassLayout). Statement checks are flags set and tested in one walk: they are
guards of BasicBlocks and FunctionCleanup. The driver is a straight line of stages. The
old `codegen/CodeGenerator` is dead. `PROJECT.json` gives the reason for each, and
"Left out" in section 3 what is missing of the parts that are modelled.

## 8. Running

    tlc -workers 2 -config cleanup_promise.cfg MCFunctionCleanup.tla
    tlc -workers 2 -config modules.cfg MCModuleLoading.tla
    tlc -workers 2 -config late_variables.cfg LateVariables.tla
    tlc -workers 2 -config basic_blocks.cfg BasicBlocks.tla
    tlc -workers 2 -config classes.cfg MCClassLayout.tla
    tlc -workers 2 -config parsing.cfg MCParsing.tla
    tlc -workers 2 -config conversions.cfg MCConversions.tla
    tlc -workers 2 -config scopes.cfg MCScopes.tla
    tlapm FunctionCleanupProofs.tla
    tlapm ModuleLoadingProofs.tla
    tlapm LateVariablesProofs.tla
    tlapm LateAlarmsProofs.tla
    tlapm ScopesProofs.tla
    tlapm BasicBlocksProofs.tla
    tlapm BlockPathsProofs.tla
    tlapm ClassLayoutProofs.tla

Operators named as mutants in a comment are plausible slips in the definition they
stand before; each property has one that breaks it.
