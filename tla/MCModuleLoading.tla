---------------------------- MODULE MCModuleLoading ----------------------------
(***************************************************************************)
(* ModuleLoading for TLC: all import graphs of a program and three modules *)
(* with one function each, and a few graphs of a program, a module and its *)
(* submodule with all kinds of declarations.                               *)
(***************************************************************************)
EXTENDS ModuleLoading, TLC

CONSTANTS a, b, c

\* b is a submodule of a, so names declared in a may collide with its own, and
\* what c declares may have a link name that a or b declares.
PathOf == (a :> <<"a">>) @@ (b :> <<"a", "b">>) @@ (c :> <<"b">>)

\* At most two imports; an import may be repeated.
ImportLists == {<< >>, <<a, a>>} \cup {<<m>> : m \in Modules}
                  \cup ({<<m, n>> : m, n \in Modules} \ {<<b, b>>, <<c, c>>})

Decl(kind, name) == [kind |-> kind, name |-> name]

Graphs ==
    {[imports |-> g, decls |-> [u \in Unit |-> <<Decl(Function, <<"f">>)>>]]
        : g \in [Unit -> ImportLists]}

\* One declaration of each kind, names that collide when they are prefixed,
\* a second main, and two declarations with one name.
DeclLists ==
    {<<Decl(k, <<"x">>)>> : k \in DeclKind}
    \cup {<<Decl(k, <<"b", "x">>)>> : k \in {Function, "class"}}
    \cup {<<Decl(Function, MainName)>>,
          <<Decl("class", <<"x">>), Decl("class", <<"x">>)>>,
          <<Decl("variable", <<"x">>), Decl("enum", <<"x">>)>>}

Names ==
    {[imports |-> (Program :> p) @@ (a :> q) @@ (b :> << >>) @@ (c :> << >>),
      decls |-> d @@ (c :> << >>)]
        : p \in {<<a>>, <<a, b>>}, q \in {<< >>, <<b>>},
          d \in [{Program, a, b} -> DeclLists]}

\* Three modules whose names meet, and a program without declarations.
Meeting ==
    {[imports |-> (Program :> <<a, c>>) @@ (a :> <<b>>) @@ (b :> << >>) @@ (c :> << >>),
      decls |-> (Program :> << >>) @@ d]
        : d \in [Modules ->
                  {<<Decl(k, n)>> : k \in {Function, "class", "variable", "enum"},
                                    n \in {<<"x">>, <<"b", "x">>}}]}

GraphsAndNames == Graphs \cup Names \cup Meeting
=============================================================================
