----------------------------- MODULE MCClassLayout -----------------------------
(* ClassLayout for three classes, two methods and two interfaces.                  *)
EXTENDS ClassLayout

Plain(m) == [name |-> m, kind |-> "plain"]
Virtual(m) == [name |-> m, kind |-> "virtual"]

\* Six forests of three classes with bases first, a base that comes after its class,
\* and three classes that extend each other.
MCShapes ==
  {<<0, 0, 0>>, <<0, 1, 0>>, <<0, 0, 1>>, <<0, 0, 2>>, <<0, 1, 1>>, <<0, 1, 2>>,
   <<2, 0, 1>>, <<2, 3, 1>>}

MCMethods ==
  {<<>>, <<Plain("m")>>, <<Virtual("m")>>, <<Virtual("n"), Plain("m")>>,
   <<Virtual("n"), Virtual("m")>>}

MCDeclarations ==
  [methods : MCMethods, interfaces : {{}, {2}}, destructor : {"none", "virtual"}]
    \cup {[methods |-> <<>>, interfaces |-> {1}, destructor |-> "plain"]}

MCInterfaces == {1, 2}
\* The second interface extends the first.
MCExtends == <<{}, {1}>>
MCMembers == <<<<"m">>, <<"n">>>>
MCDefaults == {"n"}
================================================================================
