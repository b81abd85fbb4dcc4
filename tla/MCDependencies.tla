--------------------------- MODULE MCDependencies ---------------------------
(***************************************************************************)
(* Four addresses, two of them with modules of the same name.              *)
(***************************************************************************)
EXTENDS Dependencies

MCNames == [m1 |-> "base", m2 |-> "left", m3 |-> "right", m4 |-> "left"]

Graph(a, b, c, d) == [m1 |-> a, m2 |-> b, m3 |-> c, m4 |-> d]

\* A diamond, a chain, imports that repeat, a cycle, a module that imports
\* itself, and a cycle that hangs on modules that could be published.
MCGraphs ==
    {Graph(<<>>, <<"m1">>, <<"m1">>, <<"m2", "m3">>),
     Graph(<<>>, <<"m1">>, <<"m2">>, <<"m3", "m1">>),
     Graph(<<>>, <<"m1", "m1">>, <<"m1", "m2">>, <<"m3", "m3">>),
     Graph(<<"m2">>, <<"m1">>, <<>>, <<"m3", "m1">>),
     Graph(<<>>, <<"m2">>, <<"m1">>, <<"m3">>),
     Graph(<<>>, <<"m1", "m3">>, <<"m4">>, <<"m2">>)}

Use(a) == [name |-> MCNames[a], addr |-> a]

MCUseLists ==
    {<<>>, <<Use("m4")>>, <<Use("m3"), Use("m2")>>, <<Use("m1"), Use("m1")>>, <<Use("m2"), Use("m4")>>,
     <<[name |-> "left", addr |-> "m1"]>>, <<Use("m1"), Use("m2"), Use("m3")>>}
=============================================================================
