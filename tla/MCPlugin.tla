------------------------------ MODULE MCPlugin ------------------------------
(* Plugin on small projects, for TLC.                                        *)
EXTENDS Plugin

Project == <<"project">>
Slash   == <<>>

A     == <<"a.ts">>
B     == <<"b.ts">>
Lib   == <<"lib", "index.ts">>
Notes == <<"notes.md">>
Inner == <<"project", "a.ts">>

Itself(names) == [n \in names |-> At(Unrooted(n))]

\* b.ts is a name for a.ts, a file of its own, a name that leaves the project,
\* or gone; one host has no aliases at all.
Aliased == [Itself({A, B, Lib, Notes}) EXCEPT ![B] = At(Unrooted(A))]
Plain   == [n \in {A, B, Notes} |-> NoAnswer]
Astray  == [Itself({A, B, Lib}) EXCEPT ![B] = At(Unrooted(<<"..", "a.ts">>))]
Served  == {Aliased, Plain, Astray}

\* A project with a directory named as its root is.
Nested  == {Itself({A, Inner})}

Asks ==
    {Unrooted(<<".", "b">>),            Unrooted(<<"..", "a">>),
     Unrooted(<<"lib">>),               Unrooted(<<"..", "..", "b.ts">>),
     Rooted(<<"project", "..", "b">>),  Rooted(<<"notes.md">>),
     Unrooted(<<"notes.md">>)}
InnerAsks == {Unrooted(<<".", "project", "a">>)}

Entry     == {Unrooted(A)}
FromLib   == {Full(Lib, Project)}
InLib     == {Rooted(<<"project", "lib">>)}
NoOne     == {}
Strays    == {Full(A, Project), Rooted(<<"notes.md">>)}
Loaders   == {"a.ts", "b.ts", "index.ts"}
=============================================================================
