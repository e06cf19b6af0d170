------------------------------- MODULE MCTree -------------------------------
(* Tree on a small project, for TLC.                                         *)
EXTENDS Tree

A      == <<"a.ts">>
Lib    == <<"lib">>
X      == <<"lib", "x.ts">>
Link   == <<"link.ts">>
Conf   == <<"tsconfig.json">>

Files(names, bytes) == [n \in names |-> bytes]
Map(files) == [files |-> files, links |-> <<>>, extra |-> <<>>]
Links(path) == [n \in {Link} |-> At(path)]
Lists(name, entries) == [n \in {name} |-> entries]

Plain  == Map(Files({A, X}, "one"))
Rich   == Map(Files({A, X, Conf}, "one"))
Gone   == Map(<<>>)
\* A name that is a file and a directory.
Both   == Map(Files({A, Lib, X}, "one"))
\* The directory has become a file.
Flat   == Map(Files({A, Lib}, "one"))
\* link.ts is another name of a.ts, then of lib/x.ts, which holds something else.
Alias  == [Plain EXCEPT !.links = Links(Unrooted(A)),
                        !.extra = Lists(<<>>, {Link})]
Moved  == [files |-> Files({X}, "two"), links |-> Links(Unrooted(X)),
           extra |-> Lists(<<>>, {Link})]
\* It leaves the project, a file fails to read, and a listing has what it
\* should not.
Astray == [files |-> Files({X}, "fails"),
           links |-> Links(Unrooted(<<"..", "a.ts">>)),
           extra |-> Lists(<<>>, {Link, <<"..">>, <<"lib", "x.ts">>, <<"">>})]
Outside == [Astray EXCEPT !.links = Links(Rooted(A))]

AllHosts == {Plain, Rich, Gone, Both, Flat, Alias, Moved, Astray, Outside}
AllAsked == {<<>>, A, Lib, X, Link, Conf, <<"..", "a.ts">>, <<"lib", ".", "x.ts">>}
AllSizes == {0, 1, 2}
Sorted == <<"", ".", "..", "a.ts", "lib", "link.ts", "tsconfig.json", "x.ts">>
Ranks  == [s \in Range(Sorted) |-> CHOOSE i \in DOMAIN Sorted : Sorted[i] = s]
=============================================================================
