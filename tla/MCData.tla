------------------------------- MODULE MCData -------------------------------
(* The pure parts over what a small project's guests may say, for TLC, and   *)
(* packets.                                                                  *)
EXTENDS Told, Wire

UpTo(S, n) == UNION {[1 .. k -> S] : k \in 0 .. n}

-----------------------------------------------------------------------------
(* What is said of a build.                                                  *)

Project == <<"project">>
Sources == {"a.ts", "b.ts"}

ATs == <<"a.ts">>
BTs == <<"lib", "b.ts">>
AFlag   == Unrooted(<<"flag">>)
Inside  == {Rooted(Project \o ATs), Rooted(Project \o <<"lib", "..">> \o BTs)}
Strays  == {Rooted(<<"etc", "a.ts">>), Rooted(Project), Rooted(<<"project2", "a.ts">>),
            Rooted(Project \o <<"..", "a.ts">>)}
Climbs  == {Unrooted(<<"..", "a.ts">>), Empty}

Quoted  == UpTo(1 .. 4, 3)

Texts   == {<<"said">>, <<"said", "more">>}
Places  == {<<3, 7>>, <<0, 0>>}
Spelt   == {<<name, path>> : name \in {ATs}, path \in Spellings(ATs)}
           \cup {<<BTs, Rooted(Project \o BTs)>>}
           \cup ({Refused} \X (Strays \cup Climbs))
Report1 == {[d |-> [file |-> s[1], line |-> p[1], col |-> p[2], text |-> t],
             spelt |-> s[2]] : s \in Spelt, p \in Places, t \in Texts}
Printouts == UpTo(Report1, 2)

\* Columns at which a rune begins.
Says    == [located : BOOLEAN, line : {2}, column : {0, 5, 7},
            file : {Rooted(Project \o BTs), Rooted(<<"etc", "a.ts">>)},
            runes : {<<>>, <<1, 4, 2>>}, code : {"id"}, text : {"said"},
            notes : {<<>>, <<"", "more", "", "again">>}]
Answers == [outputs : UpTo(Inside \cup Strays, 2), errors : UpTo(Says, 1),
            warnings : UpTo({s \in Says : s.runes = <<>> /\ s.column = 5}, 1)]

Pairs   == Nat \X Nat
Chunks  == {[i \in DOMAIN lengths |-> [j \in 1 .. lengths[i] |-> <<i, j>>]] :
               lengths \in UpTo(0 .. 2 * Bound - 1, 3)}

-----------------------------------------------------------------------------
(* Binaries.  A custom section may read as a memory of 64 bits.              *)

Imported == {[kind |-> k, name |-> <<109>>, flags |-> f, min |-> 2, max |-> 100] :
                k \in {"table", "memory"}, f \in {1, 4}}
            \cup {[kind |-> k, name |-> <<>>, flags |-> 0, min |-> 4, max |-> 0] :
                     k \in {"func", "global", "tag"}}
Memories == {<<>>} \cup {<<[kind |-> "memory", name |-> <<>>, flags |-> f,
                            min |-> 1, max |-> IF f = 3 THEN 300 ELSE 70]>> :
                               f \in {0, 4, 3, 5}}
Custom   == [id |-> 0, items |-> <<>>, bytes |-> <<5, 3, 1, 4, 1>>]
Part(id, items) ==
    IF items = <<>> THEN <<>> ELSE <<[id |-> id, items |-> items, bytes |-> <<>>]>>
Binaries ==
    {m \in [parts : {c \o Part(2, i) \o Part(5, d) :
                         c \in {<<>>, <<Custom>>}, i \in UpTo(Imported, 2), d \in Memories},
            pad : {1, 2}] : FitsAll(m)}
    \cup [parts : {Part(2, i) \o Part(5, d) : i \in UpTo(Imported, 1), d \in Memories},
          pad : {10, 11}]

-----------------------------------------------------------------------------
(* Packets.                                                                  *)

Keys    == {<<>>, <<1>>, <<1, 0>>}
Scalars == {Nil, Bool(TRUE), Bool(FALSE), Str(<<>>), Str(<<0, 3>>), Raw(<<>>),
            Raw(<<5, 1, 6>>)}
           \cup {Int_(n) : n \in {0, 1, Word - 1, Word, -1, -Word - 1}}
Trees   == {Arr(a) : a \in UpTo({Nil, Int_(-1), Str(<<2>>)}, 2)}
           \cup {Map([k \in ks |-> v]) : ks \in SUBSET Keys,
                                         v \in {Int_(1), Arr(<<Bool(TRUE)>>)}}
Deep    == {Arr(<<Map([k \in ks |-> Arr(<<Int_(Word + 1)>>)]), Nil>>) :
               ks \in SUBSET {<<1>>, <<2>>}}
Packets(values) ==
    [id : {0, 1, Word \div 2 - 1, Word \div 2}, isRequest : BOOLEAN, value : values]
WireInputs ==
    [kind : {"wire"}, p : Packets(Scalars \cup Trees \cup Deep),
     q : {[id |-> 1, isRequest |-> TRUE, value |-> Nil],
          [id |-> 7, isRequest |-> FALSE, value |-> Map([k \in {<<1>>} |-> Int_(2)])]}]

Send     == said = Silence /\ said' \in WireInputs
DataNext == Next \/ Send
DataSpec == Init /\ [][DataNext]_said

\* Packets written are read back one by one as they were, but for the bits an
\* integer or an id has no room for, and a stream cut anywhere gives the whole
\* ones and no other (stdio.go:23-155, 203-219).
WireAgrees == said.kind = "wire" => Agrees(said.p, said.q) /\ Refuses(said.p)
=============================================================================
