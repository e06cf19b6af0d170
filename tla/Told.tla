-------------------------------- MODULE Told --------------------------------
(* What a caller is told of a build and of a binary: every place a guest     *)
(* named, every message it printed, the end of what it said (compile/        *)
(* esbuild.go:399-483, tsgo.go:186-253, engine.go:106-129), and whether it   *)
(* needs a memory of 64 bits (memory64.go).  A state is something said, and  *)
(* the invariants relate it to what comes out.                               *)
EXTENDS Diagnostics, Memory64

CONSTANTS
    Lines,      \* the lines esbuild quotes, as the widths of their runes
    Reports,    \* what tsc printed: sequences of [d, spelt] records
    Flag,       \* what a message may quote before a file: it is no source
    Responses,  \* what esbuild answered: [outputs, errors, warnings] records
    Octets,     \* what a write is made of
    Writes,     \* what a guest wrote to its stderr, write by write
    Modules     \* binaries, as the sections they are made of

VARIABLE said

-----------------------------------------------------------------------------
(* What a guest may say.                                                     *)

\* A file is printed relative to the root, under it, or with it as first segments
\* by a guest whose working directory is / (compile.go:102-108).  A path that is
\* none of these is outside, and has no name in the project.
Spellings(name) ==
    {Unrooted(name), Rooted(Root \o name), Unrooted(Root \o name)}
Outside(p) ==
    IF p.rooted THEN ~IsStrictPrefix(Root, Clean(p).segs) ELSE ~ValidName(Clean(p).segs)

\* A diagnostic as tsc spells its file: one without a position names a source
\* file, for a quoted value that is none is taken for a flag.
IsReport(d, spelt) ==
    /\ d.text # <<>>
    /\ d.line = 0 => d.col = 0
    /\ IF d.file = Refused THEN Outside(spelt)
       ELSE /\ ValidName(d.file)
            /\ spelt \in Spellings(d.file)
            /\ spelt = Unrooted(d.file) => ~IsStrictPrefix(Root, d.file)
            /\ d.line = 0 => Last(d.file) \in Loadable

ASSUME RootAssumption == Root \in Seq(STRING) /\ ValidName(Root)
ASSUME FlagAssumption ==
    /\ Flag \in [rooted : BOOLEAN, segs : Seq(STRING)]
    /\ ~IsSource(Rel(Flag, Root))
ASSUME LinesAssumption == Lines \subseteq Seq(1 .. 4)
ASSUME ReportsAssumption ==
    \A reports \in Reports :
        /\ reports \in Seq([d : [file : Seq(STRING), line : Nat, col : Nat,
                                 text : Seq(STRING)],
                            spelt : [rooted : BOOLEAN, segs : Seq(STRING)]])
        /\ \A i \in DOMAIN reports : IsReport(reports[i].d, reports[i].spelt)
ASSUME ResponsesAssumption ==
    \A resp \in Responses :
        /\ resp.outputs \in Seq([rooted : {TRUE}, segs : Seq(STRING)])
        /\ \A ms \in {resp.errors, resp.warnings} :
              ms \in Seq([located : BOOLEAN, line : Nat \ {0}, column : Nat,
                          file : [rooted : {TRUE}, segs : Seq(STRING)],
                          runes : Seq(1 .. 4), code : STRING, text : STRING,
                          notes : Seq(STRING)])
ASSUME WritesAssumption == Writes \subseteq Seq(Seq(Octets))

-----------------------------------------------------------------------------
(* A binary, written from what it declares.  Each number in it takes `pad`   *)
(* bytes, as a toolchain writes one that it patches later.                   *)

\* An import or a memory: its limits' flags are those of a table or a memory.
Kinds == {"func", "table", "memory", "global", "tag"}
Items == [kind : Kinds, name : Seq(0 .. 255), flags : 0 .. 7, min : Nat, max : Nat]
Parts == [id : 0 .. 255, items : Seq(Items), bytes : Seq(0 .. 255)]

\* What is left of a number behind its first seven bits, 14 and so on.
Left(n, pad) ==
    LET rest[i \in 0 .. pad - 1] == IF i = 0 THEN n ELSE rest[i - 1] \div 128
    IN rest
Padded(n, pad) ==
    [i \in 1 .. pad |-> (Left(n, pad)[i - 1] % 128) + IF i < pad THEN 128 ELSE 0]

LimitsOf(i, pad) ==
    Padded(i.flags, pad) \o Padded(i.min, pad)
        \o IF Bit(i.flags, 1) THEN Padded(i.max, pad) ELSE <<>>
NameOf(i, pad)   == Padded(Len(i.name), pad) \o i.name
ImportedOf(i, pad) ==
    CASE i.kind = "func"   -> <<0>> \o Padded(i.min, pad)
      [] i.kind = "table"  -> <<1, 112>> \o LimitsOf(i, pad)
      [] i.kind = "memory" -> <<2>> \o LimitsOf(i, pad)
      [] i.kind = "global" -> <<3, 127, 0>>
      [] i.kind = "tag"    -> <<4>> \o Padded(0, pad) \o Padded(i.min, pad)
ImportOf(i, pad) ==
    NameOf(i, pad) \o NameOf(i, pad) \o ImportedOf(i, pad)

\* A section that the probe does not look into has any bytes.
ItemOf(id, i, pad) == IF id = 2 THEN ImportOf(i, pad) ELSE LimitsOf(i, pad)
BodyOf(part, pad) ==
    IF part.id \in {2, 5}
    THEN Padded(Len(part.items), pad)
             \o FlattenSeq([k \in DOMAIN part.items |-> ItemOf(part.id, part.items[k], pad)])
    ELSE part.bytes
SectionOf(part, pad) == <<part.id>> \o Padded(Len(BodyOf(part, pad)), pad) \o BodyOf(part, pad)
Binary(m) == Magic \o FlattenSeq([k \in DOMAIN m.parts |-> SectionOf(m.parts[k], m.pad)])

\* A number that can be written so, if its tenth byte has one bit to give.
Fits(n, pad) ==
    n < 128 * Far /\ (pad <= 10 => Left(n, pad)[pad - 1] <= IF pad = 10 THEN 1 ELSE 127)
FitsAll(m) ==
    \A k \in DOMAIN m.parts :
        LET part == m.parts[k]
        IN /\ Fits(Len(BodyOf(part, m.pad)), m.pad) /\ Fits(Len(part.items), m.pad)
           /\ \A j \in DOMAIN part.items :
                 \A n \in {Len(part.items[j].name), part.items[j].flags,
                          part.items[j].min, part.items[j].max} : Fits(n, m.pad)

ASSUME ModulesAssumption ==
    \A m \in Modules :
        m \in [parts : Seq(Parts), pad : Nat \ {0}] /\ FitsAll(m)

-----------------------------------------------------------------------------
Silence == [kind |-> "none"]
Init    == said = Silence
Quote   == said = Silence /\ said' \in [kind : {"line"}, runes : Lines]
Report  == said = Silence /\ said' \in [kind : {"tsc"}, reports : Reports]
Respond == said = Silence /\ said' \in [kind : {"esbuild"}, resp : Responses]
Say     == said = Silence /\ said' \in [kind : {"stderr"}, writes : Writes]
Compile == said = Silence /\ said' \in [kind : {"binary"}, m : Modules]
Done    == said # Silence /\ said' = Silence
Next    == Quote \/ Report \/ Respond \/ Say \/ Compile \/ Done
Spec    == Init /\ [][Next]_said

-----------------------------------------------------------------------------
(* What comes out.                                                           *)

\* The column a compiler reports for rune r, in UTF-16 units from 1.
Column(line, r) == r + Cardinality({q \in 1 .. r - 1 : line[q] = 4})

\* The column of the byte a rune begins at is the one a compiler reports, in a line
\* of any runes; without the line esbuild's own number is kept
\* (compile.go:143-144, esbuild.go:460-483).
ColumnsAgree(line) ==
    /\ \A r \in 1 .. Len(line) + 1 :
          /\ Units(line, Bytes(line)[r - 1]) = Column(line, r)
          /\ Units(<<>>, Bytes(line)[r - 1]) = Bytes(line)[r - 1] + 1
    /\ Units(line, -1) = 1

\* What tsc prints of a diagnostic: its line, the chain of its message and an
\* empty line; a message may quote a flag before its file.
Printed(r) ==
    <<IF r.d.line > 0 THEN Located(r.spelt, r.d.line, r.d.col, r.d.text[1])
      ELSE Bare(<<Flag, r.spelt>>, r.d.text[1])>>
    \o [i \in 1 .. Len(r.d.text) - 1 |-> More(r.d.text[i + 1])]
    \o <<Blank>>

\* What tsc printed is read back: as many diagnostics, in their order, each with
\* its position and its whole message, and with its file however it is spelt; a
\* file outside the project is not taken for another (tsgo.go:195-235).
ReadsBack(reports) ==
    ParseTSC(FlattenSeq([i \in DOMAIN reports |-> Printed(reports[i])]))
        = [i \in DOMAIN reports |-> reports[i].d]

\* What esbuild said in m stands in d: its line, the column of the byte it points
\* at, its file if that is in the project, its text and, in their order, all of its
\* notes that say something; nothing is said of a message that has no place.
Spoken(notes, n) == Cardinality({k \in 1 .. n : notes[k] # ""})
Placed(d, m) ==
    /\ d.line = IF m.located THEN m.line ELSE 0
    /\ ~m.located => d.col = 0
    /\ m.located => \A r \in 1 .. Len(m.runes) + 1 :
                       m.column = Bytes(m.runes)[r - 1] => d.col = Column(m.runes, r)
    /\ m.located /\ m.runes = <<>> => d.col = m.column + 1
    /\ d.file # Refused <=> m.located /\ IsStrictPrefix(Root, Clean(m.file).segs)
    /\ d.file # Refused => Full(d.file, Root) = Clean(m.file)
Worded(d, m) ==
    /\ d.code = m.code
    /\ Len(d.text) = 1 + Spoken(m.notes, Len(m.notes))
    /\ d.text[1] = m.text
    /\ \A k \in 1 .. Len(m.notes) :
          m.notes[k] # "" => d.text[1 + Spoken(m.notes, k)] = m.notes[k]

\* An artifact's files are the places esbuild wrote to, or there is no artifact;
\* a message keeps its place, its position and its wording, errors first.  What
\* esbuild says here is rooted (esbuild.go:399-458).
ArtifactKept(resp) ==
    LET art == Artifact(resp)
        ms  == resp.errors \o resp.warnings
    IN /\ art.ok <=> \A i \in DOMAIN resp.outputs :
                        IsStrictPrefix(Root, Clean(resp.outputs[i]).segs)
       /\ art.ok =>
            /\ Len(art.files) = Len(resp.outputs)
            /\ \A i \in DOMAIN art.files :
                  Full(art.files[i], Root) = Clean(resp.outputs[i])
            /\ Len(art.diagnostics) = Len(ms)
            /\ \A i \in DOMAIN ms :
                  LET d == art.diagnostics[i]
                  IN /\ Placed(d, ms[i])
                     /\ Worded(d, ms[i])
                     /\ d.severity = IF i <= Len(resp.errors) THEN "error" ELSE "warning"

\* However the guest cuts what it says into writes, what survives is the end of
\* it (engine.go:106-129).
EndIsKept(writes) == Kept(writes) = Keep(FlattenSeq(writes), Bound)

\* Every diagnostic comes out at the file, line and column it was reported at,
\* with its whole message and in its order, whichever guest reported it and
\* however it spelt the file; nothing outside is named; and the end of what a
\* guest said survives (esbuild.go:399-483, tsgo.go:186-253, engine.go:106-129).
\* A column of esbuild's is one where a rune begins, or of a line it did not quote.
ToldAsItWas ==
    /\ said.kind = "line" => ColumnsAgree(said.runes)
    /\ said.kind = "tsc" => ReadsBack(said.reports)
    /\ said.kind = "esbuild" => ArtifactKept(said.resp)
    /\ said.kind = "stderr" => EndIsKept(said.writes)

-----------------------------------------------------------------------------
\* Whether a module declares a memory of 64 bits.
Declares64(m) ==
    \E k \in DOMAIN m.parts :
        LET part == m.parts[k]
        IN \/ part.id = 2 /\ \E j \in DOMAIN part.items :
                               part.items[j].kind = "memory" /\ Bit(part.items[j].flags, 4)
           \/ part.id = 5 /\ \E j \in DOMAIN part.items : Bit(part.items[j].flags, 4)

\* The probe finds what a module declares, whatever stands before it, and of a
\* module that is cut it never says more (memory64.go:21-26).  A number in eleven
\* bytes is no number.
Finds(m) ==
    /\ UsesMemory64(Binary(m)) <=> m.pad <= 10 /\ Declares64(m)
    /\ \A n \in 0 .. Len(Binary(m)) - 1 :
          UsesMemory64(SubSeq(Binary(m), 1, n)) => UsesMemory64(Binary(m))

\* A module is refused if and only if it declares a memory of 64 bits, whatever
\* stands before the declaration, and never because it was cut
\* (memory64.go:21-26, 80-82).
ProbeFinds == said.kind = "binary" => Finds(said.m)
=============================================================================
