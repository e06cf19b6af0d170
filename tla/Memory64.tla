------------------------------ MODULE Memory64 ------------------------------
(* The probe for 64-bit memories (memory64.go).  It reads the headers of all *)
(* sections, and of the imports and the memories as much as it takes to come *)
(* to each limit's flags.  A binary is a sequence of bytes.  A definition    *)
(* named <Definition>_<Bug> is a mutant and is used by nothing.              *)
EXTENDS Integers, Sequences

CONSTANT Far    \* numbers from 128 * Far on (2^64 in the code) are one: no binary is as long

ASSUME FarAssumption == Far \in Nat \ {0}

Magic == <<0, 97, 115, 109, 1, 0, 0, 0>>

\* What reading a thing at `pos` gives: it, and where it ends.
Read(value, pos) == [ok |-> TRUE, value |-> value, pos |-> pos]
Bad             == [ok |-> FALSE, value |-> 0, pos |-> 0]

-----------------------------------------------------------------------------
(* The readers.  pos is the index of the next byte, in TLA+ from 1.          *)

\* Seven bits of each byte, those of the last the highest.
Value(bytes) ==
    LET n[k \in 0 .. Len(bytes)] ==
            CASE k = 0 -> 0
              [] k > 0 /\ n[k - 1] >= Far -> 128 * Far
              [] OTHER -> 128 * n[k - 1] + (bytes[Len(bytes) - k + 1] % 128)
    IN n[Len(bytes)]

\* The bytes that follow the first of a number: those up to one below 128.
Ends(b, pos) == {i \in 0 .. 9 : /\ pos + i <= Len(b) /\ b[pos + i] < 128
                                /\ \A j \in 0 .. i - 1 : b[pos + j] >= 128}

\* readULEB: at most ten bytes, of the tenth one bit.
ReadULEB(b, pos) ==
    IF \E i \in Ends(b, pos) : i < 9 \/ b[pos + i] <= 1
    THEN LET end == pos + CHOOSE i \in Ends(b, pos) : TRUE
         IN Read(Value(SubSeq(b, pos, end)), end + 1)
    ELSE Bad

SkipULEB(b, at) == IF at.ok THEN ReadULEB(b, at.pos) ELSE Bad
SkipByte(b, at) ==
    IF at.ok /\ at.pos <= Len(b) THEN Read(b[at.pos], at.pos + 1) ELSE Bad

\* skipName.
SkipName(b, at) ==
    LET n == SkipULEB(b, at)
    IN IF n.ok /\ n.value <= Len(b) - n.pos + 1 THEN Read(0, n.pos + n.value)
       ELSE Bad

\* memoryLimits: whether the flags say 64 bits; a maximum follows if they say so.
Bit(flags, n) == (flags \div n) % 2 = 1
Limits(b, at) ==
    LET flags == SkipULEB(b, at)
        min   == IF flags.ok /\ flags.value <= 7 THEN SkipULEB(b, flags) ELSE Bad
        end   == IF min.ok /\ Bit(flags.value, 1) THEN SkipULEB(b, min) ELSE min
    IN IF end.ok THEN Read(Bit(flags.value, 4), end.pos) ELSE Bad

\* The tag of what a step found: go on after it, or the answer.
Answer(is) == [done |-> TRUE, is |-> is, at |-> Bad]
Go(at)     == IF at.ok THEN [done |-> FALSE, is |-> FALSE, at |-> at] ELSE Answer(FALSE)
Memory(at) == IF at.ok /\ at.value THEN Answer(TRUE) ELSE Go(at)

MemoryItem(b, at) == Memory(Limits(b, at))

\* importsMemory64: a table has the limits of a memory, and its flag is its own.
Table_AsMemory(b, at) == Memory(Limits(b, SkipByte(b, at)))
Table(b, at) == Go(Limits(b, SkipByte(b, at)))
Import(b, at) ==
    LET kind == SkipByte(b, SkipName(b, SkipName(b, at)))
    IN CASE ~kind.ok -> Answer(FALSE)
         [] kind.ok /\ kind.value = 0 -> Go(SkipULEB(b, kind))
         [] kind.ok /\ kind.value = 1 -> Table(b, kind)
         [] kind.ok /\ kind.value = 2 -> Memory(Limits(b, kind))
         [] kind.ok /\ kind.value = 3 -> Go(SkipByte(b, SkipByte(b, kind)))
         [] kind.ok /\ kind.value = 4 -> Go(SkipULEB(b, SkipULEB(b, kind)))
         [] OTHER -> Answer(FALSE)

\* What a section holds a vector of, one item after another until one answers.
Item(id, b, at) == IF id = 2 THEN Import(b, at) ELSE MemoryItem(b, at)
Vector(id, b) ==
    LET n == ReadULEB(b, 1)
        step[k \in 0 .. n.value] ==
            IF k = 0 THEN Go(n)
            ELSE LET last == step[k - 1]
                 IN IF last.done THEN last ELSE Item(id, b, last.at)
    IN n.ok /\ n.value <= Len(b) /\ step[n.value].is

\* A section, and on to the next; after the last there is none.
Section(b, at) ==
    LET size == ReadULEB(b, at.pos + 1)
        end  == size.pos + size.value
    IN IF at.pos <= Len(b) /\ size.ok /\ size.value <= Len(b) - size.pos + 1
       THEN IF b[at.pos] \in {2, 5} /\ Vector(b[at.pos], SubSeq(b, size.pos, end - 1))
            THEN Answer(TRUE) ELSE Go(Read(0, end))
       ELSE Answer(FALSE)

\* usesMemory64: a binary has fewer sections than bytes.
UsesMemory64(b) ==
    LET step[k \in 0 .. Len(b)] ==
            IF k = 0 THEN Go(Read(0, Len(Magic) + 1))
            ELSE LET last == step[k - 1]
                 IN IF last.done THEN last ELSE Section(b, last.at)
    IN Len(b) >= 8 /\ SubSeq(b, 1, 8) = Magic /\ step[Len(b)].is
=============================================================================
