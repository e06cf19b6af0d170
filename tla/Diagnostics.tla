----------------------------- MODULE Diagnostics -----------------------------
(* What a guest said, in the shape every caller reads (compile/esbuild.go:   *)
(* 399-483, compile/tsgo.go:186-253, compile/engine.go:106-129): files named *)
(* as the project names them, columns in UTF-16 units, and the end of what   *)
(* went to stderr.  A text is a sequence of what it is made of.              *)
EXTENDS Names, Integers, FiniteSets

CONSTANTS
    Root,       \* the segments of the project's root
    Loadable,   \* the base names whose extension has a loader
    Bound       \* what sink keeps (4096 in the code)

ASSUME BoundAssumption == Bound \in Nat \ {0}

-----------------------------------------------------------------------------
(* units.  A line is the widths of its runes, one to four bytes; in UTF-16   *)
(* one of four bytes is two units.                                           *)

\* The bytes of the first n runes of a line.
Bytes(line) ==
    LET bytes[n \in 0 .. Len(line)] == IF n = 0 THEN 0 ELSE bytes[n - 1] + line[n]
    IN bytes

\* What a rune of that width counts where so many bytes are left of a prefix.  Go
\* ranges over the runes of the prefix; of one that is cut, each byte is one.
Counts(width, left) ==
    CASE left <= 0    -> 0
      [] left \in 1 .. width - 1 -> left
      [] OTHER        -> IF width = 4 THEN 2 ELSE 1

Units(line, offset) ==
    LET at == IF offset < 0 THEN 0 ELSE offset
        n[r \in 0 .. Len(line)] ==
            IF r = 0 THEN 1 ELSE n[r - 1] + Counts(line[r], at - Bytes(line)[r - 1])
    IN IF at > Bytes(line)[Len(line)] THEN at + 1 ELSE n[Len(line)]

-----------------------------------------------------------------------------
(* parseTSC.  A line of tsc's output has a position, or a severity alone, or *)
(* is neither; a message is the texts it is made of, the first with its      *)
(* severity and its code, and `quoted` the paths it quotes.  line and col    *)
(* are 0 for a diagnostic without a position.                                *)

Located(file, line, col, text) ==
    [kind |-> "located", file |-> file, line |-> line, col |-> col,
     quoted |-> <<>>, text |-> text]
Bare(quoted, text) ==
    [kind |-> "bare", file |-> Empty, line |-> 0, col |-> 0,
     quoted |-> quoted, text |-> text]
More(text) == [Bare(<<>>, text) EXCEPT !.kind = "more"]
Blank      == [kind |-> "blank"]

\* A quoted value names a file if it is source: a flag or a package is not.
IsSource(name) == name # Refused /\ Last(name) \in Loadable
Named(quoted) ==
    LET sources == {i \in DOMAIN quoted : IsSource(Rel(quoted[i], Root))}
    IN IF sources = {} THEN Refused
       ELSE Rel(quoted[CHOOSE i \in sources : \A j \in sources : i <= j], Root)

Diagnostic(file, l) ==
    [file |-> file, line |-> l.line, col |-> l.col, text |-> <<l.text>>]

\* The message a line belongs to is the last one read.
Continued(d, l) == [d EXCEPT !.text = Append(@, l.text)]

ParseLine_Dropping(diags, l) ==
    CASE l.kind = "located" -> Append(diags, Diagnostic(Rel(l.file, Root), l))
      [] l.kind = "bare"    -> Append(diags, Diagnostic(Named(l.quoted), l))
      [] OTHER              -> diags
ParseLine(diags, l) ==
    CASE l.kind = "located" -> Append(diags, Diagnostic(Rel(l.file, Root), l))
      [] l.kind = "bare"    -> Append(diags, Diagnostic(Named(l.quoted), l))
      [] l.kind = "more" /\ diags # <<>> ->
            Append(Front(diags), Continued(Last(diags), l))
      [] OTHER -> diags

ParseTSC(lines) ==
    LET diags[n \in 0 .. Len(lines)] ==
            IF n = 0 THEN <<>> ELSE ParseLine(diags[n - 1], lines[n])
    IN diags[Len(lines)]

-----------------------------------------------------------------------------
(* artifact: what esbuild wrote, and its errors before its warnings.         *)

\* A message and its notes, but for the notes that say nothing.
WithNote_Dropped(text, note) == text
WithNote(text, note) == IF note = "" THEN text ELSE Append(text, note)
WithNotes(m) ==
    LET text[n \in 0 .. Len(m.notes)] ==
            IF n = 0 THEN <<m.text>> ELSE WithNote(text[n - 1], m.notes[n])
    IN text[Len(m.notes)]

\* esbuild's column counts bytes from 0.
Message(m, severity) ==
    [file |-> IF m.located THEN Rel(m.file, Root) ELSE Refused,
     line |-> IF m.located THEN m.line ELSE 0,
     col  |-> IF m.located THEN Units(m.runes, m.column) ELSE 0,
     severity |-> severity, code |-> m.code, text |-> WithNotes(m)]
Messages(ms, severity) == [i \in DOMAIN ms |-> Message(ms[i], severity)]

Escaped(outputs) == \E i \in DOMAIN outputs : Rel(outputs[i], Root) = Refused
Artifact(resp) ==
    IF Escaped(resp.outputs) THEN [ok |-> FALSE, files |-> <<>>, diagnostics |-> <<>>]
    ELSE [ok |-> TRUE,
          files |-> [i \in DOMAIN resp.outputs |-> Rel(resp.outputs[i], Root)],
          diagnostics |-> Messages(resp.errors, "error") \o Messages(resp.warnings, "warning")]

-----------------------------------------------------------------------------
(* sink.                                                                     *)

Keep(s, n) == SubSeq(s, IF Len(s) > n THEN Len(s) - n + 1 ELSE 1, Len(s))
Write(kept, p) == Keep(kept \o p, Bound)

\* What is left of what a guest said in so many writes.
Kept(writes) ==
    LET kept[n \in 0 .. Len(writes)] ==
            IF n = 0 THEN <<>> ELSE Write(kept[n - 1], writes[n])
    IN kept[Len(writes)]
=============================================================================
