-------------------------------- MODULE Wire --------------------------------
(* esbuild's packets (compile/stdio.go:23-155, 197-219): a value is a small  *)
(* tagged tree, a packet an id and a value, a stream packets behind their    *)
(* lengths.  A byte is a number below Base and a word Width bytes; in the    *)
(* code they are 256 and 4.  A definition named <Definition>_<Bug> is a      *)
(* mutant of that definition and is used by nothing here.                    *)
EXTENDS Integers, Sequences, SequencesExt

CONSTANTS Base, Width
ASSUME SizesAssumption == Base \in Nat /\ Base > 6 /\ Width \in Nat \ {0}

Word == Base ^ Width

Nil     == [kind |-> "nil"]
Bool(b) == [kind |-> "bool", b |-> b]
Int_(n) == [kind |-> "int", n |-> n]
Str(s)  == [kind |-> "string", s |-> s]
Raw(s)  == [kind |-> "bytes", s |-> s]
Arr(a)  == [kind |-> "array", a |-> a]
Map(m)  == [kind |-> "map", m |-> m]

-----------------------------------------------------------------------------
(* encode.                                                                   *)

\* putU32: the lowest Width digits, the least first, of any integer.
PutWord(n) == [i \in 1 .. Width |-> ((n % Word) \div Base ^ (i - 1)) % Base]
Counted(s) == PutWord(Len(s)) \o s

\* sort.Strings.
Before(s, t) ==
    \/ IsStrictPrefix(s, t)
    \/ \E i \in DOMAIN s \cap DOMAIN t :
          s[i] < t[i] /\ \A j \in 1 .. i - 1 : s[j] = t[j]

RECURSIVE Visit(_)
Visit(v) ==
    CASE v.kind = "nil"    -> <<0>>
      [] v.kind = "bool"   -> <<1, IF v.b THEN 1 ELSE 0>>
      [] v.kind = "int"    -> <<2>> \o PutWord(v.n)
      [] v.kind = "string" -> <<3>> \o Counted(v.s)
      [] v.kind = "bytes"  -> <<4>> \o Counted(v.s)
      [] v.kind = "array"  ->
            <<5>> \o PutWord(Len(v.a)) \o
            FlattenSeq([i \in DOMAIN v.a |-> Visit(v.a[i])])
      [] v.kind = "map"    ->
            LET keys == SetToSortSeq(DOMAIN v.m, Before)
            IN <<6>> \o PutWord(Len(keys)) \o
               FlattenSeq([i \in DOMAIN keys |->
                              Counted(keys[i]) \o Visit(v.m[keys[i]])])

Encode(p) ==
    Counted(PutWord(2 * p.id + IF p.isRequest THEN 0 ELSE 1) \o Visit(p.value))

-----------------------------------------------------------------------------
(* decode.  A reader gives the one thing it read and what is left, or, of a  *)
(* packet that ends too early or has a kind there is not, nothing: it        *)
(* panics, and decode recovers and says that the packet is malformed.  A     *)
(* buffer has the size of its packet: slicing past its end panics too.       *)

Got(value, rest) == [value |-> value, rest |-> rest]
Malformed        == {}

Number(digits) == FoldRight(LAMBDA d, n : d + Base * n, digits, 0)
TakeWord(b) ==
    IF Len(b) < Width THEN Malformed
    ELSE {Got(Number(SubSeq(b, 1, Width)), SubSeq(b, Width + 1, Len(b)))}

Cut(w, n) == Got(SubSeq(w.rest, 1, n), SubSeq(w.rest, n + 1, Len(w.rest)))
TakeCounted_Clamped(b) ==
    {Cut(w, IF w.value < Len(w.rest) THEN w.value ELSE Len(w.rest)) : w \in TakeWord(b)}
TakeCounted(b) ==
    {Cut(w, w.value) : w \in {w \in TakeWord(b) : w.value <= Len(w.rest)}}

\* One item of an array, or of a map behind its key, and the first n of them.
RECURSIVE TakeValue(_)
TakeItem(b, keyed) ==
    LET keys == IF keyed THEN TakeCounted(b) ELSE {Got(<<>>, b)}
    IN UNION {{Got([key |-> k.value, value |-> v.value], v.rest) :
                  v \in TakeValue(k.rest)} : k \in keys}
TakeItems(n, b, keyed) ==
    FoldLeft(LAMBDA sofar, i :
                UNION {{Got(Append(s.value, t.value), t.rest) :
                           t \in TakeItem(s.rest, keyed)} : s \in sofar},
             {Got(<<>>, b)}, [i \in 1 .. n |-> i])
TakeAll(b, keyed) == UNION {TakeItems(w.value, w.rest, keyed) : w \in TakeWord(b)}

Values(items) == [i \in DOMAIN items |-> items[i].value]
\* A key that comes twice keeps the later value.
Mapped(items) ==
    [k \in {items[i].key : i \in DOMAIN items} |->
        items[CHOOSE i \in DOMAIN items :
                  /\ items[i].key = k
                  /\ \A j \in DOMAIN items : items[j].key = k => j <= i].value]

TakeValue(b) ==
    IF b = <<>> THEN Malformed
    ELSE CASE b[1] = 0 -> {Got(Nil, Tail(b))}
           [] b[1] = 1 -> IF Len(b) < 2 THEN Malformed
                          ELSE {Got(Bool(b[2] # 0), Tail(Tail(b)))}
           [] b[1] = 2 -> {Got(Int_(w.value), w.rest) : w \in TakeWord(Tail(b))}
           [] b[1] = 3 -> {Got(Str(t.value), t.rest) : t \in TakeCounted(Tail(b))}
           [] b[1] = 4 -> {Got(Raw(t.value), t.rest) : t \in TakeCounted(Tail(b))}
           [] b[1] = 5 -> {Got(Arr(Values(t.value)), t.rest) : t \in TakeAll(Tail(b), FALSE)}
           [] b[1] = 6 -> {Got(Map(Mapped(t.value)), t.rest) : t \in TakeAll(Tail(b), TRUE)}
           [] OTHER    -> Malformed

Decode(b) ==
    UNION {{[id |-> raw.value \div 2, isRequest |-> raw.value % 2 = 0,
             value |-> v.value] : v \in TakeValue(raw.rest)} : raw \in TakeWord(b)}

\* serve, until its stream ends: the packets, and how it ended.  io.ReadFull that
\* reads no byte at all says "eof", which a stream that ends behind a header is told
\* as well as one that ends behind a packet.
RECURSIVE Serve(_)
Serve(b) ==
    LET read == TakeCounted(b)
        got  == UNION {Decode(r.value) : r \in read}
        end(how) == [packets |-> <<>>, end |-> how]
        later(s) == [s EXCEPT !.packets = SetToSeq(got) \o @]
    IN CASE Len(b) = 0 -> end("eof")
         [] read = {} -> end(IF Len(b) = Width THEN "eof" ELSE "cut")
         [] read # {} /\ got = {} -> end("malformed")
         [] OTHER -> later(Serve((CHOOSE r \in read : TRUE).rest))

-----------------------------------------------------------------------------
(* What reading gives back: an integer in a word, an id in a word less a     *)
(* bit.  The bits above are lost, the sign among them.                       *)

RECURSIVE Narrow(_)
Narrow(v) ==
    CASE v.kind = "int"   -> Int_(v.n % Word)
      [] v.kind = "array" -> Arr([i \in DOMAIN v.a |-> Narrow(v.a[i])])
      [] v.kind = "map"   -> Map([k \in DOMAIN v.m |-> Narrow(v.m[k])])
      [] OTHER            -> v

Sent(p) == [id |-> p.id % (Word \div 2), isRequest |-> p.isRequest,
            value |-> Narrow(p.value)]

\* Two packets written one after the other are read back as they are, and a
\* stream that is cut anywhere gives the packets that were whole, and no other.
\* A cut is told from a clean end, but where it falls between a packet's length and
\* its body: that is answered "eof" too (stdio.go:23-155, 203-219).
Agrees(p, q) ==
    LET stream == Encode(p) \o Encode(q)
        first  == Len(Encode(p))
        whole(n) == IF n = Len(stream) THEN <<Sent(p), Sent(q)>>
                    ELSE IF n >= first THEN <<Sent(p)>> ELSE <<>>
    IN \A n \in 0 .. Len(stream) :
          Serve(SubSeq(stream, 1, n)) =
              [packets |-> whole(n),
               end |-> IF n \in {0, Width, first, first + Width, Len(stream)}
                       THEN "eof" ELSE "cut"]

\* A packet cut within its body, under a length that says so, is malformed: it
\* is never read as another value (stdio.go:97-104).
Refuses(p) ==
    LET body == SubSeq(Encode(p), Width + 1, Len(Encode(p)))
    IN \A n \in 0 .. Len(body) - 1 : Decode(SubSeq(body, 1, n)) = Malformed
=============================================================================
