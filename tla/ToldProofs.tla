----------------------------- MODULE ToldProofs -----------------------------
(* What a guest said comes out as it was, of every text, place and cut: the  *)
(* folds of parseTSC, units and sink are followed step by step, and what rel *)
(* makes of a path is NamesProofs'.  The probe reads back what a binary is   *)
(* written from, wherever that stands in it.                                 *)
EXTENDS Told, NamesProofs, FiniteSetTheorems

-----------------------------------------------------------------------------
(* Sequences.                                                                *)

LEMMA LastFacts ==
    ASSUME NEW S, NEW s \in Seq(S), s # <<>>
    PROVE  Front(s) \in Seq(S) /\ Last(s) \in S
  BY DEF Front, Last

LEMMA FrontAppend ==
    ASSUME NEW S, NEW s \in Seq(S), NEW e \in S
    PROVE  Append(s, e) # <<>> /\ Front(Append(s, e)) = s /\ Last(Append(s, e)) = e
  BY DEF Front, Last

LEMMA NothingBehind ==
    ASSUME NEW S, NEW s \in Seq(S), NEW t \in Seq(S)
    PROVE  /\ s \o <<>> = s /\ <<>> \o t = t /\ <<>> \in Seq(S) /\ SubSeq(t, 1, 0) = <<>>
           /\ s \o t \in Seq(S)
  OBVIOUS

LEMMA EmptyTyped == \A S : <<>> \in Seq(S)
  OBVIOUS

LEMMA Elements ==
    ASSUME NEW S, NEW s \in Seq(S)
    PROVE  Len(s) \in Nat /\ DOMAIN s = 1 .. Len(s) /\ \A i \in 1 .. Len(s) : s[i] \in S
  OBVIOUS

LEMMA Single ==
    ASSUME NEW S, NEW e \in S
    PROVE  <<e>> \in Seq(S) /\ Len(<<e>>) = 1 /\ <<e>>[1] = e /\ <<e>> # <<>>
           /\ DOMAIN <<e>> = {1} /\ Last(<<e>>) = e
  BY DEF Last

LEMMA Segment ==
    ASSUME NEW seg \in STRING PROVE <<seg>> \in Segments
  <1>1. <<seg>> \in Seq(STRING)
    BY Single
  <1> QED BY <1>1 DEF Segments

LEMMA EmptySeq ==
    ASSUME NEW S, NEW s \in Seq(S), Len(s) = 0
    PROVE  s = <<>>
  OBVIOUS

LEMMA FirstOnly ==
    ASSUME NEW S, NEW s \in Seq(S), s # <<>>
    PROVE  SubSeq(s, 1, 1) = <<s[1]>>
  <1>1. Len(s) \in Nat /\ Len(s) # 0
    BY EmptySeq
  <1>2. 1 <= Len(s) /\ s[1] \in S
    BY <1>1
  <1>3. SubSeq(s, 1, 1) \in Seq(S) /\ Len(SubSeq(s, 1, 1)) = 1 /\ SubSeq(s, 1, 1)[1] = s[1]
    BY <1>2
  <1>4. <<s[1]>> \in Seq(S) /\ Len(<<s[1]>>) = 1 /\ <<s[1]>>[1] = s[1]
    BY <1>2, Single
  <1> DEFINE t == SubSeq(s, 1, 1)
             u == <<s[1]>>
  <1>5. t \in Seq(S) /\ u \in Seq(S) /\ Len(t) = Len(u)
        /\ \A i \in 1 .. Len(t) : i = 1 /\ t[1] = u[1]
    BY <1>3, <1>4
  <1> HIDE DEF t, u
  <1>6. t = u
    BY <1>5, EqualSeqs
  <1> QED BY <1>6 DEF t, u

LEMMA AppendBehind ==
    ASSUME NEW S, NEW s \in Seq(S), NEW t \in Seq(S), NEW e \in S
    PROVE  s \o Append(t, e) = Append(s \o t, e)
  <1>1. /\ s \o t \in Seq(S) /\ Append(t, e) \in Seq(S)
        /\ Len(s \o t) = Len(s) + Len(t) /\ Len(Append(t, e)) = Len(t) + 1
    OBVIOUS
  <1>2. /\ s \o Append(t, e) \in Seq(S) /\ Append(s \o t, e) \in Seq(S)
        /\ Len(s \o Append(t, e)) = Len(s) + Len(t) + 1
        /\ Len(Append(s \o t, e)) = Len(s) + Len(t) + 1
    BY <1>1
  <1>3. ASSUME NEW i \in 1 .. Len(s) + Len(t) + 1
        PROVE  (s \o Append(t, e))[i] = Append(s \o t, e)[i]
    OBVIOUS
  <1> QED BY <1>2, <1>3, EqualSeqs

\* A sequence behind another, up to one element more.
LEMMA OneMore ==
    ASSUME NEW S, NEW s \in Seq(S), NEW t \in Seq(S), NEW n \in 0 .. Len(t) - 1
    PROVE  /\ s \o SubSeq(t, 1, n) \in Seq(S)
           /\ s \o SubSeq(t, 1, n + 1) = Append(s \o SubSeq(t, 1, n), t[n + 1])
  <1>1. /\ SubSeq(t, 1, n) \in Seq(S) /\ t[n + 1] \in S
        /\ Append(SubSeq(t, 1, n), t[n + 1]) = SubSeq(t, 1, n + 1)
    OBVIOUS
  <1> QED BY <1>1, AppendBehind, NothingBehind

\* FlattenSeq puts its sequences one behind the other.
LEMMA FlattenSteps ==
    ASSUME NEW S, NEW w \in Seq(Seq(S))
    PROVE  \E f : /\ f[0] = <<>>
                  /\ \A n \in 0 .. Len(w) - 1 : f[n + 1] = f[n] \o w[n + 1]
                  /\ \A n \in 0 .. Len(w) : f[n] \in Seq(S)
                  /\ FlattenSeq(w) = f[Len(w)]
  <1> DEFINE m == Len(w)
      step == [en \in Seq(S) \X (1 .. m) |-> en[1] \o w[en[2]]]
      Is(g) == g = [i \in 1 .. m |-> IF i = 1 THEN w[i] ELSE g[i - 1] \o w[i]]
      f == CHOOSE g : Is(g)
      h == [n \in 0 .. m |-> IF n = 0 THEN <<>> ELSE f[n]]
  <1>1. m \in Nat /\ <<>> \in Seq(S) /\ \A n \in 1 .. m : w[n] \in Seq(S)
    OBVIOUS
  <1>2. \A n \in 1 .. m, e \in Seq(S) :
           step[<<e, n>>] = e \o w[n] /\ step[<<e, n>>] \in Seq(S)
    <2> SUFFICES ASSUME NEW n \in 1 .. m, NEW e \in Seq(S)
                 PROVE  step[<<e, n>>] = e \o w[n] /\ step[<<e, n>>] \in Seq(S)
      OBVIOUS
    <2>1. step[<<e, n>>] = e \o w[n]
      OBVIOUS
    <2>2. w[n] \in Seq(S)
      BY <1>1
    <2> QED BY <2>1, <2>2, NothingBehind
  <1> HIDE DEF step
  <1>3. PICK g \in [0 .. m -> Seq(S)] : Follows(g, <<>>, m, step)
    <2> HIDE DEF m, Is, f
    <2>1. Steps(Seq(S), m, step)
      BY <1>2 DEF Steps
    <2> QED BY <1>1, <2>1, Recursion
  <1>4. CASE m = 0
    <2>1. w = <<>> /\ FlattenSeq(w) = w
      <3>1. w = <<>>
        BY <1>4, EmptySeq
      <3> QED BY <1>4, <3>1 DEF FlattenSeq
    <2>2. h[0] = <<>>
      OBVIOUS
    <2> HIDE DEF h
    <2>3. \A n \in 0 .. m : h[n] \in Seq(S)
      <3>1. <<>> \in Seq(S) /\ \A n \in 0 .. m : n = 0
        BY <1>1, <1>4
      <3> HIDE DEF m
      <3> QED BY <2>2, <3>1
    <2>4. \A n \in 0 .. m - 1 : FALSE
      BY <1>4
    <2> QED BY <1>4, <2>1, <2>2, <2>3, <2>4
  <1>5. CASE m # 0
    <2>1. \E k : Is(k)
      <3> DEFINE k == [i \in 1 .. m |-> g[i]]
                 l == [i \in 1 .. m |-> IF i = 1 THEN w[i] ELSE k[i - 1] \o w[i]]
      <3>1. ASSUME NEW i \in 1 .. m PROVE k[i] = l[i]
        <4>1. i - 1 \in 0 .. m /\ g[i] = g[i - 1] \o w[i]
          <5>1. i - 1 \in 0 .. m
            BY <1>1
          <5>2. g[i - 1] \in Seq(S) /\ g[i] = step[<<g[i - 1], i>>]
            BY <1>3, <5>1 DEF Follows
          <5> QED BY <1>2, <5>1, <5>2
        <4>2. CASE i = 1
          <5>1. g[i - 1] = <<>> /\ w[i] \in Seq(S)
            BY <1>1, <1>3, <4>2 DEF Follows
          <5>2. g[i] = w[i]
            BY <4>1, <5>1, NothingBehind
          <5> QED BY <4>2, <5>2
        <4>3. CASE i # 1
          <5>1. i - 1 \in 1 .. m
            BY <1>1, <4>3
          <5> QED BY <4>1, <4>3, <5>1
        <4> QED BY <4>2, <4>3
      <3>2. k = [i \in 1 .. m |-> k[i]] /\ l = [i \in 1 .. m |-> l[i]]
        OBVIOUS
      <3> HIDE DEF k, l
      <3>3. k = l
        BY <3>1, <3>2
      <3> QED BY <3>3 DEF l
    <2>2. Is(f)
      <3> HIDE DEF Is
      <3> QED BY <2>1
    <2>3. FlattenSeq(w) = f[m]
      BY <1>1, <1>5 DEF FlattenSeq
    <2> HIDE DEF f
    <2>4. f[1] = w[1] /\ \A n \in 1 .. m - 1 : f[n + 1] = f[n] \o w[n + 1]
      <3>1. \A i \in 1 .. m : f[i] = IF i = 1 THEN w[i] ELSE f[i - 1] \o w[i]
        BY <2>2
      <3> HIDE DEF m, Is
      <3>2. 1 \in 1 .. m /\ \A n \in 1 .. m - 1 :
               n + 1 \in 1 .. m /\ n + 1 # 1 /\ (n + 1) - 1 = n
        BY <1>1, <1>5
      <3>3. f[1] = w[1]
        BY <3>1, <3>2
      <3>4. ASSUME NEW n \in 1 .. m - 1 PROVE f[n + 1] = f[n] \o w[n + 1]
        BY <3>1, <3>2
      <3> QED BY <3>3, <3>4
    <2> HIDE DEF Is
    <2>5. h[0] = <<>> /\ \A n \in 1 .. m : h[n] = f[n]
      BY <1>1
    <2> HIDE DEF h
    <2>6. \A n \in 0 .. m - 1 : h[n + 1] = h[n] \o w[n + 1]
      <3> SUFFICES ASSUME NEW n \in 0 .. m - 1 PROVE h[n + 1] = h[n] \o w[n + 1]
        OBVIOUS
      <3>1. n + 1 \in 1 .. m
        BY <1>1
      <3>2. CASE n = 0
        <4>1. h[n + 1] = w[n + 1] /\ h[n] = <<>> /\ w[n + 1] \in Seq(S)
          BY <1>1, <2>4, <2>5, <3>1, <3>2
        <4> QED BY <4>1, NothingBehind
      <3>3. CASE n # 0
        <4>1. n \in 1 .. m - 1 /\ n \in 1 .. m
          BY <1>1, <3>3
        <4> QED BY <2>4, <2>5, <3>1, <4>1
      <3> QED BY <3>2, <3>3
    <2>7. \A n \in 0 .. m : h[n] \in Seq(S)
      <3>1. ASSUME NEW n \in 0 .. m - 1, h[n] \in Seq(S) PROVE h[n + 1] \in Seq(S)
        <4>1. w[n + 1] \in Seq(S)
          <5>1. n + 1 \in 1 .. m
            BY <1>1
          <5> QED BY <1>1, <5>1
        <4>2. h[n] \o w[n + 1] \in Seq(S)
          BY <3>1, <4>1, NothingBehind
        <4> QED BY <2>6, <4>2
      <3> HIDE DEF m
      <3> QED BY <1>1, <2>5, <3>1, Throughout
    <2>8. m \in 1 .. m
      BY <1>1, <1>5
    <2> QED BY <2>3, <2>5, <2>6, <2>7, <2>8
  <1> QED BY <1>4, <1>5

LEMMA FlattenMore ==
    ASSUME NEW S, NEW w \in Seq(Seq(S)), NEW p \in Seq(S)
    PROVE  /\ FlattenSeq(w) \in Seq(S)
           /\ FlattenSeq(Append(w, p)) = FlattenSeq(w) \o p
  <1> DEFINE v == Append(w, p)
             m == Len(w)
  <1>1. /\ m \in Nat /\ v \in Seq(Seq(S)) /\ Len(v) = m + 1 /\ v[m + 1] = p
        /\ \A i \in 1 .. m : v[i] = w[i]
    OBVIOUS
  <1>2. PICK f : /\ f[0] = <<>>
                 /\ \A n \in 0 .. m - 1 : f[n + 1] = f[n] \o w[n + 1]
                 /\ \A n \in 0 .. m : f[n] \in Seq(S)
                 /\ FlattenSeq(w) = f[m]
    BY FlattenSteps
  <1> HIDE DEF v
  <1>3. PICK g : /\ g[0] = <<>>
                 /\ \A n \in 0 .. m : g[n + 1] = g[n] \o v[n + 1]
                 /\ FlattenSeq(v) = g[m + 1]
    <2>1. \E g : /\ g[0] = <<>>
                 /\ \A n \in 0 .. Len(v) - 1 : g[n + 1] = g[n] \o v[n + 1]
                 /\ FlattenSeq(v) = g[Len(v)]
      BY <1>1, FlattenSteps
    <2>2. Len(v) - 1 = m
      BY <1>1
    <2> QED BY <1>1, <2>1, <2>2
  <1> HIDE DEF m
  <1>4. \A n \in 0 .. m : f[n] = g[n]
    <2>1. ASSUME NEW n \in 0 .. m - 1, f[n] = g[n] PROVE f[n + 1] = g[n + 1]
      <3>1. n \in 0 .. m /\ n + 1 \in 1 .. m
        BY <1>1
      <3> QED BY <1>1, <1>2, <1>3, <2>1, <3>1
    <2>2. f[0] = g[0] /\ m \in Nat
      BY <1>1, <1>2, <1>3
    <2> QED BY <2>1, <2>2, Alike
  <1>5. m \in 0 .. m
    BY <1>1
  <1> QED BY <1>1, <1>2, <1>3, <1>4, <1>5 DEF v

-----------------------------------------------------------------------------
(* parseTSC.                                                                 *)

Shown    == [file : Segments, line : Nat, col : Nat, text : Segments]
TscLine == [kind : {"located", "bare", "more"}, file : Paths, line : Nat, col : Nat,
            quoted : Seq(Paths), text : STRING] \cup {Blank}

LEMMA LineTyped ==
    ASSUME NEW kind \in {"located", "bare", "more"}, NEW file \in Paths,
           NEW line \in Nat, NEW col \in Nat, NEW quoted \in Seq(Paths), NEW text \in STRING
    PROVE  [kind |-> kind, file |-> file, line |-> line, col |-> col,
            quoted |-> quoted, text |-> text] \in TscLine
  BY DEF TscLine

LEMMA RootIsRoot == Root \in Roots /\ Root # <<>> /\ Root \in Segments
  <1>1. Root \in Segments
    BY RootAssumption DEF Segments
  <1> QED BY <1>1, RootAssumption DEF ValidName, Roots, IsSegment

LEMMA RelTyped ==
    ASSUME NEW p \in Paths PROVE Rel(p, Root) \in Segments
  BY RootIsRoot, RelIsInside

LEMMA NamedTyped ==
    ASSUME NEW quoted \in Seq(Paths) PROVE Named(quoted) \in Segments
  <1> DEFINE sources == {i \in DOMAIN quoted : IsSource(Rel(quoted[i], Root))}
             first == CHOOSE i \in sources : \A j \in sources : i <= j
  <1>1. sources \in SUBSET Nat /\ \A i \in sources : quoted[i] \in Paths
    OBVIOUS
  <1>2. Refused \in Segments
    BY DEF Refused, Segments
  <1>3. Named(quoted) = IF sources = {} THEN Refused ELSE Rel(quoted[first], Root)
    BY DEF Named
  <1> HIDE DEF sources
  <1>4. CASE sources # {}
    <2>1. first \in sources
      BY <1>1, <1>4, Least
    <2> HIDE DEF first
    <2> QED BY <1>1, <1>3, <1>4, <2>1, RelTyped
  <1> QED BY <1>2, <1>3, <1>4

LEMMA ParseLineTyped ==
    ASSUME NEW diags \in Seq(Shown), NEW l \in TscLine
    PROVE  ParseLine(diags, l) \in Seq(Shown)
  <1>0. CASE l = Blank
    <2>1. l.kind \notin {"located", "bare", "more"}
      BY <1>0 DEF Blank
    <2> QED BY <2>1 DEF ParseLine
  <1> SUFFICES ASSUME l # Blank PROVE ParseLine(diags, l) \in Seq(Shown)
    BY <1>0
  <1>1. /\ l.file \in Paths /\ l.quoted \in Seq(Paths) /\ l.text \in STRING
        /\ l.line \in Nat /\ l.col \in Nat
    BY DEF TscLine
  <1>2. <<l.text>> \in Segments
    BY <1>1, Segment
  <1>3. \A file \in Segments : Diagnostic(file, l) \in Shown
    BY <1>1, <1>2 DEF Diagnostic, Shown
  <1>4. ASSUME NEW d \in Shown PROVE Continued(d, l) \in Shown
    <2>1. d.text \in Segments
      BY DEF Shown
    <2>2. Append(d.text, l.text) \in Segments
      BY <1>1, <2>1, AppendTyped DEF Segments
    <2> QED BY <2>2 DEF Continued, Shown
  <1>5. CASE l.kind = "located"
    BY <1>1, <1>3, <1>5, RelTyped DEF ParseLine
  <1>6. CASE l.kind = "bare"
    BY <1>1, <1>3, <1>6, NamedTyped DEF ParseLine
  <1>7. CASE l.kind = "more" /\ diags # <<>>
    <2>1. Front(diags) \in Seq(Shown) /\ Last(diags) \in Shown
      BY <1>7, LastFacts
    <2> QED BY <1>4, <1>7, <2>1 DEF ParseLine
  <1> QED BY <1>5, <1>6, <1>7 DEF ParseLine

\* ParseTSC is what ParseLine makes of the lines one after the other.
LEMMA ParseSteps ==
    ASSUME NEW lines \in Seq(TscLine)
    PROVE  \E diags : /\ diags[0] = <<>>
                      /\ \A n \in 0 .. Len(lines) - 1 :
                            diags[n + 1] = ParseLine(diags[n], lines[n + 1])
                      /\ \A n \in 0 .. Len(lines) : diags[n] \in Seq(Shown)
                      /\ ParseTSC(lines) = diags[Len(lines)]
  <1> DEFINE m == Len(lines)
      step == [en \in Seq(Shown) \X (1 .. m) |-> ParseLine(en[1], lines[en[2]])]
      Is(g) == g = [n \in 0 .. m |->
                       IF n = 0 THEN <<>> ELSE ParseLine(g[n - 1], lines[n])]
      f == CHOOSE g : Is(g)
  <1>1. m \in Nat /\ <<>> \in Seq(Shown) /\ \A n \in 1 .. m : lines[n] \in TscLine
    OBVIOUS
  <1>2. \A n \in 1 .. m, e \in Seq(Shown) :
           step[<<e, n>>] = ParseLine(e, lines[n]) /\ step[<<e, n>>] \in Seq(Shown)
    <2> SUFFICES ASSUME NEW n \in 1 .. m, NEW e \in Seq(Shown)
                 PROVE  /\ step[<<e, n>>] = ParseLine(e, lines[n])
                        /\ step[<<e, n>>] \in Seq(Shown)
      OBVIOUS
    <2>1. step[<<e, n>>] = ParseLine(e, lines[n])
      OBVIOUS
    <2> QED BY <1>1, <2>1, ParseLineTyped
  <1> HIDE DEF step
  <1>3. PICK g \in [0 .. m -> Seq(Shown)] : Follows(g, <<>>, m, step)
    <2> HIDE DEF m, Is, f
    <2>1. Steps(Seq(Shown), m, step)
      BY <1>2 DEF Steps
    <2> QED BY <1>1, <2>1, Recursion
  <1>4. Is(g)
    <2> DEFINE h == [n \in 0 .. m |->
                        IF n = 0 THEN <<>> ELSE ParseLine(g[n - 1], lines[n])]
    <2>1. ASSUME NEW n \in 0 .. m PROVE g[n] = h[n]
      <3>1. CASE n = 0
        BY <1>3, <3>1 DEF Follows
      <3>2. CASE n # 0
        <4>1. n \in 1 .. m /\ n - 1 \in 0 .. m
          BY <1>1, <3>2
        <4> QED BY <1>2, <1>3, <3>2, <4>1 DEF Follows
      <3> QED BY <3>1, <3>2
    <2>2. g = [n \in 0 .. m |-> g[n]] /\ h = [n \in 0 .. m |-> h[n]]
      OBVIOUS
    <2> HIDE DEF h
    <2>3. g = h
      BY <2>1, <2>2
    <2> QED BY <2>3 DEF h
  <1>5. Is(f)
    <2> HIDE DEF Is
    <2> QED BY <1>4
  <1>6. ParseTSC(lines) = f[m]
    BY DEF ParseTSC
  <1> HIDE DEF f
  <1>7. f[0] = <<>> /\ \A n \in 0 .. m - 1 : f[n + 1] = ParseLine(f[n], lines[n + 1])
    <2>1. \A n \in 0 .. m :
             f[n] = IF n = 0 THEN <<>> ELSE ParseLine(f[n - 1], lines[n])
      BY <1>5
    <2> HIDE DEF m, Is
    <2>2. 0 \in 0 .. m /\ \A n \in 0 .. m - 1 :
             n + 1 \in 0 .. m /\ n + 1 # 0 /\ (n + 1) - 1 = n
      BY <1>1
    <2>3. f[0] = <<>>
      BY <2>1, <2>2
    <2>4. ASSUME NEW n \in 0 .. m - 1 PROVE f[n + 1] = ParseLine(f[n], lines[n + 1])
      BY <2>1, <2>2
    <2> QED BY <2>3, <2>4
  <1> HIDE DEF Is
  <1>8. \A n \in 0 .. m : f[n] \in Seq(Shown)
    <2>1. ASSUME NEW n \in 0 .. m - 1, f[n] \in Seq(Shown) PROVE f[n + 1] \in Seq(Shown)
      <3>1. n + 1 \in 1 .. m
        BY <1>1
      <3>2. lines[n + 1] \in TscLine
        BY <1>1, <3>1
      <3> QED BY <1>7, <2>1, <3>2, ParseLineTyped
    <2> HIDE DEF m
    <2> QED BY <1>1, <1>7, <2>1, Throughout
  <1> QED BY <1>6, <1>7, <1>8

LEMMA ParseNothing == ParseTSC(<<>>) = <<>>
  <1>1. <<>> \in Seq(TscLine) /\ Len(<<>>) = 0
    OBVIOUS
  <1> QED BY <1>1, ParseSteps

LEMMA ParseMore ==
    ASSUME NEW lines \in Seq(TscLine), NEW l \in TscLine
    PROVE  /\ ParseTSC(lines) \in Seq(Shown)
           /\ ParseTSC(Append(lines, l)) = ParseLine(ParseTSC(lines), l)
  <1> DEFINE v == Append(lines, l)
             m == Len(lines)
  <1>1. /\ m \in Nat /\ v \in Seq(TscLine) /\ Len(v) = m + 1 /\ v[m + 1] = l
        /\ \A i \in 1 .. m : v[i] = lines[i]
    OBVIOUS
  <1>2. PICK f : /\ f[0] = <<>>
                 /\ \A n \in 0 .. m - 1 : f[n + 1] = ParseLine(f[n], lines[n + 1])
                 /\ \A n \in 0 .. m : f[n] \in Seq(Shown)
                 /\ ParseTSC(lines) = f[m]
    BY ParseSteps
  <1> HIDE DEF v
  <1>3. PICK g : /\ g[0] = <<>>
                 /\ \A n \in 0 .. m : g[n + 1] = ParseLine(g[n], v[n + 1])
                 /\ ParseTSC(v) = g[m + 1]
    <2>1. \E g : /\ g[0] = <<>>
                 /\ \A n \in 0 .. Len(v) - 1 : g[n + 1] = ParseLine(g[n], v[n + 1])
                 /\ ParseTSC(v) = g[Len(v)]
      BY <1>1, ParseSteps
    <2>2. Len(v) - 1 = m
      BY <1>1
    <2> QED BY <1>1, <2>1, <2>2
  <1> HIDE DEF m
  <1>4. \A n \in 0 .. m : f[n] = g[n]
    <2>1. ASSUME NEW n \in 0 .. m - 1, f[n] = g[n] PROVE f[n + 1] = g[n + 1]
      <3>1. n \in 0 .. m /\ n + 1 \in 1 .. m
        BY <1>1
      <3> QED BY <1>1, <1>2, <1>3, <2>1, <3>1
    <2>2. f[0] = g[0] /\ m \in Nat
      BY <1>1, <1>2, <1>3
    <2> QED BY <2>1, <2>2, Alike
  <1>5. m \in 0 .. m
    BY <1>1
  <1> QED BY <1>1, <1>2, <1>3, <1>4, <1>5 DEF v

\* What tsc prints of a diagnostic is its line, the rest of its message and a blank.
LEMMA PrintedFacts ==
    ASSUME NEW r, r.d \in Shown, r.spelt \in Paths, r.d.text # <<>>
    PROVE  LET k == Len(r.d.text)
           IN  /\ k \in Nat \ {0} /\ Printed(r) \in Seq(TscLine) /\ Len(Printed(r)) = k + 1
               /\ Printed(r)[1] = IF r.d.line > 0
                                  THEN Located(r.spelt, r.d.line, r.d.col, r.d.text[1])
                                  ELSE Bare(<<Flag, r.spelt>>, r.d.text[1])
               /\ \A i \in 2 .. k : Printed(r)[i] = More(r.d.text[i])
               /\ Printed(r)[k + 1] = Blank
  <1> DEFINE k == Len(r.d.text)
      head == IF r.d.line > 0 THEN Located(r.spelt, r.d.line, r.d.col, r.d.text[1])
              ELSE Bare(<<Flag, r.spelt>>, r.d.text[1])
      more == [i \in 1 .. k - 1 |-> More(r.d.text[i + 1])]
  <1>1. k \in Nat \ {0} /\ \A i \in 1 .. k : r.d.text[i] \in STRING
    BY DEF Shown, Segments
  <1>2. Flag \in Paths /\ Empty \in Paths /\ <<>> \in Seq(Paths) /\ 0 \in Nat
    <2>1. <<>> \in Segments
      BY DEF Segments
    <2> QED BY <2>1, FlagAssumption DEF Empty, Unrooted, Paths, Segments
  <1>3. \A text \in STRING : More(text) \in TscLine
    <2> SUFFICES ASSUME NEW text \in STRING PROVE More(text) \in TscLine
      OBVIOUS
    <2>1. More(text) = [kind |-> "more", file |-> Empty, line |-> 0, col |-> 0,
                        quoted |-> <<>>, text |-> text]
      BY DEF More, Bare
    <2> QED BY <1>2, <2>1, LineTyped
  <1>4. Blank \in TscLine
    BY DEF TscLine
  <1>5. head \in TscLine
    <2>1. r.d.line \in Nat /\ r.d.col \in Nat /\ r.d.text[1] \in STRING
      BY <1>1 DEF Shown
    <2>2. <<Flag, r.spelt>> \in Seq(Paths)
      BY <1>2
    <2>3. Located(r.spelt, r.d.line, r.d.col, r.d.text[1]) \in TscLine
      BY <1>2, <2>1, LineTyped DEF Located
    <2>4. Bare(<<Flag, r.spelt>>, r.d.text[1]) \in TscLine
      BY <1>2, <2>1, <2>2, LineTyped DEF Bare
    <2> QED BY <2>3, <2>4
  <1>6. more \in Seq(TscLine) /\ Len(more) = k - 1
        /\ \A i \in 1 .. k - 1 : more[i] = More(r.d.text[i + 1])
    <2>1. \A i \in 1 .. k - 1 : More(r.d.text[i + 1]) \in TscLine
      <3>1. \A i \in 1 .. k - 1 : i + 1 \in 1 .. k
        BY <1>1
      <3> QED BY <1>1, <1>3, <3>1
    <2> HIDE DEF k
    <2>2. k - 1 \in Nat
      BY <1>1
    <2> QED BY <2>1, <2>2
  <1>7. Printed(r) = <<head>> \o more \o <<Blank>>
    BY DEF Printed
  <1> HIDE DEF k, head, more
  <1>8. /\ <<head>> \o more \o <<Blank>> \in Seq(TscLine)
        /\ Len(<<head>> \o more \o <<Blank>>) = k + 1
        /\ (<<head>> \o more \o <<Blank>>)[1] = head
        /\ \A i \in 2 .. k : (<<head>> \o more \o <<Blank>>)[i] = more[i - 1]
        /\ (<<head>> \o more \o <<Blank>>)[k + 1] = Blank
    BY <1>1, <1>4, <1>5, <1>6
  <1>9. \A i \in 2 .. k : more[i - 1] = More(r.d.text[i])
    <2>1. \A i \in 2 .. k : i - 1 \in 1 .. k - 1 /\ (i - 1) + 1 = i
      BY <1>1
    <2> QED BY <1>6, <2>1
  <1> QED BY <1>1, <1>7, <1>8, <1>9 DEF k, head

\* The file of a report is the one it is about, however it is spelt.
LEMMA FileRead ==
    ASSUME NEW d \in Shown, NEW spelt \in Paths, IsReport(d, spelt)
    PROVE  Rel(spelt, Root) = d.file
  <1>1. d.file \in Segments
    BY DEF Shown
  <1>2. CASE d.file = Refused
    <2>1. Outside(spelt)
      BY <1>2 DEF IsReport
    <2>2. CASE spelt.rooted
      BY <1>2, <2>1, <2>2, RootIsRoot, RelIsInside DEF Outside
    <2>3. CASE ~spelt.rooted
      BY <1>2, <2>1, <2>3, RootIsRoot, RelIsInside DEF Outside
    <2> QED BY <2>2, <2>3 DEF Paths
  <1>3. CASE d.file # Refused
    <2>1. ValidName(d.file) /\ spelt \in Spellings(d.file)
          /\ (spelt = Unrooted(d.file) => ~IsStrictPrefix(Root, d.file))
      BY <1>3 DEF IsReport
    <2>2. /\ Rel(Full(d.file, Root), Root) = d.file
          /\ Rel(Unrooted(Root \o d.file), Root) = d.file
          /\ ~IsStrictPrefix(Root, d.file) => Rel(Unrooted(d.file), Root) = d.file
      BY <1>1, <2>1, RootIsRoot, NamesAreFound
    <2> QED BY <2>1, <2>2 DEF Spellings, Full
  <1> QED BY <1>2, <1>3

\* And so is the one quoted behind a flag.
LEMMA FileNamed ==
    ASSUME NEW d \in Shown, NEW spelt \in Paths, IsReport(d, spelt), d.line = 0
    PROVE  Named(<<Flag, spelt>>) = d.file
  <1> DEFINE quoted == <<Flag, spelt>>
             sources == {i \in DOMAIN quoted : IsSource(Rel(quoted[i], Root))}
  <1>1. DOMAIN quoted = {1, 2} /\ quoted[1] = Flag /\ quoted[2] = spelt
    OBVIOUS
  <1>2. ~IsSource(Rel(Flag, Root))
    BY FlagAssumption
  <1>3. Rel(spelt, Root) = d.file
    BY FileRead
  <1>4. IsSource(d.file) <=> d.file # Refused
    BY DEF IsReport, IsSource
  <1>5. sources = IF d.file # Refused THEN {2} ELSE {}
    BY <1>1, <1>2, <1>3, <1>4
  <1>6. Named(quoted) = IF sources = {} THEN Refused
                        ELSE Rel(quoted[CHOOSE i \in sources : \A j \in sources : i <= j], Root)
    BY DEF Named
  <1> HIDE DEF sources, quoted
  <1>7. CASE d.file # Refused
    <2>1. sources = {2}
      BY <1>5, <1>7
    <2>2. (CHOOSE i \in sources : \A j \in sources : i <= j) = 2
      BY <2>1
    <2> QED BY <1>1, <1>3, <1>6, <2>1, <2>2 DEF quoted
  <1>8. CASE d.file = Refused
    BY <1>5, <1>6, <1>8 DEF quoted
  <1> QED BY <1>7, <1>8

\* The diagnostic with the first n texts of its message.
Upto(d, n) == [d EXCEPT !.text = SubSeq(d.text, 1, n)]

LEMMA UptoFacts ==
    ASSUME NEW d \in Shown, NEW n \in 0 .. Len(d.text)
    PROVE  /\ Upto(d, n) \in Shown
           /\ n # Len(d.text) => [Upto(d, n) EXCEPT !.text = Append(@, d.text[n + 1])]
                                     = Upto(d, n + 1)
           /\ n = Len(d.text) => Upto(d, n) = d
           /\ d.text # <<>> => Upto(d, 1).text = <<d.text[1]>>
  <1>1. d.text \in Segments /\ Len(d.text) \in Nat
    BY DEF Shown, Segments
  <1> DEFINE t == d.text
  <1> HIDE DEF t
  <1>2. SubSeq(t, 1, n) \in Seq(STRING)
    BY <1>1 DEF Segments, t
  <1>3. n # Len(t) => Append(SubSeq(t, 1, n), t[n + 1]) = SubSeq(t, 1, n + 1)
    <2>1. n # Len(t) => n \in 0 .. Len(t) - 1
      BY <1>1 DEF t
    <2> QED BY <1>1, <2>1, PrefixFacts DEF Segments, t
  <1>4. n = Len(t) => SubSeq(t, 1, n) = t
    BY <1>1, WholePrefix DEF Segments, t
  <1>5. t # <<>> => SubSeq(t, 1, 1) = <<t[1]>>
    BY <1>1, FirstOnly DEF Segments, t
  <1> QED BY <1>1, <1>2, <1>3, <1>4, <1>5 DEF Upto, Shown, Segments, t

\* What is read of a printed diagnostic is the diagnostic, behind what was read.
LEMMA ParsePrinted ==
    ASSUME NEW lines \in Seq(TscLine), NEW r, r.d \in Shown, r.spelt \in Paths,
           IsReport(r.d, r.spelt)
    PROVE  /\ lines \o Printed(r) \in Seq(TscLine)
           /\ ParseTSC(lines \o Printed(r)) = Append(ParseTSC(lines), r.d)
  <1> DEFINE k == Len(r.d.text)
             P == Printed(r)
             to(n) == lines \o SubSeq(P, 1, n)
             ds == ParseTSC(lines)
             S == {n \in 0 .. k - 1 : ParseTSC(to(n + 1)) = Append(ds, Upto(r.d, n + 1))}
  <1>1. r.d.text # <<>>
    BY DEF IsReport
  <1>2. /\ k \in Nat \ {0} /\ P \in Seq(TscLine) /\ Len(P) = k + 1
        /\ P[1] = IF r.d.line > 0
                  THEN Located(r.spelt, r.d.line, r.d.col, r.d.text[1])
                  ELSE Bare(<<Flag, r.spelt>>, r.d.text[1])
        /\ \A i \in 2 .. k : P[i] = More(r.d.text[i])
        /\ P[k + 1] = Blank
    BY <1>1, PrintedFacts
  <1> HIDE DEF P
  <1>3. \A n \in 0 .. k : /\ to(n) \in Seq(TscLine)
                          /\ to(n + 1) = Append(to(n), P[n + 1]) /\ P[n + 1] \in TscLine
    <2> SUFFICES ASSUME NEW n \in 0 .. k
                 PROVE  /\ to(n) \in Seq(TscLine)
                        /\ to(n + 1) = Append(to(n), P[n + 1]) /\ P[n + 1] \in TscLine
      OBVIOUS
    <2>1. n \in 0 .. Len(P) - 1 /\ n + 1 \in 1 .. Len(P) /\ P \in Seq(TscLine)
      BY <1>2
    <2> HIDE DEF k
    <2>2. P[n + 1] \in TscLine
      BY <2>1
    <2>3. to(n) \in Seq(TscLine) /\ to(n + 1) = Append(to(n), P[n + 1])
      BY <2>1, OneMore
    <2> QED BY <2>2, <2>3
  <1>4. to(0) = lines /\ to(k + 1) = lines \o P
    <2>1. SubSeq(P, 1, 0) = <<>> /\ SubSeq(P, 1, k + 1) = P
      BY <1>2, WholePrefix, NothingBehind
    <2> QED BY <2>1, NothingBehind
  <1> HIDE DEF to
  <1>5. \A n \in 0 .. k : /\ ParseTSC(to(n)) \in Seq(Shown)
                          /\ ParseTSC(to(n + 1)) = ParseLine(ParseTSC(to(n)), P[n + 1])
    BY <1>3, ParseMore
  <1> HIDE DEF k
  <1>6. ds \in Seq(Shown)
    BY <1>2, <1>4, <1>5
  <1> HIDE DEF ds
  <1>7. r.d.line \in Nat /\ r.d.col \in Nat /\ \A i \in 1 .. k : r.d.text[i] \in STRING
    BY <1>2 DEF Shown, Segments, k
  <1>8. 0 \in S
    <2>1. ParseTSC(to(1)) = ParseLine(ds, P[1])
      BY <1>2, <1>4, <1>5 DEF ds
    <2>2. Upto(r.d, 1) = [file |-> r.d.file, line |-> r.d.line, col |-> r.d.col,
                          text |-> <<r.d.text[1]>>]
      <3>1. Upto(r.d, 1).text = <<r.d.text[1]>>
        <4>1. 0 \in 0 .. Len(r.d.text)
          BY <1>2 DEF k
        <4> QED BY <1>1, <4>1, UptoFacts
      <3> QED BY <3>1 DEF Upto, Shown
    <2>3. ASSUME r.d.line > 0 PROVE ParseTSC(to(1)) = Append(ds, Upto(r.d, 1))
      <3>1. P[1] = [kind |-> "located", file |-> r.spelt, line |-> r.d.line,
                    col |-> r.d.col, quoted |-> <<>>, text |-> r.d.text[1]]
        BY <1>2, <2>3 DEF Located
      <3>2. ParseLine(ds, P[1]) = Append(ds, Diagnostic(Rel(r.spelt, Root), P[1]))
        BY <3>1 DEF ParseLine
      <3>3. Diagnostic(Rel(r.spelt, Root), P[1]) = Upto(r.d, 1)
        BY <2>2, <3>1, FileRead DEF Diagnostic
      <3> QED BY <2>1, <3>2, <3>3
    <2>4. ASSUME ~(r.d.line > 0) PROVE ParseTSC(to(1)) = Append(ds, Upto(r.d, 1))
      <3>1. r.d.line = 0 /\ r.d.col = 0
        BY <1>7, <2>4 DEF IsReport
      <3>2. P[1] = [kind |-> "bare", file |-> Empty, line |-> 0, col |-> 0,
                    quoted |-> <<Flag, r.spelt>>, text |-> r.d.text[1]]
        BY <1>2, <2>4 DEF Bare
      <3>3. ParseLine(ds, P[1]) = Append(ds, Diagnostic(Named(<<Flag, r.spelt>>), P[1]))
        BY <3>2 DEF ParseLine
      <3>4. Diagnostic(Named(<<Flag, r.spelt>>), P[1]) = Upto(r.d, 1)
        BY <2>2, <3>1, <3>2, FileNamed DEF Diagnostic
      <3> QED BY <2>1, <3>3, <3>4
    <2>5. ParseTSC(to(1)) = Append(ds, Upto(r.d, 1))
      BY <2>3, <2>4
    <2>6. 0 + 1 = 1 /\ 0 \in 0 .. k - 1
      BY <1>2
    <2> QED BY <2>5, <2>6
  <1>9. ASSUME NEW n \in 0 .. k - 1 - 1, n \in S PROVE n + 1 \in S
    <2>1. n + 1 \in 0 .. k - 1 /\ n + 1 \in 0 .. k /\ n + 2 \in 2 .. k /\ (n + 1) + 1 = n + 2
          /\ n + 1 # k /\ n + 2 \in 1 .. k
      BY <1>2
    <2>2. ParseTSC(to(n + 2)) = ParseLine(Append(ds, Upto(r.d, n + 1)), P[n + 2])
      BY <1>5, <1>9, <2>1
    <2>3. P[n + 2] = [kind |-> "more", file |-> Empty, line |-> 0, col |-> 0,
                      quoted |-> <<>>, text |-> r.d.text[n + 2]]
      BY <1>2, <2>1, ZenonT(60) DEF More, Bare
    <2>4. Upto(r.d, n + 1) \in Shown
          /\ [Upto(r.d, n + 1) EXCEPT !.text = Append(@, r.d.text[n + 2])] = Upto(r.d, n + 2)
      <3>1. n + 1 \in 0 .. Len(r.d.text) /\ n + 1 # Len(r.d.text) /\ (n + 1) + 1 = n + 2
        BY <2>1 DEF k
      <3> DEFINE N == n + 1
      <3> HIDE DEF N
      <3>2. /\ Upto(r.d, N) \in Shown
            /\ [Upto(r.d, N) EXCEPT !.text = Append(@, r.d.text[N + 1])] = Upto(r.d, N + 1)
        BY <3>1, UptoFacts DEF N
      <3> QED BY <3>1, <3>2 DEF N
    <2> DEFINE d == Upto(r.d, n + 1)
    <2> HIDE DEF d, S
    <2>5. Append(ds, d) # <<>> /\ Front(Append(ds, d)) = ds /\ Last(Append(ds, d)) = d
      BY <1>6, <2>4, FrontAppend DEF d
    <2>6. ParseLine(Append(ds, d), P[n + 2])
              = Append(ds, Continued(d, P[n + 2]))
      BY <2>3, <2>5 DEF ParseLine
    <2>7. Continued(d, P[n + 2]) = Upto(r.d, n + 2)
      BY <2>3, <2>4 DEF Continued, d
    <2>8. ParseTSC(to(n + 2)) = Append(ds, Upto(r.d, n + 2))
      BY <2>2, <2>6, <2>7 DEF d
    <2> QED BY <2>1, <2>8 DEF S
  <1>10. k - 1 \in S
    <2> HIDE DEF S
    <2>1. k - 1 \in Nat
      BY <1>2
    <2>2. 0 .. k - 1 \subseteq S
      BY <1>8, <1>9, <2>1, UpToSets
    <2> QED BY <2>1, <2>2
  <1>11. ParseTSC(to(k)) = Append(ds, r.d)
    <2>1. (k - 1) + 1 = k /\ k \in 0 .. k
      BY <1>2
    <2>2. Upto(r.d, k) = r.d
      BY <2>1, UptoFacts DEF k
    <2> QED BY <1>10, <2>1, <2>2
  <1>12. ParseTSC(to(k + 1)) = Append(ds, r.d)
    <2>1. k \in 0 .. k
      BY <1>2
    <2>2. ParseTSC(to(k + 1)) = ParseLine(Append(ds, r.d), Blank)
      BY <1>2, <1>5, <1>11, <2>1
    <2> QED BY <2>2 DEF ParseLine, Blank
  <1>13. to(k + 1) \in Seq(TscLine)
    <2>1. k \in 0 .. k /\ P[k + 1] \in TscLine
      BY <1>2, <1>3
    <2> QED BY <1>3, <2>1, AppendTyped
  <1> QED BY <1>4, <1>12, <1>13 DEF P, ds

\* Behind any first n sequences, the next.
LEMMA Firsts ==
    ASSUME NEW S, NEW s \in Seq(S), NEW n \in 0 .. Len(s) - 1
    PROVE  /\ SubSeq(s, 1, n) \in Seq(S) /\ s[n + 1] \in S
           /\ SubSeq(s, 1, n + 1) = Append(SubSeq(s, 1, n), s[n + 1])
  OBVIOUS

LEMMA FlattenNothing == FlattenSeq(<<>>) = <<>>
  BY DEF FlattenSeq

\* What tsc printed is read back: every diagnostic, in order, with its position, its
\* whole message and its file however it is spelt (tsgo.go:195-235).
THEOREM PrintedIsRead ==
    ASSUME NEW reports \in Reports
    PROVE  ReadsBack(reports)
  <1> DEFINE m == Len(reports)
             ps == [i \in DOMAIN reports |-> Printed(reports[i])]
             ds == [i \in DOMAIN reports |-> reports[i].d]
             lines(n) == FlattenSeq(SubSeq(ps, 1, n))
             S == {n \in 0 .. m : /\ lines(n) \in Seq(TscLine)
                                  /\ ParseTSC(lines(n)) = SubSeq(ds, 1, n)}
  <1>1. /\ m \in Nat /\ DOMAIN reports = 1 .. m
        /\ \A i \in 1 .. m : /\ reports[i].d \in Shown /\ reports[i].spelt \in Paths
                             /\ IsReport(reports[i].d, reports[i].spelt)
    <2>1. /\ reports \in Seq([d : Shown, spelt : Paths])
          /\ \A i \in DOMAIN reports : IsReport(reports[i].d, reports[i].spelt)
      BY ReportsAssumption DEF Shown, Paths, Segments
    <2>2. m \in Nat /\ DOMAIN reports = 1 .. m
      BY <2>1
    <2>3. \A i \in 1 .. m : reports[i] \in [d : Shown, spelt : Paths]
      BY <2>1, Elements
    <2> HIDE DEF m
    <2> QED BY <2>1, <2>2, <2>3
  <1>2. \A i \in 1 .. m : Printed(reports[i]) \in Seq(TscLine)
    <2> SUFFICES ASSUME NEW i \in 1 .. m PROVE Printed(reports[i]) \in Seq(TscLine)
      OBVIOUS
    <2>1. reports[i].d.text # <<>>
      BY <1>1 DEF IsReport
    <2> QED BY <1>1, <2>1, PrintedFacts
  <1>3. /\ ps \in Seq(Seq(TscLine)) /\ Len(ps) = m /\ \A i \in 1 .. m : ps[i] = Printed(reports[i])
        /\ ds \in Seq(Shown) /\ Len(ds) = m /\ \A i \in 1 .. m : ds[i] = reports[i].d
    <2> HIDE DEF m
    <2>1. ps = [i \in 1 .. m |-> Printed(reports[i])] /\ ds = [i \in 1 .. m |-> reports[i].d]
      BY <1>1
    <2>2. \A i \in 1 .. m : reports[i].d \in Shown
      BY <1>1
    <2> HIDE DEF ps, ds
    <2> QED BY <1>1, <1>2, <2>1, <2>2
  <1> HIDE DEF m, ps, ds
  <1>4. 0 \in S
    <2>1. SubSeq(ps, 1, 0) = <<>> /\ SubSeq(ds, 1, 0) = <<>>
      BY <1>3, NothingBehind
    <2>2. lines(0) = <<>>
      BY <2>1, FlattenNothing
    <2>3. <<>> \in Seq(TscLine) /\ 0 \in 0 .. m
      BY <1>1
    <2> HIDE DEF lines
    <2> QED BY <2>1, <2>2, <2>3, ParseNothing
  <1>5. ASSUME NEW n \in 0 .. m - 1, n \in S PROVE n + 1 \in S
    <2>1. n + 1 \in 1 .. m /\ n \in 0 .. Len(ps) - 1 /\ n \in 0 .. Len(ds) - 1 /\ n + 1 \in 0 .. m
      BY <1>1, <1>3
    <2>2. /\ SubSeq(ps, 1, n) \in Seq(Seq(TscLine))
          /\ SubSeq(ps, 1, n + 1) = Append(SubSeq(ps, 1, n), ps[n + 1])
      BY <1>3, <2>1, Firsts
    <2>3. lines(n + 1) = lines(n) \o Printed(reports[n + 1])
      BY <1>2, <1>3, <2>1, <2>2, FlattenMore, ZenonT(60)
    <2>4. lines(n) \in Seq(TscLine) /\ ParseTSC(lines(n)) = SubSeq(ds, 1, n)
      BY <1>5
    <2> HIDE DEF lines, S
    <2>5. /\ lines(n) \o Printed(reports[n + 1]) \in Seq(TscLine)
          /\ ParseTSC(lines(n) \o Printed(reports[n + 1]))
                = Append(SubSeq(ds, 1, n), reports[n + 1].d)
      BY <1>1, <2>1, <2>4, ParsePrinted
    <2>6. SubSeq(ds, 1, n + 1) = Append(SubSeq(ds, 1, n), ds[n + 1])
      BY <1>3, <2>1, Firsts
    <2> QED BY <1>3, <2>1, <2>3, <2>5, <2>6 DEF S
  <1>6. m \in S
    <2> HIDE DEF S
    <2>1. 0 .. m \subseteq S
      BY <1>1, <1>4, <1>5, UpToSets
    <2> QED BY <1>1, <2>1
  <1>7. SubSeq(ps, 1, m) = ps /\ SubSeq(ds, 1, m) = ds
    BY <1>3, WholePrefix
  <1>8. ParseTSC(FlattenSeq(ps)) = ds
    BY <1>6, <1>7
  <1> QED BY <1>8 DEF ReadsBack, ps, ds

-----------------------------------------------------------------------------
(* sink.                                                                     *)

LEMMA KeepFacts ==
    ASSUME NEW S, NEW s \in Seq(S), NEW n \in Nat \ {0}
    PROVE  LET len == IF Len(s) > n THEN n ELSE Len(s)
           IN  /\ Keep(s, n) \in Seq(S) /\ Len(Keep(s, n)) = len
               /\ \A i \in 1 .. len : Keep(s, n)[i] = s[i + Len(s) - len]
  <1>1. CASE Len(s) > n
    <2>1. Keep(s, n) = SubSeq(s, Len(s) - n + 1, Len(s))
      BY <1>1 DEF Keep
    <2> QED BY <1>1, <2>1
  <1>2. CASE ~(Len(s) > n)
    <2>1. Keep(s, n) = SubSeq(s, 1, Len(s))
      BY <1>2 DEF Keep
    <2>2. Keep(s, n) = s
      BY <2>1, WholePrefix
    <2> QED BY <1>2, <2>2
  <1> QED BY <1>1, <1>2

\* The same, with the lengths named.
IsEnd(u, s, L, k) ==
    /\ Len(u) = k /\ \A i \in 1 .. k : u[i] = s[i + (L - k)]
IsJoin(x, s, L, t, M) ==
    /\ Len(x) = L + M
    /\ \A i \in 1 .. L : x[i] = s[i]
    /\ \A i \in 1 .. M : x[L + i] = t[i]

LEMMA EndNamed ==
    ASSUME NEW S, NEW s \in Seq(S), NEW n \in Nat \ {0}
    PROVE  Keep(s, n) \in Seq(S) /\ IsEnd(Keep(s, n), s, Len(s), IF Len(s) > n THEN n ELSE Len(s))
  <1> DEFINE k == IF Len(s) > n THEN n ELSE Len(s)
  <1>1. /\ Keep(s, n) \in Seq(S) /\ Len(Keep(s, n)) = k
        /\ \A i \in 1 .. k : Keep(s, n)[i] = s[i + Len(s) - k]
    BY KeepFacts
  <1>2. \A i \in 1 .. k : i + (Len(s) - k) = i + Len(s) - k
    OBVIOUS
  <1> QED BY <1>1, <1>2 DEF IsEnd

LEMMA JoinNamed ==
    ASSUME NEW S, NEW s \in Seq(S), NEW t \in Seq(S)
    PROVE  s \o t \in Seq(S) /\ IsJoin(s \o t, s, Len(s), t, Len(t))
  <1>1. s \o t \in Seq(S) /\ Len(s \o t) = Len(s) + Len(t)
        /\ \A i \in 1 .. Len(s) : (s \o t)[i] = s[i]
    OBVIOUS
  <1>2. ASSUME NEW i \in 1 .. Len(t) PROVE (s \o t)[Len(s) + i] = t[i]
    OBVIOUS
  <1> QED BY <1>1, <1>2 DEF IsJoin

\* The end of what was kept and of what is new is the end of it all.
LEMMA KeepKept ==
    ASSUME NEW S, NEW a \in Seq(S), NEW b \in Seq(S), NEW n \in Nat \ {0}
    PROVE  Keep(Keep(a, n) \o b, n) = Keep(a \o b, n)
  <1>1. PICK L \in Nat, M \in Nat : Len(a) = L /\ Len(b) = M
    OBVIOUS
  <1>2. PICK k \in Nat : k <= L /\ k = IF L > n THEN n ELSE L
    OBVIOUS
  <1>3. PICK c \in Seq(S) : c = Keep(a, n) /\ IsEnd(c, a, L, k)
    BY <1>1, <1>2, EndNamed
  <1>4. Len(c) = k
    BY <1>3 DEF IsEnd
  <1>5. PICK x \in Seq(S) : x = c \o b /\ IsJoin(x, c, k, b, M)
    BY <1>1, <1>4, JoinNamed
  <1>6. PICK y \in Seq(S) : y = a \o b /\ IsJoin(y, a, L, b, M)
    BY <1>1, JoinNamed
  <1>7. Len(x) = k + M /\ Len(y) = L + M
    BY <1>5, <1>6 DEF IsJoin
  <1>8. PICK len \in Nat : /\ len = (IF k + M > n THEN n ELSE k + M)
                           /\ len = (IF L + M > n THEN n ELSE L + M)
    <2>1. (IF k + M > n THEN n ELSE k + M) \in Nat
      OBVIOUS
    <2>2. (IF k + M > n THEN n ELSE k + M) = (IF L + M > n THEN n ELSE L + M)
      <3>1. CASE L > n
        BY <1>2, <3>1
      <3>2. CASE ~(L > n)
        BY <1>2, <3>2
      <3> QED BY <3>1, <3>2
    <2> QED BY <2>1, <2>2
  <1>9. len <= k + M /\ len <= L + M
    BY <1>8
  <1>10. PICK u \in Seq(S) : u = Keep(x, n) /\ IsEnd(u, x, k + M, len)
    BY <1>7, <1>8, EndNamed
  <1>11. PICK v \in Seq(S) : v = Keep(y, n) /\ IsEnd(v, y, L + M, len)
    BY <1>7, <1>8, EndNamed
  <1>12. ASSUME NEW j \in 1 .. k + M PROVE x[j] = y[j + (L - k)]
    <2>1. CASE j <= k
      <3>1. j \in 1 .. k /\ j + (L - k) \in 1 .. L
        BY <1>2, <2>1
      <3> QED BY <1>3, <1>5, <1>6, <3>1, SMTT(40) DEF IsEnd, IsJoin
    <2>2. CASE ~(j <= k)
      <3>1. PICK i \in 1 .. M : j = k + i /\ j + (L - k) = L + i
        <4>1. j - k \in 1 .. M /\ j = k + (j - k) /\ j + (L - k) = L + (j - k)
          BY <1>2, <2>2
        <4> QED BY <4>1
      <3> QED BY <1>5, <1>6, <3>1 DEF IsJoin
    <2> QED BY <2>1, <2>2
  <1>13. ASSUME NEW i \in 1 .. len PROVE u[i] = v[i]
    <2>1. PICK j \in 1 .. k + M : /\ j = i + ((k + M) - len)
                                  /\ j + (L - k) = i + ((L + M) - len)
      <3>1. i + ((k + M) - len) \in 1 .. k + M
        BY <1>9
      <3>2. (i + ((k + M) - len)) + (L - k) = i + ((L + M) - len)
        OBVIOUS
      <3> QED BY <3>1, <3>2
    <2>2. u[i] = x[j] /\ v[i] = y[j + (L - k)]
      BY <1>10, <1>11, <2>1 DEF IsEnd
    <2> QED BY <1>12, <2>2
  <1>14. Len(u) = Len(v) /\ Len(u) = len
    BY <1>10, <1>11 DEF IsEnd
  <1>15. u = v
    BY <1>13, <1>14, EqualSeqs
  <1> QED BY <1>3, <1>5, <1>6, <1>10, <1>11, <1>15

LEMMA WriteTyped ==
    ASSUME NEW S, NEW kept \in Seq(S), NEW p \in Seq(S)
    PROVE  Write(kept, p) \in Seq(S)
  <1>1. kept \o p \in Seq(S)
    BY NothingBehind
  <1> QED BY <1>1, KeepFacts, BoundAssumption DEF Write

\* Kept is what Write makes of the writes one after the other.
LEMMA KeptSteps ==
    ASSUME NEW S, NEW w \in Seq(Seq(S))
    PROVE  \E kept : /\ kept[0] = <<>>
                     /\ \A n \in 0 .. Len(w) - 1 : kept[n + 1] = Write(kept[n], w[n + 1])
                     /\ \A n \in 0 .. Len(w) : kept[n] \in Seq(S)
                     /\ Kept(w) = kept[Len(w)]
  <1> DEFINE m == Len(w)
      step == [en \in Seq(S) \X (1 .. m) |-> Write(en[1], w[en[2]])]
      Is(g) == g = [n \in 0 .. m |-> IF n = 0 THEN <<>> ELSE Write(g[n - 1], w[n])]
      f == CHOOSE g : Is(g)
  <1>1. m \in Nat /\ <<>> \in Seq(S) /\ \A n \in 1 .. m : w[n] \in Seq(S)
    BY Elements
  <1>2. \A n \in 1 .. m, e \in Seq(S) :
           step[<<e, n>>] = Write(e, w[n]) /\ step[<<e, n>>] \in Seq(S)
    <2> SUFFICES ASSUME NEW n \in 1 .. m, NEW e \in Seq(S)
                 PROVE  step[<<e, n>>] = Write(e, w[n]) /\ step[<<e, n>>] \in Seq(S)
      OBVIOUS
    <2>1. step[<<e, n>>] = Write(e, w[n])
      OBVIOUS
    <2>2. w[n] \in Seq(S)
      BY <1>1
    <2> QED BY <2>1, <2>2, WriteTyped
  <1> HIDE DEF step
  <1>3. PICK g \in [0 .. m -> Seq(S)] : Follows(g, <<>>, m, step)
    <2> HIDE DEF m, Is, f
    <2>1. Steps(Seq(S), m, step)
      BY <1>2 DEF Steps
    <2> QED BY <1>1, <2>1, Recursion
  <1>4. Is(g)
    <2> DEFINE h == [n \in 0 .. m |-> IF n = 0 THEN <<>> ELSE Write(g[n - 1], w[n])]
    <2>1. ASSUME NEW n \in 0 .. m PROVE g[n] = h[n]
      <3>1. CASE n = 0
        BY <1>3, <3>1 DEF Follows
      <3>2. CASE n # 0
        <4>1. n \in 1 .. m /\ n - 1 \in 0 .. m
          BY <1>1, <3>2
        <4> QED BY <1>2, <1>3, <3>2, <4>1 DEF Follows
      <3> QED BY <3>1, <3>2
    <2>2. g = [n \in 0 .. m |-> g[n]] /\ h = [n \in 0 .. m |-> h[n]]
      OBVIOUS
    <2> HIDE DEF h
    <2>3. g = h
      BY <2>1, <2>2
    <2> QED BY <2>3 DEF h
  <1>5. Is(f)
    <2> HIDE DEF Is
    <2> QED BY <1>4
  <1>6. Kept(w) = f[m]
    BY DEF Kept
  <1> HIDE DEF f
  <1>7. f[0] = <<>> /\ \A n \in 0 .. m - 1 : f[n + 1] = Write(f[n], w[n + 1])
    <2>1. \A n \in 0 .. m : f[n] = IF n = 0 THEN <<>> ELSE Write(f[n - 1], w[n])
      BY <1>5
    <2> HIDE DEF m, Is
    <2>2. 0 \in 0 .. m /\ \A n \in 0 .. m - 1 :
             n + 1 \in 0 .. m /\ n + 1 # 0 /\ (n + 1) - 1 = n
      BY <1>1
    <2>3. f[0] = <<>>
      BY <2>1, <2>2
    <2>4. ASSUME NEW n \in 0 .. m - 1 PROVE f[n + 1] = Write(f[n], w[n + 1])
      BY <2>1, <2>2
    <2> QED BY <2>3, <2>4
  <1> HIDE DEF Is
  <1>8. \A n \in 0 .. m : f[n] \in Seq(S)
    <2>1. ASSUME NEW n \in 0 .. m - 1, f[n] \in Seq(S) PROVE f[n + 1] \in Seq(S)
      <3>1. n + 1 \in 1 .. m
        BY <1>1
      <3>2. w[n + 1] \in Seq(S)
        BY <1>1, <3>1
      <3> QED BY <1>7, <2>1, <3>2, WriteTyped
    <2> HIDE DEF m
    <2> QED BY <1>1, <1>7, <2>1, Throughout
  <1> QED BY <1>6, <1>7, <1>8

\* However the guest cuts what it says into writes, what is kept is the end of it all
\* (engine.go:106-129).
THEOREM EndSurvives ==
    ASSUME NEW writes \in Writes
    PROVE  EndIsKept(writes)
  <1> DEFINE m == Len(writes)
  <1>1. writes \in Seq(Seq(Octets)) /\ m \in Nat /\ Bound \in Nat \ {0}
        /\ \A i \in 1 .. m : writes[i] \in Seq(Octets)
    BY WritesAssumption, BoundAssumption, Elements
  <1>2. PICK kept : /\ kept[0] = <<>>
                    /\ \A n \in 0 .. m - 1 : kept[n + 1] = Write(kept[n], writes[n + 1])
                    /\ \A n \in 0 .. m : kept[n] \in Seq(Octets)
                    /\ Kept(writes) = kept[m]
    BY <1>1, KeptSteps
  <1>3. PICK all : /\ all[0] = <<>>
                   /\ \A n \in 0 .. m - 1 : all[n + 1] = all[n] \o writes[n + 1]
                   /\ \A n \in 0 .. m : all[n] \in Seq(Octets)
                   /\ FlattenSeq(writes) = all[m]
    BY <1>1, FlattenSteps
  <1> DEFINE S == {n \in 0 .. m : kept[n] = Keep(all[n], Bound)}
  <1> HIDE DEF m
  <1>4. 0 \in S
    <2>1. Keep(<<>>, Bound) = <<>>
      <3>1. Len(<<>>) = 0 /\ SubSeq(<<>>, 1, 0) = <<>>
        OBVIOUS
      <3> QED BY <1>1, <3>1 DEF Keep
    <2> QED BY <1>1, <1>2, <1>3, <2>1
  <1>5. ASSUME NEW n \in 0 .. m - 1, n \in S PROVE n + 1 \in S
    <2>1. n \in 0 .. m /\ n + 1 \in 0 .. m /\ n + 1 \in 1 .. m
      BY <1>1
    <2>2. writes[n + 1] \in Seq(Octets) /\ all[n] \in Seq(Octets)
      BY <1>1, <1>3, <2>1
    <2>3. kept[n + 1] = Keep(Keep(all[n], Bound) \o writes[n + 1], Bound)
      BY <1>2, <1>5 DEF Write
    <2>4. kept[n + 1] = Keep(all[n] \o writes[n + 1], Bound)
      BY <1>1, <2>2, <2>3, KeepKept
    <2> QED BY <1>3, <2>1, <2>4
  <1>6. m \in S
    <2> HIDE DEF S
    <2>1. 0 .. m \subseteq S
      BY <1>1, <1>4, <1>5, UpToSets
    <2> QED BY <1>1, <2>1
  <1> QED BY <1>2, <1>3, <1>6 DEF EndIsKept

-----------------------------------------------------------------------------
(* units.                                                                    *)

\* Bytes adds the widths up, and so grows.
LEMMA BytesSteps ==
    ASSUME NEW line \in Seq(1 .. 4)
    PROVE  /\ Bytes(line)[0] = 0
           /\ \A n \in 0 .. Len(line) - 1 : Bytes(line)[n + 1] = Bytes(line)[n] + line[n + 1]
           /\ \A n \in 0 .. Len(line) : Bytes(line)[n] \in Nat
  <1> DEFINE m == Len(line)
      step == [en \in Nat \X (1 .. m) |-> en[1] + line[en[2]]]
      Is(g) == g = [n \in 0 .. m |-> IF n = 0 THEN 0 ELSE g[n - 1] + line[n]]
      f == CHOOSE g : Is(g)
  <1>1. m \in Nat /\ 0 \in Nat /\ \A n \in 1 .. m : line[n] \in Nat
    OBVIOUS
  <1>2. \A n \in 1 .. m, e \in Nat :
           step[<<e, n>>] = e + line[n] /\ step[<<e, n>>] \in Nat
    <2> SUFFICES ASSUME NEW n \in 1 .. m, NEW e \in Nat
                 PROVE  step[<<e, n>>] = e + line[n] /\ step[<<e, n>>] \in Nat
      OBVIOUS
    <2>1. step[<<e, n>>] = e + line[n]
      OBVIOUS
    <2>2. line[n] \in Nat
      BY <1>1
    <2> QED BY <2>1, <2>2
  <1> HIDE DEF step
  <1>3. PICK g \in [0 .. m -> Nat] : Follows(g, 0, m, step)
    <2> HIDE DEF m, Is, f
    <2>1. Steps(Nat, m, step)
      BY <1>2 DEF Steps
    <2> QED BY <1>1, <2>1, Recursion
  <1>4. Is(g)
    <2> DEFINE h == [n \in 0 .. m |-> IF n = 0 THEN 0 ELSE g[n - 1] + line[n]]
    <2>1. ASSUME NEW n \in 0 .. m PROVE g[n] = h[n]
      <3>1. CASE n = 0
        BY <1>3, <3>1 DEF Follows
      <3>2. CASE n # 0
        <4>1. n \in 1 .. m /\ n - 1 \in 0 .. m
          BY <1>1, <3>2
        <4> QED BY <1>2, <1>3, <3>2, <4>1 DEF Follows
      <3> QED BY <3>1, <3>2
    <2>2. g = [n \in 0 .. m |-> g[n]] /\ h = [n \in 0 .. m |-> h[n]]
      OBVIOUS
    <2> HIDE DEF h
    <2>3. g = h
      BY <2>1, <2>2
    <2> QED BY <2>3 DEF h
  <1>5. Is(f)
    <2> HIDE DEF Is
    <2> QED BY <1>4
  <1>6. Bytes(line) = f
    BY DEF Bytes
  <1> HIDE DEF f
  <1>7. f[0] = 0 /\ \A n \in 0 .. m - 1 : f[n + 1] = f[n] + line[n + 1]
    <2>1. \A n \in 0 .. m : f[n] = IF n = 0 THEN 0 ELSE f[n - 1] + line[n]
      BY <1>5
    <2> HIDE DEF m, Is
    <2>2. 0 \in 0 .. m /\ \A n \in 0 .. m - 1 :
             n + 1 \in 0 .. m /\ n + 1 # 0 /\ (n + 1) - 1 = n
      BY <1>1
    <2>3. f[0] = 0
      BY <2>1, <2>2
    <2>4. ASSUME NEW n \in 0 .. m - 1 PROVE f[n + 1] = f[n] + line[n + 1]
      BY <2>1, <2>2
    <2> QED BY <2>3, <2>4
  <1> HIDE DEF Is
  <1>8. \A n \in 0 .. m : f[n] \in Nat
    <2>1. ASSUME NEW n \in 0 .. m - 1, f[n] \in Nat PROVE f[n + 1] \in Nat
      BY <1>1, <1>7, <2>1
    <2> HIDE DEF m
    <2> QED BY <1>1, <1>7, <2>1, Throughout
  <1> QED BY <1>6, <1>7, <1>8

LEMMA BytesGrow ==
    ASSUME NEW line \in Seq(1 .. 4), NEW i \in 0 .. Len(line), NEW j \in i .. Len(line)
    PROVE  Bytes(line)[i] <= Bytes(line)[j]
  <1> DEFINE m == Len(line)
             b == Bytes(line)
             S == {n \in 0 .. m : i <= n => b[i] <= b[n]}
  <1>1. /\ m \in Nat /\ \A n \in 1 .. m : line[n] \in Nat
        /\ \A n \in 0 .. m - 1 : b[n + 1] = b[n] + line[n + 1]
        /\ \A n \in 0 .. m : b[n] \in Nat
    <2>1. m \in Nat /\ \A n \in 1 .. m : line[n] \in Nat
      OBVIOUS
    <2>2. /\ \A n \in 0 .. m - 1 : b[n + 1] = b[n] + line[n + 1]
          /\ \A n \in 0 .. m : b[n] \in Nat
      BY BytesSteps
    <2> HIDE DEF m, b
    <2> QED BY <2>1, <2>2
  <1> HIDE DEF m, b
  <1>2. 0 \in S
    BY <1>1 DEF m
  <1>3. ASSUME NEW n \in 0 .. m - 1, n \in S PROVE n + 1 \in S
    <2>1. n \in 0 .. m /\ n + 1 \in 0 .. m /\ n + 1 \in 1 .. m /\ i \in 0 .. m
      BY <1>1 DEF m
    <2>2. /\ b[n + 1] = b[n] + line[n + 1] /\ line[n + 1] \in Nat
          /\ b[i] \in Nat /\ b[n] \in Nat /\ b[n + 1] \in Nat
      BY <1>1, <2>1
    <2>3. CASE i <= n
      <3>1. b[i] <= b[n]
        BY <1>3, <2>3
      <3> QED BY <2>1, <2>2, <3>1
    <2>4. CASE ~(i <= n)
      <3>1. i <= n + 1 => i = n + 1
        BY <2>1, <2>4
      <3> QED BY <2>1, <2>2, <3>1
    <2> QED BY <2>3, <2>4
  <1>4. j \in S
    <2>1. j \in 0 .. m
      BY <1>1 DEF m
    <2> HIDE DEF S
    <2>2. 0 .. m \subseteq S
      BY <1>1, <1>2, <1>3, UpToSets
    <2> QED BY <2>1, <2>2
  <1>5. i <= j
    BY <1>1 DEF m
  <1> QED BY <1>4, <1>5 DEF b

LEMMA CountsTyped ==
    ASSUME NEW width \in 1 .. 4, NEW left \in Int
    PROVE  /\ Counts(width, left) \in Nat
           /\ left <= 0 => Counts(width, left) = 0
           /\ left >= width => Counts(width, left) = IF width = 4 THEN 2 ELSE 1
  <1>1. CASE left <= 0
    BY <1>1 DEF Counts
  <1>2. CASE left \in 1 .. width - 1
    BY <1>2 DEF Counts
  <1>3. CASE left >= width
    <2>1. ~(left <= 0) /\ left \notin 1 .. width - 1
      BY <1>3
    <2>2. Counts(width, left) = IF width = 4 THEN 2 ELSE 1
      BY <2>1 DEF Counts
    <2> QED BY <2>1, <2>2
  <1> QED BY <1>1, <1>2, <1>3

\* Units counts rune by rune.
LEMMA UnitsSteps ==
    ASSUME NEW line \in Seq(1 .. 4), NEW offset \in Int, NEW at \in Nat,
           at = IF offset < 0 THEN 0 ELSE offset
    PROVE  \E u : /\ u[0] = 1
                  /\ \A r \in 0 .. Len(line) - 1 :
                        u[r + 1] = u[r] + Counts(line[r + 1], at - Bytes(line)[r])
                  /\ \A r \in 0 .. Len(line) : u[r] \in Nat
                  /\ Units(line, offset) = IF at > Bytes(line)[Len(line)] THEN at + 1
                                           ELSE u[Len(line)]
  <1> DEFINE m == Len(line)
      b == Bytes(line)
      step == [en \in Nat \X (1 .. m) |-> en[1] + Counts(line[en[2]], at - b[en[2] - 1])]
      Is(g) == g = [r \in 0 .. m |-> IF r = 0 THEN 1
                                     ELSE g[r - 1] + Counts(line[r], at - b[r - 1])]
      f == CHOOSE g : Is(g)
  <1>1. m \in Nat /\ 1 \in Nat /\ \A n \in 1 .. m : line[n] \in 1 .. 4
    OBVIOUS
  <1>2. ASSUME NEW n \in 1 .. m PROVE Counts(line[n], at - b[n - 1]) \in Nat
    <2>1. n - 1 \in 0 .. m
      BY <1>1
    <2>2. b[n - 1] \in Nat
      BY <2>1, BytesSteps
    <2> HIDE DEF b
    <2>3. at - b[n - 1] \in Int /\ line[n] \in 1 .. 4
      BY <1>1, <2>2
    <2> QED BY <2>3, CountsTyped
  <1>3. \A n \in 1 .. m, e \in Nat :
           /\ step[<<e, n>>] = e + Counts(line[n], at - b[n - 1])
           /\ step[<<e, n>>] \in Nat
    <2> HIDE DEF b
    <2> SUFFICES ASSUME NEW n \in 1 .. m, NEW e \in Nat
                 PROVE  /\ step[<<e, n>>] = e + Counts(line[n], at - b[n - 1])
                        /\ step[<<e, n>>] \in Nat
      OBVIOUS
    <2>1. step[<<e, n>>] = e + Counts(line[n], at - b[n - 1])
      OBVIOUS
    <2> QED BY <1>2, <2>1
  <1> HIDE DEF step
  <1>4. PICK g \in [0 .. m -> Nat] : Follows(g, 1, m, step)
    <2> HIDE DEF m, b, Is, f
    <2>1. Steps(Nat, m, step)
      BY <1>3 DEF Steps
    <2> QED BY <1>1, <2>1, Recursion
  <1>5. Is(g)
    <2> HIDE DEF b
    <2> DEFINE h == [r \in 0 .. m |-> IF r = 0 THEN 1
                                      ELSE g[r - 1] + Counts(line[r], at - b[r - 1])]
    <2>1. ASSUME NEW n \in 0 .. m PROVE g[n] = h[n]
      <3>1. CASE n = 0
        BY <1>4, <3>1 DEF Follows
      <3>2. CASE n # 0
        <4>1. n \in 1 .. m /\ n - 1 \in 0 .. m
          BY <1>1, <3>2
        <4> QED BY <1>3, <1>4, <3>2, <4>1 DEF Follows
      <3> QED BY <3>1, <3>2
    <2>2. g = [n \in 0 .. m |-> g[n]] /\ h = [n \in 0 .. m |-> h[n]]
      OBVIOUS
    <2> HIDE DEF h
    <2>3. g = h
      BY <2>1, <2>2
    <2> QED BY <2>3 DEF h
  <1>6. Is(f)
    <2> HIDE DEF Is
    <2> QED BY <1>5
  <1>7. Units(line, offset) = IF at > b[m] THEN at + 1 ELSE f[m]
    BY DEF Units
  <1> HIDE DEF f
  <1>8. f[0] = 1 /\ \A n \in 0 .. m - 1 :
                       f[n + 1] = f[n] + Counts(line[n + 1], at - b[n])
    <2> HIDE DEF b
    <2>1. \A n \in 0 .. m : f[n] = IF n = 0 THEN 1
                                   ELSE f[n - 1] + Counts(line[n], at - b[n - 1])
      BY <1>6
    <2> HIDE DEF m, Is
    <2>2. 0 \in 0 .. m /\ \A n \in 0 .. m - 1 :
             n + 1 \in 0 .. m /\ n + 1 # 0 /\ (n + 1) - 1 = n
      BY <1>1
    <2>3. f[0] = 1
      BY <2>1, <2>2
    <2>4. ASSUME NEW n \in 0 .. m - 1
          PROVE  f[n + 1] = f[n] + Counts(line[n + 1], at - b[n])
      BY <2>1, <2>2
    <2> QED BY <2>3, <2>4
  <1> HIDE DEF Is
  <1>9. \A n \in 0 .. m : f[n] \in Nat
    <2>1. ASSUME NEW n \in 0 .. m - 1, f[n] \in Nat PROVE f[n + 1] \in Nat
      <3> HIDE DEF b
      <3>1. n + 1 \in 1 .. m /\ (n + 1) - 1 = n
        BY <1>1
      <3>2. Counts(line[n + 1], at - b[n]) \in Nat
        BY <1>2, <3>1
      <3> QED BY <1>8, <2>1, <3>2
    <2> HIDE DEF m
    <2> QED BY <1>1, <1>8, <2>1, Throughout
  <1> QED BY <1>7, <1>8, <1>9

\* The wide runes before one are those before the last, and it.
LEMMA ColumnSteps ==
    ASSUME NEW line \in Seq(1 .. 4)
    PROVE  /\ Column(line, 1) = 1
           /\ \A r \in 1 .. Len(line) : /\ Column(line, r) \in Nat
                                        /\ Column(line, r + 1) =
                                              Column(line, r) + IF line[r] = 4 THEN 2 ELSE 1
  <1> DEFINE wide(r) == {q \in 1 .. r - 1 : line[q] = 4}
  <1>1. \A r \in Nat : IsFiniteSet(wide(r)) /\ Cardinality(wide(r)) \in Nat
    <2> SUFFICES ASSUME NEW r \in Nat PROVE IsFiniteSet(wide(r))
      BY FS_CardinalityType
    <2>1. IsFiniteSet(1 .. r - 1)
      BY FS_Interval
    <2>2. wide(r) \subseteq 1 .. r - 1
      OBVIOUS
    <2> QED BY <2>1, <2>2, FS_Subset
  <1>2. wide(1) = {}
    OBVIOUS
  <1>3. Cardinality(wide(1)) = 0
    BY <1>2, FS_EmptySet
  <1>4. ASSUME NEW r \in 1 .. Len(line)
        PROVE  Cardinality(wide(r + 1)) = Cardinality(wide(r)) + IF line[r] = 4 THEN 1 ELSE 0
    <2>1. CASE line[r] = 4
      <3>1. wide(r + 1) = wide(r) \cup {r} /\ r \notin wide(r)
        BY <2>1
      <3> HIDE DEF wide
      <3>2. IsFiniteSet(wide(r)) /\ Cardinality(wide(r)) \in Nat
        BY <1>1
      <3>3. Cardinality(wide(r) \cup {r}) = Cardinality(wide(r)) + 1
        BY <3>1, <3>2, FS_AddElement
      <3> QED BY <2>1, <3>1, <3>3
    <2>2. CASE line[r] # 4
      <3>1. wide(r + 1) = wide(r)
        BY <2>2
      <3> HIDE DEF wide
      <3>2. Cardinality(wide(r)) \in Nat
        BY <1>1
      <3> QED BY <2>2, <3>1, <3>2
    <2> QED BY <2>1, <2>2
  <1>5. \A r \in Nat : Column(line, r) = r + Cardinality(wide(r))
    BY DEF Column
  <1> HIDE DEF wide
  <1>6. ASSUME NEW r \in 1 .. Len(line)
        PROVE  /\ Column(line, r) \in Nat
               /\ Column(line, r + 1) = Column(line, r) + IF line[r] = 4 THEN 2 ELSE 1
    <2>1. r \in Nat /\ r + 1 \in Nat
      OBVIOUS
    <2>2. /\ Column(line, r) = r + Cardinality(wide(r)) /\ Cardinality(wide(r)) \in Nat
          /\ Column(line, r + 1) = r + 1 + Cardinality(wide(r + 1))
      BY <1>1, <1>5, <2>1
    <2>3. CASE line[r] = 4
      <3>1. Cardinality(wide(r + 1)) = Cardinality(wide(r)) + 1
        BY <1>4, <2>3
      <3> QED BY <2>1, <2>2, <2>3, <3>1
    <2>4. CASE line[r] # 4
      <3>1. Cardinality(wide(r + 1)) = Cardinality(wide(r)) + 0
        BY <1>4, <2>4
      <3> QED BY <2>1, <2>2, <2>4, <3>1
    <2> QED BY <2>3, <2>4
  <1>7. Column(line, 1) = 1
    BY <1>3, <1>5
  <1> QED BY <1>6, <1>7

\* Without the line a byte is a unit.
LEMMA NoLine ==
    ASSUME NEW x \in Nat
    PROVE  Units(<<>>, x) = x + 1
  <1>1. PICK e \in Seq(1 .. 4) : e = <<>>
    BY EmptyTyped
  <1>2. PICK at \in Nat, o \in Int : at = x /\ o = x /\ at = IF o < 0 THEN 0 ELSE o
    OBVIOUS
  <1>3. Len(e) = 0
    BY <1>1
  <1>4. Bytes(e)[0] = 0
    BY BytesSteps
  <1>5. PICK u : /\ u[0] = 1
                 /\ \A r \in 0 .. Len(e) - 1 :
                       u[r + 1] = u[r] + Counts(e[r + 1], at - Bytes(e)[r])
                 /\ \A r \in 0 .. Len(e) : u[r] \in Nat
                 /\ Units(e, o) = IF at > Bytes(e)[Len(e)] THEN at + 1 ELSE u[Len(e)]
    BY <1>2, UnitsSteps
  <1> QED BY <1>1, <1>2, <1>3, <1>4, <1>5

\* In a line of any runes the column of the byte a rune begins at is the one a
\* compiler reports, and without the line esbuild's own number is kept
\* (compile.go:143-144, esbuild.go:460-483).
THEOREM ColumnsAreTold ==
    ASSUME NEW line \in Seq(1 .. 4)
    PROVE  ColumnsAgree(line)
  <1>1. PICK m \in Nat : m = Len(line)
    OBVIOUS
  <1>2. PICK b : b = Bytes(line)
    OBVIOUS
  <1>3. /\ b[0] = 0
        /\ \A n \in 0 .. m - 1 : b[n + 1] = b[n] + line[n + 1]
        /\ \A n \in 0 .. m : b[n] \in Nat
    BY <1>1, <1>2, BytesSteps
  <1>4. \A n \in 1 .. m : line[n] \in 1 .. 4
    BY <1>1
  <1>5. \A i \in 0 .. m : \A j \in i .. m : b[i] <= b[j]
    BY <1>1, <1>2, BytesGrow
  <1>6. /\ Column(line, 1) = 1
        /\ \A r \in 1 .. m : /\ Column(line, r) \in Nat
                             /\ Column(line, r + 1) =
                                   Column(line, r) + IF line[r] = 4 THEN 2 ELSE 1
    BY <1>1, ColumnSteps
  <1>7. ASSUME NEW k \in 0 .. m, NEW offset \in Int,
               b[k] = IF offset < 0 THEN 0 ELSE offset
        PROVE  Units(line, offset) = Column(line, k + 1)
    <2>1. PICK at \in Nat : at = b[k]
      BY <1>3
    <2>2. PICK u : /\ u[0] = 1
                   /\ \A r \in 0 .. m - 1 : u[r + 1] = u[r] + Counts(line[r + 1], at - b[r])
                   /\ \A r \in 0 .. m : u[r] \in Nat
                   /\ Units(line, offset) = IF at > b[m] THEN at + 1 ELSE u[m]
      <3>1. at = IF offset < 0 THEN 0 ELSE offset
        BY <1>7, <2>1
      <3>2. PICK u : /\ u[0] = 1
                     /\ \A r \in 0 .. Len(line) - 1 :
                           u[r + 1] = u[r] + Counts(line[r + 1], at - Bytes(line)[r])
                     /\ \A r \in 0 .. Len(line) : u[r] \in Nat
                     /\ Units(line, offset) = IF at > Bytes(line)[Len(line)] THEN at + 1
                                              ELSE u[Len(line)]
        BY <3>1, UnitsSteps
      <3> QED BY <1>1, <1>2, <3>2
    <2> DEFINE S == {r \in 0 .. m : u[r] = Column(line, IF r <= k THEN r + 1 ELSE k + 1)}
    <2>3. 0 \in S
      BY <1>1, <1>6, <2>2
    <2>4. ASSUME NEW r \in 0 .. m - 1, r \in S PROVE r + 1 \in S
      <3>1. r \in 0 .. m /\ r + 1 \in 0 .. m /\ r + 1 \in 1 .. m /\ b[r] \in Nat
            /\ b[r + 1] \in Nat /\ line[r + 1] \in 1 .. 4 /\ b[r + 1] = b[r] + line[r + 1]
        BY <1>3, <1>4
      <3>2. u[r] \in Nat /\ u[r + 1] = u[r] + Counts(line[r + 1], at - b[r])
        BY <2>2, <3>1
      <3>3. at - b[r] \in Int
        BY <3>1
      <3>4. CASE r < k
        <4>1. b[r + 1] <= b[k]
          <5>1. k \in r + 1 .. m
            BY <3>1, <3>4
          <5> QED BY <1>5, <3>1, <5>1
        <4>2. at - b[r] >= line[r + 1]
          <5>1. b[k] \in Nat
            BY <1>3
          <5>2. b[r] + line[r + 1] <= at
            BY <2>1, <3>1, <4>1
          <5> QED BY <3>1, <5>2, SMTT(40)
        <4>3. Counts(line[r + 1], at - b[r]) = IF line[r + 1] = 4 THEN 2 ELSE 1
          BY <3>1, <3>3, <4>2, CountsTyped
        <4>4. u[r] = Column(line, r + 1)
          BY <2>4, <3>4
        <4>5. Column(line, r + 1 + 1) = Column(line, r + 1) + IF line[r + 1] = 4 THEN 2 ELSE 1
          BY <1>6, <3>1
        <4>6. u[r + 1] = Column(line, r + 1 + 1)
          BY <3>2, <4>3, <4>4, <4>5
        <4>7. r + 1 <= k
          BY <3>4
        <4> QED BY <3>1, <4>6, <4>7
      <3>5. CASE ~(r < k)
        <4>1. b[k] <= b[r]
          <5>1. r \in k .. m
            BY <3>1, <3>5
          <5> QED BY <1>5, <5>1
        <4>2. at - b[r] <= 0
          BY <2>1, <3>1, <4>1
        <4>3. Counts(line[r + 1], at - b[r]) = 0
          BY <3>1, <3>3, <4>2, CountsTyped
        <4>4. u[r] = Column(line, k + 1)
          <5>1. (IF r <= k THEN r + 1 ELSE k + 1) = k + 1
            BY <3>5
          <5> QED BY <2>4, <5>1
        <4>5. ~(r + 1 <= k)
          BY <3>5
        <4>6. u[r + 1] = Column(line, k + 1)
          BY <3>2, <4>3, <4>4
        <4> QED BY <3>1, <4>5, <4>6
      <3> QED BY <3>4, <3>5
    <2>5. m \in S
      <3> HIDE DEF S
      <3>1. 0 .. m \subseteq S
        BY <2>3, <2>4, UpToSets
      <3> QED BY <3>1
    <2>6. u[m] = Column(line, k + 1)
      <3>1. (IF m <= k THEN m + 1 ELSE k + 1) = k + 1
        OBVIOUS
      <3> QED BY <2>5, <3>1
    <2>7. ~(at > b[m])
      <3>1. m \in k .. m /\ m \in 0 .. m
        OBVIOUS
      <3>2. b[k] <= b[m] /\ b[m] \in Nat
        BY <1>3, <1>5, <3>1
      <3> QED BY <2>1, <3>2
    <2> QED BY <2>2, <2>6, <2>7
  <1>8. Units(line, -1) = 1
    <2>1. b[0] = (IF -1 < 0 THEN 0 ELSE -1) /\ -1 \in Int /\ 0 \in 0 .. m /\ 0 + 1 = 1
      BY <1>3
    <2> QED BY <1>6, <1>7, <2>1
  <1>9. \A x \in Nat : Units(<<>>, x) = x + 1
    BY NoLine
  <1>10. ASSUME NEW r \in 1 .. m + 1
         PROVE  /\ Units(line, b[r - 1]) = Column(line, r)
                /\ Units(<<>>, b[r - 1]) = b[r - 1] + 1
    <2>1. PICK k \in 0 .. m : r - 1 = k /\ r = k + 1
      <3>1. r - 1 \in 0 .. m /\ r = (r - 1) + 1
        OBVIOUS
      <3> QED BY <3>1
    <2>2. b[k] \in Nat
      BY <1>3
    <2>3. b[k] \in Int /\ b[k] = IF b[k] < 0 THEN 0 ELSE b[k]
      BY <2>2
    <2> QED BY <1>7, <1>9, <2>1, <2>2, <2>3
  <1> QED BY <1>1, <1>2, <1>8, <1>10 DEF ColumnsAgree

-----------------------------------------------------------------------------
(* artifact.                                                                 *)

\* A message of esbuild's, and a path of its.
Outputs == [rooted : {TRUE}, segs : Seq(STRING)]
Quoted  == [located : BOOLEAN, line : Nat \ {0}, column : Nat, file : Outputs,
            runes : Seq(1 .. 4), code : STRING, text : STRING, notes : Seq(STRING)]

\* A rooted path has a name if it is below the root, and then it is that one's.
LEMMA OutputNamed ==
    ASSUME NEW p \in Outputs
    PROVE  /\ Rel(p, Root) # Refused <=> IsStrictPrefix(Root, Clean(p).segs)
           /\ Rel(p, Root) # Refused => Full(Rel(p, Root), Root) = Clean(p)
  <1>1. p \in Paths /\ p.rooted
    BY DEF Outputs, Paths, Segments
  <1> QED BY <1>1, RootIsRoot, RelIsInside

LEMMA NoteTyped ==
    ASSUME NEW S, NEW e \in Seq(S), NEW note \in S
    PROVE  WithNote(e, note) \in Seq(S)
  <1>1. Append(e, note) \in Seq(S)
    OBVIOUS
  <1>2. WithNote(e, note) = e \/ WithNote(e, note) = Append(e, note)
    BY Zenon DEF WithNote
  <1> QED BY <1>1, <1>2, Zenon

\* Note by note, what a message says.
LEMMA NotesSteps ==
    ASSUME NEW m \in Quoted
    PROVE  \E text : /\ text[0] = <<m.text>>
                     /\ \A n \in 0 .. Len(m.notes) - 1 :
                           text[n + 1] = WithNote(text[n], m.notes[n + 1])
                     /\ \A n \in 0 .. Len(m.notes) : text[n] \in Seq(STRING)
                     /\ WithNotes(m) = text[Len(m.notes)]
  <1>1. PICK w \in Seq(STRING) : w = m.notes
    BY DEF Quoted
  <1>2. PICK first \in Seq(STRING) : first = <<m.text>>
    BY Single DEF Quoted
  <1> DEFINE k == Len(w)
      step == [en \in Seq(STRING) \X (1 .. k) |-> WithNote(en[1], w[en[2]])]
      Is(g) == g = [n \in 0 .. k |-> IF n = 0 THEN first ELSE WithNote(g[n - 1], w[n])]
      f == CHOOSE g : Is(g)
  <1>3. k \in Nat /\ \A n \in 1 .. k : w[n] \in STRING
    BY Elements
  <1>4. \A e \in Seq(STRING), note \in STRING : WithNote(e, note) \in Seq(STRING)
    BY NoteTyped
  <1>5. \A n \in 1 .. k, e \in Seq(STRING) :
           step[<<e, n>>] = WithNote(e, w[n]) /\ step[<<e, n>>] \in Seq(STRING)
    <2> SUFFICES ASSUME NEW n \in 1 .. k, NEW e \in Seq(STRING)
                 PROVE  step[<<e, n>>] = WithNote(e, w[n]) /\ step[<<e, n>>] \in Seq(STRING)
      OBVIOUS
    <2>1. step[<<e, n>>] = WithNote(e, w[n])
      OBVIOUS
    <2>2. w[n] \in STRING
      BY <1>3
    <2> QED BY <1>4, <2>1, <2>2
  <1> HIDE DEF step
  <1>6. PICK g \in [0 .. k -> Seq(STRING)] : Follows(g, first, k, step)
    <2> HIDE DEF k, Is, f
    <2>1. Steps(Seq(STRING), k, step)
      BY <1>5 DEF Steps
    <2> QED BY <1>3, <2>1, Recursion
  <1>7. Is(g)
    <2> DEFINE h == [n \in 0 .. k |-> IF n = 0 THEN first ELSE WithNote(g[n - 1], w[n])]
    <2>1. ASSUME NEW n \in 0 .. k PROVE g[n] = h[n]
      <3>1. CASE n = 0
        BY <1>6, <3>1 DEF Follows
      <3>2. CASE n # 0
        <4>1. n \in 1 .. k /\ n - 1 \in 0 .. k
          BY <1>3, <3>2
        <4> QED BY <1>5, <1>6, <3>2, <4>1 DEF Follows
      <3> QED BY <3>1, <3>2
    <2>2. g = [n \in 0 .. k |-> g[n]] /\ h = [n \in 0 .. k |-> h[n]]
      OBVIOUS
    <2> HIDE DEF h
    <2>3. g = h
      BY <2>1, <2>2
    <2> QED BY <2>3 DEF h
  <1>8. Is(f)
    <2> HIDE DEF Is
    <2> QED BY <1>7
  <1>9. WithNotes(m) = f[k]
    BY <1>1, <1>2 DEF WithNotes
  <1> HIDE DEF f
  <1>10. f[0] = first /\ \A n \in 0 .. k - 1 : f[n + 1] = WithNote(f[n], w[n + 1])
    <2>1. \A n \in 0 .. k : f[n] = IF n = 0 THEN first ELSE WithNote(f[n - 1], w[n])
      BY <1>8
    <2> HIDE DEF k, Is
    <2>2. 0 \in 0 .. k /\ \A n \in 0 .. k - 1 :
             n + 1 \in 0 .. k /\ n + 1 # 0 /\ (n + 1) - 1 = n
      BY <1>3
    <2>3. f[0] = first
      BY <2>1, <2>2
    <2>4. ASSUME NEW n \in 0 .. k - 1 PROVE f[n + 1] = WithNote(f[n], w[n + 1])
      BY <2>1, <2>2
    <2> QED BY <2>3, <2>4
  <1> HIDE DEF Is
  <1>11. \A n \in 0 .. k : f[n] \in Seq(STRING)
    <2>1. ASSUME NEW n \in 0 .. k - 1, f[n] \in Seq(STRING) PROVE f[n + 1] \in Seq(STRING)
      <3>1. n + 1 \in 1 .. k
        BY <1>3
      <3>2. w[n + 1] \in STRING
        BY <1>3, <3>1
      <3> QED BY <1>4, <1>10, <2>1, <3>2
    <2> HIDE DEF k
    <2>2. f[0] \in Seq(STRING)
      BY <1>10
    <2> QED BY <1>3, <2>1, <2>2, Throughout
  <1> QED BY <1>1, <1>2, <1>9, <1>10, <1>11

\* How many of the first numbers are in a set.
LEMMA CountSteps ==
    ASSUME NEW W
    PROVE  /\ Cardinality({k \in 1 .. 0 : k \in W}) = 0
           /\ \A n \in Nat :
                 /\ Cardinality({k \in 1 .. n : k \in W}) \in Nat
                 /\ Cardinality({k \in 1 .. n + 1 : k \in W}) =
                       Cardinality({k \in 1 .. n : k \in W}) + IF n + 1 \in W THEN 1 ELSE 0
  <1> DEFINE those(n) == {k \in 1 .. n : k \in W}
  <1>1. ASSUME NEW n \in Nat PROVE IsFiniteSet(those(n)) /\ Cardinality(those(n)) \in Nat
    <2>1. IsFiniteSet(1 .. n)
      BY FS_Interval
    <2>2. those(n) \subseteq 1 .. n
      OBVIOUS
    <2>3. IsFiniteSet(those(n))
      BY <2>1, <2>2, FS_Subset
    <2> QED BY <2>3, FS_CardinalityType
  <1>2. those(0) = {}
    OBVIOUS
  <1>3. Cardinality(those(0)) = 0
    BY <1>2, FS_EmptySet
  <1>4. ASSUME NEW n \in Nat
        PROVE  Cardinality(those(n + 1)) = Cardinality(those(n)) + IF n + 1 \in W THEN 1 ELSE 0
    <2>1. \A k : k \in 1 .. n + 1 <=> k \in 1 .. n \/ k = n + 1
      OBVIOUS
    <2>2. n + 1 \notin 1 .. n
      OBVIOUS
    <2>3. CASE n + 1 \in W
      <3>1. those(n + 1) = those(n) \cup {n + 1}
        BY <2>1, <2>3
      <3>2. n + 1 \notin those(n)
        BY <2>2
      <3> HIDE DEF those
      <3>3. IsFiniteSet(those(n)) /\ Cardinality(those(n)) \in Nat
        BY <1>1
      <3>4. Cardinality(those(n) \cup {n + 1}) = Cardinality(those(n)) + 1
        BY <3>2, <3>3, FS_AddElement
      <3> QED BY <2>3, <3>1, <3>4
    <2>4. CASE n + 1 \notin W
      <3>1. those(n + 1) = those(n)
        BY <2>1, <2>4
      <3> HIDE DEF those
      <3>2. Cardinality(those(n)) \in Nat
        BY <1>1
      <3> QED BY <2>4, <3>1, <3>2
    <2> QED BY <2>3, <2>4
  <1> QED BY <1>1, <1>3, <1>4

\* How many of the first notes say something.
LEMMA SpokenSteps ==
    ASSUME NEW w
    PROVE  /\ Spoken(w, 0) = 0
           /\ \A n \in Nat :
                 /\ Spoken(w, n) \in Nat
                 /\ w[n + 1] # "" => Spoken(w, n + 1) = Spoken(w, n) + 1
                 /\ w[n + 1] = "" => Spoken(w, n + 1) = Spoken(w, n)
  <1>1. PICK W : \A k : k \in W <=> k \in Nat /\ w[k] # ""
    <2>1. \A k : k \in {j \in Nat : w[j] # ""} <=> k \in Nat /\ w[k] # ""
      BY Zenon
    <2> QED BY <2>1, Zenon
  <1> DEFINE those(n) == {k \in 1 .. n : k \in W}
  <1>2. ASSUME NEW n \in Nat PROVE Spoken(w, n) = Cardinality(those(n))
    <2>1. \A k : k \in 1 .. n => k \in Nat
      OBVIOUS
    <2>2. {k \in 1 .. n : w[k] # ""} = those(n)
      BY <1>1, <2>1, Zenon
    <2> QED BY <2>2, Zenon DEF Spoken
  <1>3. \A n \in Nat : n + 1 \in Nat
    OBVIOUS
  <1>4. /\ Cardinality(those(0)) = 0
        /\ \A n \in Nat : /\ Cardinality(those(n)) \in Nat
                          /\ Cardinality(those(n + 1)) =
                                Cardinality(those(n)) + IF n + 1 \in W THEN 1 ELSE 0
    BY CountSteps
  <1> HIDE DEF those
  <1>5. Spoken(w, 0) = 0
    BY <1>2, <1>4
  <1>6. ASSUME NEW n \in Nat
        PROVE  /\ Spoken(w, n) \in Nat
               /\ n + 1 \in W => Spoken(w, n + 1) = Spoken(w, n) + 1
               /\ n + 1 \notin W => Spoken(w, n + 1) = Spoken(w, n)
    <2>1. PICK c \in Nat, e \in Nat :
             /\ c = Cardinality(those(n)) /\ e = Cardinality(those(n + 1))
             /\ e = c + IF n + 1 \in W THEN 1 ELSE 0
      BY <1>3, <1>4
    <2>2. Spoken(w, n) = c /\ Spoken(w, n + 1) = e
      BY <1>2, <1>3, <2>1
    <2> QED BY <2>1, <2>2
  <1>7. \A n \in Nat : n + 1 \in W <=> w[n + 1] # ""
    BY <1>1, <1>3, Zenon
  <1> QED BY <1>5, <1>6, <1>7, Zenon

\* A message is said with all of its notes, in their order.
LEMMA NotesKept ==
    ASSUME NEW m \in Quoted
    PROVE  /\ Len(WithNotes(m)) = 1 + Spoken(m.notes, Len(m.notes))
           /\ WithNotes(m)[1] = m.text
           /\ \A k \in 1 .. Len(m.notes) :
                 m.notes[k] # "" => WithNotes(m)[1 + Spoken(m.notes, k)] = m.notes[k]
  <1>1. PICK w \in Seq(STRING), l \in Nat : w = m.notes /\ l = Len(w)
    BY DEF Quoted
  <1>2. PICK text : /\ text[0] = <<m.text>>
                    /\ \A n \in 0 .. l - 1 : text[n + 1] = WithNote(text[n], w[n + 1])
                    /\ \A n \in 0 .. l : text[n] \in Seq(STRING)
                    /\ WithNotes(m) = text[l]
    BY <1>1, NotesSteps
  <1>3. /\ Spoken(w, 0) = 0
        /\ \A n \in Nat :
              /\ Spoken(w, n) \in Nat
              /\ w[n + 1] # "" => Spoken(w, n + 1) = Spoken(w, n) + 1
              /\ w[n + 1] = "" => Spoken(w, n + 1) = Spoken(w, n)
    BY SpokenSteps
  <1>4. PICK first : first = m.text
    OBVIOUS
  <1> DEFINE Stands(t, n) ==
                 /\ Len(t) = 1 + Spoken(w, n) /\ t[1] = first
                 /\ \A k \in 1 .. n : w[k] # "" =>
                       1 + Spoken(w, k) \in 1 .. Len(t) /\ t[1 + Spoken(w, k)] = w[k]
      S == {n \in 0 .. l : Stands(text[n], n)}
  <1>5. 0 \in S
    <2>1. PICK t : t = text[0] /\ t = <<first>>
      BY <1>2, <1>4
    <2>2. Len(t) = 1 + 0 /\ t[1] = first
      BY <2>1
    <2>3. 1 .. 0 = {}
      OBVIOUS
    <2>4. Stands(t, 0)
      BY <1>3, <2>2, <2>3
    <2> HIDE DEF Stands
    <2>5. 0 \in 0 .. l
      OBVIOUS
    <2> QED BY <2>1, <2>4, <2>5
  <1>6. ASSUME NEW n \in 0 .. l - 1, n \in S PROVE n + 1 \in S
    <2>1. /\ n \in Nat /\ n \in 0 .. l /\ n + 1 \in 0 .. l /\ n + 1 \in 1 .. l
          /\ \A k \in 1 .. n + 1 : k \in 1 .. n \/ k = n + 1
      OBVIOUS
    <2>2. /\ text[n] \in Seq(STRING) /\ Spoken(w, n) \in Nat /\ w[n + 1] \in STRING
          /\ text[n + 1] = WithNote(text[n], w[n + 1])
      <3>1. w[n + 1] \in STRING
        BY <1>1, <2>1, Elements
      <3> QED BY <1>2, <1>3, <2>1, <3>1
    <2>3. PICK T : T = STRING
      OBVIOUS
    <2>3a. text[n + 1] \in Seq(STRING) /\ Spoken(w, n + 1) \in Nat
      <3>1. n + 1 \in Nat
        BY <2>1
      <3> QED BY <1>2, <1>3, <2>1, <3>1
    <2>4. PICK t \in Seq(T), c \in Nat, note \in T, u \in Seq(T), e \in Nat :
             /\ t = text[n] /\ c = Spoken(w, n) /\ note = w[n + 1]
             /\ u = WithNote(t, note) /\ u = text[n + 1] /\ e = Spoken(w, n + 1)
      BY <2>2, <2>3, <2>3a, Zenon
    <2>5. Len(t) \in Nat /\ Len(t) = 1 + c /\ t[1] = first
      <3>1. Len(text[n]) = 1 + Spoken(w, n) /\ text[n][1] = first
        BY <1>6
      <3>2. Len(t) = 1 + c /\ t[1] = first
        BY <2>4, <3>1, Zenon
      <3> QED BY <3>2
    <2>6. ASSUME NEW k \in 1 .. n, w[k] # ""
          PROVE  1 + Spoken(w, k) \in 1 .. Len(t) /\ t[1 + Spoken(w, k)] = w[k]
      BY <1>6, <2>4, <2>6
    <2>7. CASE note = ""
      <3>1. u = t
        BY <2>4, <2>7, Zenon DEF WithNote
      <3>2. e = c
        BY <1>3, <2>1, <2>4, <2>7, Zenon
      <3>3. \A k \in 1 .. n + 1 : w[k] # "" => k \in 1 .. n
        BY <2>1, <2>4, <2>7, Zenon
      <3>4. Stands(u, n + 1)
        BY <2>4, <2>5, <2>6, <3>1, <3>2, <3>3
      <3> HIDE DEF Stands
      <3> QED BY <2>1, <2>4, <3>4
    <2>8. CASE note # ""
      <3>1. /\ Len(u) = Len(t) + 1 /\ u[Len(t) + 1] = note
            /\ \A i \in 1 .. Len(t) : u[i] = t[i]
        <4>1. PICK x \in Seq(T) : x = Append(t, note)
          <5>1. Append(t, note) \in Seq(T)
            OBVIOUS
          <5> QED BY <5>1, Zenon
        <4>2. u = x
          BY <2>4, <2>8, <4>1, Zenon DEF WithNote
        <4>3. /\ Len(x) = Len(t) + 1 /\ x[Len(t) + 1] = note
              /\ \A i \in 1 .. Len(t) : x[i] = t[i]
          BY <4>1
        <4> QED BY <4>2, <4>3, Zenon
      <3>2. e = c + 1
        BY <1>3, <2>1, <2>4, <2>8, Zenon
      <3>3. /\ Len(u) = 1 + e /\ Len(t) + 1 = 1 + e /\ 1 \in 1 .. Len(t)
            /\ 1 + e \in 1 .. Len(u) /\ \A i \in 1 .. Len(t) : i \in 1 .. Len(u)
        BY <2>5, <3>1, <3>2
      <3>4. u[1] = first /\ u[1 + e] = note
        BY <2>5, <3>1, <3>3
      <3>5. ASSUME NEW k \in 1 .. n + 1, w[k] # ""
            PROVE  1 + Spoken(w, k) \in 1 .. Len(u) /\ u[1 + Spoken(w, k)] = w[k]
        <4>1. CASE k \in 1 .. n
          <5>1. 1 + Spoken(w, k) \in 1 .. Len(t) /\ t[1 + Spoken(w, k)] = w[k]
            BY <2>6, <3>5, <4>1
          <5> QED BY <3>1, <3>3, <5>1
        <4>2. CASE k = n + 1
          BY <2>4, <3>3, <3>4, <4>2
        <4> QED BY <2>1, <4>1, <4>2
      <3>6. Stands(u, n + 1)
        BY <2>4, <3>3, <3>4, <3>5
      <3> HIDE DEF Stands
      <3> QED BY <2>1, <2>4, <3>6
    <2> QED BY <2>7, <2>8
  <1>7. l \in S
    <2> HIDE DEF S
    <2>1. 0 .. l \subseteq S
      BY <1>5, <1>6, UpToSets
    <2> QED BY <2>1
  <1> QED BY <1>1, <1>2, <1>4, <1>7

LEMMA MessageKept ==
    ASSUME NEW m \in Quoted, NEW severity
    PROVE  LET d == Message(m, severity)
           IN  Placed(d, m) /\ Worded(d, m) /\ d.severity = severity
  <1>1. /\ m.file \in Outputs /\ m.line \in Nat \ {0} /\ m.located \in BOOLEAN
        /\ m.column \in Nat /\ m.runes \in Seq(1 .. 4)
    BY DEF Quoted
  <1>2. PICK d : d = Message(m, severity)
    OBVIOUS
  <1>3. /\ d.file = IF m.located THEN Rel(m.file, Root) ELSE Refused
        /\ d.line = IF m.located THEN m.line ELSE 0
        /\ d.col = IF m.located THEN Units(m.runes, m.column) ELSE 0
        /\ d.severity = severity /\ d.code = m.code /\ d.text = WithNotes(m)
    BY <1>2 DEF Message
  <1>4. Worded(d, m)
    BY <1>3, NotesKept DEF Worded
  <1>5. /\ Rel(m.file, Root) # Refused <=> IsStrictPrefix(Root, Clean(m.file).segs)
        /\ Rel(m.file, Root) # Refused => Full(Rel(m.file, Root), Root) = Clean(m.file)
    BY <1>1, OutputNamed
  <1>6. \A r \in 1 .. Len(m.runes) + 1 :
           Units(m.runes, Bytes(m.runes)[r - 1]) = Column(m.runes, r)
    BY <1>1, ColumnsAreTold DEF ColumnsAgree
  <1>7. Units(<<>>, m.column) = m.column + 1
    BY <1>1, NoLine
  <1>8. CASE m.located
    <2>1. /\ d.file = Rel(m.file, Root) /\ d.line = m.line
          /\ d.col = Units(m.runes, m.column)
      BY <1>3, <1>8
    <2>2. \A r \in 1 .. Len(m.runes) + 1 :
             m.column = Bytes(m.runes)[r - 1] => d.col = Column(m.runes, r)
      BY <1>6, <2>1
    <2>3. m.runes = <<>> => d.col = m.column + 1
      BY <1>7, <2>1
    <2>4. Placed(d, m)
      BY <1>5, <1>8, <2>1, <2>2, <2>3 DEF Placed
    <2> QED BY <1>2, <1>3, <1>4, <2>4
  <1>9. CASE ~m.located
    <2>1. d.file = Refused /\ d.line = 0 /\ d.col = 0
      BY <1>3, <1>9
    <2>2. Placed(d, m)
      BY <1>9, <2>1 DEF Placed
    <2> QED BY <1>2, <1>3, <1>4, <2>2
  <1> QED BY <1>8, <1>9

LEMMA MessagesKept ==
    ASSUME NEW s \in Seq(Quoted), NEW t \in Seq(Quoted)
    PROVE  /\ Len(Messages(s, "error") \o Messages(t, "warning")) = Len(s \o t)
           /\ \A i \in DOMAIN (s \o t) :
                 /\ (Messages(s, "error") \o Messages(t, "warning"))[i] =
                       Message((s \o t)[i], IF i <= Len(s) THEN "error" ELSE "warning")
                 /\ (s \o t)[i] \in Quoted
  <1> DEFINE T == {Message(m, v) : m \in Quoted, v \in {"error", "warning"}}
  <1>1. ASSUME NEW q \in Seq(Quoted), NEW v \in {"error", "warning"}
        PROVE  /\ Messages(q, v) \in Seq(T) /\ Len(Messages(q, v)) = Len(q)
               /\ \A i \in 1 .. Len(q) : Messages(q, v)[i] = Message(q[i], v)
    <2>1. Len(q) \in Nat /\ DOMAIN q = 1 .. Len(q) /\ \A i \in 1 .. Len(q) : q[i] \in Quoted
      BY Elements
    <2>2. Messages(q, v) = [i \in 1 .. Len(q) |-> Message(q[i], v)]
      BY <2>1 DEF Messages
    <2>3. \A i \in 1 .. Len(q) : Message(q[i], v) \in T
      BY <2>1
    <2> HIDE DEF T
    <2>4. PICK ms : ms = Messages(q, v)
      OBVIOUS
    <2>5. /\ ms \in Seq(T) /\ Len(ms) = Len(q)
          /\ \A i \in 1 .. Len(q) : ms[i] = Message(q[i], v)
      BY <2>1, <2>2, <2>3, <2>4
    <2> QED BY <2>4, <2>5
  <1> HIDE DEF T
  <1>2. PICK L \in Nat, M \in Nat : Len(s) = L /\ Len(t) = M
    OBVIOUS
  <1>3. PICK a \in Seq(T), b \in Seq(T) :
           /\ a = Messages(s, "error") /\ Len(a) = L
           /\ \A i \in 1 .. L : a[i] = Message(s[i], "error")
           /\ b = Messages(t, "warning") /\ Len(b) = M
           /\ \A i \in 1 .. M : b[i] = Message(t[i], "warning")
    <2>1. /\ Messages(s, "error") \in Seq(T) /\ Len(Messages(s, "error")) = L
          /\ \A i \in 1 .. L : Messages(s, "error")[i] = Message(s[i], "error")
      BY <1>1, <1>2
    <2>2. /\ Messages(t, "warning") \in Seq(T) /\ Len(Messages(t, "warning")) = M
          /\ \A i \in 1 .. M : Messages(t, "warning")[i] = Message(t[i], "warning")
      BY <1>1, <1>2
    <2> QED BY <2>1, <2>2
  <1>4. PICK x \in Seq(Quoted) : x = s \o t /\ IsJoin(x, s, L, t, M)
    BY <1>2, JoinNamed
  <1>5. PICK y \in Seq(T) : y = a \o b /\ IsJoin(y, a, L, b, M)
    BY <1>3, JoinNamed
  <1>6. Len(x) = L + M /\ Len(y) = L + M
    BY <1>4, <1>5 DEF IsJoin
  <1>7. DOMAIN x = 1 .. L + M /\ \A i \in 1 .. L + M : x[i] \in Quoted
    BY <1>6, Elements
  <1>8. ASSUME NEW i \in 1 .. L + M
        PROVE  y[i] = Message(x[i], IF i <= L THEN "error" ELSE "warning")
    <2>1. CASE i <= L
      <3>1. i \in 1 .. L
        BY <2>1
      <3>2. y[i] = Message(x[i], "error")
        BY <1>3, <1>4, <1>5, <3>1 DEF IsJoin
      <3> QED BY <2>1, <3>2
    <2>2. CASE ~(i <= L)
      <3>1. PICK j \in 1 .. M : i = L + j
        <4>1. i - L \in 1 .. M /\ i = L + (i - L)
          BY <2>2
        <4> QED BY <4>1
      <3>2. x[L + j] = t[j] /\ y[L + j] = b[j]
        BY <1>4, <1>5 DEF IsJoin
      <3>3. y[i] = Message(x[i], "warning")
        BY <1>3, <3>1, <3>2
      <3> QED BY <2>2, <3>3
    <2> QED BY <2>1, <2>2
  <1> QED BY <1>2, <1>3, <1>4, <1>5, <1>6, <1>7, <1>8

\* An artifact's files are the places esbuild wrote to, or there is no artifact, and
\* a message keeps its line, the column of the byte it points at, its file, its text
\* and its notes, errors first (esbuild.go:399-458).
THEOREM ArtifactIsKept ==
    ASSUME NEW resp \in Responses
    PROVE  ArtifactKept(resp)
  <1> DEFINE out == resp.outputs
             ms == resp.errors \o resp.warnings
             ds == Messages(resp.errors, "error") \o Messages(resp.warnings, "warning")
  <1>1. out \in Seq(Outputs) /\ resp.errors \in Seq(Quoted) /\ resp.warnings \in Seq(Quoted)
    BY ResponsesAssumption DEF Outputs, Quoted
  <1>2. /\ Len(out) \in Nat /\ DOMAIN out = 1 .. Len(out)
        /\ \A i \in DOMAIN out : out[i] \in Outputs
    BY <1>1, Elements
  <1>3. \A i \in DOMAIN out :
           /\ Rel(out[i], Root) # Refused <=> IsStrictPrefix(Root, Clean(out[i]).segs)
           /\ Rel(out[i], Root) # Refused => Full(Rel(out[i], Root), Root) = Clean(out[i])
    BY <1>2, OutputNamed
  <1>4. /\ Len(ds) = Len(ms)
        /\ \A i \in DOMAIN ms :
              /\ ds[i] = Message(ms[i], IF i <= Len(resp.errors) THEN "error" ELSE "warning")
              /\ ms[i] \in Quoted
    BY <1>1, MessagesKept
  <1> HIDE DEF out, ms, ds
  <1>5. CASE Escaped(out)
    <2>1. Artifact(resp).ok = FALSE
      BY <1>5 DEF Artifact, out
    <2>2. ~ \A i \in DOMAIN out : IsStrictPrefix(Root, Clean(out[i]).segs)
      BY <1>3, <1>5 DEF Escaped
    <2> QED BY <2>1, <2>2 DEF ArtifactKept, out
  <1>6. CASE ~Escaped(out)
    <2>1. /\ Artifact(resp).ok = TRUE
          /\ Artifact(resp).files = [i \in DOMAIN out |-> Rel(out[i], Root)]
          /\ Artifact(resp).diagnostics = ds
      BY <1>6 DEF Artifact, out, ds
    <2>2. \A i \in DOMAIN out : Rel(out[i], Root) # Refused
      BY <1>6 DEF Escaped
    <2>3. PICK files : files = Artifact(resp).files
      OBVIOUS
    <2>4. /\ Len(files) = Len(out) /\ DOMAIN files = DOMAIN out
          /\ \A i \in DOMAIN files : files[i] = Rel(out[i], Root)
      BY <1>2, <2>1, <2>3
    <2>5. \A i \in DOMAIN files : Full(files[i], Root) = Clean(out[i])
      BY <1>3, <2>2, <2>4
    <2>6. \A i \in DOMAIN out : IsStrictPrefix(Root, Clean(out[i]).segs)
      BY <1>3, <2>2
    <2>7. ASSUME NEW i \in DOMAIN ms
          PROVE  /\ Placed(ds[i], ms[i]) /\ Worded(ds[i], ms[i])
                 /\ ds[i].severity = IF i <= Len(resp.errors) THEN "error" ELSE "warning"
      BY <1>4, MessageKept
    <2> QED BY <1>4, <2>1, <2>3, <2>4, <2>5, <2>6, <2>7 DEF ArtifactKept, out, ms, ds
  <1> QED BY <1>5, <1>6

-----------------------------------------------------------------------------
(* The probe: where a sequence stands in a longer one.                       *)

Octet == 0 .. 255

At(b, pos, s) ==
    /\ pos \in Nat \ {0} /\ pos - 1 + Len(s) <= Len(b)
    /\ \A i \in 1 .. Len(s) : b[pos - 1 + i] = s[i]

LEMMA JoinPicked ==
    ASSUME NEW S, NEW s \in Seq(S), NEW t \in Seq(S)
    PROVE  \E x \in Seq(S), L \in Nat, M \in Nat :
              x = s \o t /\ L = Len(s) /\ M = Len(t) /\ IsJoin(x, s, L, t, M)
  <1>1. s \o t \in Seq(S) /\ IsJoin(s \o t, s, Len(s), t, Len(t))
    BY JoinNamed
  <1>2. Len(s) \in Nat /\ Len(t) \in Nat
    OBVIOUS
  <1> DEFINE x == s \o t
             L == Len(s)
             M == Len(t)
  <1>3. x \in Seq(S) /\ L \in Nat /\ M \in Nat
        /\ x = s \o t /\ L = Len(s) /\ M = Len(t) /\ IsJoin(x, s, L, t, M)
    BY <1>1, <1>2
  <1> HIDE DEF x, L, M
  <1> QED BY <1>3

\* A sequence stands at its own beginning.
LEMMA AtWhole ==
    ASSUME NEW S, NEW b \in Seq(S)
    PROVE  At(b, 1, b)
  BY DEF At

\* Where two joined stand, the first stands, and the second behind it.
LEMMA AtParts ==
    ASSUME NEW S, NEW b \in Seq(S), NEW s \in Seq(S), NEW t \in Seq(S), NEW pos,
           At(b, pos, s \o t)
    PROVE  At(b, pos, s) /\ At(b, pos + Len(s), t)
  <1>1. PICK x \in Seq(S), L \in Nat, M \in Nat :
           x = s \o t /\ L = Len(s) /\ M = Len(t) /\ IsJoin(x, s, L, t, M)
    BY JoinPicked
  <1>2. pos \in Nat \ {0} /\ Len(b) \in Nat /\ Len(x) = L + M /\ pos - 1 + (L + M) <= Len(b)
        /\ \A i \in 1 .. L + M : b[pos - 1 + i] = x[i]
    BY <1>1 DEF At, IsJoin
  <1>3. \A i \in 1 .. L : b[pos - 1 + i] = s[i]
    BY <1>1, <1>2 DEF IsJoin
  <1>4. ASSUME NEW i \in 1 .. M PROVE b[(pos + L) - 1 + i] = t[i]
    <2>1. L + i \in 1 .. L + M /\ pos - 1 + (L + i) = (pos + L) - 1 + i
      BY <1>2
    <2> QED BY <1>1, <1>2, <2>1 DEF IsJoin
  <1>5. pos + L \in Nat \ {0} /\ pos - 1 + L <= Len(b) /\ (pos + L) - 1 + M <= Len(b)
    BY <1>2
  <1> QED BY <1>1, <1>2, <1>3, <1>4, <1>5 DEF At

\* What stands somewhere is what is cut out there.
LEMMA AtSub ==
    ASSUME NEW S, NEW b \in Seq(S), NEW s \in Seq(S), NEW pos, At(b, pos, s)
    PROVE  SubSeq(b, pos, pos + Len(s) - 1) = s
  <1>1. PICK m \in Nat : m = Len(s)
    OBVIOUS
  <1>2. pos \in Nat \ {0} /\ Len(b) \in Nat /\ pos - 1 + m <= Len(b)
        /\ \A i \in 1 .. m : b[pos - 1 + i] = s[i]
    BY <1>1 DEF At
  <1>3. PICK t \in Seq(S) : t = SubSeq(b, pos, pos + m - 1) /\ Len(t) = m
                            /\ \A i \in 1 .. m : t[i] = b[pos - 1 + i]
    <2>1. SubSeq(b, pos, pos + m - 1) \in Seq(S) /\ Len(SubSeq(b, pos, pos + m - 1)) = m
      BY <1>2
    <2>2. ASSUME NEW i \in 1 .. m PROVE SubSeq(b, pos, pos + m - 1)[i] = b[pos - 1 + i]
      <3>1. pos + i - 1 = pos - 1 + i
        BY <1>2
      <3> QED BY <1>2, <2>1
    <2> QED BY <2>1, <2>2
  <1>4. t = s
    BY <1>1, <1>2, <1>3, EqualSeqs
  <1> QED BY <1>1, <1>3, <1>4

LEMMA AtLonger ==
    ASSUME NEW S, NEW b \in Seq(S), NEW t \in Seq(S), NEW s \in Seq(S), NEW pos, At(b, pos, s)
    PROVE  At(b \o t, pos, s)
  <1>1. PICK x \in Seq(S), L \in Nat, M \in Nat :
           x = b \o t /\ L = Len(b) /\ M = Len(t) /\ IsJoin(x, b, L, t, M)
    BY JoinPicked
  <1>2. PICK m \in Nat : m = Len(s)
    OBVIOUS
  <1>3. pos \in Nat \ {0} /\ pos - 1 + m <= L /\ \A i \in 1 .. m : b[pos - 1 + i] = s[i]
    BY <1>1, <1>2 DEF At
  <1>4. ASSUME NEW i \in 1 .. m PROVE x[pos - 1 + i] = s[i]
    <2>1. pos - 1 + i \in 1 .. L
      BY <1>3
    <2> QED BY <1>1, <1>3, <2>1 DEF IsJoin
  <1>5. Len(x) = L + M /\ pos - 1 + m <= L + M
    BY <1>1, <1>3 DEF IsJoin
  <1> QED BY <1>1, <1>2, <1>3, <1>4, <1>5 DEF At

LEMMA AtBehind ==
    ASSUME NEW S, NEW b \in Seq(S), NEW s \in Seq(S)
    PROVE  At(b \o s, 1 + Len(b), s)
  <1>1. b \o s \in Seq(S)
    BY NothingBehind
  <1>2. At(b \o s, 1, b \o s)
    BY <1>1, AtWhole
  <1> QED BY <1>1, <1>2, AtParts

\* Each sequence of a flattened one stands behind those before it.
LEMMA FlattenSpots ==
    ASSUME NEW S, NEW w \in Seq(Seq(S)), NEW m \in Nat, m = Len(w)
    PROVE  \E start : /\ start[0] = 0
                      /\ \A n \in 0 .. m : start[n] \in Nat
                      /\ \A n \in 0 .. m - 1 : start[n + 1] = start[n] + Len(w[n + 1])
                      /\ start[m] = Len(FlattenSeq(w)) /\ FlattenSeq(w) \in Seq(S)
                      /\ \A n \in 0 .. m - 1 : At(FlattenSeq(w), 1 + start[n], w[n + 1])
  <1>0. PICK f : /\ f[0] = <<>>
                 /\ \A n \in 0 .. Len(w) - 1 : f[n + 1] = f[n] \o w[n + 1]
                 /\ \A n \in 0 .. Len(w) : f[n] \in Seq(S)
                 /\ FlattenSeq(w) = f[Len(w)]
    BY FlattenSteps
  <1>1. /\ f[0] = <<>>
        /\ \A n \in 0 .. m - 1 : f[n + 1] = f[n] \o w[n + 1]
        /\ \A n \in 0 .. m : f[n] \in Seq(S)
        /\ FlattenSeq(w) = f[m]
    BY <1>0
  <1>2. \A n \in 1 .. m : w[n] \in Seq(S)
    BY Elements
  <1> DEFINE start == [n \in 0 .. m |-> Len(f[n])]
  <1>3. \A n \in 0 .. m : start[n] = Len(f[n]) /\ start[n] \in Nat
    BY <1>1
  <1> HIDE DEF start
  <1>4. start[0] = 0
    <2>1. 0 \in 0 .. m
      OBVIOUS
    <2> QED BY <1>1, <1>3, <2>1
  <1>5. ASSUME NEW n \in 0 .. m - 1
        PROVE  start[n + 1] = start[n] + Len(w[n + 1])
    <2>1. n \in 0 .. m /\ n + 1 \in 0 .. m /\ n + 1 \in 1 .. m
      OBVIOUS
    <2>2. PICK a \in Seq(S), c \in Seq(S) : a = f[n] /\ c = w[n + 1]
      BY <1>1, <1>2, <2>1
    <2>3. Len(a \o c) = Len(a) + Len(c)
      BY <2>2
    <2> QED BY <1>1, <1>3, <2>1, <2>2, <2>3
  <1>6. ASSUME NEW n \in 0 .. m - 1 PROVE At(f[m], 1 + start[n], w[n + 1])
    <2> DEFINE T == {j \in 0 .. m : j > n => At(f[j], 1 + start[n], w[n + 1])}
    <2>1. n \in 0 .. m /\ n + 1 \in 0 .. m /\ n + 1 \in 1 .. m /\ 0 \in 0 .. m /\ ~(0 > n)
      OBVIOUS
    <2>2. f[n] \in Seq(S) /\ w[n + 1] \in Seq(S) /\ start[n] = Len(f[n])
      BY <1>1, <1>2, <1>3, <2>1
    <2>3. 0 \in T
      BY <2>1
    <2>4. ASSUME NEW j \in 0 .. m - 1, j \in T PROVE j + 1 \in T
      <3>1. j \in 0 .. m /\ j + 1 \in 0 .. m /\ j + 1 \in 1 .. m
        OBVIOUS
      <3>2. f[j] \in Seq(S) /\ w[j + 1] \in Seq(S) /\ f[j + 1] = f[j] \o w[j + 1]
        BY <1>1, <1>2, <3>1
      <3>3. CASE j > n
        <4>1. At(f[j], 1 + start[n], w[n + 1])
          BY <2>4, <3>3
        <4>2. At(f[j] \o w[j + 1], 1 + start[n], w[n + 1])
          BY <2>2, <3>2, <4>1, AtLonger
        <4> QED BY <3>1, <3>2, <4>2
      <3>4. CASE j = n
        <4>1. At(f[n] \o w[n + 1], 1 + start[n], w[n + 1])
          BY <2>2, AtBehind
        <4> QED BY <3>1, <3>2, <3>4, <4>1
      <3>5. CASE j < n
        <4>1. ~(j + 1 > n)
          BY <3>5
        <4> QED BY <3>1, <4>1
      <3> QED BY <3>3, <3>4, <3>5
    <2>5. m \in T
      <3> HIDE DEF T
      <3>1. 0 .. m \subseteq T
        BY <2>3, <2>4, UpToSets
      <3> QED BY <3>1
    <2>6. m > n
      OBVIOUS
    <2> QED BY <2>5, <2>6
  <1>7. /\ start[m] = Len(FlattenSeq(w)) /\ FlattenSeq(w) \in Seq(S)
        /\ \A n \in 0 .. m - 1 : At(FlattenSeq(w), 1 + start[n], w[n + 1])
    <2>1. m \in 0 .. m
      OBVIOUS
    <2> QED BY <1>1, <1>3, <1>6, <2>1
  <1> QED BY <1>3, <1>4, <1>5, <1>7

-----------------------------------------------------------------------------
(* readULEB.                                                                 *)

\* Value by its equation: byte by byte, from the last one.
LEMMA ValueSteps ==
    ASSUME NEW bytes \in Seq(Octet)
    PROVE  \E v : /\ v[0] = 0
                  /\ \A k \in 0 .. Len(bytes) - 1 :
                        v[k + 1] = IF v[k] >= Far THEN 128 * Far
                                   ELSE 128 * v[k] + (bytes[Len(bytes) - k] % 128)
                  /\ \A k \in 0 .. Len(bytes) : v[k] \in Nat
                  /\ Value(bytes) = v[Len(bytes)]
  <1> DEFINE m == Len(bytes)
      Next_(e, n) == IF e >= Far THEN 128 * Far ELSE 128 * e + (bytes[m - n + 1] % 128)
      step == [en \in Nat \X (1 .. m) |-> Next_(en[1], en[2])]
      Is(g) == g = [k \in 0 .. m |-> CASE k = 0 -> 0
                                       [] k > 0 /\ g[k - 1] >= Far -> 128 * Far
                                       [] OTHER -> 128 * g[k - 1] + (bytes[m - k + 1] % 128)]
      f == CHOOSE g : Is(g)
  <1>1. m \in Nat /\ 0 \in Nat /\ Far \in Nat
    BY FarAssumption
  <1>0. \A i \in 1 .. m : bytes[i] \in 0 .. 255
    <2>1. \A i \in 1 .. Len(bytes) : bytes[i] \in Octet
      BY Elements
    <2> QED BY <2>1 DEF Octet
  <1>2. ASSUME NEW n \in 1 .. m, NEW e \in Nat
        PROVE  Next_(e, n) \in Nat
    <2>1. m - n + 1 \in 1 .. m
      BY <1>1
    <2> HIDE DEF m, step, Is, f
    <2>2. PICK c \in 0 .. 255 : c = bytes[m - n + 1]
      BY <1>0, <2>1
    <2>3. c % 128 \in Nat
      OBVIOUS
    <2>4. 128 * Far \in Nat /\ 128 * e + (c % 128) \in Nat
      BY <1>1, <2>3
    <2> QED BY <2>2, <2>4
  <1>3. \A n \in 1 .. m, e \in Nat :
           step[<<e, n>>] = Next_(e, n) /\ step[<<e, n>>] \in Nat
    <2> SUFFICES ASSUME NEW n \in 1 .. m, NEW e \in Nat
                 PROVE  step[<<e, n>>] = Next_(e, n) /\ step[<<e, n>>] \in Nat
      OBVIOUS
    <2> HIDE DEF Next_
    <2>1. step[<<e, n>>] = Next_(e, n)
      OBVIOUS
    <2> QED BY <1>2, <2>1
  <1> HIDE DEF step
  <1>4. PICK g \in [0 .. m -> Nat] : Follows(g, 0, m, step)
    <2> HIDE DEF m, Is, f
    <2>1. Steps(Nat, m, step)
      BY <1>3 DEF Steps
    <2> QED BY <1>1, <2>1, Recursion
  <1>5. Is(g)
    <2> DEFINE h == [k \in 0 .. m |-> CASE k = 0 -> 0
                                        [] k > 0 /\ g[k - 1] >= Far -> 128 * Far
                                        [] OTHER -> 128 * g[k - 1] + (bytes[m - k + 1] % 128)]
    <2>1. ASSUME NEW n \in 0 .. m PROVE g[n] = h[n]
      <3>1. CASE n = 0
        BY <1>4, <3>1 DEF Follows
      <3>2. CASE n # 0
        <4>1. n \in 1 .. m /\ n - 1 \in 0 .. m /\ n > 0
          BY <1>1, <3>2
        <4>2. g[n] = Next_(g[n - 1], n)
          <5> HIDE DEF Next_, m
          <5> QED BY <1>3, <1>4, <4>1 DEF Follows
        <4>3. h[n] = Next_(g[n - 1], n)
          <5>1. CASE g[n - 1] >= Far
            BY <3>2, <4>1, <5>1
          <5>2. CASE ~(g[n - 1] >= Far)
            BY <3>2, <4>1, <5>2
          <5> QED BY <5>1, <5>2
        <4> QED BY <4>2, <4>3
      <3> QED BY <3>1, <3>2
    <2>2. g = [n \in 0 .. m |-> g[n]] /\ h = [n \in 0 .. m |-> h[n]]
      OBVIOUS
    <2> HIDE DEF h
    <2>3. g = h
      BY <2>1, <2>2
    <2> QED BY <2>3 DEF h
  <1>6. Is(f)
    <2> HIDE DEF Is
    <2> QED BY <1>5
  <1>7. Value(bytes) = f[m]
    BY DEF Value
  <1> HIDE DEF f
  <1>8. f[0] = 0 /\ \A k \in 0 .. m - 1 :
                       f[k + 1] = IF f[k] >= Far THEN 128 * Far
                                  ELSE 128 * f[k] + (bytes[m - k] % 128)
    <2>1. \A k \in 0 .. m : f[k] = CASE k = 0 -> 0
                                     [] k > 0 /\ f[k - 1] >= Far -> 128 * Far
                                     [] OTHER -> 128 * f[k - 1] + (bytes[m - k + 1] % 128)
      BY <1>6
    <2> HIDE DEF m, Is
    <2>2. 0 \in 0 .. m /\ \A n \in 0 .. m - 1 :
             n + 1 \in 0 .. m /\ n + 1 # 0 /\ n + 1 > 0 /\ (n + 1) - 1 = n
             /\ m - (n + 1) + 1 = m - n
      BY <1>1
    <2>3. f[0] = 0
      BY <2>1, <2>2
    <2>4. ASSUME NEW k \in 0 .. m - 1
          PROVE  f[k + 1] = IF f[k] >= Far THEN 128 * Far
                            ELSE 128 * f[k] + (bytes[m - k] % 128)
      <3>1. CASE f[k] >= Far
        BY <2>1, <2>2, <3>1
      <3>2. CASE ~(f[k] >= Far)
        BY <2>1, <2>2, <3>2
      <3> QED BY <3>1, <3>2
    <2> QED BY <2>3, <2>4
  <1> HIDE DEF Is
  <1>9. \A n \in 0 .. m : f[n] \in Nat
    <2>1. ASSUME NEW k \in 0 .. m - 1, f[k] \in Nat PROVE f[k + 1] \in Nat
      <3>1. k + 1 \in 1 .. m /\ m - (k + 1) + 1 = m - k
        BY <1>1
      <3>2. f[k + 1] = Next_(f[k], k + 1)
        BY <1>8, <3>1
      <3> HIDE DEF Next_
      <3> QED BY <1>2, <2>1, <3>1, <3>2
    <2> HIDE DEF m
    <2> QED BY <1>1, <1>8, <2>1, Throughout, ZenonT(60)
  <1> QED BY <1>7, <1>8, <1>9

\* Left by its equation, and that it never grows.
LEMMA LeftSteps ==
    ASSUME NEW n \in Nat, NEW pad \in Nat \ {0}
    PROVE  /\ Left(n, pad)[0] = n
           /\ \A i \in 0 .. (pad - 1) - 1 : Left(n, pad)[i + 1] = Left(n, pad)[i] \div 128
           /\ \A i \in 0 .. pad - 1 : Left(n, pad)[i] \in Nat /\ Left(n, pad)[i] <= n
  <1> DEFINE m == pad - 1
      step == [en \in Nat \X (1 .. m) |-> en[1] \div 128]
      Is(g) == g = [i \in 0 .. m |-> IF i = 0 THEN n ELSE g[i - 1] \div 128]
      f == CHOOSE g : Is(g)
  <1>1. m \in Nat
    OBVIOUS
  <1>2. \A k \in 1 .. m, e \in Nat :
           step[<<e, k>>] = e \div 128 /\ step[<<e, k>>] \in Nat
    OBVIOUS
  <1> HIDE DEF step
  <1>3. PICK g \in [0 .. m -> Nat] : Follows(g, n, m, step)
    <2> HIDE DEF m, Is, f
    <2>1. Steps(Nat, m, step)
      BY <1>2 DEF Steps
    <2> QED BY <1>1, <2>1, Recursion
  <1>4. Is(g)
    <2> DEFINE h == [i \in 0 .. m |-> IF i = 0 THEN n ELSE g[i - 1] \div 128]
    <2>1. ASSUME NEW k \in 0 .. m PROVE g[k] = h[k]
      <3>1. CASE k = 0
        BY <1>3, <3>1 DEF Follows
      <3>2. CASE k # 0
        <4>1. k \in 1 .. m /\ k - 1 \in 0 .. m
          BY <1>1, <3>2
        <4>2. g[k] = g[k - 1] \div 128
          <5> HIDE DEF m
          <5>1. PICK e \in Nat : e = g[k - 1]
            BY <1>3, <4>1
          <5>2. g[k] = step[<<e, k>>]
            BY <1>3, <4>1, <5>1 DEF Follows
          <5> QED BY <1>2, <4>1, <5>1, <5>2
        <4>3. h[k] = g[k - 1] \div 128
          BY <3>2, <4>1
        <4> QED BY <4>2, <4>3
      <3> QED BY <3>1, <3>2
    <2>2. g = [k \in 0 .. m |-> g[k]] /\ h = [k \in 0 .. m |-> h[k]]
      OBVIOUS
    <2> HIDE DEF h
    <2>3. g = h
      BY <2>1, <2>2
    <2> QED BY <2>3 DEF h
  <1>5. Is(f)
    <2> HIDE DEF Is
    <2> QED BY <1>4
  <1>6. Left(n, pad) = f
    BY DEF Left
  <1> HIDE DEF f
  <1>7. f[0] = n /\ \A i \in 0 .. m - 1 : f[i + 1] = f[i] \div 128
    <2>1. \A i \in 0 .. m : f[i] = IF i = 0 THEN n ELSE f[i - 1] \div 128
      BY <1>5
    <2> HIDE DEF m, Is
    <2>2. 0 \in 0 .. m /\ \A i \in 0 .. m - 1 :
             i + 1 \in 0 .. m /\ i + 1 # 0 /\ (i + 1) - 1 = i
      BY <1>1
    <2>3. f[0] = n
      BY <2>1, <2>2
    <2>4. ASSUME NEW i \in 0 .. m - 1 PROVE f[i + 1] = f[i] \div 128
      BY <2>1, <2>2
    <2> QED BY <2>3, <2>4
  <1> HIDE DEF Is
  <1>8. \A i \in 0 .. m : f[i] \in 0 .. n
    <2>1. ASSUME NEW i \in 0 .. m - 1, f[i] \in 0 .. n PROVE f[i + 1] \in 0 .. n
      <3>1. PICK now \in 0 .. n : now = f[i]
        BY <2>1
      <3>2. now \div 128 \in 0 .. n
        OBVIOUS
      <3>3. f[i + 1] = f[i] \div 128
        BY <1>7
      <3> QED BY <3>1, <3>2, <3>3
    <2>2. f[0] \in 0 .. n
      BY <1>7
    <2> HIDE DEF m
    <2> QED BY <1>1, <2>1, <2>2, Throughout
  <1> QED BY <1>6, <1>7, <1>8

\* A padded number: all its bytes but the last go on.
LEMMA PaddedFacts ==
    ASSUME NEW n \in Nat, NEW pad \in Nat \ {0}
    PROVE  /\ Padded(n, pad) \in Seq(Octet) /\ Len(Padded(n, pad)) = pad
           /\ \A i \in 1 .. pad : Padded(n, pad)[i] % 128 = Left(n, pad)[i - 1] % 128
           /\ \A i \in 1 .. pad - 1 : Padded(n, pad)[i] >= 128
           /\ Padded(n, pad)[pad] = Left(n, pad)[pad - 1] % 128
  <1>1. \A i \in 0 .. pad - 1 : Left(n, pad)[i] \in Nat
    BY LeftSteps
  <1>2. PICK left : left = Left(n, pad)
    OBVIOUS
  <1> DEFINE p == [i \in 1 .. pad |-> (left[i - 1] % 128) + IF i < pad THEN 128 ELSE 0]
  <1>3. Padded(n, pad) = p
    BY <1>2 DEF Padded
  <1>4. ASSUME NEW i \in 1 .. pad
        PROVE  /\ p[i] \in Octet /\ p[i] % 128 = left[i - 1] % 128
               /\ i < pad => p[i] >= 128
               /\ i = pad => p[i] = left[i - 1] % 128
    <2>1. PICK l \in Nat : l = left[i - 1]
      <3>1. i - 1 \in 0 .. pad - 1
        OBVIOUS
      <3> QED BY <1>1, <1>2, <3>1
    <2>2. PICK d \in 0 .. 127 : d = l % 128
      OBVIOUS
    <2>3. CASE i < pad
      <3>1. p[i] = d + 128
        BY <2>1, <2>2, <2>3
      <3>2. (d + 128) % 128 = d
        OBVIOUS
      <3> HIDE DEF p
      <3> QED BY <2>1, <2>2, <2>3, <3>1, <3>2 DEF Octet
    <2>4. CASE i = pad
      <3>1. p[i] = d + 0
        BY <2>1, <2>2, <2>4
      <3>2. d % 128 = d /\ d + 0 = d /\ ~(i < pad)
        BY <2>4
      <3> HIDE DEF p
      <3> QED BY <2>1, <2>2, <2>4, <3>1, <3>2 DEF Octet
    <2> QED BY <2>3, <2>4
  <1>5. p \in Seq(Octet) /\ Len(p) = pad
    <2>1. p = [i \in 1 .. pad |-> p[i]]
      OBVIOUS
    <2> HIDE DEF p
    <2> QED BY <1>4, <2>1
  <1> HIDE DEF p
  <1>6. pad \in 1 .. pad /\ \A i \in 1 .. pad - 1 : i \in 1 .. pad /\ i < pad
    OBVIOUS
  <1> QED BY <1>2, <1>3, <1>4, <1>5, <1>6

\* What readULEB adds up is what was written.
LEMMA PaddedValue ==
    ASSUME NEW n \in Nat, NEW pad \in 1 .. 10, Fits(n, pad)
    PROVE  Value(Padded(n, pad)) = n
  <1>1. PICK left : left = Left(n, pad)
    OBVIOUS
  <1>2. pad \in Nat \ {0}
    OBVIOUS
  <1>3. /\ left[0] = n
        /\ \A i \in 0 .. (pad - 1) - 1 : left[i + 1] = left[i] \div 128
        /\ \A i \in 0 .. pad - 1 : left[i] \in Nat /\ left[i] <= n
    BY <1>1, <1>2, LeftSteps
  <1>4. Far \in Nat /\ n < 128 * Far /\ left[pad - 1] <= 127
    <2>1. n < 128 * Far /\ left[pad - 1] <= IF pad = 10 THEN 1 ELSE 127
      BY <1>1 DEF Fits
    <2>2. PICK l \in Nat : l = left[pad - 1]
      <3>1. pad - 1 \in 0 .. pad - 1
        OBVIOUS
      <3> QED BY <1>3, <3>1
    <2>3. l <= 127
      <3>1. CASE pad = 10
        BY <2>1, <2>2, <3>1
      <3>2. CASE pad # 10
        BY <2>1, <2>2, <3>2
      <3> QED BY <3>1, <3>2
    <2> QED BY <2>1, <2>2, <2>3, FarAssumption
  <1>5. PICK p \in Seq(Octet) : p = Padded(n, pad)
    BY <1>2, PaddedFacts
  <1>6. Len(p) = pad /\ \A i \in 1 .. pad : p[i] % 128 = left[i - 1] % 128
    <2>1. /\ Len(Padded(n, pad)) = pad
          /\ \A i \in 1 .. pad : Padded(n, pad)[i] % 128 = Left(n, pad)[i - 1] % 128
      BY <1>2, PaddedFacts
    <2> QED BY <1>1, <1>5, <2>1
  <1>7. PICK v : /\ v[0] = 0
                 /\ \A k \in 0 .. Len(p) - 1 :
                       v[k + 1] = IF v[k] >= Far THEN 128 * Far
                                  ELSE 128 * v[k] + (p[Len(p) - k] % 128)
                 /\ \A k \in 0 .. Len(p) : v[k] \in Nat
                 /\ Value(p) = v[Len(p)]
    BY ValueSteps
  <1>8. /\ v[0] = 0
        /\ \A k \in 0 .. pad - 1 :
              v[k + 1] = IF v[k] >= Far THEN 128 * Far ELSE 128 * v[k] + (p[pad - k] % 128)
        /\ \A k \in 0 .. pad : v[k] \in Nat
        /\ Value(p) = v[pad]
    BY <1>6, <1>7
  <1> DEFINE S == {k \in 0 .. pad : k > 0 => v[k] = left[pad - k]}
  <1>9. 0 \in S
    OBVIOUS
  <1>10. ASSUME NEW k \in 0 .. pad - 1, k \in S PROVE k + 1 \in S
    <2>1. k + 1 \in 0 .. pad /\ pad - k \in 1 .. pad /\ (pad - k) - 1 = pad - (k + 1)
          /\ pad - (k + 1) \in 0 .. pad - 1 /\ k \in 0 .. pad
      OBVIOUS
    <2>2. PICK l \in Nat : l = left[pad - (k + 1)] /\ l <= n
      BY <1>3, <2>1
    <2>3. p[pad - k] % 128 = l % 128
      BY <1>6, <2>1, <2>2
    <2>4. CASE k = 0
      <3>1. l <= 127
        <4>1. pad - (k + 1) = pad - 1
          BY <2>4
        <4> QED BY <1>4, <2>2, <4>1
      <3>2. v[k + 1] = 128 * v[k] + (l % 128)
        <4>1. v[k] = 0 /\ ~(0 >= Far)
          BY <1>8, <2>4, FarAssumption
        <4> QED BY <1>8, <2>3, <4>1
      <3>3. l % 128 = l /\ v[k] = 0
        BY <1>8, <2>4, <3>1
      <3>4. v[k + 1] = left[pad - (k + 1)]
        BY <2>2, <3>2, <3>3
      <3> QED BY <2>1, <3>4
    <2>5. CASE k # 0
      <3>1. v[k] = left[pad - k]
        <4>1. k > 0
          BY <2>5
        <4> QED BY <1>10, <4>1
      <3>2. left[pad - k] = l \div 128
        <4>1. pad - (k + 1) \in 0 .. (pad - 1) - 1 /\ (pad - (k + 1)) + 1 = pad - k
          BY <2>5
        <4> QED BY <1>3, <2>2, <4>1
      <3>3. PICK q \in Nat, d \in 0 .. 127 : q = l \div 128 /\ d = l % 128 /\ l = 128 * q + d
        <4>1. /\ l \div 128 \in Nat /\ l % 128 \in 0 .. 127
              /\ l = 128 * (l \div 128) + (l % 128)
          OBVIOUS
        <4> QED BY <4>1
      <3>4. v[k] = q /\ ~(q >= Far)
        <4>1. v[k] = q
          BY <3>1, <3>2, <3>3
        <4>2. 128 * q + d < 128 * Far
          <5>1. n < 128 * Far /\ Far \in Nat
            BY <1>4
          <5>2. l <= n /\ l = 128 * q + d
            BY <2>2, <3>3
          <5> QED BY <5>1, <5>2
        <4>3. ~(q >= Far)
          BY <1>4, <4>2
        <4> QED BY <4>1, <4>3
      <3>5. v[k + 1] = 128 * q + d
        BY <1>8, <2>3, <3>3, <3>4
      <3>6. v[k + 1] = left[pad - (k + 1)]
        BY <2>2, <3>3, <3>5
      <3> QED BY <2>1, <3>6
    <2> QED BY <2>4, <2>5
  <1>11. pad \in S
    <2> HIDE DEF S
    <2>1. 0 .. pad \subseteq S
      BY <1>2, <1>9, <1>10, UpToSets
    <2> QED BY <1>2, <2>1
  <1>12. v[pad] = left[0]
    <2>1. pad > 0 /\ pad - pad = 0
      OBVIOUS
    <2> QED BY <1>11, <2>1
  <1> QED BY <1>3, <1>5, <1>8, <1>12

LEMMA ReadFacts ==
    /\ \A v, p : Read(v, p).ok = TRUE /\ Read(v, p).value = v /\ Read(v, p).pos = p
    /\ Bad.ok = FALSE
  BY DEF Read, Bad

\* The end of a number is one place.
LEMMA OneEnd ==
    ASSUME NEW b \in Seq(Octet), NEW pos \in Nat \ {0}, NEW i \in Ends(b, pos)
    PROVE  Ends(b, pos) = {i}
  <1>1. \A k \in Ends(b, pos) :
           k \in 0 .. 9 /\ b[pos + k] < 128 /\ \A l \in 0 .. k - 1 : b[pos + l] >= 128
    BY DEF Ends
  <1>2. ASSUME NEW k \in Ends(b, pos) PROVE ~(b[pos + k] >= 128)
    <2>1. pos + k \in 1 .. Len(b)
      BY DEF Ends
    <2>2. PICK x \in 0 .. 255 : x = b[pos + k]
      BY <2>1, Elements DEF Octet
    <2> QED BY <1>1, <2>2
  <1>3. ASSUME NEW j \in Ends(b, pos) PROVE j = i
    <2>1. ~(j \in 0 .. i - 1) /\ ~(i \in 0 .. j - 1)
      BY <1>1, <1>2
    <2>2. i \in 0 .. 9 /\ j \in 0 .. 9
      BY <1>1
    <2> QED BY <2>1, <2>2
  <1> QED BY <1>3

LEMMA ReadsThere ==
    ASSUME NEW b \in Seq(Octet), NEW pos \in Nat \ {0}, NEW i \in Ends(b, pos)
    PROVE  ReadULEB(b, pos) = IF i < 9 \/ b[pos + i] <= 1
                              THEN Read(Value(SubSeq(b, pos, pos + i)), pos + i + 1) ELSE Bad
  <1>1. Ends(b, pos) = {i}
    BY OneEnd
  <1>2. (CHOOSE k \in Ends(b, pos) : TRUE) = i
    BY <1>1
  <1>3. (\E k \in Ends(b, pos) : k < 9 \/ b[pos + k] <= 1) <=> i < 9 \/ b[pos + i] <= 1
    BY <1>1
  <1> QED BY <1>2, <1>3 DEF ReadULEB

\* Where a written number stands, it is read.
LEMMA NumberRead ==
    ASSUME NEW b \in Seq(Octet), NEW pos, NEW n \in Nat, NEW pad \in 1 .. 10, Fits(n, pad),
           At(b, pos, Padded(n, pad))
    PROVE  ReadULEB(b, pos) = Read(n, pos + pad)
  <1>1. pad \in Nat \ {0} /\ pad - 1 \in 0 .. 9 /\ (pad - 1 < 9 \/ pad = 10)
    OBVIOUS
  <1>2. PICK p \in Seq(Octet) : p = Padded(n, pad)
    BY <1>1, PaddedFacts
  <1>2a. PICK left : left = Left(n, pad)
    OBVIOUS
  <1>3. /\ Len(p) = pad /\ \A i \in 1 .. pad - 1 : p[i] >= 128
        /\ p[pad] = left[pad - 1] % 128
    <2>1. /\ Len(Padded(n, pad)) = pad
          /\ \A i \in 1 .. pad - 1 : Padded(n, pad)[i] >= 128
          /\ Padded(n, pad)[pad] = Left(n, pad)[pad - 1] % 128
      BY <1>1, PaddedFacts
    <2> QED BY <1>2, <1>2a, <2>1
  <1>4. PICK l \in Nat : l = left[pad - 1]
    <2>1. \A i \in 0 .. pad - 1 : Left(n, pad)[i] \in Nat
      BY <1>1, LeftSteps
    <2>2. pad - 1 \in 0 .. pad - 1
      BY <1>1
    <2> QED BY <1>2, <1>2a, <2>1, <2>2
  <1>5. pos \in Nat \ {0} /\ Len(b) \in Nat /\ pos - 1 + pad <= Len(b)
        /\ \A i \in 1 .. pad : b[pos - 1 + i] = p[i]
    BY <1>2, <1>2a, <1>3 DEF At
  <1>6. l <= IF pad = 10 THEN 1 ELSE 127
    BY <1>2, <1>2a, <1>4 DEF Fits
  <1>7. l <= 127 /\ (pad = 10 => l <= 1) /\ l % 128 = l
    <2>1. CASE pad = 10
      BY <1>6, <2>1
    <2>2. CASE pad # 10
      BY <1>6, <2>2
    <2> QED BY <2>1, <2>2
  <1>8. b[pos + (pad - 1)] = l
    <2>1. pos + (pad - 1) = pos - 1 + pad /\ pad \in 1 .. pad
      BY <1>1, <1>5
    <2>2. b[pos - 1 + pad] = p[pad]
      BY <1>5, <2>1
    <2> QED BY <1>3, <1>4, <1>7, <2>1, <2>2
  <1>9. pad - 1 \in Ends(b, pos)
    <2>1. ASSUME NEW j \in 0 .. (pad - 1) - 1 PROVE b[pos + j] >= 128
      <3>1. j + 1 \in 1 .. pad - 1 /\ j + 1 \in 1 .. pad /\ pos + j = pos - 1 + (j + 1)
        BY <1>1, <1>5
      <3> QED BY <1>3, <1>5, <3>1
    <2>2. pos + (pad - 1) <= Len(b) /\ b[pos + (pad - 1)] < 128
      BY <1>5, <1>7, <1>8
    <2> QED BY <1>1, <2>1, <2>2 DEF Ends
  <1>10. ReadULEB(b, pos) = Read(Value(SubSeq(b, pos, pos + (pad - 1))), pos + (pad - 1) + 1)
    <2>1. pad - 1 < 9 \/ b[pos + (pad - 1)] <= 1
      BY <1>1, <1>7, <1>8
    <2> QED BY <1>5, <1>9, <2>1, ReadsThere
  <1>11. SubSeq(b, pos, pos + (pad - 1)) = p
    <2>1. SubSeq(b, pos, pos + Len(p) - 1) = p
      BY <1>2, <1>2a, AtSub
    <2>2. pos + pad - 1 = pos + (pad - 1)
      BY <1>1, <1>5
    <2> QED BY <1>3, <2>1, <2>2
  <1>12. pos + (pad - 1) + 1 = pos + pad
    BY <1>1, <1>5
  <1> QED BY <1>2, <1>2a, <1>10, <1>11, <1>12, PaddedValue

\* A number in more than ten bytes is none.
LEMMA NumberTooLong ==
    ASSUME NEW b \in Seq(Octet), NEW pos, NEW n \in Nat, NEW pad \in Nat, pad > 10,
           At(b, pos, Padded(n, pad))
    PROVE  ReadULEB(b, pos) = Bad
  <1>1. pad \in Nat \ {0}
    OBVIOUS
  <1>2. Len(Padded(n, pad)) = pad /\ \A i \in 1 .. pad - 1 : Padded(n, pad)[i] >= 128
    BY <1>1, PaddedFacts
  <1>3. pos \in Nat \ {0} /\ \A i \in 1 .. pad : b[pos - 1 + i] = Padded(n, pad)[i]
    BY <1>2 DEF At
  <1>4. ASSUME NEW i \in Ends(b, pos) PROVE FALSE
    <2>1. i \in 0 .. 9 /\ pos + i <= Len(b) /\ b[pos + i] < 128
      BY DEF Ends
    <2>2. i + 1 \in 1 .. pad - 1 /\ i + 1 \in 1 .. pad /\ pos + i = pos - 1 + (i + 1)
      BY <1>3, <2>1
    <2>3. b[pos + i] >= 128
      BY <1>2, <1>3, <2>2
    <2>4. pos + i \in 1 .. Len(b)
      BY <1>3, <2>1
    <2>5. PICK x \in 0 .. 255 : x = b[pos + i]
      BY <2>4, Elements DEF Octet
    <2> QED BY <2>1, <2>3, <2>5
  <1> QED BY <1>4 DEF ReadULEB

LEMMA ValueTyped ==
    ASSUME NEW bytes \in Seq(Octet)
    PROVE  Value(bytes) \in Nat
  <1>1. PICK v : (\A k \in 0 .. Len(bytes) : v[k] \in Nat) /\ Value(bytes) = v[Len(bytes)]
    BY ValueSteps
  <1>2. Len(bytes) \in 0 .. Len(bytes)
    OBVIOUS
  <1> QED BY <1>1, <1>2

\* What a reader answers: a thing and a place behind the first byte, or nothing.
Got(V) == {Bad} \cup {Read(v, p) : v \in V, p \in Nat \ {0}}

\* A number is read to a place behind its first byte, or it is bad.
LEMMA ReadTyped ==
    ASSUME NEW b \in Seq(Octet), NEW pos \in Nat \ {0}
    PROVE  ReadULEB(b, pos) \in Got(Nat)
  <1>1. CASE Ends(b, pos) = {}
    BY <1>1 DEF ReadULEB, Got
  <1>2. ASSUME NEW i \in Ends(b, pos) PROVE ReadULEB(b, pos) \in Got(Nat)
    <2>1. i \in 0 .. 9 /\ pos + i <= Len(b) /\ pos + i + 1 \in Nat \ {0}
      BY DEF Ends
    <2>2. SubSeq(b, pos, pos + i) \in Seq(Octet)
      <3>1. pos + i \in Nat
        BY <2>1
      <3>2. \A k \in pos .. pos + i : k \in 1 .. Len(b)
        BY <2>1
      <3> QED BY <2>1, <3>1, <3>2
    <2>3. Value(SubSeq(b, pos, pos + i)) \in Nat
      BY <2>2, ValueTyped
    <2> QED BY <2>1, <2>3, ReadsThere DEF Got
  <1> QED BY <1>1, <1>2

\* Of a binary that is cut a number is read as it is, or not.
LEMMA CutFacts ==
    ASSUME NEW S, NEW b \in Seq(S), NEW n \in 0 .. Len(b)
    PROVE  /\ SubSeq(b, 1, n) \in Seq(S) /\ Len(SubSeq(b, 1, n)) = n
           /\ \A i \in 1 .. n : SubSeq(b, 1, n)[i] = b[i]
  OBVIOUS

LEMMA CutSub ==
    ASSUME NEW S, NEW b \in Seq(S), NEW n \in 0 .. Len(b), NEW from \in Nat \ {0},
           NEW to \in Nat, to <= n
    PROVE  SubSeq(SubSeq(b, 1, n), from, to) = SubSeq(b, from, to)
  OBVIOUS

\* A number read of a binary that is cut is the one read of the whole.
LEMMA ReadCut ==
    ASSUME NEW b \in Seq(Octet), NEW n \in 0 .. Len(b), NEW pos \in Nat \ {0}
    PROVE  \/ ReadULEB(SubSeq(b, 1, n), pos) = Bad
           \/ ReadULEB(SubSeq(b, 1, n), pos) = ReadULEB(b, pos)
  <1>1. PICK a \in Seq(Octet) : /\ a = SubSeq(b, 1, n) /\ Len(a) = n
                                /\ \A i \in 1 .. n : a[i] = b[i]
    BY CutFacts, ZenonT(60)
  <1>2. CASE Ends(a, pos) = {}
    BY <1>1, <1>2 DEF ReadULEB
  <1>3. ASSUME NEW i \in Ends(a, pos)
        PROVE  ReadULEB(a, pos) = Bad \/ ReadULEB(a, pos) = ReadULEB(b, pos)
    <2>1. /\ i \in 0 .. 9 /\ pos + i <= n /\ a[pos + i] < 128
          /\ \A j \in 0 .. i - 1 : a[pos + j] >= 128
      BY <1>1, <1>3 DEF Ends
    <2>2. pos + i \in 1 .. n /\ pos + i <= Len(b) /\ \A j \in 0 .. i - 1 : pos + j \in 1 .. n
      BY <2>1
    <2>3. i \in Ends(b, pos) /\ a[pos + i] = b[pos + i]
      BY <1>1, <2>1, <2>2 DEF Ends
    <2>4. SubSeq(a, pos, pos + i) = SubSeq(b, pos, pos + i)
      BY <1>1, <2>2, CutSub
    <2> QED BY <1>3, <2>3, <2>4, ReadsThere
  <1> QED BY <1>1, <1>2, <1>3

-----------------------------------------------------------------------------
(* What the readers give.                                                    *)

Found   == Got(Nat) \cup Got(BOOLEAN)
Results == {Answer(TRUE), Answer(FALSE)} \cup {Go(at) : at \in Found}

LEMMA GotIn ==
    ASSUME NEW V, NEW v \in V, NEW p \in Nat \ {0}
    PROVE  Read(v, p) \in Got(V)
  BY DEF Got

LEMMA GotBad == \A V : Bad \in Got(V)
  BY DEF Got

LEMMA GotOut ==
    ASSUME NEW V, NEW at \in Got(V)
    PROVE  /\ at.ok \in BOOLEAN
           /\ at.ok => at.value \in V /\ at.pos \in Nat \ {0} /\ at = Read(at.value, at.pos)
           /\ ~at.ok => at = Bad
  <1>1. CASE at = Bad
    BY <1>1 DEF Bad
  <1>2. CASE \E v \in V, p \in Nat \ {0} : at = Read(v, p)
    <2>1. PICK v \in V, p \in Nat \ {0} : at = Read(v, p)
      BY <1>2
    <2> QED BY <2>1, ReadFacts
  <1> QED BY <1>1, <1>2 DEF Got

LEMMA FoundOut ==
    ASSUME NEW at \in Found
    PROVE  at.ok \in BOOLEAN /\ (at.ok => at.pos \in Nat \ {0})
  BY GotOut DEF Found

\* What the readers go on from is a place in the binary.
LEMMA SkipTyped ==
    ASSUME NEW b \in Seq(Octet), NEW at \in Found
    PROVE  SkipULEB(b, at) \in Got(Nat) /\ SkipByte(b, at) \in Got(Nat)
  <1>1. CASE ~at.ok
    BY <1>1, GotBad DEF SkipULEB, SkipByte
  <1>2. CASE at.ok
    <2>1. at.pos \in Nat \ {0}
      BY <1>2, FoundOut
    <2>2. SkipULEB(b, at) \in Got(Nat)
      BY <1>2, <2>1, ReadTyped DEF SkipULEB
    <2>3. CASE at.pos <= Len(b)
      <3>1. at.pos \in 1 .. Len(b) /\ at.pos + 1 \in Nat \ {0}
        BY <2>1, <2>3
      <3>2. b[at.pos] \in Octet
        BY <3>1, Elements
      <3>3. b[at.pos] \in Nat
        <4>1. Octet \subseteq Nat
          BY DEF Octet
        <4> QED BY <3>2, <4>1
      <3>4. SkipByte(b, at) = Read(b[at.pos], at.pos + 1)
        BY <1>2, <2>3 DEF SkipByte
      <3>5. Read(b[at.pos], at.pos + 1) \in Got(Nat)
        BY <3>1, <3>3, GotIn
      <3> QED BY <2>2, <3>4, <3>5
    <2>4. CASE ~(at.pos <= Len(b))
      BY <2>2, <2>4, GotBad DEF SkipByte
    <2> QED BY <2>3, <2>4
  <1> QED BY <1>1, <1>2, FoundOut

LEMMA NameTyped ==
    ASSUME NEW b \in Seq(Octet), NEW at \in Found
    PROVE  SkipName(b, at) \in Got(Nat)
  <1>1. PICK n \in Got(Nat) : n = SkipULEB(b, at)
    BY SkipTyped
  <1>2. CASE n.ok /\ n.value <= Len(b) - n.pos + 1
    <2>1. n.value \in Nat /\ n.pos \in Nat \ {0}
      BY <1>2, GotOut
    <2>2. n.pos + n.value \in Nat \ {0} /\ 0 \in Nat
      BY <2>1
    <2>3. SkipName(b, at) = Read(0, n.pos + n.value)
      BY <1>1, <1>2 DEF SkipName
    <2> QED BY <2>2, <2>3, GotIn
  <1>3. CASE ~(n.ok /\ n.value <= Len(b) - n.pos + 1)
    <2>1. SkipName(b, at) = Bad
      BY <1>1, <1>3 DEF SkipName
    <2> QED BY <2>1, GotBad
  <1> QED BY <1>2, <1>3

LEMMA LimitsTyped ==
    ASSUME NEW b \in Seq(Octet), NEW at \in Found
    PROVE  Limits(b, at) \in Got(BOOLEAN)
  <1>1. \A f \in Found : SkipULEB(b, f) \in Got(Nat)
    BY SkipTyped
  <1>2. Got(Nat) \subseteq Found /\ Bad \in Got(Nat)
    BY GotBad DEF Found
  <1>3. PICK flags \in Got(Nat) : flags = SkipULEB(b, at)
    BY <1>1
  <1>4. PICK min \in Got(Nat) :
           min = IF flags.ok /\ flags.value <= 7 THEN SkipULEB(b, flags) ELSE Bad
    BY <1>1, <1>2
  <1>5. PICK end \in Got(Nat) :
           end = IF min.ok /\ Bit(flags.value, 1) THEN SkipULEB(b, min) ELSE min
    BY <1>1, <1>2
  <1>6. Limits(b, at) = IF end.ok THEN Read(Bit(flags.value, 4), end.pos) ELSE Bad
    BY <1>3, <1>4, <1>5 DEF Limits
  <1>7. Bit(flags.value, 4) \in BOOLEAN
    BY DEF Bit
  <1>8. end.ok => end.pos \in Nat \ {0}
    BY GotOut
  <1> QED BY <1>6, <1>7, <1>8, GotIn, GotBad

LEMMA GoTyped ==
    /\ Answer(TRUE) \in Results /\ Answer(FALSE) \in Results
    /\ \A at \in Found : Go(at) \in Results
    /\ \A at \in Got(BOOLEAN) : Go(at) \in Results /\ Memory(at) \in Results
    /\ \A at \in Got(Nat) : Go(at) \in Results
  BY DEF Results, Memory, Found

\* Where a walk is that has not answered.
Past(step, pos) ==
    step.done = FALSE /\ step.is = FALSE /\ step.at.ok = TRUE /\ step.at.pos = pos

\* A step has answered, or it stands at a place.
LEMMA ResultFacts ==
    /\ \A is \in BOOLEAN : Answer(is).done = TRUE /\ Answer(is).is = is
    /\ \A at : at.ok = TRUE => Past(Go(at), at.pos)
    /\ \A r \in Results : r.done = FALSE =>
          r.at \in Found /\ r.at.ok = TRUE /\ r.at.pos \in Nat \ {0} /\ Past(r, r.at.pos)
    /\ \A r \in Results : r.done \in BOOLEAN /\ (r.is => r.done)
    /\ \A r \in Results : r.is \in BOOLEAN
  <1>1. \A is : Answer(is).done = TRUE /\ Answer(is).is = is
    BY DEF Answer
  <1>2. \A at : at.ok = TRUE => /\ Go(at).done = FALSE /\ Go(at).is = FALSE /\ Go(at).at = at
    BY DEF Go
  <1>3. \A at : ~at.ok => Go(at) = Answer(FALSE)
    BY DEF Go
  <1>4. ASSUME NEW r \in Results
        PROVE  /\ r.done \in BOOLEAN /\ r.is \in BOOLEAN /\ (r.is => r.done)
               /\ r.done = FALSE => r.at \in Found /\ r.at.ok = TRUE /\ r.at.pos \in Nat \ {0}
                                    /\ Past(r, r.at.pos)
    <2>1. CASE r \in {Answer(TRUE), Answer(FALSE)}
      BY <1>1, <2>1
    <2>2. CASE \E at \in Found : r = Go(at)
      <3>1. PICK at \in Found : r = Go(at)
        BY <2>2
      <3>2. CASE at.ok = TRUE
        BY <1>2, <3>1, <3>2, FoundOut DEF Past
      <3>3. CASE ~at.ok
        BY <1>1, <1>3, <3>1, <3>3
      <3>4. at.ok = TRUE \/ ~at.ok
        BY <3>1, FoundOut
      <3> QED BY <3>2, <3>3, <3>4
    <2> QED BY <2>1, <2>2 DEF Results
  <1> QED BY <1>1, <1>2, <1>4 DEF Past

LEMMA ItemTyped ==
    ASSUME NEW b \in Seq(Octet), NEW at \in Found, NEW id
    PROVE  Item(id, b, at) \in Results
  <1>1. Got(Nat) \subseteq Found /\ Got(BOOLEAN) \subseteq Found
    BY DEF Found
  <1>2. MemoryItem(b, at) \in Results
    BY LimitsTyped, GoTyped DEF MemoryItem
  <1>3. PICK kind \in Got(Nat) : kind = SkipByte(b, SkipName(b, SkipName(b, at)))
    BY <1>1, NameTyped, SkipTyped
  <1>4. Go(SkipULEB(b, kind)) \in Results
    BY <1>1, SkipTyped, GoTyped
  <1>5. Table(b, kind) \in Results
    BY <1>1, SkipTyped, LimitsTyped, GoTyped DEF Table
  <1>6. Memory(Limits(b, kind)) \in Results
    BY <1>1, LimitsTyped, GoTyped
  <1>7. Go(SkipByte(b, SkipByte(b, kind))) \in Results
    BY <1>1, SkipTyped, GoTyped
  <1>8. Go(SkipULEB(b, SkipULEB(b, kind))) \in Results
    BY <1>1, SkipTyped, GoTyped
  <1>9. Import(b, at) = CASE ~kind.ok -> Answer(FALSE)
                          [] kind.ok /\ kind.value = 0 -> Go(SkipULEB(b, kind))
                          [] kind.ok /\ kind.value = 1 -> Table(b, kind)
                          [] kind.ok /\ kind.value = 2 -> Memory(Limits(b, kind))
                          [] kind.ok /\ kind.value = 3 -> Go(SkipByte(b, SkipByte(b, kind)))
                          [] kind.ok /\ kind.value = 4 -> Go(SkipULEB(b, SkipULEB(b, kind)))
                          [] OTHER -> Answer(FALSE)
    BY <1>3 DEF Import
  <1>10. Answer(FALSE) \in Results
    BY GoTyped
  <1>11. Import(b, at) \in Results
    <2>1. CASE ~kind.ok
      BY <1>9, <1>10, <2>1
    <2>2. CASE kind.ok /\ kind.value = 0
      BY <1>9, <1>4, <2>2
    <2>3. CASE kind.ok /\ kind.value = 1
      BY <1>9, <1>5, <2>3
    <2>4. CASE kind.ok /\ kind.value = 2
      BY <1>9, <1>6, <2>4
    <2>5. CASE kind.ok /\ kind.value = 3
      BY <1>9, <1>7, <2>5
    <2>6. CASE kind.ok /\ kind.value = 4
      BY <1>9, <1>8, <2>6
    <2>7. CASE kind.ok /\ kind.value \notin {0, 1, 2, 3, 4}
      BY <1>9, <1>10, <2>7
    <2> QED BY <2>1, <2>2, <2>3, <2>4, <2>5, <2>6, <2>7
  <1> QED BY <1>2, <1>11 DEF Item

-----------------------------------------------------------------------------
(* What is written is read.                                                  *)

\* A reader that went on, to pos.
Stands(at, pos) == at \in Found /\ at.ok = TRUE /\ at.pos = pos

LEMMA StandsRead ==
    ASSUME NEW v \in Nat \cup BOOLEAN, NEW p \in Nat \ {0}
    PROVE  Stands(Read(v, p), p)
  BY ReadFacts, GotIn DEF Stands, Found

LEMMA SkipRead ==
    ASSUME NEW b \in Seq(Octet), NEW pos \in Nat \ {0}, NEW at, Stands(at, pos),
           NEW n \in Nat, NEW pad \in 1 .. 10, Fits(n, pad), At(b, pos, Padded(n, pad))
    PROVE  /\ SkipULEB(b, at) = Read(n, pos + pad) /\ Stands(SkipULEB(b, at), pos + pad)
           /\ pos + pad \in Nat \ {0}
  <1>1. SkipULEB(b, at) = Read(n, pos + pad)
    BY NumberRead DEF SkipULEB, Stands
  <1>2. pos + pad \in Nat \ {0}
    OBVIOUS
  <1> QED BY <1>1, <1>2, StandsRead

LEMMA ByteRead ==
    ASSUME NEW b \in Seq(Octet), NEW pos \in Nat \ {0}, NEW at, Stands(at, pos),
           NEW x \in Octet, At(b, pos, <<x>>)
    PROVE  /\ SkipByte(b, at) = Read(x, pos + 1) /\ Stands(SkipByte(b, at), pos + 1)
           /\ pos + 1 \in Nat \ {0}
  <1>1. Len(<<x>>) = 1 /\ <<x>>[1] = x /\ Len(b) \in Nat /\ 1 \in 1 .. 1
    OBVIOUS
  <1>2. pos - 1 + 1 <= Len(b) /\ b[pos - 1 + 1] = x
    BY <1>1 DEF At
  <1>3. pos <= Len(b) /\ b[pos] = x
    BY <1>1, <1>2
  <1>4. SkipByte(b, at) = Read(x, pos + 1)
    BY <1>3 DEF SkipByte, Stands
  <1>5. x \in Nat
    <2>1. Octet \subseteq Nat
      BY DEF Octet
    <2> QED BY <2>1
  <1>6. pos + 1 \in Nat \ {0}
    OBVIOUS
  <1> QED BY <1>4, <1>5, <1>6, StandsRead

LEMMA PaddedTyped ==
    ASSUME NEW n \in Nat, NEW pad \in Nat \ {0}
    PROVE  Padded(n, pad) \in Seq(Octet) /\ Len(Padded(n, pad)) = pad
  <1>1. pad \in Nat \ {0}
    OBVIOUS
  <1> QED BY <1>1, PaddedFacts

LEMMA JoinTyped ==
    ASSUME NEW S, NEW s \in Seq(S), NEW t \in Seq(S)
    PROVE  s \o t \in Seq(S) /\ Len(s \o t) = Len(s) + Len(t)
  OBVIOUS

\* An item whose numbers can be written so.
FitsItem(i, pad) == \A n \in {Len(i.name), i.flags, i.min, i.max} : Fits(n, pad)

\* Limits are read to their end, and their flags say 64 bits or not.
LEMMA LimitsRead ==
    ASSUME NEW b \in Seq(Octet), NEW pos \in Nat \ {0}, NEW at, Stands(at, pos),
           NEW i \in Items, NEW pad \in 1 .. 10, FitsItem(i, pad),
           At(b, pos, LimitsOf(i, pad))
    PROVE  /\ LimitsOf(i, pad) \in Seq(Octet) /\ Len(LimitsOf(i, pad)) \in Nat \ {0}
           /\ Limits(b, at) = Read(Bit(i.flags, 4), pos + Len(LimitsOf(i, pad)))
  <1>1. i.flags \in 0 .. 7 /\ i.flags \in Nat /\ i.min \in Nat /\ i.max \in Nat
    BY DEF Items
  <1>2. PICK f \in Nat, lo \in Nat, hi \in Nat : f = i.flags /\ lo = i.min /\ hi = i.max
    BY <1>1
  <1>3. Fits(f, pad) /\ Fits(lo, pad) /\ Fits(hi, pad) /\ f <= 7
    BY <1>1, <1>2 DEF FitsItem
  <1>4. PICK F \in Seq(Octet), L \in Seq(Octet), H \in Seq(Octet) :
           /\ F = Padded(f, pad) /\ L = Padded(lo, pad) /\ H = Padded(hi, pad)
           /\ Len(F) = pad /\ Len(L) = pad /\ Len(H) = pad
    <2>1. /\ Padded(f, pad) \in Seq(Octet) /\ Padded(lo, pad) \in Seq(Octet)
          /\ Padded(hi, pad) \in Seq(Octet) /\ Len(Padded(f, pad)) = pad
          /\ Len(Padded(lo, pad)) = pad /\ Len(Padded(hi, pad)) = pad
      BY PaddedTyped
    <2> QED BY <2>1
  <1>5. PICK E \in Seq(Octet) : E = IF Bit(f, 1) THEN H ELSE <<>>
    BY <1>4, EmptyTyped
  <1>6. LimitsOf(i, pad) = (F \o L) \o E
    BY <1>2, <1>4, <1>5 DEF LimitsOf
  <1>7. /\ F \o L \in Seq(Octet) /\ (F \o L) \o E \in Seq(Octet)
        /\ Len((F \o L) \o E) = pad + pad + Len(E) /\ Len(F \o L) = pad + pad
    BY <1>4, JoinTyped
  <1>8. At(b, pos, F \o L) /\ At(b, pos + (pad + pad), E)
    <2>1. At(b, pos, (F \o L) \o E)
      BY <1>6
    <2> QED BY <1>7, <2>1, AtParts
  <1>9. At(b, pos, F) /\ At(b, pos + pad, L)
    BY <1>4, <1>8, AtParts
  <1>10. PICK flags : flags = SkipULEB(b, at)
    OBVIOUS
  <1>11. flags = Read(f, pos + pad) /\ Stands(flags, pos + pad) /\ pos + pad \in Nat \ {0}
    BY <1>3, <1>4, <1>9, <1>10, SkipRead
  <1>12. PICK min : min = IF flags.ok /\ flags.value <= 7 THEN SkipULEB(b, flags) ELSE Bad
    OBVIOUS
  <1>13. /\ min = Read(lo, pos + pad + pad) /\ Stands(min, pos + pad + pad)
         /\ pos + pad + pad \in Nat \ {0}
    <2>1. min = SkipULEB(b, flags)
      BY <1>3, <1>11, <1>12, ReadFacts
    <2> QED BY <1>3, <1>4, <1>9, <1>11, <2>1, SkipRead
  <1>14. PICK end : end = IF min.ok /\ Bit(flags.value, 1) THEN SkipULEB(b, min) ELSE min
    OBVIOUS
  <1>15. end.ok = TRUE /\ end.pos = pos + (pad + pad + Len(E))
    <2>1. CASE Bit(f, 1)
      <3>1. E = H /\ Len(E) = pad
        BY <1>4, <1>5, <2>1
      <3>2. end = SkipULEB(b, min)
        BY <1>11, <1>13, <1>14, <2>1, ReadFacts
      <3>3. pos + (pad + pad) = pos + pad + pad
        OBVIOUS
      <3>4. At(b, pos + pad + pad, Padded(hi, pad))
        BY <1>4, <1>8, <3>1, <3>3
      <3>5. Stands(end, pos + pad + pad + pad)
        BY <1>3, <1>13, <3>2, <3>4, SkipRead
      <3>6. pos + pad + pad + pad = pos + (pad + pad + Len(E))
        BY <3>1
      <3> QED BY <3>5, <3>6 DEF Stands
    <2>2. CASE ~Bit(f, 1)
      <3>1. E = <<>> /\ Len(E) = 0
        BY <1>5, <2>2
      <3>2. end = min
        BY <1>11, <1>14, <2>2, ReadFacts
      <3>3. pos + pad + pad = pos + (pad + pad + Len(E))
        BY <3>1
      <3> QED BY <1>13, <3>2, <3>3 DEF Stands
    <2> QED BY <2>1, <2>2
  <1>16. Limits(b, at) = Read(Bit(f, 4), pos + (pad + pad + Len(E)))
    <2>1. Limits(b, at) = IF end.ok THEN Read(Bit(flags.value, 4), end.pos) ELSE Bad
      BY <1>10, <1>12, <1>14 DEF Limits
    <2>2. flags.value = f
      BY <1>11, ReadFacts
    <2> QED BY <1>15, <2>1, <2>2
  <1>17. pad + pad + Len(E) \in Nat \ {0}
    <2>1. Len(E) \in Nat
      OBVIOUS
    <2> QED BY <2>1
  <1> QED BY <1>2, <1>6, <1>7, <1>16, <1>17

\* A name is passed over.
LEMMA NameRead ==
    ASSUME NEW b \in Seq(Octet), NEW pos \in Nat \ {0}, NEW at, Stands(at, pos),
           NEW i \in Items, NEW pad \in 1 .. 10, FitsItem(i, pad),
           At(b, pos, NameOf(i, pad))
    PROVE  /\ Stands(SkipName(b, at), pos + Len(NameOf(i, pad)))
           /\ pos + Len(NameOf(i, pad)) \in Nat \ {0}
  <1>1. PICK name \in Seq(Octet), n \in Nat : name = i.name /\ n = Len(name)
    BY DEF Items, Octet
  <1>2. Fits(n, pad)
    BY <1>1 DEF FitsItem
  <1>3. PICK N \in Seq(Octet) : N = Padded(n, pad) /\ Len(N) = pad
    BY PaddedTyped
  <1>4. NameOf(i, pad) = N \o name
    BY <1>1, <1>3 DEF NameOf
  <1>5. Len(N \o name) = pad + n
    <2>1. Len(N \o name) = Len(N) + Len(name)
      BY JoinTyped
    <2> QED BY <1>1, <1>3, <2>1
  <1>6. At(b, pos, N) /\ At(b, pos + pad, name)
    BY <1>3, <1>4, AtParts
  <1>7. PICK at2 : at2 = SkipULEB(b, at)
    OBVIOUS
  <1>8. at2 = Read(n, pos + pad) /\ pos + pad \in Nat \ {0}
    BY <1>2, <1>3, <1>6, <1>7, SkipRead
  <1>9. n <= Len(b) - (pos + pad) + 1
    BY <1>1, <1>6, <1>8 DEF At
  <1>10. SkipName(b, at) = Read(0, pos + pad + n)
    BY <1>7, <1>8, <1>9, ReadFacts DEF SkipName
  <1>11. pos + pad + n \in Nat \ {0} /\ pos + pad + n = pos + (pad + n)
    OBVIOUS
  <1> QED BY <1>4, <1>5, <1>10, <1>11, StandsRead

LEMMA NameWritten ==
    ASSUME NEW i \in Items, NEW pad \in Nat \ {0}
    PROVE  NameOf(i, pad) \in Seq(Octet)
  <1>1. i.name \in Seq(Octet) /\ Len(i.name) \in Nat
    BY DEF Items, Octet
  <1>2. Padded(Len(i.name), pad) \in Seq(Octet)
    BY <1>1, PaddedTyped
  <1> QED BY <1>1, <1>2, JoinTyped DEF NameOf

LEMMA LimitsWritten ==
    ASSUME NEW i \in Items, NEW pad \in Nat \ {0}
    PROVE  LimitsOf(i, pad) \in Seq(Octet) /\ Len(LimitsOf(i, pad)) \in Nat \ {0}
  <1>1. i.flags \in Nat /\ i.min \in Nat /\ i.max \in Nat
    BY DEF Items
  <1>2. PICK F \in Seq(Octet), L \in Seq(Octet) :
           F = Padded(i.flags, pad) /\ L = Padded(i.min, pad) /\ Len(F) = pad /\ Len(L) = pad
    <2>1. /\ Padded(i.flags, pad) \in Seq(Octet) /\ Len(Padded(i.flags, pad)) = pad
          /\ Padded(i.min, pad) \in Seq(Octet) /\ Len(Padded(i.min, pad)) = pad
      BY <1>1, PaddedTyped
    <2> QED BY <2>1
  <1>3. PICK E \in Seq(Octet) : E = IF Bit(i.flags, 1) THEN Padded(i.max, pad) ELSE <<>>
    BY <1>1, PaddedTyped, EmptyTyped
  <1>4. LimitsOf(i, pad) = (F \o L) \o E
    BY <1>2, <1>3 DEF LimitsOf
  <1>5. F \o L \in Seq(Octet) /\ Len(F \o L) = Len(F) + Len(L)
    BY JoinTyped
  <1>6. (F \o L) \o E \in Seq(Octet) /\ Len((F \o L) \o E) = Len(F \o L) + Len(E)
    BY <1>5, JoinTyped
  <1>7. Len(E) \in Nat
    OBVIOUS
  <1>8. Len((F \o L) \o E) \in Nat \ {0}
    BY <1>2, <1>5, <1>6, <1>7
  <1> QED BY <1>4, <1>6, <1>8

\* A step answers, or goes on behind what it read.
Does(r, hit, pos) == IF hit THEN r = Answer(TRUE) ELSE Past(r, pos)

LEMMA GoesOn ==
    ASSUME NEW at, NEW pos, Stands(at, pos)
    PROVE  Does(Go(at), FALSE, pos)
  BY ResultFacts DEF Stands, Does

LEMMA MemoryDoes ==
    ASSUME NEW hit \in BOOLEAN, NEW pos \in Nat \ {0}
    PROVE  Does(Memory(Read(hit, pos)), hit, pos) /\ Does(Go(Read(hit, pos)), FALSE, pos)
  <1>1. Stands(Read(hit, pos), pos)
    BY StandsRead
  <1>2. Does(Go(Read(hit, pos)), FALSE, pos)
    BY <1>1, GoesOn
  <1>3. Memory(Read(hit, pos)) = IF hit THEN Answer(TRUE) ELSE Go(Read(hit, pos))
    BY ReadFacts DEF Memory
  <1> QED BY <1>2, <1>3 DEF Does

\* A memory of 64 bits is answered, another is passed over.
LEMMA MemoryRead ==
    ASSUME NEW b \in Seq(Octet), NEW pos \in Nat \ {0}, NEW at, Stands(at, pos),
           NEW i \in Items, NEW pad \in 1 .. 10, FitsItem(i, pad),
           At(b, pos, LimitsOf(i, pad))
    PROVE  /\ Does(Memory(Limits(b, at)), Bit(i.flags, 4), pos + Len(LimitsOf(i, pad)))
           /\ Does(Go(Limits(b, at)), FALSE, pos + Len(LimitsOf(i, pad)))
  <1>1. Bit(i.flags, 4) \in BOOLEAN
    BY DEF Bit
  <1>2. Len(LimitsOf(i, pad)) \in Nat
    BY LimitsWritten
  <1>3. pos + Len(LimitsOf(i, pad)) \in Nat \ {0}
    BY <1>2
  <1>4. PICK p \in Nat \ {0}, hit \in BOOLEAN :
           p = pos + Len(LimitsOf(i, pad)) /\ hit = Bit(i.flags, 4)
    BY <1>1, <1>3
  <1>5. Limits(b, at) = Read(hit, p)
    BY <1>4, LimitsRead
  <1> QED BY <1>4, <1>5, MemoryDoes

\* What is behind the names of an import.
Kind(b, kind) ==
    CASE ~kind.ok -> Answer(FALSE)
      [] kind.ok /\ kind.value = 0 -> Go(SkipULEB(b, kind))
      [] kind.ok /\ kind.value = 1 -> Table(b, kind)
      [] kind.ok /\ kind.value = 2 -> Memory(Limits(b, kind))
      [] kind.ok /\ kind.value = 3 -> Go(SkipByte(b, SkipByte(b, kind)))
      [] kind.ok /\ kind.value = 4 -> Go(SkipULEB(b, SkipULEB(b, kind)))
      [] OTHER -> Answer(FALSE)

LEMMA ByteJoined ==
    ASSUME NEW b \in Seq(Octet), NEW pos \in Nat \ {0}, NEW x \in Octet, NEW s \in Seq(Octet),
           At(b, pos, <<x>> \o s)
    PROVE  /\ At(b, pos, <<x>>) /\ At(b, pos + 1, s) /\ <<x>> \o s \in Seq(Octet)
           /\ Len(<<x>> \o s) = 1 + Len(s) /\ pos + 1 \in Nat \ {0}
  <1>1. <<x>> \in Seq(Octet) /\ Len(<<x>>) = 1
    OBVIOUS
  <1>2. <<x>> \o s \in Seq(Octet) /\ Len(<<x>> \o s) = 1 + Len(s)
    BY <1>1, JoinTyped
  <1>3. At(b, pos, <<x>>) /\ At(b, pos + 1, s)
    BY <1>1, AtParts
  <1> QED BY <1>2, <1>3

\* So is what is imported, of each kind; a table's flags are its own.
LEMMA KindRead ==
    ASSUME NEW b \in Seq(Octet), NEW pos \in Nat \ {0}, NEW at, Stands(at, pos),
           NEW i \in Items, NEW pad \in 1 .. 10, FitsItem(i, pad), Fits(0, pad),
           At(b, pos, ImportedOf(i, pad))
    PROVE  Does(Kind(b, SkipByte(b, at)), i.kind = "memory" /\ Bit(i.flags, 4),
                pos + Len(ImportedOf(i, pad)))
  <1>1. i.kind \in Kinds /\ i.min \in Nat /\ Fits(i.min, pad) /\ 0 \in Nat
    BY DEF Items, FitsItem
  <1>2. {0, 1, 2, 3, 4, 112, 127} \subseteq Octet
    BY DEF Octet
  <1>3. PICK kind : kind = SkipByte(b, at)
    OBVIOUS
  <1>4. ASSUME NEW x \in Octet, NEW s \in Seq(Octet), ImportedOf(i, pad) = <<x>> \o s
        PROVE  /\ kind = Read(x, pos + 1) /\ Stands(kind, pos + 1) /\ kind.ok
               /\ kind.value = x
               /\ At(b, pos + 1, s) /\ pos + 1 \in Nat \ {0}
               /\ pos + Len(ImportedOf(i, pad)) = pos + 1 + Len(s)
    <2>1. At(b, pos, <<x>>) /\ At(b, pos + 1, s) /\ Len(<<x>> \o s) = 1 + Len(s)
          /\ pos + 1 \in Nat \ {0}
      BY <1>4, ByteJoined
    <2>2. kind = Read(x, pos + 1) /\ Stands(kind, pos + 1)
      BY <1>3, <2>1, ByteRead
    <2>3. Len(s) \in Nat
      OBVIOUS
    <2> QED BY <1>4, <2>1, <2>2, <2>3, ReadFacts
  <1>5. CASE i.kind = "func"
    <2>1. PICK s \in Seq(Octet) : s = Padded(i.min, pad) /\ Len(s) = pad
      BY <1>1, PaddedTyped
    <2>2. ImportedOf(i, pad) = <<0>> \o s
      BY <1>5, <2>1 DEF ImportedOf
    <2>3. /\ Stands(kind, pos + 1) /\ kind.ok /\ kind.value = 0
          /\ At(b, pos + 1, s) /\ pos + 1 \in Nat \ {0}
          /\ pos + Len(ImportedOf(i, pad)) = pos + 1 + pad
      BY <1>2, <1>4, <2>1, <2>2
    <2>4. Stands(SkipULEB(b, kind), pos + 1 + pad)
      BY <1>1, <2>1, <2>3, SkipRead
    <2>5. Kind(b, kind) = Go(SkipULEB(b, kind))
      BY <2>3 DEF Kind
    <2> QED BY <1>3, <1>5, <2>3, <2>4, <2>5, GoesOn
  <1>6. CASE i.kind = "memory"
    <2>1. PICK s \in Seq(Octet) : s = LimitsOf(i, pad)
      BY LimitsWritten
    <2>2. ImportedOf(i, pad) = <<2>> \o s
      BY <1>6, <2>1 DEF ImportedOf
    <2>3. /\ Stands(kind, pos + 1) /\ kind.ok /\ kind.value = 2
          /\ At(b, pos + 1, s) /\ pos + 1 \in Nat \ {0}
          /\ pos + Len(ImportedOf(i, pad)) = pos + 1 + Len(s)
      BY <1>2, <1>4, <2>2
    <2>4. Does(Memory(Limits(b, kind)), Bit(i.flags, 4), pos + 1 + Len(s))
      BY <2>1, <2>3, MemoryRead
    <2>5. Kind(b, kind) = Memory(Limits(b, kind))
      BY <2>3 DEF Kind
    <2>6. (i.kind = "memory" /\ Bit(i.flags, 4)) = Bit(i.flags, 4)
      BY <1>6 DEF Bit
    <2> QED BY <1>3, <2>3, <2>4, <2>5, <2>6
  <1>7. CASE i.kind = "table"
    <2>1. PICK t \in Seq(Octet) : t = LimitsOf(i, pad)
      BY LimitsWritten
    <2>2. ImportedOf(i, pad) = <<1>> \o (<<112>> \o t) /\ <<112>> \o t \in Seq(Octet)
          /\ Len(<<112>> \o t) = 1 + Len(t)
      <3>1. <<1, 112>> \o t = <<1>> \o (<<112>> \o t) /\ <<112>> \o t \in Seq(Octet)
            /\ Len(<<112>> \o t) = 1 + Len(t)
        BY <1>2, SMTT(40)
      <3> QED BY <1>7, <2>1, <3>1 DEF ImportedOf
    <2>3. PICK s \in Seq(Octet) : s = <<112>> \o t
      BY <2>2
    <2>4. /\ Stands(kind, pos + 1) /\ kind.ok /\ kind.value = 1
          /\ At(b, pos + 1, s) /\ pos + 1 \in Nat \ {0}
          /\ pos + Len(ImportedOf(i, pad)) = pos + 1 + Len(s)
      BY <1>2, <1>4, <2>2, <2>3, ZenonT(60)
    <2>5. At(b, pos + 1, <<112>>) /\ At(b, pos + 1 + 1, t) /\ pos + 1 + 1 \in Nat \ {0}
      BY <1>2, <2>3, <2>4, ByteJoined
    <2>6. Stands(SkipByte(b, kind), pos + 1 + 1)
      BY <1>2, <2>4, <2>5, ByteRead
    <2>7. Does(Go(Limits(b, SkipByte(b, kind))), FALSE, pos + 1 + 1 + Len(t))
      BY <2>1, <2>5, <2>6, MemoryRead
    <2>8. Kind(b, kind) = Go(Limits(b, SkipByte(b, kind)))
      BY <2>4 DEF Kind, Table
    <2>9. pos + 1 + 1 + Len(t) = pos + 1 + Len(s)
      <3>1. Len(t) \in Nat
        OBVIOUS
      <3> QED BY <2>2, <2>3, <3>1
    <2> QED BY <1>3, <1>7, <2>4, <2>7, <2>8, <2>9
  <1>8. CASE i.kind = "global"
    <2>1. PICK s \in Seq(Octet) : s = <<127>> \o <<0>> /\ Len(s) = 2
      <3>1. <<127>> \o <<0>> \in Seq(Octet) /\ Len(<<127>> \o <<0>>) = 2
        BY <1>2
      <3> QED BY <3>1
    <2>0. Len(s) = 2 /\ 3 \in Octet
      BY <1>2, <2>1
    <2>2. ImportedOf(i, pad) = <<3>> \o s /\ <<0>> \in Seq(Octet)
      <3>1. <<3, 127, 0>> = <<3>> \o (<<127>> \o <<0>>) /\ <<0>> \in Seq(Octet)
        BY <1>2
      <3> QED BY <1>8, <2>1, <3>1 DEF ImportedOf
    <2>3. /\ Stands(kind, pos + 1) /\ kind.ok /\ kind.value = 3
          /\ At(b, pos + 1, s) /\ pos + 1 \in Nat \ {0}
          /\ pos + Len(ImportedOf(i, pad)) = pos + 1 + 2
      BY <1>4, <2>0, <2>2
    <2>4. At(b, pos + 1, <<127>>) /\ At(b, pos + 1 + 1, <<0>>) /\ pos + 1 + 1 \in Nat \ {0}
      <3>1. PICK x \in Octet, z \in Seq(Octet) : x = 127 /\ z = <<0>>
        BY <1>2, <2>2
      <3>2. s = <<x>> \o z
        BY <2>1, <3>1
      <3>3. At(b, pos + 1, <<x>>) /\ At(b, pos + 1 + 1, z) /\ pos + 1 + 1 \in Nat \ {0}
        BY <2>3, <3>2, ByteJoined
      <3> QED BY <3>1, <3>3
    <2>5. Stands(SkipByte(b, kind), pos + 1 + 1)
      BY <1>2, <2>3, <2>4, ByteRead
    <2>6. Stands(SkipByte(b, SkipByte(b, kind)), pos + 1 + 1 + 1)
      BY <1>2, <2>4, <2>5, ByteRead
    <2>7. Kind(b, kind) = Go(SkipByte(b, SkipByte(b, kind)))
      BY <2>3 DEF Kind
    <2>8. pos + 1 + 1 + 1 = pos + 1 + 2
      OBVIOUS
    <2> QED BY <1>3, <1>8, <2>3, <2>6, <2>7, <2>8, GoesOn
  <1>9. CASE i.kind = "tag"
    <2>1. PICK Z \in Seq(Octet), M \in Seq(Octet) :
             Z = Padded(0, pad) /\ M = Padded(i.min, pad) /\ Len(Z) = pad /\ Len(M) = pad
      <3>1. /\ Padded(0, pad) \in Seq(Octet) /\ Len(Padded(0, pad)) = pad
            /\ Padded(i.min, pad) \in Seq(Octet) /\ Len(Padded(i.min, pad)) = pad
        BY <1>1, PaddedTyped
      <3> QED BY <3>1
    <2>2. PICK s \in Seq(Octet) : s = Z \o M /\ Len(s) = pad + pad
      <3>1. Z \o M \in Seq(Octet) /\ Len(Z \o M) = Len(Z) + Len(M)
        BY JoinTyped
      <3> QED BY <2>1, <3>1
    <2>3. ImportedOf(i, pad) = <<4>> \o s
      <3>1. (<<4>> \o Z) \o M = <<4>> \o (Z \o M)
        BY <1>2, SMTT(40)
      <3> QED BY <1>9, <2>1, <2>2, <3>1 DEF ImportedOf
    <2>4. /\ Stands(kind, pos + 1) /\ kind.ok /\ kind.value = 4
          /\ At(b, pos + 1, s) /\ pos + 1 \in Nat \ {0}
          /\ pos + Len(ImportedOf(i, pad)) = pos + 1 + (pad + pad)
      BY <1>2, <1>4, <2>2, <2>3
    <2>5. At(b, pos + 1, Z) /\ At(b, pos + 1 + pad, M)
      BY <2>1, <2>2, <2>4, AtParts
    <2>6. Stands(SkipULEB(b, kind), pos + 1 + pad) /\ pos + 1 + pad \in Nat \ {0}
      BY <1>1, <2>1, <2>4, <2>5, SkipRead
    <2>7. Stands(SkipULEB(b, SkipULEB(b, kind)), pos + 1 + pad + pad)
      BY <1>1, <2>1, <2>5, <2>6, SkipRead
    <2>8. Kind(b, kind) = Go(SkipULEB(b, SkipULEB(b, kind)))
      BY <2>4 DEF Kind
    <2>9. pos + 1 + pad + pad = pos + 1 + (pad + pad)
      OBVIOUS
    <2> QED BY <1>3, <1>9, <2>4, <2>7, <2>8, <2>9, GoesOn
  <1> QED BY <1>1, <1>5, <1>6, <1>7, <1>8, <1>9 DEF Kinds

LEMMA NameLong ==
    ASSUME NEW i \in Items, NEW pad \in Nat \ {0}
    PROVE  Len(NameOf(i, pad)) \in Nat \ {0}
  <1>1. i.name \in Seq(Octet) /\ Len(i.name) \in Nat
    BY DEF Items, Octet
  <1>2. PICK N \in Seq(Octet) : N = Padded(Len(i.name), pad) /\ Len(N) = pad
    BY <1>1, PaddedTyped
  <1>3. Len(N \o i.name) = Len(N) + Len(i.name)
    BY <1>1, JoinTyped
  <1>4. Len(N \o i.name) \in Nat \ {0}
    BY <1>1, <1>2, <1>3
  <1> QED BY <1>2, <1>4 DEF NameOf

LEMMA ImportedWritten ==
    ASSUME NEW i \in Items, NEW pad \in Nat \ {0}
    PROVE  ImportedOf(i, pad) \in Seq(Octet)
  <1>1. i.kind \in Kinds /\ i.min \in Nat /\ 0 \in Nat
    BY DEF Items
  <1>2. {0, 1, 2, 3, 4, 112, 127} \subseteq Octet
    BY DEF Octet
  <1>3. PICK M \in Seq(Octet), Z \in Seq(Octet), L \in Seq(Octet) :
           M = Padded(i.min, pad) /\ Z = Padded(0, pad) /\ L = LimitsOf(i, pad)
    BY <1>1, PaddedTyped, LimitsWritten
  <1>4. /\ <<0>> \in Seq(Octet) /\ <<1, 112>> \in Seq(Octet) /\ <<2>> \in Seq(Octet)
        /\ <<3, 127, 0>> \in Seq(Octet) /\ <<4>> \in Seq(Octet)
    BY <1>2
  <1>5. /\ <<0>> \o M \in Seq(Octet) /\ <<1, 112>> \o L \in Seq(Octet)
        /\ <<2>> \o L \in Seq(Octet) /\ <<4>> \o Z \in Seq(Octet)
        /\ (<<4>> \o Z) \o M \in Seq(Octet)
    <2>1. <<4>> \o Z \in Seq(Octet)
      BY <1>4, JoinTyped
    <2> QED BY <1>4, <2>1, JoinTyped
  <1>6. /\ i.kind = "func" => ImportedOf(i, pad) = <<0>> \o M
        /\ i.kind = "table" => ImportedOf(i, pad) = <<1, 112>> \o L
        /\ i.kind = "memory" => ImportedOf(i, pad) = <<2>> \o L
        /\ i.kind = "global" => ImportedOf(i, pad) = <<3, 127, 0>>
        /\ i.kind = "tag" => ImportedOf(i, pad) = (<<4>> \o Z) \o M
    BY <1>3 DEF ImportedOf
  <1> QED BY <1>1, <1>4, <1>5, <1>6 DEF Kinds

\* An import is passed over, or answered, behind its two names.
LEMMA ImportRead ==
    ASSUME NEW b \in Seq(Octet), NEW pos \in Nat \ {0}, NEW at, Stands(at, pos),
           NEW i \in Items, NEW pad \in 1 .. 10, FitsItem(i, pad), Fits(0, pad),
           At(b, pos, ImportOf(i, pad))
    PROVE  Does(Import(b, at), i.kind = "memory" /\ Bit(i.flags, 4),
                pos + Len(ImportOf(i, pad)))
  <1>1. PICK N \in Seq(Octet), I \in Seq(Octet) : N = NameOf(i, pad) /\ I = ImportedOf(i, pad)
    BY NameWritten, ImportedWritten
  <1>2. ImportOf(i, pad) = (N \o N) \o I
    BY <1>1 DEF ImportOf
  <1>3. PICK n \in Nat, l \in Nat : n = Len(N) /\ l = Len(I)
    OBVIOUS
  <1>4. N \o N \in Seq(Octet) /\ Len(N \o N) = n + n
    BY <1>3, JoinTyped
  <1>5. Len((N \o N) \o I) = n + n + l
    <2>1. Len((N \o N) \o I) = Len(N \o N) + Len(I)
      BY <1>4, JoinTyped
    <2> QED BY <1>3, <1>4, <2>1
  <1>6. At(b, pos, N \o N) /\ At(b, pos + (n + n), I)
    <2>1. At(b, pos, (N \o N) \o I)
      BY <1>2
    <2> QED BY <1>4, <2>1, AtParts
  <1>7. At(b, pos, N) /\ At(b, pos + n, N)
    BY <1>3, <1>6, AtParts
  <1>8. Stands(SkipName(b, at), pos + n) /\ pos + n \in Nat \ {0}
    BY <1>1, <1>3, <1>7, NameRead
  <1>9. PICK at2 : at2 = SkipName(b, at)
    OBVIOUS
  <1>10. Stands(SkipName(b, at2), pos + n + n) /\ pos + n + n \in Nat \ {0}
    BY <1>1, <1>3, <1>7, <1>8, <1>9, NameRead
  <1>11. PICK at3 : at3 = SkipName(b, at2)
    OBVIOUS
  <1>12. At(b, pos + n + n, ImportedOf(i, pad))
    <2>1. pos + n + n = pos + (n + n)
      OBVIOUS
    <2> QED BY <1>1, <1>6, <2>1
  <1>13. Does(Kind(b, SkipByte(b, at3)), i.kind = "memory" /\ Bit(i.flags, 4),
              pos + n + n + Len(ImportedOf(i, pad)))
    BY <1>10, <1>11, <1>12, KindRead
  <1>14. Import(b, at) = Kind(b, SkipByte(b, at3))
    BY <1>9, <1>11 DEF Import, Kind
  <1>15. pos + n + n + l = pos + (n + n + l)
    OBVIOUS
  <1> QED BY <1>1, <1>2, <1>3, <1>5, <1>13, <1>14, <1>15

\* Whether an item of a section declares a memory of 64 bits.
Hits(id, i) == (id = 2 => i.kind = "memory") /\ Bit(i.flags, 4)

\* The same of an item of either section.
LEMMA ItemRead ==
    ASSUME NEW b \in Seq(Octet), NEW pos \in Nat \ {0}, NEW at, Stands(at, pos),
           NEW id \in {2, 5}, NEW i \in Items, NEW pad \in 1 .. 10, FitsItem(i, pad),
           Fits(0, pad), At(b, pos, ItemOf(id, i, pad))
    PROVE  Does(Item(id, b, at), Hits(id, i), pos + Len(ItemOf(id, i, pad)))
  <1>1. CASE id = 2
    <2>1. ItemOf(id, i, pad) = ImportOf(i, pad) /\ Item(id, b, at) = Import(b, at)
      BY <1>1 DEF ItemOf, Item
    <2>2. Does(Import(b, at), i.kind = "memory" /\ Bit(i.flags, 4),
               pos + Len(ImportOf(i, pad)))
      BY <2>1, ImportRead
    <2>3. Hits(id, i) = (i.kind = "memory" /\ Bit(i.flags, 4))
      BY <1>1 DEF Hits
    <2> QED BY <2>1, <2>2, <2>3
  <1>2. CASE id = 5
    <2>1. ItemOf(id, i, pad) = LimitsOf(i, pad)
          /\ Item(id, b, at) = Memory(Limits(b, at))
      BY <1>2 DEF ItemOf, Item, MemoryItem
    <2>2. Does(Memory(Limits(b, at)), Bit(i.flags, 4), pos + Len(LimitsOf(i, pad)))
      BY <2>1, MemoryRead
    <2>3. Hits(id, i) = Bit(i.flags, 4)
      BY <1>2 DEF Hits, Bit
    <2> QED BY <2>1, <2>2, <2>3
  <1> QED BY <1>1, <1>2

LEMMA ItemWritten ==
    ASSUME NEW id, NEW i \in Items, NEW pad \in Nat \ {0}
    PROVE  ItemOf(id, i, pad) \in Seq(Octet) /\ Len(ItemOf(id, i, pad)) \in Nat \ {0}
  <1>1. PICK N \in Seq(Octet), I \in Seq(Octet) :
           N = NameOf(i, pad) /\ I = ImportedOf(i, pad) /\ Len(N) \in Nat \ {0}
    BY NameWritten, NameLong, ImportedWritten
  <1>2. N \o N \in Seq(Octet) /\ Len(N \o N) = Len(N) + Len(N)
    BY JoinTyped
  <1>3. (N \o N) \o I \in Seq(Octet) /\ Len((N \o N) \o I) = Len(N \o N) + Len(I)
    BY <1>2, JoinTyped
  <1>4. Len(I) \in Nat
    OBVIOUS
  <1>5. Len((N \o N) \o I) \in Nat \ {0}
    BY <1>1, <1>2, <1>3, <1>4
  <1>6. ImportOf(i, pad) = (N \o N) \o I
    BY <1>1 DEF ImportOf
  <1> QED BY <1>3, <1>5, <1>6, LimitsWritten DEF ItemOf

-----------------------------------------------------------------------------
(* Sections.                                                                 *)

VectorWalk(w, id, b, n) ==
    /\ w[0] = Go(n)
    /\ \A k \in 0 .. n.value - 1 :
          w[k + 1] = IF w[k].done THEN w[k] ELSE Item(id, b, w[k].at)
    /\ \A k \in 0 .. n.value : w[k] \in Results
    /\ Vector(id, b) <=> n.value <= Len(b) /\ w[n.value].is

\* Vector by its equation: item by item, from the first.
LEMMA VectorSteps ==
    ASSUME NEW b \in Seq(Octet), NEW id, NEW n \in Got(Nat), n = ReadULEB(b, 1), n.ok
    PROVE  \E w : VectorWalk(w, id, b, n)
  <1> DEFINE m == n.value
      Next_(e) == IF e.done THEN e ELSE Item(id, b, e.at)
      step == [en \in Results \X (1 .. m) |-> Next_(en[1])]
      Is(g) == g = [k \in 0 .. m |-> IF k = 0 THEN Go(n)
                                     ELSE LET last == g[k - 1]
                                          IN IF last.done THEN last ELSE Item(id, b, last.at)]
      f == CHOOSE g : Is(g)
  <1>1. m \in Nat /\ Go(n) \in Results
    BY GotOut, GoTyped
  <1>2. ASSUME NEW e \in Results PROVE Next_(e) \in Results
    <2>1. CASE e.done
      BY <2>1
    <2>2. CASE ~e.done
      <3>1. e.at \in Found
        BY <2>2, ResultFacts
      <3>2. Item(id, b, e.at) \in Results
        BY <3>1, ItemTyped
      <3> QED BY <2>2, <3>2
    <2> QED BY <2>1, <2>2
  <1>3. \A n_ \in 1 .. m, e \in Results :
           step[<<e, n_>>] = Next_(e) /\ step[<<e, n_>>] \in Results
    <2> SUFFICES ASSUME NEW n_ \in 1 .. m, NEW e \in Results
                 PROVE  step[<<e, n_>>] = Next_(e) /\ step[<<e, n_>>] \in Results
      OBVIOUS
    <2> HIDE DEF Next_
    <2>1. step[<<e, n_>>] = Next_(e)
      OBVIOUS
    <2> QED BY <1>2, <2>1
  <1> HIDE DEF step
  <1>4. PICK g \in [0 .. m -> Results] : Follows(g, Go(n), m, step)
    <2> HIDE DEF m, Is, f, Next_
    <2>1. Steps(Results, m, step)
      BY <1>3 DEF Steps
    <2> QED BY <1>1, <2>1, Recursion
  <1>5. Is(g)
    <2> DEFINE h == [k \in 0 .. m |-> IF k = 0 THEN Go(n)
                                      ELSE LET last == g[k - 1]
                                           IN IF last.done THEN last ELSE Item(id, b, last.at)]
    <2>1. ASSUME NEW k \in 0 .. m PROVE g[k] = h[k]
      <3>1. CASE k = 0
        BY <1>4, <3>1 DEF Follows
      <3>2. CASE k # 0
        <4>1. k \in 1 .. m /\ k - 1 \in 0 .. m
          BY <1>1, <3>2
        <4>2. g[k] = Next_(g[k - 1])
          <5> HIDE DEF Next_, m
          <5> QED BY <1>3, <1>4, <4>1 DEF Follows
        <4>3. h[k] = Next_(g[k - 1])
          BY <3>2, <4>1
        <4> QED BY <4>2, <4>3
      <3> QED BY <3>1, <3>2
    <2>2. g = [k \in 0 .. m |-> g[k]] /\ h = [k \in 0 .. m |-> h[k]]
      OBVIOUS
    <2> HIDE DEF h
    <2>3. g = h
      BY <2>1, <2>2
    <2> QED BY <2>3 DEF h
  <1>6. Is(f)
    <2> HIDE DEF Is
    <2> QED BY <1>5
  <1>7. Vector(id, b) <=> n.value <= Len(b) /\ f[m].is
    BY DEF Vector
  <1> HIDE DEF f
  <1>8. f[0] = Go(n) /\ \A k \in 0 .. m - 1 : f[k + 1] = Next_(f[k])
    <2>1. \A k \in 0 .. m : f[k] = IF k = 0 THEN Go(n) ELSE Next_(f[k - 1])
      BY <1>6
    <2> HIDE DEF m, Is, Next_
    <2>2. 0 \in 0 .. m /\ \A n_ \in 0 .. m - 1 :
             n_ + 1 \in 0 .. m /\ n_ + 1 # 0 /\ (n_ + 1) - 1 = n_
      BY <1>1
    <2>3. f[0] = Go(n)
      BY <2>1, <2>2
    <2>4. ASSUME NEW k \in 0 .. m - 1 PROVE f[k + 1] = Next_(f[k])
      BY <2>1, <2>2
    <2> QED BY <2>3, <2>4
  <1> HIDE DEF Is
  <1>9. \A k \in 0 .. m : f[k] \in Results
    <2> HIDE DEF m, Next_
    <2>1. ASSUME NEW k \in 0 .. m - 1, f[k] \in Results PROVE f[k + 1] \in Results
      BY <1>2, <1>8, <2>1
    <2> QED BY <1>1, <1>8, <2>1, Throughout
  <1> QED BY <1>7, <1>8, <1>9 DEF VectorWalk

LEMMA FirstTyped == Len(Magic) = 8 /\ Go(Read(0, Len(Magic) + 1)) \in Results
  <1>1. Len(Magic) = 8
    BY DEF Magic
  <1>2. Read(0, 9) \in Got(Nat)
    BY GotIn
  <1> QED BY <1>1, <1>2, GoTyped

\* What a section is, of the size it says.
OneSection(b, at, size) ==
    IF at.pos <= Len(b) /\ size.ok /\ size.value <= Len(b) - size.pos + 1
    THEN IF /\ b[at.pos] \in {2, 5}
            /\ Vector(b[at.pos], SubSeq(b, size.pos, (size.pos + size.value) - 1))
         THEN Answer(TRUE) ELSE Go(Read(0, size.pos + size.value))
    ELSE Answer(FALSE)

LEMMA SectionIs ==
    ASSUME NEW b, NEW at
    PROVE  Section(b, at) = OneSection(b, at, ReadULEB(b, at.pos + 1))
  BY DEF Section, OneSection

LEMMA SectionTyped ==
    ASSUME NEW b \in Seq(Octet), NEW at, at.pos \in Nat \ {0}
    PROVE  Section(b, at) \in Results
  <1>1. PICK size \in Got(Nat) : size = ReadULEB(b, at.pos + 1)
    <2>1. at.pos + 1 \in Nat \ {0}
      OBVIOUS
    <2> QED BY <2>1, ReadTyped
  <1>2. CASE at.pos <= Len(b) /\ size.ok /\ size.value <= Len(b) - size.pos + 1
    <2>1. size.pos + size.value \in Nat \ {0}
      <3>1. size.pos \in Nat \ {0} /\ size.value \in Nat
        BY <1>2, GotOut
      <3> QED BY <3>1
    <2>2. Go(Read(0, size.pos + size.value)) \in Results
      <3>1. Read(0, size.pos + size.value) \in Got(Nat)
        BY <2>1, GotIn
      <3> QED BY <3>1, GoTyped
    <2> QED BY <1>1, <1>2, <2>2, SectionIs, GoTyped DEF OneSection
  <1>3. CASE ~(at.pos <= Len(b) /\ size.ok /\ size.value <= Len(b) - size.pos + 1)
    <2>1. Section(b, at) = Answer(FALSE)
      BY <1>1, <1>3, SectionIs DEF OneSection
    <2> QED BY <2>1, GoTyped
  <1> QED BY <1>2, <1>3

SectionWalk(w, b) ==
    /\ w[0] = Go(Read(0, Len(Magic) + 1))
    /\ \A k \in 0 .. Len(b) - 1 :
          w[k + 1] = IF w[k].done THEN w[k] ELSE Section(b, w[k].at)
    /\ \A k \in 0 .. Len(b) : w[k] \in Results
    /\ UsesMemory64(b) <=> Len(b) >= 8 /\ SubSeq(b, 1, 8) = Magic /\ w[Len(b)].is

\* UsesMemory64 by its equation: section by section, from the ninth byte.
LEMMA SectionSteps ==
    ASSUME NEW b \in Seq(Octet)
    PROVE  \E w : SectionWalk(w, b)
  <1> DEFINE m == Len(b)
      Next_(e) == IF e.done THEN e ELSE Section(b, e.at)
      step == [en \in Results \X (1 .. m) |-> Next_(en[1])]
      Is(g) == g = [k \in 0 .. m |-> IF k = 0 THEN Go(Read(0, Len(Magic) + 1))
                                     ELSE LET last == g[k - 1]
                                          IN IF last.done THEN last ELSE Section(b, last.at)]
      f == CHOOSE g : Is(g)
  <1>1. m \in Nat /\ Go(Read(0, Len(Magic) + 1)) \in Results
    BY FirstTyped
  <1>2. ASSUME NEW e \in Results PROVE Next_(e) \in Results
    <2>1. CASE e.done
      BY <2>1
    <2>2. CASE ~e.done
      <3>1. e.at.pos \in Nat \ {0}
        BY <2>2, ResultFacts
      <3>2. Section(b, e.at) \in Results
        BY <3>1, SectionTyped
      <3> QED BY <2>2, <3>2
    <2> QED BY <2>1, <2>2
  <1>3. \A n_ \in 1 .. m, e \in Results :
           step[<<e, n_>>] = Next_(e) /\ step[<<e, n_>>] \in Results
    <2> SUFFICES ASSUME NEW n_ \in 1 .. m, NEW e \in Results
                 PROVE  step[<<e, n_>>] = Next_(e) /\ step[<<e, n_>>] \in Results
      OBVIOUS
    <2> HIDE DEF Next_
    <2>1. step[<<e, n_>>] = Next_(e)
      OBVIOUS
    <2> QED BY <1>2, <2>1
  <1> HIDE DEF step
  <1>4. PICK g \in [0 .. m -> Results] : Follows(g, Go(Read(0, Len(Magic) + 1)), m, step)
    <2> HIDE DEF m, Is, f, Next_
    <2>1. Steps(Results, m, step)
      BY <1>3 DEF Steps
    <2> QED BY <1>1, <2>1, Recursion
  <1>5. Is(g)
    <2> DEFINE h == [k \in 0 .. m |-> IF k = 0 THEN Go(Read(0, Len(Magic) + 1))
                                      ELSE LET last == g[k - 1]
                                           IN IF last.done THEN last ELSE Section(b, last.at)]
    <2>1. ASSUME NEW k \in 0 .. m PROVE g[k] = h[k]
      <3>1. CASE k = 0
        BY <1>4, <3>1 DEF Follows
      <3>2. CASE k # 0
        <4>1. k \in 1 .. m /\ k - 1 \in 0 .. m
          BY <1>1, <3>2
        <4>2. g[k] = Next_(g[k - 1])
          <5> HIDE DEF Next_, m
          <5> QED BY <1>3, <1>4, <4>1 DEF Follows
        <4>3. h[k] = Next_(g[k - 1])
          BY <3>2, <4>1
        <4> QED BY <4>2, <4>3
      <3> QED BY <3>1, <3>2
    <2>2. g = [k \in 0 .. m |-> g[k]] /\ h = [k \in 0 .. m |-> h[k]]
      OBVIOUS
    <2> HIDE DEF h
    <2>3. g = h
      BY <2>1, <2>2
    <2> QED BY <2>3 DEF h
  <1>6. Is(f)
    <2> HIDE DEF Is
    <2> QED BY <1>5
  <1>7. UsesMemory64(b) <=> Len(b) >= 8 /\ SubSeq(b, 1, 8) = Magic /\ f[m].is
    BY DEF UsesMemory64
  <1> HIDE DEF f
  <1>8. f[0] = Go(Read(0, Len(Magic) + 1)) /\ \A k \in 0 .. m - 1 : f[k + 1] = Next_(f[k])
    <2>1. \A k \in 0 .. m : f[k] = IF k = 0 THEN Go(Read(0, Len(Magic) + 1)) ELSE Next_(f[k - 1])
      BY <1>6
    <2> HIDE DEF m, Is, Next_
    <2>2. 0 \in 0 .. m /\ \A n_ \in 0 .. m - 1 :
             n_ + 1 \in 0 .. m /\ n_ + 1 # 0 /\ (n_ + 1) - 1 = n_
      BY <1>1
    <2>3. f[0] = Go(Read(0, Len(Magic) + 1))
      BY <2>1, <2>2
    <2>4. ASSUME NEW k \in 0 .. m - 1 PROVE f[k + 1] = Next_(f[k])
      BY <2>1, <2>2
    <2> QED BY <2>3, <2>4
  <1> HIDE DEF Is
  <1>9. \A k \in 0 .. m : f[k] \in Results
    <2> HIDE DEF m, Next_
    <2>1. ASSUME NEW k \in 0 .. m - 1, f[k] \in Results PROVE f[k + 1] \in Results
      BY <1>2, <1>8, <2>1
    <2> QED BY <1>1, <1>8, <2>1, Throughout
  <1> QED BY <1>7, <1>8, <1>9 DEF SectionWalk

-----------------------------------------------------------------------------
(* A cut.                                                                    *)

\* A walk that has answered stays where it is.
LEMMA DoneStays ==
    ASSUME NEW m \in Nat, NEW n \in 0 .. m, NEW w, w[n].done,
           \A k \in 0 .. m - 1 : w[k].done => w[k + 1] = w[k]
    PROVE  w[m] = w[n]
  <1> DEFINE S == {k \in 0 .. m : k >= n => w[k] = w[n]}
  <1>1. 0 \in S
    OBVIOUS
  <1>2. ASSUME NEW k \in 0 .. m - 1, k \in S PROVE k + 1 \in S
    <2>1. k + 1 \in 0 .. m
      OBVIOUS
    <2>2. CASE k >= n
      <3>1. w[k] = w[n]
        BY <1>2, <2>2
      <3>2. w[k + 1] = w[k]
        BY <3>1
      <3> QED BY <2>1, <3>1, <3>2
    <2>3. CASE k + 1 = n
      BY <2>1, <2>3
    <2>4. CASE k + 1 < n
      BY <2>1, <2>4
    <2> QED BY <2>2, <2>3, <2>4
  <1>3. m \in S
    <2> HIDE DEF S
    <2>1. 0 .. m \subseteq S
      BY <1>1, <1>2, UpToSets
    <2> QED BY <2>1
  <1> QED BY <1>3

\* A section of a binary that is cut is the one of the whole, or nothing.
LEMMA SectionCut ==
    ASSUME NEW b \in Seq(Octet), NEW n \in 0 .. Len(b), NEW at, at.pos \in Nat \ {0}
    PROVE  \/ Section(SubSeq(b, 1, n), at) = Answer(FALSE)
           \/ Section(SubSeq(b, 1, n), at) = Section(b, at)
  <1>1. PICK a \in Seq(Octet) : /\ a = SubSeq(b, 1, n) /\ Len(a) = n
                                /\ \A i \in 1 .. n : a[i] = b[i]
    <2>1. /\ SubSeq(b, 1, n) \in Seq(Octet) /\ Len(SubSeq(b, 1, n)) = n
          /\ \A i \in 1 .. n : SubSeq(b, 1, n)[i] = b[i]
      BY CutFacts
    <2> QED BY <2>1
  <1>2. PICK pos \in Nat \ {0} : pos = at.pos
    OBVIOUS
  <1>3. PICK size \in Got(Nat) : size = ReadULEB(a, pos + 1)
    <2>1. pos + 1 \in Nat \ {0}
      OBVIOUS
    <2> QED BY <2>1, ReadTyped
  <1>4. size.ok => size = ReadULEB(b, pos + 1)
    <2>1. pos + 1 \in Nat \ {0} /\ ~Bad.ok
      BY ReadFacts
    <2> QED BY <1>1, <1>3, <2>1, ReadCut
  <1>5. Section(a, at) = OneSection(a, at, size)
    BY <1>2, <1>3, SectionIs
  <1>6. CASE pos <= n /\ size.ok /\ size.value <= n - size.pos + 1
    <2>1. PICK v \in Nat, p \in Nat \ {0} : v = size.value /\ p = size.pos
      BY <1>6, GotOut
    <2>2. PICK l \in Nat, c \in Nat : l = Len(b) /\ c = n /\ c <= l
      OBVIOUS
    <2>3. v <= Len(b) - p + 1 /\ pos <= Len(b) /\ pos \in 1 .. n
          /\ (p + v) - 1 \in Nat /\ (p + v) - 1 <= n
      <3>1. v <= c - p + 1 /\ pos <= c
        BY <1>6, <2>1, <2>2
      <3>2. v <= l - p + 1 /\ pos <= l /\ pos \in 1 .. c
            /\ (p + v) - 1 \in Nat /\ (p + v) - 1 <= c
        BY <2>2, <3>1
      <3> QED BY <2>2, <3>2
    <2>4. a[pos] = b[pos] /\ SubSeq(a, p, (p + v) - 1) = SubSeq(b, p, (p + v) - 1)
      BY <1>1, <2>3, CutSub
    <2>5. Section(b, at) = OneSection(b, at, size)
      BY <1>2, <1>4, <1>6, SectionIs
    <2>6. OneSection(b, at, size) = OneSection(a, at, size)
      <3>1. /\ at.pos <= Len(b) /\ size.ok /\ size.value <= Len(b) - size.pos + 1
            /\ at.pos <= Len(a) /\ size.value <= Len(a) - size.pos + 1
        BY <1>1, <1>2, <1>6, <2>1, <2>3
      <3>2. a[at.pos] = b[at.pos]
            /\ SubSeq(a, size.pos, (size.pos + size.value) - 1)
                  = SubSeq(b, size.pos, (size.pos + size.value) - 1)
        BY <1>2, <2>1, <2>4
      <3> QED BY <3>1, <3>2 DEF OneSection
    <2> QED BY <1>1, <1>5, <2>5, <2>6
  <1>7. CASE ~(pos <= n /\ size.ok /\ size.value <= n - size.pos + 1)
    <2>1. OneSection(a, at, size) = Answer(FALSE)
      BY <1>1, <1>2, <1>7 DEF OneSection
    <2> QED BY <1>1, <1>5, <2>1
  <1> QED BY <1>6, <1>7

\* Of a binary that is cut the probe never says more (memory64.go:21-26).
THEOREM CutSaysNoMore ==
    ASSUME NEW b \in Seq(Octet), NEW n \in 0 .. Len(b), UsesMemory64(SubSeq(b, 1, n))
    PROVE  UsesMemory64(b)
  <1>1. PICK a \in Seq(Octet) : /\ a = SubSeq(b, 1, n) /\ Len(a) = n
                                /\ \A i \in 1 .. n : a[i] = b[i]
    <2>1. /\ SubSeq(b, 1, n) \in Seq(Octet) /\ Len(SubSeq(b, 1, n)) = n
          /\ \A i \in 1 .. n : SubSeq(b, 1, n)[i] = b[i]
      BY CutFacts
    <2> QED BY <2>1
  <1>2. PICK l \in Nat : l = Len(b)
    OBVIOUS
  <1>3. PICK w : /\ w[0] = Go(Read(0, Len(Magic) + 1))
                 /\ \A k \in 0 .. n - 1 :
                       w[k + 1] = IF w[k].done THEN w[k] ELSE Section(a, w[k].at)
                 /\ \A k \in 0 .. n : w[k] \in Results
                 /\ n >= 8 /\ SubSeq(a, 1, 8) = Magic /\ w[n].is
    <2>1. PICK w : SectionWalk(w, a)
      BY SectionSteps
    <2> QED BY <1>1, <2>1 DEF SectionWalk
  <1>4. PICK v : /\ v[0] = Go(Read(0, Len(Magic) + 1))
                 /\ \A k \in 0 .. l - 1 :
                       v[k + 1] = IF v[k].done THEN v[k] ELSE Section(b, v[k].at)
                 /\ \A k \in 0 .. l : v[k] \in Results
                 /\ UsesMemory64(b) <=> l >= 8 /\ SubSeq(b, 1, 8) = Magic /\ v[l].is
    <2>1. PICK v : SectionWalk(v, b)
      BY SectionSteps
    <2> QED BY <1>2, <2>1 DEF SectionWalk
  <1>5. n \in Nat /\ n <= l /\ \A k \in 0 .. n - 1 : k \in 0 .. l - 1 /\ k \in 0 .. n
    BY <1>2
  <1> DEFINE S == {k \in 0 .. n : w[k] = Answer(FALSE) \/ w[k] = v[k]}
  <1>6. 0 \in S
    <2>1. 0 \in 0 .. n
      BY <1>5
    <2>2. w[0] = v[0]
      BY <1>3, <1>4
    <2> QED BY <2>1, <2>2
  <1>7. ASSUME NEW k \in 0 .. n - 1, k \in S PROVE k + 1 \in S
    <2>1. k + 1 \in 0 .. n
      OBVIOUS
    <2>2. w[k + 1] = IF w[k].done THEN w[k] ELSE Section(a, w[k].at)
      BY <1>3
    <2>3. v[k + 1] = IF v[k].done THEN v[k] ELSE Section(b, v[k].at)
      BY <1>4, <1>5
    <2>4. CASE w[k] = Answer(FALSE)
      <3>1. w[k + 1] = Answer(FALSE)
        BY <2>2, <2>4, ResultFacts
      <3> QED BY <2>1, <3>1
    <2>5. CASE w[k] = v[k] /\ w[k].done
      <3>1. w[k + 1] = v[k + 1]
        BY <2>2, <2>3, <2>5
      <3> QED BY <2>1, <3>1
    <2>6. CASE w[k] = v[k] /\ ~w[k].done
      <3>1. w[k].at.pos \in Nat \ {0}
        BY <1>3, <1>5, <2>6, ResultFacts
      <3>2. w[k + 1] = Section(a, w[k].at) /\ v[k + 1] = Section(b, w[k].at)
        BY <2>2, <2>3, <2>6
      <3>3. Section(a, w[k].at) = Answer(FALSE) \/ Section(a, w[k].at) = Section(b, w[k].at)
        BY <1>1, <3>1, SectionCut
      <3> QED BY <2>1, <3>2, <3>3
    <2> QED BY <1>7, <2>4, <2>5, <2>6
  <1>8. n \in S
    <2> HIDE DEF S
    <2>1. 0 .. n \subseteq S
      BY <1>5, <1>6, <1>7, UpToSets
    <2> QED BY <1>5, <2>1
  <1>9. v[n] = w[n] /\ w[n].is /\ v[n].done
    <2>1. n \in 0 .. n
      BY <1>5
    <2> QED BY <1>3, <1>8, <2>1, ResultFacts
  <1>10. v[l].is
    <2>1. v[l] = v[n]
      <3>1. n \in 0 .. l
        BY <1>5
      <3> QED BY <1>4, <1>9, <3>1, DoneStays
    <2> QED BY <1>9, <2>1
  <1>11. SubSeq(b, 1, 8) = Magic /\ l >= 8
    <2>1. 8 \in Nat /\ 1 \in Nat \ {0} /\ 8 <= n /\ 8 <= l
      BY <1>3, <1>5
    <2>2. SubSeq(a, 1, 8) = SubSeq(b, 1, 8)
      BY <1>1, <2>1, CutSub
    <2>3. l >= 8
      BY <2>1
    <2> QED BY <1>3, <2>2, <2>3
  <1> QED BY <1>4, <1>10, <1>11

-----------------------------------------------------------------------------
(* A binary.                                                                 *)

\* What stands in something that stands somewhere stands there too.
LEMMA AtWithin ==
    ASSUME NEW b, NEW s, NEW t, NEW pos, NEW q \in Nat, Len(b) \in Nat, Len(s) \in Nat,
           Len(t) \in Nat, At(b, pos, s), At(s, 1 + q, t)
    PROVE  At(b, pos + q, t)
  <1>1. PICK l \in Nat, m \in Nat, n \in Nat : l = Len(b) /\ m = Len(s) /\ n = Len(t)
    OBVIOUS
  <1>2. /\ pos \in Nat \ {0} /\ pos - 1 + m <= l /\ \A i \in 1 .. m : b[pos - 1 + i] = s[i]
        /\ (1 + q) - 1 + n <= m /\ \A i \in 1 .. n : s[(1 + q) - 1 + i] = t[i]
    BY <1>1 DEF At
  <1>3. pos + q \in Nat \ {0} /\ (pos + q) - 1 + n <= l
    BY <1>2
  <1>4. ASSUME NEW i \in 1 .. n PROVE b[(pos + q) - 1 + i] = t[i]
    <2>1. (1 + q) - 1 + i \in 1 .. m /\ pos - 1 + ((1 + q) - 1 + i) = (pos + q) - 1 + i
      BY <1>2
    <2>2. b[pos - 1 + ((1 + q) - 1 + i)] = s[(1 + q) - 1 + i]
      BY <1>2, <2>1
    <2> QED BY <1>2, <2>1, <2>2
  <1> QED BY <1>1, <1>3, <1>4 DEF At

\* Nothing is written so that it cannot be read.
LEMMA ZeroFits ==
    ASSUME NEW pad \in 1 .. 10
    PROVE  Fits(0, pad)
  <1>1. pad \in Nat \ {0} /\ pad - 1 \in 0 .. pad - 1 /\ 0 \in Nat
    OBVIOUS
  <1>2. \A i \in 0 .. pad - 1 : Left(0, pad)[i] \in Nat /\ Left(0, pad)[i] <= 0
    BY <1>1, LeftSteps
  <1>3. Left(0, pad)[pad - 1] = 0
    BY <1>1, <1>2
  <1>4. 0 < 128 * Far
    BY FarAssumption
  <1> QED BY <1>3, <1>4 DEF Fits

\* What has been passed over, or answered.
LEMMA DoesFacts ==
    ASSUME NEW r \in Results, NEW hit \in BOOLEAN, NEW pos, Does(r, hit, pos)
    PROVE  /\ r.done <=> hit
           /\ r.is <=> hit
           /\ hit => r = Answer(TRUE)
           /\ ~hit => Stands(r.at, pos)
  BY ResultFacts DEF Does, Past, Stands

\* The items of a section, one behind another.
Written(id, items, pad) == [k \in DOMAIN items |-> ItemOf(id, items[k], pad)]

LEMMA ItemsWritten ==
    ASSUME NEW id, NEW items \in Seq(Items), NEW pad \in Nat \ {0}
    PROVE  /\ Written(id, items, pad) \in Seq(Seq(Octet))
           /\ Len(Written(id, items, pad)) = Len(items)
           /\ \A k \in 1 .. Len(items) :
                 /\ Written(id, items, pad)[k] = ItemOf(id, items[k], pad)
                 /\ Len(Written(id, items, pad)[k]) \in Nat \ {0}
  <1>1. PICK m \in Nat : m = Len(items)
    OBVIOUS
  <1>2. DOMAIN items = 1 .. m /\ \A k \in 1 .. m : items[k] \in Items
    BY <1>1, Elements
  <1> DEFINE w == [k \in 1 .. m |-> ItemOf(id, items[k], pad)]
  <1>3. Written(id, items, pad) = w
    BY <1>2 DEF Written
  <1>4. \A k \in 1 .. m : w[k] = ItemOf(id, items[k], pad) /\ w[k] \in Seq(Octet)
                          /\ Len(w[k]) \in Nat \ {0}
    BY <1>2, ItemWritten
  <1>5. w \in Seq(Seq(Octet)) /\ Len(w) = m
    BY <1>4
  <1> HIDE DEF w
  <1> QED BY <1>1, <1>3, <1>4, <1>5

\* Where a vector is written, an item of it is found.
LEMMA VectorRead ==
    ASSUME NEW id \in {2, 5}, NEW items \in Seq(Items), NEW pad \in 1 .. 10,
           Fits(Len(items), pad), \A j \in 1 .. Len(items) : FitsItem(items[j], pad),
           NEW body,
           body = Padded(Len(items), pad) \o FlattenSeq(Written(id, items, pad))
    PROVE  /\ body \in Seq(Octet)
           /\ Vector(id, body) <=> \E j \in 1 .. Len(items) : Hits(id, items[j])
  <1>1. PICK m \in Nat : m = Len(items)
    OBVIOUS
  <1>2. \A j \in 1 .. m : items[j] \in Items
    BY <1>1, Elements
  <1>3. PICK w \in Seq(Seq(Octet)) :
           /\ w = Written(id, items, pad) /\ Len(w) = m
           /\ \A k \in 1 .. m : w[k] = ItemOf(id, items[k], pad) /\ Len(w[k]) \in Nat \ {0}
    <2>1. /\ Written(id, items, pad) \in Seq(Seq(Octet))
          /\ Len(Written(id, items, pad)) = Len(items)
          /\ \A k \in 1 .. Len(items) :
                /\ Written(id, items, pad)[k] = ItemOf(id, items[k], pad)
                /\ Len(Written(id, items, pad)[k]) \in Nat \ {0}
      BY ItemsWritten
    <2> QED BY <1>1, <2>1
  <1>4. PICK flat : flat = FlattenSeq(w)
    OBVIOUS
  <1>5. PICK start : /\ start[0] = 0
                     /\ \A n \in 0 .. m : start[n] \in Nat
                     /\ \A n \in 0 .. m - 1 : start[n + 1] = start[n] + Len(w[n + 1])
                     /\ start[m] = Len(flat) /\ flat \in Seq(Octet)
                     /\ \A n \in 0 .. m - 1 : At(flat, 1 + start[n], w[n + 1])
    <2>1. m = Len(w)
      BY <1>3
    <2>2. PICK start : /\ start[0] = 0
                       /\ \A n \in 0 .. m : start[n] \in Nat
                       /\ \A n \in 0 .. m - 1 : start[n + 1] = start[n] + Len(w[n + 1])
                       /\ start[m] = Len(FlattenSeq(w)) /\ FlattenSeq(w) \in Seq(Octet)
                       /\ \A n \in 0 .. m - 1 : At(FlattenSeq(w), 1 + start[n], w[n + 1])
      BY <2>1, FlattenSpots
    <2> QED BY <1>4, <2>2
  <1>6. PICK head \in Seq(Octet) : head = Padded(m, pad) /\ Len(head) = pad
    BY PaddedTyped
  <1>7. body = head \o flat
    BY <1>1, <1>3, <1>4, <1>6
  <1>8. body \in Seq(Octet) /\ Len(body) = pad + start[m]
    <2>1. head \o flat \in Seq(Octet) /\ Len(head \o flat) = Len(head) + Len(flat)
      BY <1>5, JoinTyped
    <2> QED BY <1>5, <1>6, <1>7, <2>1
  <1>9. At(body, 1, head) /\ At(body, 1 + pad, flat)
    <2>1. At(body, 1, head \o flat)
      BY <1>7, <1>8, AtWhole
    <2> QED BY <1>5, <1>6, <1>8, <2>1, AtParts, ZenonT(60)
  <1>10. ASSUME NEW k \in 0 .. m - 1
         PROVE  At(body, 1 + pad + start[k], ItemOf(id, items[k + 1], pad))
    <2>1. k + 1 \in 1 .. m /\ k \in 0 .. m
      OBVIOUS
    <2>2. At(flat, 1 + start[k], w[k + 1]) /\ start[k] \in Nat
          /\ w[k + 1] = ItemOf(id, items[k + 1], pad) /\ Len(w[k + 1]) \in Nat
      BY <1>3, <1>5, <2>1
    <2>3. Len(body) \in Nat /\ Len(flat) \in Nat
      BY <1>5, <1>8
    <2>4. At(body, 1 + pad + start[k], w[k + 1])
      BY <1>9, <2>2, <2>3, AtWithin
    <2> QED BY <2>2, <2>4
  <1>11. PICK n : n = ReadULEB(body, 1)
    OBVIOUS
  <1>12. n = Read(m, 1 + pad) /\ n \in Got(Nat) /\ n.ok /\ n.value = m /\ 1 + pad \in Nat \ {0}
    <2>1. ReadULEB(body, 1) = Read(m, 1 + pad)
      BY <1>1, <1>6, <1>8, <1>9, NumberRead
    <2>2. 1 + pad \in Nat \ {0}
      OBVIOUS
    <2>3. Read(m, 1 + pad) \in Got(Nat)
      BY <2>2, GotIn
    <2>4. Read(m, 1 + pad).ok /\ Read(m, 1 + pad).value = m
      BY ReadFacts
    <2> QED BY <1>11, <2>1, <2>2, <2>3, <2>4
  <1>13. PICK v : /\ v[0] = Go(n)
                  /\ \A k \in 0 .. m - 1 :
                        v[k + 1] = IF v[k].done THEN v[k] ELSE Item(id, body, v[k].at)
                  /\ \A k \in 0 .. m : v[k] \in Results
                  /\ Vector(id, body) <=> m <= Len(body) /\ v[m].is
    <2>1. PICK v : VectorWalk(v, id, body, n)
      <3>1. body \in Seq(Octet) /\ n \in Got(Nat) /\ n = ReadULEB(body, 1) /\ n.ok
        BY <1>8, <1>11, <1>12
      <3> QED BY <3>1, VectorSteps
    <2> QED BY <1>12, <2>1 DEF VectorWalk
  <1> DEFINE Hit(k) == \E j \in 1 .. k : Hits(id, items[j])
             S == {k \in 0 .. m : Does(v[k], Hit(k), 1 + pad + start[k]) /\ k <= start[k]}
  <1>14. 0 \in S
    <2>1. 0 \in 0 .. m /\ ~Hit(0) /\ 1 + pad + start[0] = 1 + pad /\ 0 <= start[0]
      BY <1>5
    <2>2. Stands(n, 1 + pad)
      BY <1>12, StandsRead
    <2>3. Does(Go(n), FALSE, 1 + pad)
      BY <2>2, GoesOn
    <2>4. Hit(0) = FALSE
      BY <2>1
    <2>5. Does(v[0], Hit(0), 1 + pad + start[0])
      <3> HIDE DEF Hit
      <3> QED BY <1>13, <2>1, <2>3, <2>4
    <2> QED BY <2>1, <2>5
  <1>15. ASSUME NEW k \in 0 .. m - 1, k \in S PROVE k + 1 \in S
    <2>1. k + 1 \in 0 .. m /\ k + 1 \in 1 .. m /\ k \in 0 .. m
      OBVIOUS
    <2>2. Hit(k + 1) <=> Hit(k) \/ Hits(id, items[k + 1])
      <3>1. 1 .. k + 1 = (1 .. k) \cup {k + 1}
        OBVIOUS
      <3> QED BY <3>1
    <2>3. Hit(k) \in BOOLEAN /\ Hit(k + 1) \in BOOLEAN
      OBVIOUS
    <2>4. Does(v[k], Hit(k), 1 + pad + start[k]) /\ k <= start[k]
      BY <1>15
    <2> HIDE DEF Hit
    <2>5. PICK p \in Nat \ {0}, l \in Nat \ {0} :
             /\ p = 1 + pad + start[k] /\ l = Len(ItemOf(id, items[k + 1], pad))
             /\ 1 + pad + start[k + 1] = p + l /\ k + 1 <= start[k + 1]
      <3>1. PICK s \in Nat, l \in Nat \ {0} :
               /\ s = start[k] /\ l = Len(ItemOf(id, items[k + 1], pad))
               /\ start[k + 1] = s + l
        BY <1>3, <1>5, <2>1
      <3>2. 1 + pad + s \in Nat \ {0} /\ 1 + pad + (s + l) = (1 + pad + s) + l
            /\ k + 1 <= s + l
        <4>1. k <= s /\ k \in Nat /\ l >= 1
          BY <2>4, <3>1
        <4> QED BY <4>1
      <3> QED BY <3>1, <3>2
    <2>6. v[k] \in Results /\ v[k + 1] \in Results
          /\ v[k + 1] = IF v[k].done THEN v[k] ELSE Item(id, body, v[k].at)
      BY <1>13, <2>1
    <2>7. CASE Hit(k)
      <3>1. v[k] = Answer(TRUE) /\ v[k].done
        BY <2>3, <2>4, <2>6, <2>7, DoesFacts
      <3>2. v[k + 1] = Answer(TRUE) /\ Hit(k + 1)
        BY <2>2, <2>6, <2>7, <3>1
      <3>3. Does(v[k + 1], Hit(k + 1), 1 + pad + start[k + 1])
        BY <3>2 DEF Does
      <3> QED BY <2>1, <2>5, <3>3
    <2>8. CASE ~Hit(k)
      <3>1. Stands(v[k].at, p) /\ ~v[k].done
        BY <2>3, <2>4, <2>5, <2>6, <2>8, DoesFacts
      <3>2. At(body, p, ItemOf(id, items[k + 1], pad))
        BY <1>10, <2>5
      <3>3. items[k + 1] \in Items /\ FitsItem(items[k + 1], pad) /\ Fits(0, pad)
        BY <1>1, <1>2, <2>1, ZeroFits
      <3>4. Does(Item(id, body, v[k].at), Hits(id, items[k + 1]),
                 p + Len(ItemOf(id, items[k + 1], pad)))
        BY <1>8, <3>1, <3>2, <3>3, ItemRead
      <3>5. v[k + 1] = Item(id, body, v[k].at)
        BY <2>6, <3>1
      <3>6. Hit(k + 1) = Hits(id, items[k + 1])
        BY <2>2, <2>3, <2>8 DEF Hits, Bit
      <3>7. Does(v[k + 1], Hit(k + 1), 1 + pad + start[k + 1])
        BY <2>5, <3>4, <3>5, <3>6
      <3> QED BY <2>1, <2>5, <3>7
    <2> QED BY <2>7, <2>8
  <1>16. m \in S
    <2> HIDE DEF S
    <2>1. 0 .. m \subseteq S
      BY <1>14, <1>15, UpToSets
    <2> QED BY <2>1
  <1>17. v[m].is <=> Hit(m)
    <2>1. Does(v[m], Hit(m), 1 + pad + start[m]) /\ Hit(m) \in BOOLEAN /\ m \in 0 .. m
      BY <1>16
    <2>2. v[m] \in Results
      BY <1>13, <2>1
    <2> HIDE DEF Hit
    <2> QED BY <2>1, <2>2, DoesFacts
  <1>18. m <= Len(body)
    <2>1. m <= start[m] /\ start[m] \in Nat
      BY <1>5, <1>16
    <2> QED BY <1>8, <2>1
  <1> QED BY <1>1, <1>8, <1>13, <1>17, <1>18

\* Whether a section declares a memory of 64 bits.
PartHits(part) ==
    part.id \in {2, 5} /\ \E j \in DOMAIN part.items : Hits(part.id, part.items[j])

\* A section whose numbers can be written so.
FitsPart(part, pad) ==
    /\ Fits(Len(BodyOf(part, pad)), pad) /\ Fits(Len(part.items), pad)
    /\ \A j \in DOMAIN part.items : FitsItem(part.items[j], pad)

\* What a module declares is what one of its sections does.
LEMMA DeclaresHits ==
    ASSUME NEW m, m.parts \in Seq(Parts)
    PROVE  Declares64(m) <=> \E k \in DOMAIN m.parts : PartHits(m.parts[k])
  <1>1. ASSUME NEW part
        PROVE  PartHits(part) <=>
                 \/ part.id = 2 /\ \E j \in DOMAIN part.items :
                       part.items[j].kind = "memory" /\ Bit(part.items[j].flags, 4)
                 \/ part.id = 5 /\ \E j \in DOMAIN part.items : Bit(part.items[j].flags, 4)
    <2>1. CASE part.id = 2
      BY <2>1 DEF PartHits, Hits
    <2>2. CASE part.id # 2
      BY <2>2 DEF PartHits, Hits
    <2> QED BY <2>1, <2>2
  <1> QED BY <1>1 DEF Declares64

\* The body of a section is read for what it declares.
LEMMA BodyRead ==
    ASSUME NEW part \in Parts, NEW pad \in 1 .. 10, FitsPart(part, pad)
    PROVE  /\ BodyOf(part, pad) \in Seq(Octet)
           /\ part.id \in {2, 5} =>
                 (Vector(part.id, BodyOf(part, pad)) <=> PartHits(part))
  <1>1. part.items \in Seq(Items) /\ part.bytes \in Seq(Octet)
    BY DEF Parts, Octet
  <1>2. DOMAIN part.items = 1 .. Len(part.items)
    BY <1>1
  <1>3. CASE part.id \in {2, 5}
    <2>1. PICK id \in {2, 5}, items \in Seq(Items) : id = part.id /\ items = part.items
      BY <1>1, <1>3
    <2>2. PICK body : body = BodyOf(part, pad)
      OBVIOUS
    <2>3. body = Padded(Len(items), pad) \o FlattenSeq(Written(id, items, pad))
      BY <1>3, <2>1, <2>2 DEF BodyOf, Written
    <2>4. Fits(Len(items), pad) /\ \A j \in 1 .. Len(items) : FitsItem(items[j], pad)
      BY <1>2, <2>1 DEF FitsPart
    <2>5. /\ body \in Seq(Octet)
          /\ Vector(id, body) <=> \E j \in 1 .. Len(items) : Hits(id, items[j])
      BY <2>3, <2>4, VectorRead
    <2>6. PartHits(part) <=> \E j \in 1 .. Len(items) : Hits(id, items[j])
      BY <1>2, <2>1 DEF PartHits
    <2> QED BY <2>1, <2>2, <2>5, <2>6
  <1>4. CASE part.id \notin {2, 5}
    BY <1>1, <1>4 DEF BodyOf
  <1> QED BY <1>3, <1>4

\* A section is its id, the length of its body and its body.
LEMMA SectionWritten ==
    ASSUME NEW part \in Parts, NEW pad \in Nat \ {0}, NEW body \in Seq(Octet),
           body = BodyOf(part, pad)
    PROVE  /\ SectionOf(part, pad) \in Seq(Octet)
           /\ Len(SectionOf(part, pad)) = 1 + pad + Len(body)
           /\ SectionOf(part, pad) = <<part.id>> \o (Padded(Len(body), pad) \o body)
  <1>1. PICK id \in Octet : id = part.id
    BY DEF Parts, Octet
  <1>2. PICK n \in Nat : n = Len(body)
    OBVIOUS
  <1>3. PICK N \in Seq(Octet) : N = Padded(n, pad) /\ Len(N) = pad
    <2>1. Padded(n, pad) \in Seq(Octet) /\ Len(Padded(n, pad)) = pad
      BY PaddedFacts
    <2> QED BY <2>1
  <1>4. SectionOf(part, pad) = (<<id>> \o N) \o body
    BY <1>1, <1>2, <1>3 DEF SectionOf
  <1>5. N \o body \in Seq(Octet) /\ Len(N \o body) = pad + n
    <2>1. N \o body \in Seq(Octet) /\ Len(N \o body) = Len(N) + Len(body)
      BY JoinTyped
    <2> QED BY <1>2, <1>3, <2>1
  <1>6. (<<id>> \o N) \o body = <<id>> \o (N \o body)
    OBVIOUS
  <1>7. <<id>> \in Seq(Octet) /\ Len(<<id>>) = 1
    OBVIOUS
  <1>8. /\ <<id>> \o (N \o body) \in Seq(Octet)
        /\ Len(<<id>> \o (N \o body)) = Len(<<id>>) + Len(N \o body)
    BY <1>5, <1>7, JoinTyped
  <1>9. Len(<<id>> \o (N \o body)) = 1 + pad + n
    BY <1>5, <1>7, <1>8
  <1> QED BY <1>1, <1>2, <1>3, <1>4, <1>6, <1>8, <1>9

\* Where a section is written, the probe answers or goes on behind it.
LEMMA SectionRead ==
    ASSUME NEW b \in Seq(Octet), NEW pos \in Nat \ {0}, NEW at, Stands(at, pos),
           NEW part \in Parts, NEW pad \in 1 .. 10, FitsPart(part, pad),
           At(b, pos, SectionOf(part, pad))
    PROVE  Does(Section(b, at), PartHits(part), pos + Len(SectionOf(part, pad)))
  <1>1. PICK body \in Seq(Octet) : body = BodyOf(part, pad)
    BY BodyRead
  <1>2. PICK n \in Nat, id \in Octet : n = Len(body) /\ id = part.id
    BY DEF Parts, Octet
  <1>3. pad \in Nat \ {0}
    OBVIOUS
  <1>4. PICK N \in Seq(Octet) : N = Padded(n, pad) /\ Len(N) = pad
    <2>1. Padded(n, pad) \in Seq(Octet) /\ Len(Padded(n, pad)) = pad
      BY PaddedTyped
    <2> QED BY <2>1
  <1>5. /\ SectionOf(part, pad) = <<id>> \o (N \o body)
        /\ Len(SectionOf(part, pad)) = 1 + pad + n
    BY <1>1, <1>2, <1>3, <1>4, SectionWritten
  <1>6. N \o body \in Seq(Octet)
    BY JoinTyped
  <1>7. At(b, pos, <<id>>) /\ At(b, pos + 1, N \o body) /\ pos + 1 \in Nat \ {0}
    <2>1. At(b, pos, <<id>> \o (N \o body))
      BY <1>5
    <2> QED BY <1>6, <2>1, ByteJoined
  <1>8. At(b, pos + 1, N) /\ At(b, pos + 1 + pad, body)
    BY <1>4, <1>7, AtParts
  <1>9. b[pos] = id /\ pos <= Len(b)
    <2>1. Len(<<id>>) = 1 /\ <<id>>[1] = id /\ Len(b) \in Nat /\ 1 \in 1 .. 1
      OBVIOUS
    <2>2. pos - 1 + 1 <= Len(b) /\ b[pos - 1 + 1] = id
      BY <1>7, <2>1 DEF At
    <2> QED BY <2>1, <2>2
  <1>10. PICK size : size = ReadULEB(b, pos + 1)
    OBVIOUS
  <1>11. size = Read(n, pos + 1 + pad) /\ size.ok /\ size.value = n /\ size.pos = pos + 1 + pad
    <2>1. Fits(n, pad)
      BY <1>1, <1>2 DEF FitsPart
    <2>2. size = Read(n, pos + 1 + pad)
      BY <1>4, <1>7, <1>8, <1>10, <2>1, NumberRead
    <2> QED BY <2>2, ReadFacts
  <1>12. n <= Len(b) - (pos + 1 + pad) + 1 /\ pos + 1 + pad \in Nat \ {0}
    <2>1. pos + 1 + pad \in Nat \ {0} /\ Len(b) \in Nat
      OBVIOUS
    <2>2. (pos + 1 + pad) - 1 + n <= Len(b)
      BY <1>2, <1>8 DEF At
    <2> QED BY <2>1, <2>2
  <1>13. SubSeq(b, pos + 1 + pad, (pos + 1 + pad + n) - 1) = body
    <2>1. SubSeq(b, pos + 1 + pad, pos + 1 + pad + Len(body) - 1) = body
      BY <1>8, AtSub
    <2> QED BY <1>2, <2>1
  <1>14. Section(b, at) = OneSection(b, at, size)
    BY <1>10, SectionIs DEF Stands
  <1>15. OneSection(b, at, size) =
            IF id \in {2, 5} /\ Vector(id, body) THEN Answer(TRUE)
            ELSE Go(Read(0, pos + 1 + pad + n))
    <2>1. at.pos = pos
      BY DEF Stands
    <2>2. at.pos <= Len(b) /\ size.ok /\ size.value <= Len(b) - size.pos + 1
      BY <1>9, <1>11, <1>12, <2>1
    <2>3. b[at.pos] = id
          /\ SubSeq(b, size.pos, (size.pos + size.value) - 1) = body
          /\ size.pos + size.value = pos + 1 + pad + n
      BY <1>9, <1>11, <1>13, <2>1
    <2> QED BY <2>2, <2>3 DEF OneSection
  <1>16. (id \in {2, 5} /\ Vector(id, body)) <=> PartHits(part)
    <2>1. id \in {2, 5} => (Vector(id, body) <=> PartHits(part))
      BY <1>1, <1>2, BodyRead
    <2>2. PartHits(part) => id \in {2, 5}
      BY <1>2 DEF PartHits
    <2> QED BY <2>1, <2>2
  <1>17. pos + 1 + pad + n \in Nat \ {0}
         /\ pos + Len(SectionOf(part, pad)) = pos + 1 + pad + n
    <2>1. pos + (1 + pad + n) = pos + 1 + pad + n
      OBVIOUS
    <2>2. pos + 1 + pad + n \in Nat \ {0}
      BY <1>2
    <2> QED BY <1>5, <2>1, <2>2
  <1>18. Does(Go(Read(0, pos + 1 + pad + n)), FALSE, pos + 1 + pad + n)
    <2>1. Stands(Read(0, pos + 1 + pad + n), pos + 1 + pad + n)
      BY <1>17, StandsRead
    <2> QED BY <2>1, GoesOn
  <1>19. CASE PartHits(part)
    <2>1. Section(b, at) = Answer(TRUE)
      BY <1>14, <1>15, <1>16, <1>19
    <2> QED BY <1>19, <2>1 DEF Does
  <1>20. CASE ~PartHits(part)
    <2>1. Section(b, at) = Go(Read(0, pos + 1 + pad + n))
      BY <1>14, <1>15, <1>16, <1>20
    <2>2. PartHits(part) = FALSE
      BY <1>20 DEF PartHits
    <2> QED BY <1>17, <1>18, <2>1, <2>2
  <1> QED BY <1>19, <1>20

\* A body is bytes.
LEMMA BodyWritten ==
    ASSUME NEW part \in Parts, NEW pad \in Nat \ {0}
    PROVE  BodyOf(part, pad) \in Seq(Octet)
  <1>1. part.items \in Seq(Items) /\ part.bytes \in Seq(Octet)
    BY DEF Parts, Octet
  <1>2. PICK id : id = part.id
    OBVIOUS
  <1>2a. PICK items \in Seq(Items) : items = part.items
    BY <1>1
  <1>3. PICK w \in Seq(Seq(Octet)) : w = Written(id, items, pad)
    BY ItemsWritten
  <1>4. PICK n \in Nat : n = Len(items)
    OBVIOUS
  <1>5. Padded(n, pad) \in Seq(Octet)
    BY PaddedTyped
  <1>6. FlattenSeq(w) \in Seq(Octet)
    <2>1. PICK m \in Nat : m = Len(w)
      OBVIOUS
    <2> QED BY <2>1, FlattenSpots
  <1>7. Padded(n, pad) \o FlattenSeq(w) \in Seq(Octet)
    BY <1>5, <1>6, JoinTyped
  <1>8. BodyOf(part, pad) = IF id \in {2, 5} THEN Padded(n, pad) \o FlattenSeq(w)
                            ELSE part.bytes
    BY <1>2, <1>2a, <1>3, <1>4 DEF BodyOf, Written
  <1> QED BY <1>1, <1>7, <1>8

\* What is known of a binary: its sections stand one behind another from its ninth
\* byte on.
Laid(b, parts, pad, start) ==
    /\ b \in Seq(Octet) /\ Len(b) = 8 + start[Len(parts)] /\ SubSeq(b, 1, 8) = Magic
    /\ start[0] = 0
    /\ \A k \in 0 .. Len(parts) : start[k] \in Nat /\ k <= start[k]
    /\ \A k \in 0 .. Len(parts) - 1 :
          /\ start[k + 1] = start[k] + Len(SectionOf(parts[k + 1], pad))
          /\ At(b, 9 + start[k], SectionOf(parts[k + 1], pad))

\* A binary is written so.
LEMMA BinaryLaid ==
    ASSUME NEW m \in [parts : Seq(Parts), pad : Nat \ {0}]
    PROVE  \E start : Laid(Binary(m), m.parts, m.pad, start)
  <1>1. PICK parts \in Seq(Parts), pad \in Nat \ {0} : parts = m.parts /\ pad = m.pad
    OBVIOUS
  <1>2. PICK p \in Nat : p = Len(parts)
    OBVIOUS
  <1>3. DOMAIN parts = 1 .. p /\ \A k \in 1 .. p : parts[k] \in Parts
    BY <1>2, Elements
  <1>4. \A k \in 1 .. p : SectionOf(parts[k], pad) \in Seq(Octet)
                          /\ Len(SectionOf(parts[k], pad)) \in Nat \ {0}
    <2>1. ASSUME NEW k \in 1 .. p
          PROVE  SectionOf(parts[k], pad) \in Seq(Octet)
                 /\ Len(SectionOf(parts[k], pad)) \in Nat \ {0}
      <3>1. PICK body \in Seq(Octet) : body = BodyOf(parts[k], pad)
        BY <1>3, BodyWritten
      <3>2. SectionOf(parts[k], pad) \in Seq(Octet)
            /\ Len(SectionOf(parts[k], pad)) = 1 + pad + Len(body)
        BY <1>3, <3>1, SectionWritten, ZenonT(60)
      <3>3. 1 + pad + Len(body) \in Nat \ {0}
        <4>1. Len(body) \in Nat
          OBVIOUS
        <4> QED BY <4>1
      <3> QED BY <3>2, <3>3
    <2> QED BY <2>1
  <1> DEFINE w == [k \in 1 .. p |-> SectionOf(parts[k], pad)]
  <1>5. w \in Seq(Seq(Octet)) /\ Len(w) = p /\ \A k \in 1 .. p : w[k] = SectionOf(parts[k], pad)
    BY <1>4
  <1>6. Binary(m) = Magic \o FlattenSeq(w)
    BY <1>1, <1>3 DEF Binary
  <1> HIDE DEF w
  <1>7. PICK start : /\ start[0] = 0
                     /\ \A n \in 0 .. p : start[n] \in Nat
                     /\ \A n \in 0 .. p - 1 : start[n + 1] = start[n] + Len(w[n + 1])
                     /\ start[p] = Len(FlattenSeq(w)) /\ FlattenSeq(w) \in Seq(Octet)
                     /\ \A n \in 0 .. p - 1 : At(FlattenSeq(w), 1 + start[n], w[n + 1])
    <2>1. p = Len(w) /\ w \in Seq(Seq(Octet))
      BY <1>5
    <2> QED BY <2>1, FlattenSpots
  <1>8. PICK flat \in Seq(Octet) : flat = FlattenSeq(w)
    BY <1>7
  <1>9. Magic \in Seq(Octet) /\ Len(Magic) = 8
    <2>1. {0, 1, 97, 109, 115} \subseteq Octet
      BY DEF Octet
    <2> QED BY <2>1 DEF Magic
  <1>10. PICK b : b = Magic \o flat
    OBVIOUS
  <1>11. b \in Seq(Octet) /\ Len(b) = 8 + start[p]
    <2>1. Magic \o flat \in Seq(Octet) /\ Len(Magic \o flat) = Len(Magic) + Len(flat)
      BY <1>9, JoinTyped
    <2> QED BY <1>7, <1>8, <1>9, <1>10, <2>1
  <1>12. At(b, 1, Magic) /\ At(b, 1 + 8, flat)
    <2>1. At(b, 1, Magic \o flat)
      BY <1>10, <1>11, AtWhole
    <2> QED BY <1>9, <1>11, <2>1, AtParts
  <1>13. SubSeq(b, 1, 8) = Magic
    <2>1. SubSeq(b, 1, 1 + Len(Magic) - 1) = Magic
      BY <1>9, <1>11, <1>12, AtSub
    <2> QED BY <1>9, <2>1
  <1>14. ASSUME NEW k \in 0 .. p - 1
         PROVE  /\ start[k + 1] = start[k] + Len(SectionOf(parts[k + 1], pad))
                /\ At(b, 9 + start[k], SectionOf(parts[k + 1], pad))
                /\ start[k] \in Nat /\ start[k + 1] \in Nat /\ start[k + 1] >= start[k] + 1
    <2>1. k + 1 \in 1 .. p /\ k \in 0 .. p /\ k + 1 \in 0 .. p
      OBVIOUS
    <2>2. PICK s \in Nat, l \in Nat \ {0} :
             s = start[k] /\ l = Len(SectionOf(parts[k + 1], pad)) /\ start[k + 1] = s + l
             /\ w[k + 1] = SectionOf(parts[k + 1], pad) /\ l = Len(w[k + 1])
      BY <1>4, <1>5, <1>7, <2>1
    <2>3. At(flat, 1 + s, w[k + 1])
      BY <1>7, <1>8, <2>2
    <2>4. At(b, 1 + 8 + s, w[k + 1])
      <3>1. Len(b) \in Nat /\ Len(flat) \in Nat /\ Len(w[k + 1]) \in Nat
        BY <1>11, <2>2
      <3> QED BY <1>12, <2>3, <3>1, AtWithin
    <2>5. 1 + 8 + s = 9 + s /\ s + l \in Nat /\ s + l >= s + 1
      OBVIOUS
    <2> QED BY <2>2, <2>4, <2>5
  <1>15. \A k \in 0 .. p : k <= start[k]
    <2> DEFINE S == {k \in 0 .. p : k <= start[k]}
    <2>1. 0 \in S
      BY <1>7
    <2>2. ASSUME NEW k \in 0 .. p - 1, k \in S PROVE k + 1 \in S
      <3>1. k + 1 \in 0 .. p /\ k <= start[k]
        BY <2>2
      <3>2. start[k] \in Nat /\ start[k + 1] \in Nat /\ start[k + 1] >= start[k] + 1
        BY <1>14
      <3>3. k + 1 <= start[k + 1]
        BY <3>1, <3>2
      <3> QED BY <3>1, <3>3
    <2> HIDE DEF S
    <2>3. 0 .. p \subseteq S
      BY <2>1, <2>2, UpToSets
    <2> QED BY <2>3 DEF S
  <1>16. Laid(b, parts, pad, start)
    BY <1>2, <1>7, <1>11, <1>13, <1>14, <1>15 DEF Laid
  <1>17. b = Binary(m)
    BY <1>6, <1>8, <1>10
  <1> QED BY <1>1, <1>16, <1>17

\* Numbers of ten bytes at most are read, and what is declared is found.
LEMMA BinaryRead ==
    ASSUME NEW parts \in Seq(Parts), NEW pad \in 1 .. 10, NEW b, NEW start,
           Laid(b, parts, pad, start),
           \A k \in 1 .. Len(parts) : FitsPart(parts[k], pad)
    PROVE  UsesMemory64(b) <=> \E k \in 1 .. Len(parts) : PartHits(parts[k])
  <1>1. PICK p \in Nat, l \in Nat : p = Len(parts) /\ l = Len(b)
    BY DEF Laid
  <1>2. \A k \in 1 .. p : parts[k] \in Parts
    BY <1>1, Elements
  <1>3. /\ b \in Seq(Octet) /\ l = 8 + start[p] /\ SubSeq(b, 1, 8) = Magic
        /\ start[0] = 0
        /\ \A k \in 0 .. p : start[k] \in Nat /\ k <= start[k]
        /\ \A k \in 0 .. p - 1 :
              /\ start[k + 1] = start[k] + Len(SectionOf(parts[k + 1], pad))
              /\ At(b, 9 + start[k], SectionOf(parts[k + 1], pad))
    BY <1>1 DEF Laid
  <1>4. p < l /\ l >= 8 /\ p + 1 \in 0 .. l /\ p \in 0 .. l - 1 /\ 9 + start[p] = l + 1
    <2>1. PICK s \in Nat : s = start[p] /\ p <= s
      BY <1>3
    <2> QED BY <1>3, <2>1, SMTT(40)
  <1>5. PICK v : /\ v[0] = Go(Read(0, 9))
                 /\ \A k \in 0 .. l - 1 :
                       v[k + 1] = IF v[k].done THEN v[k] ELSE Section(b, v[k].at)
                 /\ \A k \in 0 .. l : v[k] \in Results
                 /\ UsesMemory64(b) <=> l >= 8 /\ SubSeq(b, 1, 8) = Magic /\ v[l].is
    <2>1. PICK v : SectionWalk(v, b)
      BY <1>3, SectionSteps
    <2>2. Len(Magic) + 1 = 9
      BY FirstTyped
    <2> QED BY <1>1, <2>1, <2>2 DEF SectionWalk
  <1> DEFINE Hit(k) == \E j \in 1 .. k : PartHits(parts[j])
             S == {k \in 0 .. p : Does(v[k], Hit(k), 9 + start[k])}
  <1>6. 0 \in S
    <2>1. 0 \in 0 .. p /\ ~Hit(0) /\ 9 + start[0] = 9
      BY <1>3
    <2>2. Stands(Read(0, 9), 9)
      BY StandsRead
    <2>3. Does(Go(Read(0, 9)), FALSE, 9)
      BY <2>2, GoesOn
    <2>4. Hit(0) = FALSE
      BY <2>1
    <2>5. Does(v[0], Hit(0), 9 + start[0])
      <3> HIDE DEF Hit
      <3> QED BY <1>5, <2>1, <2>3, <2>4
    <2> QED BY <2>1, <2>5
  <1>7. ASSUME NEW k \in 0 .. p - 1, k \in S PROVE k + 1 \in S
    <2>1. k + 1 \in 0 .. p /\ k + 1 \in 1 .. p /\ k \in 0 .. p /\ k \in 0 .. l - 1
          /\ k + 1 \in 0 .. l /\ k \in 0 .. l
      BY <1>4
    <2>2. Hit(k + 1) <=> Hit(k) \/ PartHits(parts[k + 1])
      <3>1. 1 .. k + 1 = (1 .. k) \cup {k + 1}
        OBVIOUS
      <3> QED BY <3>1
    <2>3. Hit(k) \in BOOLEAN /\ Hit(k + 1) \in BOOLEAN
      OBVIOUS
    <2>4. Does(v[k], Hit(k), 9 + start[k])
      BY <1>7
    <2> HIDE DEF Hit
    <2>5. PICK q \in Nat \ {0} :
             q = 9 + start[k] /\ 9 + start[k + 1] = q + Len(SectionOf(parts[k + 1], pad))
      <3>1. PICK s \in Nat, t \in Nat :
               /\ s = start[k] /\ t = start[k + 1]
               /\ t = s + Len(SectionOf(parts[k + 1], pad))
        BY <1>3, <2>1
      <3>2. Len(SectionOf(parts[k + 1], pad)) \in Nat
        <4>1. PICK part \in Parts : part = parts[k + 1]
          BY <1>2, <2>1
        <4>2. pad \in Nat \ {0}
          OBVIOUS
        <4>3. PICK body \in Seq(Octet) : body = BodyOf(part, pad)
          BY <4>2, BodyWritten
        <4>4. SectionOf(part, pad) \in Seq(Octet)
          BY <4>2, <4>3, SectionWritten
        <4>5. Len(SectionOf(part, pad)) \in Nat
          BY <4>4
        <4> QED BY <4>1, <4>5
      <3>3. 9 + s \in Nat \ {0}
            /\ 9 + (s + Len(SectionOf(parts[k + 1], pad)))
                  = (9 + s) + Len(SectionOf(parts[k + 1], pad))
        BY <3>2
      <3> QED BY <3>1, <3>3
    <2>6. v[k] \in Results /\ v[k + 1] \in Results
          /\ v[k + 1] = IF v[k].done THEN v[k] ELSE Section(b, v[k].at)
      BY <1>5, <2>1
    <2>7. CASE Hit(k)
      <3>1. v[k] = Answer(TRUE) /\ v[k].done
        BY <2>3, <2>4, <2>6, <2>7, DoesFacts
      <3>2. v[k + 1] = Answer(TRUE) /\ Hit(k + 1)
        BY <2>2, <2>6, <2>7, <3>1
      <3>3. Does(v[k + 1], Hit(k + 1), 9 + start[k + 1])
        BY <3>2 DEF Does
      <3> QED BY <2>1, <3>3
    <2>8. CASE ~Hit(k)
      <3>1. Stands(v[k].at, q) /\ ~v[k].done
        BY <2>3, <2>4, <2>5, <2>6, <2>8, DoesFacts
      <3>2. At(b, q, SectionOf(parts[k + 1], pad))
        BY <1>3, <2>5
      <3>3. parts[k + 1] \in Parts /\ FitsPart(parts[k + 1], pad)
        BY <1>1, <1>2, <2>1
      <3>4. Does(Section(b, v[k].at), PartHits(parts[k + 1]),
                 q + Len(SectionOf(parts[k + 1], pad)))
        BY <1>3, <3>1, <3>2, <3>3, SectionRead
      <3>5. v[k + 1] = Section(b, v[k].at)
        BY <2>6, <3>1
      <3>6. Hit(k + 1) = PartHits(parts[k + 1])
        BY <2>2, <2>3, <2>8 DEF PartHits
      <3>7. Does(v[k + 1], Hit(k + 1), 9 + start[k + 1])
        BY <2>5, <3>4, <3>5, <3>6
      <3> QED BY <2>1, <3>7
    <2> QED BY <2>7, <2>8
  <1>8. p \in S
    <2> HIDE DEF S
    <2>1. 0 .. p \subseteq S
      BY <1>6, <1>7, UpToSets
    <2> QED BY <2>1
  <1>9. Does(v[p], Hit(p), 9 + start[p]) /\ Hit(p) \in BOOLEAN /\ v[p] \in Results
    <2>1. p \in 0 .. p /\ p \in 0 .. l
      BY <1>4
    <2>2. v[p] \in Results
      BY <1>5, <2>1
    <2>3. Hit(p) \in BOOLEAN
      OBVIOUS
    <2>4. Does(v[p], Hit(p), 9 + start[p])
      <3> HIDE DEF Hit
      <3> QED BY <1>8
    <2> HIDE DEF Hit, S
    <2> QED BY <2>2, <2>3, <2>4
  <1>10. v[p + 1].done /\ (v[p + 1].is <=> Hit(p))
    <2> HIDE DEF Hit, S
    <2>1. v[p + 1] = IF v[p].done THEN v[p] ELSE Section(b, v[p].at)
      BY <1>4, <1>5
    <2>2. CASE Hit(p)
      BY <1>9, <2>1, <2>2, DoesFacts
    <2>3. CASE ~Hit(p)
      <3>1. ~v[p].done /\ v[p].at.pos = l + 1
        BY <1>4, <1>9, <2>3, DoesFacts DEF Stands
      <3>2. ~(l + 1 <= l)
        OBVIOUS
      <3>3. Section(b, v[p].at) = Answer(FALSE)
        <4>1. ~(v[p].at.pos <= Len(b))
          BY <1>1, <3>1, <3>2
        <4> QED BY <4>1, SectionIs DEF OneSection
      <3> QED BY <2>1, <2>3, <3>1, <3>3, ResultFacts
    <2> QED BY <2>2, <2>3
  <1>11. v[l] = v[p + 1]
    <2> HIDE DEF Hit, S
    <2>1. \A k \in 0 .. l - 1 : v[k].done => v[k + 1] = v[k]
      BY <1>5
    <2> QED BY <1>4, <1>10, <2>1, DoneStays
  <1>12. UsesMemory64(b) <=> Hit(p)
    <2> HIDE DEF Hit, S
    <2> QED BY <1>3, <1>4, <1>5, <1>10, <1>11
  <1> QED BY <1>1, <1>12

\* Numbers of more bytes are not, and no section is.
LEMMA BinaryTooLong ==
    ASSUME NEW parts \in Seq(Parts), NEW pad \in Nat, pad > 10, NEW b, NEW start,
           Laid(b, parts, pad, start)
    PROVE  ~UsesMemory64(b)
  <1>1. PICK p \in Nat, l \in Nat : p = Len(parts) /\ l = Len(b)
    BY DEF Laid
  <1>2. /\ b \in Seq(Octet) /\ l = 8 + start[p] /\ start[0] = 0 /\ start[p] \in Nat
        /\ p > 0 => At(b, 9 + start[0], SectionOf(parts[0 + 1], pad))
    <2>1. p \in 0 .. p /\ (p > 0 => 0 \in 0 .. p - 1)
      OBVIOUS
    <2> QED BY <1>1, <2>1 DEF Laid
  <1>3. PICK v : /\ v[0] = Go(Read(0, 9))
                 /\ \A k \in 0 .. l - 1 :
                       v[k + 1] = IF v[k].done THEN v[k] ELSE Section(b, v[k].at)
                 /\ UsesMemory64(b) => v[l].is
    <2>1. PICK v : SectionWalk(v, b)
      BY <1>2, SectionSteps
    <2>2. Len(Magic) + 1 = 9
      BY FirstTyped
    <2> QED BY <1>1, <2>1, <2>2 DEF SectionWalk
  <1>4. PICK at : at = Read(0, 9) /\ at.pos = 9 /\ Stands(at, 9)
    <2>1. 0 \in Nat \cup BOOLEAN /\ 9 \in Nat \ {0}
      OBVIOUS
    <2>2. Stands(Read(0, 9), 9)
      BY <2>1, StandsRead
    <2>3. Read(0, 9).pos = 9
      BY ReadFacts
    <2> QED BY <2>2, <2>3
  <1>5. Section(b, at) = Answer(FALSE)
    <2>1. PICK size : size = ReadULEB(b, 9 + 1)
      OBVIOUS
    <2>2. Section(b, at) = OneSection(b, at, size)
      BY <1>4, <2>1, SectionIs
    <2>3. CASE p > 0
      <3>1. PICK part \in Parts : part = parts[1]
        <4>1. 1 \in 1 .. Len(parts)
          BY <1>1, <2>3
        <4> QED BY <4>1, Elements
      <3>2. pad \in Nat \ {0}
        OBVIOUS
      <3>3. PICK body \in Seq(Octet), id \in Octet : body = BodyOf(part, pad) /\ id = part.id
        BY <3>2, BodyWritten DEF Parts, Octet
      <3>4. PICK n \in Nat, N \in Seq(Octet) : n = Len(body) /\ N = Padded(n, pad)
        BY <3>2, PaddedTyped
      <3>5. SectionOf(part, pad) = <<id>> \o (N \o body)
        BY <3>2, <3>3, <3>4, SectionWritten
      <3>6. N \o body \in Seq(Octet)
        BY JoinTyped
      <3>7. At(b, 9, <<id>> \o (N \o body))
        <4>1. 9 + start[0] = 9 /\ 0 + 1 = 1
          BY <1>2
        <4> QED BY <1>2, <2>3, <3>1, <3>5, <4>1
      <3>8. At(b, 9 + 1, N \o body)
        <4>1. PICK nine \in Nat \ {0} : nine = 9
          OBVIOUS
        <4>2. PICK s \in Seq(Octet) : s = N \o body
          BY <3>6
        <4>3. At(b, nine, <<id>> \o s)
          BY <3>7, <4>1, <4>2
        <4>4. At(b, nine + 1, s)
          BY <1>2, <4>3, ByteJoined
        <4> QED BY <4>1, <4>2, <4>4
      <3>9. At(b, 9 + 1, N)
        BY <1>2, <3>8, AtParts
      <3>10. size = Bad
        BY <1>2, <2>1, <3>4, <3>9, NumberTooLong
      <3> QED BY <2>2, <3>10, ReadFacts DEF OneSection
    <2>4. CASE p = 0
      <3>1. ~(at.pos <= Len(b))
        BY <1>1, <1>2, <1>4, <2>4
      <3> QED BY <2>2, <3>1 DEF OneSection
    <2>5. p > 0 \/ p = 0
      OBVIOUS
    <2> QED BY <2>3, <2>4, <2>5
  <1>6. v[1] = Answer(FALSE)
    <2>1. Go(at).done = FALSE /\ Go(at).at = at
      BY <1>4 DEF Go, Stands
    <2>2. v[0 + 1] = IF v[0].done THEN v[0] ELSE Section(b, v[0].at)
      <3>1. 0 \in 0 .. l - 1
        BY <1>2
      <3> QED BY <1>3, <3>1
    <2>3. PICK g : g = v[0]
      OBVIOUS
    <2>4. g.done = FALSE /\ g.at = at
      BY <1>3, <1>4, <2>1, <2>3
    <2>5. v[0 + 1] = Section(b, at)
      BY <2>2, <2>3, <2>4
    <2>6. 0 + 1 = 1
      OBVIOUS
    <2> QED BY <1>5, <2>5, <2>6
  <1>7. v[l] = v[1]
    <2>1. 1 \in 0 .. l
      BY <1>2
    <2>2. v[1].done
      BY <1>6, ResultFacts
    <2>3. \A k \in 0 .. l - 1 : v[k].done => v[k + 1] = v[k]
      BY <1>3
    <2> QED BY <2>1, <2>2, <2>3, DoneStays
  <1> QED BY <1>3, <1>6, <1>7, ResultFacts

\* The probe finds what a module declares and nothing that is not there, whatever
\* else the module has, and a module that is cut never says more
\* (memory64.go:21-26, 80-82).
THEOREM ModulesAreFound == \A m \in Modules : Finds(m)
  <1> SUFFICES ASSUME NEW m \in Modules PROVE Finds(m)
    OBVIOUS
  <1>1. m \in [parts : Seq(Parts), pad : Nat \ {0}] /\ FitsAll(m)
    BY ModulesAssumption
  <1>2. PICK parts \in Seq(Parts), pad \in Nat \ {0} : parts = m.parts /\ pad = m.pad
    BY <1>1
  <1>3. PICK b, start : b = Binary(m) /\ Laid(b, parts, pad, start)
    BY <1>1, <1>2, BinaryLaid
  <1>4. DOMAIN parts = 1 .. Len(parts)
    OBVIOUS
  <1>5. Declares64(m) <=> \E k \in 1 .. Len(parts) : PartHits(parts[k])
    BY <1>2, <1>4, DeclaresHits
  <1>6. UsesMemory64(b) <=> pad <= 10 /\ Declares64(m)
    <2>1. CASE pad <= 10
      <3>1. pad \in 1 .. 10
        BY <2>1
      <3>2. \A k \in 1 .. Len(parts) : FitsPart(parts[k], pad)
        BY <1>1, <1>2, <1>4 DEF FitsAll, FitsPart, FitsItem
      <3>3. UsesMemory64(b) <=> \E k \in 1 .. Len(parts) : PartHits(parts[k])
        BY <1>3, <3>1, <3>2, BinaryRead
      <3> QED BY <1>5, <2>1, <3>3
    <2>2. CASE ~(pad <= 10)
      <3>1. pad > 10 /\ pad \in Nat
        BY <2>2
      <3>2. ~UsesMemory64(b)
        BY <1>3, <3>1, BinaryTooLong
      <3> QED BY <2>2, <3>2
    <2> QED BY <2>1, <2>2
  <1>7. ASSUME NEW n \in 0 .. Len(b) - 1, UsesMemory64(SubSeq(b, 1, n))
        PROVE  UsesMemory64(b)
    <2>1. b \in Seq(Octet) /\ n \in 0 .. Len(b)
      BY <1>3 DEF Laid
    <2> QED BY <1>7, <2>1, CutSaysNoMore
  <1> QED BY <1>2, <1>3, <1>6, <1>7 DEF Finds

-----------------------------------------------------------------------------
(* What is said is one of the things the constants allow.                    *)

Sayings ==
    {Silence} \cup [kind : {"line"}, runes : Lines] \cup [kind : {"tsc"}, reports : Reports]
              \cup [kind : {"esbuild"}, resp : Responses]
              \cup [kind : {"stderr"}, writes : Writes] \cup [kind : {"binary"}, m : Modules]

\* Nothing else is said.
LEMMA SayingsOnly == Spec => [](said \in Sayings)
  <1>1. Init => said \in Sayings
    BY DEF Init, Sayings
  <1>2. said \in Sayings /\ [Next]_said => (said \in Sayings)'
    BY DEF Next, Quote, Report, Respond, Say, Compile, Done, Sayings
  <1> QED BY <1>1, <1>2, PTL DEF Spec

\* Whatever was said, it comes out as it was: columns, files, messages and the end
\* of a stream (esbuild.go:399-483, tsgo.go:186-253, engine.go:106-129).
THEOREM ToldFaithfully == Spec => []ToldAsItWas
  <1>1. said \in Sayings => ToldAsItWas
    <2> SUFFICES ASSUME said \in Sayings PROVE ToldAsItWas
      OBVIOUS
    <2>1. ASSUME said.kind = "line" PROVE ColumnsAgree(said.runes)
      <3>1. said.runes \in Lines
        BY <2>1 DEF Sayings, Silence
      <3>2. said.runes \in Seq(1 .. 4)
        BY <3>1, LinesAssumption
      <3> QED BY <3>2, ColumnsAreTold
    <2>2. ASSUME said.kind = "tsc" PROVE ReadsBack(said.reports)
      <3>1. said.reports \in Reports
        BY <2>2 DEF Sayings, Silence
      <3> QED BY <3>1, PrintedIsRead
    <2>3. ASSUME said.kind = "esbuild" PROVE ArtifactKept(said.resp)
      <3>1. said.resp \in Responses
        BY <2>3 DEF Sayings, Silence
      <3> QED BY <3>1, ArtifactIsKept
    <2>4. ASSUME said.kind = "stderr" PROVE EndIsKept(said.writes)
      <3>1. said.writes \in Writes
        BY <2>4 DEF Sayings, Silence
      <3> QED BY <3>1, EndSurvives
    <2> QED BY <2>1, <2>2, <2>3, <2>4 DEF ToldAsItWas
  <1> QED BY <1>1, SayingsOnly, PTL

\* A module is refused if and only if it declares a memory of 64 bits, whatever
\* stands before the declaration, and never because it was cut
\* (memory64.go:21-26, 80-82).
THEOREM ProbeIsExact == Spec => []ProbeFinds
  <1>1. said \in Sayings => ProbeFinds
    <2> SUFFICES ASSUME said \in Sayings, said.kind = "binary" PROVE Finds(said.m)
      BY DEF ProbeFinds
    <2>1. said.m \in Modules
      BY DEF Sayings, Silence
    <2> QED BY <2>1, ModulesAreFound
  <1> QED BY <1>1, SayingsOnly, PTL
=============================================================================
