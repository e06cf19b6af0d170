----------------------------- MODULE NamesProofs -----------------------------
(* What path.Clean and rel compute, for every path.  A recursive function is *)
(* the one its equation defines if some function satisfies the equation, and *)
(* what it computes is shown by induction, which is stated here of a set of  *)
(* numbers.                                                                  *)
EXTENDS Names, Integers, WellFoundedInduction, TLAPS

-----------------------------------------------------------------------------
(* Induction and recursion.                                                  *)

\* A set of naturals with 0 and the successor of each of its members has all.
LEMMA NatSets ==
    ASSUME NEW S \in SUBSET Nat, 0 \in S, \A n \in S : n + 1 \in S
    PROVE  S = Nat
<1> DEFINE T == Nat \ S
<1> SUFFICES ASSUME T # {} PROVE FALSE
  OBVIOUS
<1>1. PICK x \in T : \A y \in T : ~ (<<y, x>> \in OpToRel(<, Nat))
  BY NatLessThanWellFounded, WFMin
<1>2. x \in Nat /\ x # 0 /\ x - 1 \in Nat
  OBVIOUS
<1>3. x - 1 \notin S
  BY <1>2
<1>4. <<x - 1, x>> \in OpToRel(<, Nat)
  BY <1>2 DEF OpToRel
<1> QED BY <1>1, <1>2, <1>3, <1>4

\* The same of the numbers up to one of them.
LEMMA UpToSets ==
    ASSUME NEW m \in Nat, NEW S, 0 \in S,
           \A n \in 0 .. m - 1 : n \in S => n + 1 \in S
    PROVE  0 .. m \subseteq S
<1> DEFINE T == {n \in Nat : n <= m => n \in S}
<1>1. 0 \in T
  OBVIOUS
<1>2. ASSUME NEW n \in T PROVE n + 1 \in T
  OBVIOUS
<1>3. T = Nat
  <2> HIDE DEF T
  <2>1. T \in SUBSET Nat
    BY DEF T
  <2> QED BY <1>1, <1>2, <2>1, NatSets
<1> QED BY <1>3

\* A function that steps from D into D stays there, and two that step alike agree.
LEMMA Throughout ==
    ASSUME NEW m \in Nat, NEW D, NEW f, f[0] \in D,
           \A n \in 0 .. m - 1 : f[n] \in D => f[n + 1] \in D
    PROVE  \A n \in 0 .. m : f[n] \in D
<1> DEFINE S == {n \in 0 .. m : f[n] \in D}
<1>1. 0 \in S /\ \A n \in 0 .. m - 1 : n \in S => n + 1 \in S
  OBVIOUS
<1> HIDE DEF S
<1>2. 0 .. m \subseteq S
  BY <1>1, UpToSets
<1> QED BY <1>2 DEF S

LEMMA Alike ==
    ASSUME NEW m \in Nat, NEW f, NEW g, f[0] = g[0],
           \A n \in 0 .. m - 1 : f[n] = g[n] => f[n + 1] = g[n + 1]
    PROVE  \A n \in 0 .. m : f[n] = g[n]
<1> DEFINE S == {n \in 0 .. m : f[n] = g[n]}
<1>1. 0 \in S /\ \A n \in 0 .. m - 1 : n \in S => n + 1 \in S
  OBVIOUS
<1> HIDE DEF S
<1>2. 0 .. m \subseteq S
  BY <1>1, UpToSets
<1> QED BY <1>2 DEF S

\* A set of naturals that is not empty has a least member.
LEMMA Least ==
    ASSUME NEW S \in SUBSET Nat, S # {}
    PROVE  \E i \in S : \A j \in S : i <= j
<1>1. PICK i \in S : \A j \in S : ~ (<<j, i>> \in OpToRel(<, Nat))
  BY NatLessThanWellFounded, WFMin
<1>2. ASSUME NEW j \in S PROVE i <= j
  <2>1. ~(j < i)
    BY <1>1 DEF OpToRel
  <2> QED BY <2>1
<1> QED BY <1>2

\* step takes a member of D and a number up to m to a member of D, and g starts
\* with d and goes on with step.
Steps(D, m, step) == \A n \in 1 .. m : \A e \in D : step[<<e, n>>] \in D
Follows(g, d, m, step) == g[0] = d /\ \A n \in 1 .. m : g[n] = step[<<g[n - 1], n>>]

LEMMA Recursion ==
    ASSUME NEW D, NEW d \in D, NEW m \in Nat, NEW step, Steps(D, m, step)
    PROVE  \E g \in [0 .. m -> D] : Follows(g, d, m, step)
<1> DEFINE S == {n \in Nat : \E g \in [0 .. n -> D] : Follows(g, d, n, step)}
<1>1. 0 \in S
  <2>1. [n \in 0 .. 0 |-> d] \in [0 .. 0 -> D] /\ Follows([n \in 0 .. 0 |-> d], d, 0, step)
    BY DEF Follows
  <2> QED BY <2>1
<1>2. ASSUME NEW n \in 0 .. m - 1, n \in S PROVE n + 1 \in S
  <2>1. PICK g \in [0 .. n -> D] : Follows(g, d, n, step)
    BY <1>2
  <2> HIDE DEF S
  <2> DEFINE h == [k \in 0 .. n + 1 |-> IF k <= n THEN g[k] ELSE step[<<g[n], n + 1>>]]
  <2>2. n \in Nat /\ n + 1 \in 1 .. m /\ g[n] \in D /\ step[<<g[n], n + 1>>] \in D
    BY DEF Steps
  <2>3. h \in [0 .. n + 1 -> D]
    BY <2>2
  <2>4. ASSUME NEW k \in 1 .. n + 1 PROVE h[k] = step[<<h[k - 1], k>>]
    <3>1. CASE k <= n
      <4>1. k \in 1 .. n /\ k - 1 \in 0 .. n + 1 /\ k - 1 <= n /\ k \in 0 .. n + 1
        BY <2>2, <3>1
      <4>2. h[k] = g[k] /\ h[k - 1] = g[k - 1]
        BY <3>1, <4>1
      <4> QED BY <2>1, <4>1, <4>2 DEF Follows
    <3>2. CASE k = n + 1
      <4>1. k \in 0 .. n + 1 /\ ~(k <= n) /\ k - 1 = n /\ n \in 0 .. n + 1 /\ n <= n
        BY <2>2, <3>2
      <4>2. h[k] = step[<<g[n], n + 1>>] /\ h[k - 1] = g[n]
        BY <4>1
      <4> QED BY <3>2, <4>2
    <3> QED BY <2>2, <3>1, <3>2
  <2>5. h[0] = d
    BY <2>1, <2>2 DEF Follows
  <2> HIDE DEF h
  <2>6. n + 1 \in Nat /\ h \in [0 .. n + 1 -> D] /\ Follows(h, d, n + 1, step)
    BY <2>2, <2>3, <2>4, <2>5 DEF Follows
  <2> QED BY <2>6 DEF S
<1> HIDE DEF S
<1>3. 0 .. m \subseteq S
  BY <1>1, <1>2, UpToSets
<1> QED BY <1>3 DEF S

-----------------------------------------------------------------------------
(* path.Clean.                                                               *)

Segments == Seq(STRING)
Paths    == [rooted : BOOLEAN, segs : Segments]

\* A segment that is a name, and what a clean path is: any number of steps up,
\* of a rooted path none, and names.
IsSegment(seg) == seg \notin {"", ".", ".."}
UpFirst(segs, k) ==
    /\ \A i \in 1 .. k : segs[i] = ".."
    /\ \A i \in k + 1 .. Len(segs) : IsSegment(segs[i])
IsClean(rooted, segs) ==
    \E k \in 0 .. Len(segs) : (rooted => k = 0) /\ UpFirst(segs, k)

LEMMA AppendTyped ==
    ASSUME NEW S, NEW s \in Seq(S), NEW e \in S
    PROVE  Append(s, e) \in Seq(S)
OBVIOUS

LEMMA AppendFacts ==
    ASSUME NEW S, NEW s \in Seq(S), NEW e \in S
    PROVE  /\ Len(Append(s, e)) = Len(s) + 1
           /\ \A i \in 1 .. Len(s) : Append(s, e)[i] = s[i]
           /\ Append(s, e)[Len(s) + 1] = e
OBVIOUS

LEMMA PrefixFacts ==
    ASSUME NEW S, NEW s \in Seq(S), NEW n \in 0 .. Len(s) - 1, NEW t,
           t = SubSeq(s, 1, n)
    PROVE  /\ Len(t) = n /\ \A i \in 1 .. n : t[i] = s[i]
           /\ Append(t, s[n + 1]) = SubSeq(s, 1, n + 1)
OBVIOUS

LEMMA Between ==
    ASSUME NEW m \in Nat, NEW k \in 0 .. m, k # m
    PROVE  k \in 0 .. m - 1 /\ m \in k + 1 .. m
OBVIOUS

LEMMA EqualSeqs ==
    ASSUME NEW S, NEW s \in Seq(S), NEW t \in Seq(S), Len(s) = Len(t),
           \A i \in 1 .. Len(s) : s[i] = t[i]
    PROVE  s = t
OBVIOUS

LEMMA WholePrefix ==
    ASSUME NEW S, NEW s \in Seq(S)
    PROVE  SubSeq(s, 1, Len(s)) = s
OBVIOUS

LEMMA WalkTyped ==
    ASSUME NEW rooted, NEW done \in Segments, NEW seg \in STRING
    PROVE  Walk(rooted, done, seg) \in Segments
<1>1. Append(done, seg) \in Segments
  BY AppendTyped DEF Segments
<1>2. CASE done # <<>>
  <2>1. Front(done) \in Segments
    BY <1>2 DEF Front, Segments
  <2> QED BY <1>1, <2>1 DEF Walk
<1>3. CASE done = <<>>
  BY <1>1, <1>3 DEF Walk
<1> QED BY <1>2, <1>3

\* Clean is the walk over the segments.
LEMMA CleanWalks ==
    ASSUME NEW p \in Paths
    PROVE  \E done \in [0 .. Len(p.segs) -> Segments] :
              /\ done[0] = <<>>
              /\ \A n \in 1 .. Len(p.segs) :
                    done[n] = Walk(p.rooted, done[n - 1], p.segs[n])
              /\ Clean(p) = [rooted |-> p.rooted, segs |-> done[Len(p.segs)]]
<1> DEFINE m == Len(p.segs)
    step == [en \in Segments \X (1 .. m) |-> Walk(p.rooted, en[1], p.segs[en[2]])]
    IsWalk(g) == g = [n \in 0 .. m |->
                         IF n = 0 THEN <<>> ELSE Walk(p.rooted, g[n - 1], p.segs[n])]
    f == CHOOSE g : IsWalk(g)
<1>1. m \in Nat /\ <<>> \in Segments /\ \A n \in 1 .. m : p.segs[n] \in STRING
  BY DEF Paths, Segments
<1>2. \A n \in 1 .. m, e \in Segments :
         step[<<e, n>>] = Walk(p.rooted, e, p.segs[n]) /\ step[<<e, n>>] \in Segments
  <2> SUFFICES ASSUME NEW n \in 1 .. m, NEW e \in Segments
               PROVE  /\ step[<<e, n>>] = Walk(p.rooted, e, p.segs[n])
                      /\ step[<<e, n>>] \in Segments
    OBVIOUS
  <2>1. step[<<e, n>>] = Walk(p.rooted, e, p.segs[n])
    OBVIOUS
  <2> QED BY <1>1, <2>1, WalkTyped
<1> HIDE DEF step
<1>3. PICK g \in [0 .. m -> Segments] : Follows(g, <<>>, m, step)
  <2> HIDE DEF m, IsWalk, f
  <2>1. m \in Nat /\ <<>> \in Segments
    BY <1>1
  <2>2. Steps(Segments, m, step)
    BY <1>2 DEF Steps
  <2> QED BY <2>1, <2>2, Recursion
<1>4. \A n \in 1 .. m : g[n] = Walk(p.rooted, g[n - 1], p.segs[n])
  <2> SUFFICES ASSUME NEW n \in 1 .. m PROVE g[n] = Walk(p.rooted, g[n - 1], p.segs[n])
    OBVIOUS
  <2>1. n - 1 \in 0 .. m
    BY <1>1
  <2> QED BY <1>2, <1>3, <2>1 DEF Follows
<1>5. IsWalk(g)
  <2> DEFINE h == [n \in 0 .. m |->
                      IF n = 0 THEN <<>> ELSE Walk(p.rooted, g[n - 1], p.segs[n])]
  <2>1. ASSUME NEW n \in 0 .. m PROVE g[n] = h[n]
    <3>1. n = 0 \/ n \in 1 .. m
      BY <1>1
    <3> QED BY <1>3, <1>4, <3>1 DEF Follows
  <2>2. DOMAIN g = 0 .. m /\ g = [n \in 0 .. m |-> g[n]] /\ h = [n \in 0 .. m |-> h[n]]
    OBVIOUS
  <2> HIDE DEF h
  <2>3. g = h
    BY <2>1, <2>2
  <2> QED BY <2>3 DEF h
<1>6. IsWalk(f)
  <2> HIDE DEF IsWalk
  <2> QED BY <1>5
<1>7. Clean(p) = [p EXCEPT !.segs = f[m]]
  BY DEF Clean
<1>8. \A n \in 0 .. m : f[n] = g[n]
  <2> DEFINE S == {n \in 0 .. m : f[n] = g[n]}
  <2> HIDE DEF f, m
  <2>1. f[0] = g[0] /\ \A n \in 1 .. m : f[n] = Walk(p.rooted, f[n - 1], p.segs[n])
    <3>1. \A n \in 0 .. m :
              f[n] = IF n = 0 THEN <<>> ELSE Walk(p.rooted, f[n - 1], p.segs[n])
      BY <1>6
    <3>2. 0 \in 0 .. m /\ \A n \in 1 .. m : n \in 0 .. m /\ n # 0
      BY <1>1 DEF m
    <3> QED BY <1>3, <3>1, <3>2 DEF Follows
  <2>2. 0 \in S
    BY <1>1, <2>1 DEF m
  <2>3. ASSUME NEW n \in 0 .. m - 1, n \in S PROVE n + 1 \in S
    <3>1. n + 1 \in 1 .. m /\ n + 1 \in 0 .. m /\ (n + 1) - 1 = n
      BY <1>1 DEF m
    <3> QED BY <1>4, <2>1, <2>3, <3>1
  <2> HIDE DEF S
  <2>4. 0 .. m \subseteq S
    BY <1>1, <2>2, <2>3, UpToSets DEF m
  <2> QED BY <2>4 DEF S
<1> HIDE DEF f
<1>9. Clean(p) = [rooted |-> p.rooted, segs |-> g[m]]
  BY <1>1, <1>7, <1>8 DEF Paths
<1> QED BY <1>3, <1>4, <1>9 DEF Follows

\* A clean path stays clean as it is walked over.
LEMMA WalkClean ==
    ASSUME NEW rooted, NEW done \in Segments, NEW seg \in STRING, IsClean(rooted, done)
    PROVE  IsClean(rooted, Walk(rooted, done, seg))
<1>1. PICK k \in 0 .. Len(done) : (rooted => k = 0) /\ UpFirst(done, k)
  BY DEF IsClean
<1>2. Len(done) \in Nat /\ DOMAIN done = 1 .. Len(done)
  BY DEF Segments
<1>3. ASSUME done # <<>> PROVE IsClean(rooted, Front(done)) \/ Last(done) = ".."
  <2>1. /\ Len(done) >= 1 /\ Len(Front(done)) = Len(done) - 1
        /\ \A i \in 1 .. Len(done) - 1 : Front(done)[i] = done[i]
    BY <1>2, <1>3 DEF Front, Segments
  <2>2. CASE k = Len(done)
    BY <1>1, <1>2, <2>1, <2>2 DEF UpFirst, Last
  <2>3. CASE k # Len(done)
    <3>1. k \in 0 .. Len(Front(done))
      BY <1>2, <2>1, <2>3, Between
    <3>2. UpFirst(Front(done), k)
      <4>1. \A i \in 1 .. k : i \in 1 .. Len(done) - 1
        BY <2>1, <3>1, <1>2
      <4>2. \A i \in k + 1 .. Len(Front(done)) :
                i \in 1 .. Len(done) - 1 /\ i \in k + 1 .. Len(done)
        BY <2>1, <3>1, <1>2
      <4> QED BY <1>1, <2>1, <4>1, <4>2 DEF UpFirst
    <3> QED BY <1>1, <3>1, <3>2 DEF IsClean
  <2> QED BY <2>2, <2>3
<1>4. /\ Len(Append(done, seg)) = Len(done) + 1
      /\ \A i \in 1 .. Len(done) : Append(done, seg)[i] = done[i]
      /\ Append(done, seg)[Len(done) + 1] = seg
  BY AppendFacts DEF Segments
<1>5. ASSUME IsSegment(seg) PROVE IsClean(rooted, Append(done, seg))
  <2>1. k \in 0 .. Len(Append(done, seg))
    BY <1>2, <1>4
  <2>2. UpFirst(Append(done, seg), k)
    <3>1. \A i \in 1 .. k : i \in 1 .. Len(done)
      BY <1>2
    <3>2. \A i \in k + 1 .. Len(done) + 1 :
              i = Len(done) + 1 \/ (i \in 1 .. Len(done) /\ i \in k + 1 .. Len(done))
      BY <1>2
    <3> QED BY <1>1, <1>4, <1>5, <3>1, <3>2 DEF UpFirst
  <2> QED BY <1>1, <2>1, <2>2 DEF IsClean
<1>6. ASSUME seg = "..", ~rooted, done = <<>> \/ Last(done) = ".."
      PROVE  IsClean(rooted, Append(done, seg))
  <2>1. k = Len(done)
    <3>1. CASE done = <<>>
      BY <1>2, <3>1
    <3>2. CASE done # <<>> /\ k # Len(done)
      <4>1. Len(done) \in k + 1 .. Len(done)
        BY <1>2, <3>2, Between
      <4> QED BY <1>1, <1>6, <3>2, <4>1 DEF UpFirst, Last, IsSegment
    <3> QED BY <3>1, <3>2
  <2>2. UpFirst(Append(done, seg), k + 1)
    <3>1. \A i \in 1 .. k + 1 : i = Len(done) + 1 \/ (i \in 1 .. k /\ i \in 1 .. Len(done))
      BY <1>2, <2>1
    <3>2. k + 2 .. Len(Append(done, seg)) = {}
      BY <1>2, <1>4, <2>1
    <3> QED BY <1>1, <1>2, <1>4, <1>6, <2>1, <3>1, <3>2 DEF UpFirst
  <2> QED BY <1>2, <1>4, <1>6, <2>1, <2>2 DEF IsClean
<1>7. CASE seg \in {"", "."}
  BY <1>7 DEF Walk
<1>8. CASE seg = ".." /\ done # <<>> /\ Last(done) # ".."
  BY <1>3, <1>8 DEF Walk
<1>9. CASE seg = ".." /\ (done = <<>> \/ Last(done) = "..") /\ rooted
  BY <1>9 DEF Walk
<1>10. CASE seg = ".." /\ (done = <<>> \/ Last(done) = "..") /\ ~rooted
  BY <1>6, <1>10 DEF Walk
<1>11. CASE IsSegment(seg)
  BY <1>5, <1>11 DEF Walk, IsSegment
<1> QED BY <1>7, <1>8, <1>9, <1>10, <1>11 DEF IsSegment

\* What Clean answers is a clean path.
LEMMA CleanIsClean ==
    ASSUME NEW p \in Paths
    PROVE  /\ Clean(p) \in Paths /\ Clean(p).rooted = p.rooted
           /\ IsClean(p.rooted, Clean(p).segs)
<1> DEFINE m == Len(p.segs)
<1>1. m \in Nat /\ p.rooted \in BOOLEAN /\ \A n \in 1 .. m : p.segs[n] \in STRING
  BY DEF Paths, Segments
<1>2. PICK done \in [0 .. m -> Segments] :
          /\ done[0] = <<>>
          /\ \A n \in 1 .. m : done[n] = Walk(p.rooted, done[n - 1], p.segs[n])
          /\ Clean(p) = [rooted |-> p.rooted, segs |-> done[m]]
  BY CleanWalks
<1> DEFINE S == {n \in 0 .. m : IsClean(p.rooted, done[n])}
<1> HIDE DEF m
<1>3. 0 \in S
  <2>1. Len(<<>>) = 0 /\ UpFirst(<<>>, 0) /\ 0 \in 0 .. 0
    BY DEF UpFirst
  <2>2. IsClean(p.rooted, <<>>)
    BY <2>1 DEF IsClean
  <2> QED BY <1>1, <1>2, <2>2
<1>4. ASSUME NEW n \in 0 .. m - 1, n \in S PROVE n + 1 \in S
  <2>1. n + 1 \in 1 .. m /\ n + 1 \in 0 .. m /\ (n + 1) - 1 = n /\ n \in 0 .. m
    BY <1>1
  <2>2. done[n + 1] = Walk(p.rooted, done[n], p.segs[n + 1])
    BY <1>2, <2>1
  <2> QED BY <1>1, <1>4, <2>1, <2>2, WalkClean
<1> HIDE DEF S
<1>5. 0 .. m \subseteq S
  BY <1>1, <1>3, <1>4, UpToSets
<1>6. m \in 0 .. m
  BY <1>1
<1> QED BY <1>1, <1>2, <1>5, <1>6 DEF S, Paths

\* And of a clean path the path itself.
LEMMA CleanStays ==
    ASSUME NEW p \in Paths, IsClean(p.rooted, p.segs)
    PROVE  Clean(p) = p
<1> DEFINE m == Len(p.segs)
<1>1. /\ m \in Nat /\ p.rooted \in BOOLEAN /\ p.segs \in Segments
      /\ \A n \in 1 .. m : p.segs[n] \in STRING
  BY DEF Paths, Segments
<1>2. PICK done \in [0 .. m -> Segments] :
          /\ done[0] = <<>>
          /\ \A n \in 1 .. m : done[n] = Walk(p.rooted, done[n - 1], p.segs[n])
          /\ Clean(p) = [rooted |-> p.rooted, segs |-> done[m]]
  BY CleanWalks
<1>3. PICK k \in 0 .. m : (p.rooted => k = 0) /\ UpFirst(p.segs, k)
  BY DEF IsClean
<1> DEFINE S == {n \in 0 .. m : done[n] = SubSeq(p.segs, 1, n)}
<1>4. 0 \in S
  BY <1>1, <1>2 DEF Segments
<1>5. ASSUME NEW n \in 0 .. m - 1, n \in S PROVE n + 1 \in S
  <2>1. n + 1 \in 1 .. m /\ n + 1 \in 0 .. m /\ (n + 1) - 1 = n /\ n \in 0 .. m
    BY <1>1
  <2>2. done[n + 1] = Walk(p.rooted, done[n], p.segs[n + 1])
    BY <1>2, <2>1
  <2>3. /\ Len(done[n]) = n /\ \A i \in 1 .. n : done[n][i] = p.segs[i]
        /\ Append(done[n], p.segs[n + 1]) = SubSeq(p.segs, 1, n + 1)
    BY <1>1, <1>5, <2>1, PrefixFacts DEF Segments
  <2>4. CASE n + 1 <= k
    <3>1. p.segs[n + 1] = ".." /\ ~p.rooted
      BY <1>3, <2>1, <2>4 DEF UpFirst
    <3>2. done[n] = <<>> \/ Last(done[n]) = ".."
      <4>1. n # 0 => n \in 1 .. k /\ n \in 1 .. n
        BY <2>1, <2>4
      <4>2. n = 0 => done[n] = <<>>
        BY <1>2
      <4> QED BY <1>3, <2>3, <4>1, <4>2 DEF UpFirst, Last
    <3>3. Walk(p.rooted, done[n], p.segs[n + 1]) = Append(done[n], p.segs[n + 1])
      BY <3>1, <3>2 DEF Walk
    <3> QED BY <2>1, <2>2, <2>3, <3>3
  <2>5. CASE ~(n + 1 <= k)
    <3>1. n + 1 \in k + 1 .. m
      BY <1>1, <2>1, <2>5
    <3>2. IsSegment(p.segs[n + 1])
      BY <1>3, <3>1 DEF UpFirst
    <3>3. Walk(p.rooted, done[n], p.segs[n + 1]) = Append(done[n], p.segs[n + 1])
      BY <3>2 DEF Walk, IsSegment
    <3> QED BY <2>1, <2>2, <2>3, <3>3
  <2> QED BY <2>4, <2>5
<1> HIDE DEF S
<1>6. 0 .. m \subseteq S
  BY <1>1, <1>4, <1>5, UpToSets
<1>7. done[m] = p.segs
  <2>1. m \in S
    BY <1>1, <1>6
  <2>2. SubSeq(p.segs, 1, m) = p.segs
    BY <1>1, WholePrefix DEF Segments
  <2> QED BY <2>1, <2>2 DEF S
<1> QED BY <1>1, <1>2, <1>7 DEF Paths

\* path.Clean is idempotent, and keeps a path rooted or not.
THEOREM CleanTwice == \A p \in Paths : Clean(Clean(p)) = Clean(p)
BY CleanIsClean, CleanStays

-----------------------------------------------------------------------------
(* rel.                                                                      *)

LEMMA Joined ==
    ASSUME NEW S, NEW s \in Seq(S), NEW t \in Seq(S)
    PROVE  /\ s \o t \in Seq(S) /\ Len(s \o t) = Len(s) + Len(t)
           /\ SubSeq(s \o t, 1, Len(s)) = s
           /\ SubSeq(s \o t, Len(s) + 1, Len(s \o t)) = t
           /\ \A i \in 1 .. Len(s) : (s \o t)[i] = s[i]
           /\ \A i \in Len(s) + 1 .. Len(s) + Len(t) : (s \o t)[i] = t[i - Len(s)]
<1>1. s \o t \in Seq(S) /\ Len(s \o t) = Len(s) + Len(t)
  OBVIOUS
<1>2. /\ \A i \in 1 .. Len(s) : (s \o t)[i] = s[i]
      /\ \A i \in Len(s) + 1 .. Len(s) + Len(t) : (s \o t)[i] = t[i - Len(s)]
  OBVIOUS
<1>3. SubSeq(s \o t, 1, Len(s)) = s
  OBVIOUS
<1>4. SubSeq(s \o t, Len(s) + 1, Len(s \o t)) = t
  OBVIOUS
<1> QED BY <1>1, <1>2, <1>3, <1>4

\* A path that starts with another is that one and what is left.
LEMMA Parted ==
    ASSUME NEW S, NEW s \in Seq(S), NEW t \in Seq(S), IsPrefix(s, t),
           NEW rest, rest = SubSeq(t, Len(s) + 1, Len(t))
    PROVE  /\ rest \in Seq(S) /\ t = s \o rest /\ Len(rest) = Len(t) - Len(s)
           /\ Len(s) <= Len(t)
           /\ \A i \in 1 .. Len(rest) : rest[i] = t[i + Len(s)]
<1>1. Len(s) <= Len(t) /\ SubSeq(s, 1, Len(s)) = SubSeq(t, 1, Len(s))
  BY DEF IsPrefix
<1>2. rest \in Seq(S) /\ Len(rest) = Len(t) - Len(s)
  BY <1>1
<1>3. \A i \in 1 .. Len(rest) : rest[i] = t[i + Len(s)]
  BY <1>1
<1>4. \A i \in 1 .. Len(s) : s[i] = t[i]
  <2> SUFFICES ASSUME NEW i \in 1 .. Len(s) PROVE s[i] = t[i]
    OBVIOUS
  <2>1. SubSeq(s, 1, Len(s))[i] = s[i] /\ SubSeq(t, 1, Len(s))[i] = t[i]
    BY <1>1
  <2> QED BY <1>1, <2>1
<1>5. s \o rest \in Seq(S) /\ Len(s \o rest) = Len(t)
  BY <1>1, <1>2
<1>6. \A i \in 1 .. Len(t) : (s \o rest)[i] = t[i]
  BY <1>1, <1>2, <1>3, <1>4
<1>7. t = s \o rest
  BY <1>5, <1>6, EqualSeqs
<1> QED BY <1>1, <1>2, <1>3, <1>7

LEMMA Rests ==
    ASSUME NEW s \in Segments, NEW t \in Segments, IsPrefix(s, t)
    PROVE  /\ SubSeq(t, Len(s) + 1, Len(t)) \in Segments
           /\ t = s \o SubSeq(t, Len(s) + 1, Len(t))
<1> DEFINE rest == SubSeq(t, Len(s) + 1, Len(t))
<1>1. rest = SubSeq(t, Len(s) + 1, Len(t))
  OBVIOUS
<1>2. s \in Seq(STRING) /\ t \in Seq(STRING)
  BY DEF Segments
<1> HIDE DEF rest
<1>3. rest \in Seq(STRING) /\ t = s \o rest
  BY <1>1, <1>2, Parted
<1> QED BY <1>1, <1>3 DEF Segments

LEMMA StartsWith ==
    ASSUME NEW S, NEW s \in Seq(S), NEW t \in Seq(S)
    PROVE  /\ IsPrefix(s, s \o t)
           /\ IsStrictPrefix(s, s \o t) <=> t # <<>>
<1>1. IsPrefix(s, s \o t)
  BY Joined DEF IsPrefix
<1>2. s = s \o t <=> t = <<>>
  <2>1. CASE t = <<>>
    BY <2>1
  <2>2. CASE t # <<>>
    BY <2>2, Joined
  <2> QED BY <2>1, <2>2
<1> QED BY <1>1, <1>2 DEF IsStrictPrefix

\* A root is a rooted path that is clean, and so are the names under it.
Roots == {r \in Segments : \A i \in DOMAIN r : IsSegment(r[i])}

LEMMA NamesAreClean ==
    ASSUME NEW segs \in Segments
    PROVE  /\ segs \in Roots <=> UpFirst(segs, 0)
           /\ ValidName(segs) <=> segs # <<>> /\ UpFirst(segs, 0)
           /\ IsClean(TRUE, segs) <=> UpFirst(segs, 0)
<1>1. Len(segs) \in Nat /\ DOMAIN segs = 1 .. Len(segs)
  BY DEF Segments
<1>2. 0 \in 0 .. Len(segs) /\ 1 .. 0 = {} /\ 0 + 1 .. Len(segs) = 1 .. Len(segs)
  BY <1>1
<1> QED BY <1>1, <1>2 DEF Roots, ValidName, UpFirst, IsSegment, IsClean

LEMMA FullIsClean ==
    ASSUME NEW root \in Roots, NEW name \in Roots
    PROVE  /\ root \o name \in Roots
           /\ Full(name, root) \in Paths /\ Clean(Full(name, root)) = Full(name, root)
           /\ Unrooted(root \o name) \in Paths
           /\ Clean(Unrooted(root \o name)) = Unrooted(root \o name)
<1>1. root \in Segments /\ name \in Segments
  BY DEF Roots
<1>2. /\ root \o name \in Segments /\ Len(root \o name) = Len(root) + Len(name)
      /\ Len(root) \in Nat /\ Len(name) \in Nat
      /\ \A i \in 1 .. Len(root) : (root \o name)[i] = root[i]
      /\ \A i \in Len(root) + 1 .. Len(root) + Len(name) :
            (root \o name)[i] = name[i - Len(root)]
  BY <1>1, Joined DEF Segments
<1>3. UpFirst(root, 0) /\ UpFirst(name, 0)
  BY <1>1, NamesAreClean
<1>4. UpFirst(root \o name, 0)
  <2>1. ASSUME NEW i \in 1 .. Len(root) + Len(name) PROVE IsSegment((root \o name)[i])
    <3>1. CASE i \in 1 .. Len(root)
      BY <1>2, <1>3, <3>1 DEF UpFirst
    <3>2. CASE i \in Len(root) + 1 .. Len(root) + Len(name)
      <4>1. i - Len(root) \in 0 + 1 .. Len(name)
        BY <1>2, <3>2
      <4> QED BY <1>2, <1>3, <3>2, <4>1 DEF UpFirst
    <3> QED BY <1>2, <3>1, <3>2
  <2> QED BY <1>2, <2>1 DEF UpFirst
<1>5. root \o name \in Roots
  BY <1>2, <1>4, NamesAreClean
<1>6. Full(name, root) \in Paths /\ Unrooted(root \o name) \in Paths
  BY <1>2 DEF Full, Rooted, Unrooted, Paths
<1>7. /\ IsClean(Full(name, root).rooted, Full(name, root).segs)
      /\ IsClean(Unrooted(root \o name).rooted, Unrooted(root \o name).segs)
  <2>1. 0 \in 0 .. Len(root \o name)
    BY <1>2
  <2> QED BY <1>4, <2>1 DEF IsClean, Full, Rooted, Unrooted
<1> QED BY <1>5, <1>6, <1>7, CleanStays

\* A name of the project is found in each form in which it arrives: under the
\* root, under it without a leading slash, and relative to it, unless the root
\* stands in front of it once more (compile.go:102-132).
THEOREM NamesAreFound ==
    ASSUME NEW root \in Roots, NEW name \in Segments, ValidName(name)
    PROVE  /\ root # <<>> => /\ Rel(Full(name, root), root) = name
                             /\ Rel(Unrooted(root \o name), root) = name
           /\ ~IsStrictPrefix(root, name) \/ root = <<>> =>
                 Rel(Unrooted(name), root) = name
<1>1. name \in Roots /\ name # <<>> /\ root \in Segments
  BY NamesAreClean DEF Roots
<1>2. ASSUME root # <<>>
      PROVE  \A c \in {Full(name, root), Unrooted(root \o name)} :
                Rel(c, root) = name
  <2> SUFFICES ASSUME NEW c \in {Full(name, root), Unrooted(root \o name)}
               PROVE  Rel(c, root) = name
    OBVIOUS
  <2>1. Clean(c) = c /\ c.segs = root \o name
    <3>1. CASE c = Full(name, root)
      <4>1. Full(name, root).segs = root \o name
        BY DEF Full, Rooted
      <4> QED BY <1>1, <3>1, <4>1, FullIsClean
    <3>2. CASE c = Unrooted(root \o name)
      <4>1. Unrooted(root \o name).segs = root \o name
        BY DEF Unrooted
      <4> QED BY <1>1, <3>2, <4>1, FullIsClean
    <3> QED BY <3>1, <3>2
  <2>2. IsStrictPrefix(root, c.segs)
    BY <1>1, <2>1, StartsWith DEF Segments
  <2>3. SubSeq(c.segs, Len(root) + 1, Len(c.segs)) = name
    BY <1>1, <2>1, Joined DEF Segments
  <2>4. Trim(Clean(c), root) = Unrooted(name)
    BY <1>2, <2>1, <2>2, <2>3 DEF Trim
  <2> QED BY <2>4 DEF Rel, Unrooted
<1>3. ASSUME ~IsStrictPrefix(root, name) \/ root = <<>>
      PROVE  Rel(Unrooted(name), root) = name
  <2>1. Unrooted(name) \in Paths /\ IsClean(FALSE, name)
    <3>1. UpFirst(name, 0)
      BY <1>1, NamesAreClean
    <3>2. 0 \in 0 .. Len(name)
      BY DEF Segments
    <3> QED BY <3>1, <3>2 DEF Unrooted, Paths, IsClean
  <2>2. Clean(Unrooted(name)) = Unrooted(name)
    BY <2>1, CleanStays DEF Unrooted
  <2>3. Trim(Unrooted(name), root) = Unrooted(name)
    BY <1>3 DEF Trim, Unrooted
  <2> QED BY <2>2, <2>3 DEF Rel, Unrooted
<1> QED BY <1>2, <1>3

\* What rel makes of a path is in front of it nothing or the root.
LEMMA Trimmed ==
    ASSUME NEW root \in Roots, NEW c \in Paths
    PROVE  \/ Trim(c, root) = c
           \/ /\ root # <<>> /\ IsStrictPrefix(root, c.segs)
              /\ \E rest \in Segments :
                    Trim(c, root) = Unrooted(rest) /\ rest # <<>> /\ c.segs = root \o rest
<1>1. root \in Segments /\ c.segs \in Segments
  BY DEF Roots, Paths
<1>2. CASE root # <<>> /\ IsStrictPrefix(root, c.segs)
  <2> DEFINE rest == SubSeq(c.segs, Len(root) + 1, Len(c.segs))
  <2>1. IsPrefix(root, c.segs)
    BY <1>2 DEF IsStrictPrefix
  <2>2. rest \in Segments /\ c.segs = root \o rest
    BY <1>1, <2>1, Rests
  <2> HIDE DEF rest
  <2>3. rest # <<>>
    BY <1>1, <1>2, <2>2, StartsWith DEF Segments
  <2>4. Trim(c, root) = Unrooted(rest)
    BY <1>2 DEF Trim, rest
  <2> QED BY <1>2, <2>2, <2>3, <2>4
<1>3. CASE ~(root # <<>> /\ IsStrictPrefix(root, c.segs))
  BY <1>3 DEF Trim
<1> QED BY <1>2, <1>3

\* What is left below a root that is not empty is a name: a path that goes up has
\* no name in front.
LEMMA Below ==
    ASSUME NEW root \in Roots, root # <<>>, NEW rest \in Segments, rest # <<>>,
           NEW rooted, IsClean(rooted, root \o rest)
    PROVE  ValidName(rest) /\ ValidName(root \o rest)
<1>1. root \in Segments /\ UpFirst(root, 0)
  BY NamesAreClean DEF Roots
<1>2. /\ root \o rest \in Segments /\ Len(root \o rest) = Len(root) + Len(rest)
      /\ Len(root) \in Nat \ {0} /\ Len(rest) \in Nat
      /\ \A i \in 1 .. Len(root) : (root \o rest)[i] = root[i]
      /\ \A i \in Len(root) + 1 .. Len(root) + Len(rest) :
            (root \o rest)[i] = rest[i - Len(root)]
  <2>1. Len(root) \in Nat \ {0} /\ Len(rest) \in Nat
    BY <1>1 DEF Segments
  <2> QED BY <1>1, <2>1, Joined DEF Segments
<1>3. PICK k \in 0 .. Len(root \o rest) : UpFirst(root \o rest, k)
  BY DEF IsClean
<1>4. k = 0
  <2>1. 1 \in 1 .. Len(root) /\ 1 \in 0 + 1 .. Len(root)
    BY <1>2
  <2>2. IsSegment((root \o rest)[1])
    BY <1>1, <1>2, <2>1 DEF UpFirst
  <2>3. k # 0 => 1 \in 1 .. k
    BY <1>2
  <2> QED BY <1>3, <2>2, <2>3 DEF UpFirst, IsSegment
<1>5. UpFirst(rest, 0)
  <2>1. ASSUME NEW i \in 0 + 1 .. Len(rest) PROVE IsSegment(rest[i])
    <3>1. /\ i + Len(root) \in Len(root) + 1 .. Len(root) + Len(rest)
          /\ i + Len(root) \in 0 + 1 .. Len(root) + Len(rest)
          /\ (i + Len(root)) - Len(root) = i
      BY <1>2
    <3> QED BY <1>2, <1>3, <1>4, <3>1 DEF UpFirst
  <2> QED BY <2>1 DEF UpFirst
<1>6. root \o rest # <<>>
  BY <1>2
<1> QED BY <1>2, <1>3, <1>4, <1>5, <1>6, NamesAreClean

\* And a name that rel finds is what the path names: under the root if it is
\* rooted, and relative to it or to / if it is not.  A rooted path is refused if
\* and only if it is not below the root (compile.go:47-50, 119-132).
THEOREM RelIsInside ==
    ASSUME NEW root \in Roots, NEW p \in Paths
    PROVE  LET name == Rel(p, root)
               segs == Clean(p).segs
           IN  /\ name \in Segments
               /\ name # Refused => ValidName(name)
               /\ p.rooted => /\ name # Refused <=> root # <<>> /\ IsStrictPrefix(root, segs)
                              /\ name # Refused => Clean(p) = Full(name, root)
               /\ ~p.rooted => /\ name # Refused => segs \in {name, root \o name}
                               /\ name = Refused <=> ~ValidName(segs)
<1> DEFINE c == Clean(p)
    t == Trim(c, root)
    name == Rel(p, root)
<1>1. c \in Paths /\ c.rooted = p.rooted /\ IsClean(p.rooted, c.segs)
  BY CleanIsClean
<1>2. c.segs \in Segments /\ c.rooted \in BOOLEAN
      /\ c = [rooted |-> c.rooted, segs |-> c.segs]
  BY <1>1 DEF Paths
<1> HIDE DEF c
<1>3. \/ t = c
      \/ /\ root # <<>> /\ IsStrictPrefix(root, c.segs)
         /\ \E rest \in Segments :
               t = Unrooted(rest) /\ rest # <<>> /\ c.segs = root \o rest
  BY <1>1, Trimmed
<1>4. t \in Paths
  <2>1. \A rest \in Segments : Unrooted(rest) \in Paths
    BY DEF Paths, Unrooted
  <2> HIDE DEF t
  <2> QED BY <1>1, <1>3, <2>1
<1>5. name = IF ~t.rooted /\ ValidName(t.segs) THEN t.segs ELSE Refused
  BY DEF Rel, c
<1> HIDE DEF t, name
<1>6. t.segs \in Segments /\ t.rooted \in BOOLEAN /\ Refused \in Segments
  <2>1. <<>> \in Segments
    BY DEF Segments
  <2> QED BY <1>4, <2>1 DEF Paths, Refused
<1>7. name \in Segments /\ (name # Refused => ValidName(name))
  BY <1>5, <1>6
<1>8. ~ValidName(Refused)
  BY DEF ValidName, Refused
<1>9. ASSUME p.rooted
      PROVE  /\ name # Refused <=> root # <<>> /\ IsStrictPrefix(root, c.segs)
             /\ name # Refused => c = Full(name, root)
  <2>1. UpFirst(c.segs, 0)
    BY <1>1, <1>2, <1>9, NamesAreClean DEF IsClean
  <2>2. CASE t = c
    <3>1. name = Refused
      BY <1>1, <1>5, <1>9, <2>2
    <3>2. CASE root # <<>> /\ IsStrictPrefix(root, c.segs)
      <4>1. t = Unrooted(SubSeq(c.segs, Len(root) + 1, Len(c.segs)))
        BY <3>2 DEF t, Trim, c
      <4> QED BY <1>1, <1>9, <2>2, <4>1 DEF Unrooted
    <3> QED BY <3>1, <3>2
  <2>3. ASSUME t # c PROVE /\ root # <<>> /\ IsStrictPrefix(root, c.segs)
                          /\ name # Refused /\ c = Full(name, root)
    <3>1. root # <<>> /\ IsStrictPrefix(root, c.segs)
      BY <1>3, <2>3
    <3>2. PICK rest \in Segments :
              t = Unrooted(rest) /\ rest # <<>> /\ c.segs = root \o rest
      BY <1>3, <2>3
    <3>3. ValidName(rest)
      BY <1>1, <1>2, <3>1, <3>2, Below
    <3>4. name = rest
      BY <1>5, <3>2, <3>3 DEF Unrooted
    <3>5. c = Full(rest, root)
      BY <1>1, <1>2, <1>9, <3>2 DEF Full, Rooted
    <3> QED BY <1>8, <3>1, <3>3, <3>4, <3>5
  <2> QED BY <2>2, <2>3
<1>10. ASSUME ~p.rooted
       PROVE  /\ name # Refused => c.segs \in {name, root \o name}
              /\ name = Refused <=> ~ValidName(c.segs)
  <2>1. CASE t = c
    BY <1>1, <1>5, <1>8, <1>10, <2>1
  <2>2. ASSUME t # c PROVE name # Refused /\ c.segs = root \o name /\ ValidName(c.segs)
    <3>1. PICK rest \in Segments :
              t = Unrooted(rest) /\ rest # <<>> /\ c.segs = root \o rest
      BY <1>3, <2>2
    <3>2. ValidName(rest) /\ ValidName(root \o rest)
      BY <1>1, <1>2, <1>3, <1>10, <2>2, <3>1, Below
    <3>3. name = rest
      BY <1>5, <3>1, <3>2 DEF Unrooted
    <3> QED BY <1>8, <3>1, <3>2, <3>3
  <2> QED BY <2>1, <2>2
<1> QED BY <1>7, <1>9, <1>10 DEF c, name
=============================================================================
