----------------------------- MODULE TreeProofs -----------------------------
(* Whatever a host lists, answers and changes, nothing outside the project   *)
(* is asked of it, and what a guest is told of a name is what the name is:   *)
(* for all hosts, names, page sizes and numbers of changes.                  *)
EXTENDS Tree, TLAPS, SequenceTheorems, FiniteSetTheorems

Ops  == {"open", "stat", "page"}
Segs == DOMAIN Rank \cup {""}
Safe(segs) == \A i \in DOMAIN segs : segs[i] \notin {".", ".."}

\* Every name the tree works on stays in the project.
Inside ==
    /\ at # "idle" => call.op \in Ops
    /\ at \in {"top", "list"} => subject = call.name /\ call.op = "page"
    /\ call.name \in Seq(Segs) /\ Safe(call.name)
    /\ dir.name \in Seq(Segs) /\ Safe(dir.name)
    /\ Safe(subject)
    /\ \A s \in todo : s \notin {".", ".."}
    /\ ~under.rooted /\ Safe(under.segs)
    /\ ~asked.rooted /\ Safe(asked.segs)
    /\ DOMAIN over \subseteq {Config} /\ \A n \in DOMAIN over : over[n] = Synthetic

LEMMA ValidIsSafe ==
    ASSUME NEW p, ValidPath(p) PROVE ~p.rooted /\ Safe(p.segs)
  <1>1. ~p.rooted /\ (p.segs = <<>> \/ ValidName(p.segs))
    BY DEF ValidPath
  <1>2. Safe(<<>>)
    BY DEF Safe
  <1> QED BY <1>1, <1>2 DEF ValidName, Safe

LEMMA Wider == \A s \in Seq(DOMAIN Rank) : s \in Seq(Segs)
  <1>1. DOMAIN Rank \subseteq Segs
    BY DEF Segs
  <1> HIDE DEF Segs
  <1> DEFINE R == DOMAIN Rank
  <1> HIDE DEF R
  <1>2. \A s \in Seq(R) : R \subseteq Segs => s \in Seq(Segs)
    OBVIOUS
  <1> QED BY <1>1, <1>2 DEF R

LEMMA ConfigIsSafe == Config \in Seq(Segs) /\ Safe(Config)
  <1>1. Config \in Seq(Segs)
    BY ConfigAssumption, Wider
  <1> QED BY <1>1, ConfigAssumption DEF ValidName, Safe

\* The segment below a name, of one that has the name as a strict prefix.
LEMMA BelowIsASegment ==
    ASSUME NEW S, NEW s \in Seq(S), NEW t \in Seq(S), IsStrictPrefix(s, t)
    PROVE  Len(s) + 1 \in DOMAIN t
  <1>1. Len(s) <= Len(t) /\ SubSeq(s, 1, Len(s)) = SubSeq(t, 1, Len(s)) /\ s # t
    BY DEF IsStrictPrefix, IsPrefix
  <1>2. SubSeq(s, 1, Len(s)) = s /\ SubSeq(t, 1, Len(t)) = t
    OBVIOUS
  <1>3. Len(s) # Len(t)
    BY <1>1, <1>2
  <1> QED BY <1>1, <1>3

LEMMA BelowIsSafe ==
    ASSUME Inside, NEW name \in Seq(Segs), NEW s \in Below(DOMAIN over, name)
    PROVE  s \notin {".", ".."}
  <1>1. IsStrictPrefix(name, Config) /\ s = Config[Len(name) + 1]
    BY DEF Below, Inside
  <1>2. Len(name) + 1 \in DOMAIN Config
    BY <1>1, ConfigIsSafe, BelowIsASegment
  <1> QED BY <1>1, <1>2, ConfigIsSafe DEF Safe

LEMMA BareIsSafe ==
    ASSUME NEW entries, NEW s \in Bare(entries) PROVE s \notin {".", ".."}
  <1>1. PICK e \in entries : Len(e) = 1 /\ e[1] \notin {".", ".."} /\ s = Last(e)
    BY DEF Bare
  <1> QED BY <1>1 DEF Last

LEMMA AppendIsSafe ==
    ASSUME NEW segs \in Seq(Segs), Safe(segs), NEW s, s \notin {".", ".."}
    PROVE  Safe(Append(segs, s))
  <1> DEFINE S == Segs \cup {s}
  <1>1. segs \in Seq(S) /\ s \in S
    OBVIOUS
  <1>2. /\ DOMAIN Append(segs, s) = 1 .. Len(segs) + 1
        /\ \A i \in 1 .. Len(segs) : Append(segs, s)[i] = segs[i]
        /\ Append(segs, s)[Len(segs) + 1] = s
    BY <1>1, AppendProperties
  <1>3. DOMAIN segs = 1 .. Len(segs) /\ Len(segs) \in Nat
    OBVIOUS
  <1> QED BY <1>2, <1>3 DEF Safe

LEMMA AdvanceInside ==
    ASSUME Inside, NEW left, Advance(left), \A s \in left : s \notin {".", ".."},
           UNCHANGED <<call>>
    PROVE  /\ at' \in {"slice", "dir"}
           /\ Safe(subject') /\ \A s \in todo' : s \notin {".", ".."}
  <1>1. CASE left = {}
    BY <1>1 DEF Advance, Inside
  <1>2. CASE left # {}
    <2>1. PICK s \in left : /\ todo' = left \ {s}
                            /\ subject' = Append(call.name, s)
                            /\ at' = "dir"
      BY <1>2 DEF Advance
    <2> QED BY <2>1, AppendIsSafe DEF Inside
  <1> QED BY <1>1, <1>2

LEMMA SettleInside ==
    ASSUME Inside, NEW is, Settle(is), at \notin {"idle"},
           UNCHANGED <<now>>, ~asked'.rooted, Safe(asked'.segs)
    PROVE  Inside'
  <1>1. DOMAIN over' \subseteq {Config} /\ \A n \in DOMAIN over' : over'[n] = Synthetic
    BY DEF Inside, now
  <1>2. CASE call.op = "page"
    <2>1. Advance(todo) /\ UNCHANGED <<call, under, dir>>
      BY <1>2 DEF Settle
    <2>2. /\ at' \in {"slice", "dir"}
          /\ Safe(subject') /\ \A s \in todo' : s \notin {".", ".."}
      BY <2>1, AdvanceInside DEF Inside
    <2> QED BY <1>1, <1>2, <2>1, <2>2 DEF Inside, Ops
  <1>3. CASE call.op # "page"
    <2>1. Finish /\ Opens(is)
      BY <1>3 DEF Settle
    <2>2. dir'.name \in Seq(Segs) /\ Safe(dir'.name)
      BY <2>1 DEF Opens, Inside
    <2>3. call'.name \in Seq(Segs) /\ Safe(call'.name) /\ at' = "idle"
      BY <2>1 DEF Finish, Idle, Safe
    <2> QED BY <1>1, <2>1, <2>2, <2>3 DEF Finish, Inside
  <1> QED BY <1>2, <1>3

LEMMA GoInside ==
    ASSUME Inside, NEW next, Go(next), at # "idle", next \notin {"top", "list"},
           UNCHANGED <<now>>, ~asked'.rooted, Safe(asked'.segs),
           ~under'.rooted, Safe(under'.segs)
    PROVE  Inside'
  BY DEF Inside, Go, now

LEMMA ReadFailsInside ==
    ASSUME Inside, ReadFails, at # "idle",
           UNCHANGED <<now>>, ~asked'.rooted, Safe(asked'.segs)
    PROVE  Inside'
  <1>1. CASE call.op = "open"
    BY <1>1, GoInside DEF ReadFails, Inside
  <1>2. CASE call.op = "stat"
    BY <1>2, SettleInside DEF ReadFails
  <1>3. CASE call.op = "page"
    BY <1>3, SettleInside DEF ReadFails
  <1> QED BY <1>1, <1>2, <1>3 DEF Inside, Ops

LEMMA OneSegment ==
    ASSUME NEW S, NEW e \in S, e \notin {".", ".."}
    PROVE  <<e>> \in Seq(S) /\ Safe(<<e>>)
  <1>1. \A i \in DOMAIN <<e>> : <<e>>[i] = e
    OBVIOUS
  <1> QED BY <1>1 DEF Safe

LEMMA InitInside == Init => Inside
  <1> SUFFICES ASSUME Init PROVE Inside
    OBVIOUS
  <1>1. DOMAIN over \subseteq {Config} /\ \A n \in DOMAIN over : over[n] = Synthetic
    BY DEF Init, Over
  <1>2. dir.name \in Seq(Segs) /\ Safe(dir.name)
    <2>1. dir.name = <<"">>
      BY DEF Init, NoDir
    <2>2. "" \in Segs
      BY DEF Segs
    <2>3. "" \notin {".", ".."}
      OBVIOUS
    <2>4. <<"">> \in Seq(Segs) /\ Safe(<<"">>)
      BY <2>2, <2>3, OneSegment
    <2> QED BY <2>1, <2>4
  <1>3. call.name = <<>> /\ subject = <<>> /\ under = Empty /\ asked = Empty
        /\ at = "idle" /\ todo = {}
    BY DEF Init, Idle
  <1> QED BY <1>1, <1>2, <1>3 DEF Inside, Safe, Empty, Unrooted

LEMMA BeginInside ==
    ASSUME Inside, NEW op \in Ops, NEW name \in Seq(Segs), Safe(name), NEW size,
           NEW first, Begin(op, name, size, first), first = "top" => op = "page", first # "list"
    PROVE  Inside'
  <1>1. call'.op = op /\ call'.name = name /\ subject' = name /\ todo' = {}
        /\ at' = first
    BY DEF Begin
  <1>2. UNCHANGED <<over, under, dir, asked>>
    BY DEF Begin, now
  <1>3. at' # "list"
    BY <1>1
  <1> QED BY <1>1, <1>2, <1>3 DEF Inside

LEMMA RefuseInside ==
    ASSUME Inside, NEW name, Refuse(name) PROVE Inside'
  BY DEF Refuse, Inside, now, work

LEMMA StepInside == Inside /\ [Next]_vars => Inside'
  <1> SUFFICES ASSUME Inside, [Next]_vars PROVE Inside'
    OBVIOUS
  <1>a. ~asked.rooted /\ Safe(asked.segs)
    BY DEF Inside
  <1>1. CASE HostChanges
    BY <1>1 DEF HostChanges, Inside, work
  <1>2. ASSUME NEW name \in Asked, Open(name) \/ Stat(name) PROVE Inside'
    <2>1. CASE ValidPath(Unrooted(name))
      <3>1. name \in Seq(Segs)
        BY AskedAssumption, Wider
      <3>2. Safe(name)
        BY <2>1, ValidIsSafe DEF Unrooted
      <3> QED BY <1>2, <2>1, <3>1, <3>2, BeginInside DEF Open, Stat, Ops
    <2>2. CASE ~ValidPath(Unrooted(name))
      BY <1>2, <2>2, RefuseInside DEF Open, Stat
    <2> QED BY <2>1, <2>2
  <1>3. ASSUME NEW size \in Sizes, Page(size) PROVE Inside'
    <2>1. dir.name \in Seq(Segs) /\ Safe(dir.name)
      BY DEF Inside
    <2> QED BY <1>3, <2>1, BeginInside DEF Page, Ops
  <1>4. CASE ReadOver
    BY <1>4, <1>a, SettleInside DEF ReadOver, now
  <1>5. CASE AskReal
    <2>1. asked' = Unrooted(subject) /\ Safe(subject) /\ at # "idle" /\ UNCHANGED now
      BY <1>5 DEF AskReal, Inside
    <2>2. ~asked'.rooted /\ Safe(asked'.segs)
      BY <2>1 DEF Unrooted
    <2> DEFINE real == Realpath(host, subject)
    <2>3. CASE Leaves(real)
      BY <1>5, <2>1, <2>2, <2>3, ReadFailsInside DEF AskReal
    <2>4. CASE ~Leaves(real)
      <3>1. under' = (IF real.ok THEN real.path ELSE Unrooted(subject)) /\ Go("exists")
        BY <1>5, <2>4 DEF AskReal
      <3>2. real.ok => ValidPath(real.path)
        BY <2>4 DEF Leaves
      <3>3. ~under'.rooted /\ Safe(under'.segs)
        BY <2>1, <2>2, <3>1, <3>2, ValidIsSafe
      <3> QED BY <2>1, <2>2, <3>1, <3>3, GoInside
    <2> QED BY <2>3, <2>4
  <1>6. CASE Exists
    <2>1. ~asked'.rooted /\ Safe(asked'.segs) /\ ~under.rooted /\ Safe(under.segs)
      BY <1>6 DEF Exists, Inside
    <2> QED BY <1>6, <2>1, ReadFailsInside, GoInside DEF Exists
  <1>7. CASE Bytes
    <2>1. ~asked'.rooted /\ Safe(asked'.segs)
      BY <1>7 DEF Bytes, Inside
    <2>2. ReadFails \/ \E is : Settle(is)
      BY <1>7 DEF Bytes
    <2> QED BY <1>7, <2>1, <2>2, ReadFailsInside, SettleInside DEF Bytes
  <1>8. CASE AskIsDir
    <2>1. ~asked'.rooted /\ Safe(asked'.segs) /\ ~under.rooted /\ Safe(under.segs)
      BY <1>8 DEF AskIsDir, AskDir, Inside, Unrooted
    <2>2. (\E is : Settle(is)) \/ (Go("read") /\ UNCHANGED under)
      BY <1>8 DEF AskIsDir
    <2> QED BY <1>8, <2>1, <2>2, GoInside, SettleInside DEF AskIsDir
  <1>9. CASE Top
    <2>1. ~asked'.rooted /\ Safe(asked'.segs)
      BY <1>9 DEF Top, AskDir, Inside, Unrooted
    <2>2. CASE IsDir(host, subject)
      <3>1. Go("list") /\ UNCHANGED <<under, now>> /\ subject = call.name
            /\ call.op = "page"
        BY <1>9, <2>2 DEF Top, Inside
      <3> QED BY <2>1, <3>1 DEF Go, Inside, now, Ops
    <2>3. CASE ~IsDir(host, subject)
      <3>1. Finish /\ UNCHANGED <<dir, now>>
        BY <1>9, <2>3 DEF Top
      <3>2. call'.name = <<>> /\ at' = "idle"
        BY <3>1 DEF Finish, Idle
      <3> QED BY <2>1, <3>1, <3>2 DEF Finish, Inside, now, Safe
    <2> QED BY <2>2, <2>3
  <1>10. CASE List
    <2>1. ~asked'.rooted /\ Safe(asked'.segs)
      BY <1>10 DEF List, Inside, Unrooted
    <2> DEFINE left == Listing(host, subject)
    <2>2. subject \in Seq(Segs)
      BY <1>10 DEF List, Inside
    <2>3. \A s \in left : s \notin {".", ".."}
      BY <2>2, BareIsSafe, BelowIsSafe DEF Listing
    <2>4. Advance(left) /\ UNCHANGED <<now, call, under, dir>> /\ call.op \in Ops
      BY <1>10 DEF List, Inside
    <2> HIDE DEF left
    <2>5. /\ at' \in {"slice", "dir"}
          /\ Safe(subject') /\ \A s \in todo' : s \notin {".", ".."}
      BY <2>3, <2>4, AdvanceInside
    <2> QED BY <2>1, <2>4, <2>5 DEF Inside, now
  <1>11. CASE Slice
    <2>1. dir'.name = dir.name /\ Finish /\ UNCHANGED <<now, asked>>
      BY <1>11 DEF Slice
    <2>2. call'.name = <<>> /\ at' = "idle"
      BY <2>1 DEF Finish, Idle
    <2> QED BY <2>1, <2>2 DEF Finish, Inside, now, Safe
  <1>12. CASE UNCHANGED vars
    BY <1>12 DEF vars, now, work, Inside
  <1> QED BY <1>1, <1>2, <1>3, <1>4, <1>5, <1>6, <1>7, <1>8, <1>9, <1>10, <1>11,
      <1>12 DEF Next

\* No name that leaves the project is asked of Files (files.go:121-131, 160-166).
THEOREM NothingLeavesTheProject == Spec => []NothingLeaves
  <1>1. Inside => NothingLeaves
    BY DEF Inside, NothingLeaves, Safe
  <1> QED BY InitInside, StepInside, <1>1, PTL DEF Spec

-----------------------------------------------------------------------------
(* What was learnt of the subject so far, if the host does not change its    *)
(* mind about it: under which name it is read, that it is no directory when  *)
(* Stat or a listing go on to read it, and no file when Open goes on to ask  *)
(* whether it is a directory.                                                *)

Reads(h, path) ==
    LET real == Realpath(h, subject)
    IN ~Leaves(real) /\ path = IF real.ok THEN real.path ELSE Unrooted(subject)
NoFile(h) == \A v \in Is(h, subject) : v = IsADir
NoDirectory(h) == IsADir \notin Is(h, subject)

Learnt ==
    /\ at \in {"exists", "bytes"} => subject \notin DOMAIN over
    /\ Settled(subject) =>
         /\ at \in {"exists", "bytes"} => \A h \in seen : Reads(h, under)
         /\ at \in {"read", "exists", "bytes"} /\ call.op # "open" =>
               \A h \in seen : NoDirectory(h)
         /\ at = "dir" /\ call.op = "open" => \A h \in seen : NoFile(h)

Known ==
    /\ Inside
    /\ seen # {} /\ (at # "idle" => host \in seen)
    /\ Learnt
    /\ SaysWhatIsThere

LEMMA SameIs ==
    ASSUME UNCHANGED over PROVE \A h, name : Is(h, name)' = Is(h, name)
  BY DEF Is, Holds, IsDir, IsADir, File

LEMMA SameSettled ==
    ASSUME UNCHANGED <<over, seen>> PROVE \A name : Settled(name)' = Settled(name)
  BY SameIs DEF Settled

LEMMA SameRight ==
    ASSUME UNCHANGED over PROVE \A h, s : Right(h, s)' = Right(h, s)
  BY SameIs DEF Right, NotThere, NotADir, Invalid, IsADir, File

\* Of a name that stays settled as hosts are added, they all say the same.
LEMMA SettledGrows ==
    ASSUME seen # {}, UNCHANGED over, NEW g, seen' = seen \cup {g} \/ UNCHANGED seen,
           NEW name, Settled(name)'
    PROVE  /\ Settled(name)
           /\ \A h \in seen' : \E k \in seen :
                 Is(h, name) = Is(k, name) /\ Realpath(h, name) = Realpath(k, name)
  <1>1. \A h, k \in seen' : Is(h, name) = Is(k, name) /\ Realpath(h, name) = Realpath(k, name)
    BY SameIs DEF Settled
  <1> QED BY <1>1 DEF Settled

LEMMA ChangeKnown == Known /\ HostChanges => Known'
  <1> SUFFICES ASSUME Known, HostChanges PROVE Known'
    OBVIOUS
  <1>1. Inside'
    BY StepInside DEF Known, Next
  <1>2. seen' # {} /\ (at' # "idle" => host' \in seen')
    BY DEF Known, HostChanges, work, Inside, Ops, Idle
  <1>3. /\ UNCHANGED over /\ (seen' = seen \cup {host'} \/ UNCHANGED seen) /\ seen # {}
        /\ UNCHANGED <<subject, under, call, at, said>>
    BY DEF Known, HostChanges, work
  <1>4. Learnt'
    <2>1. at' \in {"exists", "bytes"} => subject' \notin DOMAIN over'
      BY <1>3 DEF Known, Learnt
    <2>2. SUFFICES ASSUME Settled(subject)' PROVE
         /\ at \in {"exists", "bytes"} => \A h \in seen' : Reads(h, under)
         /\ at \in {"read", "exists", "bytes"} /\ call.op # "open" =>
               \A h \in seen' : NoDirectory(h)
         /\ at = "dir" /\ call.op = "open" => \A h \in seen' : NoFile(h)
      BY <1>3, <2>1, SameIs DEF Learnt, Reads, NoDirectory, NoFile
    <2>3. /\ Settled(subject)
          /\ \A h \in seen' : \E k \in seen :
                 Is(h, subject) = Is(k, subject) /\ Realpath(h, subject) = Realpath(k, subject)
      BY <1>3, <2>2, SettledGrows
    <2> QED BY <2>3 DEF Known, Learnt, Reads, NoDirectory, NoFile
  <1>5. SaysWhatIsThere'
    <2> SUFFICES ASSUME said # Unsaid, Settled(said.name)'
                 PROVE  \A h \in seen' : Right(h, said)
      BY <1>3, SameRight DEF SaysWhatIsThere, Unsaid, Told, Invalid
    <2>1. /\ Settled(said.name)
          /\ \A h \in seen' : \E k \in seen : Is(h, said.name) = Is(k, said.name)
      BY <1>3, SettledGrows
    <2> QED BY <2>1 DEF Known, SaysWhatIsThere, Right
  <1> QED BY <1>1, <1>2, <1>4, <1>5 DEF Known

\* A step within a call that says nothing keeps what was said.
LEMMA QuietKnown ==
    ASSUME Known, Inside', UNCHANGED <<now, seen, said>>,
           at' # "idle" => host \in seen, Learnt'
    PROVE  Known'
  <1>1. UNCHANGED <<over, host>>
    BY DEF now
  <1>2. SaysWhatIsThere'
    <2> SUFFICES ASSUME said # Unsaid, Settled(said.name)'
                 PROVE  \A h \in seen : Right(h, said)
      BY <1>1, SameRight DEF SaysWhatIsThere, Unsaid, Told, Invalid
    <2> QED BY <1>1, SameSettled DEF Known, SaysWhatIsThere
  <1> QED BY <1>1, <1>2 DEF Known

LEMMA GoKnown ==
    ASSUME Known, NEW next, Go(next), Inside', UNCHANGED <<now, seen>>, at # "idle",
           next \in {"exists", "bytes"} => subject \notin DOMAIN over,
           Settled(subject) =>
             /\ next \in {"exists", "bytes"} => \A h \in seen : Reads(h, under')
             /\ next \in {"read", "exists", "bytes"} /\ call.op # "open" =>
                   \A h \in seen : NoDirectory(h)
             /\ next = "dir" /\ call.op = "open" => \A h \in seen : NoFile(h)
    PROVE  Known'
  <1>1. UNCHANGED <<over, host, subject, call, said>> /\ at' = next
    BY DEF now, Go
  <1>2. Learnt'
    BY <1>1, SameSettled, SameIs DEF Learnt, Reads, NoDirectory, NoFile
  <1> QED BY <1>1, <1>2, QuietKnown DEF Known

\* An answer that is right once the name is settled is right to give.
LEMMA SettleKnown ==
    ASSUME Known, NEW is, Settle(is), Inside', UNCHANGED <<now, seen>>, at # "idle",
           Settled(subject) =>
             \A h \in seen : Right(h, Told(subject, is, call.op = "page"))
    PROVE  Known'
  <1>1. UNCHANGED <<over, host, seen>> /\ said' = Told(subject, is, call.op = "page")
    BY DEF now, Settle
  <1>2. SaysWhatIsThere'
    <2>1. said'.name = subject
      BY <1>1 DEF Told
    <2> SUFFICES ASSUME Settled(said.name)' PROVE \A h \in seen : Right(h, said)'
      BY <1>1 DEF SaysWhatIsThere
    <2>2. Settled(subject)
      BY <1>1, <2>1, SameSettled
    <2> QED BY <1>1, <2>2, SameRight
  <1>3. at' \in {"idle", "slice"} \/ (at' = "dir" /\ call'.op = "page")
    <2>1. CASE call.op = "page"
      BY <2>1 DEF Settle, Advance
    <2>2. CASE call.op # "page"
      BY <2>2 DEF Settle, Finish
    <2> QED BY <2>1, <2>2
  <1>4. Learnt'
    BY <1>3 DEF Learnt
  <1> QED BY <1>1, <1>2, <1>4 DEF Known

LEMMA NothingThere ==
    ASSUME NEW h, NoFile(h), NoDirectory(h) PROVE Is(h, subject) = {}
  BY DEF NoFile, NoDirectory

\* The name under which a settled subject is read is the one it has.
LEMMA HoldsWhatIsRead ==
    ASSUME Known, at \in {"exists", "bytes"}, Settled(subject)
    PROVE  Holds(host, subject) = ReadFile(host, under.segs)
  <1>1. Reads(host, under) /\ subject \notin DOMAIN over
    BY DEF Known, Learnt
  <1> QED BY <1>1 DEF Reads, Holds, Leaves, Unrooted

\* Reading fails of what holds no file.
LEMMA ReadFailsKnown ==
    ASSUME Known, ReadFails, Inside', UNCHANGED <<now, seen>>,
           at \in {"read", "exists", "bytes"},
           Settled(subject) => \A h \in seen : NoFile(h)
    PROVE  Known'
  <1>1. call.op \in Ops
    BY DEF Known, Inside
  <1>2. CASE call.op = "open"
    BY <1>2, GoKnown DEF ReadFails
  <1>3. CASE call.op # "open"
    <2>1. Settled(subject) => \A h \in seen : Is(h, subject) = {}
      BY <1>3, NothingThere DEF Known, Learnt
    <2>2. CASE call.op = "stat"
      <3>1. Settled(subject) =>
              \A h \in seen : Right(h, Told(subject, NotThere, call.op = "page"))
        BY <2>1 DEF Right, Told
      <3> QED BY <2>2, <3>1, SettleKnown DEF ReadFails
    <2>3. CASE call.op = "page"
      <3>1. Settled(subject) =>
              \A h \in seen : Right(h, Told(subject, File(NoBytes), call.op = "page"))
        BY <2>1, <2>3 DEF Right, Told
      <3> QED BY <2>3, <3>1, SettleKnown DEF ReadFails
    <2> QED BY <1>1, <1>3, <2>2, <2>3 DEF Ops
  <1> QED BY <1>2, <1>3

LEMMA InitKnown == Init => Known
  <1> SUFFICES ASSUME Init PROVE Known
    OBVIOUS
  <1> QED BY InitInside DEF Init, Known, Learnt, SaysWhatIsThere

LEMMA BeginKnown ==
    ASSUME Known, Inside', NEW op \in Ops, NEW name, NEW size,
           NEW first, Begin(op, name, size, first),
           first = "top" \/ (first = "read" /\ op = "open") \/ (first = "dir" /\ op = "stat")
    PROVE  Known'
  <1>1. /\ seen' = {host} /\ host' = host /\ said' = Unsaid
        /\ at' = first /\ call'.op = op
    BY DEF Begin, now
  <1>2. SaysWhatIsThere'
    BY <1>1 DEF SaysWhatIsThere, Unsaid, Told, Invalid
  <1>3. Learnt'
    BY <1>1 DEF Learnt
  <1> QED BY <1>1, <1>2, <1>3 DEF Known

LEMMA RefuseKnown ==
    ASSUME Known, Inside', NEW name, Refuse(name), ~ValidPath(Unrooted(name))
    PROVE  Known'
  <1>1. /\ seen' = {host} /\ host' = host /\ said' = Told(name, Invalid, FALSE)
        /\ at' = at /\ (at = "idle" \/ call.op \in Ops)
    BY DEF Refuse, now, work, Known, Inside
  <1>2. SaysWhatIsThere'
    BY <1>1 DEF SaysWhatIsThere, Right, Told, Invalid
  <1>3. at = "idle"
    BY <1>1 DEF Refuse, Idle, Ops
  <1>4. Learnt'
    BY <1>1, <1>3 DEF Learnt
  <1> QED BY <1>1, <1>2, <1>3, <1>4 DEF Known

LEMMA StepKnown == Known /\ [Next]_vars => Known'
  <1> SUFFICES ASSUME Known, [Next]_vars PROVE Known'
    OBVIOUS
  <1>i. Inside' /\ Inside
    BY StepInside DEF Known
  <1>1. CASE HostChanges
    BY <1>1, ChangeKnown
  <1>2. ASSUME NEW name \in Asked, Open(name) \/ Stat(name) PROVE Known'
    <2>1. CASE ValidPath(Unrooted(name))
      BY <1>2, <2>1, <1>i, BeginKnown DEF Open, Stat, Ops
    <2>2. CASE ~ValidPath(Unrooted(name))
      BY <1>2, <2>2, <1>i, RefuseKnown DEF Open, Stat
    <2> QED BY <2>1, <2>2
  <1>3. ASSUME NEW size \in Sizes, Page(size) PROVE Known'
    BY <1>3, <1>i, BeginKnown DEF Page, Ops
  <1>4. CASE ReadOver
    <2>1. /\ Settle(File(over[subject])) /\ UNCHANGED <<now, seen>> /\ at # "idle"
          /\ subject \in DOMAIN over
      BY <1>4 DEF ReadOver, Shadowed
    <2>2. over[subject] # Unreadable
      BY <2>1, SyntheticAssumption DEF Known, Inside
    <2>3. \A h : File(over[subject]) \in Is(h, subject)
      BY <2>1, <2>2 DEF Is, Holds
    <2>4. \A h : Right(h, Told(subject, File(over[subject]), call.op = "page"))
      BY <2>3 DEF Right, Told
    <2> QED BY <1>i, <2>1, <2>4, SettleKnown
  <1>5. CASE AskReal
    <2> DEFINE real == Realpath(host, subject)
    <2>1. /\ at = "read" /\ subject \notin DOMAIN over /\ UNCHANGED <<now, seen>>
          /\ host \in seen
      BY <1>5 DEF AskReal, Shadowed, Known
    <2>2. CASE Leaves(real)
      <3>1. ReadFails
        BY <1>5, <2>2 DEF AskReal
      <3>2. Holds(host, subject) = Unreadable
        BY <2>1, <2>2 DEF Holds, Leaves
      <3>3. NoFile(host)
        BY <3>2 DEF NoFile, Is
      <3>4. Settled(subject) => \A h \in seen : NoFile(h)
        BY <2>1, <3>3 DEF Settled, NoFile
      <3> QED BY <1>i, <2>1, <3>1, <3>4, ReadFailsKnown
    <2>3. CASE ~Leaves(real)
      <3>1. /\ under' = (IF real.ok THEN real.path ELSE Unrooted(subject))
            /\ Go("exists")
        BY <1>5, <2>3 DEF AskReal
      <3>2. Reads(host, under')
        BY <2>3, <3>1 DEF Reads
      <3>3. Settled(subject) => \A h \in seen : Reads(h, under')
        BY <2>1, <3>2 DEF Settled, Reads
      <3> QED BY <1>i, <2>1, <3>1, <3>3, GoKnown DEF Known, Learnt
    <2> QED BY <2>2, <2>3
  <1>6. CASE Exists
    <2>1. at = "exists" /\ UNCHANGED <<now, seen>> /\ host \in seen
      BY <1>6 DEF Exists, Known
    <2>2. CASE FileExists(host, under.segs)
      BY <1>6, <1>i, <2>1, <2>2, GoKnown DEF Exists, Known, Learnt
    <2>3. CASE ~FileExists(host, under.segs)
      <3>1. ReadFails /\ ReadFile(host, under.segs) = Unreadable
        BY <1>6, <2>3 DEF Exists, ReadFile
      <3>2. Settled(subject) => \A h \in seen : NoFile(h)
        BY <2>1, <3>1, HoldsWhatIsRead DEF Settled, NoFile, Is
      <3> QED BY <1>i, <2>1, <3>1, <3>2, ReadFailsKnown
    <2> QED BY <2>2, <2>3
  <1>7. CASE Bytes
    <2> DEFINE bytes == ReadFile(host, under.segs)
    <2>1. at = "bytes" /\ UNCHANGED <<now, seen>> /\ host \in seen
      BY <1>7 DEF Bytes, Known
    <2>2. Settled(subject) => Holds(host, subject) = bytes
      BY <2>1, HoldsWhatIsRead
    <2>3. CASE bytes = Unreadable
      <3>1. ReadFails
        BY <1>7, <2>3 DEF Bytes
      <3>2. Settled(subject) => \A h \in seen : NoFile(h)
        BY <2>1, <2>2, <2>3 DEF Settled, NoFile, Is
      <3> QED BY <1>i, <2>1, <3>1, <3>2, ReadFailsKnown
    <2>4. CASE bytes # Unreadable
      <3>1. Settle(File(bytes))
        BY <1>7, <2>4 DEF Bytes
      <3>2. Settled(subject) => \A h \in seen : File(bytes) \in Is(h, subject)
        BY <2>1, <2>2, <2>4 DEF Settled, Is
      <3>3. Settled(subject) =>
              \A h \in seen : Right(h, Told(subject, File(bytes), call.op = "page"))
        BY <3>2 DEF Right, Told
      <3> QED BY <1>i, <2>1, <3>1, <3>3, SettleKnown
    <2> QED BY <2>3, <2>4
  <1>8. CASE AskIsDir
    <2>1. at = "dir" /\ UNCHANGED <<now, seen>> /\ host \in seen
      BY <1>8 DEF AskIsDir, Known
    <2>2. CASE IsDir(host, subject)
      <3>1. Settle(IsADir)
        BY <1>8, <2>2 DEF AskIsDir
      <3>2. IsADir \in Is(host, subject)
        BY <2>2 DEF Is
      <3>3. Settled(subject) =>
              \A h \in seen : Right(h, Told(subject, IsADir, call.op = "page"))
        BY <2>1, <3>2 DEF Settled, Right, Told
      <3> QED BY <1>i, <2>1, <3>1, <3>3, SettleKnown
    <2>3. CASE ~IsDir(host, subject)
      <3>1. NoDirectory(host)
        BY <2>3 DEF NoDirectory, Is, IsADir, File
      <3>2. Settled(subject) => \A h \in seen : NoDirectory(h)
        BY <2>1, <3>1 DEF Settled, NoDirectory
      <3>3. CASE call.op = "open"
        <4>1. Settle(NotThere)
          BY <1>8, <2>3, <3>3 DEF AskIsDir
        <4>2. Settled(subject) => \A h \in seen : Is(h, subject) = {}
          BY <2>1, <3>2, <3>3, NothingThere DEF Known, Learnt
        <4>3. Settled(subject) =>
                \A h \in seen : Right(h, Told(subject, NotThere, call.op = "page"))
          BY <4>2 DEF Right, Told
        <4> QED BY <1>i, <2>1, <4>1, <4>3, SettleKnown
      <3>4. CASE call.op # "open"
        <4>1. Go("read") /\ UNCHANGED under
          BY <1>8, <2>3, <3>4 DEF AskIsDir
        <4> QED BY <1>i, <2>1, <3>2, <3>4, <4>1, GoKnown
      <3> QED BY <3>3, <3>4
    <2> QED BY <2>2, <2>3
  <1>9. CASE Top
    <2>1. at = "top" /\ UNCHANGED <<now, seen>> /\ host \in seen
      BY <1>9 DEF Top, Known
    <2>2. CASE IsDir(host, subject)
      BY <1>9, <1>i, <2>1, <2>2, GoKnown DEF Top
    <2>3. CASE ~IsDir(host, subject)
      <3>1. said' = Told(subject, NotADir, FALSE) /\ Finish /\ UNCHANGED <<over, host>>
        BY <1>9, <2>1, <2>3 DEF Top, now
      <3>2. NoDirectory(host)
        BY <2>3 DEF NoDirectory, Is, IsADir, File
      <3>3. Settled(subject) => \A h \in seen : Right(h, Told(subject, NotADir, FALSE))
        BY <2>1, <3>2 DEF Settled, NoDirectory, Right, Told
      <3>4. SaysWhatIsThere'
        <4>1. said'.name = subject
          BY <3>1 DEF Told
        <4> SUFFICES ASSUME Settled(said.name)' PROVE \A h \in seen : Right(h, said)'
          BY <2>1 DEF SaysWhatIsThere
        <4>2. Settled(subject)
          BY <2>1, <3>1, <4>1, SameSettled
        <4> QED BY <3>1, <3>3, <4>2, SameRight
      <3>5. Learnt'
        BY <3>1 DEF Finish, Learnt
      <3> QED BY <1>i, <2>1, <3>1, <3>4, <3>5 DEF Known, Finish
    <2> QED BY <2>2, <2>3
  <1>10. CASE List
    <2>1. call.op = "page" /\ at' \in {"slice", "dir"} /\ UNCHANGED <<now, seen, said, call>>
          /\ host \in seen
      BY <1>10 DEF List, Advance, Known, Inside
    <2>2. Learnt'
      BY <2>1 DEF Learnt
    <2> QED BY <1>i, <2>1, <2>2, QuietKnown
  <1>11. CASE Slice
    <2>1. at' = "idle" /\ UNCHANGED <<now, seen, said>>
      BY <1>11 DEF Slice, Finish
    <2>2. Learnt'
      BY <2>1 DEF Learnt
    <2> QED BY <1>i, <2>1, <2>2, QuietKnown
  <1>12. CASE UNCHANGED vars
    <2>1. UNCHANGED <<now, seen, said, at, call, subject, under>> /\ UNCHANGED over
      BY <1>12 DEF vars, now, work
    <2>2. Learnt'
      BY <2>1, SameSettled, SameIs DEF Known, Learnt, Reads, NoDirectory, NoFile
    <2> QED BY <1>i, <2>1, <2>2, QuietKnown DEF Known
  <1> QED BY <1>1, <1>2, <1>3, <1>4, <1>5, <1>6, <1>7, <1>8, <1>9, <1>10, <1>11,
      <1>12 DEF Next

\* Open, Stat and a listing say of a name what it is, if the host does not change
\* its mind about it in between (files.go:194-246).
THEOREM EveryViewIsTheTree == Spec => []SaysWhatIsThere
  <1>1. Known => SaysWhatIsThere
    BY DEF Known
  <1> QED BY InitKnown, StepKnown, <1>1, PTL DEF Spec

-----------------------------------------------------------------------------
(* The pages of a directory are its listing: on a project that does not      *)
(* change while a directory is open, the entries given are the names listed, *)
(* each once and in the order of sort.Strings, and all of them by the end,   *)
(* whatever the sizes asked for.                                             *)

\* The names of a listing before one of them.  An entry at position i of a
\* sorted listing is the one with i - 1 names before it.
Before(all, name) == {n \in all : Rank[n] < Rank[name]}

InOrder(all, entries) ==
    \A i \in DOMAIN entries : /\ entries[i].name \in all
                              /\ Cardinality(Before(all, entries[i].name)) = i - 1

Covers(entries, names) ==
    \A n \in names : \E i \in DOMAIN entries : entries[i].name = n

\* A listing under way: the entries made are the names taken so far, which come
\* before all that are left.
Progress(all, left, entries) ==
    /\ left \subseteq all
    /\ InOrder(all, entries)
    /\ Covers(entries, all \ left)
    /\ \A a \in all \ left, b \in left : Rank[a] < Rank[b]
    /\ Cardinality(all \ left) = Len(entries)

IsList(s) == \E S : s \in Seq(S)
Least(name, names) == \A n \in names : Rank[name] <= Rank[n]

LEMMA RankedIsFinite ==
    ASSUME NEW all \in SUBSET DOMAIN Rank PROVE IsFiniteSet(all)
  BY RankAssumption, FS_Subset

LEMMA RankOrders ==
    ASSUME NEW m \in DOMAIN Rank, NEW n \in DOMAIN Rank, m # n
    PROVE  Rank[m] < Rank[n] \/ Rank[n] < Rank[m]
  BY RankAssumption DEF IsInjective

LEMMA ListLength ==
    ASSUME NEW s, IsList(s)
    PROVE  Len(s) \in Nat /\ DOMAIN s = 1 .. Len(s)
  BY DEF IsList

\* No two names of a listing have the same place in it.
LEMMA OnePlaceEach ==
    ASSUME NEW all \in SUBSET DOMAIN Rank, NEW m \in all, NEW n \in all,
           Cardinality(Before(all, m)) = Cardinality(Before(all, n))
    PROVE  m = n
  <1>1. ASSUME NEW a \in all, NEW b \in all, Rank[a] < Rank[b],
               Cardinality(Before(all, a)) = Cardinality(Before(all, b))
        PROVE  FALSE
    <2>1. Before(all, a) \subseteq Before(all, b)
      BY <1>1, RankAssumption DEF Before
    <2>2. Before(all, b) \in SUBSET DOMAIN Rank
      BY DEF Before
    <2>3. IsFiniteSet(Before(all, b))
      BY <2>2, RankedIsFinite
    <2>4. Before(all, a) = Before(all, b)
      BY <1>1, <2>1, <2>3, FS_Subset
    <2>5. a \in Before(all, b) /\ a \notin Before(all, a)
      BY <1>1, RankAssumption DEF Before
    <2> QED BY <2>4, <2>5
  <1> QED BY <1>1, RankOrders

LEMMA ListBegins ==
    ASSUME NEW all \in SUBSET DOMAIN Rank
    PROVE  Progress(all, all, <<>>)
  <1>1. all \ all = {} /\ Cardinality({}) = 0 /\ Len(<<>>) = 0 /\ DOMAIN <<>> = {}
    BY FS_EmptySet
  <1> HIDE DEF IsInjective
  <1> QED BY <1>1 DEF Progress, InOrder, Covers

LEMMA Appended ==
    ASSUME NEW s, IsList(s), NEW e
    PROVE  /\ IsList(Append(s, e))
           /\ Len(Append(s, e)) = Len(s) + 1
           /\ DOMAIN Append(s, e) = 1 .. Len(s) + 1
           /\ \A i \in 1 .. Len(s) : Append(s, e)[i] = s[i]
           /\ Append(s, e)[Len(s) + 1] = e
  <1>1. PICK S : s \in Seq(S)
    BY DEF IsList
  <1> DEFINE T == S \cup {e}
  <1>2. s \in Seq(T) /\ e \in T
    BY <1>1
  <1> HIDE DEF T
  <1>3. Append(s, e) \in Seq(T)
    BY <1>2
  <1>4. Len(Append(s, e)) = Len(s) + 1
    BY <1>2, AppendProperties
  <1>5. DOMAIN Append(s, e) = 1 .. Len(s) + 1
    BY <1>3, <1>4
  <1> QED BY <1>2, <1>3, <1>4, <1>5, AppendProperties DEF IsList

\* Taking the least of the names left for the next entry.
LEMMA ListGoesOn ==
    ASSUME NEW all \in SUBSET DOMAIN Rank, NEW left, NEW entries, IsList(entries),
           Progress(all, left, entries),
           NEW e, e.name \in left, Least(e.name, left)
    PROVE  Progress(all, left \ {e.name}, Append(entries, e))
  <1> DEFINE n    == e.name
             done == all \ left
             next == Append(entries, e)
  <1>1. /\ left \subseteq all /\ n \in all /\ n \in left /\ n \notin done
        /\ InOrder(all, entries) /\ Covers(entries, done)
        /\ \A a \in done, b \in left : Rank[a] < Rank[b]
        /\ Cardinality(done) = Len(entries)
    BY DEF Progress
  <1>2. /\ Len(entries) \in Nat /\ DOMAIN entries = 1 .. Len(entries)
        /\ Len(next) = Len(entries) + 1
        /\ DOMAIN next = 1 .. Len(entries) + 1
        /\ \A i \in 1 .. Len(entries) : next[i] = entries[i]
        /\ next[Len(entries) + 1] = e
    BY ListLength, Appended
  <1>3. all \ (left \ {n}) = done \cup {n}
    BY <1>1
  <1>4. IsFiniteSet(done)
    BY RankedIsFinite
  <1>5. Cardinality(done \cup {n}) = Len(entries) + 1
    BY <1>1, <1>4, FS_AddElement
  <1>6. \A b \in left : b # n => Rank[n] < Rank[b]
    <2> SUFFICES ASSUME NEW b \in left, b # n PROVE Rank[n] < Rank[b]
      OBVIOUS
    <2>1. Rank[n] <= Rank[b] /\ n \in DOMAIN Rank /\ b \in DOMAIN Rank
      BY <1>1 DEF Least
    <2>2. Rank[n] \in Nat /\ Rank[b] \in Nat
      BY <2>1, RankAssumption
    <2>3. Rank[n] < Rank[b] \/ Rank[b] < Rank[n]
      BY <2>1, RankOrders
    <2> QED BY <2>1, <2>2, <2>3
  <1>7. Before(all, n) = done
    <2>1. \A a \in done : Rank[a] < Rank[n]
      BY <1>1
    <2>2. \A b \in left : ~(Rank[b] < Rank[n])
      <3> SUFFICES ASSUME NEW b \in left PROVE ~(Rank[b] < Rank[n])
        OBVIOUS
      <3>1. Rank[n] <= Rank[b] /\ Rank[n] \in Nat /\ Rank[b] \in Nat
        BY <1>1, RankAssumption DEF Least
      <3> QED BY <3>1
    <2> QED BY <1>1, <2>1, <2>2 DEF Before
  <1> HIDE DEF n, done, next
  <1>8. InOrder(all, next)
    <2> SUFFICES ASSUME NEW i \in 1 .. Len(entries) + 1
                 PROVE  /\ next[i].name \in all
                        /\ Cardinality(Before(all, next[i].name)) = i - 1
      BY <1>2 DEF InOrder
    <2>1. CASE i \in 1 .. Len(entries)
      BY <1>1, <1>2, <2>1 DEF InOrder
    <2>2. CASE i = Len(entries) + 1
      <3>1. next[i].name = n
        BY <1>2, <2>2 DEF n
      <3> QED BY <1>1, <1>2, <1>7, <2>2, <3>1
    <2> QED BY <1>2, <2>1, <2>2
  <1>9. Covers(next, done \cup {n})
    <2> SUFFICES ASSUME NEW m \in done \cup {n}
                 PROVE  \E i \in 1 .. Len(entries) + 1 : next[i].name = m
      BY <1>2 DEF Covers
    <2>1. CASE m \in done
      <3>1. PICK i \in 1 .. Len(entries) : entries[i].name = m
        BY <1>1, <1>2, <2>1 DEF Covers
      <3> QED BY <1>2, <3>1
    <2>2. CASE m = n
      <3>1. next[Len(entries) + 1].name = n
        BY <1>2 DEF n
      <3> QED BY <1>2, <2>2, <3>1
    <2> QED BY <2>1, <2>2
  <1>10. \A a \in done \cup {n}, b \in left \ {n} : Rank[a] < Rank[b]
    BY <1>1, <1>6
  <1>11. Progress(all, left \ {n}, next)
    BY <1>1, <1>2, <1>3, <1>5, <1>8, <1>9, <1>10 DEF Progress
  <1> QED BY <1>11 DEF n, next

LEMMA Concatenated ==
    ASSUME NEW s, IsList(s), NEW t, IsList(t), NEW k \in Nat, NEW r \in Nat, k + r <= Len(t)
    PROVE  LET u == s \o SubSeq(t, k + 1, k + r)
           IN  /\ IsList(u)
               /\ Len(u) = Len(s) + r
               /\ DOMAIN u = 1 .. Len(s) + r
               /\ \A i \in 1 .. Len(s) : u[i] = s[i]
               /\ \A i \in 1 .. r : u[Len(s) + i] = t[k + i]
  <1>1. PICK S : s \in Seq(S)
    BY DEF IsList
  <1>2. PICK T : t \in Seq(T)
    BY DEF IsList
  <1> DEFINE U == S \cup T
             v == SubSeq(t, k + 1, k + r)
             u == s \o v
  <1>3. s \in Seq(U) /\ t \in Seq(U)
    BY <1>1, <1>2
  <1> HIDE DEF U
  <1>4. Len(t) \in Nat /\ Len(s) \in Nat /\ \A i \in 1 .. Len(t) : t[i] \in U
    BY <1>3
  <1>5. \A i \in k + 1 .. k + r : i \in 1 .. Len(t)
    BY <1>4
  <1>6. \A i \in k + 1 .. k + r : t[i] \in U
    BY <1>4, <1>5
  <1>7. /\ v \in Seq(U)
        /\ Len(v) = IF k + 1 <= k + r THEN k + r - (k + 1) + 1 ELSE 0
        /\ \A i \in 1 .. k + r - (k + 1) + 1 : v[i] = t[k + 1 + i - 1]
    <2>1. k + 1 \in Int /\ k + r \in Int
      OBVIOUS
    <2> QED BY <1>6, <2>1, SubSeqProperties
  <1>8. Len(v) = r /\ \A i \in 1 .. r : v[i] = t[k + i]
    BY <1>7
  <1> HIDE DEF v
  <1>9. /\ u \in Seq(U)
        /\ Len(u) = Len(s) + r
        /\ \A i \in 1 .. Len(s) + r : u[i] = IF i <= Len(s) THEN s[i] ELSE v[i - Len(s)]
    BY <1>3, <1>7, <1>8, ConcatProperties
  <1>10. DOMAIN u = 1 .. Len(s) + r
    BY <1>9
  <1> HIDE DEF u
  <1>11. \A i \in 1 .. Len(s) : u[i] = s[i]
    BY <1>4, <1>9
  <1>12. ASSUME NEW i \in 1 .. r PROVE u[Len(s) + i] = t[k + i]
    <2> DEFINE n == Len(s)
    <2>1. n \in Nat
      BY <1>4
    <2> HIDE DEF n
    <2>2. n + i \in 1 .. n + r /\ ~(n + i <= n) /\ n + i - n = i
      BY <2>1
    <2>3. u[n + i] = IF n + i <= n THEN s[n + i] ELSE v[n + i - n]
      BY <1>9, <2>2 DEF n
    <2> QED BY <1>8, <2>2, <2>3 DEF n
  <1>13. IsList(u)
    BY <1>9 DEF IsList
  <1> QED BY <1>9, <1>10, <1>11, <1>12, <1>13 DEF u, v

\* A page of a listing that is complete: what is given stays in its order.
LEMMA PageGiven ==
    ASSUME NEW all \in SUBSET DOMAIN Rank,
           NEW entries, IsList(entries), Progress(all, {}, entries),
           NEW had, IsList(had), InOrder(all, had),
           NEW rest \in Nat, Len(had) + rest <= Len(entries),
           NEW has, has = had \o SubSeq(entries, Len(had) + 1, Len(had) + rest)
    PROVE  /\ Len(has) = Len(had) + rest
           /\ InOrder(all, has)
  <1>1. /\ Len(had) \in Nat /\ DOMAIN had = 1 .. Len(had)
        /\ Len(entries) \in Nat /\ DOMAIN entries = 1 .. Len(entries)
    BY ListLength
  <1>2. /\ Len(has) = Len(had) + rest
        /\ DOMAIN has = 1 .. Len(had) + rest
        /\ \A i \in 1 .. Len(had) : has[i] = had[i]
        /\ \A i \in 1 .. rest : has[Len(had) + i] = entries[Len(had) + i]
    <2> DEFINE k == Len(had)
             u == had \o SubSeq(entries, k + 1, k + rest)
    <2>1. k \in Nat /\ k + rest <= Len(entries)
      BY <1>1
    <2> HIDE DEF k
    <2>2. /\ Len(u) = Len(had) + rest
          /\ DOMAIN u = 1 .. Len(had) + rest
          /\ \A i \in 1 .. Len(had) : u[i] = had[i]
          /\ \A i \in 1 .. rest : u[Len(had) + i] = entries[k + i]
      BY <2>1, Concatenated
    <2> QED BY <2>2 DEF k
  <1>3. InOrder(all, entries)
    BY DEF Progress
  <1>4. ASSUME NEW i \in 1 .. Len(had) + rest
        PROVE  /\ has[i].name \in all
               /\ Cardinality(Before(all, has[i].name)) = i - 1
    <2>1. CASE i <= Len(had)
      <3>1. i \in DOMAIN had /\ has[i] = had[i]
        BY <1>1, <1>2, <2>1
      <3> QED BY <3>1 DEF InOrder
    <2>2. CASE ~(i <= Len(had))
      <3>1. i - Len(had) \in 1 .. rest /\ Len(had) + (i - Len(had)) = i
            /\ i \in 1 .. Len(entries)
        BY <1>1, <2>2
      <3>2. i \in DOMAIN entries /\ has[i] = entries[i]
        BY <1>1, <1>2, <3>1
      <3> QED BY <1>3, <3>2 DEF InOrder
    <2> QED BY <2>1, <2>2
  <1> QED BY <1>2, <1>4 DEF InOrder

\* Two lists in order agree where both are, so one that is as long as a whole
\* listing is all of it.
LEMMA AsLongIsAll ==
    ASSUME NEW all \in SUBSET DOMAIN Rank,
           NEW entries, IsList(entries), Progress(all, {}, entries),
           NEW has, IsList(has), InOrder(all, has), Len(has) = Len(entries)
    PROVE  Covers(has, all)
  <1>1. /\ Len(entries) \in Nat /\ DOMAIN entries = 1 .. Len(entries)
        /\ DOMAIN has = DOMAIN entries
    BY ListLength
  <1>2. InOrder(all, entries) /\ Covers(entries, all)
    <2>1. all \ {} = all
      OBVIOUS
    <2> QED BY <2>1 DEF Progress
  <1>3. ASSUME NEW n \in all PROVE \E i \in DOMAIN has : has[i].name = n
    <2>1. PICK i \in DOMAIN entries : entries[i].name = n
      BY <1>2 DEF Covers
    <2>2. /\ has[i].name \in all /\ Cardinality(Before(all, has[i].name)) = i - 1
          /\ entries[i].name \in all /\ Cardinality(Before(all, entries[i].name)) = i - 1
      BY <1>1, <1>2, <2>1 DEF InOrder
    <2>3. has[i].name = n
      BY <2>1, <2>2, OnePlaceEach
    <2> QED BY <1>1, <2>1, <2>3
  <1> QED BY <1>3 DEF Covers

-----------------------------------------------------------------------------
(* The state of a listing, whether the project changes or not.               *)

MidPage == call.op = "page" /\ at \notin {"top", "list"}
Pending == IF at = "slice" THEN {} ELSE {Last(subject)}
Left    == todo \cup Pending

Typed ==
    /\ TypeOK
    /\ call # Idle => call.name \in Asked
    /\ call.size \in Int
    /\ dir # NoDir => dir.name \in Asked
    /\ call.op = "page" => dir # NoDir /\ call.name = dir.name
    /\ at = "slice" => call.op = "page" /\ todo = {}
    /\ at \in {"top", "list"} => out = <<>>
    /\ IsList(out) /\ IsList(given)
    /\ MidPage => /\ Left \subseteq DOMAIN Rank
                  /\ Len(out) + Cardinality(Left) <= Cardinality(DOMAIN Rank)
                  /\ at # "slice" => Last(subject) \notin todo /\ Least(Last(subject), todo)

\* What is listed has a rank.
LEMMA ListingIsRanked ==
    ASSUME Inside, NEW h \in Hosts, NEW name \in Asked
    PROVE  Listing(h, name) \subseteq DOMAIN Rank
  <1>1. ASSUME NEW s \in Below(DOMAIN over, name) PROVE s \in DOMAIN Rank
    <2>1. IsStrictPrefix(name, Config) /\ s = Config[Len(name) + 1]
      BY <1>1 DEF Below, Inside
    <2>2. name \in Seq(DOMAIN Rank) /\ Config \in Seq(DOMAIN Rank)
      BY AskedAssumption, ConfigAssumption
    <2>3. Len(name) + 1 \in DOMAIN Config
      BY <2>1, <2>2, BelowIsASegment
    <2> QED BY <2>1, <2>2, <2>3
  <1>2. Bare(Entries(h, name)) \subseteq DOMAIN Rank
    BY ListedAssumption
  <1> QED BY <1>1, <1>2 DEF Listing

LEMMA LastAppended ==
    ASSUME NEW S, NEW s \in Seq(S), NEW e PROVE Last(Append(s, e)) = e
  <1>1. IsList(s)
    BY DEF IsList
  <1> QED BY <1>1, Appended DEF Last

\* What a listing goes on with is what was left.
LEMMA AdvanceTyped ==
    ASSUME Inside, call.op = "page", NEW left \in SUBSET DOMAIN Rank, Advance(left),
           UNCHANGED call
    PROVE  /\ at' \in {"slice", "dir"} /\ todo' \subseteq DOMAIN Rank
           /\ Left' = left
           /\ at' = "slice" => todo' = {}
           /\ at' # "slice" => (Last(subject) \notin todo /\ Least(Last(subject), todo))'
  <1>1. CASE left = {}
    BY <1>1 DEF Advance, Left, Pending
  <1>2. CASE left # {}
    <2>1. PICK s \in left : /\ \A t \in left : Rank[s] <= Rank[t]
                            /\ todo' = left \ {s}
                            /\ subject' = Append(call.name, s)
                            /\ at' = "dir"
      BY <1>2 DEF Advance
    <2>2. Last(subject') = s
      BY <2>1, LastAppended DEF Inside
    <2>3. Left' = left
      BY <2>1, <2>2 DEF Left, Pending
    <2> QED BY <2>1, <2>2, <2>3 DEF Least
  <1> QED BY <1>1, <1>2

-----------------------------------------------------------------------------
(* While the project does not change: what was given is the listing up to    *)
(* the position, and what is made of it for the next page agrees with that.  *)
Paged ==
    (steady /\ dir # NoDir) =>
        LET all == Listing(host, dir.name)
        IN  /\ InOrder(all, given)
            /\ Len(given) = dir.at /\ dir.at <= Cardinality(all)
            /\ ended => Covers(given, all) /\ dir.at = Cardinality(all)
            /\ MidPage => Progress(all, Left, out)

-----------------------------------------------------------------------------
(* Typed is an invariant.                                                    *)

LEMMA InitTyped == Init => Typed
  <1> SUFFICES ASSUME Init PROVE Typed
    OBVIOUS
  <1>1. IsList(<<>>)
    <2>1. <<>> \in Seq({})
      OBVIOUS
    <2> QED BY <2>1 DEF IsList
  <1>2. Cardinality(DOMAIN Rank) \in Nat
    BY RankAssumption, FS_CardinalityType
  <1>3. TypeOK
    <2>1. DOMAIN over \subseteq {Config}
      BY InitInside DEF Inside
    <2>2. host \in Hosts /\ changes \in 0 .. MaxChanges
      BY MaxChangesAssumption DEF Init
    <2>3. call = Idle /\ call.op = "none" /\ at = "idle"
      BY DEF Init, Idle
    <2>4. said.is.kind \in Kinds
      BY DEF Init, Unsaid, Told, Invalid, Kinds
    <2>5. dir.at \in 0 .. Cardinality(DOMAIN Rank)
      <3>1. dir.at = 0
        BY DEF Init, NoDir
      <3> QED BY <1>2, <3>1
    <2>6. todo = {} /\ steady \in BOOLEAN /\ ended \in BOOLEAN
      BY DEF Init
    <2> QED BY <2>1, <2>2, <2>3, <2>4, <2>5, <2>6 DEF TypeOK
  <1> QED BY <1>1, <1>3 DEF Init, Typed, MidPage, Idle

\* Moving on to the next question within a call.
LEMMA GoTyped ==
    ASSUME Typed, Inside, NEW next, Go(next), UNCHANGED now, at \notin {"idle", "slice"},
           next \in {"read", "exists", "bytes", "dir"},
           at \in {"top", "list"} => call.op # "page",
           next \in {"exists", "bytes"} => ValidPath(under') \/ under' = Unrooted(subject)
    PROVE  Typed'
  <1>1. UNCHANGED <<host, changes, over, call, subject, todo, out, said, dir, given,
                    steady, ended>> /\ at' = next
    BY DEF Go, now, listing
  <1>2. TypeOK'
    BY <1>1 DEF Typed, TypeOK
  <1>3. MidPage' => MidPage /\ Left' = Left /\ at # "slice"
    BY <1>1 DEF MidPage, Left, Pending
  <1>4. (MidPage => /\ Left \subseteq DOMAIN Rank
                    /\ Len(out) + Cardinality(Left) <= Cardinality(DOMAIN Rank)
                    /\ at # "slice" => /\ Last(subject) \notin todo
                                       /\ Least(Last(subject), todo))'
    BY <1>1, <1>3 DEF Typed, Least, Last
  <1> QED BY <1>1, <1>2, <1>4 DEF Typed

\* An entry more, of the listing that is being made.
LEMMA EntryTyped ==
    ASSUME Typed, Inside, call.op = "page", at \notin {"idle", "slice", "top", "list"},
           NEW is, is.kind \in Kinds,
           said' = Told(subject, is, TRUE),
           out' = Append(out, [name |-> Last(subject), is |-> is]), Advance(todo),
           UNCHANGED <<now, call, under, dir, listing>>
    PROVE  Typed'
  <1>1. MidPage /\ Left = todo \cup {Last(subject)}
    BY DEF MidPage, Left, Pending
  <1>2. /\ Left \subseteq DOMAIN Rank
        /\ Len(out) + Cardinality(Left) <= Cardinality(DOMAIN Rank)
        /\ Last(subject) \notin todo
    BY <1>1 DEF Typed
  <1>3. /\ at' \in {"slice", "dir"} /\ todo' \subseteq DOMAIN Rank
        /\ Left' = todo
        /\ at' = "slice" => todo' = {}
        /\ at' # "slice" => (Last(subject) \notin todo /\ Least(Last(subject), todo))'
    BY <1>1, <1>2, AdvanceTyped
  <1>4. /\ IsList(out') /\ Len(out') = Len(out) + 1 /\ Len(out) \in Nat
    BY Appended, ListLength DEF Typed
  <1>5. Cardinality(Left) = Cardinality(todo) + 1 /\ Cardinality(todo) \in Nat
    <2>1. IsFiniteSet(todo)
      BY <1>1, <1>2, RankedIsFinite
    <2> QED BY <1>1, <1>2, <2>1, FS_AddElement, FS_CardinalityType
  <1>6. Len(out') + Cardinality(Left') <= Cardinality(DOMAIN Rank)
    <2>1. Cardinality(DOMAIN Rank) \in Nat
      BY RankAssumption, FS_CardinalityType
    <2>2. \A l, c, k, n \in Nat : l + (c + 1) <= n => (l + 1) + c <= n
      OBVIOUS
    <2> QED BY <1>2, <1>3, <1>4, <1>5, <2>1, <2>2
  <1>7. TypeOK'
    BY <1>3 DEF Typed, TypeOK, now, listing, Told
  <1> QED BY <1>1, <1>2, <1>3, <1>4, <1>6, <1>7 DEF Typed, listing, MidPage

\* An answer of Open or Stat.
LEMMA AnswerTyped ==
    ASSUME Typed, Inside, call.op # "page", at # "idle",
           said'.is.kind \in Kinds, Finish,
           \/ /\ dir' = [name |-> call.name, at |-> 0]
              /\ given' = <<>> /\ steady' = TRUE /\ ended' = FALSE
           \/ UNCHANGED <<dir, listing>>,
           UNCHANGED now
    PROVE  Typed'
  <1>1. call' = Idle /\ at' = "idle" /\ UNCHANGED <<host, changes, over, subject, under,
            todo, out>>
    BY DEF Finish, now
  <1>2. call.name \in Asked /\ call # Idle
    BY DEF Typed, TypeOK
  <1>3. dir'.at \in 0 .. Cardinality(DOMAIN Rank) /\ steady' \in BOOLEAN /\ ended' \in BOOLEAN
        /\ IsList(given') /\ (dir' # NoDir => dir'.name \in Asked)
    <2>1. CASE UNCHANGED <<dir, listing>>
      BY <2>1 DEF Typed, TypeOK, listing
    <2>2. CASE /\ dir' = [name |-> call.name, at |-> 0]
               /\ given' = <<>> /\ steady' = TRUE /\ ended' = FALSE
      <3>1. Cardinality(DOMAIN Rank) \in Nat
        BY RankAssumption, FS_CardinalityType
      <3>2. <<>> \in Seq({})
        OBVIOUS
      <3>3. IsList(given')
        BY <2>2, <3>2 DEF IsList
      <3>4. dir'.at = 0 /\ dir'.name = call.name
        BY <2>2
      <3>5. 0 \in 0 .. Cardinality(DOMAIN Rank)
        BY <3>1
      <3> QED BY <1>2, <2>2, <3>3, <3>4, <3>5
    <2> QED BY <2>1, <2>2
  <1>4. TypeOK'
    BY <1>1, <1>3 DEF Typed, TypeOK, Idle
  <1> QED BY <1>1, <1>3, <1>4 DEF Typed, Idle, MidPage

LEMMA SettleTyped ==
    ASSUME Typed, Inside, NEW is, is.kind \in Kinds, Settle(is), UNCHANGED now,
           at \notin {"idle", "slice", "top", "list"}
    PROVE  Typed'
  <1>1. CASE call.op = "page"
    BY <1>1, EntryTyped DEF Settle
  <1>2. CASE call.op # "page"
    <2>1. said'.is.kind \in Kinds /\ Finish /\ Opens(is)
      BY <1>2 DEF Settle, Told
    <2> QED BY <1>2, <2>1, AnswerTyped DEF Opens
  <1> QED BY <1>1, <1>2

LEMMA ReadFailsTyped ==
    ASSUME Typed, Inside, ReadFails, UNCHANGED now, at \in {"read", "exists", "bytes"}
    PROVE  Typed'
  <1>1. CASE call.op = "open"
    BY <1>1, GoTyped DEF ReadFails
  <1>2. CASE call.op = "stat"
    BY <1>2, SettleTyped DEF ReadFails, NotThere, Kinds
  <1>3. CASE call.op = "page"
    BY <1>3, SettleTyped DEF ReadFails, File, Kinds
  <1> QED BY <1>1, <1>2, <1>3 DEF Inside, Ops

LEMMA BeginTyped ==
    ASSUME Typed, NEW op \in Ops, NEW name \in Asked, NEW size \in Int, NEW first,
           Begin(op, name, size, first), first \in {"read", "dir", "top"},
           op = "page" => dir # NoDir /\ name = dir.name /\ first = "top"
    PROVE  Typed'
  <1>1. /\ call' = [op |-> op, name |-> name, size |-> size] /\ at' = first
        /\ todo' = {} /\ out' = <<>> /\ said' = Unsaid
        /\ UNCHANGED <<host, changes, over, under, dir, given, steady, ended>>
    BY DEF Begin, now, listing
  <1>2. call' # Idle /\ call'.op = op /\ call'.name = name /\ call'.size = size
    BY <1>1 DEF Idle, Ops
  <1>3. said'.is.kind \in Kinds
    BY <1>1 DEF Unsaid, Told, Invalid, Kinds
  <1>4. TypeOK'
    BY <1>1, <1>2, <1>3 DEF Typed, TypeOK, Ops
  <1>5. <<>> \in Seq({})
    OBVIOUS
  <1>6. IsList(out') /\ ~MidPage'
    BY <1>1, <1>2, <1>5 DEF IsList, MidPage
  <1> QED BY <1>1, <1>2, <1>4, <1>6 DEF Typed

LEMMA RefuseTyped ==
    ASSUME Typed, NEW name, Refuse(name) PROVE Typed'
  <1>1. /\ UNCHANGED <<host, changes, over, call, at, subject, under, todo, out, dir,
                       given, steady, ended>>
        /\ said'.is.kind \in Kinds
    BY DEF Refuse, now, work, listing, Told, Invalid, Kinds
  <1>2. TypeOK'
    BY <1>1 DEF Typed, TypeOK
  <1>3. MidPage' = MidPage /\ Left' = Left
    BY <1>1 DEF MidPage, Left, Pending
  <1> QED BY <1>1, <1>2, <1>3 DEF Typed, Least, Last

LEMMA ListTyped ==
    ASSUME Typed, Inside, List PROVE Typed'
  <1> DEFINE left == Listing(host, subject)
  <1>1. /\ at = "list" /\ subject = call.name /\ call.op = "page" /\ out = <<>>
        /\ Advance(left)
        /\ UNCHANGED <<host, changes, over, call, under, out, dir, said, given, steady, ended>>
    BY DEF List, Inside, Typed, now, listing
  <1>2. host \in Hosts /\ call.name \in Asked
    BY <1>1 DEF Typed, TypeOK, Idle
  <1>3. left \in SUBSET DOMAIN Rank
    BY <1>1, <1>2, ListingIsRanked
  <1> HIDE DEF left
  <1>4. /\ at' \in {"slice", "dir"} /\ todo' \subseteq DOMAIN Rank
        /\ Left' = left
        /\ at' = "slice" => todo' = {}
        /\ at' # "slice" => (Last(subject) \notin todo /\ Least(Last(subject), todo))'
    BY <1>1, <1>3, AdvanceTyped
  <1>5. Len(out') + Cardinality(Left') <= Cardinality(DOMAIN Rank)
    <2>1. IsFiniteSet(DOMAIN Rank)
      BY RankAssumption
    <2>2. Cardinality(left) <= Cardinality(DOMAIN Rank) /\ Cardinality(left) \in Nat
      BY <1>3, <2>1, FS_Subset, FS_CardinalityType
    <2>3. Len(out') = 0
      BY <1>1
    <2>4. 0 + Cardinality(left) = Cardinality(left)
      BY <2>2
    <2> QED BY <1>4, <2>2, <2>3, <2>4
  <1>6. TypeOK'
    BY <1>1, <1>4 DEF Typed, TypeOK, Idle
  <1> QED BY <1>1, <1>2, <1>3, <1>4, <1>5, <1>6 DEF Typed

LEMMA SliceTyped ==
    ASSUME Typed, Slice PROVE Typed'
  <1> DEFINE left == IF dir.at < Len(out) THEN Len(out) - dir.at ELSE 0
             rest == IF call.size > 0 /\ call.size < left THEN call.size ELSE left
  <1>1. /\ at = "slice" /\ call.op = "page" /\ todo = {}
        /\ dir' = [name |-> dir.name, at |-> dir.at + rest]
        /\ given' = given \o SubSeq(out, dir.at + 1, dir.at + rest)
        /\ ended' = (ended \/ left = 0 \/ call.size = 0)
        /\ call' = Idle /\ at' = "idle"
        /\ UNCHANGED <<host, changes, over, subject, under, todo, out, said, steady>>
    BY DEF Slice, Position, Finish, Typed, now
  <1>2. /\ Len(out) \in Nat /\ Len(out) <= Cardinality(DOMAIN Rank)
        /\ Cardinality(DOMAIN Rank) \in Nat
        /\ dir.at \in 0 .. Cardinality(DOMAIN Rank) /\ call.size \in Int
    <2>1. Left = {} /\ MidPage
      BY <1>1 DEF Left, Pending, MidPage
    <2>2. Cardinality(Left) = 0
      BY <2>1, FS_EmptySet
    <2>3. Len(out) \in Nat /\ Cardinality(DOMAIN Rank) \in Nat
      BY ListLength, RankAssumption, FS_CardinalityType DEF Typed
    <2>4. Len(out) + Cardinality(Left) <= Cardinality(DOMAIN Rank)
      BY <2>1 DEF Typed
    <2> QED BY <2>2, <2>3, <2>4 DEF Typed, TypeOK
  <1>3. rest \in Nat /\ (dir.at + rest <= Len(out) \/ rest = 0)
    <2>1. left \in Nat /\ (dir.at + left <= Len(out) \/ left = 0)
      BY <1>2
    <2>2. rest \in Nat /\ rest <= left
      BY <1>2, <2>1
    <2> HIDE DEF left, rest
    <2> QED BY <1>2, <2>1, <2>2
  <1>4. dir.at + rest \in 0 .. Cardinality(DOMAIN Rank)
    BY <1>2, <1>3
  <1> HIDE DEF rest
  <1>5. IsList(given')
    <2> DEFINE k == dir.at
    <2>a. k \in Nat /\ IsList(given) /\ IsList(out)
      BY <1>2 DEF Typed
    <2>b. given' = given \o SubSeq(out, k + 1, k + rest)
      BY <1>1
    <2>1. CASE k + rest <= Len(out)
      <3> HIDE DEF k
      <3> QED BY <1>3, <2>a, <2>b, <2>1, Concatenated
    <2>2. CASE rest = 0
      <3>1. SubSeq(out, dir.at + 1, dir.at + rest) = <<>>
        BY <1>2, <2>2, SubSeqEmpty
      <3>2. PICK S : given \in Seq(S)
        BY DEF Typed, IsList
      <3>3. given \o <<>> = given
        BY <3>2, ConcatEmptySeq
      <3> QED BY <2>a, <2>b, <3>1, <3>3
    <2> QED BY <1>3, <2>1, <2>2
  <1>6. ended' \in BOOLEAN /\ dir'.at \in 0 .. Cardinality(DOMAIN Rank)
        /\ dir'.name = dir.name /\ dir.name \in Asked
    BY <1>1, <1>4 DEF Typed
  <1>7. TypeOK'
    BY <1>1, <1>6 DEF Typed, TypeOK, Idle
  <1>8. ~MidPage' /\ call' = Idle /\ call'.op = "none" /\ call'.size \in Int
    BY <1>1 DEF MidPage, Idle
  <1> QED BY <1>1, <1>5, <1>6, <1>7, <1>8 DEF Typed

LEMMA StepTyped == Inside /\ Typed /\ [Next]_vars => Typed'
  <1> SUFFICES ASSUME Inside, Typed, [Next]_vars PROVE Typed'
    OBVIOUS
  <1>1. CASE HostChanges
    <2>1. /\ host' \in Hosts /\ changes < MaxChanges /\ changes' = changes + 1
          /\ steady' = FALSE
          /\ UNCHANGED <<over, call, at, subject, under, todo, out, dir, said, given, ended>>
      BY <1>1 DEF HostChanges, work
    <2>2. changes' \in 0 .. MaxChanges
      BY <2>1, MaxChangesAssumption DEF Typed, TypeOK
    <2>3. TypeOK'
      BY <2>1, <2>2 DEF Typed, TypeOK
    <2>4. MidPage' = MidPage /\ Left' = Left
      BY <2>1 DEF MidPage, Left, Pending
    <2> QED BY <2>1, <2>3, <2>4 DEF Typed, Least, Last
  <1>2. ASSUME NEW name \in Asked, Open(name) \/ Stat(name) PROVE Typed'
    <2>1. CASE ValidPath(Unrooted(name))
      BY <1>2, <2>1, BeginTyped DEF Open, Stat, Ops
    <2>2. CASE ~ValidPath(Unrooted(name))
      BY <1>2, <2>2, RefuseTyped DEF Open, Stat
    <2> QED BY <2>1, <2>2
  <1>3. ASSUME NEW size \in Sizes, Page(size) PROVE Typed'
    <2>1. size \in Int /\ dir # NoDir /\ dir.name \in Asked
      BY <1>3, SizesAssumption DEF Page, Typed
    <2> QED BY <1>3, <2>1, BeginTyped DEF Page, Ops
  <1>4. CASE ReadOver
    BY <1>4, SettleTyped DEF ReadOver, File, Kinds
  <1>5. CASE AskReal
    <2> DEFINE real == Realpath(host, subject)
    <2>1. CASE Leaves(real)
      BY <1>5, <2>1, ReadFailsTyped DEF AskReal
    <2>2. CASE ~Leaves(real)
      <3>1. /\ under' = (IF real.ok THEN real.path ELSE Unrooted(subject))
            /\ Go("exists") /\ UNCHANGED now /\ at = "read"
        BY <1>5, <2>2 DEF AskReal
      <3>2. ValidPath(under') \/ under' = Unrooted(subject)
        BY <2>2, <3>1 DEF Leaves
      <3> QED BY <3>1, <3>2, GoTyped
    <2> QED BY <2>1, <2>2
  <1>6. CASE Exists
    <2>1. CASE FileExists(host, under.segs)
      <3>1. Go("bytes") /\ UNCHANGED <<under, now>> /\ at = "exists"
        BY <1>6, <2>1 DEF Exists
      <3>2. subject' = subject /\ (ValidPath(under) \/ under = Unrooted(subject))
        BY <3>1 DEF Typed, TypeOK, Go
      <3> QED BY <3>1, <3>2, GoTyped
    <2>2. CASE ~FileExists(host, under.segs)
      BY <1>6, <2>2, ReadFailsTyped DEF Exists
    <2> QED BY <2>1, <2>2
  <1>7. CASE Bytes
    <2> DEFINE bytes == ReadFile(host, under.segs)
    <2>1. CASE bytes = Unreadable
      BY <1>7, <2>1, ReadFailsTyped DEF Bytes
    <2>2. CASE bytes # Unreadable
      BY <1>7, <2>2, SettleTyped DEF Bytes, File, Kinds
    <2> QED BY <2>1, <2>2
  <1>8. CASE AskIsDir
    <2>1. CASE IsDir(host, subject)
      BY <1>8, <2>1, SettleTyped DEF AskIsDir, IsADir, Kinds
    <2>2. CASE ~IsDir(host, subject) /\ call.op = "open"
      BY <1>8, <2>2, SettleTyped DEF AskIsDir, NotThere, Kinds
    <2>3. CASE ~IsDir(host, subject) /\ call.op # "open"
      BY <1>8, <2>3, GoTyped DEF AskIsDir
    <2> QED BY <2>1, <2>2, <2>3
  <1>9. CASE Top
    <2>1. CASE IsDir(host, subject)
      <3>1. /\ at' = "list" /\ at = "top"
            /\ UNCHANGED <<host, changes, over, call, subject, under, todo, out, said, dir,
                           given, steady, ended>>
        BY <1>9, <2>1 DEF Top, Go, now, listing
      <3>2. TypeOK' /\ ~MidPage'
        BY <3>1 DEF Typed, TypeOK, MidPage
      <3> QED BY <3>1, <3>2 DEF Typed
    <2>2. CASE ~IsDir(host, subject)
      <3>1. /\ said' = Told(subject, NotADir, FALSE) /\ call' = Idle /\ at' = "idle"
            /\ UNCHANGED <<host, changes, over, subject, under, todo, out, dir, given,
                           steady, ended>>
        BY <1>9, <2>2 DEF Top, Finish, now, listing
      <3>2. TypeOK' /\ ~MidPage'
        BY <3>1 DEF Typed, TypeOK, MidPage, Idle, Told, NotADir, Kinds
      <3> QED BY <3>1, <3>2 DEF Typed, Idle
    <2> QED BY <2>1, <2>2
  <1>10. CASE List
    BY <1>10, ListTyped
  <1>11. CASE Slice
    BY <1>11, SliceTyped
  <1>12. CASE UNCHANGED vars
    <2>1. UNCHANGED <<host, changes, over, call, at, subject, under, todo, out, dir, said,
                      given, steady, ended>>
      BY <1>12 DEF vars, now, work, listing
    <2>2. TypeOK' /\ MidPage' = MidPage /\ Left' = Left
      BY <2>1 DEF Typed, TypeOK, MidPage, Left, Pending
    <2> QED BY <2>1, <2>2 DEF Typed, Least, Last
  <1> QED BY <1>1, <1>2, <1>3, <1>4, <1>5, <1>6, <1>7, <1>8, <1>9, <1>10, <1>11,
      <1>12 DEF Next

\* Where a call is and what it has keep their types; a name read is the one
\* asked for or one that stays in the project (files.go:121-131).
THEOREM TreeTyping == Spec => []TypeOK
  <1>1. Init => Inside /\ Typed
    BY InitInside, InitTyped
  <1>2. (Inside /\ Typed) /\ [Next]_vars => (Inside /\ Typed)'
    BY StepInside, StepTyped
  <1>3. Typed => TypeOK
    BY DEF Typed
  <1> QED BY <1>1, <1>2, <1>3, PTL DEF Spec

-----------------------------------------------------------------------------
(* Paged is one too.                                                         *)

LEMMA SameListing ==
    ASSUME UNCHANGED over PROVE \A h, name : Listing(h, name)' = Listing(h, name)
  BY DEF Listing

\* A step that gives nothing keeps what was given.
LEMMA QuietPaged ==
    ASSUME Paged, UNCHANGED <<host, over, dir, given, steady, ended>>,
           (steady /\ dir # NoDir /\ MidPage') =>
               Progress(Listing(host, dir.name), Left', out')
    PROVE  Paged'
  <1>1. Listing(host, dir.name)' = Listing(host, dir.name)
    BY SameListing
  <1> SUFFICES ASSUME steady, dir # NoDir PROVE Paged'
    BY DEF Paged
  <1> DEFINE all == Listing(host, dir.name)
  <1>2. /\ InOrder(all, given)
        /\ Len(given) = dir.at /\ dir.at <= Cardinality(all)
        /\ ended => Covers(given, all) /\ dir.at = Cardinality(all)
        /\ MidPage' => Progress(all, Left', out')
    BY DEF Paged
  <1>3. /\ InOrder(all', given')
        /\ Len(given') = dir'.at /\ dir'.at <= Cardinality(all')
        /\ ended' => Covers(given', all') /\ dir'.at = Cardinality(all')
        /\ MidPage' => Progress(all', Left', out')
    <2>1. all' = all
      BY <1>1
    <2> HIDE DEF all
    <2> QED BY <1>2, <2>1
  <1> QED BY <1>3 DEF Paged

LEMMA GoPaged ==
    ASSUME Paged, NEW next, Go(next), UNCHANGED now, at \notin {"slice"},
           next \notin {"slice"}, at \in {"top", "list"} => call.op # "page"
    PROVE  Paged'
  <1>1. UNCHANGED <<host, over, call, subject, todo, out, dir, given, steady, ended>>
        /\ at' = next
    BY DEF Go, now, listing
  <1>2. MidPage' => MidPage /\ Left' = Left
    BY <1>1 DEF MidPage, Left, Pending
  <1> QED BY <1>1, <1>2, QuietPaged DEF Paged

LEMMA EntryPaged ==
    ASSUME Paged, Typed, Inside, call.op = "page", at \notin {"slice", "top", "list"},
           NEW is, out' = Append(out, [name |-> Last(subject), is |-> is]), Advance(todo),
           UNCHANGED <<now, call, dir, listing>>
    PROVE  Paged'
  <1>1. MidPage /\ Left = todo \cup {Last(subject)}
    BY DEF MidPage, Left, Pending
  <1>2. /\ Left \subseteq DOMAIN Rank
        /\ Last(subject) \notin todo /\ Least(Last(subject), todo)
    BY <1>1 DEF Typed
  <1>3. Left' = todo
    BY <1>1, <1>2, AdvanceTyped
  <1>4. UNCHANGED <<host, over, dir, given, steady, ended>>
    BY DEF now, listing
  <1>5. ASSUME steady, dir # NoDir
        PROVE  Progress(Listing(host, dir.name), Left', out')
    <2> DEFINE all == Listing(host, dir.name)
               e   == [name |-> Last(subject), is |-> is]
    <2>1. all \in SUBSET DOMAIN Rank
      BY <1>5, ListingIsRanked DEF Typed, TypeOK
    <2>2. Progress(all, Left, out) /\ IsList(out)
      BY <1>1, <1>5 DEF Paged, Typed
    <2>3. e.name = Last(subject)
      OBVIOUS
    <2> HIDE DEF all, e
    <2>4. e.name \in Left
      BY <1>1, <2>3
    <2>5. Least(e.name, Left)
      <3>1. Rank[e.name] \in Nat
        BY <1>2, <2>4, RankAssumption
      <3> QED BY <1>1, <1>2, <2>3, <3>1 DEF Least
    <2>6. Progress(all, Left \ {e.name}, Append(out, e))
      BY <2>1, <2>2, <2>4, <2>5, ListGoesOn
    <2>7. Left \ {e.name} = Left'
      BY <1>1, <1>2, <1>3, <2>3
    <2> QED BY <2>6, <2>7 DEF all, e
  <1> QED BY <1>4, <1>5, QuietPaged

LEMMA AnswerPaged ==
    ASSUME Paged, Typed, Inside, call.op # "page", at # "idle", Finish,
           \/ /\ dir' = [name |-> call.name, at |-> 0]
              /\ given' = <<>> /\ steady' = TRUE /\ ended' = FALSE
           \/ UNCHANGED <<dir, listing>>,
           UNCHANGED now
    PROVE  Paged'
  <1>1. ~MidPage' /\ UNCHANGED <<host, over>>
    BY DEF Finish, MidPage, Idle, now
  <1>2. CASE UNCHANGED <<dir, listing>>
    BY <1>1, <1>2, QuietPaged DEF listing
  <1>3. CASE /\ dir' = [name |-> call.name, at |-> 0]
             /\ given' = <<>> /\ steady' = TRUE /\ ended' = FALSE
    <2> DEFINE all == Listing(host, call.name)
    <2>1. all = Listing(host, dir.name)'
      BY <1>1, <1>3, SameListing
    <2>2. all \in SUBSET DOMAIN Rank
      BY ListingIsRanked DEF Typed, TypeOK
    <2> HIDE DEF all
    <2>3. Cardinality(all) \in Nat
      BY <2>2, RankedIsFinite, FS_CardinalityType
    <2>4. Len(given') = 0 /\ dir'.at = 0 /\ DOMAIN given' = {}
      BY <1>3
    <2>5. InOrder(all, given')
      BY <2>4 DEF InOrder
    <2>6. 0 <= Cardinality(all)
      BY <2>3
    <2> QED BY <1>1, <1>3, <2>1, <2>4, <2>5, <2>6 DEF Paged, InOrder, Before
  <1> QED BY <1>2, <1>3

LEMMA SettlePaged ==
    ASSUME Paged, Typed, Inside, NEW is, Settle(is), UNCHANGED now,
           at \notin {"idle", "slice", "top", "list"}
    PROVE  Paged'
  <1>1. CASE call.op = "page"
    BY <1>1, EntryPaged DEF Settle
  <1>2. CASE call.op # "page"
    BY <1>2, AnswerPaged DEF Settle, Opens
  <1> QED BY <1>1, <1>2

LEMMA ReadFailsPaged ==
    ASSUME Paged, Typed, Inside, ReadFails, UNCHANGED now,
           at \in {"read", "exists", "bytes"}
    PROVE  Paged'
  <1>1. CASE call.op = "open"
    BY <1>1, GoPaged DEF ReadFails
  <1>2. CASE call.op = "stat"
    BY <1>2, SettlePaged DEF ReadFails
  <1>3. CASE call.op = "page"
    BY <1>3, SettlePaged DEF ReadFails
  <1> QED BY <1>1, <1>2, <1>3 DEF Inside, Ops

LEMMA ListPaged ==
    ASSUME Paged, Typed, Inside, List PROVE Paged'
  <1> DEFINE all == Listing(host, dir.name)
  <1>1. /\ subject = call.name /\ call.op = "page" /\ out = <<>>
        /\ dir # NoDir /\ call.name = dir.name
        /\ Advance(all)
        /\ UNCHANGED <<host, over, call, out, dir, given, steady, ended>>
    BY DEF List, Inside, Typed, now, listing
  <1>2. all \in SUBSET DOMAIN Rank
    BY <1>1, ListingIsRanked DEF Typed, TypeOK
  <1> HIDE DEF all
  <1>3. Left' = all
    BY <1>1, <1>2, AdvanceTyped
  <1>4. Progress(all, Left', out')
    BY <1>1, <1>2, <1>3, ListBegins
  <1> QED BY <1>1, <1>4, QuietPaged DEF all

LEMMA SlicePaged ==
    ASSUME Paged, Typed, Inside, Slice PROVE Paged'
  <1> SUFFICES ASSUME steady', dir' # NoDir PROVE Paged'
    BY DEF Paged
  <1> DEFINE all  == Listing(host, dir.name)
             left == IF dir.at < Len(out) THEN Len(out) - dir.at ELSE 0
             rest == IF call.size > 0 /\ call.size < left THEN call.size ELSE left
  <1>1. /\ at = "slice" /\ call.op = "page" /\ todo = {} /\ dir # NoDir
        /\ dir' = [name |-> dir.name, at |-> dir.at + rest]
        /\ given' = given \o SubSeq(out, dir.at + 1, dir.at + rest)
        /\ ended' = (ended \/ left = 0 \/ call.size = 0)
        /\ call' = Idle /\ at' = "idle"
        /\ UNCHANGED <<host, over, steady>>
    BY DEF Slice, Position, Finish, Typed, now
  <1>2. all \in SUBSET DOMAIN Rank
    BY <1>1, ListingIsRanked DEF Typed, TypeOK
  <1>3. Left = {} /\ MidPage /\ ~MidPage'
    BY <1>1 DEF Left, Pending, MidPage, Idle
  <1>4. /\ InOrder(all, given) /\ Len(given) = dir.at /\ dir.at <= Cardinality(all)
        /\ ended => dir.at = Cardinality(all)
        /\ Progress(all, {}, out)
    BY <1>1, <1>3 DEF Paged
  <1>5. /\ Len(out) \in Nat /\ dir.at \in Nat /\ dir.at <= Len(out)
        /\ Cardinality(all) = Len(out) /\ call.size \in Int
        /\ IsList(out) /\ IsList(given)
    <2>1. all \ {} = all
      OBVIOUS
    <2>2. Cardinality(all) = Len(out)
      BY <1>4, <2>1 DEF Progress
    <2>3. dir.at \in Nat
      <3>1. Cardinality(DOMAIN Rank) \in Nat
        BY RankAssumption, FS_CardinalityType
      <3> QED BY <3>1 DEF Typed, TypeOK
    <2> QED BY <1>4, <2>2, <2>3, ListLength DEF Typed
  <1>6. /\ rest \in Nat /\ dir.at + rest <= Len(out)
        /\ dir.at = Len(out) \/ left = 0 \/ call.size = 0 => dir.at + rest = Len(out)
    <2> DEFINE n == Len(out)
               k == dir.at
    <2>1. n \in Nat /\ k \in Nat /\ k <= n /\ left = IF k < n THEN n - k ELSE 0
      BY <1>5
    <2> HIDE DEF n, k
    <2>2. left \in Nat /\ k + left = n
      BY <2>1
    <2> HIDE DEF left
    <2>3. rest \in Nat /\ rest <= left /\ (k = n \/ left = 0 \/ call.size = 0 => rest = left)
      BY <1>5, <2>1, <2>2
    <2> HIDE DEF rest
    <2>4. k + rest <= n /\ (k = n \/ left = 0 \/ call.size = 0 => k + rest = n)
      BY <2>1, <2>2, <2>3
    <2> QED BY <2>3, <2>4 DEF n, k
  <1>7. Listing(host, dir.name)' = all
    BY <1>1, SameListing
  <1> HIDE DEF all, left, rest
  <1>8. given' = given \o SubSeq(out, Len(given) + 1, Len(given) + rest)
    BY <1>1, <1>4
  <1>9. Len(given') = Len(given) + rest /\ InOrder(all, given')
    <2>1. Len(given) + rest <= Len(out)
      BY <1>4, <1>6
    <2>2. Progress(all, {}, out) /\ InOrder(all, given) /\ IsList(out) /\ IsList(given)
          /\ rest \in Nat
      BY <1>4, <1>5, <1>6
    <2>3. ASSUME NEW r \in Nat, Len(given) + r <= Len(out),
                 given' = given \o SubSeq(out, Len(given) + 1, Len(given) + r)
          PROVE  Len(given') = Len(given) + r /\ InOrder(all, given')
      <3>1. Len(given') = Len(given) + r
        BY <1>2, <2>2, <2>3, PageGiven
      <3>2. InOrder(all, given')
        BY <1>2, <2>2, <2>3, PageGiven
      <3> QED BY <3>1, <3>2
    <2> QED BY <1>8, <2>1, <2>2, <2>3
  <1>10. Len(given') = dir'.at /\ dir'.at <= Cardinality(all)
    BY <1>1, <1>4, <1>5, <1>6, <1>9
  <1>11. ended' => Covers(given', all) /\ dir'.at = Cardinality(all)
    <2> SUFFICES ASSUME ended' PROVE Len(given') = Len(out)
      <3>1. IsList(given')
        BY StepTyped DEF Typed, Next
      <3> QED BY <1>2, <1>4, <1>5, <1>9, <1>10, <3>1, AsLongIsAll
    <2>1. dir.at = Len(out) \/ left = 0 \/ call.size = 0
      BY <1>1, <1>4, <1>5
    <2> QED BY <1>1, <1>6, <1>10, <2>1
  <1> QED BY <1>3, <1>7, <1>9, <1>10, <1>11 DEF Paged, InOrder, Covers, Before

LEMMA InitPaged == Init => Paged
  BY DEF Init, Paged

LEMMA StepPaged == Inside /\ Typed /\ Paged /\ [Next]_vars => Paged'
  <1> SUFFICES ASSUME Inside, Typed, Paged, [Next]_vars PROVE Paged'
    OBVIOUS
  <1>1. CASE HostChanges
    BY <1>1 DEF HostChanges, Paged
  <1>2. ASSUME NEW op \in Ops, NEW name, NEW size, NEW first,
               Begin(op, name, size, first), op = "page" => first = "top"
        PROVE  Paged'
    <2>1. UNCHANGED <<host, over, dir, given, steady, ended>> /\ ~MidPage'
      BY <1>2 DEF Begin, now, listing, MidPage
    <2> QED BY <2>1, QuietPaged
  <1>3. ASSUME NEW name, Open(name) \/ Stat(name) PROVE Paged'
    <2>1. CASE ValidPath(Unrooted(name))
      BY <1>2, <1>3, <2>1 DEF Open, Stat, Ops
    <2>2. CASE ~ValidPath(Unrooted(name))
      <3>1. /\ UNCHANGED <<host, over, dir, given, steady, ended, out>>
            /\ MidPage' = MidPage /\ Left' = Left
        BY <1>3, <2>2 DEF Open, Stat, Refuse, now, work, listing, MidPage, Left, Pending
      <3> QED BY <3>1, QuietPaged DEF Paged
    <2> QED BY <2>1, <2>2
  <1>4. ASSUME NEW size, Page(size) PROVE Paged'
    BY <1>2, <1>4 DEF Page, Ops
  <1>5. CASE ReadOver
    BY <1>5, SettlePaged DEF ReadOver
  <1>6. CASE AskReal
    BY <1>6, ReadFailsPaged, GoPaged DEF AskReal
  <1>7. CASE Exists
    BY <1>7, ReadFailsPaged, GoPaged DEF Exists
  <1>8. CASE Bytes
    BY <1>8, ReadFailsPaged, SettlePaged DEF Bytes
  <1>9. CASE AskIsDir
    BY <1>9, SettlePaged, GoPaged DEF AskIsDir
  <1>10. CASE Top
    <2>1. UNCHANGED <<host, over, dir, given, steady, ended>> /\ ~MidPage'
      <3>1. CASE IsDir(host, subject)
        BY <1>10, <3>1 DEF Top, Go, now, listing, MidPage
      <3>2. CASE ~IsDir(host, subject)
        <4>1. Finish /\ UNCHANGED <<dir, listing, now>>
          BY <1>10, <3>2 DEF Top
        <4> QED BY <4>1 DEF Finish, Idle, now, listing, MidPage
      <3> QED BY <3>1, <3>2
    <2> QED BY <2>1, QuietPaged
  <1>11. CASE List
    BY <1>11, ListPaged
  <1>12. CASE Slice
    BY <1>12, SlicePaged
  <1>13. CASE UNCHANGED vars
    <2>1. /\ UNCHANGED <<host, over, dir, given, steady, ended, out>>
          /\ MidPage' = MidPage /\ Left' = Left
      BY <1>13 DEF vars, now, work, listing, MidPage, Left, Pending
    <2> QED BY <2>1, QuietPaged DEF Paged
  <1> QED BY <1>1, <1>3, <1>4, <1>5, <1>6, <1>7, <1>8, <1>9, <1>10, <1>11, <1>12,
      <1>13 DEF Next

LEMMA PagedIsTheListing == Typed /\ Paged => PagesAreTheListing
  <1> SUFFICES ASSUME Typed, Paged, steady, dir # NoDir PROVE PagesAreTheListing
    BY DEF PagesAreTheListing
  <1> DEFINE names == [i \in DOMAIN given |-> given[i].name]
             all   == Listing(host, dir.name)
  <1>1. InOrder(all, given) /\ (ended => Covers(given, all))
    BY DEF Paged
  <1> HIDE DEF all
  <1>2. DOMAIN given \subseteq Int
    BY ListLength DEF Typed
  <1>3. IsInjective(names)
    <2> SUFFICES ASSUME NEW i \in DOMAIN given, NEW j \in DOMAIN given,
                        given[i].name = given[j].name
                 PROVE  i = j
      BY DEF IsInjective
    <2>1. i - 1 = j - 1 /\ i \in Int /\ j \in Int
      BY <1>1, <1>2 DEF InOrder
    <2> QED BY <2>1
  <1>4. Range(names) \subseteq all
    BY <1>1 DEF Range, InOrder
  <1>5. ended => all \subseteq Range(names)
    BY <1>1 DEF Range, Covers
  <1> QED BY <1>3, <1>4, <1>5 DEF PagesAreTheListing, all

\* On a project that does not change while a directory is open, its pages give
\* each of its entries once and, by the end, all of them: whatever the sizes of
\* the pages, though the listing is made anew for each (files.go:292-309).
THEOREM PagesAreOneListing == Spec => []PagesAreTheListing
  <1>1. Init => Inside /\ Typed /\ Paged
    BY InitInside, InitTyped, InitPaged
  <1>2. (Inside /\ Typed /\ Paged) /\ [Next]_vars => (Inside /\ Typed /\ Paged)'
    BY StepInside, StepTyped, StepPaged
  <1>3. Typed /\ Paged => PagesAreTheListing
    BY PagedIsTheListing
  <1> QED BY <1>1, <1>2, <1>3, PTL DEF Spec
=============================================================================
