---------------------------- MODULE PluginProofs ----------------------------
(* Whatever the guest asks and whatever the host serves, the plugin calls    *)
(* Files with names of the project only, and a host that answers outside it  *)
(* has broken the build.  Nothing is assumed of path.Clean: rel's last test  *)
(* is what every name has passed.  Of hosts that keep to what compile.go     *)
(* says of Realpath, a load reads what was resolved, one file is one module  *)
(* and what was resolved can be read; of a project whose root is not "/" an  *)
(* entry resolves, however the caller spelt it.                              *)
EXTENDS Plugin, NamesProofs

\* A name rel did not refuse stays inside the project.
LEMMA RelFacts ==
    ASSUME NEW p, NEW root, Rel(p, root) # Refused
    PROVE  ValidName(Rel(p, root))
  BY DEF Rel

-----------------------------------------------------------------------------
(* What is asked of hosts.                                                   *)

LEMMA RootIsRoot == RootIsName => Root \in Roots /\ Root # <<>>
  <1>1. Root \in Segments
    BY HostsAssumption DEF Segments
  <1> QED BY <1>1 DEF RootIsName, ValidName, Roots, IsSegment

\* An answer in the form compile.go asks for: the name, clean and relative to the
\* project.  Under a directory named as the root rel takes it for another.
PlainAnswer(path) ==
    ~path.rooted /\ ValidName(path.segs) /\ ~IsStrictPrefix(Root, path.segs)

\* The hosts whose answers rel leaves as they are are those that answer clean names
\* relative to the project, of files that are not under a directory named as the
\* root, if they answer inside the project at all (compile.go:38-40, 115-125).
THEOREM PlainHosts ==
    ASSUME RootIsName
    PROVE  AnswersNames <=>
              \A h \in Hosts : \A n \in DOMAIN h :
                 h[n].ok /\ Rel(h[n].path, Root) # Refused => PlainAnswer(h[n].path)
  <1>1. ASSUME NEW h \in Hosts, NEW n \in DOMAIN h, Rel(h[n].path, Root) # Refused
        PROVE  h[n].path = Unrooted(Rel(h[n].path, Root)) <=> PlainAnswer(h[n].path)
    <2> DEFINE path == h[n].path
               name == Rel(path, Root)
    <2>1. path \in Paths
      <3>1. h[n].path \in [rooted : BOOLEAN, segs : Seq(STRING)]
        BY HostsAssumption
      <3> QED BY <3>1 DEF Paths, Segments
    <2>2. Root \in Roots /\ Root # <<>>
      BY RootIsRoot
    <2> HIDE DEF path
    <2>3. name \in Segments /\ ValidName(name)
      BY <1>1, <2>1, <2>2, RelIsInside DEF path
    <2>4. path.segs \in Segments /\ path = [rooted |-> path.rooted, segs |-> path.segs]
          /\ path.rooted \in BOOLEAN
      BY <2>1 DEF Paths
    <2>5. ASSUME PlainAnswer(path) PROVE path = Unrooted(name)
      <3>1. path = Unrooted(path.segs)
        BY <2>4, <2>5 DEF PlainAnswer, Unrooted
      <3>2. Rel(Unrooted(path.segs), Root) = path.segs
        BY <2>2, <2>4, <2>5, NamesAreFound DEF PlainAnswer
      <3> QED BY <3>1, <3>2
    <2>6. ASSUME path = Unrooted(name) PROVE PlainAnswer(path)
      <3>1. ~path.rooted /\ path.segs = name
        BY <2>6 DEF Unrooted
      <3>2. ASSUME IsStrictPrefix(Root, name) PROVE FALSE
        <4> DEFINE rest == SubSeq(name, Len(Root) + 1, Len(name))
        <4>1. IsPrefix(Root, name) /\ Root \in Segments
          BY <2>2, <3>2 DEF IsStrictPrefix, Roots
        <4>2. rest \in Segments /\ name = Root \o rest
          BY <2>3, <4>1, Rests
        <4> HIDE DEF rest, name
        <4>3. Len(rest) # Len(name)
          <5>1. Len(name) = Len(Root) + Len(rest) /\ Len(Root) \in Nat \ {0} /\ Len(rest) \in Nat
            <6>1. Len(Root) \in Nat \ {0} /\ Len(rest) \in Nat
              BY <2>2, <4>1, <4>2 DEF Segments
            <6> QED BY <4>1, <4>2, <6>1, Joined DEF Segments
          <5> QED BY <5>1
        <4>4. rest # <<>> /\ ValidName(rest)
          <5>1. rest # <<>>
            <6>1. IsStrictPrefix(Root, Root \o rest)
              BY <3>2, <4>2
            <6> QED BY <4>1, <4>2, <6>1, StartsWith DEF Segments
          <5>2. UpFirst(name, 0) /\ 0 \in 0 .. Len(name)
            <6>1. Len(name) \in Nat
              BY <2>3 DEF Segments
            <6>2. UpFirst(name, 0)
              BY <2>3, NamesAreClean
            <6> QED BY <6>1, <6>2
          <5>3. IsClean(FALSE, Root \o rest)
            BY <4>2, <5>2 DEF IsClean
          <5> QED BY <2>2, <4>2, <5>1, <5>3, Below
        <4>5. Rel(Unrooted(Root \o rest), Root) = rest
          BY <2>2, <4>2, <4>4, NamesAreFound
        <4>6. name = rest
          BY <2>6, <4>2, <4>5 DEF name
        <4> QED BY <4>3, <4>6
      <3> QED BY <2>3, <3>1, <3>2 DEF PlainAnswer
    <2> QED BY <2>5, <2>6 DEF path
  <1> HIDE DEF AnswersNames, PlainAnswer
  <1>2. AnswersNames <=> \A h \in Hosts : \A n \in DOMAIN h :
           h[n].ok /\ Rel(h[n].path, Root) # Refused =>
              h[n].path = Unrooted(Rel(h[n].path, Root))
    BY DEF AnswersNames
  <1> QED BY <1>1, <1>2

-----------------------------------------------------------------------------
(* Names stay inside.                                                        *)

\* The last suffix tried is a suffix, so the next one is at most one more.
LEMMA AttemptsFact == Attempts = 15
  BY DEF Attempts, Extensions, Indexes

\* What makes every name that reaches Files a name of the project: each place
\* a name rests in between holds a valid one or none.
Inside == TypeOK /\ NothingClimbsOut /\ EscapeIsReported

LEMMA InitInside == Init => Inside
  <1> SUFFICES ASSUME Init PROVE Inside
    OBVIOUS
  <1>1. DOMAIN served = {}
    BY DEF Init
  <1>2. request.at = 0 /\ 0 \in 0 .. Attempts + 1
    BY AttemptsFact DEF Init, Idle
  <1>3. \A f \in DOMAIN served : ValidName(served[f])
    BY <1>1
  <1>4. host \in Hosts /\ changes \in 0 .. MaxChanges
    BY MaxChangesAssumption DEF Init
  <1>5. found = Refused /\ broken \in BOOLEAN /\ escaped \in BOOLEAN
    BY DEF Init
  <1>6. TypeOK
    BY <1>2, <1>3, <1>4, <1>5 DEF TypeOK
  <1>7. NothingClimbsOut /\ EscapeIsReported
    BY DEF Init, NothingClimbsOut, EscapeIsReported, Nothing, Did
  <1> QED BY <1>6, <1>7 DEF Inside

LEMMA StepInside == Inside /\ [Next]_vars => Inside'
  <1> SUFFICES ASSUME Inside, [Next]_vars PROVE Inside'
    OBVIOUS
  <1> USE DEF Inside
  <1>1. CASE HostChanges
    BY <1>1, MaxChangesAssumption
       DEF HostChanges, TypeOK, NothingClimbsOut, EscapeIsReported, plugin
  <1>2. ASSUME NEW p, NEW i, NEW d, AskResolve(p, i, d) PROVE Inside'
    BY <1>2, AttemptsFact
       DEF AskResolve, TypeOK, NothingClimbsOut, EscapeIsReported, plugin,
           files, Nothing, Did
  <1>3. CASE Probe
    <2> DEFINE name == Rel(Attempt(request.path, request.at), Root)
    <2>1. name # Refused => ValidName(name)
      BY RelFacts
    <2>2. request'.at \in 0 .. IF found' = Refused THEN Attempts + 1
                               ELSE Attempts
      BY <1>3, AttemptsFact DEF Probe, TryNext, TypeOK
    <2>3. /\ found' # Refused => ValidName(found')
          /\ NothingClimbsOut'
      BY <1>3, <2>1 DEF Probe, NothingClimbsOut, Nothing, Did
    <2> QED BY <1>3, <2>2, <2>3
        DEF Probe, TypeOK, EscapeIsReported, plugin, files
  <1>4. CASE AskReal
    <2> DEFINE answer == IF found \in DOMAIN host THEN host[found] ELSE NoAnswer
               name   == RealName(answer)
    <2>1. ValidName(found) /\ found # Refused
      BY <1>4 DEF AskReal, TypeOK
    <2>2. ~Escapes(answer) => ValidName(name)
      BY <2>1, RelFacts DEF Escapes, RealName
    <2>3. found' = Refused /\ request'.at \in 0 .. Attempts + 1
      BY <1>4, AttemptsFact DEF AskReal, TryNext, TypeOK, Idle
    <2>4. \A f \in DOMAIN served' : ValidName(served'[f])
      BY <1>4, <2>2 DEF AskReal, Keep, TypeOK
    <2>5. NothingClimbsOut'
      BY <1>4, <2>1 DEF AskReal, NothingClimbsOut, Did
    <2>6. EscapeIsReported' /\ broken' \in BOOLEAN /\ escaped' \in BOOLEAN
      BY <1>4 DEF AskReal, EscapeIsReported, TypeOK, Escapes, RealName
    <2> QED BY <1>4, <2>3, <2>4, <2>5, <2>6 DEF AskReal, TypeOK, files
  <1>5. CASE Exhausted
    BY <1>5, AttemptsFact
       DEF Exhausted, TypeOK, NothingClimbsOut, EscapeIsReported, plugin,
           files, Did, Idle
  <1>6. ASSUME NEW full, AskLoad(full) PROVE Inside'
    <2>1. Kept(full) # Refused => ValidName(Kept(full))
      BY DEF Kept, TypeOK
    <2>2. NothingClimbsOut'
      BY <1>6, <2>1 DEF AskLoad, NothingClimbsOut, Did, Nothing
    <2> QED BY <1>6, <2>2 DEF AskLoad, TypeOK, EscapeIsReported, files
  <1>7. CASE AskOther
    BY <1>7 DEF AskOther, TypeOK, NothingClimbsOut, EscapeIsReported, files,
                Nothing, Did
  <1>8. CASE UNCHANGED vars
    BY <1>8 DEF vars, files, plugin, TypeOK, NothingClimbsOut, EscapeIsReported
  <1> QED BY <1>1, <1>2, <1>3, <1>4, <1>5, <1>6, <1>7, <1>8 DEF Next

\* compile.go:47-50: no name that climbs out of the project reaches Files.
THEOREM NamesStayInside == Spec => []NothingClimbsOut
  <1>1. Inside => NothingClimbsOut
    BY DEF Inside
  <1> QED BY <1>1, InitInside, StepInside, PTL DEF Spec

\* esbuild.go:384-391: a host that leaves its project fails the build.
THEOREM EscapesAreReported == Spec => []EscapeIsReported
  <1>1. Inside => EscapeIsReported
    BY DEF Inside
  <1> QED BY <1>1, InitInside, StepInside, PTL DEF Spec

\* The plugin's names and flags keep their types.
THEOREM PluginTyping == Spec => []TypeOK
  <1>1. Inside => TypeOK
    BY DEF Inside
  <1> QED BY <1>1, InitInside, StepInside, PTL DEF Spec

-----------------------------------------------------------------------------
(* What a resolve answered, and for which file.                              *)

Module(name) == [full |-> Full(name, Root), file |-> Unrooted(name)]

\* A path a guest may load was answered for the file it is kept for, and each
\* module is a name of the project in its two forms.
Resolved ==
    /\ found # Refused => found \in Seq(STRING)
    /\ \A m \in modules : \E n \in Seq(STRING) : m = Module(n)
    /\ \A f \in DOMAIN served : [full |-> f, file |-> Unrooted(served[f])] \in modules
    /\ ReadsWhatWasResolved

LEMMA FullInjective ==
    ASSUME NEW n \in Seq(STRING), NEW k \in Seq(STRING), Full(n, Root) = Full(k, Root)
    PROVE  n = k
  <1> DEFINE r == Root
             s == r \o n
             t == r \o k
  <1>1. r \in Seq(STRING)
    BY HostsAssumption
  <1>2. s = t
    BY DEF Full, Rooted
  <1> HIDE DEF r
  <1>3. Len(s) = Len(r) + Len(n) /\ Len(t) = Len(r) + Len(k)
    BY <1>1
  <1>4. Len(n) = Len(k)
    BY <1>1, <1>2, <1>3
  <1>5. ASSUME NEW i \in 1 .. Len(n) PROVE n[i] = k[i]
    <2>1. s[Len(r) + i] = n[i] /\ t[Len(r) + i] = k[i]
      BY <1>1, <1>4
    <2> QED BY <1>2, <2>1
  <1> QED BY <1>4, <1>5

\* What a resolve keeps is the name of the module it answers.
LEMMA KeptIsModule ==
    ASSUME AnswersNames, host \in Hosts, found \in Seq(STRING),
           NEW answer, answer = (IF found \in DOMAIN host THEN host[found] ELSE NoAnswer),
           ~Escapes(answer)
    PROVE  /\ RealName(answer) \in Seq(STRING)
           /\ (IF answer.ok THEN answer.path ELSE Unrooted(found))
                  = Unrooted(RealName(answer))
  <1>1. CASE found \in DOMAIN host /\ host[found].ok
    <2>1. answer = host[found] /\ RealName(answer) = Rel(host[found].path, Root)
      BY <1>1 DEF RealName
    <2>2. RealName(answer) # Refused
      BY <1>1, <2>1 DEF Escapes
    <2>3. answer.path = Unrooted(RealName(answer))
      BY <1>1, <2>1, <2>2 DEF AnswersNames
    <2>4. answer.path.segs \in Seq(STRING)
      BY <1>1, <2>1, HostsAssumption
    <2>5. answer.path.segs = RealName(answer)
      BY <2>3 DEF Unrooted
    <2> QED BY <1>1, <2>1, <2>3, <2>4, <2>5
  <1>2. CASE ~(found \in DOMAIN host /\ host[found].ok)
    <2>1. ~answer.ok
      BY <1>2 DEF NoAnswer
    <2> QED BY <2>1 DEF RealName
  <1> QED BY <1>1, <1>2

LEMMA InitResolved == Init => Resolved
  <1> SUFFICES ASSUME Init PROVE Resolved
    OBVIOUS
  <1>1. DOMAIN served = {} /\ modules = {} /\ found = Refused /\ last = Nothing
    BY DEF Init
  <1> QED BY <1>1 DEF Resolved, ReadsWhatWasResolved, Nothing, Did

LEMMA StepResolved == AnswersNames /\ Inside /\ Resolved /\ [Next]_vars => Resolved'
  <1> SUFFICES ASSUME AnswersNames, Inside, Resolved, [Next]_vars PROVE Resolved'
    OBVIOUS
  <1>1. CASE HostChanges \/ UNCHANGED vars
    BY <1>1 DEF HostChanges, vars, plugin, Resolved, ReadsWhatWasResolved
  <1>2. ASSUME NEW p, NEW i, NEW d, AskResolve(p, i, d) PROVE Resolved'
    BY <1>2 DEF AskResolve, plugin, Resolved, ReadsWhatWasResolved, Nothing, Did
  <1>3. CASE Probe
    <2>1. found' = found \/ found' \in DOMAIN host
      BY <1>3 DEF Probe
    <2>2. found' # Refused => found' \in Seq(STRING)
      BY <2>1, HostsAssumption DEF Inside, TypeOK, Resolved
    <2>3. last'.call \in {"none", "exists"}
      BY <1>3 DEF Probe, Nothing, Did
    <2> QED BY <1>3, <2>2, <2>3 DEF Probe, plugin, Resolved, ReadsWhatWasResolved
  <1>4. CASE AskReal
    <2> DEFINE answer == IF found \in DOMAIN host THEN host[found] ELSE NoAnswer
               name   == RealName(answer)
    <2>1. found' = Refused /\ last'.call = "realpath"
      BY <1>4 DEF AskReal, Did
    <2>2. CASE Escapes(answer)
      BY <1>4, <2>1, <2>2 DEF AskReal, Resolved, ReadsWhatWasResolved
    <2>3. CASE ~Escapes(answer)
      <3>1. /\ name \in Seq(STRING)
            /\ (IF answer.ok THEN answer.path ELSE Unrooted(found)) = Unrooted(name)
        BY <1>4, <2>3, KeptIsModule DEF AskReal, Resolved, Inside, TypeOK
      <3>2. Keep(name) /\ modules' = modules \cup {Module(name)}
        BY <1>4, <2>3, <3>1 DEF AskReal, Module
      <3>3. \A m \in modules' : \E n \in Seq(STRING) : m = Module(n)
        BY <3>1, <3>2 DEF Resolved
      <3>4. ASSUME NEW f \in DOMAIN served'
            PROVE  [full |-> f, file |-> Unrooted(served'[f])] \in modules'
        <4>1. CASE f = Full(name, Root)
          <5>1. served'[f] = name
            BY <3>2, <3>4, <4>1 DEF Keep
          <5> QED BY <3>2, <4>1, <5>1 DEF Module
        <4>2. CASE f # Full(name, Root)
          <5>1. f \in DOMAIN served /\ served'[f] = served[f]
            BY <3>2, <3>4, <4>2 DEF Keep
          <5> QED BY <3>2, <5>1 DEF Resolved
        <4> QED BY <4>1, <4>2
      <3> QED BY <2>1, <3>3, <3>4 DEF Resolved, ReadsWhatWasResolved
    <2> QED BY <2>2, <2>3
  <1>5. CASE Exhausted \/ AskOther
    BY <1>5 DEF Exhausted, AskOther, plugin, Resolved, ReadsWhatWasResolved, Nothing, Did
  <1>6. ASSUME NEW full, AskLoad(full) PROVE Resolved'
    <2>1. CASE last' = Nothing
      BY <1>6, <2>1 DEF AskLoad, Resolved, ReadsWhatWasResolved, Nothing, Did
    <2>2. CASE last' # Nothing
      <3>1. Kept(full) # Refused
        BY <1>6, <2>2 DEF AskLoad
      <3>2. full \in DOMAIN served /\ Kept(full) = served[full]
        BY <3>1 DEF Kept
      <3>3. last'.path = full /\ last'.name = served[full]
        BY <1>6, <2>2, <3>2 DEF AskLoad, Did
      <3>4. [full |-> full, file |-> Unrooted(served[full])] \in modules
        BY <3>2 DEF Resolved
      <3>5. ReadsWhatWasResolved'
        BY <1>6, <3>3, <3>4 DEF AskLoad, ReadsWhatWasResolved
      <3> QED BY <1>6, <3>5 DEF AskLoad, Resolved
    <2> QED BY <2>1, <2>2
  <1> QED BY <1>1, <1>2, <1>3, <1>4, <1>5, <1>6 DEF Next

\* A load reads the file its path was resolved for, and no other, of any host
\* whose answers rel leaves as they are (esbuild.go:246-249, 372-375).
THEOREM LoadsAreOfResolves ==
    ASSUME AnswersNames
    PROVE  Spec => []ReadsWhatWasResolved
  <1>1. Init => Inside /\ Resolved
    BY InitInside, InitResolved
  <1>2. (Inside /\ Resolved) /\ [Next]_vars => (Inside /\ Resolved)'
    BY StepInside, StepResolved
  <1>3. Resolved => ReadsWhatWasResolved
    BY DEF Resolved
  <1> QED BY <1>1, <1>2, <1>3, PTL DEF Spec

\* Imports that reach one file through different names are one module, and two
\* files are two, of any such host (esbuild.go:373-375, 394-396).
THEOREM ModulesAreFiles ==
    ASSUME AnswersNames
    PROVE  Spec => []OneModulePerFile
  <1>1. Init => Inside /\ Resolved
    BY InitInside, InitResolved
  <1>2. (Inside /\ Resolved) /\ [Next]_vars => (Inside /\ Resolved)'
    BY StepInside, StepResolved
  <1>3. ASSUME Resolved, NEW m \in modules, NEW n \in modules
        PROVE  m.full = n.full <=> m.file = n.file
    <2>1. PICK a \in Seq(STRING) : m = Module(a)
      BY <1>3 DEF Resolved
    <2>2. PICK b \in Seq(STRING) : n = Module(b)
      BY <1>3 DEF Resolved
    <2>3. m.full = n.full => a = b
      BY <2>1, <2>2, FullInjective DEF Module
    <2>4. m.file = n.file => a = b
      BY <2>1, <2>2 DEF Module, Unrooted
    <2> QED BY <2>1, <2>2, <2>3, <2>4
  <1>4. Resolved => OneModulePerFile
    BY <1>3 DEF OneModulePerFile
  <1> QED BY <1>1, <1>2, <1>4, PTL DEF Spec

-----------------------------------------------------------------------------
(* What was resolved can be read, until the host changes.                    *)

\* Readable, of the host as it is.
Reads(h, name) == name \in DOMAIN h /\ (h[name].ok => h[name].path = Unrooted(name))

Unchanged ==
    changes = 0 =>
        /\ found # Refused => found \in DOMAIN host
        /\ \A f \in DOMAIN served : Reads(host, served[f])
        /\ ResolvedLoads

LEMMA InitUnchanged == Init => Unchanged
  <1> SUFFICES ASSUME Init PROVE Unchanged
    OBVIOUS
  <1>1. DOMAIN served = {} /\ found = Refused /\ last = Nothing
    BY DEF Init
  <1> QED BY <1>1 DEF Unchanged, ResolvedLoads, Nothing, Did

LEMMA StepUnchanged == ReadsUnderAnswers /\ Inside /\ Unchanged /\ [Next]_vars => Unchanged'
  <1> SUFFICES ASSUME ReadsUnderAnswers, Inside, Unchanged, [Next]_vars, changes' = 0
               PROVE  Unchanged'
    BY DEF Unchanged
  <1>1. changes \in Nat /\ ~HostChanges
    <2>1. changes \in Nat
      BY MaxChangesAssumption DEF Inside, TypeOK
    <2> QED BY <2>1 DEF HostChanges
  <1>2. host' = host /\ changes = 0
    BY <1>1 DEF Next, vars, files, AskResolve, Probe, AskReal, Exhausted, AskLoad, AskOther
  <1>3. /\ found # Refused => found \in DOMAIN host
        /\ \A f \in DOMAIN served : Reads(host, served[f])
        /\ last.call # "missing"
    BY <1>2 DEF Unchanged, ResolvedLoads
  <1>4. ASSUME found' # Refused => found' \in DOMAIN host,
               \A f \in DOMAIN served' : Reads(host, served'[f]),
               last'.call # "missing"
        PROVE  Unchanged'
    BY <1>2, <1>4 DEF Unchanged, ResolvedLoads
  <1>5. CASE UNCHANGED vars
    BY <1>3, <1>4, <1>5 DEF vars, plugin
  <1>6. ASSUME NEW p, NEW i, NEW d, AskResolve(p, i, d) PROVE Unchanged'
    <2>1. UNCHANGED <<found, served>> /\ last'.call # "missing"
      BY <1>6 DEF AskResolve, plugin, Nothing, Did
    <2> QED BY <1>3, <1>4, <2>1
  <1>7. CASE Probe
    <2>1. served' = served /\ last'.call # "missing"
      BY <1>7 DEF Probe, plugin, Nothing, Did
    <2>2. found' = found \/ found' \in DOMAIN host
      BY <1>7 DEF Probe
    <2> QED BY <1>3, <1>4, <2>1, <2>2
  <1>8. CASE AskReal
    <2> DEFINE answer == IF found \in DOMAIN host THEN host[found] ELSE NoAnswer
               name   == RealName(answer)
    <2>1. found' = Refused /\ last'.call # "missing"
      BY <1>8 DEF AskReal, Did
    <2>2. found \in DOMAIN host /\ answer = host[found]
      BY <1>3, <1>8 DEF AskReal
    <2>3. CASE Escapes(answer)
      <3>1. served' = served
        BY <1>8, <2>3 DEF AskReal
      <3> QED BY <1>3, <1>4, <2>1, <3>1
    <2>4. CASE ~Escapes(answer)
      <3>1. Reads(host, name)
        <4>1. CASE answer.ok
          <5>1. name = Rel(host[found].path, Root) /\ name # Refused
            BY <2>2, <2>4, <4>1 DEF Escapes, RealName
          <5>2. host \in Hosts
            BY DEF Inside, TypeOK
          <5> QED BY <2>2, <4>1, <5>1, <5>2 DEF ReadsUnderAnswers, Reads
        <4>2. CASE ~answer.ok
          BY <2>2, <4>2 DEF RealName, Reads
        <4> QED BY <4>1, <4>2
      <3>2. Keep(name)
        BY <1>8, <2>4 DEF AskReal
      <3> HIDE DEF name
      <3>3. \A f \in DOMAIN served' :
                served'[f] = name \/ (f \in DOMAIN served /\ served'[f] = served[f])
        BY <3>2 DEF Keep
      <3>4. \A f \in DOMAIN served' : Reads(host, served'[f])
        BY <1>3, <3>1, <3>3
      <3> QED BY <1>4, <2>1, <3>4
    <2> QED BY <2>3, <2>4
  <1>9. CASE Exhausted \/ AskOther
    <2>1. UNCHANGED <<found, served>> /\ last'.call # "missing"
      BY <1>9 DEF Exhausted, AskOther, plugin, Nothing, Did
    <2> QED BY <1>3, <1>4, <2>1
  <1>10. ASSUME NEW full, AskLoad(full) PROVE Unchanged'
    <2>1. Kept(full) # Refused => Readable(Kept(full))
      BY <1>3 DEF Kept, Readable, Reads
    <2>2. UNCHANGED <<found, served>> /\ last'.call # "missing"
      BY <1>10, <2>1 DEF AskLoad, Nothing, Did
    <2> QED BY <1>3, <1>4, <2>2
  <1> QED BY <1>1, <1>5, <1>6, <1>7, <1>8, <1>9, <1>10 DEF Next

\* What a resolve answered for can be read as long as the host stays as it was, of
\* any host that reads under the names it answers with (compile.go:60-61).
THEOREM ResolvedCanBeRead ==
    ASSUME ReadsUnderAnswers
    PROVE  Spec => []ResolvedLoads
  <1>1. Init => Inside /\ Unchanged
    BY InitInside, InitUnchanged
  <1>2. (Inside /\ Unchanged) /\ [Next]_vars => (Inside /\ Unchanged)'
    BY StepInside, StepUnchanged
  <1>3. Unchanged => ResolvedLoads
    BY DEF Unchanged, ResolvedLoads
  <1> QED BY <1>1, <1>2, <1>3, PTL DEF Spec

-----------------------------------------------------------------------------
(* Whether an entry resolves.                                                *)

\* While the host serves what Bundle found and stays in its project, no suffix is
\* tried after the name of an entry itself.
Entered ==
    /\ entry = EntryNames
    /\ changes = 0 => Accepted(host)
    /\ (changes = 0 /\ ~escaped /\ request # Idle) =>
          \A n \in entry : request.path = Full(n, Root) => request.at = 1
    /\ EntriesFound

LEMMA InitEntered == Init => Entered
  BY DEF Init, Entered, EntriesFound, Nothing, Did

\* An entry's own name is the first candidate, and rel finds it again.
LEMMA EntryIsFirst ==
    ASSUME RootIsName, NEW n \in EntryNames, n # Refused
    PROVE  Rel(Attempt(Full(n, Root), 1), Root) = n
  <1>1. 1 <= Len(Extensions) /\ Extensions[1] = ""
    BY DEF Extensions
  <1>2. Attempt(Full(n, Root), 1) = Full(n, Root)
    BY <1>1 DEF Attempt, Extended
  <1>3. Root \in Roots /\ Root # <<>>
    BY RootIsRoot
  <1>4. PICK e \in Entries : n = Rel(e, Root)
    BY DEF EntryNames
  <1>5. e \in Paths
    BY EntriesAssumption DEF Paths, Segments
  <1>6. n \in Segments /\ ValidName(n)
    BY <1>3, <1>4, <1>5, RelIsInside
  <1> QED BY <1>2, <1>3, <1>6, NamesAreFound

LEMMA StepEntered == RootIsName /\ Inside /\ Entered /\ [Next]_vars => Entered'
  <1> SUFFICES ASSUME RootIsName, Inside, Entered, [Next]_vars PROVE Entered'
    OBVIOUS
  <1>1. CASE HostChanges
    <2>1. changes' # 0
      <3>1. changes \in Nat
        BY MaxChangesAssumption DEF Inside, TypeOK
      <3> QED BY <1>1, <3>1 DEF HostChanges
    <2> QED BY <1>1, <2>1 DEF HostChanges, Entered, EntriesFound
  <1>2. CASE UNCHANGED vars
    BY <1>2 DEF vars, files, plugin, Entered, EntriesFound, Accepted
  <1>3. ASSUME NEW p, NEW i, NEW d, AskResolve(p, i, d) PROVE Entered'
    <2>1. request'.at = 1 /\ last' = Nothing /\ UNCHANGED <<files, escaped>>
      BY <1>3 DEF AskResolve
    <2> QED BY <2>1 DEF files, Entered, EntriesFound, Accepted, Nothing, Did
  <1>4. CASE Probe
    <2>1. /\ UNCHANGED <<files, escaped>> /\ request # Idle
          /\ last'.call \in {"none", "exists"} /\ request'.path = request.path
      BY <1>4 DEF Probe, TryNext, Nothing, Did
    <2>2. ASSUME changes = 0, ~escaped, NEW n \in entry, request.path = Full(n, Root)
          PROVE  UNCHANGED request
      <3>1. request.at = 1 /\ n \in EntryNames /\ Accepted(host)
        BY <2>1, <2>2 DEF Entered
      <3>2. n # Refused /\ n \in DOMAIN host
        BY <3>1 DEF Accepted
      <3>3. Rel(Attempt(request.path, request.at), Root) = n
        BY <2>2, <3>1, <3>2, EntryIsFirst
      <3> QED BY <1>4, <3>2, <3>3 DEF Probe
    <2>3. EntriesFound'
      BY <2>1 DEF EntriesFound
    <2> QED BY <2>1, <2>2, <2>3 DEF files, Entered, Accepted
  <1>5. CASE AskReal
    <2> DEFINE answer == IF found \in DOMAIN host THEN host[found] ELSE NoAnswer
    <2>1. UNCHANGED files /\ last'.call = "realpath"
      BY <1>5 DEF AskReal, Did
    <2>2. escaped' \/ (~escaped' /\ request' = Idle)
      BY <1>5 DEF AskReal, Escapes, RealName
    <2>3. EntriesFound'
      BY <2>1 DEF EntriesFound
    <2> QED BY <2>1, <2>2, <2>3 DEF files, Entered, Accepted
  <1>6. CASE Exhausted
    <2>1. /\ UNCHANGED <<files, escaped>> /\ request # Idle /\ request' = Idle
          /\ request.at > Attempts /\ last'.path = request.path
      BY <1>6 DEF Exhausted, Did
    <2>2. request.at # 1
      BY <2>1, AttemptsFact
    <2>3. EntriesFound'
      BY <2>1, <2>2 DEF files, Entered, EntriesFound
    <2> QED BY <2>1, <2>3 DEF files, Entered, Accepted
  <1>7. ASSUME NEW full, AskLoad(full) PROVE Entered'
    <2>1. UNCHANGED <<files, escaped, request>> /\ last'.call # "unknown"
      BY <1>7 DEF AskLoad, Nothing, Did
    <2> QED BY <2>1 DEF files, Entered, EntriesFound, Accepted
  <1>8. CASE AskOther
    <2>1. UNCHANGED <<files, escaped, request>> /\ last'.call # "unknown"
      BY <1>8 DEF AskOther, Nothing, Did
    <2> QED BY <2>1 DEF files, Entered, EntriesFound, Accepted
  <1> QED BY <1>1, <1>2, <1>3, <1>4, <1>5, <1>6, <1>7, <1>8 DEF Next

\* An entry Bundle accepted is one the guest can resolve, whatever it is and however
\* the caller spelt it, of a project whose root is not "/" (compile.go:86-89,
\* esbuild.go:98-105).
THEOREM EntriesResolve ==
    ASSUME RootIsName
    PROVE  Spec => []EntriesFound
  <1>1. Init => Inside /\ Entered
    BY InitInside, InitEntered
  <1>2. (Inside /\ Entered) /\ [Next]_vars => (Inside /\ Entered)'
    BY StepInside, StepEntered
  <1>3. Entered => EntriesFound
    BY DEF Entered
  <1> QED BY <1>1, <1>2, <1>3, PTL DEF Spec
=============================================================================
