-------------------------------- MODULE Tree --------------------------------
(* A project as a guest's filesystem (compile/files.go): tree answers Open,  *)
(* Stat and the pages of an open directory by asking Files one question at a *)
(* time, and what Files serves may change between any two of them.           *)
(* Map is the Files of this package; a host may also have aliases, list what *)
(* it should not, and fail to read.  A name is its segments, "." is <<>>.    *)
EXTENDS Names, FiniteSets

CONSTANTS
    Hosts,      \* what Files may be: [files, links, extra] records, see below
    Asked,      \* the names a guest may ask for
    Sizes,      \* the page sizes it may ask for, 0 for all that is left
    Rank,       \* the order of sort.Strings on the segments of names
    Config,     \* the name of tsconfig.json
    Entry,      \* what Project.names gives Check
    Synthetic,  \* the contents Check synthesizes for Config
    NoBytes,    \* the contents of an empty file
    Unreadable, \* the contents of a file that ReadFile fails on
    MaxChanges  \* bound: how often what the host serves changes

ASSUME ConfigAssumption == ValidName(Config) /\ Config \in Seq(DOMAIN Rank)
ASSUME AskedAssumption == Asked \subseteq Seq(DOMAIN Rank)
ASSUME RankAssumption ==
    /\ IsFiniteSet(DOMAIN Rank)
    /\ \A s \in DOMAIN Rank : Rank[s] \in Nat
    /\ IsInjective(Rank)
ASSUME SizesAssumption == Sizes \subseteq Int
ASSUME MaxChangesAssumption == MaxChanges \in Nat
ASSUME SyntheticAssumption == Synthetic # Unreadable

VARIABLES
    host, changes,  \* what Files serves now; how often that changed
    over,           \* tree.over: the files the host synthesized
    call,           \* the guest's call: [op, name, size], or Idle
    at,             \* where it is: the next question to ask Files
    subject,        \* the name it is looking at
    under,          \* the name Realpath gave that one
    todo, out,      \* ReadDir: the names left to look at, the entries made
    dir,            \* the open directory: [name, at], or NoDir
    asked,          \* history: the last name given to Files
    said,           \* history: the last thing the guest was told of a name
    seen,           \* history: what the host served during that call
    given,          \* history: the entries given since dir was opened
    steady, ended   \* history: no change, and no more entries, since then

now     == <<host, changes, over>>
work    == <<call, at, subject, under, todo, out>>
listing == <<given, steady, ended>>
vars    == <<now, work, dir, asked, said, seen, listing>>

At(path) == [ok |-> TRUE, path |-> path]
NoAnswer == [ok |-> FALSE, path |-> Empty]
Idle     == [op |-> "none", name |-> <<>>, size |-> 0]
NoDir    == [name |-> <<"">>, at |-> 0]

\* What a guest is told a name is.
File(bytes) == [kind |-> "file", bytes |-> bytes]
IsADir      == [kind |-> "dir", bytes |-> NoBytes]
NotThere    == [kind |-> "none", bytes |-> NoBytes]
NotADir     == [kind |-> "nodir", bytes |-> NoBytes]
Invalid     == [kind |-> "invalid", bytes |-> NoBytes]

Told(name, is, listed) == [name |-> name, is |-> is, listed |-> listed]
Unsaid == Told(<<"">>, Invalid, FALSE)

-----------------------------------------------------------------------------
(* Map, and what another host may add to it: `links` are the names Realpath  *)
(* answers otherwise for, `extra` what Entries lists besides.                *)

\* clean: "" is the project itself.
Key(segs)   == Clean(Rooted(segs)).segs
Spell(segs) == Unrooted(IF segs = <<>> THEN <<"">> ELSE segs)

\* The bare names directly under a directory that the keys imply.
Below(keys, name) ==
    {k[Len(name) + 1] : k \in {k \in keys : IsStrictPrefix(name, k)}}

FileExists(h, segs) == Key(segs) \in DOMAIN h.files
DirExists(h, segs)  == Key(segs) = <<>> \/ Below(DOMAIN h.files, Key(segs)) # {}

ReadFile(h, segs) ==
    IF FileExists(h, segs) THEN h.files[Key(segs)] ELSE Unreadable

Listed(h, segs) == IF segs \in DOMAIN h.extra THEN h.extra[segs] ELSE {}
Entries(h, segs) ==
    IF DirExists(h, segs)
    THEN {<<s>> : s \in Below(DOMAIN h.files, Key(segs))} \cup Listed(h, segs)
    ELSE {}

Realpath(h, segs) ==
    CASE segs \in DOMAIN h.links -> h.links[segs]
      [] segs \notin DOMAIN h.links /\ (FileExists(h, segs) \/ DirExists(h, segs))
            -> At(Spell(Key(segs)))
      [] OTHER -> NoAnswer

\* fs.ValidPath, with ".".
ValidPath(p) == ~p.rooted /\ (p.segs = <<>> \/ ValidName(p.segs))

-----------------------------------------------------------------------------
(* Check makes the tree: a project without a tsconfig.json gets one, unless  *)
(* it has no entry and no file either and there is nothing to check.         *)
Checked(h) == FileExists(h, Config) \/ Entry # {} \/ Entries(h, <<>>) # {}
Over(h) == IF FileExists(h, Config) THEN <<>>
           ELSE [n \in {Config} |-> Synthetic]

Init ==
    /\ host \in {h \in Hosts : Checked(h)} /\ changes = 0
    /\ over = Over(host)
    /\ call = Idle /\ at = "idle" /\ subject = <<>> /\ under = Empty
    /\ todo = {} /\ out = <<>> /\ dir = NoDir
    /\ asked = Empty
    /\ said = Unsaid
    /\ seen = {host}
    /\ given = <<>> /\ steady = TRUE /\ ended = FALSE

HostChanges ==
    /\ changes < MaxChanges
    /\ changes' = changes + 1
    /\ host' \in Hosts \ {host}
    /\ seen' = IF call = Idle THEN seen ELSE seen \cup {host'}
    /\ steady' = FALSE
    /\ UNCHANGED <<over, work, dir, asked, said, given, ended>>

-----------------------------------------------------------------------------
(* The guest's calls.                                                        *)

Begin(op, name, size, first) ==
    /\ call = Idle
    /\ call' = [op |-> op, name |-> name, size |-> size]
    /\ at' = first /\ subject' = name
    /\ seen' = {host}
    /\ todo' = {} /\ out' = <<>>
    /\ said' = Unsaid
    /\ UNCHANGED <<now, under, dir, asked, listing>>

\* Open and Stat refuse a name that is not one before anything is asked.
Refuse(name) ==
    /\ call = Idle
    /\ said' = Told(name, Invalid, FALSE)
    /\ seen' = {host}
    /\ UNCHANGED <<now, work, dir, asked, listing>>

Open(name) == IF ValidPath(Unrooted(name)) THEN Begin("open", name, 0, "read")
              ELSE Refuse(name)
Stat(name) == IF ValidPath(Unrooted(name)) THEN Begin("stat", name, 0, "dir")
              ELSE Refuse(name)
Page(size) == dir # NoDir /\ Begin("page", dir.name, size, "top")

\* A directory that Open answered is open from its first entry.
Opens(is) ==
    IF call.op = "open" /\ is = IsADir
    THEN /\ dir' = [name |-> call.name, at |-> 0]
         /\ given' = <<>> /\ steady' = TRUE /\ ended' = FALSE
    ELSE UNCHANGED <<dir, listing>>

Finish == call' = Idle /\ at' = "idle" /\ UNCHANGED <<subject, under, todo, out>>

\* ReadDir goes on with the first name left, by sort.Strings.
Advance(left) ==
    IF left = {}
    THEN at' = "slice" /\ todo' = {} /\ UNCHANGED subject
    ELSE \E s \in left :
            /\ \A t \in left : Rank[s] <= Rank[t]
            /\ todo' = left \ {s}
            /\ subject' = Append(call.name, s)
            /\ at' = "dir"

\* What the two lookups found: the call's answer, or one more entry.
Settle(is) ==
    /\ said' = Told(subject, is, call.op = "page")
    /\ IF call.op = "page"
       THEN /\ out' = Append(out, [name |-> Last(subject), is |-> is])
            /\ Advance(todo)
            /\ UNCHANGED <<call, under, dir, listing>>
       ELSE Finish /\ Opens(is)

Go(next) == at' = next /\ UNCHANGED <<call, subject, todo, out, said, dir, listing>>

-----------------------------------------------------------------------------
(* read: the synthesized file, or Realpath, FileExists and ReadFile.         *)

\* Open tries a directory after a file, Stat and ReadDir the other way round; a
\* listed name that cannot be read is listed as an empty file.
ReadFails ==
    CASE call.op = "open" -> Go("dir") /\ UNCHANGED under
      [] call.op = "stat" -> Settle(NotThere)
      [] call.op = "page" -> Settle(File(NoBytes))

Leaves_Unchecked(real) == FALSE
Leaves(real) == real.ok /\ ~ValidPath(real.path)

Shadowed_Not(name) == FALSE
Shadowed(name) == name \in DOMAIN over

ReadOver ==
    /\ at = "read" /\ Shadowed(subject)
    /\ Settle(File(over[subject]))
    /\ UNCHANGED <<now, asked, seen>>

AskReal ==
    /\ at = "read" /\ ~Shadowed(subject)
    /\ asked' = Unrooted(subject)
    /\ LET real == Realpath(host, subject)
       IN IF Leaves(real) THEN ReadFails
          ELSE /\ under' = IF real.ok THEN real.path ELSE Unrooted(subject)
               /\ Go("exists")
    /\ UNCHANGED <<now, seen>>

Exists ==
    /\ at = "exists"
    /\ asked' = under
    /\ IF FileExists(host, under.segs) THEN Go("bytes") /\ UNCHANGED under
       ELSE ReadFails
    /\ UNCHANGED <<now, seen>>

Bytes ==
    /\ at = "bytes"
    /\ asked' = under
    /\ LET bytes == ReadFile(host, under.segs)
       IN IF bytes = Unreadable THEN ReadFails ELSE Settle(File(bytes))
    /\ UNCHANGED <<now, seen>>

-----------------------------------------------------------------------------
(* isDir, ReadDir and openDir.ReadDir.                                       *)

IsDir(h, name) == name = <<>> \/ DirExists(h, name) \/ Below(DOMAIN over, name) # {}
AskDir == asked' = IF subject = <<>> THEN asked ELSE Unrooted(subject)

AskIsDir ==
    /\ at = "dir"
    /\ AskDir
    /\ IF IsDir(host, subject) THEN Settle(IsADir)
       ELSE IF call.op = "open" THEN Settle(NotThere)
       ELSE Go("read") /\ UNCHANGED under
    /\ UNCHANGED <<now, seen>>

Top ==
    /\ at = "top"
    /\ AskDir
    /\ IF IsDir(host, subject)
       THEN Go("list") /\ UNCHANGED under
       ELSE /\ said' = Told(subject, NotADir, FALSE)
            /\ Finish
            /\ UNCHANGED <<dir, listing>>
    /\ UNCHANGED <<now, seen>>

\* A listing is bare names: one with a separator, or a parent, is left out.
Bare_Trusting(entries) == {Last(e) : e \in entries}
Bare(entries) == {Last(e) : e \in {e \in entries : Len(e) = 1
                                                    /\ e[1] \notin {".", ".."}}}

\* Rank orders every name a listing may have.
ASSUME ListedAssumption ==
    \A h \in Hosts, name \in Asked : Bare(Entries(h, name)) \subseteq DOMAIN Rank

Listing(h, name) == Bare(Entries(h, name)) \cup Below(DOMAIN over, name)

List ==
    /\ at = "list"
    /\ asked' = Unrooted(subject)
    /\ Advance(Listing(host, subject))
    /\ UNCHANGED <<now, call, under, out, dir, said, seen, listing>>

\* openDir.ReadDir: what is left from the position on, at most a page of it.
Position_PageSize(from, rest, size) == from + size
Position(from, rest, size) == from + rest

Slice ==
    /\ at = "slice"
    /\ LET left == IF dir.at < Len(out) THEN Len(out) - dir.at ELSE 0
           rest == IF call.size > 0 /\ call.size < left THEN call.size ELSE left
       IN /\ dir' = [name |-> dir.name, at |-> Position(dir.at, rest, call.size)]
          /\ given' = given \o SubSeq(out, dir.at + 1, dir.at + rest)
          /\ ended' = (ended \/ left = 0 \/ call.size = 0)
    /\ Finish
    /\ UNCHANGED <<now, asked, said, seen, steady>>

Next ==
    \/ HostChanges
    \/ \E name \in Asked : Open(name) \/ Stat(name)
    \/ \E size \in Sizes : Page(size)
    \/ ReadOver \/ AskReal \/ Exists \/ Bytes \/ AskIsDir \/ Top \/ List \/ Slice

Spec == Init /\ [][Next]_vars

-----------------------------------------------------------------------------
(* Properties.  A definition named <Definition>_<Bug> above is the mutant of *)
(* that definition a check uses; nothing else uses it.                       *)

Kinds == {"file", "dir", "none", "nodir", "invalid"}

TypeOK ==
    /\ host \in Hosts /\ changes \in 0 .. MaxChanges
    /\ DOMAIN over \subseteq {Config}
    /\ call.op \in {"none", "open", "stat", "page"}
    /\ at \in {"idle", "read", "exists", "bytes", "dir", "top", "list", "slice"}
    /\ (call = Idle) <=> (at = "idle")
    /\ at = "exists" \/ at = "bytes" => ValidPath(under) \/ under = Unrooted(subject)
    /\ todo \subseteq DOMAIN Rank
    /\ said.is.kind \in Kinds
    /\ dir.at \in 0 .. Cardinality(DOMAIN Rank)
    /\ steady \in BOOLEAN /\ ended \in BOOLEAN

\* files.go:121-131, 160-166: whatever the guest asks, the host lists and
\* Realpath answers, no name that leaves the project is asked of Files.
NothingLeaves ==
    ~asked.rooted /\ \A i \in DOMAIN asked.segs : asked.segs[i] \notin {".", ".."}

\* What a name holds in one view of the host: the contents read under the name
\* Realpath gives it; a synthesized file holds what was synthesized.
Holds(h, name) ==
    LET real == Realpath(h, name)
    IN CASE name \in DOMAIN over -> over[name]
         [] name \notin DOMAIN over /\ ~real.ok -> ReadFile(h, name)
         [] name \notin DOMAIN over /\ real.ok ->
              IF ValidPath(real.path) THEN ReadFile(h, real.path.segs) ELSE Unreadable

\* What it is: a file, a directory, both (a Map with the keys "a" and "a/b") or
\* neither.
Is(h, name) ==
    {f \in {File(Holds(h, name))} : Holds(h, name) # Unreadable}
    \cup {d \in {IsADir} : IsDir(h, name)}

\* The host says the same of a name each time it can be asked in this call.
Settled(name) ==
    \A h, g \in seen : Is(h, name) = Is(g, name) /\ Realpath(h, name) = Realpath(g, name)

\* What may be said of a name: what it is, that it is not there or no directory,
\* or that it is no name; a listed name that is not there is an empty file.
Right(h, s) ==
    \/ s.is \in Is(h, s.name)
    \/ s.is = NotThere /\ Is(h, s.name) = {}
    \/ s.is = NotADir /\ IsADir \notin Is(h, s.name)
    \/ s.is = Invalid /\ ~ValidPath(Unrooted(s.name))
    \/ s.is = File(NoBytes) /\ s.listed /\ Is(h, s.name) = {}

\* Open, Stat and a listing are one view of one tree: of a name about which the
\* host does not change its mind in between, each says what it is, though they
\* ask in different orders (files.go:194-246).
SaysWhatIsThere ==
    (said # Unsaid /\ Settled(said.name)) => \A h \in seen : Right(h, said)

\* On a project that does not change, the pages of a directory give each of its
\* entries once, and all of them by the time the guest is told there are no
\* more, however large its pages are: the listing is made anew for each of them
\* (files.go:292-309).
PagesAreTheListing ==
    (steady /\ dir # NoDir) =>
        LET names == [i \in DOMAIN given |-> given[i].name]
            all   == Listing(host, dir.name)
        IN /\ IsInjective(names)
           /\ Range(names) \subseteq all
           /\ ended => all \subseteq Range(names)
=============================================================================
