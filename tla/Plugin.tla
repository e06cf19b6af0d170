------------------------------- MODULE Plugin -------------------------------
(* The host half of esbuild's plugin protocol (compile/esbuild.go:242-397):  *)
(* the guest asks what an import is and then for its bytes, and the host     *)
(* answers out of the project.  One request is answered at a time, but       *)
(* answering one takes several calls on Files, and what the host serves may  *)
(* change between any two of them.                                           *)
EXTENDS Names, FiniteSets

CONSTANTS
    Root,       \* the segments of the project's root, <<>> for "/"
    Hosts,      \* what Files may be: functions from the names it serves
    Entries,    \* what Project.Entry names
    Imports,    \* what a guest may ask a resolve for
    Importers,  \* who it may say imports it
    Dirs,       \* the directories it may say to resolve in
    Unasked,    \* paths it may load though it never resolved them
    Loadable,   \* the base names whose extension has a loader
    MaxChanges  \* bound: how often what the host serves changes

ASSUME MaxChangesAssumption == MaxChanges \in Nat
ASSUME EntriesAssumption == \A e \in Entries : e \in [rooted : BOOLEAN, segs : Seq(STRING)]
ASSUME HostsAssumption ==
    /\ Root \in Seq(STRING)
    /\ \A h \in Hosts : \A n \in DOMAIN h :
          /\ n \in Seq(STRING)
          /\ h[n] \in [ok : BOOLEAN, path : [rooted : BOOLEAN, segs : Seq(STRING)]]

\* The project has a label for a root: a clean one, and not "/" (compile.go:67-69).
RootIsName == ValidName(Root)

\* A host answers Realpath with names relative to the project, and rel leaves
\* those it accepts as they are (compile.go:38-40, 60-61).
AnswersNames ==
    \A h \in Hosts : \A n \in DOMAIN h :
        LET name == Rel(h[n].path, Root)
        IN  h[n].ok /\ name # Refused => h[n].path = Unrooted(name)

\* A host answers reads under the names it answers Realpath with
\* (compile.go:60-61).
ReadsUnderAnswers ==
    \A h \in Hosts : \A n \in DOMAIN h :
        LET name == Rel(h[n].path, Root)
        IN  h[n].ok /\ name # Refused =>
                name \in DOMAIN h /\ (h[name].ok => h[name].path = Unrooted(name))

\* A host answers Realpath with a path or an error, for each name it serves.
NoAnswer  == [ok |-> FALSE, path |-> Empty]
At(path)  == [ok |-> TRUE, path |-> path]
Idle      == [path |-> Empty, at |-> 0]

VARIABLES
    host,       \* what Files serves now
    changes,    \* how often that changed
    entry,      \* the names Bundle accepted as entries
    request,    \* the resolve under way: its candidate and the suffix to try
    found,      \* the name FileExists answered for, before Realpath does
    served,     \* plugin.served: the name to read, by the path answered
    broken,     \* plugin.broken is set
    last,       \* history: the last call on Files, or the last refusal
    modules,    \* history: what resolve answered, and for which file
    escaped     \* history: a Realpath answered a name outside the project

files  == <<host, changes, entry>>
plugin == <<served, broken>>
vars   == <<files, request, found, plugin, last, modules, escaped>>

\* What last records: which call, with which name, on behalf of which path.
Did(call, name, path) == [call |-> call, name |-> name, path |-> path]
Nothing == Did("none", Refused, Empty)

\* Bundle's checks on the entries: each a name of the project, with a loader,
\* that the host serves.
EntryNames  == {Rel(e, Root) : e \in Entries}

Accepted(h) == \A n \in EntryNames : /\ n # Refused
                                     /\ Last(n) \in Loadable
                                     /\ n \in DOMAIN h

Init ==
    /\ host \in {h \in Hosts : Accepted(h)}
    /\ changes = 0
    /\ entry = EntryNames
    /\ request = Idle /\ found = Refused
    /\ served = <<>> /\ broken = FALSE
    /\ last = Nothing /\ modules = {} /\ escaped = FALSE

HostChanges ==
    /\ changes < MaxChanges
    /\ changes' = changes + 1
    /\ host' \in Hosts \ {host}
    /\ UNCHANGED <<entry, request, found, plugin, last, modules, escaped>>

-----------------------------------------------------------------------------
(* on-resolve.                                                               *)

\* h.root, and where a dotted import starts: its importer's directory, else the
\* resolveDir of the request, else the root.
RootPath == IF Root = <<>> THEN Empty ELSE Rooted(Root)

Base(importer, dir) ==
    CASE importer # Empty -> Dir(importer)
      [] importer = Empty /\ dir # Empty -> dir
      [] OTHER -> RootPath

\* Of the names here, "." and ".." alone start with a dot.
Candidate(p, importer, dir) ==
    CASE p.rooted -> Clean(p)
      [] p.segs # <<>> /\ p.segs[1] \in {".", ".."}
                -> Join(Base(importer, dir), p)
      [] OTHER -> Join(RootPath, p)

Extensions_Suffixed == <<".ts", ".tsx", ".js">>
Extensions == <<"", ".ts", ".tsx", ".mts", ".cts", ".js", ".jsx", ".mjs",
                ".cjs", ".json", ".css">>
Indexes    == <<"index.ts", "index.tsx", "index.js", "index.jsx">>

Extended(p, ext) ==
    IF ext = "" THEN p
    ELSE [p EXCEPT !.segs = IF @ = <<>> THEN <<ext>>
                            ELSE Append(Front(@), Last(@) \o ext)]

Attempts == Len(Extensions) + Len(Indexes)
Attempt(p, n) ==
    IF n <= Len(Extensions) THEN Extended(p, Extensions[n])
    ELSE [p EXCEPT !.segs = Append(@, Indexes[n - Len(Extensions)])]

AskResolve(p, importer, dir) ==
    /\ request = Idle
    /\ request' = [path |-> Candidate(p, importer, dir), at |-> 1]
    /\ last' = Nothing
    /\ UNCHANGED <<files, found, plugin, modules, escaped>>

TryNext == request' = [path |-> request.path, at |-> request.at + 1]

\* serves, up to FileExists.
Probe ==
    /\ request # Idle /\ found = Refused
    /\ request.at <= Attempts
    /\ LET name == Rel(Attempt(request.path, request.at), Root)
       IN /\ last' = IF name = Refused THEN Nothing
                     ELSE Did("exists", name, request.path)
          /\ IF name # Refused /\ name \in DOMAIN host
             THEN found' = name /\ UNCHANGED request
             ELSE TryNext /\ UNCHANGED found
    /\ UNCHANGED <<files, plugin, modules, escaped>>

\* keep: what is served under the path the guest will load.
Keep(name) == served' = [f \in DOMAIN served \cup {Full(name, Root)} |->
                            IF f = Full(name, Root) THEN name ELSE served[f]]

\* The name the host reads a path under, when it says.
RealName_AsAsked(answer) ==
    IF answer.ok /\ Rel(answer.path, Root) = Refused THEN Refused ELSE found
RealName_Trusting(answer) == IF answer.ok THEN answer.path.segs ELSE found
RealName(answer) == IF answer.ok THEN Rel(answer.path, Root) ELSE found

\* A host whose answer leaves the project is a defect; nothing is read instead.
Escapes_Hidden(answer) == FALSE
Escapes(answer) == answer.ok /\ RealName(answer) = Refused

AskReal ==
    /\ found # Refused
    /\ LET answer == IF found \in DOMAIN host THEN host[found] ELSE NoAnswer
           name   == RealName(answer)
       IN /\ escaped' = (escaped \/ (answer.ok /\ Rel(answer.path, Root) = Refused))
          /\ IF Escapes(answer)
             THEN /\ broken' = TRUE
                  /\ TryNext
                  /\ UNCHANGED <<served, modules>>
             ELSE /\ Keep(name)
                  /\ modules' = modules \cup
                        {[full |-> Full(name, Root),
                          file |-> IF answer.ok THEN answer.path
                                   ELSE Unrooted(found)]}
                  /\ request' = Idle
                  /\ UNCHANGED broken
    /\ last' = Did("realpath", found, request.path)
    /\ found' = Refused
    /\ UNCHANGED files

\* "host serves no ...": a message of the build, not a failure of the host.
Exhausted ==
    /\ request # Idle /\ found = Refused
    /\ request.at > Attempts
    /\ last' = Did("unknown", Refused, request.path)
    /\ request' = Idle
    /\ UNCHANGED <<files, found, plugin, modules, escaped>>

-----------------------------------------------------------------------------
(* on-load and the rest.                                                     *)

\* The name a load may read: one some resolve answered for.
Kept_AnyName(full) == Rel(full, Root)
Kept(full) == IF full \in DOMAIN served THEN served[full] ELSE Refused

\* A host with aliases answers reads under the canonical name.
Readable(name) ==
    name \in DOMAIN host
        /\ (host[name].ok => host[name].path = Unrooted(name))

\* Without a loader for its extension the answer is an error and nothing is read.
AskLoad(full) ==
    /\ request = Idle
    /\ LET name == Kept(full)
       IN \/ /\ name = Refused
             /\ broken' = TRUE
             /\ last' = Nothing
          \/ /\ name # Refused
             /\ Last(name) \in Loadable
             /\ last' = Did(IF Readable(name) THEN "read" ELSE "missing",
                            name, full)
             /\ UNCHANGED broken
    /\ UNCHANGED <<files, request, found, served, modules, escaped>>

\* A command the host does not implement.
AskOther ==
    /\ request = Idle
    /\ broken' = TRUE
    /\ last' = Nothing
    /\ UNCHANGED <<files, request, found, served, modules, escaped>>

Next ==
    \/ HostChanges
    \/ \E p \in Imports \cup {Full(n, Root) : n \in entry},
          i \in Importers \cup {Empty}, d \in Dirs \cup {Empty} :
              AskResolve(p, i, d)
    \/ Probe \/ AskReal \/ Exhausted
    \/ \E full \in Unasked \cup DOMAIN served : AskLoad(full)
    \/ AskOther

Spec == Init /\ [][Next]_vars

-----------------------------------------------------------------------------
(* Properties.  A definition named <Definition>_<Bug> above is the mutant of *)
(* that definition a check uses; nothing else uses it.                       *)

TypeOK ==
    /\ host \in Hosts /\ changes \in 0 .. MaxChanges
    /\ request.at \in 0 .. IF found = Refused THEN Attempts + 1 ELSE Attempts
    /\ found # Refused => ValidName(found)
    /\ \A f \in DOMAIN served : ValidName(served[f])
    /\ broken \in BOOLEAN /\ escaped \in BOOLEAN

\* compile.go:47-50: "Nothing reaching these methods climbs out of the project",
\* whatever the guest asks and whatever the host itself answers.
NothingClimbsOut ==
    last.call \in {"exists", "realpath", "read", "missing"}
        => ValidName(last.name)

\* A load reads the file that some resolve answered for with that very path, and
\* no other: a request field is not authority (esbuild.go:246-249, 372-375).
ReadsWhatWasResolved ==
    last.call \in {"read", "missing"} => \E m \in modules :
        m.full = last.path /\ m.file = Unrooted(last.name)

\* Two imports that reach one file are one module, and two files are two
\* (esbuild.go:373-375).
OneModulePerFile ==
    \A m, n \in modules : m.full = n.full <=> m.file = n.file

\* What a resolve answered for can be loaded, unless the host changed since.
ResolvedLoads == changes = 0 => last.call # "missing"

\* An entry Bundle accepted is an entry the guest can resolve, unless the host
\* changed since or misbehaved (compile.go:86-89, esbuild.go:98-105).
EntriesFound ==
    (changes = 0 /\ ~escaped /\ last.call = "unknown") =>
        \A n \in entry : last.path # Full(n, Root)

\* A host that leaves its own project is a defect the build fails with, however
\* the import was resolved after it (esbuild.go:384-391).
EscapeIsReported == escaped => broken
=============================================================================
