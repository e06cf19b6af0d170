-------------------------------- MODULE Setup --------------------------------
(* How an engine comes to be.  NewTSGo and NewEsbuild (compile/engine.go,    *)
(* compile/blob.go) take a module from a file or over http, hold it to its   *)
(* declared digest and compile it; wasm.New prepares a runtime, and Compile  *)
(* takes bytes from its caller.  Each step can fail, what a source serves    *)
(* may change between any two of them, and what was opened must be closed    *)
(* whichever step fails.  SHA-256 is taken as one-to-one: a content is its   *)
(* own digest.                                                               *)
EXTENDS Naturals

CONSTANTS
    Contents,       \* what a source may serve
    Torn,           \* what is read of a source that changes meanwhile
    Configs,        \* the configurations, see ConfigType
    Sums,           \* what Blob.Sum may declare, in capitals or not
    Fold,           \* the digest each of them stands for (strings.EqualFold)
    NoSum,          \* the empty Sum
    Nothing,        \* no bytes, no content
    Wide,           \* the contents in which usesMemory64 finds a 64-bit memory
    Wants,          \* the memory a check may ask for (Options.Memory), in MiB
    DefaultMemory,  \* MiB of an engine that declares none
    DefaultPages,   \* pages of a sandbox that declares none
    PagesPerMiB,
    MaxPages,       \* what wazero takes: above it, it panics
    Word            \* the size of a uint32

Fetched == Contents \cup {Torn}

\* memory is Config.Memory in MiB, or Limits.Pages in pages.
ConfigType ==
    [role : {"engine", "sandbox"}, path : BOOLEAN, url : BOOLEAN,
     sum : Sums \cup {NoSum}, cache : BOOLEAN, memory : Nat, wasi : BOOLEAN]

ASSUME ConfigsAssumption  == Configs \subseteq ConfigType
ASSUME ContentsAssumption == Torn \notin Contents /\ Nothing \notin Fetched
ASSUME SumsAssumption     == NoSum \notin Sums
ASSUME MemoryAssumption   == /\ {DefaultMemory, DefaultPages, MaxPages} \subseteq Nat
                             /\ {PagesPerMiB, Word} \subseteq Nat \ {0}
                             /\ Wants \subseteq Nat

VARIABLES
    config,     \* what the host asked for
    source,     \* what Path or URL, or Compile's caller, serves now
    pc,         \* where the set-up is
    raw,        \* the bytes in hand
    open,       \* what is open: "body", "cache", "runtime"
    pages,      \* the limit of a guest's memory
    compiled,   \* the content that was compiled
    granted     \* the GC ceiling some check was granted, in MiB

vars == <<config, source, pc, raw, open, pages, compiled, granted>>

Init ==
    /\ config \in Configs
    /\ source \in Contents \cup {Nothing}
    /\ pc = "start"
    /\ raw = Nothing /\ open = {} /\ pages = 0
    /\ compiled = Nothing /\ granted = 0

\* Someone writes the file, or publishes another module under the URL.
SourceChanges ==
    /\ source' \in (Contents \cup {Nothing}) \ {source}
    /\ UNCHANGED <<config, pc, raw, open, pages, compiled, granted>>

Fails(released) ==
    /\ pc' = "failed"
    /\ open' = open \ released
    /\ UNCHANGED <<config, source, raw, pages, compiled, granted>>

-----------------------------------------------------------------------------
(* Blob.Bytes.  A module nobody declared a digest for, or that is nowhere,   *)
(* is refused before anything is read.                                       *)

Declares == config.sum # NoSum
Refuse ==
    /\ pc = "start" /\ config.role = "engine"
    /\ ~Declares \/ (~config.path /\ ~config.url)
    /\ Fails({})

Take(content) == raw' = content /\ pc' = "verify"

\* Path wins when both are set.
ReadPath ==
    /\ pc = "start" /\ config.role = "engine"
    /\ Declares /\ config.path
    /\ \/ Fails({})
       \/ /\ source # Nothing
          /\ \E content \in {source, Torn} : Take(content)
          /\ UNCHANGED <<config, source, open, pages, compiled, granted>>

Fetch ==
    /\ pc = "start" /\ config.role = "engine"
    /\ Declares /\ ~config.path /\ config.url
    /\ \/ Fails({})
       \/ /\ pc' = "body" /\ open' = open \cup {"body"}
          /\ UNCHANGED <<config, source, raw, pages, compiled, granted>>

\* resp.Body.Close is deferred: another status, or a download that is cut,
\* closes it too.
ReadBody ==
    /\ pc = "body"
    /\ \/ Fails({"body"})
       \/ /\ source # Nothing
          /\ \E content \in {source, Torn} : Take(content)
          /\ open' = open \ {"body"}
          /\ UNCHANGED <<config, source, pages, compiled, granted>>

Matches(content) == Fold[config.sum] = content

Verify ==
    /\ pc = "verify"
    /\ IF Matches(raw)
       THEN pc' = "runtime" /\ UNCHANGED <<config, source, raw, open, pages,
                                           compiled, granted>>
       ELSE Fails({})

-----------------------------------------------------------------------------
(* The runtime: newEngine, and New of the package wasm.                      *)

\* cap * pagesPerMiB is a product of two uint32.
Cap == IF config.memory = 0 THEN DefaultMemory ELSE config.memory
EnginePages  == (Cap * PagesPerMiB) % Word
SandboxPages == IF config.memory = 0 THEN DefaultPages ELSE config.memory
Pages == IF config.role = "engine" THEN EnginePages ELSE SandboxPages

Fits_Always == TRUE
Fits == Pages <= MaxPages

Configured == pc = "runtime" \/ (pc = "start" /\ config.role = "sandbox")
Caches     == config.role = "engine" /\ config.cache

\* wazero panics over a limit it cannot take; nothing is open yet.
Panic ==
    /\ Configured /\ ~Fits
    /\ pc' = "panicked"
    /\ UNCHANGED <<config, source, raw, open, pages, compiled, granted>>

CacheFails ==
    /\ Configured /\ Fits /\ Caches
    /\ Fails({})

MakeRuntime ==
    /\ Configured /\ Fits
    /\ open' = open \cup {"runtime"} \cup IF Caches THEN {"cache"} ELSE {}
    /\ pages' = Pages
    /\ pc' = IF config.role = "sandbox" /\ ~config.wasi THEN "up" ELSE "wasi"
    /\ UNCHANGED <<config, source, raw, compiled, granted>>

\* What Close releases: the cache is closed whatever closing the runtime says.
Released_RuntimeOnly == {"runtime"}
Released == {"runtime"} \cup IF Caches THEN {"cache"} ELSE {}

Wasi ==
    /\ pc = "wasi"
    /\ \/ Fails(Released)
       \/ /\ pc' = IF config.role = "engine" THEN "compile" ELSE "up"
          /\ UNCHANGED <<config, source, raw, open, pages, compiled, granted>>

-----------------------------------------------------------------------------
(* CompileModule, and what a module that compiled is used for.               *)

CompileBlob ==
    /\ pc = "compile"
    /\ \/ Fails(Released)
       \/ /\ pc' = "up" /\ compiled' = raw
          /\ UNCHANGED <<config, source, raw, open, pages, granted>>

\* Engine.Compile: a module with a 64-bit memory, or one wazero refuses, leaves
\* the engine as it was.
Compile ==
    /\ pc = "up" /\ config.role = "sandbox"
    /\ source # Nothing /\ source \notin Wide
    /\ compiled' = source
    /\ UNCHANGED <<config, source, pc, raw, open, pages, granted>>

\* gomemlimit, when a check begins.
Grants_Any(want) == TRUE
Grants(want) == want <= Cap

Grant(want) ==
    /\ pc = "up" /\ config.role = "engine"
    /\ Grants(want)
    /\ granted' = IF want = 0 THEN Cap ELSE want
    /\ UNCHANGED <<config, source, pc, raw, open, pages, compiled>>

Close ==
    /\ pc = "up"
    /\ pc' = "closed" /\ open' = open \ Released
    /\ UNCHANGED <<config, source, raw, pages, compiled, granted>>

Next ==
    \/ SourceChanges
    \/ Refuse \/ ReadPath \/ Fetch \/ ReadBody \/ Verify
    \/ Panic \/ CacheFails \/ MakeRuntime \/ Wasi
    \/ CompileBlob \/ Compile \/ Close
    \/ \E want \in Wants : Grant(want)

Spec == Init /\ [][Next]_vars

-----------------------------------------------------------------------------
(* Properties.  A definition named <Definition>_<Bug> above is the mutant of *)
(* that definition a check uses; nothing else uses it.                       *)

TypeOK ==
    /\ config \in Configs
    /\ source \in Contents \cup {Nothing}
    /\ pc \in {"start", "body", "verify", "runtime", "wasi", "compile", "up",
               "failed", "panicked", "closed"}
    /\ raw \in Fetched \cup {Nothing}
    /\ open \subseteq {"body", "cache", "runtime"}
    /\ pages \in 0 .. MaxPages /\ granted \in Nat
    /\ compiled \in Fetched \cup {Nothing}

Over == {"failed", "panicked", "closed"}

\* Whichever step fails, nothing stays open, and an engine that is up has open
\* just what its Close releases (engine.go:65-82, 145-156; blob.go:64-82;
\* wasm.go:119-124).
NothingLeftOpen ==
    /\ pc \in Over => open = {}
    /\ pc = "up" => open = Released

\* What an engine compiled is what was declared, however its source changed
\* meanwhile, and no sandbox has a 64-bit memory.
ContentDeclared ==
    compiled # Nothing =>
        IF config.role = "engine"
        THEN config.sum # NoSum /\ compiled = Fold[config.sum]
        ELSE compiled \notin Wide

\* What a check is granted fits in its guest's memory, as long as the product of
\* cap and pages is a uint32.
GrantFits ==
    (granted # 0 /\ Cap * PagesPerMiB < Word) => granted * PagesPerMiB <= pages

\* "a fetch cannot substitute something else" (blob.go:16-22), a 64-bit memory is
\* diagnosed before anything runs (wasm.go:138-145), and "a GC target the linear
\* memory cannot hold" is refused (engine.go:91-103).
RunsAsDeclared == ContentDeclared /\ GrantFits
=============================================================================
