# A TLA+ development of `hanzoai/wasm`

The repository runs WebAssembly in the calling process. The package `wasm`
wraps wazero: it compiles a module once, gives each caller a sandbox of its own,
bounds every call by a deadline, and lets a guest reach a `Store`. The package
`compile` runs two guests on the same runtime: tsgo, which checks a TypeScript
project, and esbuild, which bundles one over a stdin/stdout protocol. This
directory has models of both packages, TLC configurations that check them on
small instances, and TLAPS proofs for every value of the constants.

`tlc -config X.cfg M` checks a run (`PROJECT.json` lists them); `tlapm
BundleProofs.tla`, and the same for `NamesProofs`, `PluginProofs`,
`ReloadProofs`, `SandboxProofs`, `SetupProofs`, `ToldProofs` and `TreeProofs`,
checks the proofs.

## 1. Inventory

| component | state it keeps | operations | correct when |
|---|---|---|---|
| Engine, Module, Instance (`src/wasm.go`) | wazero runtime, closed or not; each instance open or closed | `New`, `Compile`, `Bind`, `Start`, `Call`, `Close` | every call returns and says how it ended; a stopped instance never answers again |
| Store bridge (`src/host.go`) | nothing of its own: guest memory and the Store | `get`, `put`, `list`, and the guest's `alloc` under them | a value crosses whole; absence, failure and a broken contract are never confused |
| Memory64 probe (`src/memory64.go`) | none | `usesMemory64` | finds 64-bit memories only, never reads past the end |
| Bundle session (`compile/esbuild.go`, `compile/stdio.go`) | two pipes, a mutex, the pending response, the plugin's `broken` flag | `Bundle`, `handshake`, `serve`, `send`, `answer`, the deferred closes | a success is a whole build; a cancellation is told; nothing leaks |
| esbuild plugin (`compile/esbuild.go`) | `broken`, and the names it resolved | `on-start`, `on-resolve`, `on-load` | no name leaves the project; a load reads what was resolved; a defect fails the build |
| Names (`compile/compile.go`) | none | `rel`, `Project.names` | a name is inside the project or refused |
| Registry (`compile/compile.go`) | two maps, one lock | `Register`, `Unregister`, `Checkers`, `Bundlers`, `CheckerNamed` | both roles of a value together; no name replaced |
| TSGo and its engine (`compile/tsgo.go`, `compile/engine.go`) | name counter, runtime | `Check`, `Close` | concurrent checks do not disturb each other; no answer unless the checker ran |
| Project files (`compile/files.go`) | an openDir's position, the synthesized files | `Open`, `Stat`, `ReadDir`, `Map` | one view of one tree; nothing outside it is asked of the host |
| Wire format (`compile/stdio.go`) | none | `encode`, `decode` | decoding gives back what was encoded |
| Diagnostics (`compile/esbuild.go`, `compile/tsgo.go`) | none; `sink` keeps the end of stderr | `artifact`, `messages`, `units`, `parseTSC`, `named`, `sink.Write` | a file and a column of this project, or none |
| Engine set-up (`compile/engine.go`, `src/wasm.go`), Blob (`compile/blob.go`) | what is open, the cap | `newEngine`, `New`, `Compile`, `gomemlimit`, `Bytes`, `Close` | a failure leaves nothing open; the digest is compared before anything runs |

How they interact. A host registers checkers and bundlers and looks them up by
name; an agent calls `Check` or `Bundle` with a project and its `Files`.
`Bundle` starts a goroutine for the instance and one for `serve`, joined to the
guest by two pipes; `serve` answers the guest's requests from `Files` through
the plugin. `Check` instantiates a guest whose filesystem is `tree` over
`Files`. In `wasm`, a guest calls `get`, `put` and `list`, which call `alloc` in
the guest that called them. Every running guest is bounded by a context, which
wazero looks at only at the head of a loop.

What is hard here. Four actors and two bounded pipes in one `Bundle`; a context
that ends anywhere; an engine closed under its calls; files and aliases that
change between two questions to the host; guest code that runs in the middle of
a host function; names that pass through `rel` more than once. `PROJECT.json`
lists each hazard at its line.

## 2. Plan

Done, in this order: `Bundle` (with `BundlePromise`, `BundleInv` and
`BundleProofs`), `Names` (`NamesProofs`) and `Plugin` (`PluginProofs`),
`Registry` and `TSGo` composed by `Reload` (`ReloadProofs`), `Sandbox`
(`SandboxProofs`), `Tree` (`TreeProofs`), `Setup` (`SetupProofs`), the pure parts
`Diagnostics` and `Memory64`, whose promises are in `Told` (`ToldProofs`), and
`Wire`, which shares the run `told_and_sent` with them. Every safety invariant and
action property that a run keeps is stated by a theorem, but for `WireAgrees`.

Next:

1. The words of `Wire`: that a length written in `Width` bytes is the length read,
   for every `Base`. The proof would go as `PaddedValue` does for the probe's
   numbers, with `PutWord` and `TakeWord` in a module of their own. The trees
   above the words are recursive operators, which the prover does not take.
2. Shorter proofs: the places of a request in `BundleProofs` and the pages of
   `TreeProofs` each follow a sequence cell by cell, and `ToldProofs` has a theory
   of its own of where one sequence stands in another (`At`).

## 3. The modules

**Bundle** is one call of `Esbuild.Bundle`. Its actors are the caller, the
goroutine of `serve`, the goroutine of the instance, and the guest, which is
external: it may ask anything from `Commands` in any order, several requests at
a time, write a packet that does not decode, answer early or wrongly, die, or be
stopped by the context. A pipe holds cells, a packet that carries a file is
`BigCells` of them, so a write blocks half way and a stream ends inside a packet.
`CallerStep`, `ServeStep` and `InstStep` are the three goroutines; the steps
under them are the blocking points of the code, each with the early returns it
has. `Deferred` is the defer at `esbuild.go:119-122`. The service's mutex `mu`
is held over the whole write of a packet, as in the code. Handshake, request,
response and the stream's end are modelled; what a response says is not.

**BundlePromise** is the abstract specification: facts about the call become
true once each (the context ends, the contract is broken, the build is answered,
the instance leaves), and the call returns once, with a result those facts
allow. `Bundle` implements it with `tainted <- broken, gone <- exit`.

**BundleInv** holds the inductive invariants of `Bundle`, `SessionInv` and
`RequestInv` (section 6).

**Names** translates `rel`, `path.Clean` and `fs.ValidPath` over names as
sequences of segments. **Plugin** is the host's side of one bundle's requests:
`AskResolve`, then a `Probe` for each candidate extension (`FileExists`),
`AskReal` (`Realpath`), `Exhausted`; `AskLoad`; `AskOther`. Each question to
`Files` is a step of its own, because `HostChanges` may come between any two.
`modules` and `escaped` are history. The guest is external and may ask to load a
path nobody resolved. What the code relies on is said by three hypotheses:
`AnswersNames` and `ReadsUnderAnswers` are what `compile.go:38-40` and
`compile.go:60-61` ask of a host's `Realpath`, and `RootIsName` is that the
project's root is a clean path and not `/`. They are not assumptions of the
module: `plugin_nested` and `plugin_slash` are runs in which one of them fails.

**Registry** has `Register` (both roles under one lock, or nothing; no nil, which
`Nils` are), `Unregister` and the lookups. **TSGo** has the life of one `Check`:
the entry checks, its instance name, `InstantiateModule`, a guest that writes and
asks its `Files` (`Asks`, `Answered`; `inside` is that it waits for an answer), its
own end or the one the context or `Close` gives it, and the classification of the
outcome. A guest inside `Files` is on the host: it neither writes nor is stopped
until it is answered. **Reload** composes
them with a host that registers, drops and closes checkers while calls that
looked them up earlier are under way.

**Sandbox** is the package `wasm`. An instance has a stack of frames: `start` or
`call`, the host function the guest called, `alloc` under it, and what `alloc`
calls in turn. `err` unwinds that stack a frame at a time: a host function
passes an error on as the panic of `give`, and an exit code stays the code it is.
The context (`Ends`), the engine's `Close`, traps and exits may come at every
step. `Stops` is wazero's watcher, which closes the instance under a running call
whose context is over, or under none: `late` says that the watcher of a call that
has returned has seen the context end and not closed yet, and it may find the
instance idle or in its next call. Who closes first says with which code
(`why`). A slice has an owner,
so a Store that kept a slice of guest memory would see it change; `StoreInv`
says that none does. `Keys` and `Bytes` are finite (`SizesAssumption`), as what
fits a 32-bit memory is, and `Absent` is no slice: `Store.Get` has a result of
its own for it. `ever`,
`known`, `broke`, `left` and a frame's `knew` are history. Values are sets, their length
the size; a list is the set of keys; a prefix selects every key; an address is
valid or it is not, and `BadAddress` and `Unwritable` are the cases where it is
not. wazero lets a call on a closed instance run to its first loop, so `Call` is
not refused there: `FindsClosed` is what ends it, and until then the guest may
still trap or leave by `proc_exit`, with a code of its own (`Exits`).

**Tree** is the filesystem a check's guest sees. `Open`, `Stat` and a page of an
open directory each ask `Files` one question at a time: `AskReal`, `Exists` and
`Bytes` are `tree.read`, `AskIsDir` is `tree.isDir`, `Top`, `List` and `Slice`
are `ReadDir` and the page cut from it. `HostChanges` may come between any two.
`over` is the config that `Check` synthesizes. `Map` is translated; another host
may have aliases that leave the project (`links`), list what it should not
(`extra`) and fail to read. `Rank` is the order of `sort.Strings`: total, so
injective, on the finitely many segments that occur (`RankAssumption`,
`ListedAssumption`); a page's size is any Go `int`. `asked`, `said`, `seen` and
`given` are history.

**Setup** takes a configuration to an engine that is up, failed, panicked or
closed: `Refuse`, `ReadPath`, `Fetch`, `ReadBody` and `Verify` are `Blob.Bytes`;
`CacheFails`, `MakeRuntime`, `Wasi`, `CompileBlob` are `newEngine`, and `New`,
which opens less; `Compile` is the sandbox's; `Grant` is `gomemlimit`. `open` is
what is held open, and every step after which the caller gets no engine must
leave it empty. The source may change between two steps (`SourceChanges`), and a
read may be torn. Products of two words are taken modulo `Word`.

**Diagnostics** has `units` over lines as the widths of their runes, `parseTSC`
and `named` over the classes of lines the regular expressions tell apart,
`artifact`, `messages` with their notes, and `sink`. **Memory64** is the probe over bytes: its
readers, limits, imports, vectors and sections are operators, and its two loops
recursive functions from the number of an item, or a section, to what is known
after it. A number is a sum of bytes, and all from 2^64 on are one (`Far`), as no
binary is as long. **Told** says what they promise. A state is one thing said: a
line quoted (`Quote`), diagnostics tsc printed (`Report`), esbuild's answer
(`Respond`), writes to stderr (`Say`), a binary (`Compile`). Beside each stands a
reference that is not taken from the code: the column a compiler counts, what tsc
prints of a diagnostic, where esbuild wrote, what it said of which rune and in
which notes (`Placed`, `Worded`), the end of all writes together, and
`Binary`, the bytes a toolchain writes for the sections of a module, each number
in as many bytes as it likes. The assumptions on the constants say which inputs
are such: a file outside the project is spelt so that it has no name in it, a
diagnostic without a position names a source file, a number fits the bytes it is
written in. A file in a directory named as the root is left out of one spelling,
the one relative to the root: that is finding 2.

**Wire** writes and reads packets over bytes below `Base` and words of `Width` of
them, and `Serve` reads a stream to its end, whole, cut or malformed. A stream cut
behind a length, where `io.ReadFull` reads no byte, ends like a whole one.

`MCBundle`, `MCPlugin`, `MCReload`, `MCSandbox`, `MCTree` and `MCSetup` give the
constants their small values. `MCAliases` is `MCPlugin` with the three hypotheses
of `Plugin` assumed, so that TLC evaluates them on the values of `plugin_safety`.
`MCData` gives `Told` its inputs, and adds packets to what may be said.

## 4. The runs

| run | states | what it shows |
|---|---|---|
| `bundle_safety` | 154,004 | every interleaving keeps `RequestInv`, and with it `SessionInv`: a success is a whole build (`SuccessIsComplete`), no request is lost or answered twice (`NoLostRequest`), a context that stopped the guest is what is told (`CancellationNamed`), and `BundlePromise` is implemented (`PromiseKept`). A cancelled call returns, if the pipes hold what is under way (`CancelledBundleReturns`); with a guest that answers, every call returns, both goroutines end and four pipe ends are closed (`EveryoneLeaves`) |
| `bundle_wedged` | violated | with smaller pipes it does not (finding 1) |
| `plugin_safety` | 22,400 | only names of the project reach `Files`; a load reads what a resolve answered; one file is one module; what was resolved can be read and entries resolve, of hosts that keep to what is asked of them; a host that leaves its project fails the build |
| `plugin_nested` | violated | a directory named as the root (finding 2) |
| `plugin_slash` | violated | the root `/` (finding 3) |
| `reload_safety` | 180,456 | both roles together, no name replaced, no instance name taken twice, whole answers while the engine is open, cancellations told, cancelled calls return if the guest loops and the `Files` answer |
| `reload_cut` | violated | a check whose engine is closed under it (finding 4) |
| `sandbox_nested` | 303,778 | a guest that puts and lists, also from its own `alloc` and from the `alloc` of that: every call returns, a broken contract is told at any depth, a closed instance answers nothing and a call it was closed under says so unless its guest left first, a list leaves out nothing that was put, no slice of the Store is a guest's (`StoreInv`) |
| `sandbox_shared` | 1,505,720 | two guests on one key, one without `alloc`, and a Store that fails with or without effect: a get hands over a value as it was put, and never calls it absent |
| `tree_views` | 518,792 | `Open`, `Stat` and a listing say the same of a name the host does not change its mind about; no name that leaves the project is asked of the host; pages give each entry once |
| `setup_ends` | 5,432 | whichever step fails, nothing stays open; what was compiled is what was declared; a granted memory limit fits the guest's memory |
| `told_and_sent` | 22,775 | packets are read back as written, and a stream cut anywhere gives the whole ones and no other; the probe finds the 64-bit memories and only them, after padded counts, tables and custom sections, and a cut module never says more; a diagnostic comes out at the file, line and column it was reported at, with its text and notes |

Each property has a mutant in `PROJECT.json`: a change a plausible bug would make
to one definition, under which TLC finds that property violated.

### Bounds

- `Bundle`: three requests suffice for one answered, one being answered and one
  in the pipe, or two and a packet that does not decode. `PipeCap = 2` and
  `BigCells = 2` let a pipe be empty, half full and full, and a big packet block
  half way. `CancelledBundleReturns` holds with these pipes, which take all
  that one answer and one request put under way; the code has no such bound, its
  pipes being 64 KiB and its files any size: `bundle_wedged` has `PipeCap = 1`.
- `Plugin`: two files, an alias, an index file and one that no loader takes; one
  change of the host (`MaxChanges = 1`), which is enough for every pair of
  questions to see two hosts.
- `Reload`: one name, three values (a checker, a bundler, one of both roles) and
  two calls: a collision needs two.
- `Tree`: eight names, among them one that leaves the project and one that is not
  clean; nine hosts: two plain ones, an empty one, one with a name that is a file
  and a directory, one where a directory became a file, two aliases inside and
  two outside the project; pages of one, two and all; one change, which comes
  between any two questions of any call.
- `Setup`: both roles, with and without a cache, WASI, a path, a digest; three
  contents, two of which the digests tell apart and a torn one; words small
  enough that the product of the cap wraps.
- `MCData`: words of 64 values, so that lengths, ids and negative integers come
  to their ends; trees two deep; two imports, among them tables and memories of
  32 and 64 bits, after a custom section that reads as a memory or none, and one
  memory or none; numbers in 1, 2, 10 and 11 bytes, ten being the most that a
  number may have (`Far` is 10^6, above all of them); lines of three runes of one
  to four bytes; two diagnostics one after another in every spelling of their
  files; an error and a warning of esbuild's with and without a place, the line and
  notes, some of which are empty, at bytes where a rune begins; three writes of up
  to five pieces on a sink of three.
- `Sandbox`: `MaxDepth = 2` is a host function inside the `alloc` of a host
  function, so an error passes two panics; three calls are a start, a call that
  is stopped, and one after it. `sandbox_shared` needs two actors and two
  contents; its guests work in one `Start` each, since a start function may call
  the host too. The constraint `EngineOpen` keeps it to an engine that is open: a guest
  the engine's Close finds running goes on as one its context closed, and the
  nested run has both.

`CHECK_DEADLOCK FALSE` is set in the two `Sandbox` runs, where callers may stop
calling, and in `bundle_wedged`, where the deadlock is the subject.

### Fairness

- `HostFairness` (Bundle): each goroutine that can go on does; Go's scheduler
  starves none.
- `RuntimeFairness`: a guest is started or refused, and a write or poll of a pipe
  that can complete does.
- `CancelSpec` adds that a context's end stops a guest: `engine.go:64` asks
  wazero for that, at the guest's next loop iteration. A guest blocked in a host
  write is not in a loop, and the model does not stop it there.
- `GuestAnswers` is a guest that reads, answers its build and exits at EOF. It is
  the premise of `EveryoneLeaves` and of nothing else.
- `Reload`'s `FairSpec`: a call's own steps go on whatever the registry does
  (weakly fair: Go's scheduler starves no goroutine), `Files` answers (weakly
  fair), and the context's end stops a guest that comes to a loop of its own again
  and again (strongly fair, since a guest that waits for `Files` is out of reach
  each time it asks). The guest's own exit is not assumed. The last two are
  conditions on the outside: no context reaches a call of `Files`
  (`compile.go:51-63`), and wazero looks at the heads of loops only.
- `Sandbox`'s `Fairness`: the deadline comes, wazero's watcher closes the instance
  (`Stops`), errors unwind, the Store honours its context, and a guest comes to
  the head of a loop again and again, where it finds that it is closed. The last
  two are conditions: `wasm.go:48-51` and `wasm.go:114-116` say that a guest that
  runs by recursion alone is not stopped, and nothing in the code ends a Store
  that ignores its context.

## 5. Findings

1. `esbuild.go:152` says a cancelled context ends the stream. `serve` answers
   requests one at a time and does not read while it writes: with both pipes full
   it and the guest wait for each other, and `send` (`stdio.go:268`) waits for a
   response or the stream's end but not for the context. (`bundle_wedged`)
2. `serves` passes the host's `Realpath` answer, project-relative already, through
   `rel`, which trims a first segment equal to the root's name: under the root
   `/project` the file `project/a.ts` is loaded from `a.ts`. (`plugin_nested`)
3. With the root `/` no entry that `Bundle` accepted resolves. (`plugin_slash`)
4. `Close` ends a running check's instance with exit code 0, and `Check` then
   reports a clean project. (`reload_cut`)

Seen while modelling, and not stated as properties that fail:

- `files.go:18-19` says of `Map` that there is "nothing to keep consistent". A map
  with the keys `a` and `a/b` has a name that is a directory to `Stat` and to a
  listing, and a file to `Open`. `SaysWhatIsThere` admits either answer.
- `compile.go:167-171` says that `Options.Lib` is ignored for a project that
  declares its own libs; `tsgo.go:75-79` says the contrary, and `Check` passes
  `--lib` whatever the project declares (`tsgo.go:110-112`).
- `compile.go:138-141` gives 0 as the line of a diagnostic with no position in a
  file. One that is located outside the project has no file and keeps its line
  (`tsgo.go:203-218`, `esbuild.go:437-447`).
- The naming of finding 2 reaches `parseTSC` too: a file in a directory named as
  the root, printed relative to it, is taken for one a level up.
- A cap from 2^28 MiB on wraps to a small limit, and one above 4,096 MiB that does
  not wrap panics in wazero (`engine.go:63`). `GrantFits`, in `RunsAsDeclared`, is
  stated for caps whose pages fit in a word.
- `wasm.go:199-203` says that the error of a call its context ends matches the
  context's. A guest that leaves by `proc_exit` between the end of the context and
  its next loop is told with its own code instead, and a `Start` whose guest leaves
  with 0 so answers an instance that is closed. `StoppedIsTold` excepts a guest
  that left (`left`).
- `wasm.go:196-197` says that an instance may sit idle for as long as its caller
  likes. wazero's watcher runs beside the call: one that saw the context end while
  the guest returned may close the instance when it is idle, or in its next call
  (`late`). No property says that an idle instance stays.
- A stream that ends between a packet's length and its body ends with the `io.EOF`
  of a clean end (`stdio.go:206`, `211`). `serve` stops either way, and no success
  rests on it; only the error's text is that of a clean end.
- An offset inside a rune counts the bytes before it one by one
  (`esbuild.go:476`); `ColumnsAgree` is about the bytes at which runes begin.

## 6. The proofs

Every theorem holds for all values of the constants that the named assumptions
allow: capacities and sizes positive, bounds natural, commands among the known,
listings ranked, what is said as `Told` has it. Five theorems of `PluginProofs`
have hypotheses of their own, which are named below.

- `BundleProofs`. `SuccessIsComplete` is not inductive: that `broken` is stable
  once the caller has read it rests on `serve` answering nothing after the
  response, which rests on requests being answered in the order made. `SessionInv
  == TypeOK /\ Shape /\ Order /\ Outcome` says what each pipe may carry, that
  every request not yet answered is owed and younger than every answer under way,
  and that what each actor concluded is what the guest decided. `TypeStep`,
  `ShapeStep`, `OrderStep` and `OutcomeStep` prove it step by step; `Typing`,
  `BundleIsComplete`, `CancellationIsNamed` and `PromiseIsKept` (each step maps to
  a step of `BundlePromise` or a stutter) follow from it.
  `NoLostRequest` says that every request still owed an answer is in
  one place and only one: in the guest, on its way, with `serve`, or in an answer
  that the guest has not read whole. That the places are apart
  follows from `SessionInv`; that none is lost does not: an answer of several
  cells lies on both sides of a pipe at once, and only its last cell answers.
  `RequestInv` adds `owed = Somewhere` and `Framed`: a request is one cell, and more
  of an answer follows every cell of it but the last. `RequestsCaller`,
  `RequestsServe` and `RequestsGuest` follow a cell through each actor's steps.
  This holds while the session is up: after it, what the pipes held is dropped,
  and nobody waits for it.
- `PluginProofs`. `Inside` says that the name being probed, and every name kept,
  is valid; `NamesStayInside`, `EscapesAreReported` and `PluginTyping` follow, for
  any host and any questions. All that is used there of `rel` is `RelFacts`: it
  answers a valid name or refuses. The others say which promise they rest on. With
  `AnswersNames`, `Resolved` is an invariant: each path a guest may load was
  answered for the file it is kept for, so a load reads what was resolved and one
  file is one module (`LoadsAreOfResolves`, `ModulesAreFiles`), since
  the form a guest sees names one file (`FullInjective`). With
  `ReadsUnderAnswers`, `Unchanged` says that until the host changes every name
  kept is served and is its own alias (`ResolvedCanBeRead`). With `RootIsName`,
  `Entered` says that no suffix is tried after the name of an entry itself
  (`EntriesResolve`): each entry that `Bundle` accepted is found again in the form
  in which the guest asks for it, by `NamesAreFound`. Without `AnswersNames` the
  first fails, and without `RootIsName` the last: findings 2 and 3. `PlainHosts`
  says what `AnswersNames` is of a host without reference to `rel`.
- `NamesProofs`. What `path.Clean` and `rel` compute of every path. The induction
  theorems of the library take an operator and cannot be used; `NatSets` and
  `UpToSets` say the same of a set of numbers, from the library's theorem on least
  elements, and a step of an induction is a set with 0 in it that is closed under
  the successor. A recursive function is a CHOOSE, so that a function which
  satisfies its equation has to be given first: it is made from initial pieces,
  each by the induction. With that `Clean` is followed segment by segment.
  `CleanTwice`: it leaves what it made alone. `NamesAreFound`: `rel` finds a name
  in each form in which it arrives, unless the root stands in front of it once
  more, which is finding 2. `RelIsInside`: a name `rel` finds is the one the path
  spells, and a rooted path is refused if and only if it is not below the root.
- `ReloadProofs`. `ReloadTyping`, `RolesStayTogether` and `NamesAreDroppedFirst`
  for the registry. `CallsInv` says that the calls on one engine have distinct
  numbers, none above its counter, and what each end allows as a result;
  `NamesStayApart`, `AnswersAreWhole` and `CancellationsAreTold` follow.
- `SandboxProofs`. `BrokenContractsAreTold`: a trap is never replaced while the
  stack unwinds, since every throw needs a stack nothing unwinds; one lemma for
  each kind of step. `SandboxTypes` rests on the shape of a stack (`Stacks`): a call at the bottom,
  a host function only over code of the guest, and over it only the `alloc` it
  asked. `Moves` names the ways a step changes a stack (it pushes,
  pops, or cuts down to a frame), so that typing and the lemmas after it look at
  those and not at each action again. `StoppedCallsAreTold`: `ExitInv` says that an
  exit code of a guest's own is under way only if the guest has left by it
  (`left`), so that a call which ends on an instance that is closed answers the
  code of who closed it, or a trap, or is one whose guest left; no step opens an
  instance again. `StoreInv` strengthens what is
  promised of the Store: every slice in it, and every slice a host function under
  way hands over, belongs to the host and holds a value put under that key, and a
  key of which a put answered 0 is there. `StoreKeepsCopies`, `GetsAreOfPuts` and
  `PutsAreFound` follow from it, the last two as properties of a step.
- `SetupProofs`. `Stage` says what is open and what is known of the bytes at each
  point of a set-up, `Result` what became of it. `SetupTyping`,
  `SetupsCloseWhatTheyOpened` and `SetupsRunAsDeclared` follow; one lemma takes
  every step that fails. The products are hidden behind names, as the prover
  knows nothing of them but that they are naturals.
- `TreeProofs`. `Inside` says that every name the tree works on, the alias read
  under included, has no parent in it: `NothingLeavesTheProject`. `Learnt` says
  what a call in the middle knows of its subject if the host does not change its
  mind about it: under which name it is read, that it is no directory when it is
  read second, and no file when it is listed second: `EveryViewIsTheTree`. It
  grows with the hosts seen because a settled name has one answer in all of them.
  A listing is made one name at a time, the least of those left,
  from the start for every page. `Progress` says of a page half made that the
  entries made are the names taken so far, and all of them come before those left;
  an entry at position `i` of a listing in order is the one with `i - 1` names
  before it (`InOrder`), which says without induction that two listings of one
  project agree place by place (`AsLongIsAll`, `PageGiven`). `Paged` is that, and
  that what was given is the listing up to the position; `PagesAreOneListing`
  follows for a project that does not change while the directory is open. `Typed`
  bounds what a page has made by the names there are, which is what `TreeTyping`
  needs of the position.

- `ToldProofs`. `ToldFaithfully` follows each fold step by step. `ColumnsAreTold`:
  that `units` counts what a compiler counts, by induction over the runes before
  the byte. `PrintedIsRead`: `parseTSC` over the first `n` reports has read the
  first `n` diagnostics, and within one report the first lines of its message;
  what it makes of a file is `NamesAreFound` and `RelIsInside`. `ArtifactIsKept`
  has a message's file from the latter, its column from `ColumnsAreTold`, and its
  text from `NotesKept`: the `k`-th note, if it says something, stands behind the
  text and as many notes as said something before it. `EndSurvives`: after each write `sink` holds the end of
  what was written up to there, since the end of an end is the end. `SayingsOnly`
  says that nothing else is said.
  `ProbeIsExact` is about `Memory64`. `At(b, pos, s)` says that `s` stands in `b`
  at `pos`; what is made by `\o` or by flattening stands at places that add up
  (`AtParts`, `FlattenSpots`). `NumberRead` is that a number written in up to ten
  bytes is read where it stands, and `NumberTooLong` that one of more bytes is no
  number. Then each reader is taken over what it is meant to read, from
  `LimitsRead` and `NameRead` to `ImportRead`, `VectorRead` and `SectionRead`, each
  saying that the probe answers there if a memory of 64 bits is declared there, and
  stands behind it otherwise; `BinaryRead` and `BinaryTooLong` go along the
  sections, and `ModulesAreFound` is the whole. `CutSaysNoMore` is about any bytes,
  not those of a module only: as long as the probe of the first `n` bytes goes on,
  that of all bytes is at the same place (`ReadCut`, `SectionCut`).

Model-checked only:

- Liveness: `CancelledBundleReturns`, `EveryoneLeaves`, `CancelledCallReturns` and
  `CallReturns`. The prover has no rule for fairness.
- `WireAgrees`: `Wire` writes and reads trees by recursive operators, over which
  the prover has no rule of induction, and in whose presence it has no arithmetic.
- The hypotheses of `PluginProofs`, of the values of `plugin_safety`. The first
  two are about a host, and nothing in the code can establish them; the third is
  about the label a caller gives the project.

## 7. Not modelled

- The contents of the synthesized config, the command line of tsgo, the flags of
  esbuild's build and `Detects`: values handed on once, that no other step sees.
- `Instance.Memory`: what a host writes into a guest between calls.
- The memory of the host process: a packet or an array is allocated by the length
  it announces. Values of 2^31 bytes or more, whose length `get` answers as a
  negative number, and keys with a newline, which `list` does not escape.
- `Seek` and `Read` of an open file: the standard library's, over bytes taken
  before.
- wazero, esbuild, tsgo, `Store` and `Files`: external. They are modelled by what
  the code relies on, with as much freedom as it has to cope with.
- Tests, benchmarks and the table of loaders and aims, beyond what they say the
  code should do.
