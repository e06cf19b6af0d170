----------------------------- MODULE SetupProofs -----------------------------
(* Whatever fails on the way to an engine, nothing stays open, and what was  *)
(* compiled is what was declared: for all configurations, contents and       *)
(* sizes of a page, a word and a limit.                                      *)
EXTENDS Setup, TLAPS

\* The bytes in hand passed the comparison with the digest.
Checked == config.role = "engine" => Declares /\ raw = Fold[config.sum]

\* What is open, and what is known of the bytes, at each point of a set-up.
Stage ==
    /\ pc \in {"start", "verify", "runtime"} \cup Over => open = {}
    /\ pc = "body" => open = {"body"}
    /\ pc \in {"wasi", "compile", "up"} => open = Released
    /\ pc \in {"body", "verify", "runtime", "compile"} => config.role = "engine"
    /\ pc \in {"body", "verify"} => Declares
    /\ pc \in {"runtime", "wasi", "compile"} => Checked

\* What became of it.
Result ==
    /\ pc \notin {"up", "closed"} => compiled = Nothing /\ granted = 0
    /\ pc \in {"wasi", "compile", "up"} => pages = Pages
    /\ granted # 0 => granted <= Cap /\ config.role = "engine" /\ pages = Pages

SetupInv == TypeOK /\ Stage /\ Result /\ ContentDeclared

LEMMA InitSetup == Init => SetupInv
  <1> SUFFICES ASSUME Init PROVE SetupInv
    OBVIOUS
  <1>1. TypeOK
    BY MemoryAssumption DEF Init, TypeOK
  <1>2. Stage /\ Result /\ ContentDeclared
    BY DEF Init, Stage, Result, ContentDeclared, Over
  <1> QED BY <1>1, <1>2 DEF SetupInv

LEMMA CapIsNat == config \in Configs => Cap \in Nat
  BY ConfigsAssumption, MemoryAssumption DEF Cap, ConfigType

LEMMA FittingPages == config \in Configs /\ Fits => Pages \in 0 .. MaxPages
  <1> SUFFICES ASSUME config \in Configs, Fits PROVE Pages \in 0 .. MaxPages
    OBVIOUS
  <1> DEFINE product == Cap * PagesPerMiB
  <1>1. product \in Nat
    BY CapIsNat, MemoryAssumption
  <1> HIDE DEF product
  <1>2. product % Word \in Nat
    BY <1>1, MemoryAssumption
  <1>3. EnginePages \in Nat
    BY <1>2 DEF EnginePages, product
  <1>4. config.memory \in Nat /\ DefaultPages \in Nat /\ MaxPages \in Nat
    BY ConfigsAssumption, MemoryAssumption DEF ConfigType
  <1>5. Pages \in Nat
    BY <1>3, <1>4 DEF Pages, SandboxPages
  <1> QED BY <1>4, <1>5 DEF Fits

LEMMA StepSetup == SetupInv /\ [Next]_vars => SetupInv'
  <1> SUFFICES ASSUME SetupInv, [Next]_vars PROVE SetupInv'
    OBVIOUS
  <1> USE DEF SetupInv
  \* A step that fails closes what it has to, and decides nothing else.
  <1>f. ASSUME NEW released, Fails(released), pc \notin {"up", "closed"},
               open \ released = {}
        PROVE  SetupInv'
    <2>1. TypeOK'
      BY <1>f DEF Fails, TypeOK
    <2>2. Stage' /\ Result' /\ ContentDeclared'
      BY <1>f DEF Fails, Stage, Result, ContentDeclared, Over, Cap, Pages,
                  EnginePages, SandboxPages
    <2> QED BY <2>1, <2>2
  <1>1. CASE SourceChanges
    <2>1. TypeOK'
      BY <1>1 DEF SourceChanges, TypeOK
    <2> QED BY <1>1, <2>1 DEF SourceChanges, Stage, Result, ContentDeclared,
        Released, Caches, Checked, Declares, Over, Cap, Pages, EnginePages,
        SandboxPages
  <1>2. CASE Refuse
    BY <1>2, <1>f DEF Refuse, Stage
  <1>3. CASE ReadPath
    <2>1. CASE Fails({})
      BY <1>3, <2>1, <1>f DEF ReadPath, Stage
    <2>2. ASSUME NEW content \in {source, Torn}, Take(content), source # Nothing,
                 UNCHANGED <<config, source, open, pages, compiled, granted>>
          PROVE  SetupInv'
      <3>1. TypeOK'
        BY <2>2 DEF Take, TypeOK, Fetched
      <3> QED BY <1>3, <2>2, <3>1 DEF ReadPath, Take, Stage, Result,
          ContentDeclared, Declares, Over, Cap, Pages, EnginePages, SandboxPages
    <2> QED BY <1>3, <2>1, <2>2 DEF ReadPath
  <1>4. CASE Fetch
    <2>1. CASE Fails({})
      BY <1>4, <2>1, <1>f DEF Fetch, Stage
    <2>2. ASSUME pc' = "body", open' = open \cup {"body"},
                 UNCHANGED <<config, source, raw, pages, compiled, granted>>
          PROVE  SetupInv'
      <3>1. TypeOK'
        BY <2>2 DEF TypeOK
      <3> QED BY <1>4, <2>2, <3>1 DEF Fetch, Stage, Result, ContentDeclared,
          Declares, Over, Cap, Pages, EnginePages, SandboxPages
    <2> QED BY <1>4, <2>1, <2>2 DEF Fetch
  <1>5. CASE ReadBody
    <2>1. CASE Fails({"body"})
      BY <1>5, <2>1, <1>f DEF ReadBody, Stage
    <2>2. ASSUME NEW content \in {source, Torn}, Take(content), source # Nothing,
                 open' = open \ {"body"},
                 UNCHANGED <<config, source, pages, compiled, granted>>
          PROVE  SetupInv'
      <3>1. TypeOK'
        BY <2>2 DEF Take, TypeOK, Fetched
      <3> QED BY <1>5, <2>2, <3>1 DEF ReadBody, Take, Stage, Result,
          ContentDeclared, Declares, Over, Cap, Pages, EnginePages, SandboxPages
    <2> QED BY <1>5, <2>1, <2>2 DEF ReadBody
  <1>6. CASE Verify
    <2>1. CASE Matches(raw)
      <3>1. TypeOK'
        BY <1>6, <2>1 DEF Verify, TypeOK
      <3> QED BY <1>6, <2>1, <3>1 DEF Verify, Matches, Stage, Result, Checked,
          ContentDeclared, Declares, Over, Cap, Pages, EnginePages, SandboxPages
    <2>2. CASE ~Matches(raw)
      BY <1>6, <2>2, <1>f DEF Verify, Stage
    <2> QED BY <2>1, <2>2
  <1>7. CASE Panic
    <2>1. TypeOK'
      BY <1>7 DEF Panic, TypeOK
    <2> QED BY <1>7, <2>1 DEF Panic, Configured, Stage, Result, ContentDeclared,
        Over, Cap, Pages, EnginePages, SandboxPages
  <1>8. CASE CacheFails
    BY <1>8, <1>f DEF CacheFails, Configured, Stage
  <1>9. CASE MakeRuntime
    <2>1. pages' \in 0 .. MaxPages
      BY <1>9, FittingPages DEF MakeRuntime, TypeOK
    <2>2. TypeOK'
      BY <1>9, <2>1 DEF MakeRuntime, TypeOK
    <2>3. open = {} /\ compiled = Nothing /\ granted = 0
      BY <1>9 DEF MakeRuntime, Configured, Stage, Result
    <2>4. Stage'
      BY <1>9, <2>3 DEF MakeRuntime, Configured, Stage, Checked, Declares,
                        Released, Caches, Over
    <2>5. pages' = Pages'
      BY <1>9 DEF MakeRuntime, Pages, EnginePages, SandboxPages, Cap
    <2>6. Result' /\ ContentDeclared'
      BY <1>9, <2>3, <2>5 DEF MakeRuntime, Result, ContentDeclared
    <2> QED BY <2>2, <2>4, <2>6
  <1>10. CASE Wasi
    <2>1. CASE Fails(Released)
      BY <1>10, <2>1, <1>f DEF Wasi, Stage
    <2>2. ASSUME pc' = IF config.role = "engine" THEN "compile" ELSE "up",
                 UNCHANGED <<config, source, raw, open, pages, compiled, granted>>
          PROVE  SetupInv'
      <3>1. TypeOK'
        BY <2>2 DEF TypeOK
      <3> QED BY <1>10, <2>2, <3>1 DEF Wasi, Stage, Result, ContentDeclared,
          Released, Caches, Checked, Declares, Over, Cap, Pages, EnginePages,
          SandboxPages
    <2> QED BY <1>10, <2>1, <2>2 DEF Wasi
  <1>11. CASE CompileBlob
    <2>1. CASE Fails(Released)
      BY <1>11, <2>1, <1>f DEF CompileBlob, Stage
    <2>2. ASSUME pc' = "up", compiled' = raw,
                 UNCHANGED <<config, source, raw, open, pages, granted>>
          PROVE  SetupInv'
      <3>1. TypeOK'
        BY <2>2 DEF TypeOK
      <3>2. ContentDeclared'
        BY <1>11, <2>2 DEF CompileBlob, Stage, Checked, Declares, ContentDeclared
      <3> QED BY <1>11, <2>2, <3>1, <3>2 DEF CompileBlob, Stage, Result,
          Released, Caches, Checked, Declares, Over, Cap, Pages, EnginePages,
          SandboxPages
    <2> QED BY <1>11, <2>1, <2>2 DEF CompileBlob
  <1>12. CASE Compile
    <2>1. TypeOK'
      BY <1>12 DEF Compile, TypeOK, Fetched
    <2>2. ContentDeclared'
      BY <1>12, ConfigsAssumption DEF Compile, ContentDeclared, TypeOK, ConfigType
    <2> QED BY <1>12, <2>1, <2>2 DEF Compile, Stage, Result, Released, Caches,
        Over, Cap, Pages, EnginePages, SandboxPages
  <1>13. CASE Close
    <2>1. TypeOK'
      BY <1>13 DEF Close, TypeOK
    <2> QED BY <1>13, <2>1 DEF Close, Stage, Result, ContentDeclared, Over, Cap,
        Pages, EnginePages, SandboxPages
  <1>14. ASSUME NEW want \in Wants, Grant(want) PROVE SetupInv'
    <2>1. granted' \in Nat /\ granted' <= Cap
      BY <1>14, CapIsNat, MemoryAssumption DEF Grant, Grants, TypeOK
    <2>2. TypeOK'
      BY <1>14, <2>1 DEF Grant, TypeOK
    <2>3. UNCHANGED <<config, source, pc, raw, open, pages, compiled>>
      BY <1>14 DEF Grant
    <2>4. Cap' = Cap /\ Pages' = Pages
      BY <2>3 DEF Cap, Pages, EnginePages, SandboxPages
    <2>5. pc = "up" /\ config.role = "engine"
      BY <1>14 DEF Grant
    <2>6. Stage' /\ ContentDeclared'
      BY <2>3 DEF Stage, ContentDeclared, Released, Caches, Checked, Declares,
                  Over
    <2>7. Result'
      BY <2>1, <2>3, <2>4, <2>5 DEF Result
    <2> QED BY <2>2, <2>6, <2>7
  <1>15. CASE UNCHANGED vars
    <2>1. TypeOK'
      BY <1>15 DEF vars, TypeOK
    <2> QED BY <1>15, <2>1 DEF vars, Stage, Result, ContentDeclared, Released,
        Caches, Checked, Declares, Over, Cap, Pages, EnginePages, SandboxPages
  <1> QED BY <1>1, <1>2, <1>3, <1>4, <1>5, <1>6, <1>7, <1>8, <1>9, <1>10,
             <1>11, <1>12, <1>13, <1>14, <1>15 DEF Next

\* A smaller number of MiB has no more pages.
LEMMA FewerPages ==
    ASSUME NEW a \in Nat, NEW b \in Nat, NEW p \in Nat, a <= b
    PROVE  a * p <= b * p
  OBVIOUS

\* A product that does not overflow is its own remainder.
LEMMA NoWrap ==
    ASSUME NEW a \in Nat, NEW w \in Nat \ {0}, a < w
    PROVE  a % w = a
  OBVIOUS

LEMMA GrantsFit == SetupInv => GrantFits
  <1> SUFFICES ASSUME SetupInv, granted # 0, Cap * PagesPerMiB < Word
               PROVE  granted * PagesPerMiB <= pages
    BY DEF GrantFits
  <1>1. Cap \in Nat /\ granted \in Nat /\ PagesPerMiB \in Nat
    BY CapIsNat, MemoryAssumption DEF SetupInv, TypeOK
  <1>2. granted <= Cap /\ pages = EnginePages
    BY DEF SetupInv, Result, Pages
  <1> DEFINE product == Cap * PagesPerMiB
  <1>3. product \in Nat /\ granted * PagesPerMiB <= product
    BY <1>1, <1>2, FewerPages
  <1>4. EnginePages = product % Word
    BY DEF EnginePages
  <1>5. product < Word
    OBVIOUS
  <1> HIDE DEF product
  <1>6. EnginePages = product
    BY <1>3, <1>4, <1>5, NoWrap, MemoryAssumption
  <1> QED BY <1>2, <1>3, <1>6

\* Every variable of a set-up keeps its type, the limit of memory what wazero
\* takes (wasm.go:117, engine.go:61-63).
THEOREM SetupTyping == Spec => []TypeOK
  <1>1. SetupInv => TypeOK
    BY DEF SetupInv
  <1> QED BY <1>1, InitSetup, StepSetup, PTL DEF Spec

\* Whichever step fails, what was opened is closed, and an engine that is up
\* has open just what its Close releases (engine.go:65-82, 145-156).
THEOREM SetupsCloseWhatTheyOpened == Spec => []NothingLeftOpen
  <1>1. SetupInv => NothingLeftOpen
    BY DEF SetupInv, Stage, NothingLeftOpen
  <1> QED BY <1>1, InitSetup, StepSetup, PTL DEF Spec

\* What runs is what was declared, in a memory that holds what was granted
\* (blob.go:16-22, engine.go:91-103, wasm.go:138-145).
THEOREM SetupsRunAsDeclared == Spec => []RunsAsDeclared
  <1>1. SetupInv => RunsAsDeclared
    BY GrantsFit DEF SetupInv, RunsAsDeclared
  <1> QED BY <1>1, InitSetup, StepSetup, PTL DEF Spec
=============================================================================
