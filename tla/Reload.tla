------------------------------- MODULE Reload -------------------------------
(* A host that reloads its checkers while requests use them: the registry,   *)
(* the engines behind what it holds, and calls that looked a checker up      *)
(* before it was dropped and use it after.                                   *)
EXTENDS Registry, TSGo

VARIABLE handle     \* the checker a call looked up

vars == <<registry, tsgo, handle>>

ASSUME EnginesAssumption == Engines = Checks \ Nils

Init ==
    /\ RegistryInit
    /\ TSGoInit(Nobody)
    /\ handle = [c \in Calls |-> Nobody]

\* A host registers what it has not closed, and closes what it has dropped.
HostRegisters(v) ==
    /\ v \notin closed
    /\ Register(v)
    /\ UNCHANGED <<tsgo, handle>>

HostDrops(n) ==
    /\ Unregister(n)
    /\ UNCHANGED <<tsgo, handle>>

HostCloses(e) ==
    /\ checkers[NameOf[e]] # e
    /\ Close(e)
    /\ UNCHANGED <<registry, handle>>

LookUp(c, n) ==
    /\ handle[c] = Nobody
    /\ CheckerNamed(n) # Nobody
    /\ handle' = [handle EXCEPT ![c] = CheckerNamed(n)]
    /\ UNCHANGED <<registry, tsgo>>

Ask(c) ==
    /\ handle[c] # Nobody
    /\ Refuse(c, handle[c]) \/ Begin(c, handle[c])
    /\ UNCHANGED <<registry, handle>>

Runs(c) ==
    /\ Cancel(c) \/ CallStep(c) \/ GuestStep(c)
    /\ UNCHANGED <<registry, handle>>

Next ==
    \/ \E v \in Values : HostRegisters(v)
    \/ \E n \in Tokens : HostDrops(n)
    \/ \E e \in Engines : HostCloses(e)
    \/ \E c \in Calls, n \in Tokens : LookUp(c, n)
    \/ \E c \in Calls : Ask(c) \/ Runs(c)

Spec == Init /\ [][Next]_vars

\* The scheduler runs a goroutine that can go on.  The host's Files answer what
\* they are asked, and a guest whose context is done comes to the head of a loop
\* again and again: nothing stops one that runs by recursion alone (wasm.go:48-51,
\* 114-116), nor a Files that does not answer.
Alone(A) == A /\ UNCHANGED <<registry, handle>>
FairSpec ==
    Spec /\ \A c \in Calls :
        /\ WF_vars(Alone(CallStep(c)))
        /\ WF_vars(Alone(Answered(c)))
        /\ SF_vars(Alone(CtxStops(c)))

-----------------------------------------------------------------------------
(* Properties.                                                               *)

Outcomes == {"none", "refused", "clean", "diags", "failed", "exited",
             "canceled"}

\* Every variable keeps its type; what is found under a name is no nil
\* (compile.go:239-243), and a guest that asks its Files runs.
TypeOK ==
    /\ checkers \in [Tokens -> (Checks \ Nils) \cup {Nobody}]
    /\ bundlers \in [Tokens -> (Bundles \ Nils) \cup {Nobody}]
    /\ closed \subseteq Engines
    /\ seq \in [Engines -> Nat]
    /\ on \in [Calls -> Engines \cup {Nobody}]
    /\ ctx \in [Calls -> {"live", "done"}]
    /\ at \in [Calls -> {"idle", "named", "running", "ended", "returned"}]
    /\ num \in [Calls -> Nat]
    /\ inside \in [Calls -> BOOLEAN]
    /\ printed \in [Calls -> BOOLEAN]
    /\ ended \in [Calls -> {"none", "zero", "code", "trap", "ctx", "cut",
                            "closed", "taken"}]
    /\ result \in [Calls -> Outcomes]
    /\ handle \in [Calls -> Engines \cup {Nobody}]
    /\ \A c \in Calls : inside[c] => at[c] = "running"

\* A value that both checks and bundles is found under its name in both roles or
\* in neither, whatever registrations failed half way (compile.go:260-281).
RolesAgree ==
    \A v \in Checks \cap Bundles :
        checkers[NameOf[v]] = v <=> bundlers[NameOf[v]] = v

\* A name that is taken is never handed to another value: it is dropped first
\* (compile.go:241, 264-274).
NeverReplaced ==
    [][\A n \in Tokens :
          /\ checkers[n] # Nobody => checkers'[n] \in {checkers[n], Nobody}
          /\ bundlers[n] # Nobody => bundlers'[n] \in {bundlers[n], Nobody}]_vars

\* Two checks at once never have one name: no call fails because another runs
\* (engine.go:85-89).
NamesApart == \A c \in Calls : ended[c] # "taken"

\* compile.go:221-222: "A checker that cannot run returns an error naming what was
\* missing, never an empty success".  So diagnostics, or that there are none, come
\* from a guest that exited of its own accord, and none from one that exited 0.
Whole(c) == /\ ended[c] \in {"zero", "code"}
            /\ result[c] = "clean" => ended[c] = "zero"

AnswerIsWhole ==
    \A c \in Calls : result[c] \in {"clean", "diags"} => Whole(c)

\* It is so as long as nobody closed the engine, whatever else happened to the
\* call or its guest (tsgo.go:127-149).
WholeWhileOpen ==
    \A c \in Calls :
        (result[c] \in {"clean", "diags"} /\ on[c] \notin closed) => Whole(c)

\* A check its context stopped says so, and not what exit code that made
\* (tsgo.go:133-137).
CancellationTold ==
    \A c \in Calls : ended[c] = "ctx" => result[c] \in {"none", "canceled"}

\* A cancelled call returns wherever the context's end finds it: before it has an
\* instance, while its guest computes, writes or waits for the project's Files, or
\* when its engine is closed as well (engine.go:62-64).  That the Files answer and
\* that the guest loops is assumed, see FairSpec.
CancelledCallReturns ==
    \A c \in Calls :
        (ctx[c] = "done" /\ at[c] # "idle") ~> at[c] = "returned"
=============================================================================
