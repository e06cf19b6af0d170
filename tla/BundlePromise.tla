---------------------------- MODULE BundlePromise ----------------------------
(* What a caller of Bundler.Bundle may rely on (compile/compile.go:226-231,  *)
(* compile/esbuild.go:82-197), without goroutines, pipes or packets: facts   *)
(* about the call become true, each once, and the call returns one result    *)
(* that those facts allow.                                                   *)

VARIABLES
    ctx,        \* the caller's context: "live" or "done"
    verdict,    \* what the bundler answered the build: "none" before it has
    tainted,    \* the project or the bundler broke the contract between them
    gone,       \* how the instance ended: "none" while it lives
    result      \* what the call returned: "none" before it has

vars == <<ctx, verdict, tainted, gone, result>>

Init == /\ ctx = "live" /\ verdict = "none" /\ tainted = FALSE
        /\ gone = "none" /\ result = "none"

Cancel == /\ ctx = "live" /\ ctx' = "done"
          /\ UNCHANGED <<verdict, tainted, gone, result>>

\* The contract can only be broken while the build still asks the project.
Taint == /\ verdict = "none"
         /\ tainted' = TRUE
         /\ UNCHANGED <<ctx, verdict, gone, result>>

Decide == /\ verdict = "none" /\ gone = "none"
          /\ verdict' \in {"built", "refusal", "stray"}
          /\ UNCHANGED <<ctx, tainted, gone, result>>

Leave == /\ gone = "none"
         /\ \/ gone' \in {"zero", "failed"}
            \/ gone' = "ctx" /\ ctx = "done"
         /\ UNCHANGED <<ctx, verdict, tainted, result>>

Allowed(r) ==
    \/ r \in {"refused", "pipe"}     /\ verdict = "none" /\ gone = "none"
    \/ r = "version"                 /\ verdict = "none"
    \/ r = "canceled"                /\ ctx = "done"
    \/ r \in {"handshake", "send"}   /\ ctx = "live"
    \/ r = "refusedBuild"            /\ verdict = "refusal"
    \/ r = "stray"                   /\ verdict = "stray"
    \/ r = "broken"                  /\ verdict = "built" /\ tainted
    \/ r = "guest"                   /\ verdict = "built" /\ gone = "failed"
    \/ r = "ok"                      /\ verdict = "built" /\ ~tainted
                                     /\ gone = "zero"

Return == /\ result = "none"
          /\ \E r \in {"refused", "pipe", "version", "canceled", "handshake",
                       "send", "refusedBuild", "stray", "broken", "guest",
                       "ok"} :
                Allowed(r) /\ result' = r
          /\ UNCHANGED <<ctx, verdict, tainted, gone>>

Next == Cancel \/ Taint \/ Decide \/ Leave \/ Return

Spec == Init /\ [][Next]_vars
=============================================================================
