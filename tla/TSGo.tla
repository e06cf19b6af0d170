-------------------------------- MODULE TSGo --------------------------------
(* TSGo.Check (compile/tsgo.go:73-150) on the engine it shares with every    *)
(* other check (compile/engine.go): one runtime, one compiled module, one    *)
(* counter for instance names.  Any number of calls run at once, each in an  *)
(* instance of its own, and the host may close the engine under them.        *)
EXTENDS Naturals

CONSTANTS
    Engines,    \* the engines there are, one for each TSGo
    Calls       \* the calls of Check there will be

VARIABLES
    closed,     \* the engines the host has closed
    seq,        \* engine.seq
    on,         \* the engine a call was made on
    ctx,        \* a call's context: "live" or "done"
    at,         \* where a call is
    num,        \* the number in its instance's name
    inside,     \* its guest is in a call of the project's Files
    printed,    \* its guest has written a diagnostic
    ended,      \* how its instance ended
    result      \* what it returned

guests  == <<inside, printed, ended>>
calls   == <<on, ctx, at, num, guests, result>>
tsgo    == <<closed, seq, calls>>

TSGoInit(anEngine) ==
    /\ closed = {} /\ seq = [e \in Engines |-> 0]
    /\ on = [c \in Calls |-> anEngine]
    /\ ctx = [c \in Calls |-> "live"]
    /\ at = [c \in Calls |-> "idle"]
    /\ num = [c \in Calls |-> 0]
    /\ inside = [c \in Calls |-> FALSE]
    /\ printed = [c \in Calls |-> FALSE]
    /\ ended = [c \in Calls |-> "none"]
    /\ result = [c \in Calls |-> "none"]

Cancel(c) ==
    /\ ctx[c] = "live" /\ at[c] # "returned"
    /\ ctx' = [ctx EXCEPT ![c] = "done"]
    /\ UNCHANGED <<closed, seq, on, at, num, guests, result>>

-----------------------------------------------------------------------------
(* The call.  A definition named <Definition>_<Bug> is the mutant of that    *)
(* definition a check uses; nothing here uses it.                            *)

\* No files, too much memory asked for, an entry outside the root, nothing to
\* check, or no config to be had.
Refuse(c, e) ==
    /\ at[c] = "idle"
    /\ on' = [on EXCEPT ![c] = e]
    /\ at' = [at EXCEPT ![c] = "returned"]
    /\ result' = [result EXCEPT ![c] = "refused"]
    /\ UNCHANGED <<closed, seq, ctx, num, guests>>

\* engine.name: the counter goes up and is read in one step.
Counted_Not(e) == seq
Counted(e) == [seq EXCEPT ![e] = @ + 1]

Begin(c, e) ==
    /\ at[c] = "idle"
    /\ on' = [on EXCEPT ![c] = e]
    /\ at' = [at EXCEPT ![c] = "named"]
    /\ seq' = Counted(e)
    /\ num' = [num EXCEPT ![c] = seq[e] + 1]
    /\ UNCHANGED <<closed, ctx, guests, result>>

\* The calls whose instances a runtime knows by name.
Running(e) == {c \in Calls : on[c] = e /\ at[c] = "running"}

\* Why InstantiateModule refuses before the guest's first instruction.
Refusal(c) ==
    CASE on[c] \in closed -> "closed"
      [] on[c] \notin closed /\ \E d \in Running(on[c]) : num[d] = num[c]
             -> "taken"
      [] OTHER -> "none"

Instantiate(c) ==
    /\ at[c] = "named"
    /\ ended' = [ended EXCEPT ![c] = Refusal(c)]
    /\ at' = [at EXCEPT ![c] = IF Refusal(c) = "none" THEN "running"
                               ELSE "ended"]
    /\ UNCHANGED <<closed, seq, on, ctx, num, inside, printed, result>>

\* What Check makes of the error InstantiateModule returned.
Outcome_CodeOnly(c) ==
    CASE ended[c] \in {"closed", "taken", "trap"} -> "failed"
      [] ended[c] \in {"code", "ctx"} /\ ~printed[c] -> "exited"
      [] OTHER -> IF printed[c] THEN "diags" ELSE "clean"
Outcome_NoOutput(c) ==
    CASE ended[c] \notin {"zero", "cut"} /\ ctx[c] = "done" -> "canceled"
      [] OTHER -> IF printed[c] THEN "diags" ELSE "clean"
Outcome(c) ==
    CASE ended[c] \notin {"zero", "cut"} /\ ctx[c] = "done" -> "canceled"
      [] ended[c] \in {"closed", "taken", "trap"} /\ ctx[c] = "live" -> "failed"
      [] ended[c] = "code" /\ ctx[c] = "live" /\ ~printed[c] -> "exited"
      [] OTHER -> IF printed[c] THEN "diags" ELSE "clean"

Return(c) ==
    /\ at[c] = "ended"
    /\ at' = [at EXCEPT ![c] = "returned"]
    /\ result' = [result EXCEPT ![c] = Outcome(c)]
    /\ UNCHANGED <<closed, seq, on, ctx, num, guests>>

-----------------------------------------------------------------------------
(* The guest: tsgo inside its instance, under wazero.                        *)

\* A call of Files runs on the host, without a context (compile.go:50-62).
Asks(c) ==
    /\ at[c] = "running" /\ ~inside[c]
    /\ inside' = [inside EXCEPT ![c] = TRUE]
    /\ UNCHANGED <<closed, seq, on, ctx, at, num, printed, ended, result>>

Answered(c) ==
    /\ inside[c]
    /\ inside' = [inside EXCEPT ![c] = FALSE]
    /\ UNCHANGED <<closed, seq, on, ctx, at, num, printed, ended, result>>

Ends(c, how) ==
    /\ at[c] = "running" /\ ~inside[c]
    /\ at' = [at EXCEPT ![c] = "ended"]
    /\ ended' = [ended EXCEPT ![c] = how]
    /\ UNCHANGED <<closed, seq, on, ctx, num, inside, printed, result>>

Writes(c) ==
    /\ at[c] = "running" /\ ~inside[c]
    /\ printed' = [printed EXCEPT ![c] = TRUE]
    /\ UNCHANGED <<closed, seq, on, ctx, at, num, inside, ended, result>>

\* It exits, cleanly or not, or traps, of its own accord.
Exits(c) == \E how \in {"zero", "code", "trap"} : Ends(c, how)

\* WithCloseOnContextDone: a context reaches the guest that runs, at the head of
\* a loop.
StopsOnContext_Not == FALSE
StopsOnContext == TRUE

CtxStops(c) == StopsOnContext /\ ctx[c] = "done" /\ Ends(c, "ctx")

\* A closed runtime ends its instances with exit code 0.
CloseStops(c) == on[c] \in closed /\ Ends(c, "cut")

-----------------------------------------------------------------------------
(* engine.Close.                                                             *)

\* It waits for nobody: the calls that run are cut off.
Close(e) ==
    /\ e \notin closed
    /\ closed' = closed \cup {e}
    /\ UNCHANGED <<seq, calls>>

CallStep(c) == Instantiate(c) \/ Return(c)

GuestStep(c) ==
    Asks(c) \/ Answered(c) \/ Writes(c) \/ Exits(c) \/ CtxStops(c) \/ CloseStops(c)
=============================================================================
