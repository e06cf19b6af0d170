------------------------------- MODULE Bundle -------------------------------
(* One call of Esbuild.Bundle (compile/esbuild.go) and the stdio service it *)
(* drives (compile/stdio.go), from the checks before the first pipe to the   *)
(* deferred closes.  Four actors take interleaved steps:                     *)
(*   caller   the goroutine that called Bundle,                              *)
(*   serve    the goroutine `go s.serve()` starts after the handshake,       *)
(*   inst     the goroutine that instantiates the module and reports `done`, *)
(*   guest    esbuild itself inside the instance (not in this repository).   *)
(* They share two pipes of bounded capacity, the service's mutex, the        *)
(* plugin's `broken` flag and the caller's context.  A packet crosses a pipe *)
(* in cells, so a write of a large packet is a sequence of steps that may    *)
(* block half way, and a reader may see the stream end inside a packet.      *)
EXTENDS Naturals, Sequences

CONSTANTS
    PipeCap,    \* cells a pipe holds before its writer blocks
    BigCells,   \* cells of a packet that carries a file (loaded or built)
    MaxReq,     \* bound: requests (and garbled packets) one guest writes
    Commands,   \* the commands of the requests this guest may write
    Garbles     \* whether it may write a packet that does not decode

Known == {"on-start", "on-resolve", "on-load", "ping"}

ASSUME PipeCapAssumption  == PipeCap \in Nat \ {0}
ASSUME BigCellsAssumption == BigCells \in Nat \ {0}
ASSUME MaxReqAssumption   == MaxReq \in Nat
ASSUME CommandsAssumption == Commands \subseteq Known \cup {"unknown"}
ASSUME GarblesAssumption  == Garbles \in BOOLEAN

Verdicts == {"built", "refusal", "stray"}
Replies  == {"answer", "contents"}
Kinds    == Known \cup {"unknown"} \cup Verdicts \cup Replies
              \cup {"version", "wrong", "build", "garbage"}

\* Requests of the guest are numbered 1, 2, ... ; every other packet has id 0.
Packet == [kind : Kinds, id : 0 .. MaxReq]
NoPacket == [kind |-> "garbage", id |-> 0]

Size(p)  == IF p.kind \in {"contents", "built"} THEN BigCells ELSE 1
Cells(p) == [i \in 1 .. Size(p) |-> [pkt |-> p, at |-> i]]
Cell     == [pkt : Packet, at : Nat]
IsLast(c) == c.at = Size(c.pkt)

VARIABLES
    ctx,        \* the caller's context: "live" or "done"
    caller,     \* where the caller is in Bundle
    result,     \* what Bundle returned, "none" before it has
    mu,         \* who holds service.mu
    callerOut,  \* what the caller has still to write of its build request
    pending,    \* service.pending holds the build's channel
    ch,         \* the response that channel holds
    serve,      \* where the serve goroutine is
    serving,    \* the packet it decoded last
    serveOut,   \* what it has still to write of its answer
    broken,     \* plugin.broken is set
    toGuest,    \* cells in the pipe hostW -> guestIn
    toHost,     \* cells in the pipe guestOut -> hostR
    open,       \* the pipe ends the host holds open
    guest,      \* what the guest is doing
    exit,       \* how the instance ended
    gout,       \* what the guest has still to write of its packet
    owed,       \* requests the guest wrote and has no answer to
    sent,       \* requests the guest has made
    asked,      \* the guest has read the build request
    verdict,    \* the response it decided on
    inst,       \* where the instance goroutine is
    doneErr     \* what it sends on done

sending == <<callerOut, pending, ch>>
session == <<caller, result, sending>>
answer  == <<serving, serveOut, broken>>
server  == <<serve, answer>>
pipes   == <<toGuest, toHost>>
asking  == <<owed, sent, asked, verdict>>
work    == <<guest, exit, gout, asking>>
runner  == <<inst, doneErr>>
outside == <<ctx, work, runner>>
host    == <<ctx, mu, session, server, runner>>
vars    == <<mu, session, server, pipes, open, outside>>

Init ==
    /\ ctx = "live" /\ mu = "free"
    /\ caller = "start" /\ result = "none"
    /\ callerOut = <<>> /\ pending = FALSE /\ ch = "none"
    /\ serve = "off" /\ serving = NoPacket /\ serveOut = <<>> /\ broken = FALSE
    /\ toGuest = <<>> /\ toHost = <<>> /\ open = {}
    /\ guest = "unborn" /\ exit = "none" /\ gout = <<>>
    /\ owed = {} /\ sent = 0 /\ asked = FALSE /\ verdict = "none"
    /\ inst = "off" /\ doneErr = "none"

Cancel ==
    /\ ctx = "live"
    /\ ctx' = "done"
    /\ UNCHANGED <<session, server, pipes, work, runner, mu, open>>

-----------------------------------------------------------------------------
(* The caller.                                                               *)

(* A definition named <Definition>_<Bug> is the mutant of that definition a  *)
(* check uses to show that a property notices the bug; nothing here uses it. *)

\* The deferred closes, which every return runs.
Deferred_WriteEndKept == {"hostR"}
Deferred == {"hostW", "hostR"}

Return(r) ==
    /\ caller' = "returned"
    /\ result' = r
    /\ open' = open \ Deferred

\* An error is the context's when the context is done.
OrCanceled_Unasked(r) == r
OrCanceled(r) == IF ctx = "done" THEN "canceled" ELSE r

\* No files, no entry, an entry outside the root, without loader or missing.
Refuse ==
    /\ caller = "start"
    /\ Return("refused")
    /\ UNCHANGED <<outside, sending, server, pipes, mu>>

FirstPipe ==
    /\ caller = "start"
    /\ \/ /\ open' = {"guestIn", "hostW"}
          /\ caller' = "half"
          /\ UNCHANGED result
       \/ Return("pipe")
    /\ UNCHANGED <<outside, sending, server, pipes, mu>>

SecondPipe ==
    /\ caller = "half"
    /\ \/ /\ open' = open \cup {"hostR", "guestOut"}
          /\ caller' = "handshake"
          /\ inst' = "running"
          /\ UNCHANGED result
       \/ /\ open' = open \ {"guestIn", "hostW"}
          /\ caller' = "returned"
          /\ result' = "pipe"
          /\ UNCHANGED inst
    /\ UNCHANGED <<sending, server, pipes, work, ctx, mu, doneErr>>

\* handshake read the version: on a match the serve goroutine starts.
ReadVersion ==
    /\ caller = "handshake"
    /\ toHost # <<>>
    /\ toHost' = Tail(toHost)
    /\ \/ /\ Head(toHost).pkt.kind = "version"
          /\ caller' = "locking"
          /\ serve' = "reading"
          /\ UNCHANGED <<result, open>>
       \/ /\ Head(toHost).pkt.kind # "version"
          /\ Return("version")
          /\ UNCHANGED serve
    /\ UNCHANGED <<outside, sending, answer, mu, toGuest>>

HandshakeEOF ==
    /\ caller = "handshake"
    /\ toHost = <<>> /\ "guestOut" \notin open
    /\ Return(OrCanceled("handshake"))
    /\ UNCHANGED <<outside, sending, server, pipes, mu>>

\* send: registers the channel and starts the write, holding the mutex.
LockSend ==
    /\ caller = "locking"
    /\ mu = "free"
    /\ mu' = "caller"
    /\ caller' = "writing"
    /\ pending' = TRUE
    /\ callerOut' = Cells([kind |-> "build", id |-> 0])
    /\ UNCHANGED <<outside, server, pipes, result, ch, open>>

PushBuild ==
    /\ caller = "writing"
    /\ callerOut # <<>>
    /\ "guestIn" \in open /\ Len(toGuest) < PipeCap
    /\ toGuest' = Append(toGuest, Head(callerOut))
    /\ callerOut' = Tail(callerOut)
    /\ UNCHANGED <<outside, server, mu, caller, result, pending, ch, toHost,
                   open>>

BuildSent ==
    /\ caller = "writing"
    /\ callerOut = <<>>
    /\ mu' = "free"
    /\ caller' = "await"
    /\ UNCHANGED <<outside, sending, server, pipes, result, open>>

BuildFails ==
    /\ caller = "writing"
    /\ callerOut # <<>> /\ "guestIn" \notin open
    /\ mu' = "free"
    /\ callerOut' = <<>>
    /\ Return(OrCanceled("send"))
    /\ UNCHANGED <<outside, server, pipes, pending, ch>>

\* The two cases of send's select; neither is the context.
TakeAnswer ==
    /\ caller = "await"
    /\ ch # "none"
    /\ ch' = "none"
    /\ \/ /\ ch = "built"
          /\ caller' = "checking"
          /\ UNCHANGED <<result, open>>
       \/ ch = "refusal" /\ Return("refusedBuild")
       \/ ch = "stray" /\ Return("stray")
    /\ UNCHANGED <<outside, server, pipes, mu, callerOut, pending>>

StreamEnds ==
    /\ caller = "await"
    /\ serve = "ended"
    /\ Return(OrCanceled("send"))
    /\ UNCHANGED <<outside, sending, server, pipes, mu>>

\* host.failed(), then hostW.Close(), which tells the service to exit.
ToldToExit == {"hostW"}

CheckHost_Unread ==
    /\ caller = "checking"
    /\ caller' = "closing"
    /\ open' = open \ ToldToExit
    /\ UNCHANGED <<outside, sending, server, pipes, mu, result>>
CheckHost ==
    /\ caller = "checking"
    /\ \/ broken /\ Return("broken")
       \/ /\ ~broken
          /\ caller' = "closing"
          /\ open' = open \ ToldToExit
          /\ UNCHANGED result
    /\ UNCHANGED <<outside, sending, server, pipes, mu>>

DoneResult_Ignored == IF doneErr = "canceled" THEN "canceled" ELSE "ok"
DoneResult == CASE doneErr = "nil"      -> "ok"
                [] doneErr = "canceled" -> "canceled"
                [] OTHER                -> "guest"

TakeDone ==
    /\ caller = "closing"
    /\ inst = "done"
    /\ Return(DoneResult)
    /\ UNCHANGED <<outside, sending, server, pipes, mu>>

CtxDone ==
    /\ caller = "closing"
    /\ ctx = "done"
    /\ Return("canceled")
    /\ UNCHANGED <<outside, sending, server, pipes, mu>>

CallerStep ==
    \/ Refuse \/ FirstPipe \/ SecondPipe \/ ReadVersion \/ HandshakeEOF
    \/ LockSend \/ PushBuild \/ BuildSent \/ BuildFails
    \/ TakeAnswer \/ StreamEnds \/ CheckHost \/ TakeDone \/ CtxDone

-----------------------------------------------------------------------------
(* The serve goroutine.                                                      *)

\* What a whole packet makes serve do next.
Decoded_Unchecked(p) ==
    IF p.kind \in Commands THEN "answering" ELSE "delivering"
Decoded_KnownOnly(p) == CASE p.kind = "garbage" -> "ended"
                          [] p.kind \in Known   -> "answering"
                          [] OTHER              -> "delivering"
Decoded(p) == CASE p.kind = "garbage"  -> "ended"
                [] p.kind \in Commands -> "answering"
                [] OTHER               -> "delivering"

\* One cell read; the last one of a packet decodes it.
ServeRead ==
    /\ serve = "reading"
    /\ "hostR" \in open /\ toHost # <<>>
    /\ toHost' = Tail(toHost)
    /\ LET c == Head(toHost)
       IN IF ~IsLast(c)
          THEN UNCHANGED <<serve, serving>>
          ELSE serving' = c.pkt /\ serve' = Decoded(c.pkt)
    /\ UNCHANGED <<outside, session, mu, serveOut, broken, toGuest, open>>

ServeEOF ==
    /\ serve = "reading"
    /\ \/ "hostR" \notin open
       \/ toHost = <<>> /\ "guestOut" \notin open
    /\ serve' = "ended"
    /\ UNCHANGED <<outside, session, answer, pipes, mu, open>>

\* What plugin.answer may do with a command: answer, send a file's contents, or
\* fail the host and say so (a Realpath outside the project, a load no resolve
\* answered for, a command it does not implement).
Answers(kind) ==
    CASE kind = "on-resolve" -> {"answer", "fail"}
      [] kind = "on-load"    -> {"answer", "fail", "contents"}
      [] kind \in {"on-start", "ping"} -> {"answer"}
      [] OTHER               -> {"fail"}

\* encode(id, false, resp): the answer carries the id of its request.
AnswerId_Lost == 0
AnswerId == serving.id

ServeAnswer ==
    /\ serve = "answering"
    /\ \E a \in Answers(serving.kind) :
          /\ serveOut' = Cells([kind |-> IF a = "fail" THEN "answer" ELSE a,
                                id |-> AnswerId])
          /\ broken' = (broken \/ a = "fail")
    /\ serve' = "locking"
    /\ UNCHANGED <<outside, session, pipes, mu, serving, open>>

ServeLock ==
    /\ serve = "locking"
    /\ mu = "free"
    /\ mu' = "serve"
    /\ serve' = "writing"
    /\ UNCHANGED <<outside, session, answer, pipes, open>>

ServePush ==
    /\ serve = "writing"
    /\ serveOut # <<>>
    /\ {"hostW", "guestIn"} \subseteq open /\ Len(toGuest) < PipeCap
    /\ toGuest' = Append(toGuest, Head(serveOut))
    /\ serveOut' = Tail(serveOut)
    /\ UNCHANGED <<outside, session, mu, serve, serving, broken, toHost, open>>

ServeUnlock ==
    /\ serve = "writing"
    /\ serveOut = <<>>
    /\ mu' = "free"
    /\ serve' = "reading"
    /\ UNCHANGED <<outside, session, answer, pipes, open>>

ServeWriteFails ==
    /\ serve = "writing"
    /\ serveOut # <<>> /\ ~({"hostW", "guestIn"} \subseteq open)
    /\ mu' = "free"
    /\ serve' = "ended"
    /\ serveOut' = <<>>
    /\ UNCHANGED <<outside, session, pipes, serving, broken, open>>

\* A response: whoever waits for it has it, or it is dropped.
ServeDeliver ==
    /\ serve = "delivering"
    /\ mu = "free"
    /\ serve' = "reading"
    /\ pending' = FALSE
    /\ ch' = IF pending THEN serving.kind ELSE ch
    /\ UNCHANGED <<outside, answer, pipes, mu, caller, result, callerOut, open>>

ServeStep ==
    \/ ServeRead \/ ServeEOF \/ ServeAnswer \/ ServeLock \/ ServePush
    \/ ServeUnlock \/ ServeWriteFails \/ ServeDeliver

-----------------------------------------------------------------------------
(* The guest: esbuild's service under wazero, as the host uses it.  It runs  *)
(* on one thread, so while it writes (gout # <<>>) it does nothing else and  *)
(* nothing stops it; a context or a Close reaches it only while it runs.     *)

Busy == guest = "running" /\ gout = <<>>

GuestLeaves(how) ==
    /\ guest' = "ended"
    /\ exit' = how
    /\ gout' = <<>>
    /\ UNCHANGED <<asking>>

GuestWrites(p) == gout' = Cells(p)

GuestStart ==
    /\ inst = "running" /\ guest = "unborn"
    /\ guest' = "running"
    /\ \E k \in {"version", "wrong"} : GuestWrites([kind |-> k, id |-> 0])
    /\ UNCHANGED <<host, pipes, asking, open, exit>>

GuestRefused ==
    /\ inst = "running" /\ guest = "unborn"
    /\ GuestLeaves("failed")
    /\ UNCHANGED <<host, pipes, open>>

GuestPush ==
    /\ guest = "running" /\ gout # <<>>
    /\ "hostR" \in open /\ Len(toHost) < PipeCap
    /\ toHost' = Append(toHost, Head(gout))
    /\ gout' = Tail(gout)
    /\ UNCHANGED <<host, asking, toGuest, open, guest, exit>>

GuestWriteBreaks ==
    /\ guest = "running" /\ gout # <<>>
    /\ "hostR" \notin open
    /\ GuestLeaves("failed")
    /\ UNCHANGED <<host, pipes, open>>

GuestRead ==
    /\ Busy
    /\ toGuest # <<>>
    /\ toGuest' = Tail(toGuest)
    /\ LET c == Head(toGuest)
       IN /\ asked' = (asked \/ c.pkt.kind = "build")
          /\ owed' = IF IsLast(c) THEN owed \ {c.pkt.id} ELSE owed
    /\ UNCHANGED <<host, toHost, open, guest, exit, gout, sent, verdict>>

GuestAsk ==
    /\ Busy
    /\ asked /\ verdict = "none"
    /\ sent < MaxReq
    /\ sent' = sent + 1
    /\ owed' = owed \cup {sent + 1}
    /\ \E k \in Commands : GuestWrites([kind |-> k, id |-> sent + 1])
    /\ UNCHANGED <<host, pipes, open, guest, exit, asked, verdict>>

\* esbuild answers the build when every plugin call it made has its answer.
GuestAnswer ==
    /\ Busy
    /\ asked /\ verdict = "none" /\ owed = {}
    /\ verdict' \in Verdicts
    /\ GuestWrites([kind |-> verdict', id |-> 0])
    /\ UNCHANGED <<host, pipes, open, guest, exit, owed, sent, asked>>

GuestGarble ==
    /\ Garbles
    /\ Busy
    /\ asked
    /\ sent < MaxReq
    /\ sent' = sent + 1
    /\ GuestWrites(NoPacket)
    /\ UNCHANGED <<host, pipes, open, guest, exit, owed, asked, verdict>>

GuestExit ==
    /\ Busy
    /\ toGuest = <<>> /\ "hostW" \notin open
    /\ GuestLeaves("zero")
    /\ UNCHANGED <<host, pipes, open>>

\* It crashes, or the host closes the engine under the call, which wazero
\* reports as exit code 0.
GuestDies ==
    /\ Busy
    /\ \E how \in {"failed", "zero"} : GuestLeaves(how)
    /\ UNCHANGED <<host, pipes, open>>

GuestStopped ==
    /\ Busy
    /\ ctx = "done"
    /\ GuestLeaves("ctx")
    /\ UNCHANGED <<host, pipes, open>>

\* It waits for its stdin only when something has to come.
GuestPark ==
    /\ Busy
    /\ ~asked \/ owed # {} \/ verdict # "none"
    /\ toGuest = <<>> /\ "hostW" \in open
    /\ guest' = "parked"
    /\ UNCHANGED <<host, pipes, asking, open, exit, gout>>

GuestWake ==
    /\ guest = "parked"
    /\ toGuest # <<>> \/ "hostW" \notin open
    /\ guest' = "running"
    /\ UNCHANGED <<host, pipes, asking, open, exit, gout>>

GuestStep ==
    \/ GuestStart \/ GuestRefused \/ GuestPush \/ GuestWriteBreaks
    \/ GuestRead \/ GuestAsk \/ GuestAnswer \/ GuestGarble \/ GuestExit
    \/ GuestDies \/ GuestStopped \/ GuestPark \/ GuestWake

-----------------------------------------------------------------------------
(* The goroutine around InstantiateModule.                                   *)

InstCloses_Reader == {"guestIn"}
InstCloses == {"guestOut", "guestIn"}

InstClose ==
    /\ inst = "running" /\ guest = "ended"
    /\ open' = open \ InstCloses
    /\ inst' = "closed"
    /\ UNCHANGED <<session, server, pipes, work, ctx, mu, doneErr>>

InstReport ==
    /\ inst = "closed"
    /\ inst' = "done"
    /\ doneErr' = OrCanceled(IF exit = "zero" THEN "nil" ELSE "failed")
    /\ UNCHANGED <<session, server, pipes, work, ctx, mu, open>>

InstStep == InstClose \/ InstReport

-----------------------------------------------------------------------------
AllLeft == caller = "returned" /\ serve \in {"off", "ended"}
             /\ inst \in {"off", "done"}

\* Everyone has left: the model may stop here and nowhere else.
Finished == AllLeft /\ UNCHANGED vars

Next == Cancel \/ CallerStep \/ ServeStep \/ GuestStep \/ InstStep \/ Finished

Spec == Init /\ [][Next]_vars

-----------------------------------------------------------------------------
(* Fairness.  The Go scheduler runs every goroutine that can go on, wazero   *)
(* returns a context's error at the guest's next loop iteration, and a pipe  *)
(* write or poll that can complete does.                                     *)
HostFairness ==
    WF_vars(CallerStep) /\ WF_vars(ServeStep) /\ WF_vars(InstStep)

RuntimeFairness ==
    /\ WF_vars(GuestStart \/ GuestRefused)
    /\ WF_vars(GuestPush \/ GuestWriteBreaks)
    /\ WF_vars(GuestWake)

\* Nothing is asked of the guest but what the runtime does to it.
CancelSpec ==
    /\ Spec /\ HostFairness /\ RuntimeFairness
    /\ WF_vars(GuestStopped)

\* A guest that reads what it is sent, answers its build and exits at EOF.
GuestAnswers ==
    WF_vars(GuestRead) /\ WF_vars(GuestAnswer) /\ WF_vars(GuestExit)

-----------------------------------------------------------------------------
(* Properties.                                                               *)

CallerAt == {"start", "half", "handshake", "locking", "writing", "await",
             "checking", "closing", "returned"}
Results  == {"none", "refused", "pipe", "canceled", "handshake", "version",
             "send", "refusedBuild", "stray", "broken", "guest", "ok"}
Ends     == {"guestIn", "hostW", "hostR", "guestOut"}

TypeOK ==
    /\ ctx \in {"live", "done"}
    /\ caller \in CallerAt
    /\ result \in Results
    /\ mu \in {"free", "caller", "serve"}
    /\ callerOut \in Seq(Cell)
    /\ pending \in BOOLEAN
    /\ ch \in {"none"} \cup Verdicts
    /\ serve \in {"off", "reading", "answering", "locking", "writing",
                  "delivering", "ended"}
    /\ serving \in Packet
    /\ serveOut \in Seq(Cell)
    /\ broken \in BOOLEAN
    /\ toGuest \in Seq(Cell) /\ toHost \in Seq(Cell)
    /\ open \subseteq Ends
    /\ guest \in {"unborn", "running", "parked", "ended"}
    /\ exit \in {"none", "zero", "failed", "ctx"}
    /\ gout \in Seq(Cell)
    /\ owed \subseteq 1 .. MaxReq
    /\ sent \in 0 .. MaxReq
    /\ asked \in BOOLEAN
    /\ verdict \in {"none"} \cup Verdicts
    /\ inst \in {"off", "running", "closed", "done"}
    /\ doneErr \in {"none", "nil", "canceled", "failed"}

\* A bundle returned without error is a whole one: the guest answered the build
\* with every call it made answered, the project never misbehaved, and the
\* instance left with exit code 0.  Bundle reads `broken` and closes the pipe
\* after the response, while serve still runs (esbuild.go:164-196).
SuccessIsComplete ==
    result = "ok" => /\ verdict = "built"
                     /\ exit = "zero"
                     /\ owed = {}
                     /\ ~broken

\* A context that stopped the guest is what the caller is told, never the
\* truncated stream or the exit code it caused (esbuild.go:142, 151-157, 166).
CancellationNamed ==
    [][(exit = "ctx" /\ result' # result)
          => result' \notin {"handshake", "send", "guest", "ok"}]_vars

Ids(s, kinds) ==
    {s[i].pkt.id : i \in {j \in DOMAIN s : s[j].pkt.kind \in kinds}}

AtGuest  == Ids(gout, Commands)
OnTheWay == Ids(toHost, Commands)
AtHost   == IF serve \in {"answering", "locking"} THEN {serving.id} ELSE {}
Unsent   == IF serve = "writing" THEN Ids(serveOut, Replies) ELSE {}
Unread   == Ids(toGuest, Replies)

\* While the session is up, a request the guest waits on is somewhere: being
\* written, in the pipe, at the host, or on its way back; the four are answers
\* to each other, so none is answered twice (stdio.go:203-250).
NoLostRequest ==
    (serve # "ended" /\ guest # "ended" /\ caller # "returned") =>
        /\ owed = AtGuest \cup OnTheWay \cup AtHost \cup Unsent \cup Unread
        /\ \A s, t \in {AtGuest, OnTheWay, AtHost, Unsent \cup Unread} :
              s # t => s \cap t = {}

\* Every behaviour of the call is one the caller was promised: each result is
\* backed by what the guest and the project did, at the moment it is returned.
Promise == INSTANCE BundlePromise WITH tainted <- broken, gone <- exit
PromiseKept == Promise!Spec

\* When the guest answers, and the pipes are large enough (CancelledBundleReturns),
\* Bundle returns, and whichever way it does, both goroutines end and all four
\* pipe ends are closed: a call leaks nothing.
EveryoneLeaves == GuestAnswers => <>(AllLeft /\ open = {})

\* esbuild.go:152: "A cancelled context closes the instance, which ends the
\* stream".  So a cancelled call returns, whatever its guest does.
CancelledBundleReturns == (ctx = "done") ~> (caller = "returned")
=============================================================================
