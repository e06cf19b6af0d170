------------------------------- MODULE Sandbox -------------------------------
(* The sandboxes of one Engine (wasm.go) and the Store bridged into them     *)
(* (host.go).  A caller has an instance of its own and makes one call at a   *)
(* time on it; the callers run concurrently and share the Store.  A call is  *)
(* a stack of frames: the guest, the host function it called, the alloc that *)
(* function called to hand over a value, and what alloc calls in turn.       *)
EXTENDS Integers, Sequences, FiniteSets

CONSTANTS
    Instances,  \* the sandboxes, one for each caller
    Keys,       \* what the Store's objects are named
    Bytes,      \* what a value is made of: a value is a set, its length the size
    Allocates,  \* the instances whose guest exports alloc(i32) i32
    Imports,    \* the host functions the guests call
    MaxDepth,   \* bound: host functions on one stack at once
    MaxCalls,   \* bound: Starts and Calls on one instance
    Absent,     \* the Store's answer for a key it does not hold
    Host        \* the owner of a slice that aliases no guest's memory

ASSUME AllocatesAssumption == Allocates \subseteq Instances
ASSUME ImportsAssumption   == Imports \subseteq {"get", "put", "list"}
ASSUME BoundsAssumption    == MaxDepth \in Nat /\ MaxCalls \in Nat
ASSUME NamesAssumption     == Host \notin Instances /\ Keys \cap Bytes = {}
ASSUME SizesAssumption     == IsFiniteSet(Keys) /\ IsFiniteSet(Bytes)

VARIABLES
    life,       \* an instance: "none", "open" or "closed"
    why,        \* the exit code that closed it: "ctx", "zero", "one", or "none"
    stack,      \* the call that runs on it, outermost frame first
    err,        \* what unwinds that stack: "none", "trap", or the code of an exit
    over,       \* the call's context is done
    late,       \* the watcher of a call that has returned is about to close it
    made,       \* Starts and Calls made on it
    reply,      \* what the last of them returned
    mem,        \* the guest's buffer
    answer,     \* the number its last host function answered
    store,      \* the Store: for each key a slice, or Absent
    bound,      \* Bind was called
    shut,       \* the Engine is closed
    ever,       \* history: the values a guest asked to put under each key
    known,      \* history: the keys of which a put has answered 0
    broke,      \* history: the guest broke the contract in this call
    left        \* history: the guest called proc_exit in this call

instance == <<life, why, made, reply>>
did      == <<broke, left>>
running  == <<stack, err, over, late, did>>
guest    == <<mem, answer>>
outside  == <<store, ever, known>>
engine   == <<bound, shut>>
vars     == <<instance, running, guest, outside, engine>>

Values      == SUBSET (Bytes \cup Keys)
Slices      == [owner : Instances \cup {Host}, value : Values]
Slice(o, v) == [owner |-> o, value |-> v]
Content(s)  == IF s.owner = Host THEN s.value ELSE mem[s.owner]
ASSUME AbsentAssumption == Absent \notin Slices

Copied_Not(i) == Slice(i, {})
Copied(i)   == Slice(Host, mem[i])
Outermost   == {"start", "call"}
GuestCode   == Outermost \cup {"alloc"}
HostCode    == {"get", "put", "list"}
Replies     == {"none", "ok", "refused", "nofunc", "trap", "stopped", "closed"}

Frame(fn) == [fn |-> fn]
\* A host function at work: on which key, with which slice, and the keys known
\* to be in the Store when the guest called it.
Asking(fn, key, has) == [fn |-> fn, key |-> key, has |-> has, knew |-> known]

Set(f, i, v) == [f EXCEPT ![i] = v]
Idle(i)      == stack[i] = <<>>
Top(i)       == stack[i][Len(stack[i])]
Under(i, n)  == SubSeq(stack[i], 1, Len(stack[i]) - n)
Depth(i)     == Cardinality({n \in DOMAIN stack[i] : stack[i][n].fn \in HostCode})
Runs(i)      == ~Idle(i) /\ err[i] = "none" /\ Top(i).fn \in GuestCode
Serves(i, fn) == ~Idle(i) /\ err[i] = "none" /\ Top(i).fn = fn

Push(i, frame) == stack' = Set(stack, i, Append(stack[i], frame))
Answer(i, n)   == stack' = Set(stack, i, Under(i, 1)) /\ answer' = Set(answer, i, n)

Init ==
    /\ life = [i \in Instances |-> "none"]  /\ why = life
    /\ stack = [i \in Instances |-> <<>>]   /\ err = life
    /\ over = [i \in Instances |-> FALSE]   /\ late = over
    /\ broke = over                         /\ left = over
    /\ made = [i \in Instances |-> 0]       /\ answer = made
    /\ reply = life
    /\ mem = [i \in Instances |-> {}]
    /\ store = [k \in Keys |-> Absent]
    /\ bound = FALSE                        /\ shut = FALSE
    /\ ever = [k \in Keys |-> {}]           /\ known = {}

-----------------------------------------------------------------------------
(* The Engine.  A second Bind, and one on a closed Engine, change nothing.   *)

Bind ==
    /\ ~bound /\ ~shut
    /\ bound' = TRUE
    /\ UNCHANGED <<instance, running, guest, outside, shut>>

\* Runtime.Close closes every instance with exit code 0, those in a call too.
CloseEngine ==
    /\ ~shut
    /\ shut' = TRUE
    /\ life' = [i \in Instances |-> IF life[i] = "open" THEN "closed" ELSE life[i]]
    /\ why' = [i \in Instances |-> IF life[i] = "open" THEN "zero" ELSE why[i]]
    /\ UNCHANGED <<made, reply, running, guest, outside, bound>>

-----------------------------------------------------------------------------
(* An instance's caller                                                      *)

Makes(i) ==
    /\ Idle(i) /\ made[i] < MaxCalls
    /\ made' = Set(made, i, made[i] + 1)
    /\ broke' = Set(broke, i, FALSE)

\* A guest that imports the Store does not instantiate before Bind.
Start(i) ==
    /\ life[i] = "none"
    /\ Makes(i)
    /\ IF bound /\ ~shut
       THEN /\ life' = Set(life, i, "open")
            /\ Push(i, Frame("start"))
            /\ UNCHANGED reply
       ELSE /\ reply' = Set(reply, i, "refused")
            /\ UNCHANGED <<life, stack>>
    /\ UNCHANGED <<why, err, over, late, left, guest, outside, engine>>

\* A closed instance does not refuse a call: the guest finds out.
Call(i) ==
    /\ life[i] # "none"
    /\ Makes(i)
    /\ Push(i, Frame("call"))
    /\ UNCHANGED <<life, why, reply, err, over, late, left, guest, outside, engine>>

CallMissing(i) ==
    /\ life[i] # "none"
    /\ Makes(i)
    /\ reply' = Set(reply, i, "nofunc")
    /\ UNCHANGED <<life, why, stack, err, over, late, left, guest, outside, engine>>

CloseInstance(i) ==
    /\ Idle(i) /\ life[i] = "open"
    /\ life' = Set(life, i, "closed") /\ why' = Set(why, i, "zero")
    /\ UNCHANGED <<made, reply, running, guest, outside, engine>>

-----------------------------------------------------------------------------
(* The context                                                               *)

\* Start and Call each run under a context of their own, done with when they
\* return.
UnderDeadline_CallsOnly(i) == ~Idle(i) /\ stack[i][1].fn = "call"
UnderDeadline(i) == ~Idle(i)

Ends(i) ==
    /\ UnderDeadline(i) /\ ~over[i]
    /\ over' = Set(over, i, TRUE)
    /\ UNCHANGED <<instance, stack, err, late, did, guest, outside, engine>>

\* The first to close an instance leaves its exit code there.
Closes(i, code) ==
    IF life[i] = "open"
    THEN life' = Set(life, i, "closed") /\ why' = Set(why, i, code)
    ELSE UNCHANGED <<life, why>>

\* WithCloseOnContextDone: the watcher of a call sees the end of its context
\* and closes the instance, and does not see that meanwhile the call has
\* returned, or that the next one has begun.
Stops(i) ==
    /\ (UnderDeadline(i) /\ over[i]) \/ late[i]
    /\ life[i] = "open"
    /\ Closes(i, "ctx")
    /\ late' = Set(late, i, FALSE)
    /\ UNCHANGED <<made, reply, stack, err, over, did, guest, outside, engine>>

-----------------------------------------------------------------------------
(* The end of a Start or a Call                                              *)

\* What the caller is told of what unwound the stack: "ctx" matches the error
\* of the context, and InstantiateModule takes an exit with code 0 for success.
Outcome(i) ==
    CASE err[i] = "none" -> "ok"
      [] err[i] = "trap" -> "trap"
      [] err[i] = "zero" /\ stack[i][1].fn = "start" -> "ok"
      [] err[i] = "ctx" -> "stopped"
      [] OTHER -> "closed"

\* A Start that fails leaves no instance.
Return(i) ==
    LET gone == stack[i][1].fn = "start" /\ Outcome(i) # "ok"
    IN  /\ stack' = Set(stack, i, <<>>) /\ err' = Set(err, i, "none")
        /\ over' = Set(over, i, FALSE) /\ left' = Set(left, i, FALSE)
        /\ \E l \in BOOLEAN :
              late' = Set(late, i, ~gone /\ (late[i] \/ (l /\ over[i] /\ life[i] = "open")))
        /\ reply' = Set(reply, i, Outcome(i))
        /\ life' = Set(life, i, IF gone THEN "none" ELSE life[i])
        /\ why' = Set(why, i, IF gone THEN "none" ELSE why[i])
        /\ UNCHANGED <<made, broke, guest, outside, engine>>

Returns(i) ==
    /\ Runs(i) /\ Len(stack[i]) = 1 /\ life[i] = "open"
    /\ Return(i)

\* give returns where it should have panicked.
Unwind_Answers(i) == IF Top(i).fn \in HostCode THEN "none" ELSE err[i]

\* give drops the error alloc returned it.
Unwind_Unwrapped(i) ==
    IF Top(i).fn \in HostCode /\ err[i] \in {"ctx", "zero"} THEN "one" ELSE err[i]

\* An error ends the frame on top.  It passes a host function as the panic of
\* give: what was an exit with code 0 is then an error that wraps one.
Unwind(i) ==
    IF Top(i).fn \in HostCode /\ err[i] = "zero" THEN "one" ELSE err[i]
Propagate(i) ==
    /\ ~Idle(i) /\ err[i] # "none" /\ Len(stack[i]) > 1
    /\ stack' = Set(stack, i, Under(i, 1))
    /\ err' = Set(err, i, Unwind(i))
    /\ UNCHANGED <<instance, over, late, did, guest, outside, engine>>

Fails(i) ==
    /\ ~Idle(i) /\ err[i] # "none" /\ Len(stack[i]) = 1
    /\ Return(i)

-----------------------------------------------------------------------------
(* The guest                                                                 *)

Throws(i, e) == err' = Set(err, i, e)

Writes(i) ==
    /\ Runs(i)
    /\ \E v \in SUBSET Bytes : mem' = Set(mem, i, v)
    /\ UNCHANGED <<instance, running, answer, outside, engine>>

Traps(i) ==
    /\ Runs(i)
    /\ Throws(i, "trap")
    /\ UNCHANGED <<instance, stack, over, late, did, guest, outside, engine>>

\* proc_exit, with a code of its own whoever closed the instance before.
Exits(i) ==
    /\ Runs(i)
    /\ \E code \in {"zero", "one"} : Throws(i, code) /\ Closes(i, code)
    /\ left' = Set(left, i, TRUE)
    /\ UNCHANGED <<made, reply, stack, over, late, broke, guest, outside, engine>>

\* At the head of a loop, or at the end of what the host called.
FindsClosed(i) ==
    /\ Runs(i) /\ life[i] = "closed"
    /\ Throws(i, why[i])
    /\ UNCHANGED <<instance, stack, over, late, did, guest, outside, engine>>

\* put copies what it hands on; get and list have nothing yet.
CallsHost(i) ==
    /\ Runs(i) /\ Depth(i) < MaxDepth
    /\ \E fn \in Imports, k \in Keys :
          /\ Push(i, Asking(fn, k, IF fn = "put" THEN Copied(i) ELSE Slice(Host, {})))
          /\ ever' = IF fn = "put" THEN Set(ever, k, ever[k] \cup {mem[i]}) ELSE ever
    /\ UNCHANGED <<instance, err, over, late, did, guest, store, known, engine>>

-----------------------------------------------------------------------------
(* The host functions                                                        *)

\* A panic in a host function: the guest broke the contract and is told so.
Breaks(i) ==
    Throws(i, "trap") /\ broke' = Set(broke, i, TRUE) /\ UNCHANGED left

\* read: the key, the prefix or the value lies outside the guest's memory.
BadAddress(i) ==
    /\ \E fn \in HostCode : Serves(i, fn)
    /\ Breaks(i)
    /\ UNCHANGED <<instance, stack, over, late, guest, outside, engine>>

\* give: ask the guest for space, or refuse a guest that has no allocator.
Give(i, s) ==
    IF i \in Allocates
    THEN /\ stack' = Set(stack, i, Append(Under(i, 1), [Top(i) EXCEPT !.has = s])
                                     \o <<Frame("alloc")>>)
         /\ UNCHANGED <<err, did, answer>>
    ELSE Breaks(i) /\ UNCHANGED <<stack, answer>>

Get(i) ==
    /\ Serves(i, "get")
    /\ LET s == store[Top(i).key]
       IN  IF s = Absent THEN Answer(i, -1) /\ UNCHANGED <<err, did>>
                         ELSE Give(i, s)
    /\ UNCHANGED <<instance, over, late, mem, outside, engine>>

Listed_ButFirst ==
    {k \in Keys : store[k] # Absent /\ \E o \in Keys \ {k} : store[o] # Absent}
Listed == {k \in Keys : store[k] # Absent}
List(i) ==
    /\ Serves(i, "list")
    /\ Give(i, Slice(Host, Listed))
    /\ UNCHANGED <<instance, over, late, mem, outside, engine>>

Stored(i) == store' = Set(store, Top(i).key, Top(i).has)
Put(i) ==
    /\ Serves(i, "put")
    /\ Stored(i)
    /\ known' = known \cup {Top(i).key}
    /\ Answer(i, 0)
    /\ UNCHANGED <<instance, err, over, late, did, mem, ever, engine>>

\* The Store fails; a put that fails may have been stored all the same.
Failure_IsAbsence(fn) == -1
Failure(fn)           == IF fn = "get" THEN -2 ELSE -1
StoreFails(i) ==
    /\ \E fn \in HostCode :
          /\ Serves(i, fn)
          /\ Answer(i, Failure(fn))
          /\ store' = store \/ (fn = "put" /\ Stored(i))
    /\ UNCHANGED <<instance, err, over, late, did, mem, ever, known, engine>>

\* A Store that honours its context fails once that is done.
GivesUp(i) == over[i] /\ StoreFails(i)

\* The guest's alloc answers, and give writes the value and its address there.
AllocReturns(i) ==
    /\ Serves(i, "alloc") /\ life[i] = "open"
    /\ LET v == Content(stack[i][Len(stack[i]) - 1].has)
       IN  /\ mem' = Set(mem, i, v)
           /\ answer' = Set(answer, i, Cardinality(v))
    /\ stack' = Set(stack, i, Under(i, 2))
    /\ UNCHANGED <<instance, err, over, late, did, outside, engine>>

\* alloc answered an address the value does not fit at, or the guest gave an
\* address outside its memory for the result.
Unwritable(i) ==
    /\ Serves(i, "alloc") /\ life[i] = "open"
    /\ Breaks(i)
    /\ stack' = Set(stack, i, Under(i, 1))
    /\ UNCHANGED <<instance, over, late, guest, outside, engine>>

-----------------------------------------------------------------------------
Caller(i) == Start(i) \/ Call(i) \/ CallMissing(i) \/ CloseInstance(i)
Context(i) == Ends(i) \/ Stops(i)
GuestStep(i) ==
    \/ Returns(i) \/ Writes(i) \/ Traps(i) \/ Exits(i) \/ FindsClosed(i)
    \/ CallsHost(i)
HostStep(i) ==
    \/ BadAddress(i) \/ Get(i) \/ List(i) \/ Put(i) \/ StoreFails(i)
    \/ AllocReturns(i) \/ Unwritable(i) \/ Propagate(i) \/ Fails(i)

Next ==
    \/ Bind \/ CloseEngine
    \/ \E i \in Instances : Caller(i) \/ Context(i) \/ GuestStep(i) \/ HostStep(i)

Spec == Init /\ [][Next]_vars

\* The deadline comes and is seen, an error unwinds, and the Store honours its
\* context.  A guest that does not return comes to the head of a loop again and
\* again, whatever else it does: one that runs by recursion alone is not bounded.
Fairness ==
    \A i \in Instances :
        /\ WF_vars(Ends(i)) /\ WF_vars(Stops(i))
        /\ WF_vars(Propagate(i)) /\ WF_vars(Fails(i))
        /\ SF_vars(GivesUp(i)) /\ SF_vars(FindsClosed(i))
FairSpec == Spec /\ Fairness

-----------------------------------------------------------------------------
(* Properties                                                                *)

Frames ==
    [fn : GuestCode] \cup [fn : HostCode, key : Keys, knew : SUBSET Keys, has : Slices]

\* A stack is one Start or Call, and each alloc is on a host function's frame,
\* which calls nothing else.
Shaped(s) ==
    \A n \in DOMAIN s :
        /\ s[n].fn \in Outermost <=> n = 1
        /\ n > 1 => (s[n].fn = "alloc" <=> s[n - 1].fn \in HostCode)

\* Every variable keeps its type, and a stack is one Start or Call with at most
\* MaxDepth host functions on it, each with the alloc it called on top of it.
TypeOK ==
    /\ life \in [Instances -> {"none", "open", "closed"}]
    /\ why \in [Instances -> {"none", "ctx", "zero", "one"}]
    /\ err \in [Instances -> {"none", "trap", "ctx", "zero", "one"}]
    /\ over \in [Instances -> BOOLEAN] /\ late \in [Instances -> BOOLEAN]
    /\ broke \in [Instances -> BOOLEAN] /\ left \in [Instances -> BOOLEAN]
    /\ made \in [Instances -> 0 .. MaxCalls]
    /\ reply \in [Instances -> Replies]
    /\ mem \in [Instances -> Values]
    /\ answer \in [Instances -> Int]
    /\ bound \in BOOLEAN /\ shut \in BOOLEAN
    /\ ever \in [Keys -> SUBSET Values] /\ known \subseteq Keys
    /\ store \in [Keys -> Slices \cup {Absent}]
    /\ stack \in [Instances -> Seq(Frames)]
    /\ \A i \in Instances : Shaped(stack[i]) /\ Depth(i) <= MaxDepth

\* What the frame of a host function holds: the copy a put hands on, and what a
\* get or a list hands over from when alloc is on top of it.
Holds(i, n) ==
    LET f == stack[i][n]
    IN  /\ f.fn \in HostCode => f.knew \subseteq known
        /\ f.fn = "put" \/ (f.fn = "get" /\ n < Len(stack[i])) =>
              f.has.owner = Host /\ f.has.value \in ever[f.key]
        /\ f.fn = "list" /\ n < Len(stack[i]) =>
              f.has.owner = Host /\ f.knew \subseteq f.has.value

\* No slice the Store holds or a host function hands over aliases a guest's
\* memory: each holds a value put under its key, and the Store keeps what it
\* said it keeps (host.go:85-93).
StoreInv ==
    /\ TypeOK
    /\ \A k \in Keys :
          store[k] # Absent => store[k].owner = Host /\ store[k].value \in ever[k]
    /\ \A k \in known : store[k] # Absent
    /\ \A i \in Instances : \A n \in DOMAIN stack[i] : Holds(i, n)

\* alloc of i returned, and what fn asked for is in the guest's memory.
HandedOver(i, fn) ==
    /\ ~Idle(i) /\ Top(i).fn = "alloc" /\ Len(stack'[i]) = Len(stack[i]) - 2
    /\ stack[i][Len(stack[i]) - 1].fn = fn
Asked(i) == stack[i][Len(stack[i]) - 1]

\* A get hands over a value some guest asked to put under that key, whole and
\* with its length: never what a guest wrote to its memory after the put
\* (host.go:86-90), and never two values mixed while alloc ran.
GetsWhatWasPut ==
    [][\A i \in Instances : HandedOver(i, "get") =>
          /\ mem'[i] \in ever[Asked(i).key]
          /\ answer'[i] = Cardinality(mem'[i])]_vars

\* Once a put has answered 0, no get that begins later answers that the key is
\* absent, and no list that begins later leaves it out, whatever fails in
\* between: absence is an answer and a failure is not (host.go:60-67).
WhatWasPutIsFound ==
    [][\A i \in Instances :
          /\ HandedOver(i, "list") => Asked(i).knew \subseteq mem'[i]
          /\ /\ Serves(i, "get") /\ Len(stack'[i]) = Len(stack[i]) - 1
             /\ answer'[i] = -1
             => Top(i).key \notin Top(i).knew]_vars

\* A guest that broke the contract, however deep its calls were nested, gets no
\* number and runs no further: what led there returns the trap (host.go:53-56).
BrokenContractIsTold ==
    \A i \in Instances :
        broke[i] => err[i] = "trap" \/ (Idle(i) /\ reply[i] = "trap")

\* i's Start or Call returns, and its outermost frame is fn.
Finishes(i, fn) == ~Idle(i) /\ stack[i][1].fn = fn /\ stack'[i] = <<>>

\* A closed instance is never opened again and no call on it succeeds.  A Start
\* or a Call on one a context closed says so, from under a host function too
\* (wasm.go:199-203), unless the guest itself left before it came to its next
\* loop: proc_exit is then told with the code the guest gave it.
StoppedIsTold ==
    [][\A i \in Instances : life[i] = "closed" =>
          /\ life'[i] # "open"
          /\ Finishes(i, "call") => reply'[i] \in {"trap", "stopped", "closed"}
          /\ \A fn \in Outermost :
                Finishes(i, fn) /\ why[i] = "ctx" =>
                    reply'[i] \in {"trap", "stopped"} \/ left[i]]_vars

\* Every Start and every Call returns, also when the guest loops, when it asks a
\* Store that never answers, and when both happen under each other.
CallReturns == \A i \in Instances : ~Idle(i) ~> Idle(i)
=============================================================================
