---------------------------- MODULE SandboxProofs ----------------------------
(* Proofs about Sandbox.tla: a broken contract always reaches the caller, a  *)
(* call its context stopped never reads as a success, and what guests put    *)
(* into the Store is what guests get from it.                                *)
EXTENDS Sandbox, FiniteSetTheorems, TLAPS

Domains ==
    /\ DOMAIN stack = Instances /\ DOMAIN err = Instances
    /\ DOMAIN reply = Instances /\ DOMAIN broke = Instances

\* What a step of one instance leaves alone of the others.
Alone(i) ==
    \A j \in Instances \ {i} :
        /\ stack'[j] = stack[j] /\ err'[j] = err[j]
        /\ reply'[j] = reply[j] /\ broke'[j] = broke[j]

Told(i) == broke[i] => err[i] = "trap" \/ (Idle(i) /\ reply[i] = "trap")

ToldInv == Domains /\ BrokenContractIsTold

LEMMA ToldInit == Init => ToldInv
BY DEF Init, ToldInv, Domains, BrokenContractIsTold

-----------------------------------------------------------------------------
(* Every step keeps the domains.                                             *)

LEMMA DomainsStep == Domains /\ [Next]_vars => Domains'
<1> SUFFICES ASSUME Domains, [Next]_vars PROVE Domains'
    OBVIOUS
<1>1. CASE UNCHANGED vars
    BY <1>1 DEF Domains, vars, instance, running, guest, outside, engine, did
<1>2. CASE Bind \/ CloseEngine
    BY <1>2 DEF Bind, CloseEngine, Domains, instance, running, guest, outside, did
<1>3. ASSUME NEW i \in Instances, Caller(i) PROVE Domains'
    BY <1>3 DEF Caller, Start, Call, CallMissing, CloseInstance, Makes, Push, Set,
        Domains, running, guest, outside, engine, did
<1>4. ASSUME NEW i \in Instances, Context(i) PROVE Domains'
    BY <1>4 DEF Context, Ends, Stops, Set, Domains, instance, running, guest, outside,
        engine, did
<1>5. ASSUME NEW i \in Instances, GuestStep(i) PROVE Domains'
    BY <1>5 DEF GuestStep, Returns, Return, Writes, Traps, Exits, FindsClosed, CallsHost,
        Throws, Push, Set, Domains, instance, running, guest, outside, engine, did
<1>6. ASSUME NEW i \in Instances, HostStep(i) PROVE Domains'
    <2>1. CASE BadAddress(i) \/ Unwritable(i) \/ Propagate(i) \/ Fails(i)
        BY <2>1 DEF BadAddress, Unwritable, Propagate, Fails, Return, Breaks, Throws, Set,
            Domains, instance, running, guest, outside, engine, did
    <2>2. CASE Get(i) \/ List(i)
        BY <2>2 DEF Get, List, Give, Answer, Breaks, Throws, Set, Domains, instance,
            outside, engine, did
    <2>3. CASE Put(i) \/ StoreFails(i) \/ AllocReturns(i)
        BY <2>3 DEF Put, StoreFails, AllocReturns, Answer, Set, Domains, instance, engine,
            outside, did
    <2> QED BY <1>6, <2>1, <2>2, <2>3 DEF HostStep
<1> QED BY <1>1, <1>2, <1>3, <1>4, <1>5, <1>6 DEF Next

-----------------------------------------------------------------------------
(* A step touches one instance, and it stays told.                           *)

LEMMA TellsCaller ==
    ASSUME ToldInv, NEW i \in Instances, Caller(i)
    PROVE  Alone(i) /\ Told(i)'
BY DEF Caller, Start, Call, CallMissing, CloseInstance, Makes, Push, Set, ToldInv,
    Domains, BrokenContractIsTold, Alone, Told, Idle, running, guest, outside, engine, did

LEMMA TellsContext ==
    ASSUME ToldInv, NEW i \in Instances, Context(i)
    PROVE  Alone(i) /\ Told(i)'
BY DEF Context, Ends, Stops, Set, ToldInv, Domains, BrokenContractIsTold, Alone, Told,
    Idle, instance, running, guest, outside, engine, did

\* What unwinds a stack is what its caller is told.
LEMMA TellsReturn ==
    ASSUME ToldInv, NEW i \in Instances, ~Idle(i), Return(i)
    PROVE  Alone(i) /\ Told(i)'
<1>1. broke[i] => Outcome(i) = "trap"
    BY DEF Outcome, ToldInv, BrokenContractIsTold
<1> QED BY <1>1 DEF Return, Set, ToldInv, Domains, Alone, Told, Idle

LEMMA TellsGuest ==
    ASSUME ToldInv, NEW i \in Instances, GuestStep(i)
    PROVE  Alone(i) /\ Told(i)'
<1>1. CASE Returns(i)
    BY <1>1, TellsReturn DEF Returns, Runs
<1>2. CASE Writes(i) \/ Traps(i) \/ Exits(i) \/ FindsClosed(i) \/ CallsHost(i)
    <2>1. ~broke[i]
        BY <1>2 DEF Writes, Traps, Exits, FindsClosed, CallsHost, Runs, ToldInv,
            BrokenContractIsTold, did
    <2>2. broke' = broke
        BY <1>2 DEF Writes, Traps, Exits, FindsClosed, CallsHost, running, did
    <2>3. Alone(i)
        BY <1>2 DEF Writes, Traps, Exits, FindsClosed, CallsHost, Throws, Push, Set,
            ToldInv, Domains, Alone, instance, running, did
    <2> QED BY <2>1, <2>2, <2>3 DEF Told
<1> QED BY <1>1, <1>2 DEF GuestStep

LEMMA TellsHost ==
    ASSUME ToldInv, NEW i \in Instances, HostStep(i)
    PROVE  Alone(i) /\ Told(i)'
<1>1. CASE Fails(i)
    BY <1>1, TellsReturn DEF Fails
<1>2. CASE Propagate(i)
    BY <1>2 DEF Propagate, Unwind, Set, ToldInv, Domains, BrokenContractIsTold, Alone,
        Told, Idle, instance, did
<1>3. CASE BadAddress(i) \/ Unwritable(i)
    BY <1>3 DEF BadAddress, Unwritable, Breaks, Throws, Set, ToldInv, Domains, Alone,
        Told, instance, did
<1>4. CASE Get(i) \/ List(i)
    <2>1. ~broke[i]
        BY <1>4 DEF Get, List, Serves, ToldInv, BrokenContractIsTold
    <2>2. (broke' = broke /\ err' = err) \/ Breaks(i)
        BY <1>4 DEF Get, List, Give, did
    <2>3. Told(i)'
        BY <2>1, <2>2 DEF Breaks, Throws, Set, ToldInv, Domains, Told
    <2>4. \A j \in Instances \ {i} : stack'[j] = stack[j]
        BY <1>4 DEF Get, List, Give, Answer, Set, ToldInv, Domains
    <2>5. reply' = reply
        BY <1>4 DEF Get, List, instance
    <2> QED BY <2>2, <2>3, <2>4, <2>5 DEF Alone, Breaks, Throws, Set, ToldInv, Domains,
        did
<1>5. CASE Put(i) \/ StoreFails(i) \/ AllocReturns(i)
    <2>1. ~broke[i]
        BY <1>5 DEF Put, StoreFails, AllocReturns, Serves, ToldInv,
            BrokenContractIsTold
    <2>2. broke' = broke /\ err' = err /\ reply' = reply
        BY <1>5 DEF Put, StoreFails, AllocReturns, instance, did
    <2>3. \A j \in Instances \ {i} : stack'[j] = stack[j]
        BY <1>5 DEF Put, StoreFails, AllocReturns, Answer, Set, ToldInv, Domains
    <2> QED BY <2>1, <2>2, <2>3 DEF Told, Alone
<1> QED BY <1>1, <1>2, <1>3, <1>4, <1>5 DEF HostStep

LEMMA ToldStep == ToldInv /\ [Next]_vars => ToldInv'
<1> SUFFICES ASSUME ToldInv, [Next]_vars PROVE BrokenContractIsTold'
    BY DomainsStep DEF ToldInv
<1>1. CASE UNCHANGED vars \/ Bind \/ CloseEngine
    <2>1. UNCHANGED <<stack, err, reply, broke>>
        BY <1>1 DEF Bind, CloseEngine, vars, instance, running, did
    <2> QED BY <2>1 DEF ToldInv, BrokenContractIsTold, Idle
<1>2. ASSUME NEW i \in Instances, Caller(i) \/ Context(i) \/ GuestStep(i) \/ HostStep(i)
      PROVE  BrokenContractIsTold'
    <2>1. Alone(i) /\ Told(i)'
        BY <1>2, TellsCaller, TellsContext, TellsGuest, TellsHost
    <2> QED BY <2>1 DEF Alone, Told, ToldInv, BrokenContractIsTold, Idle
<1> QED BY <1>1, <1>2 DEF Next

\* A guest that broke the contract with its host, at any depth of nested calls,
\* is answered by a trap that the Start or Call returns (host.go:53-56, 126-128).
THEOREM BrokenContractsAreTold == Spec => []BrokenContractIsTold
<1>1. ToldInv => BrokenContractIsTold
    BY DEF ToldInv
<1> QED BY ToldInit, ToldStep, <1>1, PTL DEF Spec

-----------------------------------------------------------------------------
(* Stacks: what each way of changing one does to its shape and its depth.    *)

HostAt(s) == {n \in DOMAIN s : s[n].fn \in HostCode}

Stacked(s) == s \in Seq(Frames) /\ Shaped(s) /\ Cardinality(HostAt(s)) <= MaxDepth

LEMMA Beyond ==
    ASSUME NEW n \in Nat \ {0}, n # 1
    PROVE  n > 1 /\ 2 <= n /\ n - 1 # 0 /\ n \in 1 .. n /\ n - 1 \in 1 .. n /\ n - 1 < n
OBVIOUS

LEMMA CodeIsApart ==
    /\ \A fn \in HostCode : fn \notin GuestCode /\ fn # "alloc" /\ fn \notin Outermost
    /\ \A fn \in Outermost : fn # "alloc"
    /\ Outermost \subseteq GuestCode /\ "alloc" \in GuestCode
    /\ "alloc" \notin Outermost /\ Imports \subseteq HostCode
BY ImportsAssumption DEF HostCode, GuestCode, Outermost

LEMMA HostFrame ==
    ASSUME NEW f \in Frames, f.fn \in HostCode
    PROVE  /\ f \in [fn : HostCode, key : Keys, knew : SUBSET Keys, has : Slices]
           /\ f.key \in Keys /\ f.knew \subseteq Keys /\ f.has \in Slices
<1>1. f \notin [fn : GuestCode]
    BY CodeIsApart
<1> QED BY <1>1 DEF Frames

LEMMA FrameCode ==
    ASSUME NEW f \in Frames
    PROVE  f.fn \in GuestCode \cup HostCode
BY DEF Frames

LEMMA GuestFrame ==
    ASSUME NEW fn \in GuestCode
    PROVE  Frame(fn) \in Frames /\ Frame(fn).fn = fn
BY DEF Frame, Frames

LEMMA Filled ==
    ASSUME NEW f \in Frames, f.fn \in HostCode, NEW s \in Slices
    PROVE  LET g == [f EXCEPT !.has = s]
           IN  /\ g \in Frames /\ g.fn = f.fn /\ g.key = f.key
               /\ g.knew = f.knew /\ g.has = s
BY HostFrame DEF Frames

LEMMA HostsAreFinite ==
    ASSUME NEW s \in Seq(Frames)
    PROVE  IsFiniteSet(HostAt(s)) /\ Cardinality(HostAt(s)) \in Nat
<1>1. HostAt(s) \subseteq 1 .. Len(s)
    BY DEF HostAt
<1>2. IsFiniteSet(1 .. Len(s))
    BY FS_Interval
<1>3. IsFiniteSet(HostAt(s))
    BY <1>1, <1>2, FS_Subset
<1> QED BY <1>3, FS_CardinalityType

\* A call begins.
LEMMA Begins ==
    ASSUME NEW fn \in Outermost
    PROVE  Stacked(<<Frame(fn)>>)
<1> DEFINE s == <<Frame(fn)>>
<1>1. Frame(fn) \in Frames /\ Frame(fn).fn = fn
    BY CodeIsApart, GuestFrame
<1>2. s \in Seq(Frames) /\ Len(s) = 1 /\ s[1].fn = fn /\ DOMAIN s = {1}
    BY <1>1
<1>3. Shaped(s)
    BY <1>2 DEF Shaped
<1>4. HostAt(s) = {}
    BY <1>2, CodeIsApart DEF HostAt
<1>5. Cardinality(HostAt(s)) <= MaxDepth
    BY <1>4, FS_EmptySet, BoundsAssumption
<1> QED BY <1>2, <1>3, <1>5 DEF Stacked

LEMMA Ends0 == Stacked(<<>>)
<1>1. HostAt(<<>>) = {}
    BY DEF HostAt
<1> QED BY <1>1, FS_EmptySet, BoundsAssumption DEF Stacked, Shaped

\* A guest calls a host function.
LEMMA Asks ==
    ASSUME NEW s, Stacked(s), s # <<>>, s[Len(s)].fn \in GuestCode,
           Cardinality(HostAt(s)) < MaxDepth,
           NEW f \in Frames, f.fn \in HostCode
    PROVE  Stacked(Append(s, f))
<1> DEFINE t == Append(s, f)
<1>1. s \in Seq(Frames) /\ Len(s) \in Nat \ {0}
    BY DEF Stacked
<1>2. /\ t \in Seq(Frames) /\ Len(t) = Len(s) + 1 /\ t[Len(s) + 1] = f
      /\ DOMAIN s = 1 .. Len(s) /\ DOMAIN t = 1 .. Len(s) + 1
      /\ \A n \in 1 .. Len(s) : t[n] = s[n]
    BY <1>1
<1>3. Shaped(t)
    BY <1>1, <1>2, CodeIsApart DEF Shaped, Stacked
<1>4. HostAt(t) = HostAt(s) \cup {Len(s) + 1}
    BY <1>1, <1>2 DEF HostAt
<1>5. Len(s) + 1 \notin HostAt(s)
    BY <1>1, <1>2 DEF HostAt
<1>6. Cardinality(HostAt(t)) = Cardinality(HostAt(s)) + 1
    BY <1>1, <1>4, <1>5, HostsAreFinite, FS_AddElement
<1> QED BY <1>1, <1>2, <1>3, <1>6, HostsAreFinite, BoundsAssumption DEF Stacked

LEMMA CutIs ==
    ASSUME NEW s \in Seq(Frames), NEW n \in 0 .. Len(s), NEW t,
           t = SubSeq(s, 1, Len(s) - n)
    PROVE  /\ t \in Seq(Frames) /\ Len(t) = Len(s) - n
           /\ DOMAIN s = 1 .. Len(s) /\ DOMAIN t = 1 .. Len(s) - n
           /\ \A m \in 1 .. Len(s) - n : t[m] = s[m]
OBVIOUS

\* What is on top returns, and what called it if it was an alloc.
LEMMA Cuts ==
    ASSUME NEW s, Stacked(s), NEW n \in 0 .. Len(s)
    PROVE  Stacked(SubSeq(s, 1, Len(s) - n))
<1> DEFINE t == SubSeq(s, 1, Len(s) - n)
<1>1. s \in Seq(Frames) /\ Len(s) \in Nat
    BY DEF Stacked
<1>2. /\ t \in Seq(Frames) /\ Len(t) = Len(s) - n
      /\ DOMAIN s = 1 .. Len(s) /\ DOMAIN t = 1 .. Len(s) - n
      /\ \A m \in 1 .. Len(s) - n : t[m] = s[m]
    BY <1>1
<1> HIDE DEF t
<1>3. Shaped(t)
    <2>1. DOMAIN t \subseteq DOMAIN s /\ \A m \in DOMAIN t : t[m] = s[m]
        BY <1>1, <1>2
    <2>2. \A m \in DOMAIN t : m > 1 => m - 1 \in DOMAIN t
        BY <1>1, <1>2
    <2> QED BY <2>1, <2>2 DEF Shaped, Stacked
<1>4. HostAt(t) \subseteq HostAt(s)
    BY <1>1, <1>2 DEF HostAt
<1>5. Cardinality(HostAt(t)) <= Cardinality(HostAt(s))
    BY <1>1, <1>4, HostsAreFinite, FS_Subset
<1>6. Cardinality(HostAt(t)) <= MaxDepth
    BY <1>1, <1>2, <1>5, HostsAreFinite, BoundsAssumption DEF Stacked
<1>7. Stacked(t)
    BY <1>2, <1>3, <1>6 DEF Stacked
<1> QED BY <1>7 DEF t

\* What give makes of a stack: the host function waits, with slice v, for alloc.
Gave(s, v) ==
    Append(SubSeq(s, 1, Len(s) - 1), [s[Len(s)] EXCEPT !.has = v]) \o <<Frame("alloc")>>

LEMMA GaveIs ==
    ASSUME NEW s \in Seq(Frames), s # <<>>, s[Len(s)].fn \in HostCode, NEW v \in Slices,
           NEW t, t = Gave(s, v)
    PROVE  /\ Len(s) \in Nat \ {0} /\ t \in Seq(Frames) /\ Len(t) = Len(s) + 1
           /\ DOMAIN s = 1 .. Len(s) /\ DOMAIN t = 1 .. Len(s) + 1
           /\ \A n \in 1 .. Len(s) - 1 : t[n] = s[n]
           /\ t[Len(s)].fn = s[Len(s)].fn /\ t[Len(s)].key = s[Len(s)].key
           /\ t[Len(s)].knew = s[Len(s)].knew /\ t[Len(s)].has = v
           /\ t[Len(s) + 1] = Frame("alloc")
<1> DEFINE u == SubSeq(s, 1, Len(s) - 1)
           g == [s[Len(s)] EXCEPT !.has = v]
           r == Append(u, g)
           w == <<Frame("alloc")>>
<1>1. Len(s) \in Nat \ {0} /\ DOMAIN s = 1 .. Len(s) /\ s[Len(s)] \in Frames
    OBVIOUS
<1>2. g \in Frames /\ g.fn = s[Len(s)].fn /\ g.key = s[Len(s)].key
      /\ g.knew = s[Len(s)].knew /\ g.has = v
    BY <1>1, Filled
<1>3. u \in Seq(Frames) /\ Len(u) = Len(s) - 1 /\ \A n \in 1 .. Len(s) - 1 : u[n] = s[n]
    BY <1>1
<1>4. r \in Seq(Frames) /\ Len(r) = Len(s) /\ r[Len(s)] = g
      /\ \A n \in 1 .. Len(s) - 1 : r[n] = s[n]
    BY <1>1, <1>2, <1>3
<1>5. Frame("alloc") \in Frames
    BY GuestFrame, CodeIsApart
<1>6. r \o w = Append(r, Frame("alloc"))
    BY <1>4, <1>5
<1> HIDE DEF r, w
<1>7. /\ r \o w \in Seq(Frames) /\ Len(r \o w) = Len(s) + 1
      /\ DOMAIN (r \o w) = 1 .. Len(s) + 1
      /\ \A n \in 1 .. Len(s) : (r \o w)[n] = r[n]
      /\ (r \o w)[Len(s) + 1] = Frame("alloc")
    <2>1. Len(r) \in Nat
        BY <1>4
    <2> QED BY <1>4, <1>5, <1>6, <2>1
<1>8. t = r \o w
    BY DEF Gave, r, w
<1>9. \A n \in 1 .. Len(s) - 1 : n \in 1 .. Len(s)
    BY <1>1
<1>10. Len(s) \in 1 .. Len(s)
    BY <1>1
<1> QED BY <1>1, <1>2, <1>4, <1>7, <1>8, <1>9, <1>10

LEMMA Gives ==
    ASSUME NEW s, Stacked(s), s # <<>>, s[Len(s)].fn \in HostCode, NEW v \in Slices
    PROVE  Stacked(Gave(s, v))
<1> DEFINE t == Gave(s, v)
<1>1. s \in Seq(Frames)
    BY DEF Stacked
<1> HIDE DEF t
<1>2. /\ Len(s) \in Nat \ {0} /\ t \in Seq(Frames) /\ Len(t) = Len(s) + 1
      /\ DOMAIN s = 1 .. Len(s) /\ DOMAIN t = 1 .. Len(s) + 1
      /\ \A n \in 1 .. Len(s) - 1 : t[n] = s[n]
      /\ t[Len(s)].fn = s[Len(s)].fn /\ t[Len(s) + 1].fn = "alloc"
    <2>1. t = Gave(s, v)
        BY DEF t
    <2>2. Frame("alloc").fn = "alloc"
        BY GuestFrame, CodeIsApart
    <2> QED BY <1>1, <2>1, <2>2, GaveIs
<1>3. \A n \in 1 .. Len(s) : t[n].fn = s[n].fn
    <2> SUFFICES ASSUME NEW n \in 1 .. Len(s) PROVE t[n].fn = s[n].fn
        OBVIOUS
    <2>1. CASE n = Len(s)
        BY <1>2, <2>1
    <2>2. CASE n # Len(s)
        <3>1. Len(s) \in Nat
            BY <1>2
        <3>2. n \in 1 .. Len(s) - 1
            BY <3>1, <2>2
        <3> QED BY <1>2, <3>2
    <2> QED BY <2>1, <2>2
<1>4. Shaped(t)
    <2> SUFFICES ASSUME NEW n \in 1 .. Len(s) + 1
                 PROVE  /\ t[n].fn \in Outermost <=> n = 1
                        /\ n > 1 => (t[n].fn = "alloc" <=> t[n - 1].fn \in HostCode)
        BY <1>2 DEF Shaped
    <2>1. CASE n = Len(s) + 1
        BY <1>2, <1>3, <2>1, CodeIsApart
    <2>2. CASE n # Len(s) + 1
        <3>1. Len(s) \in Nat
            BY <1>2
        <3>2. n \in 1 .. Len(s) /\ n \in DOMAIN s
            BY <1>2, <3>1, <2>2
        <3>3. /\ s[n].fn \in Outermost <=> n = 1
              /\ n > 1 => (s[n].fn = "alloc" <=> s[n - 1].fn \in HostCode)
            BY <3>2 DEF Stacked, Shaped
        <3>4. t[n].fn = s[n].fn /\ (n > 1 => t[n - 1].fn = s[n - 1].fn)
            <4>1. n > 1 => n - 1 \in 1 .. Len(s)
                BY <3>1, <3>2
            <4> QED BY <1>3, <3>2, <4>1
        <3> QED BY <3>3, <3>4
    <2> QED BY <2>1, <2>2
<1>5. HostAt(t) = HostAt(s)
    BY <1>2, <1>3, CodeIsApart DEF HostAt
<1> QED BY <1>2, <1>4, <1>5 DEF Stacked, t

-----------------------------------------------------------------------------
(* What a step makes of a stack.                                             *)

\* A guest asks a host function, and what it put is on record.
MovesAsking(i) ==
    \E fn \in Imports, k \in Keys :
        /\ stack'[i] = Append(stack[i],
              Asking(fn, k, IF fn = "put" THEN Copied(i) ELSE Slice(Host, {})))
        /\ fn = "put" => mem[i] \in ever'[k]

\* A host function that has an answer asks for space for it.
MovesGiving(i) ==
    \E v \in Slices :
        /\ stack'[i] = Gave(stack[i], v)
        /\ Top(i).fn = "get" => Top(i).key \in Keys /\ v = store[Top(i).key]
        /\ Top(i).fn = "list" => v = Slice(Host, Listed)

\* Every way a step changes the stack of the instance it is a step of.
Moves(i) ==
    \/ stack'[i] = stack[i]
    \/ Idle(i) /\ \E fn \in Outermost : stack'[i] = <<Frame(fn)>>
    \/ Runs(i) /\ Depth(i) < MaxDepth /\ MovesAsking(i)
    \/ (Serves(i, "get") \/ Serves(i, "list")) /\ MovesGiving(i)
    \/ ~Idle(i) /\ \E n \in 1 .. Len(stack[i]) : stack'[i] = Under(i, n)
    \/ ~Idle(i) /\ stack'[i] = <<>>

\* It changes no other.
MovesOnly(i) == stack' = Set(stack, i, stack'[i]) /\ Moves(i)

LEMMA Stacks ==
    ASSUME TypeOK, NEW i \in Instances
    PROVE  /\ Stacked(stack[i]) /\ DOMAIN stack = Instances
           /\ stack = Set(stack, i, stack[i])
           /\ ~Idle(i) => /\ Len(stack[i]) \in Nat \ {0}
                          /\ Top(i) \in Frames /\ Top(i) = stack[i][Len(stack[i])]
<1>1. stack[i] \in Seq(Frames) /\ Shaped(stack[i]) /\ Depth(i) <= MaxDepth
    BY DEF TypeOK
<1>2. Depth(i) = Cardinality(HostAt(stack[i]))
    BY DEF Depth, HostAt
<1>3. DOMAIN stack = Instances /\ stack = Set(stack, i, stack[i])
    BY DEF TypeOK, Set
<1>4. ~Idle(i) => Len(stack[i]) \in Nat \ {0} /\ Top(i) \in Frames
    BY <1>1 DEF Idle, Top
<1> QED BY <1>1, <1>2, <1>3, <1>4 DEF Stacked, Top

\* What the Store holds under a key is a slice unless it is absent.
LEMMA StoreHolds ==
    ASSUME TypeOK, NEW k \in Keys, store[k] # Absent
    PROVE  store[k] \in Slices
BY DEF TypeOK

LEMMA ListIsSlice == Slice(Host, Listed) \in Slices /\ Slice(Host, {}) \in Slices
BY DEF Slice, Slices, Values, Listed

LEMMA CopyIsSlice ==
    ASSUME TypeOK, NEW i \in Instances
    PROVE  Copied(i) \in Slices
BY DEF TypeOK, Copied, Slice, Slices

LEMMA AnswersCut ==
    ASSUME TypeOK, NEW i \in Instances, ~Idle(i), NEW n \in 1 .. 2, n <= Len(stack[i]),
           stack' = Set(stack, i, Under(i, n))
    PROVE  MovesOnly(i)
<1>1. DOMAIN stack = Instances /\ Len(stack[i]) \in Nat
    BY Stacks
<1>2. n \in 1 .. Len(stack[i])
    BY <1>1
<1>3. stack'[i] = Under(i, n)
    BY <1>1 DEF Set
<1> QED BY <1>1, <1>2, <1>3 DEF MovesOnly, Moves, Set

LEMMA GivingMoves ==
    ASSUME TypeOK, NEW i \in Instances, Serves(i, "get") \/ Serves(i, "list"),
           NEW v \in Slices, Give(i, v),
           Top(i).fn = "get" => Top(i).key \in Keys /\ v = store[Top(i).key],
           Top(i).fn = "list" => v = Slice(Host, Listed)
    PROVE  MovesOnly(i)
<1>1. DOMAIN stack = Instances
    BY Stacks
<1>2. CASE stack' = stack
    BY <1>2, Stacks DEF MovesOnly, Moves
<1>3. CASE stack' # stack
    <2>1. stack' = Set(stack, i, Gave(stack[i], v))
        BY <1>3 DEF Give, Gave, Under, Top
    <2>2. stack'[i] = Gave(stack[i], v)
        BY <1>1, <2>1 DEF Set
    <2>3. MovesGiving(i)
        BY <2>2 DEF MovesGiving
    <2> QED BY <1>1, <2>1, <2>3 DEF MovesOnly, Moves, Set
<1> QED BY <1>2, <1>3

LEMMA CallerMoves ==
    ASSUME TypeOK, NEW i \in Instances, Caller(i)
    PROVE  MovesOnly(i)
<1>1. DOMAIN stack = Instances /\ "start" \in Outermost /\ "call" \in Outermost
    BY Stacks DEF Outermost
<1>2. stack' = stack \/ \E fn \in Outermost : Idle(i) /\ Push(i, Frame(fn))
    BY <1>1 DEF Caller, Start, Call, CallMissing, CloseInstance, Makes, running
<1>3. CASE stack' = stack
    BY <1>3, Stacks DEF MovesOnly, Moves
<1>4. ASSUME NEW fn \in Outermost, Idle(i), Push(i, Frame(fn)) PROVE MovesOnly(i)
    <2>1. stack'[i] = <<Frame(fn)>>
        BY <1>1, <1>4 DEF Push, Set, Idle
    <2> QED BY <1>1, <1>4, <2>1 DEF MovesOnly, Moves, Push, Set
<1> QED BY <1>2, <1>3, <1>4

LEMMA ReturnMoves ==
    ASSUME TypeOK, NEW i \in Instances, ~Idle(i), Return(i)
    PROVE  MovesOnly(i)
BY Stacks DEF Return, Set, MovesOnly, Moves

LEMMA GuestMoves ==
    ASSUME TypeOK, NEW i \in Instances, GuestStep(i)
    PROVE  MovesOnly(i)
<1>1. CASE Returns(i)
    BY <1>1, ReturnMoves DEF Returns, Runs
<1>2. CASE Writes(i) \/ Traps(i) \/ Exits(i) \/ FindsClosed(i)
    <2>1. stack' = stack
        BY <1>2 DEF Writes, Traps, Exits, FindsClosed, running
    <2> QED BY <2>1, Stacks DEF MovesOnly, Moves
<1>3. CASE CallsHost(i)
    <2>1. PICK fn \in Imports, k \in Keys :
              /\ Push(i, Asking(fn, k, IF fn = "put" THEN Copied(i) ELSE Slice(Host, {})))
              /\ ever' = IF fn = "put" THEN Set(ever, k, ever[k] \cup {mem[i]}) ELSE ever
        BY <1>3 DEF CallsHost
    <2>2. fn = "put" => mem[i] \in ever'[k]
        BY <2>1 DEF Set, TypeOK
    <2>3. DOMAIN stack = Instances
        BY Stacks
    <2>4. stack'[i] = Append(stack[i],
              Asking(fn, k, IF fn = "put" THEN Copied(i) ELSE Slice(Host, {})))
        BY <2>1, <2>3 DEF Push, Set
    <2>5. MovesAsking(i)
        BY <2>2, <2>4 DEF MovesAsking
    <2>6. stack' = Set(stack, i, stack'[i])
        BY <2>1, <2>3, <2>4 DEF Push
    <2>7. Runs(i) /\ Depth(i) < MaxDepth
        BY <1>3 DEF CallsHost
    <2> QED BY <2>5, <2>6, <2>7 DEF MovesOnly, Moves
<1> QED BY <1>1, <1>2, <1>3 DEF GuestStep

LEMMA HostMoves ==
    ASSUME TypeOK, NEW i \in Instances, HostStep(i)
    PROVE  MovesOnly(i)
<1>1. CASE BadAddress(i)
    <2>1. stack' = stack
        BY <1>1 DEF BadAddress
    <2> QED BY <2>1, Stacks DEF MovesOnly, Moves
<1>2. CASE Get(i)
    <2>1. Serves(i, "get") /\ ~Idle(i) /\ Top(i).fn = "get"
        BY <1>2 DEF Get, Serves
    <2>2. Top(i) \in Frames /\ Top(i).fn \in HostCode /\ Len(stack[i]) \in Nat \ {0}
        BY <2>1, Stacks DEF HostCode
    <2>3. Top(i).key \in Keys
        BY <2>2, HostFrame
    <2>4. CASE store[Top(i).key] = Absent
        <3>1. stack' = Set(stack, i, Under(i, 1))
            BY <1>2, <2>4 DEF Get, Answer
        <3> QED BY <2>1, <2>2, <3>1, AnswersCut
    <2>5. CASE store[Top(i).key] # Absent
        <3>1. Give(i, store[Top(i).key])
            BY <1>2, <2>5 DEF Get
        <3>2. store[Top(i).key] \in Slices
            BY <2>3, <2>5, StoreHolds
        <3> QED BY <2>1, <2>3, <3>1, <3>2, GivingMoves
    <2> QED BY <2>4, <2>5
<1>3. CASE List(i)
    <2>1. Serves(i, "list") /\ Top(i).fn = "list" /\ Give(i, Slice(Host, Listed))
        BY <1>3 DEF List, Serves
    <2> QED BY <2>1, ListIsSlice, GivingMoves
<1>4. CASE Put(i) \/ StoreFails(i) \/ Propagate(i) \/ Unwritable(i)
    <2>1. ~Idle(i)
        BY <1>4 DEF Put, StoreFails, Propagate, Unwritable, Serves
    <2>2. stack' = Set(stack, i, Under(i, 1))
        BY <1>4 DEF Put, StoreFails, Propagate, Unwritable, Answer
    <2>3. 1 <= Len(stack[i])
        BY <2>1, Stacks
    <2> QED BY <2>1, <2>2, <2>3, AnswersCut
<1>5. CASE AllocReturns(i)
    <2>1. ~Idle(i) /\ Top(i).fn = "alloc" /\ stack' = Set(stack, i, Under(i, 2))
        BY <1>5 DEF AllocReturns, Serves
    <2>2. Len(stack[i]) \in Nat \ {0} /\ stack[i] \in Seq(Frames) /\ Shaped(stack[i])
        BY <2>1, Stacks DEF Stacked
    <2>3. Len(stack[i]) # 1
        BY <2>1, <2>2, CodeIsApart DEF Shaped, Top
    <2>4. Len(stack[i]) \in Nat \ {0}
        BY <2>2
    <2>5. 2 <= Len(stack[i])
        BY <2>3, <2>4, Beyond
    <2> QED BY <2>1, <2>5, AnswersCut
<1>6. CASE Fails(i)
    BY <1>6, ReturnMoves DEF Fails
<1> QED BY <1>1, <1>2, <1>3, <1>4, <1>5, <1>6 DEF HostStep

LEMMA StepMoves ==
    ASSUME TypeOK, [Next]_vars
    PROVE  UNCHANGED stack \/ \E i \in Instances : MovesOnly(i)
<1>1. CASE UNCHANGED vars \/ Bind \/ CloseEngine
    BY <1>1 DEF vars, Bind, CloseEngine, running
<1>2. ASSUME NEW i \in Instances, Context(i) PROVE UNCHANGED stack
    BY <1>2 DEF Context, Ends, Stops, running
<1> QED BY <1>1, <1>2, CallerMoves, GuestMoves, HostMoves DEF Next

-----------------------------------------------------------------------------
(* Every variable keeps its type.                                            *)

\* TypeOK but for the stacks.
Scalars ==
    /\ life \in [Instances -> {"none", "open", "closed"}]
    /\ why \in [Instances -> {"none", "ctx", "zero", "one"}]
    /\ err \in [Instances -> {"none", "trap", "ctx", "zero", "one"}]
    /\ over \in [Instances -> BOOLEAN] /\ late \in [Instances -> BOOLEAN]
    /\ broke \in [Instances -> BOOLEAN] /\ left \in [Instances -> BOOLEAN]
    /\ made \in [Instances -> 0 .. MaxCalls]
    /\ reply \in [Instances -> Replies]
    /\ mem \in [Instances -> Values]
    /\ answer \in [Instances -> Int]
    /\ bound \in BOOLEAN /\ shut \in BOOLEAN
    /\ ever \in [Keys -> SUBSET Values] /\ known \subseteq Keys
    /\ store \in [Keys -> Slices \cup {Absent}]

LEMMA TypeInit == Init => TypeOK
<1> SUFFICES ASSUME Init PROVE TypeOK
    OBVIOUS
<1>1. Scalars
    <2>1. 0 \in 0 .. MaxCalls /\ {} \in Values /\ "none" \in Replies
        BY BoundsAssumption DEF Values, Replies
    <2>2. /\ life \in [Instances -> {"none", "open", "closed"}]
          /\ why \in [Instances -> {"none", "ctx", "zero", "one"}]
          /\ err \in [Instances -> {"none", "trap", "ctx", "zero", "one"}]
        BY DEF Init
    <2>3. /\ over \in [Instances -> BOOLEAN] /\ late \in [Instances -> BOOLEAN]
          /\ broke \in [Instances -> BOOLEAN] /\ left \in [Instances -> BOOLEAN]
        BY DEF Init
    <2>4. made \in [Instances -> 0 .. MaxCalls] /\ answer \in [Instances -> Int]
        BY <2>1 DEF Init
    <2>5. reply \in [Instances -> Replies] /\ mem \in [Instances -> Values]
        BY <2>1 DEF Init
    <2>6. bound \in BOOLEAN /\ shut \in BOOLEAN /\ known \subseteq Keys
        BY DEF Init
    <2>7. ever \in [Keys -> SUBSET Values] /\ store \in [Keys -> Slices \cup {Absent}]
        BY DEF Init
    <2> QED BY <2>2, <2>3, <2>4, <2>5, <2>6, <2>7 DEF Scalars
<1>2. stack \in [Instances -> Seq(Frames)]
    BY DEF Init
<1>3. \A i \in Instances : Shaped(stack[i]) /\ Depth(i) <= MaxDepth
    BY Ends0 DEF Init, Stacked, Depth, HostAt
<1> QED BY <1>1, <1>2, <1>3 DEF TypeOK, Scalars

LEMMA OutcomeIs ==
    ASSUME NEW i \in Instances
    PROVE  Outcome(i) \in {"ok", "trap", "stopped", "closed"}
BY DEF Outcome

LEMMA TypesReturn ==
    ASSUME TypeOK, NEW i \in Instances, Return(i)
    PROVE  Scalars'
<1>1. Outcome(i) \in Replies
    BY OutcomeIs DEF Replies
<1> QED BY <1>1 DEF TypeOK, Return, Set, Scalars, guest, outside, engine

LEMMA TypesCaller ==
    ASSUME TypeOK, NEW i \in Instances, Caller(i)
    PROVE  Scalars'
<1>1. made[i] < MaxCalls => made[i] + 1 \in 0 .. MaxCalls
    BY BoundsAssumption DEF TypeOK
<1>2. CASE Start(i) \/ Call(i) \/ CallMissing(i)
    <2>1. made' \in [Instances -> 0 .. MaxCalls] /\ broke' \in [Instances -> BOOLEAN]
        <3>1. Makes(i)
            BY <1>2 DEF Start, Call, CallMissing
        <3>2. made \in [Instances -> 0 .. MaxCalls] /\ broke \in [Instances -> BOOLEAN]
            BY DEF TypeOK
        <3>3. made[i] + 1 \in 0 .. MaxCalls
            BY <1>1, <3>1 DEF Makes
        <3> QED BY <3>1, <3>2, <3>3 DEF Makes, Set
    <2>2. /\ life' = life \/ life' = Set(life, i, "open")
          /\ \/ reply' = reply
             \/ reply' = Set(reply, i, "refused")
             \/ reply' = Set(reply, i, "nofunc")
        BY <1>2 DEF Start, Call, CallMissing
    <2>3. UNCHANGED <<why, err, over, late, left, guest, outside, engine>>
        BY <1>2 DEF Start, Call, CallMissing
    <2>4. /\ life' \in [Instances -> {"none", "open", "closed"}]
          /\ reply' \in [Instances -> Replies]
        BY <2>2 DEF Set, TypeOK, Replies
    <2> QED BY <2>1, <2>3, <2>4 DEF TypeOK, Scalars, guest, outside, engine
<1>3. CASE CloseInstance(i)
    BY <1>3 DEF CloseInstance, Set, TypeOK, Scalars, running, guest, outside, engine, did
<1> QED BY <1>2, <1>3 DEF Caller

LEMMA TypesContext ==
    ASSUME TypeOK, NEW i \in Instances, Context(i)
    PROVE  Scalars'
BY DEF Context, Ends, Stops, Closes, Set, TypeOK, Scalars, instance, running, guest,
    outside, engine, did

LEMMA TypesGuest ==
    ASSUME TypeOK, NEW i \in Instances, GuestStep(i)
    PROVE  Scalars'
<1>1. CASE Returns(i)
    BY <1>1, TypesReturn DEF Returns
<1>2. CASE Writes(i)
    BY <1>2 DEF Writes, Set, TypeOK, Scalars, Values, instance, running, outside, engine,
        did
<1>3. CASE Traps(i) \/ Exits(i) \/ FindsClosed(i)
    <2>1. \E e \in {"trap", "zero", "one", why[i]} : err' = Set(err, i, e)
        BY <1>3 DEF Traps, Exits, FindsClosed, Throws
    <2>2. /\ life' = life \/ life' = Set(life, i, "closed")
          /\ why' = why \/ \E code \in {"zero", "one"} : why' = Set(why, i, code)
          /\ left' = left \/ left' = Set(left, i, TRUE)
        BY <1>3 DEF Traps, Exits, Closes, FindsClosed, instance, did
    <2>3. UNCHANGED <<made, reply, over, late, broke, guest, outside, engine>>
        BY <1>3 DEF Traps, Exits, FindsClosed, instance, did
    <2>4. err' \in [Instances -> {"none", "trap", "ctx", "zero", "one"}]
        <3>1. why[i] \in {"none", "ctx", "zero", "one"}
            BY DEF TypeOK
        <3>2. err \in [Instances -> {"none", "trap", "ctx", "zero", "one"}]
            BY DEF TypeOK
        <3> QED BY <2>1, <3>1, <3>2 DEF Set
    <2>5. life' \in [Instances -> {"none", "open", "closed"}]
        BY <2>2 DEF Set, TypeOK
    <2>6. why' \in [Instances -> {"none", "ctx", "zero", "one"}]
        <3>1. why \in [Instances -> {"none", "ctx", "zero", "one"}]
            BY DEF TypeOK
        <3> QED BY <2>2, <3>1 DEF Set
    <2>7. left' \in [Instances -> BOOLEAN]
        BY <2>2 DEF Set, TypeOK
    <2> QED BY <2>3, <2>4, <2>5, <2>6, <2>7 DEF TypeOK, Scalars, guest, outside, engine
<1>4. CASE CallsHost(i)
    <2>1. ever' \in [Keys -> SUBSET Values]
        BY <1>4 DEF CallsHost, Set, TypeOK
    <2> QED BY <1>4, <2>1 DEF CallsHost, TypeOK, Scalars, instance, guest, engine, did
<1> QED BY <1>1, <1>2, <1>3, <1>4 DEF GuestStep

\* A value is finite, so that its length is a number.
LEMMA ValuesAreFinite ==
    ASSUME NEW v \in Values
    PROVE  Cardinality(v) \in Nat
BY SizesAssumption, FS_Union, FS_Subset, FS_CardinalityType DEF Values

\* The frame under an alloc is that of the host function that called it.
LEMMA AllocIsAsked ==
    ASSUME TypeOK, NEW i \in Instances, ~Idle(i), Top(i).fn = "alloc"
    PROVE  /\ Len(stack[i]) - 1 \in DOMAIN stack[i] /\ Len(stack[i]) - 1 < Len(stack[i])
           /\ Asked(i) \in Frames /\ Asked(i).fn \in HostCode
           /\ Len(stack[i]) \in Nat \ {0} /\ Len(stack[i]) # 1
<1>1. Len(stack[i]) \in Nat \ {0}
    BY Stacks
<1>2. stack[i] \in Seq(Frames) /\ Shaped(stack[i])
    BY Stacks DEF Stacked
<1>3. DOMAIN stack[i] = 1 .. Len(stack[i])
    BY <1>2
<1>4. Len(stack[i]) # 1
    BY <1>1, <1>2, <1>3, CodeIsApart DEF Shaped, Top
<1>5. /\ Len(stack[i]) - 1 \in 1 .. Len(stack[i]) /\ Len(stack[i]) - 1 < Len(stack[i])
      /\ Len(stack[i]) \in 1 .. Len(stack[i]) /\ Len(stack[i]) > 1
    BY <1>1, <1>4, Beyond
<1>6. Asked(i).fn \in HostCode
    <2>1. Len(stack[i]) \in DOMAIN stack[i] /\ Len(stack[i]) > 1
        BY <1>3, <1>5
    <2> QED BY <1>2, <2>1 DEF Shaped, Top, Asked
<1> QED BY <1>1, <1>2, <1>3, <1>4, <1>5, <1>6 DEF Asked

LEMMA ContentIsValue ==
    ASSUME TypeOK, NEW s \in Slices
    PROVE  Content(s) \in Values
BY DEF TypeOK, Content, Slices

LEMMA TypesHost ==
    ASSUME TypeOK, NEW i \in Instances, HostStep(i)
    PROVE  Scalars'
<1>1. CASE BadAddress(i) \/ Unwritable(i)
    BY <1>1 DEF BadAddress, Unwritable, Breaks, Throws, Set, TypeOK, Scalars, instance,
        guest, outside, engine, did
<1>2. CASE Get(i) \/ List(i)
    <2>1. answer' = answer \/ answer' = Set(answer, i, -1)
        BY <1>2 DEF Get, List, Give, Answer
    <2>2. answer' \in [Instances -> Int]
        BY <2>1 DEF Set, TypeOK
    <2>3. (err' = err /\ UNCHANGED did) \/ Breaks(i)
        BY <1>2 DEF Get, List, Give
    <2> QED BY <1>2, <2>2, <2>3 DEF Get, List, Breaks, Throws, Set, TypeOK, Scalars,
        instance, outside, engine, did
<1>3. CASE Put(i) \/ StoreFails(i)
    <2>1. PICK n \in {0, -1, -2} : answer' = Set(answer, i, n)
        BY <1>3 DEF Put, StoreFails, Answer, Failure
    <2>2. ~Idle(i) /\ Top(i).fn \in HostCode
        BY <1>3 DEF Put, StoreFails, Serves, HostCode
    <2>3. Top(i).key \in Keys /\ Top(i).has \in Slices
        BY <2>2, Stacks, HostFrame
    <2>4. answer' \in [Instances -> Int]
        BY <2>1 DEF Set, TypeOK
    <2>5. store' = store \/ Stored(i)
        BY <1>3 DEF Put, StoreFails
    <2>6. store' \in [Keys -> Slices \cup {Absent}]
        BY <2>3, <2>5 DEF Stored, Set, TypeOK
    <2>7. known' \subseteq Keys
        BY <1>3, <2>3 DEF Put, StoreFails, TypeOK
    <2> QED BY <1>3, <2>4, <2>6, <2>7 DEF Put, StoreFails, TypeOK, Scalars, instance,
        engine, did
<1>4. CASE AllocReturns(i)
    <2>1. Asked(i).has \in Slices
        BY <1>4, AllocIsAsked, HostFrame DEF AllocReturns, Serves
    <2>2. Content(Asked(i).has) \in Values
        BY <2>1, ContentIsValue
    <2>3. Cardinality(Content(Asked(i).has)) \in Int
        BY <2>2, ValuesAreFinite
    <2>4. /\ mem' = Set(mem, i, Content(Asked(i).has))
          /\ answer' = Set(answer, i, Cardinality(Content(Asked(i).has)))
        BY <1>4 DEF AllocReturns, Asked
    <2>5. mem' \in [Instances -> Values] /\ answer' \in [Instances -> Int]
        BY <2>2, <2>3, <2>4 DEF Set, TypeOK
    <2> QED BY <1>4, <2>5 DEF AllocReturns, TypeOK, Scalars, instance, outside, engine,
        did
<1>5. CASE Propagate(i)
    BY <1>5 DEF Propagate, Unwind, Set, TypeOK, Scalars, instance, guest, outside, engine,
        did
<1>6. CASE Fails(i)
    BY <1>6, TypesReturn DEF Fails
<1> QED BY <1>1, <1>2, <1>3, <1>4, <1>5, <1>6 DEF HostStep

LEMMA AskingIsFrame ==
    ASSUME TypeOK, NEW fn \in HostCode, NEW k \in Keys, NEW v \in Slices
    PROVE  /\ Asking(fn, k, v) \in Frames /\ Asking(fn, k, v).fn = fn
           /\ Asking(fn, k, v).key = k /\ Asking(fn, k, v).has = v
           /\ Asking(fn, k, v).knew = known
BY DEF Asking, Frames, TypeOK

LEMMA MovesKeepStacks ==
    ASSUME TypeOK, NEW i \in Instances, Moves(i)
    PROVE  Stacked(stack'[i])
<1>1. Stacked(stack[i])
    BY Stacks
<1>2. CASE stack'[i] = stack[i]
    BY <1>1, <1>2
<1>3. CASE Idle(i) /\ \E fn \in Outermost : stack'[i] = <<Frame(fn)>>
    BY <1>3, Begins
<1>4. CASE Runs(i) /\ Depth(i) < MaxDepth /\ MovesAsking(i)
    <2>1. PICK fn \in Imports, k \in Keys :
              stack'[i] = Append(stack[i],
                  Asking(fn, k, IF fn = "put" THEN Copied(i) ELSE Slice(Host, {})))
        BY <1>4 DEF MovesAsking
    <2> DEFINE f == Asking(fn, k, IF fn = "put" THEN Copied(i) ELSE Slice(Host, {}))
    <2>2. f \in Frames /\ f.fn \in HostCode
        BY CodeIsApart, CopyIsSlice, ListIsSlice, AskingIsFrame
    <2>3. stack[i] # <<>> /\ stack[i][Len(stack[i])].fn \in GuestCode
        BY <1>4 DEF Runs, Idle, Top
    <2>4. Cardinality(HostAt(stack[i])) < MaxDepth
        BY <1>4 DEF Depth, HostAt
    <2> HIDE DEF f
    <2>5. Stacked(Append(stack[i], f))
        BY <1>1, <2>2, <2>3, <2>4, Asks
    <2> QED BY <2>1, <2>5 DEF f
<1>5. CASE (Serves(i, "get") \/ Serves(i, "list")) /\ MovesGiving(i)
    <2>1. stack[i] # <<>> /\ stack[i][Len(stack[i])].fn \in HostCode
        BY <1>5 DEF Serves, Idle, Top, HostCode
    <2> QED BY <1>1, <1>5, <2>1, Gives DEF MovesGiving
<1>6. CASE ~Idle(i) /\ \E n \in 1 .. Len(stack[i]) : stack'[i] = Under(i, n)
    <2>1. PICK n \in 1 .. Len(stack[i]) : stack'[i] = Under(i, n)
        BY <1>6
    <2>2. Len(stack[i]) \in Nat \ {0}
        BY <1>6, Stacks
    <2>3. n \in 0 .. Len(stack[i])
        BY <2>2
    <2> QED BY <1>1, <2>1, <2>3, Cuts DEF Under
<1>7. CASE stack'[i] = <<>>
    BY <1>7, Ends0
<1> QED BY <1>2, <1>3, <1>4, <1>5, <1>6, <1>7 DEF Moves

LEMMA TypeStep == TypeOK /\ [Next]_vars => TypeOK'
<1> SUFFICES ASSUME TypeOK, [Next]_vars PROVE TypeOK'
    OBVIOUS
<1>1. Scalars'
    <2>1. CASE UNCHANGED vars
        BY <2>1 DEF vars, instance, running, guest, outside, engine, TypeOK, Scalars, did
    <2>2. CASE Bind
        BY <2>2 DEF Bind, instance, running, guest, outside, TypeOK, Scalars, did
    <2>3. CASE CloseEngine
        <3>1. /\ life' \in [Instances -> {"none", "open", "closed"}]
              /\ why' \in [Instances -> {"none", "ctx", "zero", "one"}]
            BY <2>3 DEF CloseEngine, TypeOK
        <3>2. shut' \in BOOLEAN
            BY <2>3 DEF CloseEngine
        <3>3. UNCHANGED <<made, reply, running, guest, outside, bound>>
            BY <2>3 DEF CloseEngine
        <3> QED BY <3>1, <3>2, <3>3 DEF running, guest, outside, TypeOK, Scalars, did
    <2> QED BY <2>1, <2>2, <2>3, TypesCaller, TypesContext, TypesGuest, TypesHost DEF Next
<1>2. stack' \in [Instances -> Seq(Frames)] /\ \A j \in Instances : Stacked(stack'[j])
    <2>1. stack \in [Instances -> Seq(Frames)] /\ \A j \in Instances : Stacked(stack[j])
        BY Stacks DEF TypeOK
    <2>2. CASE UNCHANGED stack
        BY <2>1, <2>2
    <2>3. ASSUME NEW i \in Instances, MovesOnly(i)
          PROVE  /\ stack' \in [Instances -> Seq(Frames)]
                 /\ \A j \in Instances : Stacked(stack'[j])
        <3>1. Stacked(stack'[i]) /\ stack' = Set(stack, i, stack'[i])
            BY <2>3, MovesKeepStacks DEF MovesOnly
        <3>2. stack'[i] \in Seq(Frames)
            BY <3>1 DEF Stacked
        <3>3. \A j \in Instances \ {i} : stack'[j] = stack[j]
            BY <2>1, <3>1 DEF Set
        <3>4. stack' \in [Instances -> Seq(Frames)]
            BY <2>1, <3>1, <3>2 DEF Set
        <3> QED BY <2>1, <3>1, <3>3, <3>4
    <2> QED BY <2>2, <2>3, StepMoves
<1>3. \A i \in Instances : Depth(i)' = Cardinality(HostAt(stack'[i]))
    BY DEF Depth, HostAt
<1> QED BY <1>1, <1>2, <1>3 DEF TypeOK, Scalars, Stacked

\* Every variable keeps its type and every stack its shape: one Start or Call,
\* and alloc only where a host function waits for it (host.go:152-166).
THEOREM SandboxTypes == Spec => []TypeOK
BY TypeInit, TypeStep, PTL DEF Spec

-----------------------------------------------------------------------------
(* What a stopped call is told.                                              *)

LEMMA StackNeverEmpties ==
    ASSUME TypeOK, NEW i \in Instances, HostStep(i), life[i] = "closed", ~Fails(i)
    PROVE  stack'[i] # <<>>
<1>1. stack[i] \in Seq(Frames) /\ Shaped(stack[i]) /\ DOMAIN stack = Instances
    BY Stacks DEF Stacked
<1>2. ~Idle(i) /\ Len(stack[i]) \in Nat \ {0}
    BY Stacks DEF HostStep, BadAddress, Get, List, Put, StoreFails, AllocReturns, Unwritable,
        Propagate, Fails, Serves
<1>3. Top(i).fn \in HostCode \cup {"alloc"} => Len(stack[i]) # 1
    BY <1>1, <1>2, CodeIsApart DEF Shaped, Top
<1>4. CASE stack' = stack
    BY <1>2, <1>4 DEF Idle
<1>5. CASE stack' = Set(stack, i, Under(i, 1)) /\ Len(stack[i]) # 1
    <2>1. stack'[i] = SubSeq(stack[i], 1, Len(stack[i]) - 1)
        BY <1>1, <1>5 DEF Set, Under
    <2>2. Len(stack[i]) - 1 \in 1 .. Len(stack[i])
        BY <1>2, <1>5, Beyond
    <2>3. Len(stack'[i]) = Len(stack[i]) - 1
        BY <1>1, <1>2, <2>1, <2>2
    <2>4. Len(stack'[i]) # 0
        BY <1>2, <1>5, <2>3, Beyond
    <2> QED BY <2>4
<1>6. CASE BadAddress(i)
    BY <1>4, <1>6 DEF BadAddress
<1>7. CASE Get(i) \/ List(i)
    <2>1. Top(i).fn \in HostCode
        BY <1>7 DEF Get, List, Serves, HostCode
    <2>2. Len(stack[i]) # 1
        BY <1>3, <2>1
    <2>3. ASSUME NEW v, Give(i, v) PROVE stack'[i] # <<>>
        <3>1. CASE i \in Allocates
            <4> DEFINE t == Append(Under(i, 1), [Top(i) EXCEPT !.has = v])
            <4>1. stack' = Set(stack, i, t \o <<Frame("alloc")>>)
                BY <2>3, <3>1 DEF Give
            <4>2. t \o <<Frame("alloc")>> # <<>>
                OBVIOUS
            <4> HIDE DEF t
            <4> QED BY <1>1, <4>1, <4>2 DEF Set
        <3>2. CASE i \notin Allocates
            BY <1>4, <2>3, <3>2 DEF Give
        <3> QED BY <3>1, <3>2
    <2>4. CASE Get(i) /\ store[Top(i).key] = Absent
        BY <1>5, <2>2, <2>4 DEF Get, Answer
    <2> QED BY <1>7, <2>3, <2>4 DEF Get, List
<1>8. CASE Put(i) \/ StoreFails(i) \/ Unwritable(i)
    <2>1. Top(i).fn \in HostCode \cup {"alloc"}
        BY <1>8 DEF Put, StoreFails, Unwritable, Serves, HostCode
    <2>2. stack' = Set(stack, i, Under(i, 1))
        BY <1>8 DEF Put, StoreFails, Unwritable, Answer
    <2> QED BY <1>3, <1>5, <2>1, <2>2
<1>9. CASE Propagate(i)
    <2>1. ~(1 > 1)
        OBVIOUS
    <2>2. Len(stack[i]) # 1 /\ stack' = Set(stack, i, Under(i, 1))
        BY <1>9, <2>1 DEF Propagate
    <2> QED BY <1>5, <2>2
<1>10. ~AllocReturns(i)
    BY DEF AllocReturns
<1> QED BY <1>6, <1>7, <1>8, <1>9, <1>10 DEF HostStep

\* A call runs on an instance, and an exit unwinds only a closed one: with the
\* code that closed it, when that is its context's, unless the guest left.
Ending(i) ==
    /\ ~Idle(i) => life[i] # "none"
    /\ err[i] \in {"ctx", "zero", "one"} =>
          life[i] = "closed" /\ (why[i] = "ctx" => err[i] = "ctx" \/ left[i])

ExitInv == TypeOK /\ \A i \in Instances : Ending(i)

\* What a step of one instance leaves alone of the end of the others' calls.
Others(i) ==
    \A j \in Instances \ {i} :
        err'[j] = err[j] /\ life'[j] = life[j] /\ why'[j] = why[j] /\ left'[j] = left[j]

LEMMA ExitReturn ==
    ASSUME ExitInv, NEW i \in Instances, Return(i)
    PROVE  Others(i) /\ Ending(i)'
BY DEF ExitInv, TypeOK, Return, Set, Others, Ending, Idle

LEMMA ExitCaller ==
    ASSUME ExitInv, NEW i \in Instances, Caller(i)
    PROVE  Others(i) /\ Ending(i)'
<1>1. /\ life \in [Instances -> {"none", "open", "closed"}]
      /\ why \in [Instances -> {"none", "ctx", "zero", "one"}]
      /\ stack = Set(stack, i, stack[i]) /\ Ending(i)
    BY Stacks DEF ExitInv, TypeOK
<1>2. CASE Start(i)
    BY <1>1, <1>2 DEF Start, Makes, Set, Others, Ending, Idle
<1>3. CASE Call(i) \/ CallMissing(i)
    BY <1>1, <1>3 DEF Call, CallMissing, Others, Ending
<1>4. CASE CloseInstance(i)
    BY <1>1, <1>4 DEF CloseInstance, Set, Others, Ending, Idle, running, did
<1> QED BY <1>2, <1>3, <1>4 DEF Caller

LEMMA ExitContext ==
    ASSUME ExitInv, NEW i \in Instances, Context(i)
    PROVE  Others(i) /\ Ending(i)'
<1>1. CASE Ends(i)
    BY <1>1 DEF Ends, ExitInv, Others, Ending, Idle, instance, did
<1>2. CASE Stops(i)
    BY <1>2 DEF Stops, Closes, Set, ExitInv, TypeOK, Others, Ending, Idle, did
<1> QED BY <1>1, <1>2 DEF Context

LEMMA ExitGuest ==
    ASSUME ExitInv, NEW i \in Instances, GuestStep(i)
    PROVE  Others(i) /\ Ending(i)'
<1>1. CASE Returns(i)
    BY <1>1, ExitReturn DEF Returns
<1>2. CASE Writes(i) \/ CallsHost(i)
    BY <1>2 DEF Writes, CallsHost, Runs, ExitInv, Others, Ending, instance, running, did
<1>3. CASE Traps(i) \/ FindsClosed(i)
    BY <1>3 DEF Traps, FindsClosed, Runs, Throws, Set, ExitInv, TypeOK, Others, Ending,
        instance, did
<1>4. CASE Exits(i)
    <2>1. PICK code \in {"zero", "one"} : Throws(i, code) /\ Closes(i, code)
        BY <1>4 DEF Exits
    <2>2. left'[i] /\ \A j \in Instances \ {i} : left'[j] = left[j]
        BY <1>4 DEF Exits, Set, ExitInv, TypeOK
    <2>3. Others(i)
        BY <2>1, <2>2 DEF Throws, Closes, Set, ExitInv, TypeOK, Others
    <2>4. life'[i] = "closed"
        <3>1. life[i] # "none"
            BY <1>4 DEF Exits, Runs, ExitInv, Ending
        <3> QED BY <2>1, <3>1 DEF Closes, Set, ExitInv, TypeOK
    <2> QED BY <2>2, <2>3, <2>4 DEF Ending
<1> QED BY <1>1, <1>2, <1>3, <1>4 DEF GuestStep

LEMMA ExitHost ==
    ASSUME ExitInv, NEW i \in Instances, HostStep(i)
    PROVE  Others(i) /\ Ending(i)'
<1>1. CASE Fails(i)
    BY <1>1, ExitReturn DEF Fails
<1>2. CASE Propagate(i)
    <2>1. err \in [Instances -> {"none", "trap", "ctx", "zero", "one"}] /\ Ending(i)
        BY DEF ExitInv, TypeOK
    <2> QED BY <1>2, <2>1 DEF Propagate, Unwind, Set, Others, Ending, instance, did
<1>3. CASE BadAddress(i) \/ Unwritable(i)
    BY <1>3 DEF BadAddress, Unwritable, Serves, Breaks, Throws, Set, ExitInv, TypeOK,
        Others, Ending, instance
<1>4. CASE Get(i) \/ List(i)
    <2>1. ~Idle(i) /\ err[i] = "none" /\ UNCHANGED <<life, why>>
        BY <1>4 DEF Get, List, Serves, instance
    <2>2. (err' = err /\ UNCHANGED left) \/ Breaks(i)
        BY <1>4 DEF Get, List, Give, did
    <2> QED BY <2>1, <2>2 DEF Breaks, Throws, Set, ExitInv, TypeOK, Others, Ending
<1>5. CASE Put(i) \/ StoreFails(i) \/ AllocReturns(i)
    BY <1>5 DEF Put, StoreFails, AllocReturns, Serves, ExitInv, Others, Ending, instance, did
<1> QED BY <1>1, <1>2, <1>3, <1>4, <1>5 DEF HostStep

LEMMA ExitInit == Init => ExitInv
BY TypeInit DEF Init, ExitInv, Ending, Idle

LEMMA ExitStep == ExitInv /\ [Next]_vars => ExitInv'
<1> SUFFICES ASSUME ExitInv, [Next]_vars PROVE \A i \in Instances : Ending(i)'
    BY TypeStep DEF ExitInv
<1>1. CASE UNCHANGED vars \/ Bind
    BY <1>1 DEF vars, Bind, instance, running, did, ExitInv, Ending, Idle
<1>2. CASE CloseEngine
    BY <1>2 DEF CloseEngine, running, did, ExitInv, TypeOK, Ending, Idle
<1>3. ASSUME NEW i \in Instances, Caller(i) \/ Context(i) \/ GuestStep(i) \/ HostStep(i)
      PROVE  \A j \in Instances : Ending(j)'
    <2>1. Others(i) /\ Ending(i)'
        BY <1>3, ExitCaller, ExitContext, ExitGuest, ExitHost
    <2>2. \A j \in Instances \ {i} : stack'[j] = stack[j]
        <3>1. UNCHANGED stack \/ MovesOnly(i)
            BY <1>3, CallerMoves, GuestMoves, HostMoves DEF ExitInv, Context, Ends, Stops
        <3> QED BY <3>1, Stacks DEF ExitInv, MovesOnly, Set
    <2> QED BY <2>1, <2>2 DEF Others, ExitInv, Ending, Idle
<1> QED BY <1>1, <1>2, <1>3 DEF Next

\* What StoppedIsTold says of one instance.
ToldStopped(i) ==
    life[i] = "closed" =>
        /\ life'[i] # "open"
        /\ Finishes(i, "call") => reply'[i] \in {"trap", "stopped", "closed"}
        /\ \A fn \in Outermost :
              Finishes(i, fn) /\ why[i] = "ctx" =>
                  reply'[i] \in {"trap", "stopped"} \/ left[i]

LEMMA FailsTold ==
    ASSUME ExitInv, NEW i \in Instances, Fails(i)
    PROVE  /\ stack[i][1].fn = "call" => reply'[i] \in {"trap", "stopped", "closed"}
           /\ why[i] = "ctx" => reply'[i] \in {"trap", "stopped"} \/ left[i]
<1>1. err[i] \in {"trap", "ctx", "zero", "one"}
    BY DEF ExitInv, TypeOK, Fails
<1>2. reply'[i] = Outcome(i)
    BY DEF Fails, Return, Set, ExitInv, TypeOK
<1>3. CASE err[i] = "trap"
    BY <1>2, <1>3 DEF Outcome
<1>4. CASE err[i] = "ctx"
    BY <1>2, <1>4 DEF Outcome
<1>5. CASE err[i] \in {"zero", "one"}
    <2>1. stack[i][1].fn = "call" => Outcome(i) = "closed"
        BY <1>5 DEF Outcome
    <2>2. why[i] = "ctx" => left[i]
        BY <1>5 DEF ExitInv, Ending
    <2> QED BY <1>2, <2>1, <2>2
<1> QED BY <1>1, <1>3, <1>4, <1>5

LEMMA StoppedByOwn ==
    ASSUME TypeOK, NEW i \in Instances,
           Caller(i) \/ Context(i) \/ GuestStep(i) \/ HostStep(i)
    PROVE  /\ life[i] = "closed" => life'[i] # "open"
           /\ \A j \in Instances \ {i} : life'[j] = life[j]
<1>1. life \in [Instances -> {"none", "open", "closed"}]
    BY DEF TypeOK
<1>2. CASE Caller(i)
    BY <1>1, <1>2 DEF Caller, Start, Call, CallMissing, CloseInstance, Set
<1>3. CASE Context(i)
    BY <1>1, <1>3 DEF Context, Ends, Stops, Closes, Set, instance
<1>4. ASSUME Return(i)
      PROVE  /\ life[i] = "closed" => life'[i] # "open"
             /\ \A j \in Instances \ {i} : life'[j] = life[j]
    BY <1>1, <1>4 DEF Return, Set
<1>5. CASE GuestStep(i)
    BY <1>1, <1>4, <1>5 DEF GuestStep, Returns, Writes, Traps, Exits, Closes, FindsClosed,
        CallsHost, Set, instance
<1>6. CASE HostStep(i)
    BY <1>1, <1>4, <1>6 DEF HostStep, BadAddress, Get, List, Put, StoreFails, AllocReturns,
        Unwritable, Propagate, Fails, instance
<1> QED BY <1>2, <1>3, <1>5, <1>6

LEMMA StoppedStep ==
    ASSUME ExitInv, [Next]_vars, ~UNCHANGED vars
    PROVE  \A i \in Instances : ToldStopped(i)
<1> USE DEF ExitInv
<1>1. CASE Bind \/ CloseEngine
    <2>1. life' = life \/ life' = [i \in Instances |->
              IF life[i] = "open" THEN "closed" ELSE life[i]]
        BY <1>1 DEF Bind, CloseEngine, instance
    <2>2. stack' = stack
        BY <1>1 DEF Bind, CloseEngine, running
    <2> QED BY <2>1, <2>2 DEF ToldStopped, Finishes, Idle, TypeOK
<1>2. ASSUME NEW i \in Instances,
             Caller(i) \/ Context(i) \/ GuestStep(i) \/ HostStep(i)
      PROVE  \A j \in Instances : ToldStopped(j)
    <2>1. ASSUME NEW j \in Instances \ {i} PROVE ToldStopped(j)
        <3>1. life'[j] = life[j]
            BY <1>2, StoppedByOwn
        <3>2. stack'[j] = stack[j]
            <4>1. UNCHANGED stack \/ MovesOnly(i)
                BY <1>2, CallerMoves, GuestMoves, HostMoves DEF Context, Ends, Stops,
                    running
            <4> QED BY <4>1, Stacks DEF MovesOnly, Set
        <3> QED BY <3>1, <3>2 DEF ToldStopped, Finishes, Idle
    <2>2. ToldStopped(i)
        <3> SUFFICES ASSUME life[i] = "closed", NEW fn \in Outermost, Finishes(i, fn)
                     PROVE  Fails(i)
            BY <1>2, StoppedByOwn, FailsTold DEF ToldStopped, Finishes, Outermost
        <3> USE DEF Finishes
        <3>1. ~Caller(i)
            BY Stacks DEF Caller, Start, Call, CallMissing, CloseInstance, Makes
        <3>2. ~Context(i)
            BY DEF Context, Ends, Stops, running, Idle
        <3>3. ~GuestStep(i)
            <4>1. ~Returns(i)
                BY DEF Returns
            <4>2. ~(Writes(i) \/ Traps(i) \/ Exits(i) \/ FindsClosed(i))
                BY DEF Writes, Traps, Exits, FindsClosed, running, Idle
            <4>3. ~CallsHost(i)
                <5> SUFFICES ASSUME NEW f, Push(i, f) PROVE FALSE
                    BY DEF CallsHost
                <5>1. stack'[i] = Append(stack[i], f)
                    BY Stacks DEF Push, Set
                <5> QED BY <5>1
            <4> QED BY <4>1, <4>2, <4>3 DEF GuestStep
        <3> QED BY <1>2, <3>1, <3>2, <3>3, StackNeverEmpties
    <2> QED BY <2>1, <2>2
<1> QED BY <1>1, <1>2 DEF Next

\* A closed instance stays closed and no Call on one succeeds; a Start or a Call on
\* one that its context closed answers that it was stopped, from under any number
\* of host functions, unless its guest trapped or left by proc_exit before it came
\* to its next loop (wasm.go:165-172, 199-203, 211-215).
THEOREM StoppedCallsAreTold == Spec => StoppedIsTold
<1>1. ASSUME ExitInv, [Next]_vars
      PROVE  [\A i \in Instances : life[i] = "closed" =>
                /\ life'[i] # "open"
                /\ Finishes(i, "call") => reply'[i] \in {"trap", "stopped", "closed"}
                /\ \A fn \in Outermost :
                      Finishes(i, fn) /\ why[i] = "ctx" =>
                          reply'[i] \in {"trap", "stopped"} \/ left[i]]_vars
    BY <1>1, StoppedStep DEF ToldStopped
<1> QED BY <1>1, ExitInit, ExitStep, PTL DEF Spec, StoppedIsTold

-----------------------------------------------------------------------------
(* What the Store holds and what host functions hand over.                   *)

\* Holds of a frame of any stack, for the values put and the keys known so far.
Held(s, n, puts, knows) ==
    LET f == s[n]
    IN  /\ f.fn \in HostCode => f.knew \subseteq knows
        /\ f.fn = "put" \/ (f.fn = "get" /\ n < Len(s)) =>
              f.has.owner = Host /\ f.has.value \in puts[f.key]
        /\ f.fn = "list" /\ n < Len(s) =>
              f.has.owner = Host /\ f.knew \subseteq f.has.value

Grows(puts, more) == \A k \in Keys : puts[k] \subseteq more[k]

\* A frame stays as good as it was: it is under something that was on the stack
\* before, or on top, and more was put and more is known.
LEMMA HeldStays ==
    ASSUME NEW s \in Seq(Frames), NEW t, NEW n \in DOMAIN s,
           t[n] = s[n], n < Len(t) => n < Len(s),
           NEW puts, NEW more, Grows(puts, more),
           NEW knows, NEW knowing, knows \subseteq knowing,
           Held(s, n, puts, knows)
    PROVE  Held(t, n, more, knowing)
<1>1. s[n] \in Frames
    OBVIOUS
<1>2. s[n].fn \in HostCode => s[n].key \in Keys
    BY <1>1, HostFrame
<1>3. "put" \in HostCode /\ "get" \in HostCode
    BY DEF HostCode
<1>4. s[n].fn \in {"put", "get"} => puts[s[n].key] \subseteq more[s[n].key]
    BY <1>2, <1>3 DEF Grows
<1> QED BY <1>4 DEF Held

LEMMA GuestIsHeld ==
    ASSUME NEW t, NEW n, t[n].fn \in GuestCode, NEW puts, NEW knows
    PROVE  Held(t, n, puts, knows)
BY DEF Held, GuestCode, Outermost, HostCode

\* The values put and the keys known only grow.
LEMMA HistoryGrows ==
    ASSUME TypeOK, [Next]_vars
    PROVE  Grows(ever, ever') /\ known \subseteq known'
<1>1. CASE UNCHANGED vars \/ Bind \/ CloseEngine
    BY <1>1 DEF vars, Bind, CloseEngine, outside, Grows
<1>2. ASSUME NEW i \in Instances, Caller(i) \/ Context(i)
      PROVE  UNCHANGED outside
    BY <1>2 DEF Caller, Start, Call, CallMissing, CloseInstance, Context, Ends, Stops
<1>3. ASSUME NEW i \in Instances, GuestStep(i)
      PROVE  Grows(ever, ever') /\ known' = known
    <2>1. CASE CallsHost(i)
        BY <1>3, <2>1 DEF CallsHost, Set, Grows, TypeOK
    <2>2. CASE ~CallsHost(i)
        BY <1>3, <2>2 DEF GuestStep, Returns, Return, Writes, Traps, Exits, FindsClosed,
            outside, Grows
    <2> QED BY <2>1, <2>2
<1>4. ASSUME NEW i \in Instances, HostStep(i)
      PROVE  ever' = ever /\ known \subseteq known'
    BY <1>4 DEF HostStep, BadAddress, Get, List, Put, StoreFails, AllocReturns, Unwritable,
        Propagate, Fails, Return, outside
<1> QED BY <1>1, <1>2, <1>3, <1>4 DEF Next, outside, Grows

\* What a put hands to the Store is a copy of what its guest asked to put.
LEMMA PutHands ==
    ASSUME StoreInv, NEW i \in Instances, Serves(i, "put")
    PROVE  /\ Top(i).key \in Keys /\ Top(i).has \in Slices /\ Top(i).has # Absent
           /\ Top(i).has.owner = Host /\ Top(i).has.value \in ever[Top(i).key]
<1>1. ~Idle(i) /\ Top(i).fn = "put" /\ "put" \in HostCode
    BY DEF Serves, HostCode
<1>2. Top(i) \in Frames /\ Len(stack[i]) \in Nat \ {0} /\ stack[i] \in Seq(Frames)
    BY <1>1, Stacks DEF StoreInv, Stacked
<1>3. Top(i).key \in Keys /\ Top(i).has \in Slices
    BY <1>1, <1>2, HostFrame
<1>4. Len(stack[i]) \in DOMAIN stack[i]
    BY <1>2
<1>5. Holds(i, Len(stack[i]))
    BY <1>4 DEF StoreInv
<1> QED BY <1>1, <1>3, <1>5, AbsentAssumption DEF Holds, Top

\* Only a put that was asked for changes what the Store holds.
LEMMA StoreChanges ==
    ASSUME TypeOK, [Next]_vars
    PROVE  \/ store' = store /\ known' = known
           \/ \E i \in Instances :
                 /\ Serves(i, "put")
                 /\ \/ Stored(i) /\ known' \in {known, known \cup {Top(i).key}}
                    \/ store' = store /\ known' = known
<1>1. CASE UNCHANGED vars \/ Bind \/ CloseEngine
    BY <1>1 DEF vars, Bind, CloseEngine, outside
<1>2. ASSUME NEW i \in Instances, Caller(i) \/ Context(i) \/ GuestStep(i)
      PROVE  store' = store /\ known' = known
    BY <1>2 DEF Caller, Start, Call, CallMissing, CloseInstance, Context, Ends, Stops,
        GuestStep, Returns, Return, Writes, Traps, Exits, FindsClosed, CallsHost, outside
<1>3. ASSUME NEW i \in Instances, HostStep(i), ~Put(i), ~StoreFails(i)
      PROVE  store' = store /\ known' = known
    BY <1>3 DEF HostStep, BadAddress, Get, List, AllocReturns, Unwritable, Propagate, Fails,
        Return, outside
<1>4. ASSUME NEW i \in Instances, Put(i)
      PROVE  Serves(i, "put") /\ Stored(i) /\ known' = known \cup {Top(i).key}
    BY <1>4 DEF Put
<1>5. ASSUME NEW i \in Instances, StoreFails(i)
      PROVE  /\ known' = known
             /\ store' = store \/ (Serves(i, "put") /\ Stored(i))
    BY <1>5 DEF StoreFails
<1> QED BY <1>1, <1>2, <1>3, <1>4, <1>5 DEF Next, HostStep

LEMMA StoreKeeps ==
    ASSUME StoreInv, [Next]_vars
    PROVE  /\ \A k \in Keys : store'[k] # Absent =>
                  store'[k].owner = Host /\ store'[k].value \in ever'[k]
           /\ \A k \in known' : store'[k] # Absent
<1>1. TypeOK /\ Grows(ever, ever') /\ known \subseteq Keys
    BY HistoryGrows DEF StoreInv, TypeOK
<1>2. CASE store' = store /\ known' = known
    BY <1>1, <1>2 DEF StoreInv, Grows
<1>3. ASSUME NEW i \in Instances, Serves(i, "put"), Stored(i),
             known' \in {known, known \cup {Top(i).key}}
      PROVE  /\ \A k \in Keys : store'[k] # Absent =>
                    store'[k].owner = Host /\ store'[k].value \in ever'[k]
             /\ \A k \in known' : store'[k] # Absent
    <2>1. /\ Top(i).key \in Keys /\ Top(i).has # Absent
          /\ Top(i).has.owner = Host /\ Top(i).has.value \in ever[Top(i).key]
        BY <1>3, PutHands
    <2>2. \A k \in Keys : store'[k] = IF k = Top(i).key THEN Top(i).has ELSE store[k]
        BY <1>1, <1>3 DEF Stored, Set, TypeOK
    <2>3. \A k \in known' : k \in Keys /\ (k \in known \/ k = Top(i).key)
        BY <1>1, <1>3, <2>1
    <2> QED BY <1>1, <2>1, <2>2, <2>3 DEF StoreInv, Grows
<1> QED BY <1>1, <1>2, <1>3, StoreChanges

AllHeld(s, puts, knows) == \A n \in DOMAIN s : Held(s, n, puts, knows)

LEMMA FramesAre ==
    ASSUME StoreInv, NEW i \in Instances
    PROVE  /\ AllHeld(stack[i], ever, known) /\ stack[i] \in Seq(Frames)
           /\ DOMAIN stack[i] = 1 .. Len(stack[i]) /\ Len(stack[i]) \in Nat
BY DEF StoreInv, TypeOK, Holds, AllHeld, Held

\* Asked with a copy of what the guest would put, and what is known by then.
LEMMA AskedIsHeld ==
    ASSUME StoreInv, [Next]_vars, NEW i \in Instances, Runs(i), MovesAsking(i)
    PROVE  AllHeld(stack'[i], ever', known')
<1> DEFINE s == stack[i]
<1>1. PICK fn \in Imports, k \in Keys :
          /\ stack'[i] = Append(stack[i],
                Asking(fn, k, IF fn = "put" THEN Copied(i) ELSE Slice(Host, {})))
          /\ fn = "put" => mem[i] \in ever'[k]
    BY DEF MovesAsking
<1> DEFINE f == Asking(fn, k, IF fn = "put" THEN Copied(i) ELSE Slice(Host, {}))
           t == Append(s, f)
<1>2. TypeOK /\ Grows(ever, ever') /\ known \subseteq known'
    BY HistoryGrows DEF StoreInv
<1>3. /\ s \in Seq(Frames) /\ AllHeld(s, ever, known)
      /\ Len(s) \in Nat /\ DOMAIN s = 1 .. Len(s)
    BY FramesAre
<1>4. /\ f.fn = fn /\ f.key = k /\ f.knew = known
      /\ fn = "put" => f.has.owner = Host /\ f.has.value = mem[i]
    BY DEF Asking, Copied, Slice
<1>5. s[Len(s)].fn \in GuestCode
    BY DEF Runs, Top
<1> HIDE DEF f, s
<1>6. Len(t) = Len(s) + 1 /\ t[Len(s) + 1] = f /\ DOMAIN t = 1 .. Len(s) + 1
      /\ \A n \in 1 .. Len(s) : t[n] = s[n]
    BY <1>3
<1> HIDE DEF t
<1>7. ASSUME NEW n \in 1 .. Len(s) + 1 PROVE Held(t, n, ever', known')
    <2>1. CASE n = Len(s) + 1
        <3>1. t[n] = f /\ ~(n < Len(t))
            BY <1>3, <1>6, <2>1
        <3>2. f.fn = "put" => f.has.owner = Host /\ f.has.value \in ever'[f.key]
            BY <1>1, <1>4
        <3> QED BY <1>2, <1>4, <3>1, <3>2 DEF Held
    <2>2. CASE n = Len(s)
        <3>1. t[n] = s[n]
            BY <1>3, <1>6, <1>7, <2>2
        <3> QED BY <1>5, <2>2, <3>1, GuestIsHeld
    <2>3. CASE n \in 1 .. Len(s) /\ n # Len(s)
        <3>1. t[n] = s[n] /\ n < Len(s) /\ n \in DOMAIN s
            BY <1>3, <1>6, <2>3
        <3>2. Held(s, n, ever, known)
            BY <1>3, <3>1 DEF AllHeld
        <3> QED BY <1>2, <1>3, <3>1, <3>2, HeldStays
    <2>4. Len(s) \in Nat
        BY <1>3
    <2>5. n = Len(s) + 1 \/ n = Len(s) \/ (n \in 1 .. Len(s) /\ n # Len(s))
        BY <2>4
    <2> QED BY <2>1, <2>2, <2>3, <2>5
<1>8. AllHeld(t, ever', known')
    BY <1>6, <1>7 DEF AllHeld
<1> QED BY <1>1, <1>8 DEF t, f, s

\* What a host function has for its guest is what the Store holds, or the keys of
\* which it holds anything.
LEMMA GivenIsHeld ==
    ASSUME StoreInv, [Next]_vars, NEW i \in Instances,
           Serves(i, "get") \/ Serves(i, "list"), MovesGiving(i)
    PROVE  AllHeld(stack'[i], ever', known')
<1> DEFINE s == stack[i]
           t == stack'[i]
<1>1. PICK v \in Slices :
          /\ stack'[i] = Gave(stack[i], v)
          /\ Top(i).fn = "get" => Top(i).key \in Keys /\ v = store[Top(i).key]
          /\ Top(i).fn = "list" => v = Slice(Host, Listed)
    BY DEF MovesGiving
<1>2. TypeOK /\ Grows(ever, ever') /\ known \subseteq known'
    BY HistoryGrows DEF StoreInv
<1>3. /\ s \in Seq(Frames) /\ AllHeld(s, ever, known)
      /\ Len(s) \in Nat /\ DOMAIN s = 1 .. Len(s)
    BY FramesAre
<1>4. s # <<>> /\ Top(i) = s[Len(s)] /\ s[Len(s)].fn \in {"get", "list"}
    BY DEF Serves, Idle, Top
<1>5. s[Len(s)].fn \in HostCode
    BY <1>4 DEF HostCode
<1>6. t = Gave(s, v)
    BY <1>1
<1> HIDE DEF s, t
<1>7. /\ Len(s) \in Nat \ {0} /\ Len(t) = Len(s) + 1 /\ DOMAIN t = 1 .. Len(s) + 1
      /\ \A n \in 1 .. Len(s) - 1 : t[n] = s[n]
      /\ t[Len(s)].fn = s[Len(s)].fn /\ t[Len(s)].key = s[Len(s)].key
      /\ t[Len(s)].knew = s[Len(s)].knew /\ t[Len(s)].has = v
      /\ t[Len(s) + 1] = Frame("alloc")
    BY <1>3, <1>4, <1>5, <1>6, GaveIs
<1>8. s[Len(s)].knew \subseteq known
    <2>1. Len(s) \in DOMAIN s
        BY <1>3, <1>7
    <2> QED BY <1>3, <1>5, <2>1 DEF AllHeld, Held
<1>9. Held(t, Len(s), ever', known')
    <2>1. CASE s[Len(s)].fn = "get"
        <3>1. s[Len(s)].key \in Keys /\ v = store[s[Len(s)].key]
            BY <1>1, <1>4, <2>1
        <3>2. v # Absent
            BY AbsentAssumption
        <3>3. v.owner = Host /\ v.value \in ever[s[Len(s)].key]
            BY <3>1, <3>2 DEF StoreInv
        <3>4. v.value \in ever'[s[Len(s)].key]
            BY <1>2, <3>1, <3>3 DEF Grows
        <3> QED BY <1>2, <1>7, <1>8, <2>1, <3>3, <3>4 DEF Held
    <2>2. CASE s[Len(s)].fn = "list"
        <3>1. v.owner = Host /\ v.value = Listed
            BY <1>1, <1>4, <2>2 DEF Slice
        <3>2. known \subseteq Listed
            BY <1>2 DEF StoreInv, TypeOK, Listed
        <3> QED BY <1>2, <1>7, <1>8, <2>2, <3>1, <3>2 DEF Held
    <2> QED BY <1>4, <2>1, <2>2
<1>10. Held(t, Len(s) + 1, ever', known')
    <2>1. t[Len(s) + 1].fn \in GuestCode
        BY <1>7, GuestFrame, CodeIsApart
    <2> QED BY <2>1, GuestIsHeld
<1>11. ASSUME NEW n \in 1 .. Len(s) - 1 PROVE Held(t, n, ever', known')
    <2>1. t[n] = s[n]
        BY <1>7
    <2>2. n \in DOMAIN s /\ n < Len(s)
        BY <1>3
    <2>3. Held(s, n, ever, known)
        BY <1>3, <2>2 DEF AllHeld
    <2> QED BY <1>2, <1>3, <2>1, <2>2, <2>3, HeldStays
<1>12. \A n \in DOMAIN t : n \in 1 .. Len(s) - 1 \/ n = Len(s) \/ n = Len(s) + 1
    BY <1>3, <1>7
<1>13. AllHeld(t, ever', known')
    BY <1>9, <1>10, <1>11, <1>12 DEF AllHeld
<1> QED BY <1>13 DEF t

LEMMA MovesHold ==
    ASSUME StoreInv, [Next]_vars, NEW i \in Instances, Moves(i)
    PROVE  AllHeld(stack'[i], ever', known')
<1> DEFINE s == stack[i]
<1>1. TypeOK /\ Grows(ever, ever') /\ known \subseteq known'
    BY HistoryGrows DEF StoreInv
<1>2. /\ s \in Seq(Frames) /\ AllHeld(s, ever, known)
      /\ Len(s) \in Nat /\ DOMAIN s = 1 .. Len(s)
    BY FramesAre
<1> HIDE DEF s
<1>3. CASE stack'[i] = s
    <2>1. ASSUME NEW n \in DOMAIN s PROVE Held(s, n, ever', known')
        BY <1>1, <1>2, <2>1, HeldStays DEF AllHeld
    <2> QED BY <1>3, <2>1 DEF AllHeld
<1>4. CASE \E fn \in Outermost : stack'[i] = <<Frame(fn)>>
    <2>1. PICK fn \in Outermost : stack'[i] = <<Frame(fn)>>
        BY <1>4
    <2> DEFINE t == <<Frame(fn)>>
    <2>2. DOMAIN t = {1} /\ t[1].fn \in GuestCode
        BY GuestFrame, CodeIsApart
    <2> HIDE DEF t
    <2>3. AllHeld(t, ever', known')
        BY <2>2, GuestIsHeld DEF AllHeld
    <2> QED BY <2>1, <2>3 DEF t
<1>5. CASE ~Idle(i) /\ \E n \in 1 .. Len(stack[i]) : stack'[i] = Under(i, n)
    <2>1. PICK m \in 1 .. Len(s) : stack'[i] = SubSeq(s, 1, Len(s) - m)
        BY <1>5 DEF Under, s
    <2> DEFINE t == SubSeq(s, 1, Len(s) - m)
    <2>2. /\ DOMAIN t = 1 .. Len(s) - m /\ Len(t) = Len(s) - m
          /\ \A n \in 1 .. Len(s) - m : t[n] = s[n]
        <3>1. s \in Seq(Frames) /\ m \in 0 .. Len(s)
            BY <1>2
        <3> HIDE DEF t
        <3>2. t = SubSeq(s, 1, Len(s) - m)
            BY DEF t
        <3> QED BY <3>1, <3>2, CutIs
    <2> HIDE DEF t
    <2>3. ASSUME NEW n \in DOMAIN t PROVE Held(t, n, ever', known')
        <3>1. t[n] = s[n]
            BY <2>2
        <3>2. n \in DOMAIN s /\ (n < Len(t) => n < Len(s))
            BY <1>2, <2>2
        <3>3. Held(s, n, ever, known)
            BY <1>2, <3>2 DEF AllHeld
        <3> QED BY <1>1, <1>2, <3>1, <3>2, <3>3, HeldStays
    <2>4. AllHeld(t, ever', known')
        BY <2>3 DEF AllHeld
    <2> QED BY <2>1, <2>4 DEF t
<1>6. CASE stack'[i] = <<>>
    BY <1>6 DEF AllHeld
<1> QED BY <1>3, <1>4, <1>5, <1>6, AskedIsHeld, GivenIsHeld DEF Moves, s

LEMMA StoreInit == Init => StoreInv
BY TypeInit DEF Init, StoreInv

LEMMA StoreStep == StoreInv /\ [Next]_vars => StoreInv'
<1> SUFFICES ASSUME StoreInv, [Next]_vars PROVE StoreInv'
    OBVIOUS
<1>1. TypeOK /\ TypeOK'
    BY TypeStep DEF StoreInv
<1>2. \A i \in Instances : AllHeld(stack'[i], ever', known')
    <2>1. \A i \in Instances : stack'[i] = stack[i] => Moves(i)
        BY DEF Moves
    <2>2. CASE UNCHANGED stack
        BY <2>1, <2>2, MovesHold
    <2>3. ASSUME NEW i \in Instances, MovesOnly(i)
          PROVE  \A j \in Instances : Moves(j)
        <3>1. \A j \in Instances \ {i} : stack'[j] = stack[j]
            BY <1>1, <2>3, Stacks DEF MovesOnly, Set
        <3> QED BY <2>1, <2>3, <3>1 DEF MovesOnly
    <2> QED BY <1>1, <2>2, <2>3, StepMoves, MovesHold
<1>3. \A i \in Instances : \A n \in DOMAIN stack'[i] : Holds(i, n)'
    BY <1>2 DEF AllHeld, Held, Holds
<1> QED BY <1>1, <1>3, StoreKeeps DEF StoreInv

\* No slice in the Store, and none that is handed to a guest, is a guest's memory:
\* it holds a value put under its key (host.go:85-93).
THEOREM StoreKeepsCopies == Spec => []StoreInv
BY StoreInit, StoreStep, PTL DEF Spec

-----------------------------------------------------------------------------
(* What a get and a list hand over, and when a get answers absence.          *)

\* A step that changes the stack of an instance is a step of that instance.
LEMMA ItsOwnStep ==
    ASSUME TypeOK, [Next]_vars, NEW i \in Instances, stack'[i] # stack[i]
    PROVE  Caller(i) \/ GuestStep(i) \/ HostStep(i)
<1>1. ~(UNCHANGED vars \/ Bind \/ CloseEngine)
    BY DEF vars, Bind, CloseEngine, running
<1>2. PICK j \in Instances : Caller(j) \/ Context(j) \/ GuestStep(j) \/ HostStep(j)
    BY <1>1 DEF Next
<1>3. ~Context(j)
    BY DEF Context, Ends, Stops, running
<1>4. MovesOnly(j)
    BY <1>2, <1>3, CallerMoves, GuestMoves, HostMoves
<1>5. i = j
    BY <1>4, Stacks DEF MovesOnly, Set
<1> QED BY <1>2, <1>3, <1>5

\* How far the steps on a stack that is not empty change its length.
LEMMA Lengths ==
    ASSUME TypeOK, NEW i \in Instances, ~Idle(i), DOMAIN stack' = Instances
    PROVE  /\ Len(stack[i]) \in Nat \ {0}
           /\ \A n \in 1 .. 2 : n <= Len(stack[i]) /\ stack' = Set(stack, i, Under(i, n)) =>
                 Len(stack'[i]) = Len(stack[i]) - n
           /\ \A f : stack' = Set(stack, i, Append(stack[i], f)) =>
                 Len(stack'[i]) = Len(stack[i]) + 1
<1>1. stack[i] \in Seq(Frames) /\ Len(stack[i]) \in Nat \ {0} /\ DOMAIN stack = Instances
    BY Stacks DEF Stacked
<1>2. ASSUME NEW n \in 1 .. 2, n <= Len(stack[i]), stack' = Set(stack, i, Under(i, n))
      PROVE  Len(stack'[i]) = Len(stack[i]) - n
    <2>1. n \in 0 .. Len(stack[i])
        BY <1>1, <1>2
    <2>2. stack'[i] = SubSeq(stack[i], 1, Len(stack[i]) - n)
        BY <1>1, <1>2 DEF Set, Under
    <2> QED BY <1>1, <2>1, <2>2, CutIs
<1>3. ASSUME NEW f, stack' = Set(stack, i, Append(stack[i], f))
      PROVE  Len(stack'[i]) = Len(stack[i]) + 1
    BY <1>1, <1>3 DEF Set
<1> QED BY <1>1, <1>2, <1>3

LEMMA Apart ==
    ASSUME NEW n \in Nat
    PROVE  n # n - 1 /\ n # n - 2 /\ n + 1 # n - 2 /\ n - 1 # n - 2 /\ n + 1 # n - 1
OBVIOUS

\* Nothing is handed over but by an alloc that returns.
LEMMA HandedByAlloc ==
    ASSUME TypeOK, [Next]_vars, NEW i \in Instances, NEW fn \in HostCode, HandedOver(i, fn)
    PROVE  AllocReturns(i) /\ Asked(i).fn = fn
<1>1. /\ ~Idle(i) /\ Top(i).fn = "alloc" /\ Len(stack'[i]) = Len(stack[i]) - 2
      /\ Asked(i).fn = fn
    BY DEF HandedOver, Asked
<1>2. Len(stack[i]) \in Nat \ {0} /\ Len(stack[i]) # 1
    BY <1>1, AllocIsAsked
<1>3. stack'[i] # stack[i]
    BY <1>1, <1>2, Apart
<1>4. Caller(i) \/ GuestStep(i) \/ HostStep(i)
    BY <1>3, ItsOwnStep
<1>5. DOMAIN stack' = Instances
    BY TypeStep DEF TypeOK
<1>6. ~Caller(i)
    BY <1>1 DEF Caller, Start, Call, CallMissing, CloseInstance, Makes
<1>7. ~GuestStep(i)
    <2>1. ~Returns(i)
        BY <1>2 DEF Returns
    <2>2. ~(Writes(i) \/ Traps(i) \/ Exits(i) \/ FindsClosed(i))
        BY <1>3 DEF Writes, Traps, Exits, FindsClosed, running
    <2>3. ~CallsHost(i)
        <3> SUFFICES ASSUME NEW f, Push(i, f) PROVE FALSE
            BY DEF CallsHost
        <3>1. Len(stack'[i]) = Len(stack[i]) + 1
            BY <1>1, <1>5, Lengths DEF Push
        <3> QED BY <1>1, <1>2, <3>1, Apart
    <2> QED BY <2>1, <2>2, <2>3 DEF GuestStep
<1>8. ~(BadAddress(i) \/ Get(i) \/ List(i) \/ Put(i) \/ StoreFails(i))
    BY <1>1, CodeIsApart DEF BadAddress, Get, List, Put, StoreFails, Serves, HostCode
<1>9. ~(Unwritable(i) \/ Propagate(i))
    <2> SUFFICES ASSUME stack' = Set(stack, i, Under(i, 1)) PROVE FALSE
        BY DEF Unwritable, Propagate
    <2>1. 1 \in 1 .. 2 /\ 1 <= Len(stack[i])
        BY <1>2
    <2>2. Len(stack'[i]) = Len(stack[i]) - 1
        BY <1>1, <1>5, <2>1, Lengths
    <2> QED BY <1>1, <1>2, <2>2, Apart
<1>10. ~Fails(i)
    BY <1>2 DEF Fails
<1> QED BY <1>1, <1>4, <1>6, <1>7, <1>8, <1>9, <1>10 DEF HostStep

LEMMA HandsOver ==
    ASSUME StoreInv, NEW i \in Instances, AllocReturns(i)
    PROVE  /\ Asked(i).fn = "get" => /\ mem'[i] \in ever[Asked(i).key]
                                     /\ answer'[i] = Cardinality(mem'[i])
           /\ Asked(i).fn = "list" => Asked(i).knew \subseteq mem'[i]
<1>1. TypeOK /\ ~Idle(i) /\ Top(i).fn = "alloc"
    BY DEF StoreInv, AllocReturns, Serves
<1>2. Len(stack[i]) - 1 \in DOMAIN stack[i] /\ Len(stack[i]) - 1 < Len(stack[i])
    BY <1>1, AllocIsAsked
<1>3. Holds(i, Len(stack[i]) - 1)
    BY <1>2 DEF StoreInv
<1>4. mem'[i] = Content(Asked(i).has) /\ answer'[i] = Cardinality(mem'[i])
    BY <1>1 DEF AllocReturns, Asked, Set, TypeOK
<1>5. Asked(i).fn \in {"get", "list"} => mem'[i] = Asked(i).has.value
    BY <1>2, <1>3, <1>4 DEF Holds, Asked, Content
<1> QED BY <1>2, <1>3, <1>4, <1>5 DEF Holds, Asked

LEMMA GetAnswersAbsence ==
    ASSUME StoreInv, [Next]_vars, NEW i \in Instances, Serves(i, "get"),
           Len(stack'[i]) = Len(stack[i]) - 1, answer'[i] = -1
    PROVE  Top(i).key \notin Top(i).knew
<1>1. TypeOK /\ ~Idle(i) /\ err[i] = "none" /\ Top(i).fn = "get" /\ "get" \in HostCode
    BY DEF StoreInv, Serves, HostCode
<1>2. /\ Len(stack[i]) \in Nat \ {0} /\ DOMAIN stack[i] = 1 .. Len(stack[i])
      /\ Top(i) \in Frames
    BY <1>1, Stacks DEF Stacked
<1>3. stack'[i] # stack[i]
    BY <1>2, Apart
<1>4. Caller(i) \/ GuestStep(i) \/ HostStep(i)
    BY <1>1, <1>3, ItsOwnStep
<1>5. ~Caller(i)
    BY <1>1 DEF Caller, Start, Call, CallMissing, CloseInstance, Makes
<1>6. ~GuestStep(i)
    BY <1>1, CodeIsApart DEF GuestStep, Returns, Writes, Traps, Exits, FindsClosed, CallsHost,
        Runs
<1>7. Get(i) \/ StoreFails(i)
    BY <1>1, <1>3, <1>4, <1>5, <1>6 DEF HostStep, BadAddress, List, Put, AllocReturns,
        Unwritable, Propagate, Fails, Serves
<1>8. ~StoreFails(i)
    <2> SUFFICES ASSUME StoreFails(i) PROVE FALSE
        OBVIOUS
    <2>1. answer' = Set(answer, i, Failure("get"))
        BY <1>1 DEF StoreFails, Serves, Answer
    <2>2. answer'[i] = -2
        BY <1>1, <2>1 DEF Failure, Set, TypeOK
    <2> QED BY <2>2
<1>9. Top(i).key \in Keys /\ Top(i).knew \subseteq known
    <2>1. Holds(i, Len(stack[i]))
        BY <1>2 DEF StoreInv
    <2> QED BY <1>1, <1>2, <2>1, HostFrame DEF Holds, Top
<1>10. CASE store[Top(i).key] = Absent
    BY <1>9, <1>10 DEF StoreInv
<1>11. CASE store[Top(i).key] # Absent
    <2>1. Give(i, store[Top(i).key])
        BY <1>7, <1>8, <1>11 DEF Get
    <2>2. store[Top(i).key] \in Slices
        BY <1>1, <1>9, <1>11, StoreHolds
    <2>3. stack' = Set(stack, i, Gave(stack[i], store[Top(i).key]))
        BY <1>3, <2>1 DEF Give, Gave, Under, Top
    <2>4. stack'[i] = Gave(stack[i], store[Top(i).key])
        BY <1>1, <2>3, Stacks DEF Set
    <2>5. stack[i] \in Seq(Frames) /\ stack[i] # <<>> /\ stack[i][Len(stack[i])].fn \in HostCode
        BY <1>1, Stacks DEF Stacked, Idle, Top
    <2>6. Len(stack'[i]) = Len(stack[i]) + 1
        BY <2>2, <2>4, <2>5, GaveIs
    <2> QED BY <1>2, <2>6, Apart
<1> QED BY <1>10, <1>11

\* A get hands over a value put under its key, whole and with its length, whatever
\* guests did to their memories since and while alloc ran (host.go:86-90, 152-166).
THEOREM GetsAreOfPuts == Spec => GetsWhatWasPut
<1>1. ASSUME StoreInv, [Next]_vars
      PROVE  \A i \in Instances : HandedOver(i, "get") =>
                 /\ mem'[i] \in ever[Asked(i).key]
                 /\ answer'[i] = Cardinality(mem'[i])
    <2>1. TypeOK /\ "get" \in HostCode
        BY <1>1 DEF StoreInv, HostCode
    <2> QED BY <1>1, <2>1, HandedByAlloc, HandsOver
<1> QED BY <1>1, StoreInit, StoreStep, PTL DEF Spec, GetsWhatWasPut

\* Once a put has answered 0, a get begun later does not answer absence and a list
\* begun later names the key (host.go:60-67, 83-95, 105-111).
THEOREM PutsAreFound == Spec => WhatWasPutIsFound
<1>1. ASSUME StoreInv, [Next]_vars
      PROVE  \A i \in Instances :
                 /\ HandedOver(i, "list") => Asked(i).knew \subseteq mem'[i]
                 /\ /\ Serves(i, "get") /\ Len(stack'[i]) = Len(stack[i]) - 1
                    /\ answer'[i] = -1
                    => Top(i).key \notin Top(i).knew
    <2>1. TypeOK /\ "list" \in HostCode
        BY <1>1 DEF StoreInv, HostCode
    <2> QED BY <1>1, <2>1, HandedByAlloc, HandsOver, GetAnswersAbsence
<1> QED BY <1>1, StoreInit, StoreStep, PTL DEF Spec, WhatWasPutIsFound
=============================================================================
