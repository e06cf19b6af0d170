---------------------------- MODULE ReloadProofs ----------------------------
(* What holds of the registry and of checks that share engines, for any      *)
(* number of values, names, engines and calls.                               *)
EXTENDS Reload, TLAPS

-----------------------------------------------------------------------------
(* Types.                                                                    *)

LEMMA TypeInit == Init => TypeOK
  BY DEF Init, RegistryInit, TSGoInit, TypeOK, Outcomes

LEMMA TypeRegistry ==
    ASSUME TypeOK, NEW v \in Values, HostRegisters(v) PROVE TypeOK'
  <1> USE NamesAssumption, RolesAssumption
  <1>1. /\ checkers' \in [Tokens -> (Checks \ Nils) \cup {Nobody}]
        /\ bundlers' \in [Tokens -> (Bundles \ Nils) \cup {Nobody}]
    <2>1. CASE v \in Nils
      BY <2>1 DEF HostRegisters, Register, Refuses, registry, TypeOK
    <2>2. CASE v \notin Nils
      BY <2>2 DEF HostRegisters, Register, registry, Filed, TypeOK
    <2> QED BY <2>1, <2>2
  <1> QED BY <1>1 DEF HostRegisters, TypeOK, tsgo, calls, guests

LEMMA TypeHost ==
    ASSUME TypeOK,
           \/ \E n \in Tokens : HostDrops(n)
           \/ \E e \in Engines : HostCloses(e)
           \/ \E c \in Calls, n \in Tokens : LookUp(c, n)
    PROVE  TypeOK'
  <1>1. ASSUME NEW n \in Tokens, HostDrops(n) PROVE TypeOK'
    BY <1>1 DEF HostDrops, Unregister, TypeOK, tsgo, calls, guests
  <1>2. ASSUME NEW e \in Engines, HostCloses(e) PROVE TypeOK'
    BY <1>2 DEF HostCloses, Close, TypeOK, registry, calls, guests
  <1>3. ASSUME NEW c \in Calls, NEW n \in Tokens, LookUp(c, n) PROVE TypeOK'
    BY <1>3, EnginesAssumption
       DEF LookUp, CheckerNamed, TypeOK, registry, tsgo, calls, guests
  <1> QED BY <1>1, <1>2, <1>3

LEMMA OutcomeFacts ==
    ASSUME NEW c PROVE Outcome(c) \in Outcomes \ {"none", "refused"}
  BY DEF Outcome, Outcomes

LEMMA TypeAsk ==
    ASSUME TypeOK, NEW c \in Calls, Ask(c) PROVE TypeOK'
  <1>1. handle[c] \in Engines
    BY DEF Ask, TypeOK
  <1>2. CASE Refuse(c, handle[c])
    BY <1>1, <1>2 DEF Ask, Refuse, TypeOK, Outcomes, registry, guests
  <1>3. CASE Begin(c, handle[c])
    BY <1>1, <1>3 DEF Ask, Begin, Counted, TypeOK, registry, guests
  <1> QED BY <1>2, <1>3 DEF Ask

LEMMA TypeRuns ==
    ASSUME TypeOK, NEW c \in Calls, Runs(c) PROVE TypeOK'
  <1>0. UNCHANGED <<checkers, bundlers, handle>>
    BY DEF Runs, registry
  <1>1. CASE Cancel(c)
    BY <1>0, <1>1 DEF Cancel, TypeOK, guests
  <1>2. CASE Instantiate(c)
    BY <1>0, <1>2 DEF Instantiate, Refusal, TypeOK
  <1>3. CASE Return(c)
    BY <1>0, <1>3, OutcomeFacts DEF Return, TypeOK, guests
  <1>4. CASE Writes(c) \/ Asks(c) \/ Answered(c)
    <2>1. CASE Writes(c)
      BY <1>0, <2>1 DEF Writes, TypeOK
    <2>2. CASE Asks(c)
      BY <1>0, <2>2 DEF Asks, TypeOK
    <2>3. CASE Answered(c)
      BY <1>0, <2>3 DEF Answered, TypeOK
    <2> QED BY <1>4, <2>1, <2>2, <2>3
  <1>5. ASSUME NEW how \in {"zero", "code", "trap", "ctx", "cut"}, Ends(c, how)
        PROVE  TypeOK'
    BY <1>0, <1>5 DEF Ends, TypeOK
  <1> QED BY <1>1, <1>2, <1>3, <1>4, <1>5
      DEF Runs, CallStep, GuestStep, CtxStops, Exits, CloseStops

LEMMA TypeStep == TypeOK /\ [Next]_vars => TypeOK'
  <1> SUFFICES ASSUME TypeOK, [Next]_vars PROVE TypeOK'
    OBVIOUS
  <1>1. CASE UNCHANGED vars
    BY <1>1 DEF vars, TypeOK, registry, tsgo, calls, guests
  <1> QED BY <1>1, TypeRegistry, TypeHost, TypeAsk, TypeRuns DEF Next

\* Every variable of the registry, the calls and the host keeps its type.
THEOREM ReloadTyping == Spec => []TypeOK
  BY TypeInit, TypeStep, PTL DEF Spec

-----------------------------------------------------------------------------
(* The registry.                                                             *)

LEMMA RolesStep == TypeOK /\ RolesAgree /\ [Next]_vars => RolesAgree'
  <1> SUFFICES ASSUME TypeOK, RolesAgree, [Next]_vars,
                      NEW w \in Checks \cap Bundles
               PROVE  checkers'[NameOf[w]] = w <=> bundlers'[NameOf[w]] = w
    BY DEF RolesAgree
  <1>0. /\ w \in Values /\ NameOf[w] \in Tokens
        /\ checkers[NameOf[w]] = w <=> bundlers[NameOf[w]] = w
    BY NamesAssumption, RolesAssumption DEF RolesAgree
  <1>1. ASSUME NEW v \in Values, HostRegisters(v)
        PROVE  checkers'[NameOf[w]] = w <=> bundlers'[NameOf[w]] = w
    <2>1. CASE Refuses(v)
      BY <1>0, <1>1, <2>1 DEF HostRegisters, Register, registry
    <2>2. CASE ~Refuses(v) /\ v = w
      BY <1>0, <1>1, <2>2 DEF HostRegisters, Register, Filed, TypeOK
    <2>3. CASE ~Refuses(v) /\ v # w
      <3>1. CASE NameOf[v] # NameOf[w]
        BY <1>0, <1>1, <2>3, <3>1 DEF HostRegisters, Register, Filed, TypeOK
      <3>2. CASE NameOf[v] = NameOf[w]
        <4>1. checkers[NameOf[w]] # w /\ bundlers[NameOf[w]] # w
          BY <1>0, <2>3, <3>2, NobodyAssumption DEF Refuses, Taken
        <4>2. checkers'[NameOf[w]] \in {checkers[NameOf[w]], v}
          BY <1>0, <1>1, <2>3, <3>2 DEF HostRegisters, Register, Filed, TypeOK
        <4>3. bundlers'[NameOf[w]] \in {bundlers[NameOf[w]], v}
          BY <1>0, <1>1, <2>3, <3>2 DEF HostRegisters, Register, Filed, TypeOK
        <4> QED BY <2>3, <4>1, <4>2, <4>3
      <3> QED BY <3>1, <3>2
    <2> QED BY <2>1, <2>2, <2>3
  <1>2. ASSUME NEW n \in Tokens, HostDrops(n)
        PROVE  checkers'[NameOf[w]] = w <=> bundlers'[NameOf[w]] = w
    BY <1>0, <1>2, NobodyAssumption DEF HostDrops, Unregister, TypeOK
  <1>3. CASE UNCHANGED registry
    BY <1>0, <1>3 DEF registry
  <1> QED BY <1>1, <1>2, <1>3
      DEF Next, HostCloses, LookUp, Ask, Runs, vars

\* compile.go:260-281: a value of both roles is filed in both or in neither.
THEOREM RolesStayTogether == Spec => []RolesAgree
  <1>1. Init => RolesAgree
    BY NamesAssumption, RolesAssumption, NobodyAssumption
       DEF Init, RegistryInit, RolesAgree
  <1> QED BY <1>1, RolesStep, ReloadTyping, PTL DEF Spec

\* compile.go:264-274: a name is dropped before another value has it.
THEOREM NamesAreDroppedFirst == Spec => NeverReplaced
  <1> DEFINE Kept == \A n \in Tokens :
          /\ checkers[n] # Nobody => checkers'[n] \in {checkers[n], Nobody}
          /\ bundlers[n] # Nobody => bundlers'[n] \in {bundlers[n], Nobody}
  <1>1. TypeOK /\ [Next]_vars => [Kept]_vars
    <2> SUFFICES ASSUME TypeOK, Next, NEW n \in Tokens
                 PROVE  /\ checkers[n] # Nobody
                            => checkers'[n] \in {checkers[n], Nobody}
                        /\ bundlers[n] # Nobody
                            => bundlers'[n] \in {bundlers[n], Nobody}
      OBVIOUS
    <2>1. ASSUME NEW v \in Values, HostRegisters(v)
          PROVE  /\ checkers[n] # Nobody => checkers'[n] = checkers[n]
                 /\ bundlers[n] # Nobody => bundlers'[n] = bundlers[n]
      BY <2>1 DEF HostRegisters, Register, Refuses, Taken, Filed, TypeOK,
                  registry
    <2>2. ASSUME NEW m \in Tokens, HostDrops(m)
          PROVE  /\ checkers'[n] \in {checkers[n], Nobody}
                 /\ bundlers'[n] \in {bundlers[n], Nobody}
      BY <2>2 DEF HostDrops, Unregister, TypeOK
    <2>3. CASE UNCHANGED registry
      BY <2>3 DEF registry
    <2> QED BY <2>1, <2>2, <2>3 DEF Next, HostCloses, LookUp, Ask, Runs
  <1> QED BY <1>1, ReloadTyping, PTL DEF Spec, NeverReplaced

-----------------------------------------------------------------------------
(* The calls.  That no two instances share a name rests on the counter being *)
(* at least every number taken from it; that an answer is whole rests on     *)
(* what each way of ending says of the call.                                 *)

Up(c) == at[c] \in {"named", "running"}

Numbered ==
    /\ \A c \in Calls : Up(c) => on[c] \in Engines /\ num[c] <= seq[on[c]]
    /\ \A c, d \in Calls :
          (c # d /\ Up(c) /\ Up(d) /\ on[c] = on[d]) => num[c] # num[d]

Ending(c) ==
    /\ at[c] \in {"idle", "named", "running"}
          => ended[c] = "none" /\ result[c] = "none"
    /\ at[c] = "ended" => ended[c] # "none" /\ result[c] = "none"
    /\ at[c] = "returned" => result[c] # "none"
    /\ ended[c] = "ctx" => ctx[c] = "done"
    /\ ended[c] = "cut" => on[c] \in closed
    /\ ended[c] # "taken"
    /\ result[c] \in {"clean", "diags"} =>
          /\ ended[c] \in {"zero", "code", "cut"}
          /\ result[c] = "clean" => ended[c] # "code"
    /\ ended[c] = "ctx" => result[c] \in {"none", "canceled"}

CallsInv == Numbered /\ \A c \in Calls : Ending(c)

LEMMA CallsInit == Init => CallsInv
  BY DEF Init, TSGoInit, CallsInv, Numbered, Up, Ending

\* A call that begins takes a number above all that are up.
LEMMA NumberedStep ==
    TypeOK /\ CallsInv /\ [Next]_vars => Numbered'
  <1> SUFFICES ASSUME TypeOK, CallsInv, [Next]_vars PROVE Numbered'
    OBVIOUS
  <1> USE DEF Numbered, Up, CallsInv
  <1>1. CASE UNCHANGED <<seq, on, at, num>>
    BY <1>1
  <1>2. ASSUME NEW c \in Calls, UNCHANGED <<seq, on, num>>,
               at' = [at EXCEPT ![c] = at'[c]],
               at'[c] \in {"named", "running"} => at[c] \in {"named", "running"}
        PROVE  Numbered'
    <2>1. \A d \in Calls : at'[d] \in {"named", "running"}
                              => at[d] \in {"named", "running"}
      BY <1>2 DEF TypeOK
    <2> QED BY <1>2, <2>1
  <1>3. ASSUME NEW c \in Calls, Refuse(c, handle[c]) PROVE Numbered'
    <2>1. /\ UNCHANGED <<seq, num>>
          /\ at'[c] = "returned"
          /\ \A d \in Calls : d # c => at'[d] = at[d] /\ on'[d] = on[d]
      BY <1>3 DEF Refuse, TypeOK
    <2> QED BY <2>1
  <1>4. ASSUME NEW c \in Calls, handle[c] \in Engines, Begin(c, handle[c])
        PROVE  Numbered'
    <2> DEFINE e == handle[c]
    <2>1. /\ on'[c] = e /\ num'[c] = seq[e] + 1 /\ seq'[e] = seq[e] + 1
          /\ seq[e] \in Nat
          /\ \A d \in Calls : d # c => /\ at'[d] = at[d] /\ on'[d] = on[d]
                                       /\ num'[d] = num[d] /\ num[d] \in Nat
          /\ \A f \in Engines : f # e => seq'[f] = seq[f]
      BY <1>4 DEF Begin, Counted, TypeOK
    <2>2. ASSUME NEW d \in Calls, Up(d)', d # c
          PROVE  on'[d] \in Engines /\ num'[d] <= seq[on'[d]]
      BY <2>1, <2>2
    <2>3. \A f \in Engines : seq[f] \in Nat /\ seq[f] <= seq'[f]
      BY <2>1 DEF TypeOK
    <2>4. ASSUME NEW d \in Calls, Up(d)'
          PROVE  on'[d] \in Engines /\ num'[d] <= seq'[on'[d]]
      BY <1>4, <2>1, <2>2, <2>3, <2>4 DEF TypeOK
    <2>5. ASSUME NEW d \in Calls, Up(d)', d # c, on'[d] = on'[c]
          PROVE  num'[d] # num'[c]
      BY <2>1, <2>2, <2>5
    <2>6. ASSUME NEW d \in Calls, NEW b \in Calls, d # b, d # c, b # c,
                 Up(d)', Up(b)', on'[d] = on'[b]
          PROVE  num'[d] # num'[b]
      BY <2>1, <2>6
    <2> QED BY <2>4, <2>5, <2>6
  <1>5. CASE \E c \in Calls : Runs(c)
    <2>1. PICK c \in Calls : Runs(c)
      BY <1>5
    <2>2. CASE Cancel(c) \/ Writes(c) \/ Asks(c) \/ Answered(c)
      BY <1>1, <2>2 DEF Cancel, Writes, Asks, Answered
    <2>3. CASE Instantiate(c) \/ Return(c)
      BY <1>2, <2>3 DEF Instantiate, Return, TypeOK
    <2>4. ASSUME NEW how, Ends(c, how) PROVE Numbered'
      BY <1>2, <2>4 DEF Ends, TypeOK
    <2> QED BY <2>1, <2>2, <2>3, <2>4
        DEF Runs, CallStep, GuestStep, CtxStops, Exits, CloseStops
  <1>6. CASE \E c \in Calls : Ask(c)
    <2>1. PICK c \in Calls : Ask(c)
      BY <1>6
    <2>2. handle[c] \in Engines
      BY <2>1 DEF Ask, TypeOK
    <2> QED BY <1>3, <1>4, <2>1, <2>2 DEF Ask
  <1> QED BY <1>1, <1>5, <1>6
      DEF Next, HostRegisters, HostDrops, HostCloses, Close, LookUp, tsgo,
          calls, vars

\* No instance that runs has the name a call took: that call's refusal is the
\* closed engine's or there is none.
LEMMA RefusalFacts ==
    ASSUME TypeOK, Numbered, NEW c \in Calls, at[c] = "named"
    PROVE  Refusal(c) \in {"closed", "none"}
  BY DEF Refusal, Running, Numbered, Up

LEMMA EndingStep ==
    ASSUME TypeOK, CallsInv, [Next]_vars, NEW b \in Calls
    PROVE  Ending(b)'
  <1>0. Ending(b) /\ Numbered
    BY DEF CallsInv
  <1>1. CASE UNCHANGED <<on, ctx, at, ended, result>> /\ closed \subseteq closed'
    BY <1>0, <1>1 DEF Ending
  <1>2. ASSUME NEW c \in Calls, Cancel(c) PROVE Ending(b)'
    BY <1>0, <1>2 DEF Cancel, Ending, TypeOK, guests
  <1>3. ASSUME NEW c \in Calls, Writes(c) \/ Asks(c) \/ Answered(c) PROVE Ending(b)'
    BY <1>0, <1>3 DEF Writes, Asks, Answered, Ending
  <1>4. ASSUME NEW c \in Calls, Instantiate(c) PROVE Ending(b)'
    <2>1. Refusal(c) \in {"closed", "none"}
      BY <1>0, <1>4, RefusalFacts DEF Instantiate
    <2>2. CASE b = c
      BY <1>0, <1>4, <2>1, <2>2 DEF Instantiate, Ending, TypeOK
    <2>3. CASE b # c
      BY <1>0, <1>4, <2>3 DEF Instantiate, Ending, TypeOK
    <2> QED BY <2>2, <2>3
  <1>5. ASSUME NEW c \in Calls, Return(c) PROVE Ending(b)'
    <2>1. CASE b = c
      <3>1. ended[b] \in {"zero", "code", "trap", "ctx", "cut", "closed"}
        BY <1>0, <1>5, <2>1 DEF Return, Ending, TypeOK
      <3>2. ctx[b] \in {"live", "done"}
        BY DEF TypeOK
      <3>3. /\ Outcome(b) # "none"
            /\ Outcome(b) \in {"clean", "diags"} =>
                  /\ ended[b] \in {"zero", "code", "cut"}
                  /\ Outcome(b) = "clean" => ended[b] # "code"
            /\ ended[b] = "ctx" => Outcome(b) = "canceled"
        BY <1>0, <3>1, <3>2 DEF Outcome, Ending
      <3>4. /\ at'[b] = "returned" /\ result'[b] = Outcome(b)
            /\ UNCHANGED <<ended, on, ctx, closed>>
        BY <1>5, <2>1 DEF Return, TypeOK, guests
      <3> QED BY <1>0, <3>3, <3>4 DEF Ending
    <2>2. CASE b # c
      BY <1>0, <1>5, <2>2 DEF Return, Ending, TypeOK, guests
    <2> QED BY <2>1, <2>2
  <1>6. ASSUME NEW c \in Calls, NEW how \in {"zero", "code", "trap"},
               Ends(c, how)
        PROVE  Ending(b)'
    BY <1>0, <1>6 DEF Ends, Ending, TypeOK
  <1>7. ASSUME NEW c \in Calls, ctx[c] = "done", Ends(c, "ctx")
        PROVE  Ending(b)'
    BY <1>0, <1>7 DEF Ends, Ending, TypeOK
  <1>8. ASSUME NEW c \in Calls, on[c] \in closed, Ends(c, "cut")
        PROVE  Ending(b)'
    BY <1>0, <1>8 DEF Ends, Ending, TypeOK
  <1>9. ASSUME NEW c \in Calls, Refuse(c, handle[c]) PROVE Ending(b)'
    BY <1>0, <1>9 DEF Refuse, Ending, TypeOK, guests
  <1>10. ASSUME NEW c \in Calls, Begin(c, handle[c]) PROVE Ending(b)'
    BY <1>0, <1>10 DEF Begin, Ending, TypeOK, guests
  <1>11. ASSUME NEW c \in Calls, Runs(c) PROVE Ending(b)'
    BY <1>2, <1>3, <1>4, <1>5, <1>6, <1>7, <1>8, <1>11
       DEF Runs, CallStep, GuestStep, CtxStops, Exits, CloseStops
  <1>12. ASSUME NEW c \in Calls, Ask(c) PROVE Ending(b)'
    BY <1>9, <1>10, <1>12 DEF Ask
  <1>13. CASE \/ \E v \in Values : HostRegisters(v)
              \/ \E n \in Tokens : HostDrops(n)
              \/ \E e \in Engines : HostCloses(e)
              \/ \E c \in Calls, n \in Tokens : LookUp(c, n)
              \/ UNCHANGED vars
    BY <1>1, <1>13 DEF HostRegisters, HostDrops, HostCloses, Close, LookUp,
                       tsgo, calls, guests, vars
  <1> QED BY <1>11, <1>12, <1>13 DEF Next

THEOREM CallsInvariant == Spec => []CallsInv
  <1>1. TypeOK /\ CallsInv /\ [Next]_vars => CallsInv'
    BY NumberedStep, EndingStep DEF CallsInv
  <1> QED BY <1>1, CallsInit, ReloadTyping, PTL DEF Spec

\* engine.go:85-89: however many checks run at once, none fails because another
\* has its name.
THEOREM NamesStayApart == Spec => []NamesApart
  <1>1. CallsInv => NamesApart
    BY DEF CallsInv, Ending, NamesApart
  <1> QED BY <1>1, CallsInvariant, PTL

\* tsgo.go:127-149: while its engine is open, what a check answers is what a
\* guest that ran to its end said.
THEOREM AnswersAreWhole == Spec => []WholeWhileOpen
  <1>1. CallsInv => WholeWhileOpen
    BY DEF CallsInv, Ending, WholeWhileOpen, Whole
  <1> QED BY <1>1, CallsInvariant, PTL

\* tsgo.go:133-137: a check its context stopped is reported as cancelled.
THEOREM CancellationsAreTold == Spec => []CancellationTold
  <1>1. CallsInv => CancellationTold
    BY DEF CallsInv, Ending, CancellationTold
  <1> QED BY <1>1, CallsInvariant, PTL
=============================================================================
