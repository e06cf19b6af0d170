---------------------------- MODULE BundleProofs ----------------------------
(* Theorems about Bundle.tla for every pipe capacity, packet size and number *)
(* of requests: its typing, that a bundle reported whole is whole, and that  *)
(* no request is lost.                                                       *)
EXTENDS BundleInv, TLAPS

USE DEF Known, Verdicts, Replies

(***************************************************************************)
(* Sequences of cells, and what is in them.                                *)
(***************************************************************************)
LEMMA TailFacts ==
    ASSUME NEW s \in Seq(Cell), s # <<>>
    PROVE  /\ Tail(s) \in Seq(Cell)
           /\ Head(s) = s[1] /\ Head(s) \in Cell /\ 1 \in DOMAIN s
           /\ Len(Tail(s)) = Len(s) - 1 /\ Len(s) \in Nat /\ Len(s) > 0
           /\ \A i \in DOMAIN Tail(s) :
                 i \in Nat \ {0} /\ i + 1 \in DOMAIN s /\ Tail(s)[i] = s[i + 1]
OBVIOUS

LEMMA AppendFacts ==
    ASSUME NEW s \in Seq(Cell), NEW c \in Cell
    PROVE  /\ Append(s, c) \in Seq(Cell)
           /\ Len(Append(s, c)) = Len(s) + 1 /\ Len(s) \in Nat
           /\ \A i \in DOMAIN Append(s, c) :
                 \/ i \in DOMAIN s /\ Append(s, c)[i] = s[i] /\ i <= Len(s)
                 \/ i = Len(s) + 1 /\ Append(s, c)[i] = c
OBVIOUS

LEMMA CellsFacts ==
    ASSUME NEW p \in Packet
    PROVE  /\ Cells(p) \in Seq(Cell)
           /\ p.kind \notin {"contents", "built"} => Len(Cells(p)) = 1
           /\ \A i \in DOMAIN Cells(p) : Cells(p)[i].pkt = p
<1>1. Size(p) \in Nat
  BY BigCellsAssumption DEF Size
<1>2. Cells(p) \in [1 .. Size(p) -> Cell]
  BY <1>1 DEF Cells, Cell
<1>3. Cells(p) \in Seq(Cell) /\ Len(Cells(p)) = Size(p)
  BY <1>1, <1>2
<1> QED
  BY <1>1, <1>3 DEF Cells, Size

LEMMA KindsFacts ==
    ASSUME NEW s \in Seq(Cell), NEW kinds, KindsIn(s, kinds)
    PROVE  /\ s # <<>> => KindsIn(Tail(s), kinds) /\ Head(s).pkt.kind \in kinds
           /\ \A c \in Cell : c.pkt.kind \in kinds => KindsIn(Append(s, c), kinds)
<1>1. ASSUME s # <<>>
      PROVE  KindsIn(Tail(s), kinds) /\ Head(s).pkt.kind \in kinds
  BY <1>1, TailFacts DEF KindsIn
<1>2. ASSUME NEW c \in Cell, c.pkt.kind \in kinds
      PROVE  KindsIn(Append(s, c), kinds)
  BY <1>2, AppendFacts DEF KindsIn
<1> QED
  BY <1>1, <1>2

LEMMA KindsOfCells ==
    ASSUME NEW p \in Packet, NEW kinds, p.kind \in kinds
    PROVE  KindsIn(Cells(p), kinds)
BY CellsFacts DEF KindsIn

LEMMA KindsEmpty == ASSUME NEW kinds PROVE KindsIn(<<>>, kinds)
BY DEF KindsIn

LEMMA IdsTail ==
    ASSUME NEW s \in Seq(Cell), s # <<>>, NEW kinds
    PROVE  /\ Ids(Tail(s), kinds) \subseteq Ids(s, kinds)
           /\ Head(s).pkt.kind \in kinds => Head(s).pkt.id \in Ids(s, kinds)
<1>1. ASSUME NEW r \in Ids(Tail(s), kinds) PROVE r \in Ids(s, kinds)
  <2>1. PICK i \in DOMAIN Tail(s) :
            Tail(s)[i].pkt.kind \in kinds /\ Tail(s)[i].pkt.id = r
    BY DEF Ids
  <2>2. i + 1 \in DOMAIN s /\ Tail(s)[i] = s[i + 1]
    BY TailFacts
  <2> QED
    BY <2>1, <2>2 DEF Ids
<1>2. Head(s).pkt.kind \in kinds => Head(s).pkt.id \in Ids(s, kinds)
  BY TailFacts DEF Ids
<1> QED
  BY <1>1, <1>2

LEMMA IdsAppend ==
    ASSUME NEW s \in Seq(Cell), NEW c \in Cell, NEW kinds,
           NEW r \in Ids(Append(s, c), kinds)
    PROVE  r \in Ids(s, kinds) \/ (c.pkt.kind \in kinds /\ r = c.pkt.id)
<1>1. PICK i \in DOMAIN Append(s, c) :
          Append(s, c)[i].pkt.kind \in kinds /\ Append(s, c)[i].pkt.id = r
  BY DEF Ids
<1>2. \/ i \in DOMAIN s /\ Append(s, c)[i] = s[i]
      \/ Append(s, c)[i] = c
  BY AppendFacts
<1> QED
  BY <1>1, <1>2 DEF Ids

LEMMA IdsCells ==
    ASSUME NEW p \in Packet, NEW kinds, NEW r \in Ids(Cells(p), kinds)
    PROVE  r = p.id /\ p.kind \in kinds
BY CellsFacts DEF Ids

LEMMA IdsNat == ASSUME NEW s \in Seq(Cell), NEW kinds PROVE Ids(s, kinds) \subseteq Nat
<1> SUFFICES ASSUME NEW i \in DOMAIN s PROVE s[i].pkt.id \in Nat
  BY DEF Ids
<1>1. s[i] \in Cell
  OBVIOUS
<1> QED
  BY <1>1 DEF Cell, Packet

LEMMA IdsEmpty == ASSUME NEW kinds PROVE Ids(<<>>, kinds) = {}
BY DEF Ids

LEMMA RisingTail ==
    ASSUME NEW s \in Seq(Cell), s # <<>>, Rising(s)
    PROVE  /\ Rising(Tail(s))
           /\ Head(s).pkt.kind \in Commands =>
                \A r \in Ids(Tail(s), Commands) : Head(s).pkt.id < r
<1>1. Rising(Tail(s))
  <2> SUFFICES ASSUME NEW i \in DOMAIN Tail(s), NEW j \in DOMAIN Tail(s), i < j,
                      Tail(s)[i].pkt.kind \in Commands,
                      Tail(s)[j].pkt.kind \in Commands
               PROVE  Tail(s)[i].pkt.id < Tail(s)[j].pkt.id
    BY DEF Rising
  <2>1. /\ i \in Nat /\ j \in Nat /\ i + 1 \in DOMAIN s /\ j + 1 \in DOMAIN s
        /\ Tail(s)[i] = s[i + 1] /\ Tail(s)[j] = s[j + 1]
    BY TailFacts
  <2>2. i + 1 < j + 1
    BY <2>1
  <2> QED
    BY <2>1, <2>2 DEF Rising
<1>2. ASSUME Head(s).pkt.kind \in Commands, NEW r \in Ids(Tail(s), Commands)
      PROVE  Head(s).pkt.id < r
  <2>1. PICK i \in DOMAIN Tail(s) :
            Tail(s)[i].pkt.kind \in Commands /\ Tail(s)[i].pkt.id = r
    BY DEF Ids
  <2>2. /\ i \in Nat \ {0} /\ i + 1 \in DOMAIN s /\ Tail(s)[i] = s[i + 1]
        /\ Head(s) = s[1] /\ 1 \in DOMAIN s
    BY TailFacts
  <2>3. 1 < i + 1
    BY <2>2
  <2> QED
    BY <1>2, <2>1, <2>2, <2>3 DEF Rising
<1> QED
  BY <1>1, <1>2

LEMMA RisingAppend ==
    ASSUME NEW s \in Seq(Cell), NEW c \in Cell, Rising(s),
           c.pkt.kind \in Commands => \A r \in Ids(s, Commands) : r < c.pkt.id
    PROVE  Rising(Append(s, c))
<1> SUFFICES ASSUME NEW i \in DOMAIN Append(s, c), NEW j \in DOMAIN Append(s, c),
                    i < j, Append(s, c)[i].pkt.kind \in Commands,
                    Append(s, c)[j].pkt.kind \in Commands
             PROVE  Append(s, c)[i].pkt.id < Append(s, c)[j].pkt.id
  BY DEF Rising
<1>1. i \in DOMAIN s /\ Append(s, c)[i] = s[i]
  BY AppendFacts
<1>2. CASE j \in DOMAIN s /\ Append(s, c)[j] = s[j]
  BY <1>1, <1>2 DEF Rising
<1>3. CASE Append(s, c)[j] = c
  <2>1. s[i].pkt.id \in Ids(s, Commands)
    BY <1>1 DEF Ids
  <2> QED
    BY <1>1, <1>3, <2>1
<1> QED
  BY <1>2, <1>3, AppendFacts

(*** STEPS ***)
(***************************************************************************)
(* Every step keeps each part of the invariant.                            *)
(***************************************************************************)
USE DEF vars, host, outside, session, sending, server, answer, pipes, work,
        asking, runner

LEMMA TypeStep == TypeOK /\ Shape /\ [Next]_vars => TypeOK'
<1> SUFFICES ASSUME TypeOK /\ Shape, [Next]_vars PROVE TypeOK'
  OBVIOUS
<1>1. CASE Cancel
  BY <1>1 DEF Cancel, TypeOK, CallerAt, Results, Ends
<1>2. CASE Refuse
  BY <1>2 DEF Refuse, Return, Deferred, TypeOK, CallerAt, Results, Ends
<1>3. CASE FirstPipe
  <2>1. caller' \in CallerAt /\ result' \in Results
    BY <1>3 DEF FirstPipe, Return, Deferred, TypeOK, CallerAt, Results
  <2>2. open' \subseteq Ends
    BY <1>3 DEF FirstPipe, Return, Deferred, TypeOK, Ends
  <2> QED
    BY <1>3, <2>1, <2>2 DEF FirstPipe, TypeOK, CallerAt, Results, Ends
<1>4. CASE SecondPipe
  <2>1. caller' \in CallerAt /\ result' \in Results
    BY <1>4 DEF SecondPipe, TypeOK, CallerAt, Results
  <2>2. open' \subseteq Ends
    BY <1>4 DEF SecondPipe, TypeOK, Ends
  <2> QED
    BY <1>4, <2>1, <2>2 DEF SecondPipe, TypeOK, CallerAt, Results, Ends
<1>5. CASE ReadVersion
  <2>1. Tail(toHost) \in Seq(Cell)
    BY <1>5, TailFacts DEF ReadVersion, TypeOK
  <2>2. caller' \in CallerAt /\ result' \in Results /\ open' \subseteq Ends
    BY <1>5 DEF ReadVersion, Return, Deferred, TypeOK, CallerAt, Results, Ends
  <2>3. serve' \in {serve, "reading"}
    BY <1>5 DEF ReadVersion
  <2> QED
    BY <1>5, <2>1, <2>2, <2>3 DEF ReadVersion, TypeOK, CallerAt, Results, Ends
<1>6. CASE HandshakeEOF
  BY <1>6 DEF HandshakeEOF, Return, OrCanceled, Deferred, TypeOK, CallerAt,
     Results, Ends
<1>7. CASE LockSend
  <2>1. Cells([kind |-> "build", id |-> 0]) \in Seq(Cell)
    BY CellsFacts, MaxReqAssumption DEF Packet, Kinds
  <2> QED
    BY <1>7, <2>1 DEF LockSend, TypeOK, CallerAt
<1>8. CASE PushBuild
  <2>1. Head(callerOut) \in Cell /\ Tail(callerOut) \in Seq(Cell)
    BY <1>8, TailFacts DEF PushBuild, TypeOK
  <2>2. Append(toGuest, Head(callerOut)) \in Seq(Cell)
    BY <2>1, AppendFacts DEF TypeOK
  <2> QED
    BY <1>8, <2>1, <2>2 DEF PushBuild, TypeOK
<1>9. CASE BuildSent
  BY <1>9 DEF BuildSent, TypeOK, CallerAt, Results, Ends
<1>10. CASE BuildFails
  BY <1>10 DEF BuildFails, Return, OrCanceled, Deferred, TypeOK, CallerAt,
     Results, Ends
<1>11. CASE TakeAnswer
  <2>1. caller' \in CallerAt /\ result' \in Results
    BY <1>11 DEF TakeAnswer, Return, Deferred, TypeOK, CallerAt, Results
  <2>2. open' \subseteq Ends
    BY <1>11 DEF TakeAnswer, Return, Deferred, TypeOK, Ends
  <2>3. ch' = "none"
    BY <1>11 DEF TakeAnswer
  <2> QED
    BY <1>11, <2>1, <2>2, <2>3 DEF TakeAnswer, TypeOK, CallerAt, Results, Ends
<1>12. CASE StreamEnds
  BY <1>12 DEF StreamEnds, Return, OrCanceled, Deferred, TypeOK, CallerAt,
     Results, Ends
<1>13. CASE CheckHost
  <2>1. caller' \in CallerAt /\ result' \in Results
    BY <1>13 DEF CheckHost, Return, Deferred, ToldToExit, TypeOK, CallerAt,
       Results
  <2>2. open' \subseteq Ends
    BY <1>13 DEF CheckHost, Return, Deferred, ToldToExit, TypeOK, Ends
  <2> QED
    BY <1>13, <2>1, <2>2 DEF CheckHost, TypeOK, CallerAt, Results, Ends
<1>14. CASE TakeDone
  BY <1>14 DEF TakeDone, Return, Deferred, DoneResult, TypeOK, CallerAt,
     Results, Ends
<1>15. CASE CtxDone
  BY <1>15 DEF CtxDone, Return, Deferred, TypeOK, CallerAt, Results, Ends
<1>16. CASE ServeRead
  <2>1. Tail(toHost) \in Seq(Cell) /\ Head(toHost).pkt \in Packet
    BY <1>16, TailFacts DEF ServeRead, TypeOK, Cell
  <2> QED
    BY <1>16, <2>1 DEF ServeRead, Decoded, TypeOK
<1>17. CASE ServeEOF
  BY <1>17 DEF ServeEOF, TypeOK, CallerAt, Results, Ends
<1>18. CASE ServeAnswer
  <2>1. PICK a \in Answers(serving.kind) :
            /\ serveOut' = Cells([kind |-> IF a = "fail" THEN "answer" ELSE a,
                                  id |-> serving.id])
            /\ broken' = (broken \/ a = "fail")
    BY <1>18 DEF ServeAnswer, AnswerId
  <2>2. a \in {"answer", "contents", "fail"}
    BY DEF Answers
  <2>3. serveOut' \in Seq(Cell)
    BY <2>1, <2>2, CellsFacts DEF TypeOK, Packet, Kinds
  <2>4. broken' \in BOOLEAN
    BY <2>1 DEF TypeOK
  <2> QED
    BY <1>18, <2>3, <2>4 DEF ServeAnswer, TypeOK
<1>19. CASE ServeLock
  BY <1>19 DEF ServeLock, TypeOK, CallerAt, Results, Ends
<1>20. CASE ServePush
  <2>1. Head(serveOut) \in Cell /\ Tail(serveOut) \in Seq(Cell)
    BY <1>20, TailFacts DEF ServePush, TypeOK
  <2>2. Append(toGuest, Head(serveOut)) \in Seq(Cell)
    BY <2>1, AppendFacts DEF TypeOK
  <2> QED
    BY <1>20, <2>1, <2>2 DEF ServePush, TypeOK
<1>21. CASE ServeUnlock
  BY <1>21 DEF ServeUnlock, TypeOK, CallerAt, Results, Ends
<1>22. CASE ServeWriteFails
  BY <1>22 DEF ServeWriteFails, TypeOK, CallerAt, Results, Ends
<1>23. CASE ServeDeliver
  <2>1. ch' \in {"none"} \cup Verdicts
    BY <1>23 DEF ServeDeliver, Shape, TypeOK
  <2>2. pending' \in BOOLEAN
    BY <1>23 DEF ServeDeliver
  <2> QED
    BY <1>23, <2>1, <2>2 DEF ServeDeliver, TypeOK
<1>24. CASE GuestStart
  <2>1. \A k \in {"version", "wrong"} : Cells([kind |-> k, id |-> 0]) \in Seq(Cell)
    BY CellsFacts, MaxReqAssumption DEF Packet, Kinds
  <2> QED
    BY <1>24, <2>1 DEF GuestStart, GuestWrites, TypeOK
<1>25. CASE GuestRefused
  BY <1>25 DEF GuestRefused, GuestLeaves, TypeOK, CallerAt, Results, Ends
<1>26. CASE GuestPush
  <2>1. Head(gout) \in Cell /\ Tail(gout) \in Seq(Cell)
    BY <1>26, TailFacts DEF GuestPush, TypeOK
  <2>2. Append(toHost, Head(gout)) \in Seq(Cell)
    BY <2>1, AppendFacts DEF TypeOK
  <2> QED
    BY <1>26, <2>1, <2>2 DEF GuestPush, TypeOK
<1>27. CASE GuestWriteBreaks
  BY <1>27 DEF GuestWriteBreaks, GuestLeaves, TypeOK, CallerAt, Results, Ends
<1>28. CASE GuestRead
  <2>1. Tail(toGuest) \in Seq(Cell)
    BY <1>28, TailFacts DEF GuestRead, TypeOK
  <2>2. asked' \in BOOLEAN
    BY <1>28 DEF GuestRead, TypeOK
  <2>3. owed' \subseteq 1 .. MaxReq
    BY <1>28 DEF GuestRead, TypeOK
  <2> QED
    BY <1>28, <2>1, <2>2, <2>3 DEF GuestRead, TypeOK
<1>29. CASE GuestAsk
  <2>1. sent + 1 \in 1 .. MaxReq
    BY <1>29, MaxReqAssumption DEF GuestAsk, TypeOK
  <2>2. \A k \in Commands : Cells([kind |-> k, id |-> sent + 1]) \in Seq(Cell)
    BY <2>1, CellsFacts, CommandsAssumption DEF Packet, Kinds
  <2> QED
    BY <1>29, <2>1, <2>2 DEF GuestAsk, GuestWrites, TypeOK
<1>30. CASE GuestAnswer
  <2>1. Cells([kind |-> verdict', id |-> 0]) \in Seq(Cell)
    BY <1>30, CellsFacts, MaxReqAssumption DEF GuestAnswer, Packet, Kinds
  <2> QED
    BY <1>30, <2>1 DEF GuestAnswer, GuestWrites, TypeOK
<1>31. CASE GuestGarble
  <2>1. Cells(NoPacket) \in Seq(Cell)
    BY CellsFacts, MaxReqAssumption DEF NoPacket, Packet, Kinds
  <2>2. sent + 1 \in 0 .. MaxReq
    BY <1>31, MaxReqAssumption DEF GuestGarble, TypeOK
  <2> QED
    BY <1>31, <2>1, <2>2 DEF GuestGarble, GuestWrites, TypeOK
<1>32. CASE GuestExit
  BY <1>32 DEF GuestExit, Busy, GuestLeaves, TypeOK, CallerAt, Results, Ends
<1>33. CASE GuestDies
  BY <1>33 DEF GuestDies, Busy, GuestLeaves, TypeOK, CallerAt, Results, Ends
<1>34. CASE GuestStopped
  BY <1>34 DEF GuestStopped, Busy, GuestLeaves, TypeOK, CallerAt, Results, Ends
<1>35. CASE GuestPark
  BY <1>35 DEF GuestPark, Busy, TypeOK, CallerAt, Results, Ends
<1>36. CASE GuestWake
  BY <1>36 DEF GuestWake, TypeOK, CallerAt, Results, Ends
<1>37. CASE InstClose
  BY <1>37 DEF InstClose, InstCloses, TypeOK, CallerAt, Results, Ends
<1>38. CASE InstReport
  BY <1>38 DEF InstReport, OrCanceled, TypeOK, CallerAt, Results, Ends
<1>39. CASE UNCHANGED vars
  BY <1>39 DEF TypeOK, CallerAt, Results, Ends
<1> QED
  BY <1>1, <1>2, <1>3, <1>4, <1>5, <1>6, <1>7, <1>8, <1>9, <1>10, <1>11,
     <1>12, <1>13, <1>14, <1>15, <1>16, <1>17, <1>18, <1>19, <1>20, <1>21,
     <1>22, <1>23, <1>24, <1>25, <1>26, <1>27, <1>28, <1>29, <1>30, <1>31,
     <1>32, <1>33, <1>34, <1>35, <1>36, <1>37, <1>38, <1>39 DEF Next,
     CallerStep, ServeStep,
     GuestStep, InstStep, Finished

LEMMA ShapeStep == TypeOK /\ Shape /\ [Next]_vars => Shape'
<1> SUFFICES ASSUME TypeOK /\ Shape, [Next]_vars PROVE Shape'
  OBVIOUS
<1>1. CASE Cancel
  BY <1>1 DEF Cancel, Shape
<1>2. CASE Refuse
  BY <1>2 DEF Refuse, Return, Deferred, Shape
<1>3. CASE FirstPipe
  BY <1>3 DEF FirstPipe, Return, Deferred, Shape
<1>4. CASE SecondPipe
  BY <1>4 DEF SecondPipe, Shape
<1>5. CASE ReadVersion
  <2>1. caller = "handshake" /\ toHost # <<>>
    BY <1>5 DEF ReadVersion
  <2>2. serve = "off" /\ guest # "unborn" /\ Len(gout) + Len(toHost) <= 1
    BY <2>1 DEF Shape
  <2>3. Tail(toHost) = <<>> /\ gout = <<>>
    BY <2>1, <2>2 DEF TypeOK
  <2>4. KindsIn(toHost', FromGuest) /\ KindsIn(gout', FromGuest)
    BY <1>5, <2>3, KindsEmpty DEF ReadVersion
  <2>5. gout' = gout /\ toHost' = Tail(toHost)
    BY <1>5 DEF ReadVersion
  <2>6. CASE Head(toHost).pkt.kind = "version"
    BY <1>5, <2>1, <2>2, <2>4, <2>6 DEF ReadVersion, Shape
  <2>7. CASE Head(toHost).pkt.kind # "version"
    BY <1>5, <2>1, <2>2, <2>3, <2>5, <2>7 DEF ReadVersion, Return, Deferred,
       Shape
  <2> QED
    BY <2>6, <2>7
<1>6. CASE HandshakeEOF
  BY <1>6 DEF HandshakeEOF, Return, OrCanceled, Deferred, Shape
<1>7. CASE LockSend
  <2>1. KindsIn(callerOut', {"build"})
    BY <1>7, KindsOfCells, MaxReqAssumption DEF LockSend, Packet, Kinds
  <2> QED
    BY <1>7, <2>1 DEF LockSend, Shape
<1>8. CASE PushBuild
  <2>1. KindsIn(callerOut', {"build"}) /\ Head(callerOut).pkt.kind = "build"
    BY <1>8, KindsFacts DEF PushBuild, Shape, TypeOK
  <2>2. KindsIn(toGuest', Replies \cup {"build"})
    BY <1>8, <2>1, KindsFacts, TailFacts DEF PushBuild, Shape, TypeOK
  <2> QED
    BY <1>8, <2>1, <2>2 DEF PushBuild, Shape
<1>9. CASE BuildSent
  BY <1>9 DEF BuildSent, Shape
<1>10. CASE BuildFails
  <2>1. KindsIn(callerOut', {"build"})
    BY <1>10, KindsEmpty DEF BuildFails
  <2> QED
    BY <1>10, <2>1 DEF BuildFails, Return, Deferred, Shape
<1>11. CASE TakeAnswer
  BY <1>11 DEF TakeAnswer, Return, Deferred, Shape
<1>12. CASE StreamEnds
  BY <1>12 DEF StreamEnds, Return, OrCanceled, Deferred, Shape
<1>13. CASE CheckHost
  BY <1>13 DEF CheckHost, Return, Deferred, ToldToExit, Shape
<1>14. CASE TakeDone
  BY <1>14 DEF TakeDone, Return, Deferred, DoneResult, Shape
<1>15. CASE CtxDone
  BY <1>15 DEF CtxDone, Return, Deferred, Shape
<1>16. CASE ServeRead
  <2>1. KindsIn(toHost, FromGuest)
    BY <1>16 DEF ServeRead, Shape
  <2>2. KindsIn(toHost', FromGuest) /\ Head(toHost).pkt.kind \in FromGuest
    BY <1>16, <2>1, KindsFacts DEF ServeRead, TypeOK
  <2>3. guest # "unborn"
    BY <1>16 DEF ServeRead, Shape
  <2>4. /\ serve' # "off"
        /\ serve' = "answering" => serving'.kind \in Commands
        /\ serve' = "delivering" => serving'.kind \in Verdicts
    BY <1>16, <2>2 DEF ServeRead, Decoded, FromGuest
  <2> QED
    BY <1>16, <2>2, <2>3, <2>4 DEF ServeRead, Shape
<1>17. CASE ServeEOF
  BY <1>17 DEF ServeEOF, Shape
<1>18. CASE ServeAnswer
  <2>1. KindsIn(serveOut', Replies)
    BY <1>18, KindsOfCells DEF ServeAnswer, AnswerId, Answers, TypeOK,
       Packet, Kinds
  <2> QED
    BY <1>18, <2>1 DEF ServeAnswer, Shape
<1>19. CASE ServeLock
  BY <1>19 DEF ServeLock, Shape
<1>20. CASE ServePush
  <2>1. KindsIn(serveOut', Replies) /\ Head(serveOut).pkt.kind \in Replies
    BY <1>20, KindsFacts DEF ServePush, Shape, TypeOK
  <2>2. KindsIn(toGuest', Replies \cup {"build"})
    BY <1>20, <2>1, KindsFacts, TailFacts DEF ServePush, Shape, TypeOK
  <2> QED
    BY <1>20, <2>1, <2>2 DEF ServePush, Shape
<1>21. CASE ServeUnlock
  BY <1>21 DEF ServeUnlock, Shape
<1>22. CASE ServeWriteFails
  <2>1. KindsIn(serveOut', Replies)
    BY <1>22, KindsEmpty DEF ServeWriteFails
  <2> QED
    BY <1>22, <2>1 DEF ServeWriteFails, Shape
<1>23. CASE ServeDeliver
  BY <1>23 DEF ServeDeliver, Shape
<1>24. CASE GuestStart
  <2>1. gout = <<>> /\ toHost = <<>> /\ serve = "off" /\ inst # "off"
    BY <1>24 DEF GuestStart, Shape
  <2>2. Len(gout') = 1
    BY <1>24, CellsFacts, MaxReqAssumption DEF GuestStart, GuestWrites,
       Packet, Kinds
  <2>3. Len(gout') + Len(toHost') <= 1
    BY <1>24, <2>1, <2>2 DEF GuestStart
  <2> QED
    BY <1>24, <2>1, <2>3 DEF GuestStart, Shape
<1>25. CASE GuestRefused
  <2>1. gout' = <<>> /\ Len(gout') = 0 /\ KindsIn(gout', FromGuest)
    BY <1>25, KindsEmpty DEF GuestRefused, GuestLeaves
  <2>2. Len(gout) \in Nat /\ Len(toHost) \in Nat
    BY DEF TypeOK
  <2>3. serve = "off" => Len(gout') + Len(toHost') <= 1
    BY <1>25, <2>1, <2>2 DEF GuestRefused, Shape
  <2> QED
    BY <1>25, <2>1, <2>3 DEF GuestRefused, GuestLeaves, Shape
<1>26. CASE GuestPush
  <2>1. guest # "unborn" /\ inst # "off"
    BY <1>26 DEF GuestPush, Shape
  <2>2. Len(gout') + Len(toHost') = Len(gout) + Len(toHost)
    BY <1>26, TailFacts, AppendFacts DEF GuestPush, TypeOK
  <2>3. KindsIn(gout, FromGuest) /\ KindsIn(toHost, FromGuest)
           => KindsIn(gout', FromGuest) /\ KindsIn(toHost', FromGuest)
    BY <1>26, KindsFacts, TailFacts DEF GuestPush, TypeOK
  <2> QED
    BY <1>26, <2>1, <2>2, <2>3 DEF GuestPush, Shape
<1>27. CASE GuestWriteBreaks
  <2>1. gout' = <<>> /\ Len(gout') = 0 /\ KindsIn(gout', FromGuest)
    BY <1>27, KindsEmpty DEF GuestWriteBreaks, GuestLeaves
  <2>2. Len(gout) \in Nat /\ Len(toHost) \in Nat
    BY DEF TypeOK
  <2>3. serve = "off" => Len(gout') + Len(toHost') <= 1
    BY <1>27, <2>1, <2>2 DEF GuestWriteBreaks, Shape
  <2> QED
    BY <1>27, <2>1, <2>3 DEF GuestWriteBreaks, GuestLeaves, Shape
<1>28. CASE GuestRead
  <2>1. serve # "off" /\ guest # "unborn"
    BY <1>28 DEF GuestRead, Busy, Shape
  <2>2. KindsIn(toGuest', Replies \cup {"build"})
    BY <1>28, KindsFacts DEF GuestRead, Shape, TypeOK
  <2> QED
    BY <1>28, <2>1, <2>2 DEF GuestRead, Shape
<1>29. CASE GuestAsk
  <2>1. serve # "off" /\ guest # "unborn"
    BY <1>29 DEF GuestAsk, Busy, Shape
  <2>2. PICK k \in Commands : gout' = Cells([kind |-> k, id |-> sent + 1])
    BY <1>29 DEF GuestAsk, GuestWrites
  <2>3. [kind |-> k, id |-> sent + 1] \in Packet
    BY <1>29, MaxReqAssumption, CommandsAssumption DEF GuestAsk, TypeOK,
       Packet, Kinds
  <2>4. KindsIn(gout', FromGuest)
    BY <2>2, <2>3, KindsOfCells DEF FromGuest
  <2> QED
    BY <1>29, <2>1, <2>4 DEF GuestAsk, Shape
<1>30. CASE GuestAnswer
  <2>1. serve # "off" /\ guest # "unborn"
    BY <1>30 DEF GuestAnswer, Busy, Shape
  <2>2. KindsIn(gout', FromGuest)
    BY <1>30, KindsOfCells, MaxReqAssumption
       DEF GuestAnswer, GuestWrites, FromGuest, Packet, Kinds
  <2> QED
    BY <1>30, <2>1, <2>2 DEF GuestAnswer, Shape
<1>31. CASE GuestGarble
  <2>1. serve # "off" /\ guest # "unborn"
    BY <1>31 DEF GuestGarble, Busy, Shape
  <2>2. KindsIn(gout', FromGuest)
    BY <1>31, KindsOfCells, MaxReqAssumption
       DEF GuestGarble, GuestWrites, FromGuest, NoPacket, Packet, Kinds
  <2> QED
    BY <1>31, <2>1, <2>2 DEF GuestGarble, Shape
<1>32. CASE GuestExit
  <2>1. gout' = <<>> /\ Len(gout') = 0 /\ KindsIn(gout', FromGuest)
    BY <1>32, KindsEmpty DEF GuestExit, GuestLeaves
  <2>2. Len(gout) \in Nat /\ Len(toHost) \in Nat
    BY DEF TypeOK
  <2>3. serve = "off" => Len(gout') + Len(toHost') <= 1
    BY <1>32, <2>1, <2>2 DEF GuestExit, Shape
  <2> QED
    BY <1>32, <2>1, <2>3 DEF GuestExit, GuestLeaves, Shape, Busy
<1>33. CASE GuestDies
  <2>1. gout' = <<>> /\ Len(gout') = 0 /\ KindsIn(gout', FromGuest)
    BY <1>33, KindsEmpty DEF GuestDies, GuestLeaves
  <2>2. Len(gout) \in Nat /\ Len(toHost) \in Nat
    BY DEF TypeOK
  <2>3. serve = "off" => Len(gout') + Len(toHost') <= 1
    BY <1>33, <2>1, <2>2 DEF GuestDies, Shape
  <2> QED
    BY <1>33, <2>1, <2>3 DEF GuestDies, GuestLeaves, Shape, Busy
<1>34. CASE GuestStopped
  <2>1. gout' = <<>> /\ Len(gout') = 0 /\ KindsIn(gout', FromGuest)
    BY <1>34, KindsEmpty DEF GuestStopped, GuestLeaves
  <2>2. Len(gout) \in Nat /\ Len(toHost) \in Nat
    BY DEF TypeOK
  <2>3. serve = "off" => Len(gout') + Len(toHost') <= 1
    BY <1>34, <2>1, <2>2 DEF GuestStopped, Shape
  <2> QED
    BY <1>34, <2>1, <2>3 DEF GuestStopped, GuestLeaves, Shape, Busy
<1>35. CASE GuestPark
  BY <1>35 DEF GuestPark, Busy, Shape
<1>36. CASE GuestWake
  BY <1>36 DEF GuestWake, Shape
<1>37. CASE InstClose
  BY <1>37 DEF InstClose, InstCloses, Shape
<1>38. CASE InstReport
  BY <1>38 DEF InstReport, OrCanceled, Shape
<1>39. CASE UNCHANGED vars
  BY <1>39 DEF Shape
<1> QED
  BY <1>1, <1>2, <1>3, <1>4, <1>5, <1>6, <1>7, <1>8, <1>9, <1>10, <1>11,
     <1>12, <1>13, <1>14, <1>15, <1>16, <1>17, <1>18, <1>19, <1>20, <1>21,
     <1>22, <1>23, <1>24, <1>25, <1>26, <1>27, <1>28, <1>29, <1>30, <1>31,
     <1>32, <1>33, <1>34, <1>35, <1>36, <1>37, <1>38, <1>39 DEF Next,
     CallerStep, ServeStep,
     GuestStep, InstStep, Finished

LEMMA OrderStep == TypeOK /\ Shape /\ Order /\ [Next]_vars => Order'
<1> SUFFICES ASSUME TypeOK /\ Shape /\ Order, [Next]_vars PROVE Order'
  OBVIOUS
<1>1. CASE Cancel
  BY <1>1 DEF Cancel, Order, Asked, Answered, Builds, AtGuest, OnTheWay, Unread
<1>2. CASE Refuse
  BY <1>2 DEF Refuse, Return, Deferred, Order, Asked, Answered, Builds,
     AtGuest, OnTheWay, Unread
<1>3. CASE FirstPipe
  BY <1>3 DEF FirstPipe, Return, Deferred, Order, Asked, Answered, Builds,
     AtGuest, OnTheWay, Unread
<1>4. CASE SecondPipe
  BY <1>4 DEF SecondPipe, Order, Asked, Answered, Builds, AtGuest, OnTheWay,
     Unread
<1>5. CASE ReadVersion
  <2>1. Ids(toHost', Commands) \subseteq Ids(toHost, Commands) /\ Rising(toHost')
    BY <1>5, IdsTail, RisingTail DEF ReadVersion, Order, TypeOK
  <2>2. serve' # "answering"
    BY <1>5 DEF ReadVersion, Shape
  <2> QED
    BY <1>5, <2>1, <2>2 DEF ReadVersion, Order, Asked, Answered, Builds,
       AtGuest, OnTheWay, Unread
<1>6. CASE HandshakeEOF
  BY <1>6 DEF HandshakeEOF, Return, OrCanceled, Deferred, Order, Asked,
     Answered, Builds, AtGuest, OnTheWay, Unread
<1>7. CASE LockSend
  <2>1. Ids(callerOut', {"build"}) \subseteq {0}
    BY <1>7, IdsCells, MaxReqAssumption DEF LockSend, Packet, Kinds
  <2> QED
    BY <1>7, <2>1 DEF LockSend, Order, Asked, Answered, Builds, AtGuest,
       OnTheWay, Unread
<1>8. CASE PushBuild
  <2>1. /\ Head(callerOut) \in Cell /\ Head(callerOut).pkt.kind = "build"
        /\ Ids(callerOut', {"build"}) \subseteq Ids(callerOut, {"build"})
        /\ Head(callerOut).pkt.id \in Ids(callerOut, {"build"})
    BY <1>8, TailFacts, KindsFacts, IdsTail DEF PushBuild, TypeOK, Shape
  <2>2. Ids(toGuest', {"build"}) \subseteq {0}
    BY <1>8, <2>1, IdsAppend DEF PushBuild, TypeOK, Order, Builds
  <2>3. Ids(toGuest', Replies) \subseteq Ids(toGuest, Replies)
    BY <1>8, <2>1, IdsAppend DEF PushBuild, TypeOK
  <2> QED
    BY <1>8, <2>1, <2>2, <2>3 DEF PushBuild, Order, Asked, Answered, Builds,
       AtGuest, OnTheWay, Unread
<1>9. CASE BuildSent
  BY <1>9 DEF BuildSent, Order, Asked, Answered, Builds, AtGuest, OnTheWay,
     Unread
<1>10. CASE BuildFails
  BY <1>10, IdsEmpty DEF BuildFails, Order, Asked, Answered, Builds,
     AtGuest, OnTheWay, Unread
<1>11. CASE TakeAnswer
  BY <1>11 DEF TakeAnswer, Return, Deferred, Order, Asked, Answered, Builds,
     AtGuest, OnTheWay, Unread
<1>12. CASE StreamEnds
  BY <1>12 DEF StreamEnds, Return, OrCanceled, Deferred, Order, Asked,
     Answered, Builds, AtGuest, OnTheWay, Unread
<1>13. CASE CheckHost
  BY <1>13 DEF CheckHost, Return, Deferred, ToldToExit, Order, Asked,
     Answered, Builds, AtGuest, OnTheWay, Unread
<1>14. CASE TakeDone
  BY <1>14 DEF TakeDone, Return, Deferred, DoneResult, Order, Asked,
     Answered, Builds, AtGuest, OnTheWay, Unread
<1>15. CASE CtxDone
  BY <1>15 DEF CtxDone, Return, Deferred, Order, Asked, Answered, Builds,
     AtGuest, OnTheWay, Unread
<1>16. CASE ServeRead
  <2> DEFINE c == Head(toHost)
  <2>1. /\ Ids(toHost', Commands) \subseteq Ids(toHost, Commands)
        /\ Rising(toHost')
        /\ c.pkt.kind \in Commands => /\ c.pkt.id \in Ids(toHost, Commands)
                                      /\ \A r \in Ids(toHost', Commands) : c.pkt.id < r
    BY <1>16, IdsTail, RisingTail DEF ServeRead, Order, TypeOK
  <2>2. serve' = "answering" => serving' = c.pkt /\ c.pkt.kind \in Commands
    BY <1>16 DEF ServeRead, Decoded
  <2>3. /\ serveOut' = serveOut /\ toGuest' = toGuest /\ gout' = gout /\ owed' = owed
        /\ sent' = sent /\ verdict' = verdict /\ callerOut' = callerOut
    BY <1>16 DEF ServeRead
  <2> HIDE DEF c
  <2> QED
    BY <2>1, <2>2, <2>3 DEF Order, Asked, Answered, Builds, AtGuest,
       OnTheWay, Unread
<1>17. CASE ServeEOF
  BY <1>17 DEF ServeEOF, Order, Asked, Answered, Builds, AtGuest, OnTheWay,
     Unread
<1>18. CASE ServeAnswer
  <2>1. PICK a \in Answers(serving.kind) :
            serveOut' = Cells([kind |-> IF a = "fail" THEN "answer" ELSE a,
                               id |-> serving.id])
    BY <1>18 DEF ServeAnswer, AnswerId
  <2>2. a \in {"answer", "contents", "fail"}
    BY DEF Answers
  <2>3. \A r \in Ids(serveOut', Replies) : r = serving.id
    <3> DEFINE p == [kind |-> IF a = "fail" THEN "answer" ELSE a, id |-> serving.id]
    <3>1. p \in Packet /\ p.id = serving.id
      BY <2>2 DEF TypeOK, Packet, Kinds
    <3> HIDE DEF p
    <3>2. serveOut' = Cells(p)
      BY <2>1 DEF p
    <3> QED
      BY <3>1, <3>2, IdsCells
  <2>4. serving.id \in owed /\ serving.id <= sent
    <3>0. serve = "answering"
      BY <1>18 DEF ServeAnswer
    <3>1. serving.id \in owed /\ owed \subseteq 1 .. sent
      BY <3>0 DEF Order
    <3>2. \A r \in 1 .. sent : r <= sent
      BY DEF TypeOK
    <3> QED
      BY <3>1, <3>2
  <2> QED
    BY <1>18, <2>3, <2>4 DEF ServeAnswer, Order, Asked, Answered, Builds,
       AtGuest, OnTheWay, Unread
<1>19. CASE ServeLock
  BY <1>19 DEF ServeLock, Order, Asked, Answered, Builds, AtGuest, OnTheWay,
     Unread
<1>20. CASE ServePush
  <2>1. /\ Head(serveOut) \in Cell /\ Head(serveOut).pkt.kind \in Replies
        /\ Ids(serveOut', Replies) \subseteq Ids(serveOut, Replies)
        /\ Head(serveOut).pkt.id \in Ids(serveOut, Replies)
    BY <1>20, TailFacts, KindsFacts, IdsTail DEF ServePush, TypeOK, Shape
  <2>2. Ids(toGuest', Replies) \subseteq Ids(toGuest, Replies) \cup Ids(serveOut, Replies)
    BY <1>20, <2>1, IdsAppend DEF ServePush, TypeOK
  <2>3. Ids(toGuest', {"build"}) \subseteq Ids(toGuest, {"build"})
    BY <1>20, <2>1, IdsAppend DEF ServePush, TypeOK
  <2> QED
    BY <1>20, <2>1, <2>2, <2>3 DEF ServePush, Order, Asked, Answered,
       Builds, AtGuest, OnTheWay, Unread
<1>21. CASE ServeUnlock
  BY <1>21 DEF ServeUnlock, Order, Asked, Answered, Builds, AtGuest,
     OnTheWay, Unread
<1>22. CASE ServeWriteFails
  BY <1>22, IdsEmpty DEF ServeWriteFails, Order, Asked, Answered, Builds,
     AtGuest, OnTheWay, Unread
<1>23. CASE ServeDeliver
  BY <1>23 DEF ServeDeliver, Order, Asked, Answered, Builds, AtGuest,
     OnTheWay, Unread
<1>24. CASE GuestStart
  <2>1. AtGuest' = {}
    BY <1>24, IdsCells, MaxReqAssumption, CommandsAssumption
       DEF GuestStart, GuestWrites, AtGuest, Packet, Kinds
  <2> QED
    BY <1>24, <2>1 DEF GuestStart, Order, Asked, Answered, Builds, AtGuest,
       OnTheWay, Unread
<1>25. CASE GuestRefused
  <2>1. AtGuest' = {}
    BY <1>25, IdsEmpty DEF GuestRefused, GuestLeaves, AtGuest
  <2> QED
    BY <1>25, <2>1 DEF GuestRefused, GuestLeaves, Order, Asked, Answered,
       Builds, AtGuest, OnTheWay, Unread
<1>26. CASE GuestPush
  <2> DEFINE c == Head(gout)
  <2>1. /\ c \in Cell /\ Ids(gout', Commands) \subseteq Ids(gout, Commands)
        /\ c.pkt.kind \in Commands => c.pkt.id \in Ids(gout, Commands)
    BY <1>26, TailFacts, IdsTail DEF GuestPush, TypeOK
  <2>2. AtGuest' = {}
    <3>1. CASE AtGuest = {}
      BY <2>1, <3>1 DEF AtGuest
    <3>2. CASE AtGuest # {}
      <4>1. gout' = <<>>
        BY <1>26, <3>2, TailFacts DEF GuestPush, Order, TypeOK
      <4> QED
        BY <4>1, IdsEmpty DEF AtGuest
    <3> QED
      BY <3>1, <3>2
  <2>3. OnTheWay' \subseteq OnTheWay \cup AtGuest
    BY <1>26, <2>1, IdsAppend DEF GuestPush, TypeOK, AtGuest, OnTheWay
  <2>4. Rising(toHost')
    BY <1>26, <2>1, RisingAppend DEF GuestPush, TypeOK, Order, AtGuest,
       OnTheWay
  <2>5. UNCHANGED <<serve, serving, serveOut, toGuest, callerOut, owed, sent, verdict>>
    BY <1>26 DEF GuestPush
  <2> QED
    BY <2>2, <2>3, <2>4, <2>5 DEF Order, Asked, Answered, Builds, Unread
<1>27. CASE GuestWriteBreaks
  <2>1. AtGuest' = {}
    BY <1>27, IdsEmpty DEF GuestWriteBreaks, GuestLeaves, AtGuest
  <2> QED
    BY <1>27, <2>1 DEF GuestWriteBreaks, GuestLeaves, Order, Asked,
       Answered, Builds, AtGuest, OnTheWay, Unread
<1>28. CASE GuestRead
  <2> DEFINE c == Head(toGuest)
  <2>1. /\ c \in Cell /\ c.pkt.kind \in Replies \cup {"build"}
        /\ \A k \in {Replies, {"build"}} : Ids(toGuest', k) \subseteq Ids(toGuest, k)
        /\ c.pkt.kind \in Replies => c.pkt.id \in Ids(toGuest, Replies)
        /\ c.pkt.kind = "build" => c.pkt.id \in Ids(toGuest, {"build"})
    BY <1>28, TailFacts, KindsFacts, IdsTail DEF GuestRead, TypeOK, Shape
  <2>2. c.pkt.id \in Answered \/ c.pkt.id = 0
    BY <2>1 DEF Order, Answered, Builds, Unread
  <2>3. owed' \in {owed, owed \ {c.pkt.id}}
    BY <1>28 DEF GuestRead
  <2>4. Asked \subseteq Nat
    BY DEF Order, TypeOK
  <2>5. c.pkt.id \notin Asked /\ (serve = "answering" => serving.id # c.pkt.id)
    <3>1. c.pkt.id \in Nat
      BY <2>1 DEF Cell, Packet
    <3>2. Asked \subseteq 1 .. sent /\ (serve = "answering" => serving.id \in 1 .. sent)
      BY DEF Order
    <3>3. c.pkt.id = 0 \/ \A r \in Asked : c.pkt.id < r
      BY <2>2 DEF Order
    <3>4. serve = "answering" => c.pkt.id = 0 \/ c.pkt.id < serving.id
      BY <2>2 DEF Order
    <3> HIDE DEF c
    <3> QED
      BY <3>1, <3>2, <3>3, <3>4 DEF TypeOK
  <2>6. Asked \subseteq owed' /\ (serve = "answering" => serving.id \in owed')
    BY <2>3, <2>5 DEF Order
  <2>7. owed' \subseteq owed /\ Answered' \subseteq Answered /\ Builds' \subseteq Builds
    BY <1>28, <2>1, <2>3 DEF GuestRead, Answered, Builds, Unread
  <2>8. UNCHANGED <<serve, serving, gout, toHost, sent, verdict>>
    BY <1>28 DEF GuestRead
  <2>9. Asked' = Asked /\ AtGuest' = AtGuest /\ OnTheWay' = OnTheWay
    BY <2>8 DEF Asked, AtGuest, OnTheWay
  <2> QED
    BY <2>6, <2>7, <2>8, <2>9 DEF Order
<1>29. CASE GuestAsk
  <2>1. /\ sent' = sent + 1 /\ owed' = owed \cup {sent + 1} /\ verdict = "none"
        /\ UNCHANGED <<serve, serving, serveOut, toGuest, toHost, callerOut, verdict>>
    BY <1>29 DEF GuestAsk
  <2>2. PICK k \in Commands : gout' = Cells([kind |-> k, id |-> sent + 1])
    BY <1>29 DEF GuestAsk, GuestWrites
  <2>3. [kind |-> k, id |-> sent + 1] \in Packet
    BY <1>29, MaxReqAssumption, CommandsAssumption DEF GuestAsk, TypeOK,
       Packet, Kinds
  <2>4. Len(gout') = 1
    BY <2>2, <2>3, CellsFacts, CommandsAssumption
  <2>5. \A r \in AtGuest' : r = sent + 1
    BY <2>2, <2>3, IdsCells DEF AtGuest
  <2>6. OnTheWay' = OnTheWay /\ Answered' = Answered /\ Builds' = Builds
    BY <2>1 DEF OnTheWay, Answered, Builds, Unread
  <2>7. sent \in Nat /\ \A r \in owed : r \in Nat /\ r < sent + 1
    BY DEF Order, TypeOK
  <2>8. \A a \in Answered : a < sent + 1
    <3>1. Answered \subseteq Nat
      BY IdsNat DEF Answered, Unread, TypeOK
    <3> QED
      BY <2>7, <3>1 DEF Order
  <2>9. owed' \subseteq 1 .. sent'
    BY <2>1, <2>7 DEF Order
  <2>10. Asked' \subseteq owed'
    BY <2>1, <2>5, <2>6 DEF Order, Asked
  <2>11. \A r \in Asked' : r \in Asked \/ r = sent + 1
    BY <2>5, <2>6 DEF Asked
  <2>12. \A r \in AtGuest', s \in OnTheWay' : s < r
    BY <2>5, <2>6, <2>7 DEF Order, Asked
  <2>13. serve' = "answering" => /\ serving'.id \in owed'
                                 /\ \A r \in Asked' : serving'.id < r
                                 /\ \A a \in Answered' : a < serving'.id
    BY <2>1, <2>6, <2>7, <2>11 DEF Order
  <2>14. \A a \in Answered' : a <= sent' /\ \A r \in Asked' : a < r
    <3>1. \A a \in Answered : a \in Nat
      BY IdsNat DEF Answered, Unread, TypeOK
    <3>2. \A a \in Answered : a <= sent + 1
      BY <2>7, <2>8, <3>1
    <3>3. \A a \in Answered : \A r \in Asked : a < r
      BY DEF Order
    <3> QED
      BY <2>1, <2>6, <2>8, <2>11, <3>2, <3>3
  <2> QED
    BY <2>1, <2>4, <2>6, <2>9, <2>10, <2>12, <2>13, <2>14 DEF Order
<1>30. CASE GuestAnswer
  <2>1. AtGuest' = {}
    BY <1>30, IdsCells, MaxReqAssumption, CommandsAssumption
       DEF GuestAnswer, GuestWrites, AtGuest, Packet, Kinds
  <2> QED
    BY <1>30, <2>1 DEF GuestAnswer, Order, Asked, Answered, Builds, AtGuest,
       OnTheWay, Unread, TypeOK
<1>31. CASE GuestGarble
  <2>1. AtGuest' = {}
    BY <1>31, IdsCells, MaxReqAssumption, CommandsAssumption
       DEF GuestGarble, GuestWrites, AtGuest, NoPacket, Packet, Kinds
  <2>2. sent \in Nat /\ sent' = sent + 1 /\ \A a \in Answered : a \in Nat
    BY <1>31, IdsNat DEF GuestGarble, Answered, Unread, TypeOK
  <2>3. owed \subseteq 1 .. sent' /\ \A a \in Answered : a <= sent'
    BY <2>2 DEF Order
  <2> QED
    BY <1>31, <2>1, <2>3 DEF GuestGarble, Order, Asked, Answered, Builds,
       AtGuest, OnTheWay, Unread
<1>32. CASE GuestExit
  <2>1. AtGuest' = {}
    BY <1>32, IdsEmpty DEF GuestExit, GuestLeaves, AtGuest
  <2> QED
    BY <1>32, <2>1 DEF GuestExit, GuestLeaves, Order, Asked, Answered,
       Builds, AtGuest, OnTheWay, Unread
<1>33. CASE GuestDies
  <2>1. AtGuest' = {}
    BY <1>33, IdsEmpty DEF GuestDies, GuestLeaves, AtGuest
  <2> QED
    BY <1>33, <2>1 DEF GuestDies, GuestLeaves, Order, Asked, Answered,
       Builds, AtGuest, OnTheWay, Unread
<1>34. CASE GuestStopped
  <2>1. AtGuest' = {}
    BY <1>34, IdsEmpty DEF GuestStopped, GuestLeaves, AtGuest
  <2> QED
    BY <1>34, <2>1 DEF GuestStopped, GuestLeaves, Order, Asked, Answered,
       Builds, AtGuest, OnTheWay, Unread
<1>35. CASE GuestPark
  BY <1>35 DEF GuestPark, Busy, Order, Asked, Answered, Builds, AtGuest,
     OnTheWay, Unread
<1>36. CASE GuestWake
  BY <1>36 DEF GuestWake, Order, Asked, Answered, Builds, AtGuest, OnTheWay,
     Unread
<1>37. CASE InstClose
  BY <1>37 DEF InstClose, InstCloses, Order, Asked, Answered, Builds,
     AtGuest, OnTheWay, Unread
<1>38. CASE InstReport
  BY <1>38 DEF InstReport, OrCanceled, Order, Asked, Answered, Builds,
     AtGuest, OnTheWay, Unread
<1>39. CASE UNCHANGED vars
  BY <1>39 DEF Order, Asked, Answered, Builds, AtGuest, OnTheWay, Unread
<1> QED
  BY <1>1, <1>2, <1>3, <1>4, <1>5, <1>6, <1>7, <1>8, <1>9, <1>10, <1>11,
     <1>12, <1>13, <1>14, <1>15, <1>16, <1>17, <1>18, <1>19, <1>20, <1>21,
     <1>22, <1>23, <1>24, <1>25, <1>26, <1>27, <1>28, <1>29, <1>30, <1>31,
     <1>32, <1>33, <1>34, <1>35, <1>36, <1>37, <1>38, <1>39 DEF Next,
     CallerStep, ServeStep,
     GuestStep, InstStep, Finished

LEMMA OutcomeStep == SessionInv /\ [Next]_vars => Outcome'
<1> SUFFICES ASSUME TypeOK, Shape, Order, Outcome, [Next]_vars PROVE Outcome'
  BY DEF SessionInv
<1>1. CASE Cancel
  BY <1>1 DEF Cancel, Outcome, NoOther
<1>2. CASE Refuse
  <2>1. result' \notin {"none", "ok"} /\ caller' = "returned"
    BY <1>2 DEF Refuse, Return
  <2> QED
    BY <1>2, <2>1 DEF Refuse, Outcome, NoOther
<1>3. CASE FirstPipe
  <2>1. \/ result' = "pipe" /\ caller' = "returned"
        \/ result' = result /\ caller' = "half"
    BY <1>3 DEF FirstPipe, Return
  <2>2. caller = "start"
    BY <1>3 DEF FirstPipe
  <2> QED
    BY <1>3, <2>1, <2>2 DEF FirstPipe, Outcome, NoOther
<1>4. CASE SecondPipe
  <2>1. \/ result' = "pipe" /\ caller' = "returned" /\ inst' = inst
        \/ result' = result /\ caller' = "handshake" /\ inst' = "running"
    BY <1>4 DEF SecondPipe
  <2>2. caller = "half" /\ inst = "off"
    BY <1>4 DEF SecondPipe, Shape
  <2> QED
    BY <1>4, <2>1, <2>2 DEF SecondPipe, Outcome, NoOther
<1>5. CASE ReadVersion
  <2>1. KindsIn(toHost', NoOther)
    BY <1>5, KindsFacts DEF ReadVersion, Outcome, TypeOK
  <2>2. KindsIn(gout', NoOther') /\ KindsIn(toHost', NoOther')
    BY <1>5, <2>1 DEF ReadVersion, Outcome, NoOther
  <2>3. serve' # "delivering"
    BY <1>5 DEF ReadVersion, Shape
  <2> QED
    BY <1>5, <2>2, <2>3 DEF ReadVersion, Return, Outcome
<1>6. CASE HandshakeEOF
  <2>1. result' \notin {"none", "ok"} /\ caller' = "returned"
    BY <1>6 DEF HandshakeEOF, Return, OrCanceled
  <2> QED
    BY <1>6, <2>1 DEF HandshakeEOF, Outcome, NoOther
<1>7. CASE LockSend
  BY <1>7 DEF LockSend, Outcome, NoOther
<1>8. CASE PushBuild
  BY <1>8 DEF PushBuild, Outcome, NoOther
<1>9. CASE BuildSent
  BY <1>9 DEF BuildSent, Outcome, NoOther
<1>10. CASE BuildFails
  <2>1. result' \notin {"none", "ok"} /\ caller' = "returned"
    BY <1>10 DEF BuildFails, Return, OrCanceled
  <2> QED
    BY <1>10, <2>1 DEF BuildFails, Outcome, NoOther
<1>11. CASE TakeAnswer
  <2>1. ch = verdict /\ ch' = "none"
    BY <1>11 DEF TakeAnswer, Outcome
  <2>2. /\ result' # "ok" \/ result' = result
        /\ caller' = "checking" => verdict = "built"
        /\ caller' # "closing"
        /\ result' # "none" <=> caller' = "returned"
    BY <1>11, <2>1 DEF TakeAnswer, Return, Outcome
  <2> QED
    BY <1>11, <2>1, <2>2 DEF TakeAnswer, Outcome, NoOther
<1>12. CASE StreamEnds
  <2>1. result' \notin {"none", "ok"} /\ caller' = "returned"
    BY <1>12 DEF StreamEnds, Return, OrCanceled
  <2> QED
    BY <1>12, <2>1 DEF StreamEnds, Outcome, NoOther
<1>13. CASE CheckHost
  <2>1. caller = "checking" /\ verdict = "built" /\ result = "none"
    BY <1>13 DEF CheckHost, Outcome
  <2>2. \/ result' = "broken" /\ caller' = "returned"
        \/ result' = result /\ caller' = "closing" /\ ~broken
    BY <1>13 DEF CheckHost, Return
  <2> QED
    BY <1>13, <2>1, <2>2 DEF CheckHost, Outcome, NoOther
<1>14. CASE TakeDone
  <2>1. result' = "ok" => doneErr = "nil"
    BY <1>14 DEF TakeDone, Return, DoneResult
  <2>2. result' # "none" /\ caller' = "returned" /\ caller = "closing"
    BY <1>14 DEF TakeDone, Return, DoneResult
  <2> QED
    BY <1>14, <2>1, <2>2 DEF TakeDone, Outcome, NoOther
<1>15. CASE CtxDone
  <2>1. result' \notin {"none", "ok"} /\ caller' = "returned"
    BY <1>15 DEF CtxDone, Return
  <2> QED
    BY <1>15, <2>1 DEF CtxDone, Outcome, NoOther
<1>16. CASE ServeRead
  <2>1. /\ KindsIn(toHost', NoOther) /\ Head(toHost).pkt.kind \in NoOther
        /\ Head(toHost).pkt.kind \in FromGuest
    BY <1>16, KindsFacts DEF ServeRead, Outcome, Shape, TypeOK
  <2>2. serve' = "delivering" => serving'.kind = verdict
    BY <1>16, <2>1 DEF ServeRead, Decoded, NoOther, FromGuest
  <2> QED
    BY <1>16, <2>1, <2>2 DEF ServeRead, Outcome, NoOther
<1>17. CASE ServeEOF
  BY <1>17 DEF ServeEOF, Outcome, NoOther
<1>18. CASE ServeAnswer
  <2>1. verdict = "none"
    BY <1>18 DEF ServeAnswer, Order, TypeOK
  <2>2. caller # "closing" /\ result # "ok" /\ serve' = "locking"
    BY <1>18, <2>1 DEF ServeAnswer, Outcome
  <2>3. UNCHANGED <<gout, toHost, ch, caller, result, guest, exit,
                   inst, doneErr, verdict, ctx>>
    BY <1>18 DEF ServeAnswer
  <2>4. caller' # "closing" /\ result' # "ok"
    BY <2>2, <2>3
  <2> QED
    BY <2>2, <2>3, <2>4 DEF Outcome, NoOther
<1>19. CASE ServeLock
  BY <1>19 DEF ServeLock, Outcome, NoOther
<1>20. CASE ServePush
  BY <1>20 DEF ServePush, Outcome, NoOther
<1>21. CASE ServeUnlock
  BY <1>21 DEF ServeUnlock, Outcome, NoOther
<1>22. CASE ServeWriteFails
  BY <1>22 DEF ServeWriteFails, Outcome, NoOther
<1>23. CASE ServeDeliver
  <2>1. ch' \in {ch, verdict}
    BY <1>23 DEF ServeDeliver, Outcome
  <2> QED
    BY <1>23, <2>1 DEF ServeDeliver, Outcome, NoOther
<1>24. CASE GuestStart
  <2>1. KindsIn(gout', NoOther)
    BY <1>24, KindsOfCells, MaxReqAssumption
       DEF GuestStart, GuestWrites, NoOther, Packet, Kinds
  <2> QED
    BY <1>24, <2>1 DEF GuestStart, Outcome, NoOther
<1>25. CASE GuestRefused
  <2>1. KindsIn(gout', NoOther)
    BY <1>25, KindsEmpty DEF GuestRefused, GuestLeaves
  <2>2. /\ exit = "none" /\ exit' # "none" /\ guest' = "ended"
        /\ exit' = "ctx" => ctx = "done"
    BY <1>25 DEF GuestRefused, GuestLeaves, Outcome
  <2> QED
    BY <1>25, <2>1, <2>2 DEF GuestRefused, GuestLeaves, Outcome, NoOther
<1>26. CASE GuestPush
  <2>1. KindsIn(gout', NoOther) /\ KindsIn(toHost', NoOther)
    BY <1>26, KindsFacts, TailFacts DEF GuestPush, Outcome, TypeOK
  <2> QED
    BY <1>26, <2>1 DEF GuestPush, Outcome, NoOther
<1>27. CASE GuestWriteBreaks
  <2>1. KindsIn(gout', NoOther)
    BY <1>27, KindsEmpty DEF GuestWriteBreaks, GuestLeaves
  <2>2. /\ exit = "none" /\ exit' # "none" /\ guest' = "ended"
        /\ exit' = "ctx" => ctx = "done"
    BY <1>27 DEF GuestWriteBreaks, GuestLeaves, Outcome
  <2> QED
    BY <1>27, <2>1, <2>2 DEF GuestWriteBreaks, GuestLeaves, Outcome, NoOther
<1>28. CASE GuestRead
  BY <1>28 DEF GuestRead, Busy, IsLast, Outcome, NoOther
<1>29. CASE GuestAsk
  <2>1. PICK k \in Commands : gout' = Cells([kind |-> k, id |-> sent + 1])
    BY <1>29 DEF GuestAsk, GuestWrites
  <2>2. [kind |-> k, id |-> sent + 1] \in Packet /\ k \in NoOther
    BY <1>29, MaxReqAssumption, CommandsAssumption
       DEF GuestAsk, TypeOK, Packet, Kinds, NoOther
  <2>3. KindsIn(gout', NoOther)
    BY <2>1, <2>2, KindsOfCells
  <2> QED
    BY <1>29, <2>3 DEF GuestAsk, Outcome, NoOther
<1>30. CASE GuestAnswer
  <2>1. verdict = "none" /\ verdict' \in Verdicts /\ toHost' = toHost
    BY <1>30 DEF GuestAnswer
  <2>2. KindsIn(gout', NoOther')
    BY <1>30, KindsOfCells, MaxReqAssumption
       DEF GuestAnswer, GuestWrites, NoOther, Packet, Kinds
  <2>3. NoOther \subseteq NoOther'
    BY <2>1 DEF NoOther
  <2>4. KindsIn(toHost', NoOther')
    BY <2>1, <2>3 DEF KindsIn, Outcome
  <2>5. serve # "delivering" /\ ch = "none" /\ result # "ok"
    BY <2>1 DEF Outcome, Shape, TypeOK
  <2>6. caller \notin {"checking", "closing"}
    BY <2>1 DEF Outcome
  <2> QED
    BY <1>30, <2>2, <2>4, <2>5, <2>6 DEF GuestAnswer, Outcome
<1>31. CASE GuestGarble
  <2>1. KindsIn(gout', NoOther)
    BY <1>31, KindsOfCells, MaxReqAssumption
       DEF GuestGarble, GuestWrites, NoOther, NoPacket, Packet, Kinds
  <2> QED
    BY <1>31, <2>1 DEF GuestGarble, Outcome, NoOther
<1>32. CASE GuestExit
  <2>1. KindsIn(gout', NoOther)
    BY <1>32, KindsEmpty DEF GuestExit, GuestLeaves
  <2>2. /\ exit = "none" /\ exit' # "none" /\ guest' = "ended"
        /\ exit' = "ctx" => ctx = "done"
    BY <1>32 DEF GuestExit, GuestLeaves, Outcome, Busy
  <2> QED
    BY <1>32, <2>1, <2>2 DEF GuestExit, GuestLeaves, Outcome, NoOther
<1>33. CASE GuestDies
  <2>1. KindsIn(gout', NoOther)
    BY <1>33, KindsEmpty DEF GuestDies, GuestLeaves
  <2>2. /\ exit = "none" /\ exit' # "none" /\ guest' = "ended"
        /\ exit' = "ctx" => ctx = "done"
    BY <1>33 DEF GuestDies, GuestLeaves, Outcome, Busy
  <2> QED
    BY <1>33, <2>1, <2>2 DEF GuestDies, GuestLeaves, Outcome, NoOther
<1>34. CASE GuestStopped
  <2>1. KindsIn(gout', NoOther)
    BY <1>34, KindsEmpty DEF GuestStopped, GuestLeaves
  <2>2. /\ exit = "none" /\ exit' # "none" /\ guest' = "ended"
        /\ exit' = "ctx" => ctx = "done"
    BY <1>34 DEF GuestStopped, GuestLeaves, Outcome, Busy
  <2> QED
    BY <1>34, <2>1, <2>2 DEF GuestStopped, GuestLeaves, Outcome, NoOther
<1>35. CASE GuestPark
  BY <1>35 DEF GuestPark, Busy, Outcome, NoOther
<1>36. CASE GuestWake
  BY <1>36 DEF GuestWake, Outcome, NoOther
<1>37. CASE InstClose
  <2>1. inst' = "closed" /\ guest' = "ended"
    BY <1>37 DEF InstClose
  <2>2. doneErr = "none"
    BY <1>37 DEF InstClose, Outcome
  <2> QED
    BY <1>37, <2>1, <2>2 DEF InstClose, Outcome, NoOther
<1>38. CASE InstReport
  <2>1. /\ inst = "closed" /\ inst' = "done"
        /\ doneErr' # "none"
        /\ doneErr' = "nil" => exit = "zero"
        /\ doneErr' = "canceled" => ctx = "done"
        /\ doneErr' = "failed" => exit \notin {"zero", "ctx", "none"}
    BY <1>38 DEF InstReport, OrCanceled, Outcome
  <2>2. doneErr' = "failed" => exit = "failed"
    BY <2>1 DEF TypeOK
  <2> QED
    BY <1>38, <2>1, <2>2 DEF InstReport, Outcome, NoOther
<1>39. CASE UNCHANGED vars
  BY <1>39 DEF Outcome, NoOther
<1> QED
  BY <1>1, <1>2, <1>3, <1>4, <1>5, <1>6, <1>7, <1>8, <1>9, <1>10, <1>11,
     <1>12, <1>13, <1>14, <1>15, <1>16, <1>17, <1>18, <1>19, <1>20, <1>21,
     <1>22, <1>23, <1>24, <1>25, <1>26, <1>27, <1>28, <1>29, <1>30, <1>31,
     <1>32, <1>33, <1>34, <1>35, <1>36, <1>37, <1>38, <1>39 DEF Next,
     CallerStep, ServeStep,
     GuestStep, InstStep, Finished

LEMMA InitInv == Init => SessionInv
<1> SUFFICES ASSUME Init PROVE SessionInv
  OBVIOUS
<1>0. NoPacket \in Packet /\ sent \in 0 .. MaxReq /\ <<>> \in Seq(Cell)
  BY MaxReqAssumption DEF Init, Packet, NoPacket, Kinds
<1>1. TypeOK
  BY <1>0 DEF Init, TypeOK, CallerAt, Results, Ends
<1>2. Shape
  BY KindsEmpty DEF Init, Shape
<1>3. Order
  BY IdsEmpty DEF Init, Order, Asked, Answered, Builds, AtGuest, OnTheWay,
                  Unread, Rising
<1>4. Outcome
  BY KindsEmpty DEF Init, Outcome
<1> QED
  BY <1>1, <1>2, <1>3, <1>4 DEF SessionInv

\* The invariant of the session holds in every state, for every capacity of
\* the pipes, size of a packet and number of requests.
THEOREM SessionInvariant == Spec => []SessionInv
<1>1. SessionInv /\ [Next]_vars => SessionInv'
  BY TypeStep, ShapeStep, OrderStep, OutcomeStep DEF SessionInv
<1> QED
  BY InitInv, <1>1, PTL DEF Spec

\* The typing of the session: no response, however malformed, reaches the
\* caller's channel but one of the three a build can have.
THEOREM Typing == Spec => []TypeOK
<1>1. SessionInv => TypeOK
  BY DEF SessionInv
<1> QED
  BY SessionInvariant, <1>1, PTL

\* A bundle returned without error is a whole one (esbuild.go:164-196).
THEOREM BundleIsComplete == Spec => []SuccessIsComplete
<1>1. SessionInv => SuccessIsComplete
  BY DEF SessionInv, Outcome, Order, SuccessIsComplete
<1> QED
  BY SessionInvariant, <1>1, PTL
\* A context that stopped the guest is what the caller is told
\* (esbuild.go:142, 151-157, 166).
THEOREM CancellationIsNamed == Spec => CancellationNamed
<1> DEFINE Named == (exit = "ctx" /\ result' # result)
                       => result' \notin {"handshake", "send", "guest", "ok"}
<1>1. SessionInv /\ [Next]_vars => [Named]_vars
  <2> SUFFICES ASSUME SessionInv, Next, exit = "ctx", result' # result
               PROVE  result' \notin {"handshake", "send", "guest", "ok"}
    OBVIOUS
  <2>1. /\ ctx = "done"
        /\ doneErr \notin {"nil", "failed"}
    BY DEF SessionInv, Outcome
  <2>2. \/ Refuse \/ FirstPipe \/ SecondPipe \/ ReadVersion \/ HandshakeEOF
        \/ BuildFails \/ TakeAnswer \/ StreamEnds \/ CheckHost \/ TakeDone
        \/ CtxDone
    <3>1. result' = result \/ CallerStep
      BY DEF Next, Cancel, ServeStep, ServeRead, ServeEOF, ServeAnswer,
             ServeLock, ServePush, ServeUnlock, ServeWriteFails, ServeDeliver,
             GuestStep, GuestStart, GuestRefused, GuestPush, GuestWriteBreaks,
             GuestRead, GuestAsk, GuestAnswer, GuestGarble, GuestExit,
             GuestDies, GuestStopped, GuestPark, GuestWake, InstStep,
             InstClose, InstReport, Finished
    <3>2. ~LockSend /\ ~PushBuild /\ ~BuildSent
      BY DEF LockSend, PushBuild, BuildSent
    <3> QED
      BY <3>1, <3>2 DEF CallerStep
  <2>3. TakeDone => result' = "canceled"
    <3>1. doneErr # "none" => doneErr = "canceled"
      BY <2>1 DEF SessionInv, TypeOK
    <3> QED
      BY <2>1, <3>1 DEF TakeDone, Return, DoneResult, SessionInv, Outcome
  <2> QED
    BY <2>1, <2>2, <2>3 DEF Refuse, FirstPipe, SecondPipe, ReadVersion,
       HandshakeEOF, BuildFails, TakeAnswer, StreamEnds, CheckHost, CtxDone,
       Return, OrCanceled
<1> QED
  BY SessionInvariant, <1>1, PTL DEF Spec, CancellationNamed

LEMMA PromiseReturn ==
    ASSUME NEW r, result = "none", result' = r,
           UNCHANGED <<ctx, verdict, broken, exit>>,
           \/ r \in {"refused", "pipe"} /\ verdict = "none" /\ exit = "none"
           \/ r = "version" /\ verdict = "none"
           \/ r = "canceled" /\ ctx = "done"
           \/ r \in {"handshake", "send"} /\ ctx = "live"
           \/ r = "refusedBuild" /\ verdict = "refusal"
           \/ r = "stray" /\ verdict = "stray"
           \/ r = "broken" /\ verdict = "built" /\ broken
           \/ r = "guest" /\ verdict = "built" /\ exit = "failed"
           \/ r = "ok" /\ verdict = "built" /\ ~broken /\ exit = "zero"
    PROVE  Promise!Next
BY DEF Promise!Next, Promise!Return, Promise!Allowed

LEMMA PromiseStep == SessionInv /\ [Next]_vars => [Promise!Next]_(Promise!vars)
<1> SUFFICES ASSUME SessionInv, [Next]_vars PROVE [Promise!Next]_(Promise!vars)
  OBVIOUS
<1>1. CASE Cancel
  BY <1>1 DEF Cancel, Promise!Next, Promise!Cancel
<1>2. CASE Refuse
  <2>1. result' = "refused" /\ verdict = "none" /\ exit = "none"
    BY <1>2 DEF Refuse, Return, SessionInv, Shape, Outcome
  <2>2. result = "none" /\ UNCHANGED <<ctx, verdict, broken, exit>>
    BY <1>2 DEF Refuse, SessionInv, Outcome
  <2> QED
    BY <2>1, <2>2, PromiseReturn
<1>3. CASE FirstPipe
  <2>1. result' = result \/ (result' = "pipe" /\ verdict = "none" /\ exit = "none")
    BY <1>3 DEF FirstPipe, Return, SessionInv, Shape, Outcome
  <2>2. result = "none" /\ UNCHANGED <<ctx, verdict, broken, exit>>
    BY <1>3 DEF FirstPipe, SessionInv, Outcome
  <2> QED
    BY <2>1, <2>2, PromiseReturn DEF Promise!vars
<1>4. CASE SecondPipe
  <2>1. result' = result \/ (result' = "pipe" /\ verdict = "none" /\ exit = "none")
    BY <1>4 DEF SecondPipe, SessionInv, Shape, Outcome
  <2>2. result = "none" /\ UNCHANGED <<ctx, verdict, broken, exit>>
    BY <1>4 DEF SecondPipe, SessionInv, Outcome
  <2> QED
    BY <2>1, <2>2, PromiseReturn DEF Promise!vars
<1>5. CASE ReadVersion
  <2>1. result' = result \/ (result' = "version" /\ verdict = "none")
    BY <1>5 DEF ReadVersion, Return, SessionInv, Shape, Outcome
  <2>2. result = "none" /\ UNCHANGED <<ctx, verdict, broken, exit>>
    BY <1>5 DEF ReadVersion, SessionInv, Outcome
  <2> QED
    BY <2>1, <2>2, PromiseReturn DEF Promise!vars
<1>6. CASE HandshakeEOF
  <2>1. \/ result' = "canceled" /\ ctx = "done"
        \/ result' = "handshake" /\ ctx = "live"
    BY <1>6 DEF HandshakeEOF, Return, OrCanceled, TypeOK, SessionInv, Shape,
       Outcome
  <2>2. result = "none" /\ UNCHANGED <<ctx, verdict, broken, exit>>
    BY <1>6 DEF HandshakeEOF, SessionInv, Outcome
  <2> QED
    BY <2>1, <2>2, PromiseReturn
<1>7. CASE LockSend
  BY <1>7 DEF LockSend, Promise!vars
<1>8. CASE PushBuild
  BY <1>8 DEF PushBuild, Promise!vars
<1>9. CASE BuildSent
  BY <1>9 DEF BuildSent, Promise!vars
<1>10. CASE BuildFails
  <2>1. \/ result' = "canceled" /\ ctx = "done"
        \/ result' = "send" /\ ctx = "live"
    BY <1>10 DEF BuildFails, Return, OrCanceled, TypeOK, SessionInv, Shape,
       Outcome
  <2>2. result = "none" /\ UNCHANGED <<ctx, verdict, broken, exit>>
    BY <1>10 DEF BuildFails, SessionInv, Outcome
  <2> QED
    BY <2>1, <2>2, PromiseReturn
<1>11. CASE TakeAnswer
  <2>1. \/ result' = result
        \/ result' = "refusedBuild" /\ verdict = "refusal"
        \/ result' = "stray" /\ verdict = "stray"
    BY <1>11 DEF TakeAnswer, Return, SessionInv, Shape, Outcome
  <2>2. result = "none" /\ UNCHANGED <<ctx, verdict, broken, exit>>
    BY <1>11 DEF TakeAnswer, SessionInv, Outcome
  <2> QED
    BY <2>1, <2>2, PromiseReturn DEF Promise!vars
<1>12. CASE StreamEnds
  <2>1. \/ result' = "canceled" /\ ctx = "done"
        \/ result' = "send" /\ ctx = "live"
    BY <1>12 DEF StreamEnds, Return, OrCanceled, TypeOK, SessionInv, Shape,
       Outcome
  <2>2. result = "none" /\ UNCHANGED <<ctx, verdict, broken, exit>>
    BY <1>12 DEF StreamEnds, SessionInv, Outcome
  <2> QED
    BY <2>1, <2>2, PromiseReturn
<1>13. CASE CheckHost
  <2>1. \/ result' = result
        \/ result' = "broken" /\ verdict = "built" /\ broken
    BY <1>13 DEF CheckHost, Return, SessionInv, Shape, Outcome
  <2>2. result = "none" /\ UNCHANGED <<ctx, verdict, broken, exit>>
    BY <1>13 DEF CheckHost, SessionInv, Outcome
  <2> QED
    BY <2>1, <2>2, PromiseReturn DEF Promise!vars
<1>14. CASE TakeDone
  <2>1. /\ verdict = "built" /\ ~broken /\ result = "none"
        /\ doneErr \in {"nil", "canceled", "failed"}
        /\ doneErr = "nil" => exit = "zero"
        /\ doneErr = "canceled" => ctx = "done"
        /\ doneErr = "failed" => exit = "failed"
    BY <1>14 DEF TakeDone, SessionInv, Outcome, TypeOK
  <2>2. \/ result' = "ok" /\ doneErr = "nil"
        \/ result' = "canceled" /\ doneErr = "canceled"
        \/ result' = "guest" /\ doneErr = "failed"
    BY <1>14, <2>1 DEF TakeDone, Return, DoneResult
  <2>3. UNCHANGED <<ctx, verdict, broken, exit>>
    BY <1>14 DEF TakeDone
  <2> QED
    BY <2>1, <2>2, <2>3, PromiseReturn
<1>15. CASE CtxDone
  <2>1. result' = "canceled" /\ ctx = "done"
    BY <1>15 DEF CtxDone, Return, SessionInv, Shape, Outcome
  <2>2. result = "none" /\ UNCHANGED <<ctx, verdict, broken, exit>>
    BY <1>15 DEF CtxDone, SessionInv, Outcome
  <2> QED
    BY <2>1, <2>2, PromiseReturn
<1>16. CASE ServeRead
  BY <1>16 DEF ServeRead, Promise!vars
<1>17. CASE ServeEOF
  BY <1>17 DEF ServeEOF, Promise!vars
<1>18. CASE ServeAnswer
  <2>1. verdict = "none"
    BY <1>18 DEF ServeAnswer, SessionInv, Order, TypeOK
  <2>2. broken' = broken \/ broken' = TRUE
    <3>1. PICK a \in Answers(serving.kind) : broken' = (broken \/ a = "fail")
      BY <1>18 DEF ServeAnswer
    <3>2. broken \in BOOLEAN
      BY DEF SessionInv, TypeOK
    <3>3. CASE a = "fail"
      BY <3>1, <3>3
    <3>4. CASE a # "fail"
      BY <3>1, <3>2, <3>4
    <3> QED
      BY <3>3, <3>4
  <2>3. UNCHANGED <<ctx, verdict, exit, result>>
    BY <1>18 DEF ServeAnswer
  <2> QED
    BY <2>1, <2>2, <2>3 DEF Promise!Next, Promise!Taint, Promise!vars
<1>19. CASE ServeLock
  BY <1>19 DEF ServeLock, Promise!vars
<1>20. CASE ServePush
  BY <1>20 DEF ServePush, Promise!vars
<1>21. CASE ServeUnlock
  BY <1>21 DEF ServeUnlock, Promise!vars
<1>22. CASE ServeWriteFails
  BY <1>22 DEF ServeWriteFails, Promise!vars
<1>23. CASE ServeDeliver
  BY <1>23 DEF ServeDeliver, Promise!vars
<1>24. CASE GuestStart
  BY <1>24 DEF GuestStart, Promise!vars
<1>25. CASE GuestRefused
  <2>1. exit = "none"
    BY <1>25 DEF GuestRefused, Busy, SessionInv, Outcome
  <2> QED
    BY <1>25, <2>1 DEF GuestRefused, GuestLeaves, Promise!Next, Promise!Leave
<1>26. CASE GuestPush
  BY <1>26 DEF GuestPush, Promise!vars
<1>27. CASE GuestWriteBreaks
  <2>1. exit = "none"
    BY <1>27 DEF GuestWriteBreaks, Busy, SessionInv, Outcome
  <2> QED
    BY <1>27, <2>1 DEF GuestWriteBreaks, GuestLeaves, Promise!Next,
       Promise!Leave
<1>28. CASE GuestRead
  BY <1>28 DEF GuestRead, Promise!vars
<1>29. CASE GuestAsk
  BY <1>29 DEF GuestAsk, Promise!vars
<1>30. CASE GuestAnswer
  <2>1. exit = "none"
    BY <1>30 DEF GuestAnswer, Busy, SessionInv, Outcome
  <2> QED
    BY <1>30, <2>1 DEF GuestAnswer, Promise!Next, Promise!Decide
<1>31. CASE GuestGarble
  BY <1>31 DEF GuestGarble, Promise!vars
<1>32. CASE GuestExit
  <2>1. exit = "none"
    BY <1>32 DEF GuestExit, Busy, SessionInv, Outcome
  <2> QED
    BY <1>32, <2>1 DEF GuestExit, GuestLeaves, Promise!Next, Promise!Leave
<1>33. CASE GuestDies
  <2>1. exit = "none"
    BY <1>33 DEF GuestDies, Busy, SessionInv, Outcome
  <2> QED
    BY <1>33, <2>1 DEF GuestDies, GuestLeaves, Promise!Next, Promise!Leave
<1>34. CASE GuestStopped
  <2>1. exit = "none"
    BY <1>34 DEF GuestStopped, Busy, SessionInv, Outcome
  <2> QED
    BY <1>34, <2>1 DEF GuestStopped, GuestLeaves, Promise!Next, Promise!Leave
<1>35. CASE GuestPark
  BY <1>35 DEF GuestPark, Promise!vars
<1>36. CASE GuestWake
  BY <1>36 DEF GuestWake, Promise!vars
<1>37. CASE InstClose
  BY <1>37 DEF InstClose, Promise!vars
<1>38. CASE InstReport
  BY <1>38 DEF InstReport, Promise!vars
<1>39. CASE UNCHANGED vars
  BY <1>39 DEF Promise!vars
<1> QED
  BY <1>1, <1>2, <1>3, <1>4, <1>5, <1>6, <1>7, <1>8, <1>9, <1>10, <1>11,
     <1>12, <1>13, <1>14, <1>15, <1>16, <1>17, <1>18, <1>19, <1>20, <1>21,
     <1>22, <1>23, <1>24, <1>25, <1>26, <1>27, <1>28, <1>29, <1>30, <1>31,
     <1>32, <1>33, <1>34, <1>35, <1>36, <1>37, <1>38, <1>39 DEF Next,
     CallerStep, ServeStep,
     GuestStep, InstStep, Finished

\* The call implements what it promises: every result is backed by what the
\* guest and the project did when it is returned (compile.go:226-231).
THEOREM PromiseIsKept == Spec => PromiseKept
<1>1. Init => Promise!Init
  BY DEF Init, Promise!Init
<1> QED
  BY SessionInvariant, PromiseStep, <1>1, PTL DEF Spec, PromiseKept,
     Promise!Spec

-----------------------------------------------------------------------------
(* No request is lost and none answered twice.  SessionInv keeps the places  *)
(* a request may be in apart; what is added here follows each cell of an     *)
(* answer across the pipe.                                                   *)

(***************************************************************************)
(* What a cell adds to the requests of a sequence, and takes from them.    *)
(***************************************************************************)
Adds(c, kinds) == {r \in {c.pkt.id} : c.pkt.kind \in kinds}

LEMMA NoCells == \A s \in Seq(Cell) : s = <<>> <=> Len(s) = 0
OBVIOUS

LEMMA IdsSplit ==
    ASSUME NEW s \in Seq(Cell), s # <<>>, NEW kinds
    PROVE  Ids(s, kinds) = Adds(Head(s), kinds) \cup Ids(Tail(s), kinds)
<1>1. ASSUME NEW r \in Ids(s, kinds)
      PROVE  r \in Adds(Head(s), kinds) \cup Ids(Tail(s), kinds)
  <2>1. PICK i \in DOMAIN s : s[i].pkt.kind \in kinds /\ s[i].pkt.id = r
    BY DEF Ids
  <2>2. CASE i = 1
    BY <2>1, <2>2, TailFacts DEF Adds
  <2>3. CASE i # 1
    <3>1. i - 1 \in DOMAIN Tail(s) /\ Tail(s)[i - 1] = s[i]
      BY <2>3
    <3> QED
      BY <2>1, <3>1 DEF Ids
  <2> QED
    BY <2>2, <2>3
<1> QED
  BY <1>1, IdsTail DEF Adds

LEMMA IdsGrow ==
    ASSUME NEW s \in Seq(Cell), NEW c \in Cell, NEW kinds
    PROVE  Ids(Append(s, c), kinds) = Ids(s, kinds) \cup Adds(c, kinds)
<1>1. ASSUME NEW r \in Ids(s, kinds) PROVE r \in Ids(Append(s, c), kinds)
  <2>1. PICK i \in DOMAIN s : s[i].pkt.kind \in kinds /\ s[i].pkt.id = r
    BY DEF Ids
  <2>2. i \in DOMAIN Append(s, c) /\ Append(s, c)[i] = s[i]
    OBVIOUS
  <2> QED
    BY <2>1, <2>2 DEF Ids
<1>2. c.pkt.kind \in kinds => c.pkt.id \in Ids(Append(s, c), kinds)
  <2>1. Len(s) + 1 \in DOMAIN Append(s, c) /\ Append(s, c)[Len(s) + 1] = c
    OBVIOUS
  <2> QED
    BY <2>1 DEF Ids
<1> QED
  BY <1>1, <1>2, IdsAppend DEF Adds

LEMMA IdsOfCells ==
    ASSUME NEW p \in Packet, NEW kinds
    PROVE  Ids(Cells(p), kinds) = {r \in {p.id} : p.kind \in kinds}
<1>1. 1 \in DOMAIN Cells(p)
  BY BigCellsAssumption DEF Cells, Size
<1>2. p.kind \in kinds => p.id \in Ids(Cells(p), kinds)
  BY <1>1, CellsFacts DEF Ids
<1> QED
  BY <1>2, IdsCells

\* A sequence of other kinds holds none of these.
LEMMA IdsNone ==
    ASSUME NEW s \in Seq(Cell), NEW kinds, NEW others, KindsIn(s, others),
           kinds \cap others = {}
    PROVE  Ids(s, kinds) = {}
BY DEF Ids, KindsIn

(***************************************************************************)
(* What follows a cell of an answer.                                       *)
(***************************************************************************)
LEMMA AfterHead ==
    ASSUME NEW s \in Seq(Cell), s # <<>>
    PROVE  /\ After(s, 1) = Ids(Tail(s), Replies)
           /\ \A i \in DOMAIN Tail(s) : After(Tail(s), i) = After(s, i + 1)
<1>1. ASSUME NEW i \in Nat, NEW r \in After(s, i + 1)
      PROVE  \E j \in DOMAIN Tail(s) : /\ i < j /\ Tail(s)[j].pkt.kind \in Replies
                                       /\ Tail(s)[j].pkt.id = r
  <2>1. PICK j \in DOMAIN s :
            i + 1 < j /\ s[j].pkt.kind \in Replies /\ s[j].pkt.id = r
    BY DEF After
  <2>2. j - 1 \in DOMAIN Tail(s) /\ Tail(s)[j - 1] = s[j] /\ i < j - 1
    BY <2>1
  <2> QED
    BY <2>1, <2>2
<1>2. ASSUME NEW i \in Nat, NEW j \in DOMAIN Tail(s), i < j,
             Tail(s)[j].pkt.kind \in Replies
      PROVE  Tail(s)[j].pkt.id \in After(s, i + 1)
  <2>1. j + 1 \in DOMAIN s /\ Tail(s)[j] = s[j + 1] /\ i + 1 < j + 1
    BY <1>2, TailFacts
  <2> QED
    BY <1>2, <2>1 DEF After
<1>3. After(s, 1) = Ids(Tail(s), Replies)
  <2>1. \A j \in DOMAIN Tail(s) : 0 < j
    BY TailFacts
  <2>2. 0 \in Nat /\ 0 + 1 = 1
    OBVIOUS
  <2>3. ASSUME NEW r \in After(s, 1) PROVE r \in Ids(Tail(s), Replies)
    BY <1>1, <2>2 DEF Ids
  <2>4. ASSUME NEW r \in Ids(Tail(s), Replies) PROVE r \in After(s, 1)
    BY <1>2, <2>1, <2>2 DEF Ids
  <2> QED
    BY <2>3, <2>4
<1>4. ASSUME NEW i \in DOMAIN Tail(s) PROVE After(Tail(s), i) = After(s, i + 1)
  <2>1. i \in Nat
    BY TailFacts
  <2>2. ASSUME NEW r \in After(s, i + 1) PROVE r \in After(Tail(s), i)
    BY <1>1, <2>1 DEF After
  <2>3. ASSUME NEW r \in After(Tail(s), i) PROVE r \in After(s, i + 1)
    BY <1>2, <2>1 DEF After
  <2> QED
    BY <2>2, <2>3
<1> QED
  BY <1>3, <1>4

LEMMA AfterAppend ==
    ASSUME NEW s \in Seq(Cell), NEW c \in Cell
    PROVE  /\ \A i \in DOMAIN s :
                 After(Append(s, c), i) = After(s, i) \cup Adds(c, Replies)
           /\ After(Append(s, c), Len(s) + 1) = {}
<1>1. ASSUME NEW i \in DOMAIN s, NEW r \in After(s, i)
      PROVE  r \in After(Append(s, c), i)
  <2>1. PICK j \in DOMAIN s :
            i < j /\ s[j].pkt.kind \in Replies /\ s[j].pkt.id = r
    BY DEF After
  <2>2. j \in DOMAIN Append(s, c) /\ Append(s, c)[j] = s[j]
    OBVIOUS
  <2> QED
    BY <2>1, <2>2 DEF After
<1>2. ASSUME NEW i \in DOMAIN s, c.pkt.kind \in Replies
      PROVE  c.pkt.id \in After(Append(s, c), i)
  <2>1. /\ Len(s) + 1 \in DOMAIN Append(s, c) /\ i < Len(s) + 1
        /\ Append(s, c)[Len(s) + 1] = c
    OBVIOUS
  <2> QED
    BY <1>2, <2>1 DEF After
<1>3. ASSUME NEW i \in DOMAIN s, NEW r \in After(Append(s, c), i)
      PROVE  r \in After(s, i) \cup Adds(c, Replies)
  <2>1. PICK j \in DOMAIN Append(s, c) :
            /\ i < j /\ Append(s, c)[j].pkt.kind \in Replies
            /\ Append(s, c)[j].pkt.id = r
    BY DEF After
  <2> QED
    BY <2>1, AppendFacts DEF After, Adds
<1>4. After(Append(s, c), Len(s) + 1) = {}
  BY AppendFacts DEF After
<1> QED
  BY <1>1, <1>2, <1>3, <1>4 DEF Adds

LEMMA ContinuesTail ==
    ASSUME NEW s \in Seq(Cell), s # <<>>, NEW rest, Continues(s, rest)
    PROVE  /\ Continues(Tail(s), rest)
           /\ Head(s).pkt.kind \in Replies =>
                (Head(s).pkt.id \in Ids(Tail(s), Replies) \cup rest
                     <=> ~IsLast(Head(s)))
<1>1. ASSUME NEW i \in DOMAIN Tail(s), Tail(s)[i].pkt.kind \in Replies
      PROVE  Tail(s)[i].pkt.id \in After(Tail(s), i) \cup rest <=> ~IsLast(Tail(s)[i])
  <2>1. i + 1 \in DOMAIN s /\ Tail(s)[i] = s[i + 1]
    BY TailFacts
  <2>2. After(Tail(s), i) = After(s, i + 1)
    BY AfterHead
  <2> QED
    BY <1>1, <2>1, <2>2 DEF Continues
<1>2. Head(s) = s[1] /\ 1 \in DOMAIN s
  BY TailFacts
<1> QED
  BY <1>1, <1>2, AfterHead DEF Continues

\* A cell of the caller's, between those of an answer or not.
LEMMA ContinuesOther ==
    ASSUME NEW s \in Seq(Cell), NEW c \in Cell, NEW rest, Continues(s, rest),
           c.pkt.kind \notin Replies
    PROVE  Continues(Append(s, c), rest)
<1> SUFFICES ASSUME NEW i \in DOMAIN Append(s, c),
                    Append(s, c)[i].pkt.kind \in Replies
             PROVE  Append(s, c)[i].pkt.id \in After(Append(s, c), i) \cup rest
                        <=> ~IsLast(Append(s, c)[i])
  BY DEF Continues
<1>1. i \in DOMAIN s /\ Append(s, c)[i] = s[i]
  BY AppendFacts
<1>2. Adds(c, Replies) = {}
  BY DEF Adds
<1>3. After(Append(s, c), i) = After(s, i)
  <2>1. After(Append(s, c), i) = After(s, i) \cup Adds(c, Replies)
    BY <1>1, AfterAppend
  <2> QED
    BY <1>2, <2>1
<1> QED
  BY <1>1, <1>3 DEF Continues

\* The next cell of the one answer being written.
LEMMA ContinuesNext ==
    ASSUME NEW s \in Seq(Cell), NEW c \in Cell, c.pkt.kind \in Replies,
           Continues(s, {c.pkt.id})
    PROVE  Continues(Append(s, c), IF IsLast(c) THEN {} ELSE {c.pkt.id})
<1> DEFINE rest == IF IsLast(c) THEN {} ELSE {c.pkt.id}
<1> SUFFICES ASSUME NEW i \in DOMAIN Append(s, c),
                    Append(s, c)[i].pkt.kind \in Replies
             PROVE  Append(s, c)[i].pkt.id \in After(Append(s, c), i) \cup rest
                        <=> ~IsLast(Append(s, c)[i])
  BY DEF Continues
<1>1. CASE i \in DOMAIN s /\ Append(s, c)[i] = s[i]
  <2>1. After(Append(s, c), i) \cup rest = After(s, i) \cup {c.pkt.id}
    BY <1>1, AfterAppend DEF Adds
  <2> QED
    BY <1>1, <2>1 DEF Continues
<1>2. CASE i = Len(s) + 1 /\ Append(s, c)[i] = c
  BY <1>2, AfterAppend
<1> QED
  BY <1>1, <1>2, AppendFacts

\* An answer that nothing has been written of.
LEMMA ContinuesNew ==
    ASSUME NEW s \in Seq(Cell), NEW r, Continues(s, {}), r \notin Ids(s, Replies)
    PROVE  Continues(s, {r})
BY DEF Continues, Ids

(***************************************************************************)
(* Every step keeps each request somewhere.                                *)
(***************************************************************************)
Requests == Up => Framed /\ owed = Somewhere

\* A session that is down stays down.
LEMMA UpStep == SessionInv /\ [Next]_vars /\ Up' => Up
<1> SUFFICES ASSUME SessionInv, [Next]_vars, Up' PROVE Up
  OBVIOUS
<1>1. CASE CallerStep
  BY <1>1 DEF SessionInv, Shape, Up, CallerStep, Refuse, FirstPipe, SecondPipe, ReadVersion,
     HandshakeEOF, LockSend, PushBuild, BuildSent, BuildFails, TakeAnswer,
     StreamEnds, CheckHost, TakeDone, CtxDone, Return
<1>2. CASE ServeStep
  BY <1>2 DEF Up, ServeStep, ServeRead, ServeEOF, ServeAnswer, ServeLock,
     ServePush, ServeUnlock, ServeWriteFails, ServeDeliver
<1>3. CASE GuestStep
  BY <1>3 DEF Up, GuestStep, GuestStart, GuestRefused, GuestPush,
     GuestWriteBreaks, GuestRead, GuestAsk, GuestAnswer, GuestGarble,
     GuestExit, GuestDies, GuestStopped, GuestPark, GuestWake, GuestLeaves, Busy
<1>4. CASE Cancel \/ InstStep \/ UNCHANGED vars
  BY <1>4 DEF Up, Cancel, InstStep, InstClose, InstReport
<1> QED
  BY <1>1, <1>2, <1>3, <1>4 DEF Next, Finished

\* A step that moves no packet keeps every request where it is.
LEMMA StandStill ==
    ASSUME Requests, Up,
           UNCHANGED <<gout, toHost, serve, serving, serveOut, toGuest, owed>>
    PROVE  Framed' /\ owed' = Somewhere'
<1>1. Framed /\ owed = Somewhere
  BY DEF Requests
<1>2. Framed'
  BY <1>1 DEF Framed, InOneCell, RestOfAnswer, Continues, After, Unsent, Unread, Ids
<1>3. Somewhere' = Somewhere
  BY DEF Somewhere, AtGuest, OnTheWay, AtHost, Unsent, Unread, Ids
<1> QED
  BY <1>1, <1>2, <1>3

\* The four places are apart: what is asked is younger than what is answered.
LEMMA PlacesApart ==
    ASSUME SessionInv, Requests, Up
    PROVE  /\ AtGuest \cap OnTheWay = {}
           /\ (AtGuest \cup OnTheWay) \cap AtHost = {}
           /\ (AtGuest \cup OnTheWay) \cap (Unsent \cup Unread) = {}
           /\ AtHost \cap (Unsent \cup Unread) = {}
<1>1. /\ gout \in Seq(Cell) /\ toHost \in Seq(Cell) /\ toGuest \in Seq(Cell)
      /\ serveOut \in Seq(Cell) /\ Order
  BY DEF SessionInv, TypeOK
<1>2. /\ AtGuest \subseteq Nat /\ OnTheWay \subseteq Nat /\ Unread \subseteq Nat
      /\ Ids(serveOut, Replies) \subseteq Nat
  BY <1>1, IdsNat DEF AtGuest, OnTheWay, Unread
<1>3. Unsent \subseteq Ids(serveOut, Replies)
  BY DEF Unsent
<1>4. AtGuest \cap OnTheWay = {}
  BY <1>1, <1>2 DEF Order
<1>5. (AtGuest \cup OnTheWay) \cap (Ids(serveOut, Replies) \cup Unread) = {}
  <2>1. ASSUME NEW r \in AtGuest \cup OnTheWay, r \in Ids(serveOut, Replies) \cup Unread
        PROVE  FALSE
    <3>1. r < r
      BY <1>1, <2>1 DEF Order, Asked, Answered
    <3>2. r \in Nat
      BY <1>2
    <3> QED
      BY <3>1, <3>2
  <2> QED
    BY <2>1
<1>6. ASSUME serve = "answering"
      PROVE  /\ serving.id \notin AtGuest \cup OnTheWay
             /\ serving.id \notin Unread
  <2>1. serving.id \in Nat
    BY DEF SessionInv, TypeOK, Packet
  <2> QED
    BY <1>1, <1>2, <1>6, <2>1 DEF Order, Asked, Answered
<1>7. ASSUME serve = "locking"
      PROVE  /\ serving.id \notin AtGuest \cup OnTheWay
             /\ serving.id \notin Unread
  <2>1. serveOut # <<>> /\ RestOfAnswer /\ serving.id \notin Unread
    BY <1>7 DEF Requests, Framed
  <2>2. 1 \in DOMAIN serveOut /\ KindsIn(serveOut, Replies)
    BY <1>1, <2>1 DEF SessionInv, Shape
  <2>3. serving.id \in Ids(serveOut, Replies)
    BY <2>1, <2>2 DEF RestOfAnswer, KindsIn, Ids
  <2> QED
    BY <1>5, <2>1, <2>3
<1>8. AtHost # {} => AtHost = {serving.id} /\ Unsent = {}
  BY DEF AtHost, Unsent
<1>9. AtHost # {} => serve \in {"answering", "locking"}
  BY DEF AtHost
<1> QED
  BY <1>3, <1>4, <1>5, <1>6, <1>7, <1>8, <1>9

LEMMA RequestsCaller ==
    ASSUME SessionInv, Requests, Up, Up', CallerStep
    PROVE  Framed' /\ owed' = Somewhere'
<1> USE DEF Requests
<1>1. CASE \/ Refuse \/ FirstPipe \/ SecondPipe \/ HandshakeEOF \/ LockSend
           \/ BuildSent \/ BuildFails \/ TakeAnswer \/ StreamEnds \/ CheckHost
           \/ TakeDone \/ CtxDone
  BY <1>1, StandStill DEF Refuse, FirstPipe, SecondPipe, HandshakeEOF, LockSend,
     BuildSent, BuildFails, TakeAnswer, StreamEnds, CheckHost, TakeDone, CtxDone
<1>2. CASE ReadVersion
  <2>1. /\ toHost \in Seq(Cell) /\ toHost # <<>> /\ toHost' = Tail(toHost)
        /\ Head(toHost).pkt.kind = "version"
        /\ serve = "off" /\ serve' = "reading"
        /\ UNCHANGED <<gout, serving, serveOut, toGuest, owed>>
    BY <1>2 DEF ReadVersion, SessionInv, TypeOK, Shape, Up, Return
  <2>2. toGuest = <<>> /\ gout \in Seq(Cell) /\ Len(gout) + Len(toHost) <= 1
    BY <2>1 DEF SessionInv, Shape, TypeOK
  <2>3. gout = <<>> /\ Tail(toHost) = <<>>
    BY <2>1, <2>2, TailFacts
  <2>4. Adds(Head(toHost), Commands) = {}
    BY <2>1, CommandsAssumption DEF Adds
  <2>5. OnTheWay' = {} /\ OnTheWay = {}
    BY <2>1, <2>3, <2>4, IdsSplit, IdsEmpty DEF OnTheWay
  <2>6. Somewhere' = Somewhere
    BY <2>1, <2>5 DEF Somewhere, AtGuest, AtHost, Unsent, Unread
  <2>7. Framed'
    BY <2>1, <2>2, <2>3 DEF Framed, InOneCell, Continues
  <2> QED
    BY <2>1, <2>6, <2>7
<1>3. CASE PushBuild
  <2>1. /\ callerOut \in Seq(Cell) /\ callerOut # <<>> /\ toGuest \in Seq(Cell)
        /\ KindsIn(callerOut, {"build"})
        /\ toGuest' = Append(toGuest, Head(callerOut))
        /\ UNCHANGED <<gout, toHost, serve, serving, serveOut, owed>>
    BY <1>3 DEF PushBuild, SessionInv, TypeOK, Shape
  <2>2. Head(callerOut) \in Cell /\ Head(callerOut).pkt.kind \notin Replies
    BY <2>1, TailFacts, KindsFacts
  <2>3. Adds(Head(callerOut), Replies) = {}
    BY <2>2 DEF Adds
  <2>4. Unread' = Unread /\ Unsent' = Unsent
    <3>1. Ids(toGuest', Replies) = Ids(toGuest, Replies) \cup Adds(Head(callerOut), Replies)
      BY <2>1, <2>2, IdsGrow
    <3> QED
      BY <2>1, <2>3, <3>1 DEF Unread, Unsent
  <2>5. Continues(toGuest', Unsent')
    BY <2>1, <2>2, <2>4, ContinuesOther DEF Framed
  <2>6. Framed'
    BY <2>1, <2>4, <2>5 DEF Framed, InOneCell, RestOfAnswer
  <2>7. Somewhere' = Somewhere
    BY <2>1, <2>4 DEF Somewhere, AtGuest, OnTheWay, AtHost
  <2> QED
    BY <2>1, <2>6, <2>7
<1> QED
  BY <1>1, <1>2, <1>3 DEF CallerStep

LEMMA RequestsServe ==
    ASSUME SessionInv, Requests, Up, Up', ServeStep
    PROVE  Framed' /\ owed' = Somewhere'
<1> USE DEF Requests
<1>1. CASE ServeEOF \/ ServeWriteFails
  BY <1>1 DEF ServeEOF, ServeWriteFails, Up
<1>2. CASE ServeRead
  <2> DEFINE c == Head(toHost)
  <2>1. /\ toHost \in Seq(Cell) /\ toHost # <<>> /\ toHost' = Tail(toHost)
        /\ serve = "reading" /\ Rising(toHost) /\ KindsIn(toHost, FromGuest)
        /\ UNCHANGED <<gout, serveOut, toGuest, owed>>
    BY <1>2 DEF ServeRead, SessionInv, TypeOK, Order, Shape
  <2>2. c \in Cell /\ c.pkt.kind \in FromGuest
    BY <2>1, TailFacts, KindsFacts
  <2>3. OnTheWay = Adds(c, Commands) \cup OnTheWay'
    BY <2>1, IdsSplit DEF OnTheWay
  <2>4. Unsent' = {} /\ Unsent = {} /\ AtHost = {} /\ serve' \notin {"locking", "writing"}
    BY <1>2 DEF ServeRead, Decoded, Unsent, AtHost
  <2>5. InOneCell(toHost')
    BY <2>1, TailFacts DEF Framed, InOneCell
  <2>6. Framed'
    BY <2>1, <2>4, <2>5 DEF Framed, InOneCell
  <2>7. AtHost' = Adds(c, Commands)
    <3>1. CASE ~IsLast(c)
      <4>1. c.pkt.kind \notin Commands
        BY <2>1, <3>1, TailFacts DEF Framed, InOneCell
      <4>2. serve' = "reading"
        BY <1>2, <3>1 DEF ServeRead
      <4> QED
        BY <4>1, <4>2 DEF AtHost, Adds
    <3>2. CASE IsLast(c)
      <4>1. serving' = c.pkt /\ serve' = Decoded(c.pkt)
        BY <1>2, <3>2 DEF ServeRead
      <4>2. c.pkt.kind # "garbage"
        BY <4>1, CommandsAssumption DEF Decoded, Up
      <4>3. CASE c.pkt.kind \in Commands
        BY <4>1, <4>2, <4>3 DEF Decoded, AtHost, Adds
      <4>4. CASE c.pkt.kind \notin Commands
        BY <4>1, <4>2, <4>4 DEF Decoded, AtHost, Adds
      <4> QED
        BY <4>3, <4>4
    <3> QED
      BY <3>1, <3>2
  <2> QED
    BY <2>1, <2>3, <2>4, <2>6, <2>7 DEF Somewhere, AtGuest, Unread
<1>3. CASE ServeAnswer
  <2>1. PICK a \in Answers(serving.kind) :
            serveOut' = Cells([kind |-> IF a = "fail" THEN "answer" ELSE a,
                               id |-> serving.id])
    BY <1>3 DEF ServeAnswer, AnswerId
  <2> DEFINE p == [kind |-> IF a = "fail" THEN "answer" ELSE a, id |-> serving.id]
  <2>2. /\ serve = "answering" /\ serve' = "locking"
        /\ UNCHANGED <<gout, toHost, serving, toGuest, owed>>
    BY <1>3 DEF ServeAnswer
  <2>3. p \in Packet /\ p.kind \in Replies /\ p.id = serving.id
    <3>1. a \in {"answer", "contents", "fail"}
      BY DEF Answers
    <3> QED
      BY <3>1 DEF SessionInv, TypeOK, Packet, Kinds
  <2>4. serving.id \notin Unread
    <3>1. \A r \in Unread : r < serving.id
      BY <2>2 DEF SessionInv, Order, Answered
    <3>2. serving.id \in Nat
      BY DEF SessionInv, TypeOK, Packet
    <3> QED
      BY <3>1, <3>2
  <2>5. RestOfAnswer' /\ serveOut' # <<>>
    <3>1. Size(p) \in Nat \ {0}
      BY BigCellsAssumption DEF Size
    <3>2. serveOut' = [i \in 1 .. Size(p) |-> [pkt |-> p, at |-> i]]
      BY <2>1 DEF Cells
    <3>3. Len(serveOut') = Size(p) /\ DOMAIN serveOut' = 1 .. Size(p)
      BY <3>1, <3>2
    <3>4. \A i \in 1 .. Size(p) : /\ serveOut'[i].pkt = p /\ serveOut'[i].at = i
                                  /\ i = (Size(p) - Size(p)) + i
      BY <3>1, <3>2
    <3> QED
      BY <2>2, <2>3, <3>1, <3>3, <3>4 DEF RestOfAnswer
  <2>6. Unsent' = Unsent /\ Unread' = Unread /\ AtHost' = AtHost
    BY <2>2 DEF Unsent, Unread, AtHost
  <2>7. Framed'
    BY <2>2, <2>4, <2>5, <2>6 DEF Framed, InOneCell, Continues, After
  <2> QED
    BY <2>2, <2>6, <2>7 DEF Somewhere, AtGuest, OnTheWay
<1>4. CASE ServeLock
  <2>1. /\ serve = "locking" /\ serve' = "writing" /\ serveOut \in Seq(Cell)
        /\ toGuest \in Seq(Cell) /\ KindsIn(serveOut, Replies)
        /\ UNCHANGED <<gout, toHost, serving, serveOut, toGuest, owed>>
    BY <1>4 DEF ServeLock, SessionInv, TypeOK, Shape
  <2>2. serveOut # <<>> /\ RestOfAnswer /\ serving.id \notin Unread
    BY <2>1 DEF Framed
  <2>3. Ids(serveOut, Replies) = {serving.id}
    <3>1. \A i \in DOMAIN serveOut : /\ serveOut[i].pkt.kind \in Replies
                                     /\ serveOut[i].pkt.id = serving.id
      BY <2>1, <2>2 DEF KindsIn, RestOfAnswer
    <3>2. 1 \in DOMAIN serveOut
      BY <2>1, <2>2
    <3> QED
      BY <3>1, <3>2 DEF Ids
  <2>4. Unsent = {} /\ Unsent' = {serving.id} /\ AtHost = {serving.id} /\ AtHost' = {}
    BY <2>1, <2>3 DEF Unsent, AtHost
  <2>5. Continues(toGuest, {serving.id})
    BY <2>1, <2>2, <2>4, ContinuesNew DEF Framed, Unread
  <2>6. Framed'
    <3>1. Continues(toGuest', Unsent')
      BY <2>1, <2>4, <2>5
    <3> QED
      BY <2>1, <2>2, <3>1 DEF Framed, InOneCell, RestOfAnswer
  <2> QED
    BY <2>1, <2>4, <2>6 DEF Somewhere, AtGuest, OnTheWay, Unread
<1>5. CASE ServePush
  <2> DEFINE c == Head(serveOut)
  <2>1. /\ serve = "writing" /\ serve' = "writing" /\ serveOut \in Seq(Cell)
        /\ serveOut # <<>> /\ toGuest \in Seq(Cell) /\ KindsIn(serveOut, Replies)
        /\ toGuest' = Append(toGuest, c) /\ serveOut' = Tail(serveOut)
        /\ UNCHANGED <<gout, toHost, serving, owed>>
    BY <1>5 DEF ServePush, SessionInv, TypeOK, Shape
  <2>2. /\ RestOfAnswer /\ InOneCell(gout) /\ InOneCell(toHost)
        /\ Continues(toGuest, Unsent) /\ owed = Somewhere
    BY <2>1 DEF Framed
  <2>3. c \in Cell /\ c.pkt.kind \in Replies /\ c.pkt.id = serving.id
    BY <2>1, <2>2, TailFacts, KindsFacts DEF RestOfAnswer
  <2>4. RestOfAnswer'
    <3> SUFFICES ASSUME NEW i \in DOMAIN serveOut'
                 PROVE  /\ serveOut'[i].pkt.id = serving.id
                        /\ serveOut'[i].at =
                              (Size(serveOut'[i].pkt) - Len(serveOut')) + i
      BY <2>1 DEF RestOfAnswer
    <3>1. /\ i \in Nat /\ i + 1 \in DOMAIN serveOut /\ serveOut'[i] = serveOut[i + 1]
          /\ Len(serveOut') = Len(serveOut) - 1 /\ Len(serveOut) \in Nat
      BY <2>1, TailFacts
    <3>2. Size(serveOut[i + 1].pkt) \in Nat
      BY BigCellsAssumption DEF Size
    <3>3. serveOut[i + 1].at = (Size(serveOut[i + 1].pkt) - Len(serveOut)) + (i + 1)
      BY <2>2, <3>1 DEF RestOfAnswer
    <3> QED
      BY <2>2, <3>1, <3>2, <3>3 DEF RestOfAnswer
  <2>5. IsLast(c) <=> Tail(serveOut) = <<>>
    <3>1. /\ 1 \in DOMAIN serveOut /\ c = serveOut[1] /\ Len(serveOut) \in Nat
          /\ Len(Tail(serveOut)) = Len(serveOut) - 1 /\ Tail(serveOut) \in Seq(Cell)
      BY <2>1, TailFacts
    <3>2. c.at = (Size(c.pkt) - Len(serveOut)) + 1
      BY <2>2, <3>1 DEF RestOfAnswer
    <3>3. Size(c.pkt) \in Nat
      BY BigCellsAssumption DEF Size
    <3>4. IsLast(c) <=> Len(serveOut) = 1
      BY <3>1, <3>2, <3>3 DEF IsLast
    <3>5. Tail(serveOut) = <<>> <=> Len(Tail(serveOut)) = 0
      BY <3>1, NoCells
    <3> QED
      BY <3>1, <3>4, <3>5
  <2>6. Unsent = {c.pkt.id}
    <3>1. \A i \in DOMAIN serveOut : /\ serveOut[i].pkt.kind \in Replies
                                     /\ serveOut[i].pkt.id = c.pkt.id
      BY <2>1, <2>2, <2>3 DEF KindsIn, RestOfAnswer
    <3>2. 1 \in DOMAIN serveOut
      BY <2>1
    <3> QED
      BY <2>1, <3>1, <3>2 DEF Ids, Unsent
  <2>7. Unsent' = IF IsLast(c) THEN {} ELSE {c.pkt.id}
    <3>1. \A i \in DOMAIN Tail(serveOut) : /\ Tail(serveOut)[i].pkt.kind \in Replies
                                           /\ Tail(serveOut)[i].pkt.id = c.pkt.id
      BY <2>1, <2>2, <2>3, TailFacts DEF KindsIn, RestOfAnswer
    <3>2. Tail(serveOut) # <<>> => 1 \in DOMAIN Tail(serveOut)
      BY <2>1
    <3>3. Unsent' = Ids(Tail(serveOut), Replies)
      BY <2>1 DEF Unsent
    <3>4. CASE IsLast(c)
      BY <2>5, <3>3, <3>4, IdsEmpty
    <3>5. CASE ~IsLast(c)
      BY <2>5, <3>1, <3>2, <3>3, <3>5 DEF Ids
    <3> QED
      BY <3>4, <3>5
  <2>8. Unread' = Unread \cup {c.pkt.id}
    <3>1. Ids(toGuest', Replies) = Ids(toGuest, Replies) \cup Adds(c, Replies)
      BY <2>1, <2>3, IdsGrow
    <3>2. Adds(c, Replies) = {c.pkt.id}
      BY <2>3 DEF Adds
    <3> QED
      BY <3>1, <3>2 DEF Unread
  <2>9. Continues(toGuest', Unsent')
    <3>1. Continues(toGuest, {c.pkt.id})
      BY <2>2, <2>6
    <3>2. Continues(Append(toGuest, c), IF IsLast(c) THEN {} ELSE {c.pkt.id})
      BY <2>1, <2>3, <3>1, ContinuesNext
    <3> QED
      BY <2>1, <2>7, <3>2
  <2>10. Framed'
    BY <2>1, <2>2, <2>4, <2>9 DEF Framed, InOneCell
  <2>11. AtGuest' = AtGuest /\ OnTheWay' = OnTheWay /\ AtHost' = AtHost
    BY <2>1 DEF AtGuest, OnTheWay, AtHost
  <2>12. Unsent' \cup Unread' = Unsent \cup Unread
    BY <2>6, <2>7, <2>8
  <2> QED
    BY <2>1, <2>2, <2>10, <2>11, <2>12 DEF Somewhere
<1>6. CASE ServeUnlock \/ ServeDeliver
  <2>1. /\ serve \notin {"answering", "locking"} /\ serve' = "reading"
        /\ serve = "writing" => serveOut = <<>>
        /\ UNCHANGED <<gout, toHost, serving, serveOut, toGuest, owed>>
    BY <1>6 DEF ServeUnlock, ServeDeliver
  <2>2. Unsent' = Unsent /\ Unread' = Unread /\ AtHost' = AtHost
    BY <2>1, IdsEmpty DEF Unsent, Unread, AtHost
  <2>3. Framed'
    BY <2>1, <2>2 DEF Framed, InOneCell, Continues, After
  <2> QED
    BY <2>1, <2>2, <2>3 DEF Somewhere, AtGuest, OnTheWay
<1> QED
  BY <1>1, <1>2, <1>3, <1>4, <1>5, <1>6 DEF ServeStep

LEMMA RequestsGuest ==
    ASSUME SessionInv, Requests, Up, Up', GuestStep
    PROVE  Framed' /\ owed' = Somewhere'
<1> USE DEF Requests
<1>1. CASE \/ GuestRefused \/ GuestWriteBreaks \/ GuestExit \/ GuestDies
           \/ GuestStopped
  BY <1>1 DEF GuestRefused, GuestWriteBreaks, GuestExit, GuestDies,
     GuestStopped, GuestLeaves, Up
<1>2. CASE GuestPark \/ GuestWake
  BY <1>2, StandStill DEF GuestPark, GuestWake
\* What the guest writes is a request or a packet of its own.
<1>3. ASSUME NEW p \in Packet, gout = <<>>, gout' = Cells(p),
             owed' = owed \cup {r \in {p.id} : p.kind \in Commands},
             UNCHANGED <<toHost, serve, serving, serveOut, toGuest>>
      PROVE  Framed' /\ owed' = Somewhere'
  <2>1. AtGuest = {} /\ AtGuest' = {r \in {p.id} : p.kind \in Commands}
    BY <1>3, IdsEmpty, IdsOfCells DEF AtGuest
  <2>2. InOneCell(gout')
    <3>1. p.kind \in Commands => Size(p) = 1
      BY CommandsAssumption DEF Size
    <3>2. \A i \in DOMAIN Cells(p) : Cells(p)[i].pkt = p /\ Cells(p)[i].at = i
                                    /\ i \in 1 .. Size(p)
      BY BigCellsAssumption DEF Cells, Size
    <3> QED
      BY <1>3, <3>1, <3>2 DEF InOneCell, IsLast
  <2>3. Unsent' = Unsent /\ Unread' = Unread /\ AtHost' = AtHost
    BY <1>3 DEF Unsent, Unread, AtHost
  <2>4. Framed'
    BY <1>3, <2>2, <2>3 DEF Framed, InOneCell, RestOfAnswer, Continues, After
  <2>5. OnTheWay' = OnTheWay
    BY <1>3 DEF OnTheWay
  <2> QED
    BY <1>3, <2>1, <2>3, <2>4, <2>5 DEF Somewhere
<1>4. CASE GuestStart
  <2>1. PICK k \in {"version", "wrong"} : gout' = Cells([kind |-> k, id |-> 0])
    BY <1>4 DEF GuestStart, GuestWrites
  <2>2. [kind |-> k, id |-> 0] \in Packet /\ k \notin Commands
    BY MaxReqAssumption, CommandsAssumption DEF Packet, Kinds
  <2>3. gout = <<>>
    BY <1>4 DEF GuestStart, SessionInv, Shape
  <2> QED
    BY <1>3, <1>4, <2>1, <2>2, <2>3 DEF GuestStart
<1>5. CASE GuestAsk
  <2>1. PICK k \in Commands : gout' = Cells([kind |-> k, id |-> sent + 1])
    BY <1>5 DEF GuestAsk, GuestWrites
  <2>2. [kind |-> k, id |-> sent + 1] \in Packet
    BY <1>5, MaxReqAssumption, CommandsAssumption
       DEF GuestAsk, SessionInv, TypeOK, Packet, Kinds
  <2> QED
    BY <1>3, <1>5, <2>1, <2>2 DEF GuestAsk, Busy
<1>6. CASE GuestAnswer
  <2>1. gout' = Cells([kind |-> verdict', id |-> 0]) /\ verdict' \in Verdicts
    BY <1>6 DEF GuestAnswer, GuestWrites
  <2>2. [kind |-> verdict', id |-> 0] \in Packet /\ verdict' \notin Commands
    BY <2>1, MaxReqAssumption, CommandsAssumption DEF Packet, Kinds
  <2> QED
    BY <1>3, <1>6, <2>1, <2>2 DEF GuestAnswer, Busy
<1>7. CASE GuestGarble
  <2>1. gout' = Cells(NoPacket) /\ NoPacket \in Packet
    BY <1>7, MaxReqAssumption DEF GuestGarble, GuestWrites, NoPacket, Packet, Kinds
  <2>2. NoPacket.kind \notin Commands
    BY CommandsAssumption DEF NoPacket
  <2> QED
    BY <1>3, <1>7, <2>1, <2>2 DEF GuestGarble, Busy
<1>8. CASE GuestPush
  <2> DEFINE c == Head(gout)
  <2>1. /\ gout \in Seq(Cell) /\ gout # <<>> /\ gout' = Tail(gout)
        /\ toHost \in Seq(Cell) /\ toHost' = Append(toHost, c)
        /\ UNCHANGED <<serve, serving, serveOut, toGuest, owed>>
    BY <1>8 DEF GuestPush, SessionInv, TypeOK
  <2>2. c \in Cell
    BY <2>1, TailFacts
  <2>3. AtGuest = Adds(c, Commands) \cup AtGuest'
    BY <2>1, IdsSplit DEF AtGuest
  <2>4. OnTheWay' = OnTheWay \cup Adds(c, Commands)
    BY <2>1, <2>2, IdsGrow DEF OnTheWay
  <2>5. InOneCell(gout') /\ (c.pkt.kind \in Commands => IsLast(c))
    BY <2>1, TailFacts DEF Framed, InOneCell
  <2>6. InOneCell(toHost')
    BY <2>1, <2>2, <2>5, AppendFacts DEF Framed, InOneCell
  <2>7. Unsent' = Unsent /\ Unread' = Unread /\ AtHost' = AtHost
    BY <2>1 DEF Unsent, Unread, AtHost
  <2>8. Framed'
    BY <2>1, <2>5, <2>6, <2>7 DEF Framed, RestOfAnswer, Continues, After
  <2> QED
    BY <2>1, <2>3, <2>4, <2>7, <2>8 DEF Somewhere
<1>9. CASE GuestRead
  <2> DEFINE c == Head(toGuest)
  <2>1. /\ toGuest \in Seq(Cell) /\ toGuest # <<>> /\ toGuest' = Tail(toGuest)
        /\ KindsIn(toGuest, Replies \cup {"build"})
        /\ owed' = IF IsLast(c) THEN owed \ {c.pkt.id} ELSE owed
        /\ UNCHANGED <<gout, toHost, serve, serving, serveOut>>
    BY <1>9 DEF GuestRead, SessionInv, TypeOK, Shape
  <2>2. c \in Cell /\ c.pkt.kind \in Replies \cup {"build"}
    BY <2>1, TailFacts, KindsFacts
  <2>3. /\ Continues(toGuest', Unsent)
        /\ c.pkt.kind \in Replies => (c.pkt.id \in Unread' \cup Unsent <=> ~IsLast(c))
    BY <2>1, ContinuesTail DEF Framed, Unread
  <2>4. Unsent' = Unsent /\ AtHost' = AtHost /\ AtGuest' = AtGuest /\ OnTheWay' = OnTheWay
    BY <2>1 DEF Unsent, AtHost, AtGuest, OnTheWay
  <2>5. Unread = Adds(c, Replies) \cup Unread'
    BY <2>1, IdsSplit DEF Unread
  <2>6. Framed'
    BY <2>1, <2>3, <2>4, <2>5 DEF Framed, InOneCell, RestOfAnswer
  <2>7. CASE c.pkt.kind = "build"
    <3>1. Adds(c, Replies) = {} /\ c.pkt.id \in Builds
      <4>1. c.pkt.id \in Ids(toGuest, {"build"})
        BY <2>1, <2>7, IdsTail
      <4> QED
        BY <2>7, <4>1 DEF Adds, Builds
    <3>2. c.pkt.id \notin owed
      <4>1. c.pkt.id = 0
        BY <3>1 DEF SessionInv, Order
      <4>2. owed \subseteq 1 .. MaxReq
        BY DEF SessionInv, TypeOK
      <4> QED
        BY <4>1, <4>2, MaxReqAssumption
    <3>3. owed' = owed /\ Unread' = Unread
      BY <2>1, <2>5, <3>1, <3>2
    <3> QED
      BY <2>4, <2>6, <3>3 DEF Somewhere
  <2>8. CASE c.pkt.kind \in Replies
    <3>1. Adds(c, Replies) = {c.pkt.id}
      BY <2>8 DEF Adds
    <3>2. CASE ~IsLast(c)
      BY <2>1, <2>3, <2>4, <2>5, <2>6, <2>8, <3>1, <3>2 DEF Somewhere
    <3>3. CASE IsLast(c)
      <4>1. c.pkt.id \in Unread /\ c.pkt.id \notin Unread' \cup Unsent
        BY <2>3, <2>5, <2>8, <3>1, <3>3
      <4>2. c.pkt.id \notin AtGuest \cup OnTheWay \cup AtHost
        BY <4>1, PlacesApart
      <4> QED
        BY <2>1, <2>4, <2>5, <2>6, <3>1, <3>3, <4>1, <4>2 DEF Somewhere
    <3> QED
      BY <3>2, <3>3
  <2> QED
    BY <2>2, <2>7, <2>8
<1> QED
  BY <1>1, <1>2, <1>4, <1>5, <1>6, <1>7, <1>8, <1>9 DEF GuestStep

LEMMA RequestsStep == RequestInv /\ SessionInv' /\ [Next]_vars => RequestInv'
<1> SUFFICES ASSUME SessionInv, Requests, SessionInv', [Next]_vars, Up'
             PROVE  Framed' /\ owed' = Somewhere'
  BY DEF RequestInv, Requests
<1>1. Up
  BY UpStep
<1>2. CASE Cancel \/ InstStep \/ UNCHANGED vars
  BY <1>1, <1>2, StandStill DEF Cancel, InstStep, InstClose, InstReport
<1> QED
  BY <1>1, <1>2, RequestsCaller, RequestsServe, RequestsGuest DEF Next, Finished

LEMMA RequestsInit == Init => Requests
<1> SUFFICES ASSUME Init PROVE Framed /\ owed = Somewhere
  BY DEF Requests
<1>1. /\ gout = <<>> /\ toHost = <<>> /\ toGuest = <<>> /\ serve = "off" /\ owed = {}
  BY DEF Init
<1>2. Framed
  BY <1>1 DEF Framed, InOneCell, Continues
<1>3. Somewhere = {}
  BY <1>1, IdsEmpty DEF Somewhere, AtGuest, OnTheWay, AtHost, Unsent, Unread
<1> QED
  BY <1>1, <1>2, <1>3

(***************************************************************************)
(* The theorems.                                                           *)
(***************************************************************************)

\* SessionInv, that what a pipe holds is whole but for what is still to come,
\* and that what the guest waits on is somewhere (stdio.go:203-250).
THEOREM RequestInvariant == Spec => []RequestInv
<1>1. Init /\ SessionInv => RequestInv
  BY RequestsInit DEF RequestInv, Requests
<1> QED
  BY <1>1, SessionInvariant, RequestsStep, PTL DEF Spec

\* No request is lost and none is answered twice, however the four actors
\* interleave and in however many cells an answer crosses (stdio.go:203-250).
THEOREM NoRequestIsLost == Spec => []NoLostRequest
<1>1. RequestInv => NoLostRequest
  BY PlacesApart DEF RequestInv, Requests, NoLostRequest, Up, Somewhere
<1> QED
  BY <1>1, RequestInvariant, PTL
=============================================================================
