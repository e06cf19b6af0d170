------------------------------ MODULE BundleInv ------------------------------
(* Why a bundle reported whole is whole: the invariant of Bundle.tla that    *)
(* every step preserves.  SuccessIsComplete alone is not inductive.  That    *)
(* `broken` is stable once it is read rests on serve answering nothing after *)
(* the response, which rests on requests being answered in the order made.   *)
EXTENDS Bundle

KindsIn(s, kinds) == \A i \in DOMAIN s : s[i].pkt.kind \in kinds

FromGuest == Commands \cup Verdicts \cup {"garbage"}

\* What may be where: nothing flows before the handshake is over, the version
\* is the only packet until then, and each pipe carries its own kinds.
Shape ==
    /\ caller \in {"start", "half"} => inst = "off"
    /\ inst = "off" => guest = "unborn"
    /\ guest = "unborn" => gout = <<>> /\ toHost = <<>> /\ serve = "off"
    /\ serve = "off" =>
          /\ toGuest = <<>> /\ callerOut = <<>> /\ serveOut = <<>>
          /\ ~asked /\ verdict = "none"
          /\ Len(gout) + Len(toHost) <= 1
          /\ caller \in {"start", "half", "handshake", "returned"}
    /\ serve # "off" => /\ KindsIn(gout, FromGuest)
                        /\ KindsIn(toHost, FromGuest)
                        /\ caller \notin {"start", "half", "handshake"}
    /\ KindsIn(callerOut, {"build"})
    /\ KindsIn(serveOut, Replies)
    /\ KindsIn(toGuest, Replies \cup {"build"})
    /\ serve = "answering" => serving.kind \in Commands
    /\ serve = "delivering" => serving.kind \in Verdicts

\* The requests of a pipe were made one after the other.
Rising(s) ==
    \A i, j \in DOMAIN s :
        (i < j /\ s[i].pkt.kind \in Commands /\ s[j].pkt.kind \in Commands)
            => s[i].pkt.id < s[j].pkt.id

Asked    == AtGuest \cup OnTheWay
Answered == Ids(serveOut, Replies) \cup Unread
Builds   == Ids(callerOut, {"build"}) \cup Ids(toGuest, {"build"})

\* Requests are answered in the order they were made: every request not yet
\* answered is owed and younger than every answer on its way.
Order ==
    /\ owed \subseteq 1 .. sent
    /\ verdict # "none" => owed = {}
    /\ Asked \subseteq owed
    /\ AtGuest # {} => Len(gout) = 1
    /\ \A r \in AtGuest, s \in OnTheWay : s < r
    /\ Rising(toHost)
    /\ serve = "answering" => /\ serving.id \in owed
                              /\ \A r \in Asked : serving.id < r
                              /\ \A a \in Answered : a < serving.id
    /\ \A a \in Answered : a <= sent /\ \A r \in Asked : a < r
    /\ Builds \subseteq {0}

\* What each actor has concluded is what the guest decided, and stays so.
NoOther == Kinds \ (Verdicts \ {verdict})

Outcome ==
    /\ KindsIn(gout, NoOther) /\ KindsIn(toHost, NoOther)
    /\ serve = "delivering" => serving.kind = verdict
    /\ ch # "none" => ch = verdict
    /\ caller \in {"checking", "closing"} \/ result = "ok" => verdict = "built"
    /\ caller = "closing" \/ result = "ok" => ~broken
    /\ result # "none" <=> caller = "returned"
    /\ guest = "ended" <=> exit # "none"
    /\ inst \in {"closed", "done"} => guest = "ended"
    /\ doneErr # "none" <=> inst = "done"
    /\ doneErr = "nil" \/ result = "ok" => exit = "zero"
    /\ doneErr = "failed" => exit = "failed"
    /\ exit = "ctx" \/ doneErr = "canceled" => ctx = "done"

\* The inductive invariant of the session.
SessionInv == TypeOK /\ Shape /\ Order /\ Outcome

(* Why no request is lost.  An answer crosses the pipe in cells, so what is  *)
(* answered is told from the cells that are still to come.                   *)

\* While the session is up; once it is not, it stays so.
Up == serve # "ended" /\ guest # "ended" /\ caller # "returned"

\* A request is one cell.
InOneCell(s) == \A i \in DOMAIN s : s[i].pkt.kind \in Commands => IsLast(s[i])

\* What serve has still to write is the end of one packet, its answer.
RestOfAnswer ==
    \A i \in DOMAIN serveOut :
        /\ serveOut[i].pkt.id = serving.id
        /\ serveOut[i].at = (Size(serveOut[i].pkt) - Len(serveOut)) + i

After(s, i) ==
    {s[j].pkt.id : j \in {j \in DOMAIN s : i < j /\ s[j].pkt.kind \in Replies}}

\* More of an answer follows a cell unless it is the last one.
Continues(s, rest) ==
    \A i \in DOMAIN s : s[i].pkt.kind \in Replies =>
        (s[i].pkt.id \in After(s, i) \cup rest <=> ~IsLast(s[i]))

Framed ==
    /\ InOneCell(gout) /\ InOneCell(toHost)
    /\ serve \in {"locking", "writing"} => RestOfAnswer
    /\ serve = "locking" => serveOut # <<>> /\ serving.id \notin Unread
    /\ Continues(toGuest, Unsent)

Somewhere == AtGuest \cup OnTheWay \cup AtHost \cup Unsent \cup Unread

\* The invariant by which every request is somewhere: SessionInv keeps the
\* places apart, and an answer is whole on the two sides of a pipe together
\* (stdio.go:203-250).
RequestInv == SessionInv /\ (Up => Framed /\ owed = Somewhere)
=============================================================================
