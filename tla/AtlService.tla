----------------------------- MODULE AtlService -----------------------------
(***************************************************************************)
(* What AgpsManager promises the modem (gps/gnss/Agps.h): every request    *)
(* for a data connection is answered once, by opening it, denying it or    *)
(* closing it, and an opened one is only ever closed.  A handle may be     *)
(* asked for again after that.                                             *)
(***************************************************************************)
CONSTANT Handle     \* connection handles of the modem
VARIABLE status     \* status[h]: what became of the last request for h

Init == status = [h \in Handle |-> "none"]

\* The handles of S are told what.
Tell(S, what) ==
  status' = [h \in Handle |-> IF h \in S THEN what ELSE status[h]]
Are(S, states) == \A h \in S : status[h] \in states

Ask(S) == Are(S, {"none", "denied", "closed"}) /\ Tell(S, "waiting")
Open(S) == Are(S, {"waiting"}) /\ Tell(S, "opened")
Deny(S) == Are(S, {"waiting"}) /\ Tell(S, "denied")
Close(S) == Are(S, {"waiting", "opened"}) /\ Tell(S, "closed")

Next == \E S \in SUBSET Handle : Ask(S) \/ Open(S) \/ Deny(S) \/ Close(S)

Spec == Init /\ [][Next]_status
=============================================================================
