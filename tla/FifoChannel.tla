---------------------------- MODULE FifoChannel ----------------------------
(***************************************************************************)
(* What MsgTask promises those who send to it (gps/utils/MsgTask.h):       *)
(* accepted messages are handled one at a time in the order in which they  *)
(* were accepted, none twice, and once the task has ended none at all.     *)
(***************************************************************************)
EXTENDS Naturals, Sequences

CONSTANT Msg          \* messages, each sent at most once
VARIABLES accepted,   \* every message accepted, in order
          handled,    \* every message handled, in order
          open        \* the task has not ended

Init == accepted = <<>> /\ handled = <<>> /\ open = TRUE

Accept(m) ==
  /\ open = TRUE /\ \A i \in DOMAIN accepted : accepted[i] # m
  /\ accepted' = Append(accepted, m) /\ UNCHANGED <<handled, open>>

Handle ==
  /\ open = TRUE /\ Len(handled) < Len(accepted)
  /\ handled' = Append(handled, accepted[Len(handled) + 1])
  /\ UNCHANGED <<accepted, open>>

Close == open = TRUE /\ open' = FALSE /\ UNCHANGED <<accepted, handled>>

Next == (\E m \in Msg : Accept(m)) \/ Handle \/ Close

Spec == Init /\ [][Next]_<<accepted, handled, open>>
=============================================================================
