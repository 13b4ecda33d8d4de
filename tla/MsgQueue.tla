------------------------------ MODULE MsgQueue ------------------------------
(***************************************************************************)
(* A MsgTask and its message queue (gps/utils/MsgTask.cpp, LocThread.cpp,  *)
(* msg_q.c, linked_list.c).                                                *)
(*                                                                         *)
(* One thread handles what others send.  The thread and whoever deletes    *)
(* the task share the runnable, and the last of them to let go of it frees *)
(* the queue.  A step is what a thread does with the mutex of the queue    *)
(* held.  Senders stop before the task is deleted, except the handler of a *)
(* message, which may send, and even delete the task, at any time.         *)
(* Allocations do not fail.                                                *)
(***************************************************************************)
EXTENDS Sequences, SequencesExt

CONSTANT QueueMsg      \* messages, each sent at most once

VARIABLES
  msgList,        \* msg_list, oldest first
  unblocked,      \* unblocked
  reader,         \* the thread: idle, waiting, woken, handling, leaving, gone
  stopper,        \* LocThread::stop: none, locked, interrupted, done
  queueFreed,     \* msg_q_destroy has run
  msgAccepted,    \* history: messages msg_q_snd took
  msgHandled,     \* history: messages whose proc() was called
  msgLeaked       \* history: messages nobody will ever delete

queueVars == <<msgList, unblocked, reader, stopper, queueFreed, msgAccepted,
               msgHandled, msgLeaked>>
-----------------------------------------------------------------------------
QueueInit ==
  /\ msgList = <<>> /\ unblocked = FALSE /\ queueFreed = FALSE
  /\ reader = "idle" /\ stopper = "none"
  /\ msgAccepted = <<>> /\ msgHandled = <<>> /\ msgLeaked = {}

\* (mutant) the sender signals only when it finds messages already waiting
WakeLate(r) == IF r = "waiting" /\ msgList # <<>> THEN "woken" ELSE r
\* pthread_cond_signal and pthread_cond_broadcast, with one thread to wake
Wake(r) == IF r = "waiting" THEN "woken" ELSE r

\* msg_q_snd
SendMsg(m) ==
  /\ m \notin ToSet(msgAccepted) \cup msgLeaked
  /\ stopper = "none" \/ reader = "handling"
  /\ \/ /\ unblocked
        /\ msgLeaked' = msgLeaked \cup {m}
        /\ UNCHANGED <<msgList, msgAccepted, reader>>
     \/ /\ ~unblocked
        /\ msgList' = Append(msgList, m)
        /\ msgAccepted' = Append(msgAccepted, m)
        /\ reader' = Wake(reader)
        /\ UNCHANGED msgLeaked
  /\ UNCHANGED <<unblocked, stopper, queueFreed, msgHandled>>

\* (mutant) linked_list_remove takes the newest message
TakeNewest ==
  /\ msgList' = Front(msgList) /\ msgHandled' = Append(msgHandled, Last(msgList))
\* linked_list_remove takes the oldest one, which is then handled.
TakeOldest ==
  /\ msgList' = Tail(msgList) /\ msgHandled' = Append(msgHandled, Head(msgList))

\* msg_q_rcv up to its first wait: it fails once the queue is unblocked,
\* whatever there is in it.
Receive ==
  /\ reader = "idle"
  /\ \/ /\ unblocked /\ reader' = "leaving"
        /\ UNCHANGED <<msgList, msgHandled>>
     \/ /\ ~unblocked /\ msgList = <<>> /\ reader' = "waiting"
        /\ UNCHANGED <<msgList, msgHandled>>
     \/ /\ ~unblocked /\ msgList # <<>> /\ reader' = "handling"
        /\ TakeOldest
  /\ UNCHANGED <<unblocked, stopper, queueFreed, msgAccepted, msgLeaked>>

\* msg_q_rcv after a wait: a message is taken even from an unblocked queue.
ReceiveAfterWait ==
  /\ reader = "woken"
  /\ \/ /\ msgList = <<>> /\ reader' = IF unblocked THEN "leaving" ELSE "waiting"
        /\ UNCHANGED <<msgList, msgHandled>>
     \/ /\ msgList # <<>> /\ reader' = "handling"
        /\ TakeOldest
  /\ UNCHANGED <<unblocked, stopper, queueFreed, msgAccepted, msgLeaked>>

\* POSIX lets a condition wait return for no reason.
SpuriousWakeup ==
  /\ reader = "waiting" /\ reader' = "woken"
  /\ UNCHANGED <<msgList, unblocked, stopper, queueFreed, msgAccepted,
                 msgHandled, msgLeaked>>

\* The rest of MTRunnable::run: the message is deleted.
FinishMsg ==
  /\ reader = "handling" /\ reader' = "idle"
  /\ UNCHANGED <<msgList, unblocked, stopper, queueFreed, msgAccepted,
                 msgHandled, msgLeaked>>

\* ~MTRunnable flushes and destroys the queue when the last reference goes.
ReleaseRunnable(last) ==
  /\ queueFreed' = (queueFreed \/ last)
  /\ msgList' = IF last THEN <<>> ELSE msgList

\* The thread ends and lets go of the runnable.
LeaveThread ==
  /\ reader = "leaving" /\ reader' = "gone"
  /\ ReleaseRunnable(stopper \in {"none", "done"})
  /\ UNCHANGED <<unblocked, stopper, msgAccepted, msgHandled, msgLeaked>>

\* ~LocThreadDelegate takes a reference,
StopLock ==
  /\ stopper = "none"
  /\ stopper' = IF reader = "gone" THEN "done" ELSE "locked"
  /\ UNCHANGED <<msgList, unblocked, reader, queueFreed, msgAccepted,
                 msgHandled, msgLeaked>>

\* calls interrupt(), which is msg_q_unblock,
StopInterrupt ==
  /\ stopper = "locked" /\ stopper' = "interrupted"
  /\ unblocked' = TRUE /\ reader' = Wake(reader)
  /\ UNCHANGED <<msgList, queueFreed, msgAccepted, msgHandled, msgLeaked>>

\* and lets go again.
StopRelease ==
  /\ stopper = "interrupted" /\ stopper' = "done"
  /\ ReleaseRunnable(reader = "gone")
  /\ UNCHANGED <<unblocked, reader, msgAccepted, msgHandled, msgLeaked>>
-----------------------------------------------------------------------------
ReaderStep == Receive \/ ReceiveAfterWait \/ FinishMsg \/ LeaveThread
StopperStep == StopInterrupt \/ StopRelease
QueueNext ==
  \/ \E m \in QueueMsg : SendMsg(m)
  \/ ReaderStep \/ SpuriousWakeup \/ StopLock \/ StopperStep
-----------------------------------------------------------------------------
QueueTypeOK ==
  /\ \A q \in {msgList, msgAccepted, msgHandled} : ToSet(q) \subseteq QueueMsg
  /\ msgLeaked \subseteq QueueMsg
  /\ unblocked \in BOOLEAN /\ queueFreed \in BOOLEAN
  /\ reader \in {"idle", "waiting", "woken", "handling", "leaving", "gone"}
  /\ stopper \in {"none", "locked", "interrupted", "done"}

Channel == INSTANCE FifoChannel WITH
  Msg <- QueueMsg, accepted <- msgAccepted, handled <- msgHandled,
  open <- ~queueFreed

\* MsgTask is a FIFO channel: whatever the interleaving of senders, the thread
\* and the one who deletes the task, messages are handled in the order they
\* were accepted, none twice, and none once the queue is freed
\* (gps/utils/msg_q.c, MsgTask.cpp).
QueueIsFifo == Channel!Spec

\* No wakeup is lost: an accepted message is handled unless the task ends, and
\* a task that is deleted ends: its thread leaves the wait and the queue is
\* freed (the signals in msg_q_snd and msg_q_unblock, gps/utils/msg_q.c).
QueueMakesProgress ==
  /\ \A m \in QueueMsg :
       m \in ToSet(msgAccepted) ~> (m \in ToSet(msgHandled) \/ queueFreed)
  /\ (stopper # "none") ~> queueFreed
=============================================================================
