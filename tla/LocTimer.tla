------------------------------ MODULE LocTimer ------------------------------
(***************************************************************************)
(* Timers (gps/utils/LocTimer.cpp).                                        *)
(*                                                                         *)
(* start() makes a delegate and stop() sends it to its end; both hold the  *)
(* lock of the timer.  The heap of the delegates belongs to one MsgTask    *)
(* thread, which tells the kernel the soonest time.  A second thread polls *)
(* the timer descriptor and reports the expiration to the first.  Clients, *)
(* the two threads and the clock interleave.                               *)
(*                                                                         *)
(* One container is modelled: timers and alarms share the code and the     *)
(* threads.  Client objects are not deleted.                               *)
(***************************************************************************)
EXTENDS Integers, Sequences, SequencesExt, FiniteSetsExt

CONSTANTS
  TimerClient,     \* LocTimer objects
  Delay,           \* the delays they ask for
  MaxStarts,       \* bound: timers started
  MaxTime          \* bound: the clock

NoTimer == 0
NoTime == -1
Delegate == 1..MaxStarts
NoClient == "no client"

ASSUME TimerAssumption ==
  NoClient \notin TimerClient /\ Delay \subseteq Nat /\ {MaxStarts, MaxTime} \subseteq Nat

VARIABLES
  clock,
  mTimer,          \* mTimer[c]: the delegate of client c
  delegates,       \* those created and not deleted
  mClient,         \* mClient[d]: the client of delegate d
  mFutureTime,     \* mFutureTime[d]
  heap,            \* the delegates in the container
  timerQ,          \* the MsgTask's queue
  armed,           \* the time the timer descriptor is set to
  polled,          \* the descriptor is polled
  poller,          \* the polling thread: waiting, woken, disarmed, unpolled
  task,            \* MsgTimerExpire::proc: idle, popped, stopping
  taskTimer,       \* the delegate it has popped
  taskClient,      \* the client it has read from it
  taskNow          \* the time it started at

clients == <<mTimer, delegates, mClient, mFutureTime>>
kernel == <<armed, polled>>
taskVars == <<task, taskTimer, taskClient, taskNow>>
timerVars == <<clock, clients, heap, timerQ, kernel, poller, taskVars>>
-----------------------------------------------------------------------------
TimerInit ==
  /\ clock = 0 /\ delegates = {} /\ heap = {} /\ timerQ = <<>>
  /\ mTimer = [c \in TimerClient |-> NoTimer]
  /\ mClient = [d \in Delegate |-> NoClient]
  /\ mFutureTime = [d \in Delegate |-> NoTime]
  /\ armed = NoTime /\ polled = FALSE /\ poller = "waiting"
  /\ task = "idle" /\ taskTimer = NoTimer /\ taskNow = 0
  /\ taskClient = NoClient

TimerMsg(w, d) == [what |-> w, timer |-> d]

\* The time of the soonest timer of S, and the timers that have it.
SoonestTime(S) == IF S = {} THEN NoTime ELSE Min({mFutureTime[d] : d \in S})
Soonest(S) == {d \in S : mFutureTime[d] = SoonestTime(S)}

\* updateSoonestTime, when the soonest time was prior and the heap becomes h
UpdateSoonestTime(prior, h) ==
  LET cur == SoonestTime(h) IN
  \/ /\ cur = NoTime /\ prior # NoTime
     /\ armed' = NoTime /\ polled' = FALSE
  \/ /\ cur # NoTime /\ (prior = NoTime \/ cur < prior)
     /\ armed' = cur /\ polled' = TRUE
  \/ /\ IF cur = NoTime THEN prior = NoTime ELSE prior # NoTime /\ cur >= prior
     /\ UNCHANGED kernel
-----------------------------------------------------------------------------
(* clients *)

\* LocTimer::start, which fails if the timer is running
StartTimer(c, delay) ==
  /\ mTimer[c] = NoTimer
  /\ \E d \in Delegate :
       /\ mFutureTime[d] = NoTime /\ \A e \in 1..(d - 1) : mFutureTime[e] # NoTime
       /\ clock + delay <= MaxTime
       /\ mTimer' = [mTimer EXCEPT ![c] = d]
       /\ delegates' = delegates \cup {d}
       /\ mClient' = [mClient EXCEPT ![d] = c]
       /\ mFutureTime' = [mFutureTime EXCEPT ![d] = clock + delay]
       /\ timerQ' = Append(timerQ, TimerMsg("push", d))
  /\ UNCHANGED <<clock, heap, kernel, poller, taskVars>>

\* LocTimer::stop when the timer is running: destroyLocked
EndTimer(c) ==
  /\ mTimer' = [mTimer EXCEPT ![c] = NoTimer]
  /\ mClient' = [mClient EXCEPT ![mTimer[c]] = NoClient]
  /\ timerQ' = Append(timerQ, TimerMsg("remove", mTimer[c]))
  /\ UNCHANGED <<delegates, mFutureTime>>

StopTimer(c) ==
  /\ mTimer[c] # NoTimer
  /\ EndTimer(c)
  /\ UNCHANGED <<clock, heap, kernel, poller, taskVars>>

Tick ==
  /\ clock < MaxTime /\ clock' = clock + 1
  /\ UNCHANGED <<clients, heap, timerQ, kernel, poller, taskVars>>
-----------------------------------------------------------------------------
(* the polling thread: TimerRunnable::run and LocTimerContainer::expire *)

PollWakes ==
  /\ poller = "waiting" /\ polled /\ armed # NoTime /\ armed <= clock
  /\ poller' = "woken"
  /\ UNCHANGED <<clock, clients, heap, timerQ, kernel, taskVars>>

PollDisarms ==
  /\ poller = "woken" /\ poller' = "disarmed"
  /\ armed' = NoTime
  /\ UNCHANGED <<clock, clients, heap, timerQ, polled, taskVars>>

PollRemoves ==
  /\ poller = "disarmed" /\ poller' = "unpolled"
  /\ polled' = FALSE
  /\ UNCHANGED <<clock, clients, heap, timerQ, armed, taskVars>>

PollReports ==
  /\ poller = "unpolled" /\ poller' = "waiting"
  /\ timerQ' = Append(timerQ, TimerMsg("expire", NoTimer))
  /\ UNCHANGED <<clock, clients, heap, kernel, taskVars>>
-----------------------------------------------------------------------------
(* the MsgTask thread *)

TaskTakes(w) == task = "idle" /\ timerQ # <<>> /\ Head(timerQ).what = w

\* MsgTimerPush::proc
TaskPush ==
  /\ TaskTakes("push")
  /\ timerQ' = Tail(timerQ)
  /\ heap' = heap \cup {Head(timerQ).timer}
  /\ UpdateSoonestTime(SoonestTime(heap), heap')
  /\ UNCHANGED <<clock, clients, poller, taskVars>>

\* (mutant) a timer that is not the soonest is deleted but stays in the heap
HeapLessTop(d) == IF d \in Soonest(heap) THEN heap \ {d} ELSE heap
\* LocHeap::remove
HeapLess(d) == heap \ {d}

\* MsgTimerRemove::proc: the kernel is told only if the top was removed.
TaskRemove ==
  /\ TaskTakes("remove")
  /\ timerQ' = Tail(timerQ)
  /\ LET d == Head(timerQ).timer IN
     /\ heap' = HeapLess(d)
     /\ delegates' = delegates \ {d}
     /\ \/ d \in Soonest(heap) /\ UpdateSoonestTime(NoTime, heap')
        \/ ~(Soonest(heap) = {d}) /\ UNCHANGED kernel
  /\ UNCHANGED <<clock, mTimer, mClient, mFutureTime, poller, taskVars>>

Pop(d) == task' = "popped" /\ taskTimer' = d /\ heap' = heap \ {d}

\* (mutant) the kernel is not told of the timers that are left
NoRearm == UNCHANGED kernel
\* The end of MsgTimerExpire::proc
Rearm == UpdateSoonestTime(NoTime, heap)

\* popIfOutRanks: the next timer that was due when proc() started, if any
PopNext ==
  \/ /\ SoonestTime(heap) # NoTime /\ SoonestTime(heap) <= taskNow
     /\ \E d \in Soonest(heap) : Pop(d)
     /\ UNCHANGED kernel
  \/ /\ SoonestTime(heap) = NoTime \/ SoonestTime(heap) > taskNow
     /\ task' = "idle" /\ taskTimer' = NoTimer
     /\ Rearm /\ UNCHANGED heap

\* MsgTimerExpire::proc pops the first timer whether it is due or not.
TaskExpire ==
  /\ TaskTakes("expire")
  /\ timerQ' = Tail(timerQ) /\ taskNow' = clock
  /\ \/ heap = {} /\ UNCHANGED <<heap, task, taskTimer>>
     \/ \E d \in Soonest(heap) : Pop(d)
  /\ UNCHANGED <<clock, clients, kernel, poller, taskClient>>

\* LocTimerDelegate::expire reads the client without the lock,
TaskReadsClient ==
  /\ task = "popped"
  /\ taskClient' = mClient[taskTimer]
  /\ \/ mClient[taskTimer] = NoClient /\ PopNext
     \/ /\ mClient[taskTimer] # NoClient
        /\ task' = "stopping" /\ UNCHANGED <<taskTimer, heap, kernel>>
  /\ UNCHANGED <<clock, clients, timerQ, poller, taskNow>>

\* stops whatever timer that client has by now, and calls the client back if
\* it had one.
TaskCallsBack ==
  /\ task = "stopping"
  /\ \/ /\ mTimer[taskClient] # NoTimer
        /\ EndTimer(taskClient)
     \/ /\ mTimer[taskClient] = NoTimer
        /\ UNCHANGED <<clients, timerQ>>
  /\ PopNext
  /\ taskClient' = NoClient
  /\ UNCHANGED <<clock, poller, taskNow>>
-----------------------------------------------------------------------------
PollerStep == PollWakes \/ PollDisarms \/ PollRemoves \/ PollReports
TaskStep ==
  TaskPush \/ TaskRemove \/ TaskExpire \/ TaskReadsClient \/ TaskCallsBack

TimerNext ==
  \/ \E c \in TimerClient : StopTimer(c) \/ \E delay \in Delay : StartTimer(c, delay)
  \/ Tick \/ PollerStep \/ TaskStep
-----------------------------------------------------------------------------
TimerTypeOK ==
  /\ clock \in 0..MaxTime /\ delegates \subseteq Delegate /\ heap \subseteq Delegate
  /\ mTimer \in [TimerClient -> {NoTimer} \cup Delegate]
  /\ mClient \in [Delegate -> {NoClient} \cup TimerClient]
  /\ mFutureTime \in [Delegate -> NoTime..MaxTime]
  /\ armed \in NoTime..MaxTime /\ polled \in BOOLEAN
  /\ poller \in {"waiting", "woken", "disarmed", "unpolled"}
  /\ task \in {"idle", "popped", "stopping"}
  /\ taskTimer \in {NoTimer} \cup Delegate
  /\ taskClient \in {NoClient} \cup TimerClient

\* A delegate is deleted once and not referred to after that, by the heap, a
\* message, its client or the expiration in progress, although the client and
\* the two threads end timers at the same time (destroyLocked and
\* MsgTimerRemove, gps/utils/LocTimer.cpp).
NoDanglingDelegate ==
  LET referred == heap \cup {mTimer[c] : c \in TimerClient}
                       \cup {timerQ[i].timer : i \in DOMAIN timerQ}
                       \cup {taskTimer}
  IN /\ referred \subseteq {NoTimer} \cup delegates
     /\ \A i, j \in DOMAIN timerQ :
          timerQ[i] = timerQ[j] /\ timerQ[i].what = "remove" => i = j

\* The wakeup for the soonest timer is never lost: it is set in the kernel, at
\* its time or before, unless an expiration is on its way that will set it
\* (updateSoonestTime racing with expire() on the polling thread,
\* gps/utils/LocTimer.cpp).
SoonestTimerArmed ==
  \/ heap = {} \/ poller # "waiting" \/ task # "idle"
  \/ \E i \in DOMAIN timerQ : timerQ[i].what = "expire"
  \/ polled /\ armed # NoTime /\ armed <= SoonestTime(heap)

\* A timer that is started ends: it is stopped or its client is called back
\* (gps/utils/LocTimer.cpp).
TimerEnds ==
  \A d \in Delegate :
    (\E c \in TimerClient : mTimer[c] = d) ~> (\A c \in TimerClient : mTimer[c] # d)
=============================================================================
