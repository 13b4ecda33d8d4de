------------------------------ MODULE Batching ------------------------------
(***************************************************************************)
(* Batching of positions (gps/batching/BatchingAdapter.cpp).               *)
(*                                                                         *)
(* A session collects positions in the engine.  It is a routine session,   *)
(* which reports when the batch is full, one that never reports, or a      *)
(* trip; all trips share one outdoor trip in the engine.  The adapter      *)
(* registers for the BATCH_FULL event while a session needs it.            *)
(*                                                                         *)
(* The engine is not in this repository (LocApiBase has empty defaults).   *)
(* It is modelled by how the adapter uses it: it handles calls in order,   *)
(* may refuse any, and forgets its sessions when it crashes.  Left out are *)
(* the lengths and intervals of trips, the calls that only change those in *)
(* the engine, reports of positions, and getBatchedLocations.              *)
(***************************************************************************)
EXTENDS SessionKeys, Sequences, SequencesExt

CONSTANTS
  BatchClient,       \* clients, with a batching callback
  MaxBatching,       \* bound: sessions started
  MaxBatchCommands,  \* bound: commands
  MaxBatchCrashes    \* bound: crashes of the engine

BatchingMode == {"routine", "trip", "noAuto"}
None == "none"

ASSUME BatchingAssumption == {MaxBatching, MaxBatchCommands, MaxBatchCrashes} \subseteq Nat

VARIABLES
  mBatchingSessions,  \* key to batchingMode
  mTripSessions,      \* the keys of the trips
  batchFull,          \* mEvtMask has LOC_API_ADAPTER_BIT_BATCH_FULL
  capabilitiesKnown,  \* isEngineCapabilitiesKnown
  mPendingMsgs,       \* the commands that wait for that
  batchClients,       \* mClientData: the clients the adapter knows
  batchIds,           \* ids generated
  batchCommands,      \* commands so far
  batchMsgs,          \* the adapter's MsgTask
  batchCalls,         \* the calls on their way to the engine
  batchUp,            \* the engine is up
  batchCrashes,       \* its crashes so far
  engineBatches,      \* the sessions it collects positions for, trips apart
  batchRefused,       \* history: what kinds of calls the engine has refused
  tripStarted         \* history: a trip was asked for

batchSessions == <<mBatchingSessions, mTripSessions, batchFull>>
batchEngine == <<batchUp, batchCrashes, engineBatches, batchRefused>>
batchEnv == <<batchIds, batchCommands, tripStarted>>
batchPending == <<capabilitiesKnown, mPendingMsgs>>
batchVars == <<batchSessions, batchClients, batchPending, batchEnv, batchMsgs,
               batchCalls, batchEngine>>
-----------------------------------------------------------------------------
\* The engine has yet to come up for the first time.
BatchingInit ==
  /\ mBatchingSessions = <<>> /\ mTripSessions = {} /\ batchFull = FALSE
  /\ capabilitiesKnown = FALSE /\ mPendingMsgs = <<>>
  /\ batchClients = BatchClient /\ batchIds = 0 /\ batchCommands = 0
  /\ batchMsgs = <<>> /\ batchCalls = <<>>
  /\ batchUp = FALSE /\ batchCrashes = 0 /\ engineBatches = {}
  /\ batchRefused = {} /\ tripStarted = FALSE

\* A command or call about session k: mode is the one asked for, was the one it
\* had before.
BatchMsg(what, k, mode, was) == [what |-> what, key |-> k, mode |-> mode, was |-> was]

\* autoReportBatchingSessionsCount of sessions s and trips t
AutoReports(s, t) == Cardinality({k \in DOMAIN s : s[k] # "noAuto"}) + Cardinality(t)
-----------------------------------------------------------------------------
(* clients, which make no calls after they have asked to be removed *)

BatchClientActive(c) ==
  c \in batchClients /\ [what |-> "removeClient", client |-> c] \notin ToSet(batchMsgs)

\* startBatchingCommand, updateBatchingOptionsCommand, stopBatchingCommand
BatchCommand(m) ==
  /\ BatchClientActive(m.key.client) /\ batchCommands < MaxBatchCommands
  /\ batchCommands' = batchCommands + 1
  /\ batchMsgs' = Append(batchMsgs, m)
  /\ tripStarted' = (tripStarted \/ m.mode = "trip")
  /\ UNCHANGED <<batchSessions, batchClients, batchPending, batchCalls, batchEngine>>

StartBatchingCommand(c, mode) ==
  /\ batchIds < MaxBatching /\ batchIds' = batchIds + 1
  /\ BatchCommand(BatchMsg("start", Key(c, batchIds'), mode, None))

UpdateBatchingCommand(k, mode) ==
  k.id <= batchIds /\ UNCHANGED batchIds /\ BatchCommand(BatchMsg("update", k, mode, None))

StopBatchingCommand(k) ==
  k.id <= batchIds /\ UNCHANGED batchIds /\ BatchCommand(BatchMsg("stop", k, None, None))

\* removeClientCommand
BatchClientGoes(c) ==
  /\ BatchClientActive(c)
  /\ batchMsgs' = Append(batchMsgs, [what |-> "removeClient", client |-> c])
  /\ UNCHANGED <<batchSessions, batchClients, batchPending, batchEnv, batchCalls,
                 batchEngine>>
-----------------------------------------------------------------------------
(* the engine, behind LocApiBase *)

\* A session can only be stopped if it is there; trips are left out.
EngineBatching(call) ==
  engineBatches' = (engineBatches \ IF call.what = "stop" THEN {call.key} ELSE {})
                     \cup IF call.what \in {"start", "restart"} THEN {call.key} ELSE {}

BatchEngineHandles ==
  /\ batchCalls # <<>> /\ batchCalls' = Tail(batchCalls)
  /\ LET call == Head(batchCalls)
         Answer(ok) == batchMsgs' = Append(batchMsgs,
                         [what |-> "answer", ok |-> ok, call |-> call])
     IN \/ /\ batchUp /\ (call.what = "stop" => call.key \in engineBatches)
           /\ EngineBatching(call) /\ Answer(TRUE) /\ UNCHANGED batchRefused
        \/ /\ Answer(FALSE)
           /\ batchRefused' = batchRefused \cup {call.what}
           /\ UNCHANGED engineBatches
  /\ UNCHANGED <<batchSessions, batchClients, batchPending, batchEnv,
                 batchUp, batchCrashes>>

BatchEngineCrashes ==
  /\ batchUp /\ batchCrashes < MaxBatchCrashes
  /\ batchCrashes' = batchCrashes + 1 /\ batchUp' = FALSE /\ engineBatches' = {}
  /\ UNCHANGED <<batchSessions, batchClients, batchPending, batchEnv,
                 batchMsgs, batchCalls, batchRefused>>

\* handleEngineUpEvent
BatchEngineComesUp ==
  /\ ~batchUp /\ batchUp' = TRUE
  /\ batchMsgs' = Append(batchMsgs, [what |-> "engineUp"])
  /\ UNCHANGED <<batchSessions, batchClients, batchPending, batchEnv,
                 batchCalls, batchCrashes, engineBatches, batchRefused>>
-----------------------------------------------------------------------------
(* starting and stopping sessions: s, t and full are the sessions, the trips
   and the registration as the handler has left them so far *)

Call(what, k, mode, was) == batchCalls' = Append(batchCalls, BatchMsg(what, k, mode, was))

\* startBatching
StartRoutine(k, mode, s, t, full) ==
  /\ batchFull' = (full \/ (mode # "noAuto" /\ AutoReports(s, t) = 0))
  /\ mBatchingSessions' = With(s, k, mode) /\ mTripSessions' = t
  /\ Call("start", k, mode, None)

\* startTripBatchingMultiplex: only the first trip is saved in mBatchingSessions,
\* another one is saved nowhere until the engine has been queried.
StartTrip(k, s, t, full) ==
  \/ /\ t = {}
     /\ batchFull' = (full \/ AutoReports(s, t) = 0)
     /\ mBatchingSessions' = With(s, k, "trip") /\ mTripSessions' = {k}
     /\ Call("startTrip", k, "trip", None)
  \/ /\ t # {}
     /\ batchFull' = full /\ mBatchingSessions' = s /\ mTripSessions' = t
     /\ Call("query", k, "trip", None)

StartSession(k, mode, s, t, full) ==
  \/ mode # "trip" /\ StartRoutine(k, mode, s, t, full)
  \/ mode = "trip" /\ StartTrip(k, s, t, full)

\* stopBatching; mode is None unless the session is restarted.
StopRoutine(k, mode) ==
  /\ mBatchingSessions' = Without(mBatchingSessions, k)
  /\ Call("stop", k, mode, mBatchingSessions[k])
  /\ UNCHANGED <<mTripSessions, batchFull>>

\* stopTripBatchingMultiplexCommon.  If the trip is over by now the code reads
\* an entry that is not there, but of it only the length and the interval.
TripStopped(k, mode, full) ==
  \/ /\ mode = None
     /\ mTripSessions' = mTripSessions \ {k} /\ batchFull' = full
     /\ UNCHANGED <<mBatchingSessions, batchCalls>>
  \/ /\ mode # None
     /\ StartSession(k, mode, Without(mBatchingSessions, k), mTripSessions \ {k}, full)

\* stopTripBatchingMultiplex: the last trip is first stopped in the engine.
StopTrip(k, mode) ==
  \/ /\ Cardinality(mTripSessions) = 1
     /\ Call("stopTrip", k, mode, "trip") /\ UNCHANGED batchSessions
  \/ Cardinality(mTripSessions) # 1 /\ TripStopped(k, mode, batchFull)
-----------------------------------------------------------------------------
(* the adapter *)

BatchingTakes(what) ==
  /\ batchMsgs # <<>> /\ Head(batchMsgs).what = what
  /\ UNCHANGED <<batchEnv, batchEngine>>

\* Before the engine has come up, commands wait.
KeepPending ==
  /\ \E w \in {"start", "update", "stop"} : BatchingTakes(w)
  /\ ~capabilitiesKnown
  /\ mPendingMsgs' = Append(mPendingMsgs, Head(batchMsgs))
  /\ batchMsgs' = Tail(batchMsgs)
  /\ UNCHANGED <<batchSessions, batchClients, capabilitiesKnown, batchCalls>>

TakesCommand(what) ==
  /\ BatchingTakes(what) /\ capabilitiesKnown /\ batchMsgs' = Tail(batchMsgs)
  /\ UNCHANGED <<batchClients, batchPending>>

\* MsgStartBatching::proc: nothing happens without a callback (or, left out,
\* with bad parameters).
MsgStartBatching ==
  /\ TakesCommand("start")
  /\ LET m == Head(batchMsgs) IN
     \/ /\ m.key.client \in batchClients
        /\ StartSession(m.key, m.mode, mBatchingSessions, mTripSessions, batchFull)
     \/ /\ m.key.client \notin batchClients /\ UNCHANGED <<batchSessions, batchCalls>>

\* MsgUpdateBatching::proc and MsgStopBatching::proc: a session that is not in
\* mBatchingSessions is unknown.
MsgStopBatching ==
  /\ \E w \in {"update", "stop"} : TakesCommand(w)
  /\ LET m == Head(batchMsgs)
         known == m.key \in DOMAIN mBatchingSessions
     IN \/ ~known /\ UNCHANGED <<batchSessions, batchCalls>>
        \/ known /\ m.key \notin mTripSessions /\ StopRoutine(m.key, m.mode)
        \/ known /\ m.key \in mTripSessions /\ StopTrip(m.key, m.mode)

TakesAnswer(what, ok) ==
  /\ BatchingTakes("answer")
  /\ Head(batchMsgs).call.what = what /\ Head(batchMsgs).ok = ok
  /\ batchMsgs' = Tail(batchMsgs)
  /\ UNCHANGED <<batchClients, batchPending>>

\* The lambdas of startBatching and startTripBatchingMultiplex: nothing changes
\* if the engine has started the session.
Started ==
  /\ \E w \in {"start", "startTrip", "restart"} : TakesAnswer(w, TRUE)
  /\ UNCHANGED <<batchSessions, batchCalls>>

\* (mutant) the registration goes with the session
NoneLeft(s, t) == TRUE
NoReports(s, t) == AutoReports(s, t) = 0

\* If it has not, the session is erased again, and with the last one that
\* reports the registration.
StartFailed ==
  /\ \E w \in {"start", "startTrip"} : TakesAnswer(w, FALSE)
  /\ LET call == Head(batchMsgs).call IN
     /\ mBatchingSessions' = Without(mBatchingSessions, call.key)
     /\ mTripSessions' = mTripSessions \ IF call.what = "startTrip" THEN {call.key} ELSE {}
     /\ batchFull' = (batchFull /\ ~(call.mode # "noAuto"
                        /\ NoReports(mBatchingSessions', mTripSessions')))
  /\ UNCHANGED batchCalls

\* restartSessions does not look at the answers.
RestartFailed ==
  /\ TakesAnswer("restart", FALSE)
  /\ UNCHANGED <<batchSessions, batchCalls>>

\* Another trip runs once the engine has told how far the others have come.
TripQueried ==
  /\ \E ok \in BOOLEAN :
       /\ TakesAnswer("query", ok)
       /\ mTripSessions' = mTripSessions \cup IF ok THEN {Head(batchMsgs).call.key} ELSE {}
  /\ UNCHANGED <<mBatchingSessions, batchFull, batchCalls>>

\* The lambda of stopBatching.  A session whose stop fails is saved again with
\* the options of the command, which for a stop are the default ones.
Stopped ==
  /\ TakesAnswer("stop", TRUE)
  /\ LET call == Head(batchMsgs).call
         full == batchFull /\ ~(NoReports(mBatchingSessions, mTripSessions)
                                /\ call.was # "noAuto")
     IN \/ /\ call.mode = None /\ batchFull' = full
           /\ UNCHANGED <<mBatchingSessions, mTripSessions, batchCalls>>
        \/ /\ call.mode # None
           /\ StartSession(call.key, call.mode, mBatchingSessions, mTripSessions, full)

StopFailed ==
  /\ TakesAnswer("stop", FALSE)
  /\ LET call == Head(batchMsgs).call
         mode == IF call.mode = None THEN "routine" ELSE call.mode
     IN mBatchingSessions' = With(mBatchingSessions, call.key, mode)
  /\ UNCHANGED <<mTripSessions, batchFull, batchCalls>>

\* "unregister for batch full event if this was the last batching session that
\* is interested": the trip that is stopped is still in both maps.
CountIsOne == AutoReports(mBatchingSessions, mTripSessions) = 1

LastTripStopped ==
  \E ok \in BOOLEAN :
    /\ TakesAnswer("stopTrip", ok)
    /\ TripStopped(Head(batchMsgs).call.key, Head(batchMsgs).call.mode,
                   batchFull /\ ~(ok /\ CountIsOne))

\* reportCompletedTripsEvent and restartTripBatching: the engine says how far it
\* has come, and some trips are completed.
TripsCompleted ==
  /\ mTripSessions # {}
  /\ \E done \in SUBSET mTripSessions \ {{}} : mTripSessions' = mTripSessions \ done
  /\ batchFull' = (batchFull /\ (mTripSessions' # {}
                     \/ AutoReports(mBatchingSessions, {}) # 0))
  /\ UNCHANGED <<mBatchingSessions, batchClients, batchPending, batchEnv,
                 batchMsgs, batchCalls, batchEngine>>

\* updateClientsEventMask
UpdateClientsEventMask(s, t) == batchFull' = (AutoReports(s, t) > 0)

\* stopClientSessions: r is what is left of the trips and the calls made so far.
StopSessionOf(r, k) ==
  LET Stop(what) == [r EXCEPT !.calls =
                       Append(@, BatchMsg(what, k, None, mBatchingSessions[k]))]
  IN IF mBatchingSessions[k] # "trip" THEN Stop("stop")
     ELSE IF Cardinality(r.trips) = 1 THEN Stop("stopTrip")
     ELSE [r EXCEPT !.trips = @ \ {k}]

StopSessions(keys) ==
  LET r[i \in 0..Len(keys)] ==
        IF i = 0 THEN [trips |-> mTripSessions, calls |-> batchCalls]
                 ELSE StopSessionOf(r[i - 1], keys[i])
  IN r[Len(keys)]

\* MsgRemoveClient::proc
BatchRemoveClient ==
  /\ BatchingTakes("removeClient") /\ batchMsgs' = Tail(batchMsgs)
  /\ LET c == Head(batchMsgs).client
         mine == {k \in DOMAIN mBatchingSessions : k.client = c}
         r == StopSessions(ById(mine))
         kept == {k \in DOMAIN mBatchingSessions : k.client # c \/ mBatchingSessions[k] = "trip"}
     IN /\ mTripSessions' = r.trips /\ batchCalls' = r.calls
        /\ mBatchingSessions' = Restrict(mBatchingSessions, kept)
        /\ batchClients' = batchClients \ {c}
  /\ UpdateClientsEventMask(mBatchingSessions', mTripSessions')
  /\ UNCHANGED batchPending

\* (mutant) only sessions that report are restarted
ToReport == {k \in DOMAIN mBatchingSessions : mBatchingSessions[k] = "routine"}
\* restartSessions: those that are restarted one by one
ToRestart == {k \in DOMAIN mBatchingSessions : mBatchingSessions[k] # "trip"}

\* MsgSSREvent::proc: commands that waited are sent again.
BatchEngineUp ==
  /\ BatchingTakes("engineUp")
  /\ capabilitiesKnown' = TRUE /\ mPendingMsgs' = <<>>
  /\ batchMsgs' = Tail(batchMsgs) \o mPendingMsgs
  /\ batchFull' = (batchFull \/ AutoReports(mBatchingSessions, mTripSessions) > 0)
  /\ LET keys == ById(ToRestart) IN
     batchCalls' = batchCalls \o [i \in DOMAIN keys |->
       BatchMsg("restart", keys[i], mBatchingSessions[keys[i]], None)]
  /\ UNCHANGED <<mBatchingSessions, mTripSessions, batchClients>>
-----------------------------------------------------------------------------
BatchingStep ==
  \/ KeepPending \/ MsgStartBatching \/ MsgStopBatching
  \/ Started \/ StartFailed \/ RestartFailed \/ TripQueried
  \/ Stopped \/ StopFailed \/ LastTripStopped
  \/ TripsCompleted \/ BatchRemoveClient \/ BatchEngineUp
BatchEngineStep == BatchEngineHandles \/ BatchEngineCrashes \/ BatchEngineComesUp

BatchingNext ==
  \/ \E c \in BatchClient :
       \/ BatchClientGoes(c)
       \/ \E mode \in BatchingMode : StartBatchingCommand(c, mode)
       \/ \E id \in 1..MaxBatching :
            \/ StopBatchingCommand(Key(c, id))
            \/ \E mode \in BatchingMode : UpdateBatchingCommand(Key(c, id), mode)
  \/ BatchingStep \/ BatchEngineStep
-----------------------------------------------------------------------------
BatchKey == [client : BatchClient, id : 1..MaxBatching]

BatchingTypeOK ==
  /\ DOMAIN mBatchingSessions \subseteq BatchKey
  /\ \A k \in DOMAIN mBatchingSessions : mBatchingSessions[k] \in BatchingMode
  /\ mTripSessions \subseteq BatchKey /\ engineBatches \subseteq BatchKey
  /\ \A b \in {batchFull, capabilitiesKnown, batchUp, tripStarted} : b \in BOOLEAN
  /\ batchClients \subseteq BatchClient /\ batchIds \in 0..MaxBatching

BatchingQuiet == batchMsgs = <<>> /\ batchCalls = <<>> /\ batchUp

\* While no trip is started (see BatchFullUnregistered) and the engine refuses
\* no stop, BATCH_FULL stays registered while a session reports: sessions that
\* fail to start, stop, change their mode or go with their client leave the
\* others theirs (autoReportBatchingSessionsCount, gps/batching/BatchingAdapter.cpp).
AutoReportRegistered ==
  "stop" \notin batchRefused /\ ~tripStarted =>
    (AutoReports(mBatchingSessions, mTripSessions) > 0 => batchFull)

\* While no trip is started and the engine refuses nothing, once everything
\* under way has been handled it collects positions for the sessions that the
\* adapter keeps and for no others, although restartSessions races with commands
\* and their answers (gps/batching/BatchingAdapter.cpp).
BatchingServed ==
  BatchingQuiet /\ batchRefused = {} /\ ~tripStarted =>
    engineBatches = DOMAIN mBatchingSessions

\* "if stopOutdoorTripBatching is success, unregister for batch full event if
\* this was the last batching session that is interested in batch full event":
\* when the engine has stopped the last trip and no other session reports,
\* BATCH_FULL is not registered any more (stopTripBatchingMultiplex,
\* gps/batching/BatchingAdapter.cpp).
BatchFullUnregistered ==
  [][LET call == Head(batchMsgs).call
         others == DOMAIN mBatchingSessions' \ {call.key}
     IN TakesAnswer("stopTrip", TRUE) /\ call.mode = None /\ mTripSessions' = {}
          /\ (\A k \in others : mBatchingSessions[k] = "noAuto")
        => ~batchFull']_batchVars
=============================================================================
