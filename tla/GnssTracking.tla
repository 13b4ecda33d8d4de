---------------------------- MODULE GnssTracking ----------------------------
(***************************************************************************)
(* Tracking sessions of GnssAdapter (gps/gnss/GnssAdapter.cpp).            *)
(*                                                                         *)
(* Client threads post commands on the adapter's MsgTask.  The adapter     *)
(* thread keeps one map of time based and one of distance based sessions   *)
(* and multiplexes the time based ones on a single engine session: it asks *)
(* the LocApi for the smallest interval and power mode.  Every such call   *)
(* is a message on the LocApi's own MsgTask; when that thread has called   *)
(* the engine it posts the outcome back to the adapter, whose lambda       *)
(* finishes the command.  The engine can fail a call, and can crash and be *)
(* reopened (SSR), after which the adapter restarts its sessions.          *)
(***************************************************************************)
EXTENDS Integers, Sequences, FiniteSets

CONSTANTS
  Client,             \* LocationAPI instances
  MuteClient,         \* those created without any callback tracking needs
  MaxId,              \* bound: session ids handed out
  Interval,           \* the minInterval values clients ask for
  Power,              \* the powerMode values clients ask for
  Distance,           \* the values of minDistance > 0 clients ask for
  MinTrackingInterval,\* MIN_TRACKING_INTERVAL
  DistanceSupported,  \* LOC_API_ADAPTER_MESSAGE_DISTANCE_BASE_TRACKING
  EngineMayFail,      \* whether a call on a running engine may fail
  MaxQueue,           \* bound: messages waiting when a client posts one
  MaxUpdates, MaxStops, MaxCrashes, MaxReconfigs, MaxNHz,   \* bounds on those events
  Nobody              \* no client

ASSUME TrackingAssumption ==
  /\ MuteClient \subseteq Client
  /\ Nobody \notin Client
  /\ MaxId \in Nat /\ MaxQueue \in Nat
  /\ {MaxUpdates, MaxStops, MaxCrashes, MaxReconfigs, MaxNHz} \subseteq Nat
  /\ Interval \subseteq Nat /\ Power \subseteq Nat
  /\ MinTrackingInterval \in Nat \ {0}
  /\ Distance \subseteq BOOLEAN
  /\ DistanceSupported \in BOOLEAN /\ EngineMayFail \in BOOLEAN

VARIABLES
  (* client threads *)
  phase,        \* phase[c]: "new", "alive" or "destroyed"
  owner,        \* owner[id]: the client that generateSessionId gave id to
  due,          \* due[id]: commands on id less the responses delivered
  budget,       \* what is left of the bounds on repeatable events
  (* adapter thread *)
  adapterQ,     \* its MsgTask
  loop,         \* the loop of a handler that the thread is in
  registered,   \* mClientData: the clients the adapter knows
  timeS,        \* mTimeBasedTrackingSessions
  distS,        \* mDistanceBasedTrackingSessions
  caps,         \* mIsEngineCapabilitiesKnown
  pending,      \* mPendingMsgs
  nhz,          \* mNHzNeeded
  spe,          \* mSPEAlreadyRunningAtHighestInterval
  hub,          \* the engine hub was told that a fix is in progress
  (* LocApi thread and engine *)
  apiQ,         \* its MsgTask
  engine,       \* the fix the engine runs
  (* history *)
  asked,        \* the last time based request the adapter made of the LocApi
  stopped       \* ids whose stop was carried out

clientVars == <<phase, owner, budget>>
sessionVars == <<timeS, distS, registered>>
engineCall == <<hub, spe, asked, apiQ>>
vars == <<phase, owner, due, budget, adapterQ, loop, registered, timeS, distS,
          caps, pending, nhz, spe, hub, apiQ, engine, asked, stopped>>
-----------------------------------------------------------------------------
(* Data *)

Id == 1 .. MaxId
INVALID == 0        \* GNSS_POWER_MODE_INVALID

\* TrackingOptions; dist is minDistance > 0.
Options == [interval : Nat, power : Nat, dist : BOOLEAN]
ClientOptions == [interval : Interval, power : Power, dist : Distance]
NoOptions == [interval |-> 0, power |-> INVALID, dist |-> FALSE]

\* The lambdas that LocApiResponse carries, named for the call they finish.
Reply == {"started", "updated", "stopped", "stoppedDist", "removedDist",
          "switch", "restart", "restarted"}
SessionMessage == [kind : {"Start", "Update", "Stop"} \cup Reply, id : Id,
                   who : {Nobody}, opts : Options, ok : BOOLEAN]
ClientMessage == [kind : {"Add", "Remove"}, id : {0}, who : Client,
                  opts : {NoOptions}, ok : {TRUE}]
EngineMessage == [kind : {"EngineUp", "Reconfig"}, id : {0}, who : {Nobody},
                  opts : {NoOptions}, ok : {TRUE}]
Message == SessionMessage \cup ClientMessage \cup EngineMessage
Session(kind, id, o) ==
  [kind |-> kind, id |-> id, who |-> Nobody, opts |-> o, ok |-> TRUE]
About(kind, c) ==
  [kind |-> kind, id |-> 0, who |-> c, opts |-> NoOptions, ok |-> TRUE]

\* LocApiMsg: a call of the engine and the LocApiResponse that returns it,
\* NoReply where the adapter passes none or an empty lambda.
ApiOp == {"open", "ssr", "startTime", "stopTime", "startDist", "stopDist"}
NoReply == Session("none", 0, NoOptions)
ApiMessage == [op : ApiOp, opts : Options, reply : SessionMessage \cup {NoReply}]
Call(op, o, reply) == [op |-> op, opts |-> o, reply |-> reply]

\* a time based request of the LocApi
Off == [on |-> FALSE, interval |-> 0, power |-> INVALID]
On(o) == [on |-> TRUE, interval |-> o.interval, power |-> o.power]
Idle == [what |-> "none", left |-> {}, who |-> Nobody]
Doing(what, ids, c) == [what |-> what, left |-> ids, who |-> c]

IsDistance(o) == o.dist /\ DistanceSupported
With(sessions, id, o) ==
  [i \in DOMAIN sessions \cup {id} |-> IF i = id THEN o ELSE sessions[i]]
Without(sessions, id) == [i \in DOMAIN sessions \ {id} |-> sessions[i]]

\* minInterval is raised to MIN_TRACKING_INTERVAL.
Clamp(o) == [o EXCEPT !.interval = IF @ < MinTrackingInterval
                                   THEN MinTrackingInterval ELSE @]

\* (mutant) the loop never replaces its first choice
FirstInMap(S, id) == id \in S /\ \A i \in S : id <= i
\* id has the smallest minInterval of S, the first in map order.
FirstSmallest(S, id) ==
  /\ id \in S
  /\ \A i \in S : \/ timeS[id].interval < timeS[i].interval
                  \/ timeS[id].interval = timeS[i].interval /\ id <= i

\* p is multiplexedPowerMode after the loop over S in map order: an INVALID
\* value is overwritten by whatever comes next.
MultiplexedPower(S, p) ==
  LET after == {i \in S : \A j \in S : timeS[j].power = INVALID => j < i}
  IN IF after = {} THEN p = INVALID
     ELSE /\ \E i \in after : p = timeS[i].power
          /\ \A i \in after : p <= timeS[i].power

\* p is the power mode a restart uses: the smallest valid one, unless the
\* first session in map order has none.
RestartPower(S, p) ==
  \E first \in S :
    /\ \A i \in S : first <= i
    /\ \/ timeS[first].power = INVALID /\ p = INVALID
       \/ /\ timeS[first].power # INVALID
          /\ \E i \in S : p = timeS[i].power /\ p # INVALID
          /\ \A i \in S : timeS[i].power # INVALID => p <= timeS[i].power
-----------------------------------------------------------------------------
(* What handlers do on the adapter thread *)

\* reportResponse: dropped when the client is gone.
Report(id) ==
  due' = IF owner[id] \in registered THEN [due EXCEPT ![id] = @ - 1] ELSE due

\* (mutant) the engine's support for distance based tracking is not looked at
SaveAsTime(id, o) == timeS' = With(timeS, id, o) /\ UNCHANGED distS
\* saveTrackingSession
Save(id, o) ==
  IF IsDistance(o)
  THEN distS' = With(distS, id, o) /\ UNCHANGED timeS
  ELSE timeS' = With(timeS, id, o) /\ UNCHANGED distS

\* eraseTrackingSession
Erase(id) ==
  IF id \in DOMAIN timeS
  THEN timeS' = Without(timeS, id) /\ UNCHANGED distS
  ELSE distS' = Without(distS, id) /\ UNCHANGED timeS

\* checkAndSetSPEToRunforNHz: the interval asked for.
SpeInterval(needed, o) ==
  IF needed /\ o.interval > MinTrackingInterval
  THEN [o EXCEPT !.interval = MinTrackingInterval] ELSE o

\* startTimeBasedTracking and updateTracking; more is what the handler posts
\* on the LocApi after it.
TellEngine(id, o, reply, more) ==
  /\ hub' = TRUE
  /\ IF nhz /\ spe
     THEN /\ apiQ' = apiQ \o more
          /\ UNCHANGED <<spe, asked>>
          /\ Report(id)
     ELSE LET o2 == SpeInterval(nhz, o)
          IN /\ apiQ' = Append(apiQ, Call("startTime", o2, reply)) \o more
             /\ spe' = (spe \/ o2 # o)
             /\ asked' = On(o2)
             /\ UNCHANGED due

\* (mutant) answers also while a client is being removed
NoCallAnswers(id, answer, more) ==
  apiQ' = apiQ \o more /\ UNCHANGED <<hub, spe, asked>> /\ Report(id)
\* No call is made; the client is answered at once when answer holds.
NoCall(id, answer, more) ==
  /\ apiQ' = apiQ \o more
  /\ UNCHANGED <<hub, spe, asked>>
  /\ IF answer THEN Report(id) ELSE UNCHANGED due

PowersOf(S) == {timeS[i].power : i \in S}

\* startTimeBasedTrackingMultiplex
StartMultiplex(id, o) ==
  LET started == Session("started", id, NoOptions)
      S == DOMAIN timeS
  IN IF S = {} THEN TellEngine(id, o, started, <<>>)
     ELSE \E k \in S, p \in PowersOf(S) :
       /\ FirstSmallest(S, k) /\ MultiplexedPower(S, p)
       /\ IF o.interval < timeS[k].interval \/ o.power < p
          THEN TellEngine(id,
                 [timeS[k] EXCEPT !.interval = IF o.interval < @ THEN o.interval ELSE @,
                                  !.power = IF o.power < p THEN o.power ELSE @],
                 started, <<>>)
          ELSE NoCall(id, TRUE, <<>>)

\* updateTrackingMultiplex: the lambda keeps the old options.
UpdateMultiplex(id, o) ==
  LET updated == Session("updated", id, timeS[id])
      S == DOMAIN timeS \ {id}
  IN IF timeS[id].interval = o.interval /\ timeS[id].power = o.power
     THEN NoCall(id, TRUE, <<>>)
     ELSE IF S = {} THEN TellEngine(id, o, updated, <<>>)
     ELSE \E k \in S, p \in PowersOf(S) :
       /\ FirstSmallest(S, k) /\ MultiplexedPower(S, p)
       /\ IF o.interval < timeS[k].interval \/ o.power < p
          THEN TellEngine(id,
                 [timeS[k] EXCEPT !.interval = IF o.interval < @ THEN o.interval ELSE @,
                                  !.power = IF o.power < p THEN o.power ELSE @],
                 updated, <<>>)
          ELSE NoCall(id, TRUE, <<>>)

\* stopTimeBasedTrackingMultiplex and stopTracking
StopMultiplex(id, answer, more) ==
  LET S == DOMAIN timeS \ {id}
  IN IF S = {}
     THEN /\ hub' = FALSE /\ spe' = FALSE /\ asked' = Off
          /\ apiQ' = Append(apiQ, Call("stopTime", NoOptions,
                                       Session("stopped", id, NoOptions))) \o more
          /\ UNCHANGED due
     ELSE \E k \in S, p \in PowersOf(S) :
       /\ FirstSmallest(S, k) /\ MultiplexedPower(S, p)
       /\ IF timeS[id].interval < timeS[k].interval \/ timeS[id].power < p
          THEN TellEngine(id, [timeS[k] EXCEPT !.power = p],
                          Session("started", id, NoOptions), more)
          ELSE NoCall(id, answer, more)

\* (mutant) mSPEAlreadyRunningAtHighestInterval is not reset before a restart
RestartUnlessSpe(needed, before) ==
  LET S == DOMAIN timeS
  IN IF S = {} \/ (needed /\ spe)
     THEN apiQ' = apiQ \o before /\ UNCHANGED <<spe, asked>>
     ELSE \E k \in S :
       /\ FirstSmallest(S, k)
       /\ LET o2 == SpeInterval(needed, timeS[k])
          IN /\ apiQ' = Append(apiQ \o before, Call("startTime", o2, NoReply))
             /\ spe' = (spe \/ o2 # timeS[k])
             /\ asked' = On(o2)
\* checkAndRestartTimeBasedSession, posted after the calls in before.
RestartTime(needed, before) ==
  LET S == DOMAIN timeS
  IN IF S = {}
     THEN apiQ' = apiQ \o before /\ spe' = FALSE /\ UNCHANGED asked
     ELSE \E k \in S, p \in PowersOf(S) :
       /\ FirstSmallest(S, k) /\ RestartPower(S, p)
       /\ LET o == [timeS[k] EXCEPT !.power = p]
              o2 == SpeInterval(needed, o)
          IN /\ apiQ' = Append(apiQ \o before, Call("startTime", o2, NoReply))
             /\ spe' = (o2 # o)
             /\ asked' = On(o2)

\* the loop over the distance based sessions that ends a restart
RestartDistance(what) == loop' = Doing(what, DOMAIN distS, Nobody)
-----------------------------------------------------------------------------
(* Client threads: each call posts one message under gDataMutex *)

Post(m) ==
  /\ Len(adapterQ) < MaxQueue
  /\ adapterQ' = Append(adapterQ, m)
  /\ UNCHANGED <<sessionVars, engineCall, caps, pending, nhz, loop, engine, stopped>>

\* LocationAPI::createInstance: addClientCommand
Create(c) ==
  /\ phase[c] = "new"
  /\ phase' = [phase EXCEPT ![c] = "alive"]
  /\ Post(About("Add", c))
  /\ UNCHANGED <<owner, due, budget>>

\* LocationAPI::destroy: removeClientCommand
Destroy(c) ==
  /\ phase[c] = "alive"
  /\ phase' = [phase EXCEPT ![c] = "destroyed"]
  /\ Post(About("Remove", c))
  /\ UNCHANGED <<owner, due, budget>>

\* startTrackingCommand: generateSessionId counts up.
StartTracking(c, o) ==
  /\ phase[c] = "alive"
  /\ \E id \in Id :
       /\ owner[id] = Nobody /\ \A i \in Id : i < id => owner[i] # Nobody
       /\ owner' = [owner EXCEPT ![id] = c]
       /\ due' = [due EXCEPT ![id] = 1]
       /\ Post(Session("Start", id, o))
  /\ UNCHANGED <<phase, budget>>

\* updateTrackingOptionsCommand
UpdateTracking(id, o) ==
  /\ owner[id] # Nobody /\ phase[owner[id]] = "alive"
  /\ budget.updates > 0
  /\ budget' = [budget EXCEPT !.updates = @ - 1]
  /\ due' = [due EXCEPT ![id] = @ + 1]
  /\ Post(Session("Update", id, o))
  /\ UNCHANGED <<phase, owner>>

\* stopTrackingCommand
StopTracking(id) ==
  /\ owner[id] # Nobody /\ phase[owner[id]] = "alive"
  /\ budget.stops > 0
  /\ budget' = [budget EXCEPT !.stops = @ - 1]
  /\ due' = [due EXCEPT ![id] = @ + 1]
  /\ Post(Session("Stop", id, NoOptions))
  /\ UNCHANGED <<phase, owner>>

\* The control client changes a setting that needs the engine stopped
\* (gnssUpdateConfigCommand, gnssUpdateSvConfigCommand, configMinGpsWeek).
UpdateConfig ==
  /\ budget.reconfigs > 0
  /\ budget' = [budget EXCEPT !.reconfigs = @ - 1]
  /\ Post(About("Reconfig", Nobody))
  /\ UNCHANGED <<phase, owner, due>>
-----------------------------------------------------------------------------
(* The adapter thread: one message at a time *)

Head1 == Head(adapterQ)
Take(kind) ==
  /\ loop = Idle /\ adapterQ # <<>> /\ Head1.kind = kind
  /\ adapterQ' = Tail(adapterQ)
  /\ UNCHANGED <<clientVars, engine>>

\* MsgAddClient
AddClient ==
  /\ Take("Add")
  /\ registered' = registered \cup {Head1.who}
  /\ UNCHANGED <<timeS, distS, due, engineCall, caps, pending, nhz, loop, stopped>>

\* A distance based command has to wait for the engine's capabilities.
MustWait == ~caps /\ Head1.opts.dist
\* (mutant) the copy of the message is not kept
WaitForgotten ==
  UNCHANGED <<sessionVars, due, engineCall, caps, pending, nhz, loop, stopped>>
Wait ==
  /\ pending' = Append(pending, Head1)
  /\ UNCHANGED <<sessionVars, due, engineCall, caps, nhz, loop, stopped>>

\* MsgStartTracking.  err is set but never reported when the client is gone
\* or has none of the callbacks (hasCallbacksToStartTracking).
HasCallbacks(c) == c \in registered \ MuteClient
Start ==
  LET id == Head1.id
      o == Clamp(Head1.opts)
  IN /\ Take("Start")
     /\ \/ MustWait /\ Wait
        \/ /\ ~MustWait /\ ~HasCallbacks(owner[id])
           /\ UNCHANGED <<sessionVars, due, engineCall, caps, pending, nhz, loop, stopped>>
        \/ /\ ~MustWait /\ HasCallbacks(owner[id])
           /\ Save(id, o)
           /\ IF IsDistance(o)
              THEN /\ apiQ' = Append(apiQ, Call("startDist", o, Session("started", id, NoOptions)))
                   /\ UNCHANGED <<hub, spe, asked, due>>
              ELSE StartMultiplex(id, o)
           /\ UNCHANGED <<registered, caps, pending, nhz, loop, stopped>>

\* MsgUpdateTracking
Update ==
  LET id == Head1.id
      o == Clamp(Head1.opts)
      isTime == id \in DOMAIN timeS
      isDistance == id \in DOMAIN distS
      StopDist(kind) ==
        /\ apiQ' = Append(apiQ, Call("stopDist", NoOptions, Session(kind, id, o)))
        /\ UNCHANGED <<hub, spe, asked, due>>
  IN /\ Take("Update")
     /\ \/ MustWait /\ Wait
        \/ /\ ~MustWait
           /\ \/ /\ ~isTime /\ ~isDistance        \* LOCATION_ERROR_ID_UNKNOWN
                 /\ Report(id)
                 /\ UNCHANGED <<timeS, distS, engineCall>>
              \/ /\ isTime /\ o.dist              \* time based to distance based
                 /\ StopMultiplex(id, TRUE, <<Call("startDist", o, NoReply)>>)
                 /\ IF IsDistance(o)
                    THEN timeS' = Without(timeS, id) /\ distS' = With(distS, id, o)
                    ELSE timeS' = With(timeS, id, o) /\ UNCHANGED distS
              \/ /\ isDistance /\ ~o.dist         \* distance based to time based
                 /\ Erase(id)
                 /\ StopDist("switch")
              \/ /\ isTime /\ ~isDistance /\ ~o.dist
                 /\ Save(id, o)
                 /\ UpdateMultiplex(id, o)
              \/ /\ isDistance /\ ~isTime /\ o.dist
                 /\ StopDist("restart")
                 /\ UNCHANGED <<timeS, distS>>
           /\ UNCHANGED <<registered, caps, pending, nhz, loop, stopped>>

\* MsgStopTracking
Stop ==
  LET id == Head1.id
      isTime == id \in DOMAIN timeS
      isDistance == id \in DOMAIN distS
  IN /\ Take("Stop")
     /\ \/ /\ isTime
           /\ StopMultiplex(id, TRUE, <<>>)
           /\ Erase(id)
           /\ stopped' = stopped \cup {id}
        \/ /\ ~isTime /\ isDistance
           /\ apiQ' = Append(apiQ, Call("stopDist", NoOptions,
                                        Session("stoppedDist", id, NoOptions)))
           /\ UNCHANGED <<timeS, distS, hub, spe, asked, due, stopped>>
        \/ /\ ~isTime /\ ~isDistance              \* LOCATION_ERROR_ID_UNKNOWN
           /\ Report(id)
           /\ stopped' = stopped \cup {id}
           /\ UNCHANGED <<timeS, distS, engineCall>>
     /\ UNCHANGED <<registered, caps, pending, nhz, loop>>

\* MsgRemoveClient: stopClientSessions goes through the client's sessions in
\* map order, then eraseClient.
SessionsOf(c, sessions) == {id \in DOMAIN sessions : owner[id] = c}
\* (mutant) time based sessions are forgotten
RemoveDistanceOnly ==
  /\ Take("Remove")
  /\ loop' = Doing("removeDist", SessionsOf(Head1.who, distS), Head1.who)
  /\ UNCHANGED <<sessionVars, due, engineCall, caps, pending, nhz, stopped>>
Remove ==
  /\ Take("Remove")
  /\ loop' = Doing("remove", SessionsOf(Head1.who, timeS), Head1.who)
  /\ UNCHANGED <<sessionVars, due, engineCall, caps, pending, nhz, stopped>>

\* MsgHandleEngineUpEvent
EngineUp ==
  /\ Take("EngineUp")
  /\ caps' = TRUE
  /\ hub' = (hub \/ DOMAIN timeS # {})
  /\ RestartTime(nhz, <<>>)
  /\ RestartDistance("engineUp")
  /\ UNCHANGED <<sessionVars, due, pending, nhz, stopped>>

\* suspendSessions, the setting itself, restartSessions
Reconfig ==
  /\ Take("Reconfig")
  /\ hub' = (hub \/ DOMAIN timeS # {})
  /\ RestartTime(nhz, IF DOMAIN timeS = {} THEN <<>>
                      ELSE <<Call("stopTime", NoOptions, NoReply)>>)
  /\ RestartDistance("restart")
  /\ UNCHANGED <<sessionVars, due, caps, pending, nhz, stopped>>

\* The engine hub turns the NHz requirement on or off (updateNHzRequirementCb).
SetNHz ==
  /\ loop = Idle /\ budget.nhz > 0
  /\ budget' = [budget EXCEPT !.nhz = @ - 1]
  /\ nhz' = ~nhz
  /\ RestartTime(nhz', <<>>)
  /\ RestartDistance("restart")
  /\ UNCHANGED <<phase, owner, due, adapterQ, sessionVars, caps, pending, hub,
                 engine, stopped>>

\* One turn of the loop a handler is in, or its end.
Next1(id) == id \in loop.left /\ \A i \in loop.left : id <= i
Turn(id) == Next1(id) /\ loop' = [loop EXCEPT !.left = @ \ {id}]

RemoveTimeSession ==
  /\ loop.what = "remove"
  /\ \/ \E id \in loop.left :
          /\ Turn(id)
          /\ StopMultiplex(id, FALSE, <<>>)
          /\ Erase(id)
     \/ /\ loop.left = {}
        /\ loop' = Doing("removeDist", SessionsOf(loop.who, distS), loop.who)
        /\ UNCHANGED <<timeS, distS, due, engineCall>>
  /\ UNCHANGED <<clientVars, adapterQ, registered, caps, pending, nhz, engine, stopped>>

RemoveDistanceSession ==
  /\ loop.what = "removeDist"
  /\ \/ \E id \in loop.left :
          /\ Turn(id)
          /\ apiQ' = Append(apiQ, Call("stopDist", NoOptions,
                                       Session("removedDist", id, NoOptions)))
          /\ UNCHANGED registered
     \/ /\ loop.left = {}
        /\ loop' = Idle
        /\ registered' = registered \ {loop.who}
        /\ UNCHANGED apiQ
  /\ UNCHANGED <<clientVars, adapterQ, timeS, distS, due, hub, spe, asked, caps,
                 pending, nhz, engine, stopped>>

RestartDistanceSession ==
  /\ loop.what \in {"restart", "engineUp"}
  /\ \/ \E id \in loop.left :
          /\ Turn(id)
          /\ apiQ' = Append(apiQ, Call("startDist", distS[id], NoReply))
          /\ UNCHANGED <<adapterQ, pending>>
     \/ /\ loop.left = {}
        /\ loop' = Idle
        /\ IF loop.what = "engineUp"           \* mPendingMsgs are sent again
           THEN adapterQ' = adapterQ \o pending /\ pending' = <<>>
           ELSE UNCHANGED <<adapterQ, pending>>
        /\ UNCHANGED apiQ
  /\ UNCHANGED <<clientVars, sessionVars, due, hub, spe, asked, caps, nhz, engine, stopped>>
-----------------------------------------------------------------------------
(* The lambdas of LocApiResponse, run by the adapter thread *)

Finish(kind) ==
  /\ Take(kind)
  /\ UNCHANGED <<registered, caps, pending, nhz, loop>>

\* of startTimeBasedTracking, and of startDistanceBasedTracking in a start
Started ==
  /\ Finish("started")
  /\ IF Head1.ok THEN UNCHANGED <<timeS, distS>> ELSE Erase(Head1.id)
  /\ Report(Head1.id)
  /\ UNCHANGED <<engineCall, stopped>>

\* (mutant) the outcome of the update is not looked at
UpdatedAlways ==
  /\ Finish("updated")
  /\ Save(Head1.id, Head1.opts)
  /\ Report(Head1.id)
  /\ UNCHANGED <<engineCall, stopped>>
\* of updateTracking: the old options are restored.
Updated ==
  /\ Finish("updated")
  /\ IF Head1.ok THEN UNCHANGED <<timeS, distS>> ELSE Save(Head1.id, Head1.opts)
  /\ Report(Head1.id)
  /\ UNCHANGED <<engineCall, stopped>>

\* of stopTracking, stopTrackingCommand and stopClientSessions
Stopped ==
  /\ \/ Finish("stopped") /\ Report(Head1.id) /\ UNCHANGED <<timeS, distS, stopped>>
     \/ /\ Finish("stoppedDist") /\ Report(Head1.id)
        /\ IF Head1.ok THEN Erase(Head1.id) /\ stopped' = stopped \cup {Head1.id}
                       ELSE UNCHANGED <<timeS, distS, stopped>>
     \/ /\ Finish("removedDist")
        /\ IF Head1.ok THEN Erase(Head1.id) ELSE UNCHANGED <<timeS, distS>>
        /\ UNCHANGED <<due, stopped>>
  /\ UNCHANGED engineCall

\* of updateTrackingOptionsCommand, distance based to time based
Switched ==
  /\ Finish("switch")
  /\ Save(Head1.id, Head1.opts)
  /\ StartMultiplex(Head1.id, Head1.opts)
  /\ UNCHANGED stopped

\* of updateTrackingOptionsCommand, distance based to distance based: when the
\* stop fails nothing more happens.
Restarted ==
  /\ \/ /\ Finish("restart")
        /\ apiQ' = IF Head1.ok
                   THEN Append(apiQ, Call("startDist", Head1.opts,
                                          Session("restarted", Head1.id, Head1.opts)))
                   ELSE apiQ
        /\ UNCHANGED <<timeS, distS, due>>
     \/ /\ Finish("restarted")
        /\ IF Head1.ok THEN Save(Head1.id, Head1.opts) ELSE UNCHANGED <<timeS, distS>>
        /\ Report(Head1.id)
        /\ UNCHANGED apiQ
  /\ UNCHANGED <<hub, spe, asked, stopped>>
-----------------------------------------------------------------------------
(* The LocApi thread and the engine *)

\* SynergyLocApi runs both kinds of tracking on one fix (sllStartFix,
\* sllStopFix).  A call fails when the engine is down, and may fail otherwise.
\* (mutant) stopFix of the running fix is lost
ApplyNoStop(op, o) ==
  IF op = "stopTime" THEN engine
  ELSE [up |-> TRUE, on |-> op \in {"startTime", "startDist"}, interval |-> o.interval]
Apply(op, o) ==
  CASE op \in {"startTime", "startDist"} ->
         [engine EXCEPT !.on = TRUE, !.interval = o.interval]
    [] op \in {"stopTime", "stopDist"} -> [engine EXCEPT !.on = FALSE]
    [] OTHER -> [up |-> TRUE, on |-> FALSE, interval |-> 0]

ApiOutcome(m) ==
  LET opens == m.op \in {"open", "ssr"}
  IN {ok \in BOOLEAN : \/ ok /\ (opens \/ engine.up)
                       \/ ~ok /\ (EngineMayFail \/ (~opens /\ ~engine.up))}

\* (mutant) a call made without a LocApiResponse is answered too
ApiStepAnswersAll ==
  /\ apiQ # <<>> /\ apiQ' = Tail(apiQ)
  /\ LET m == Head(apiQ)
     IN \E ok \in ApiOutcome(m) :
          /\ engine' = IF ok THEN Apply(m.op, m.opts) ELSE engine
          /\ adapterQ' = Append(adapterQ, [m.reply EXCEPT !.ok = ok])
  /\ UNCHANGED <<clientVars, due, sessionVars, hub, spe, asked, caps, pending, nhz,
                 loop, stopped>>
\* LocApiMsg, LocOpenMsg and LocSsrMsg
ApiStep ==
  /\ apiQ # <<>>
  /\ apiQ' = Tail(apiQ)
  /\ LET m == Head(apiQ)
     IN \E ok \in ApiOutcome(m) :
          /\ engine' = IF ok THEN Apply(m.op, m.opts) ELSE engine
          /\ adapterQ' =
               IF m.op \in {"open", "ssr"}
               THEN IF ok THEN Append(adapterQ, About("EngineUp", Nobody)) ELSE adapterQ
               ELSE IF m.reply = NoReply THEN adapterQ
               ELSE Append(adapterQ, [m.reply EXCEPT !.ok = ok])
  /\ UNCHANGED <<clientVars, due, sessionVars, hub, spe, asked, caps, pending, nhz,
                 loop, stopped>>

\* The engine goes down and the LocApi is told (handleEngineDownEvent).
Crash ==
  /\ engine.up /\ budget.crashes > 0
  /\ budget' = [budget EXCEPT !.crashes = @ - 1]
  /\ engine' = [engine EXCEPT !.up = FALSE, !.on = FALSE]
  /\ apiQ' = Append(apiQ, Call("ssr", NoOptions, NoReply))
  /\ UNCHANGED <<phase, owner, due, adapterQ, sessionVars, hub, spe, asked, caps,
                 pending, nhz, loop, stopped>>
-----------------------------------------------------------------------------
(* Specification *)

EmptyMap == [i \in {} |-> NoOptions]
Init ==
  /\ phase = [c \in Client |-> "new"]
  /\ owner = [id \in Id |-> Nobody]
  /\ due = [id \in Id |-> 0]
  /\ budget = [updates |-> MaxUpdates, stops |-> MaxStops, crashes |-> MaxCrashes,
               reconfigs |-> MaxReconfigs, nhz |-> MaxNHz]
  /\ adapterQ = <<>> /\ loop = Idle
  /\ registered = {}
  /\ timeS = EmptyMap /\ distS = EmptyMap
  /\ caps = FALSE /\ pending = <<>>
  /\ nhz = FALSE /\ spe = FALSE /\ hub = FALSE
  /\ apiQ = <<Call("open", NoOptions, NoReply)>>       \* addAdapter
  /\ engine = [up |-> FALSE, on |-> FALSE, interval |-> 0]
  /\ asked = Off /\ stopped = {}

ClientThread ==
  \/ \E c \in Client : Create(c) \/ Destroy(c)
  \/ \E c \in Client, o \in ClientOptions : StartTracking(c, o)
  \/ \E id \in Id : \E o \in ClientOptions : UpdateTracking(id, o)
  \/ \E id \in Id : StopTracking(id)
  \/ UpdateConfig

AdapterThread ==
  \/ AddClient \/ Start \/ Update \/ Stop \/ Remove \/ EngineUp \/ Reconfig
  \/ RemoveTimeSession \/ RemoveDistanceSession \/ RestartDistanceSession
  \/ Started \/ Updated \/ Stopped \/ Switched \/ Restarted

Next == ClientThread \/ AdapterThread \/ SetNHz \/ ApiStep \/ Crash

Spec == Init /\ [][Next]_vars

\* Both MsgTask threads run whatever is in their queue.
FairSpec == Spec /\ WF_vars(AdapterThread) /\ WF_vars(ApiStep)
-----------------------------------------------------------------------------
(* Properties *)

Sessions(f) == DOMAIN f \subseteq Id /\ f \in [DOMAIN f -> Options]
ClientType ==
  /\ phase \in [Client -> {"new", "alive", "destroyed"}]
  /\ owner \in [Id -> Client \cup {Nobody}]
  /\ budget \in [updates : Nat, stops : Nat, crashes : Nat, reconfigs : Nat, nhz : Nat]
AdapterType ==
  /\ adapterQ \in Seq(Message) /\ pending \in Seq(Message)
  /\ loop \in [what : {"none", "remove", "removeDist", "restart", "engineUp"},
               left : SUBSET Id, who : Client \cup {Nobody}]
  /\ caps \in BOOLEAN /\ nhz \in BOOLEAN
SessionType ==
  /\ registered \in SUBSET Client
  /\ Sessions(timeS) /\ Sessions(distS)
  /\ stopped \in SUBSET Id
RequestType ==
  /\ hub \in BOOLEAN /\ spe \in BOOLEAN
  /\ asked \in [on : BOOLEAN, interval : Nat, power : Nat]
  /\ apiQ \in Seq(ApiMessage)
  /\ due \in [Id -> Int]
EngineType == engine \in [up : BOOLEAN, on : BOOLEAN, interval : Nat]

\* Every variable has its type: sessions are maps from ids to options, and the
\* queues hold messages that name an id, a client or neither.
TypeOK == ClientType /\ AdapterType /\ SessionType /\ RequestType /\ EngineType

\* The adapter's last request of the LocApi serves every time based session:
\* it is a start exactly when there are sessions, at an interval no longer than
\* any of them wants, and the engine hub was told the same.
RequestServesSessions ==
  /\ asked.on <=> DOMAIN timeS # {}
  /\ \A id \in DOMAIN timeS : asked.interval <= timeS[id].interval
  /\ hub <=> DOMAIN timeS # {}

\* No call of the engine and no outcome is on its way.
Settled ==
  /\ apiQ = <<>> /\ engine.up /\ loop = Idle
  /\ \A i \in 1 .. Len(adapterQ) : adapterQ[i].kind \notin Reply \cup {"EngineUp"}

\* Once every call has been made and answered, also after a crash, the engine
\* runs a fix that is fast enough for each time based session.
EngineServesSessions ==
  Settled /\ DOMAIN timeS # {} =>
    engine.on /\ \A id \in DOMAIN timeS : engine.interval <= timeS[id].interval

\* Without a crash the engine also stops with the last session: once every
\* call has been made and answered it runs exactly if there are sessions, fast
\* enough for each.  After a crash it may run for none: a start that was on its
\* way fails and erases its session after the restart has asked for it.
EngineFollowsSessions ==
  /\ EngineServesSessions
  /\ Settled /\ engine.on => DOMAIN timeS \cup DOMAIN distS # {}

\* A session in the maps belongs to a client the adapter still knows: removing
\* a client leaves nothing of it running, unless a stop is still on its way.
NoOrphanSession ==
  /\ \A id \in DOMAIN timeS : owner[id] \in registered
  /\ \A id \in DOMAIN distS : owner[id] \notin registered => ~Settled

\* A session is gone for good once its stop was carried out: it was erased, or
\* the stop was answered ID_UNKNOWN.
StopIsFinal == stopped \cap (DOMAIN timeS \cup DOMAIN distS) = {}

\* The outcomes that save a session without looking whether it is still there, and
\* the start that is sent again when the capabilities are known
Revives(m) ==
  \/ m.kind = "updated" /\ ~m.ok
  \/ m.kind = "switch"
  \/ m.kind = "restarted" /\ m.ok
  \/ m.kind = "Start" /\ m.opts.dist

\* Nothing else brings back a session that was stopped, in any order of commands,
\* outcomes, crashes and restarts: no start of a time based session, no command on
\* another session, no update that succeeded or is handled after the stop.
OnlyLateOutcomesRevive ==
  [][\A id \in stopped :
       id \in DOMAIN timeS' \cup DOMAIN distS' =>
         \/ id \in DOMAIN timeS \cup DOMAIN distS
         \/ adapterQ # <<>> /\ Head1.id = id /\ Revives(Head1)]_vars

\* A client never gets a response it has no command waiting for.
NoUnsolicitedResponse == \A id \in Id : due[id] >= 0

\* The engine never runs faster than the quickest session asks for, once
\* settled and with no NHz requirement.
EngineAtSmallestInterval ==
  Settled /\ ~nhz /\ DOMAIN timeS # {} =>
    \E id \in DOMAIN timeS : engine.interval = timeS[id].interval

\* The power mode asked for is the smallest one of the sessions.
PowerIsSmallest ==
  asked.on => \A id \in DOMAIN timeS : asked.power <= timeS[id].power

\* Every command of a client that stays is answered.
EveryCommandAnswered ==
  \A id \in Id : due[id] > 0 ~> due[id] = 0 \/ phase[owner[id]] = "destroyed"
=============================================================================
