---------------------------- MODULE ClientRequests ----------------------------
(***************************************************************************)
(* Requests and their answers (RequestQueue, BiDict and the calls of       *)
(* LocationAPIClientBase in gps/location/LocationAPIClientBase.{h,cpp},    *)
(* as the HIDL clients of gps/android/2.1/location_api use them).          *)
(*                                                                         *)
(* A call of the framework goes to an adapter, which answers some time     *)
(* later with an error and a session.  An answer does not say what it      *)
(* answers: it takes the oldest request of the queue whose session it has. *)
(*                                                                         *)
(* Calls hold mMutex over the call of the LocationAPI and the push, and an *)
(* answer pops under it, so both are atomic; what an answer forgets after  *)
(* the unlock is forgotten in the same step.  Adapters are modelled by     *)
(* what they may do: answer commands in any order, once or (GnssTracking)  *)
(* not at all.  What has no caller is left out: sessions of mode ON_FIX,   *)
(* locAPIUpdateSessionOptions, locAPIModifyGeofences and, from 2.1,        *)
(* locAPIRemoveAllGeofences.                                               *)
(***************************************************************************)
EXTENDS SessionKeys, Naturals, Sequences, SequencesExt, FiniteSets

CONSTANTS
  FenceId,          \* ids the framework gives its geofences
  NiId,             \* numbers of network initiated requests
  MaxClientCalls    \* bound: calls of the framework

ASSUME RequestsAssumption == MaxClientCalls \in Nat /\ NiId \subseteq Nat \ {0}

SessionNo == 1..MaxClientCalls
GEOFENCE_SESSION_ID == MaxClientCalls + 100
Queue == {"tracking", "session", "geofence", "ni"}
GeofenceOp == {"add", "remove", "pause", "resume"}
mDefaultId == "batch"       \* the one id of BatchingAPIClient

VARIABLES
  hidl,             \* which client this is: gnss, batching, geofence
  open,             \* mLocationAPI is there
  mTracking,
  mRequestQueues,   \* for each kind, its session and the requests in it
  forward,          \* mForwardMap of the client's BiDict: id to session
  backward,         \* mBackwardMap: session to id
  sessionNo,        \* generateSessionId, of all adapters
  commands,         \* those an adapter has not answered
  unanswered,       \* history: the sessions of commands that never will be
  mislaid,          \* history: the answers for a batching session that is not known
  outOfOrder,       \* history: where answers overtook others, or never came
  niAnswered,       \* history: numbers that gnssNiResponse was called with
  clientCalls       \* calls so far

dict == <<forward, backward>>
answered == <<unanswered, mislaid, outOfOrder>>
requestVars == <<hidl, open, mTracking, mRequestQueues, dict, sessionNo, commands,
                 answered, niAnswered, clientCalls>>

ClientRequestsInit ==
  /\ hidl \in {"gnss", "batching", "geofence"} /\ open = TRUE /\ mTracking = FALSE
  /\ mRequestQueues = [k \in Queue |-> [session |-> 0, requests |-> <<>>]]
  /\ forward = <<>> /\ backward = <<>> /\ sessionNo = 0
  /\ commands = <<>> /\ niAnswered = {} /\ clientCalls = 0
  /\ unanswered = <<>> /\ mislaid = 0 /\ outOfOrder = {}
-----------------------------------------------------------------------------
(* RequestQueue and BiDict *)

Pushed(q, r) == [q EXCEPT !.requests = Append(@, r)]
\* reset(s): the requests of the session before are dropped
Fresh(s) == [session |-> s, requests |-> <<>>]
WithQueue(k, q) == mRequestQueues' = [mRequestQueues EXCEPT ![k] = q]
Popped(k) == WithQueue(k, [mRequestQueues[k] EXCEPT
                             !.requests = IF @ = <<>> THEN @ ELSE Tail(@)])

Known(f, x) == IF x \in DOMAIN f THEN f[x] ELSE 0
SetIn(f, x, y) == [z \in DOMAIN f \cup {x} |-> IF z = x THEN y ELSE f[z]]
DictSet(id, s) == forward' = SetIn(forward, id, s) /\ backward' = SetIn(backward, s, id)
\* rmBySession, of a session that is known
DictRemove(s) ==
  /\ forward' = Without(forward, backward[s]) /\ backward' = Without(backward, s)

\* A request and the command it is pushed for are the same record, so that it shows
\* which answer takes which request.
Command(op, s) == [op |-> op, session |-> s, no |-> clientCalls + 1]
\* The client calls the LocationAPI and pushes the request on q, which is queue k.
Send(k, q, op, s) ==
  /\ commands' = Append(commands, Command(op, s))
  /\ WithQueue(k, Pushed(q, Command(op, s)))
\* The framework calls client h.
Calls(h) ==
  /\ hidl = h /\ open /\ clientCalls < MaxClientCalls
  /\ clientCalls' = clientCalls + 1 /\ UNCHANGED <<hidl, open, answered>>
NewSession == sessionNo' = sessionNo + 1
-----------------------------------------------------------------------------
(* GnssAPIClient: gnssStart, gnssStop, gnssSetPositionMode, gnssNiRespond *)

tracking == mRequestQueues["tracking"]

\* (mutant) the queue gets its new session and keeps the old requests
StartKeepingRequests ==
  /\ Calls("gnss") /\ ~mTracking
  /\ NewSession
  /\ Send("tracking", [tracking EXCEPT !.session = sessionNo'], "start", sessionNo')
  /\ mTracking' = TRUE /\ UNCHANGED <<dict, niAnswered>>
\* locAPIStartTracking; when mTracking is set it only says SUCCESS.
StartTracking ==
  /\ Calls("gnss") /\ ~mTracking
  /\ NewSession /\ Send("tracking", Fresh(sessionNo'), "start", sessionNo')
  /\ mTracking' = TRUE /\ UNCHANGED <<dict, niAnswered>>

\* locAPIStopTracking and locAPIUpdateTrackingOptions: of the last session,
\* also when it has been stopped
OnTracking(op) ==
  /\ Calls("gnss") /\ tracking.session > 0
  /\ Send("tracking", tracking, op, tracking.session)
  /\ mTracking' = (mTracking /\ op # "stop")
  /\ UNCHANGED <<dict, sessionNo, niAnswered>>

\* locAPIGnssNiResponse
NiResponse(id) ==
  /\ Calls("gnss")
  /\ Send("ni", Fresh(id), "ni", id)
  /\ niAnswered' = niAnswered \cup {id}
  /\ UNCHANGED <<mTracking, dict, sessionNo>>
-----------------------------------------------------------------------------
(* BatchingAPIClient: startSession, stopSession, flushBatchedLocations *)

batching == mRequestQueues["session"]

\* locAPIStartSession; ALREADY_STARTED if the id is known
StartBatchSession ==
  /\ Calls("batching") /\ mDefaultId \notin DOMAIN forward
  /\ NewSession
  /\ Send("session", [batching EXCEPT !.session = sessionNo'], "start", sessionNo')
  /\ DictSet(mDefaultId, sessionNo')
  /\ UNCHANGED <<mTracking, niAnswered>>

\* locAPIStopSession and locAPIGetBatchedLocations
OnSession(op) ==
  /\ Calls("batching") /\ mDefaultId \in DOMAIN forward
  /\ Send("session", batching, op, forward[mDefaultId])
  /\ UNCHANGED <<mTracking, dict, sessionNo, niAnswered>>
-----------------------------------------------------------------------------
(* GeofenceAPIClient: geofenceAdd, geofenceRemove, geofencePause, ...Resume *)

fences == mRequestQueues["geofence"]

\* locAPIAddGeofences; an id that is known gets a second session
AddGeofence(f) ==
  /\ Calls("geofence")
  /\ NewSession
  /\ Send("geofence", IF fences.session = GEOFENCE_SESSION_ID THEN fences
                      ELSE Fresh(GEOFENCE_SESSION_ID), "add", sessionNo')
  /\ DictSet(f, sessionNo')
  /\ UNCHANGED <<mTracking, niAnswered>>

\* locAPIRemoveGeofences, locAPIPauseGeofences and locAPIResumeGeofences of
\* one geofence; nothing happens if its id is not known.
OnGeofence(f, op) ==
  /\ Calls("geofence") /\ fences.session = GEOFENCE_SESSION_ID
  /\ f \in DOMAIN forward
  /\ IF op = "remove" THEN DictRemove(forward[f]) ELSE UNCHANGED dict
  /\ Send("geofence", fences, op, forward[f])
  /\ UNCHANGED <<mTracking, sessionNo, niAnswered>>
-----------------------------------------------------------------------------
(* The end, and the answers *)

\* destroy: all queues are emptied and the LocationAPI is given up.
DestroyClient ==
  /\ open /\ open' = FALSE
  /\ mRequestQueues' = [k \in Queue |-> Fresh(0)]
  /\ UNCHANGED <<hidl, mTracking, dict, sessionNo, commands, answered, niAnswered,
                 clientCalls>>

\* getRequestBySession: the queue that an answer for session s takes from
QueueOf(s) ==
  CASE tracking.session = s /\ tracking.requests # <<>> -> "tracking"
    [] tracking.session # s /\ mRequestQueues["ni"].session = s
         /\ mRequestQueues["ni"].requests # <<>> -> "ni"
    [] OTHER -> "session"

\* onResponseCb: a request for batching that failed to start, or was stopped,
\* forgets the session the answer names, whichever command it answers.
OnResponse(s, ok) ==
  LET k == QueueOf(s)
      found == k # "session" \/ s \in DOMAIN backward
      request == IF mRequestQueues[k].requests = <<>> THEN "none"
                 ELSE Head(mRequestQueues[k].requests).op IN
    IF ~found THEN UNCHANGED <<mRequestQueues, dict>>
    ELSE /\ Popped(k)
         /\ IF s \in DOMAIN backward /\ request = (IF ok THEN "stop" ELSE "start")
            THEN DictRemove(s) ELSE UNCHANGED dict

\* onCollectiveResponseCb
OnCollectiveResponse ==
  /\ UNCHANGED dict
  /\ IF fences.session = GEOFENCE_SESSION_ID THEN Popped("geofence")
     ELSE UNCHANGED mRequestQueues

Retired(i) == commands' = RemoveAt(commands, i)
\* The commands whose requests are in one queue have the same key: all of the
\* geofence client, all of the batching client, those of one session for the others.
QueueKey(c) ==
  CASE hidl = "geofence" -> GEOFENCE_SESSION_ID [] hidl = "batching" -> 0
    [] OTHER -> c.session
Overtakes(i) == \E j \in 1..(i - 1) : QueueKey(commands[j]) = QueueKey(commands[i])
OutOfOrder(i) == outOfOrder' = outOfOrder \cup {QueueKey(commands[i])}
\* The answer finds no session for its request.
Mislays(i) == hidl = "batching" /\ commands[i].session \notin DOMAIN backward
Answer(i, ok) ==
  /\ Retired(i)
  /\ IF commands[i].op \in GeofenceOp THEN OnCollectiveResponse
     ELSE OnResponse(commands[i].session, ok)
  /\ IF Overtakes(i) THEN OutOfOrder(i) ELSE UNCHANGED outOfOrder
  /\ mislaid' = mislaid + (IF Mislays(i) THEN 1 ELSE 0)
  /\ UNCHANGED <<hidl, open, mTracking, sessionNo, unanswered, niAnswered, clientCalls>>

\* An adapter never answers a tracking command: the client has no callback, or
\* the stop within an update failed.
NoAnswer(i) ==
  /\ commands[i].op \in {"start", "stop", "update"} /\ hidl = "gnss"
  /\ Retired(i) /\ unanswered' = Append(unanswered, commands[i].session) /\ OutOfOrder(i)
  /\ UNCHANGED <<hidl, open, mTracking, mRequestQueues, dict, sessionNo, mislaid,
                 niAnswered, clientCalls>>

ClientRequestsNext ==
  \/ StartTracking \/ OnTracking("stop") \/ OnTracking("update")
  \/ \E id \in NiId : NiResponse(id)
  \/ StartBatchSession \/ OnSession("stop") \/ OnSession("flush")
  \/ \E f \in FenceId : AddGeofence(f) \/ \E op \in GeofenceOp \ {"add"} : OnGeofence(f, op)
  \/ DestroyClient
  \/ \E i \in DOMAIN commands : NoAnswer(i) \/ \E ok \in BOOLEAN : Answer(i, ok)
-----------------------------------------------------------------------------
RequestOp == GeofenceOp \cup {"start", "stop", "update", "ni", "flush"}
Request == [op : RequestOp, session : Nat, no : Nat]
ClientRequestsTypeOK ==
  /\ hidl \in {"gnss", "batching", "geofence"} /\ open \in BOOLEAN /\ mTracking \in BOOLEAN
  /\ mRequestQueues \in [Queue -> [session : Nat, requests : Seq(Request)]]
  /\ DOMAIN forward \subseteq FenceId \cup {mDefaultId} /\ IsInjective(forward)
  /\ \A id \in DOMAIN forward : Known(backward, forward[id]) = id
  /\ DOMAIN backward \subseteq SessionNo
  /\ sessionNo \in 0..MaxClientCalls /\ clientCalls \in 0..MaxClientCalls
  /\ commands \in Seq(Request) /\ unanswered \in Seq(SessionNo)
  /\ niAnswered \subseteq NiId /\ mislaid \in Nat /\ outOfOrder \subseteq Nat

\* How many answers are still due to the requests in a queue of session s
Due(s, ops) ==
  Cardinality({i \in DOMAIN commands : commands[i].session = s /\ commands[i].op \in ops})
Lost(s) == Cardinality({i \in DOMAIN unanswered : unanswered[i] = s})

\* The commands on tracking session s that are not answered
TrackingOp == {"start", "stop", "update"}
Waiting(s) == {c \in ToSet(commands) : c.session = s /\ c.op \in TrackingOp}
OldestFirst(q) == \A i, j \in DOMAIN q : i < j => q[i].no < q[j].no
\* The requests of q are those of the commands S, the oldest first, so that the
\* answer of the oldest command takes the request of that command.
Matching(q, S) == ToSet(q) = S /\ OldestFirst(q)

\* As long as the answers to the commands of a queue come in order and none is left
\* out, each takes the request of the very command that it answers, however late it
\* comes and whatever the framework calls meanwhile: the queue of the last tracking
\* session, whose requests of sessions before were dropped; that of geofences; that
\* of batching, if no answer found its session forgotten.  In any order there are as
\* many requests as answers to come and answers that took none.  A network request
\* that was answered under the number of the tracking session spoils this: the two
\* kinds of number are not told apart (getRequestBySession, onCollectiveResponseCb).
RequestsMatchAnswers ==
  /\ tracking.session \notin niAnswered \cup {0} =>
       /\ Len(tracking.requests) = Due(tracking.session, TrackingOp) + Lost(tracking.session)
       /\ tracking.session \notin outOfOrder =>
            Matching(tracking.requests, Waiting(tracking.session))
  /\ fences.session = GEOFENCE_SESSION_ID =>
       /\ Len(fences.requests) = Len(commands)
       /\ GEOFENCE_SESSION_ID \notin outOfOrder => Matching(fences.requests, ToSet(commands))
  /\ hidl = "batching" /\ open =>
       /\ Len(batching.requests) = Len(commands) + mislaid
       /\ mislaid = 0 /\ 0 \notin outOfOrder => Matching(batching.requests, ToSet(commands))
  /\ ~open => \A k \in Queue : mRequestQueues[k].requests = <<>>

\* "addGeofences ... returns an array of geofence ids that will be used ... also in the
\* collectiveResponseCallback to match command with response" (LocationAPI.h): an
\* answer takes the request of its command also when it overtakes another.
GeofenceResponsesMatch ==
  fences.session = GEOFENCE_SESSION_ID => Matching(fences.requests, ToSet(commands))
=============================================================================
