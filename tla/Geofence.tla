------------------------------ MODULE Geofence ------------------------------
(***************************************************************************)
(* Geofences (gps/geofence/GeofenceAdapter.cpp).                           *)
(*                                                                         *)
(* Clients know a geofence by its id, the engine by its hwId.  The adapter *)
(* keeps two maps between them and adds every fence again when the engine  *)
(* has restarted.  A command is about several geofences; each of its items *)
(* makes a trip to the engine's thread and back (addToCallQueue), which    *)
(* keeps commands in order, and then a second one with the call itself.    *)
(*                                                                         *)
(* The engine is not in this repository (LocApiBase has empty defaults).   *)
(* It is modelled by how the adapter uses it: it handles calls in order,   *)
(* may refuse any, forgets all fences when it crashes, and never uses a    *)
(* hwId again.  Ids are unique (generateSessionId), and a client makes no  *)
(* calls after it has asked to be removed.                                 *)
(***************************************************************************)
EXTENDS SessionKeys, Sequences

CONSTANTS
  GfClient,         \* clients
  GfOption,         \* options of a fence
  MaxFences,        \* bound: geofences added
  MaxGfItems,       \* bound: geofences in one command
  MaxGfCommands,    \* bound: commands
  MaxGfCrashes      \* bound: crashes of the engine

ASSUME GeofenceAssumption ==
  {MaxFences, MaxGfItems, MaxGfCommands, MaxGfCrashes} \subseteq Nat

HwId == 1..(MaxFences * (MaxGfCrashes + 1))

VARIABLES
  mGeofences,       \* hwId to the key, options and paused of a geofence
  mGeofenceIds,     \* key to hwId
  gfIds,            \* ids generated
  gfClients,        \* clients that have not asked to be removed
  gfMsgs,           \* the adapter's MsgTask
  gfCalls,          \* the calls on their way to the engine
  engineFences,     \* hwId to the id, options and paused of a fence it watches
  engineUp,
  hwIds,            \* hwIds given out
  gfCommands,       \* commands so far
  gfCrashes,        \* crashes so far
  gfRemoved         \* history: keys of the fences removed on command

gfMaps == <<mGeofences, mGeofenceIds>>
gfEngine == <<engineFences, hwIds, engineUp, gfCrashes>>
gfVars == <<gfMaps, gfIds, gfClients, gfMsgs, gfCalls, gfEngine, gfCommands, gfRemoved>>
-----------------------------------------------------------------------------
GeofenceInit ==
  /\ mGeofences = <<>> /\ mGeofenceIds = <<>> /\ gfIds = 0
  /\ gfClients = GfClient /\ gfMsgs = <<>> /\ gfCalls = <<>>
  /\ engineFences = <<>> /\ hwIds = 0 /\ engineUp = TRUE
  /\ gfCommands = 0 /\ gfCrashes = 0
  /\ gfRemoved = {}

Fence(key, o, p) == [key |-> key, options |-> o, paused |-> p]
\* A message about a fence, known to the engine as hwId
GfMsg(what, op, fence) ==
  [what |-> what, op |-> op, fence |-> fence, hwId |-> 0, ok |-> TRUE]
\* A call that is answered by message m
GfCall(op, hwId, m) == [op |-> op, hwId |-> hwId, then |-> m]
-----------------------------------------------------------------------------
(* clients and the framework *)

\* addGeofencesCommand, removeGeofencesCommand, ...: a command on fences
GeofenceCommand(c, op, ids, o) ==
  /\ c \in gfClients /\ gfCommands < MaxGfCommands
  /\ gfCommands' = gfCommands + 1
  /\ gfMsgs' = Append(gfMsgs,
       [what |-> "command", op |-> op,
        fences |-> [i \in DOMAIN ids |-> Fence(Key(c, ids[i]), o, FALSE)]])
  /\ UNCHANGED <<gfMaps, gfClients, gfCalls, gfEngine, gfRemoved>>

AddGeofences(c, n, o) ==
  /\ gfIds + n <= MaxFences /\ gfIds' = gfIds + n
  /\ GeofenceCommand(c, "add", [i \in 1..n |-> gfIds + i], o)

OnGeofences(c, op, ids, o) ==
  /\ UNCHANGED gfIds /\ GeofenceCommand(c, op, ids, o)

GeofenceClientGoes(c) ==
  /\ c \in gfClients /\ gfClients' = gfClients \ {c}
  /\ gfMsgs' = Append(gfMsgs, [what |-> "removeClient", client |-> c])
  /\ UNCHANGED <<gfMaps, gfIds, gfCalls, gfEngine, gfCommands, gfRemoved>>
-----------------------------------------------------------------------------
(* the engine, behind LocApiBase *)

\* What a call does if it succeeds, with the hwId it is about
EngineDoes(call, h) ==
  LET f == call.then.fence IN
  \/ /\ call.op = "add" /\ h = hwIds + 1 /\ hwIds' = h
     /\ engineFences' = With(engineFences, h, f)
  \/ /\ h = call.hwId /\ h \in DOMAIN engineFences /\ UNCHANGED hwIds
     /\ \/ call.op = "remove" /\ engineFences' = Without(engineFences, h)
        \/ /\ call.op \in {"pause", "resume"}
           /\ engineFences' = [engineFences EXCEPT ![h].paused = call.op = "pause"]
        \/ /\ call.op = "modify"
           /\ engineFences' = [engineFences EXCEPT ![h].options = f.options]

EngineHandles ==
  /\ gfCalls # <<>> /\ gfCalls' = Tail(gfCalls)
  /\ LET call == Head(gfCalls)
         Answer(ok, h) == gfMsgs' = Append(gfMsgs, [call.then EXCEPT !.ok = ok, !.hwId = h])
     IN \/ /\ call.op = "queue" /\ Answer(TRUE, 0) /\ UNCHANGED <<engineFences, hwIds>>
        \/ /\ call.op # "queue" /\ engineUp
           /\ \E h \in HwId : EngineDoes(call, h) /\ Answer(TRUE, h)
        \/ /\ call.op # "queue" /\ Answer(FALSE, call.hwId)
           /\ UNCHANGED <<engineFences, hwIds>>
  /\ UNCHANGED <<gfMaps, gfIds, gfClients, engineUp, gfCrashes, gfCommands, gfRemoved>>

EngineCrashes ==
  /\ engineUp /\ gfCrashes < MaxGfCrashes
  /\ gfCrashes' = gfCrashes + 1 /\ engineUp' = FALSE /\ engineFences' = <<>>
  /\ UNCHANGED <<gfMaps, gfIds, gfClients, gfMsgs, gfCalls, hwIds, gfCommands,
                 gfRemoved>>

\* handleEngineUpEvent
EngineComesUp ==
  /\ ~engineUp /\ engineUp' = TRUE
  /\ gfMsgs' = Append(gfMsgs, [what |-> "engineUp"])
  /\ UNCHANGED <<gfMaps, gfIds, gfClients, gfCalls, engineFences, hwIds,
                 gfCrashes, gfCommands, gfRemoved>>
-----------------------------------------------------------------------------
(* the adapter *)

GfTakes(what) ==
  /\ gfMsgs # <<>> /\ Head(gfMsgs).what = what /\ gfMsgs' = Tail(gfMsgs)
  /\ UNCHANGED <<gfIds, gfClients, gfEngine, gfCommands>>

\* MsgAddGeofences::proc and its like: every item is queued.
GfCommand ==
  /\ GfTakes("command")
  /\ LET m == Head(gfMsgs) IN
     gfCalls' = gfCalls \o [i \in DOMAIN m.fences |->
        GfCall("queue", 0, GfMsg("item", m.op, m.fences[i]))]
  /\ UNCHANGED <<gfMaps, gfRemoved>>

\* An item comes back from the queue: unless it is an add, its hwId is looked
\* up (getHwIdFromClient).
GfItem ==
  /\ GfTakes("item")
  /\ LET m == Head(gfMsgs)
         Ask(h) == gfCalls' = Append(gfCalls, GfCall(m.op, h, [m EXCEPT !.what = "answer"]))
         known == m.fence.key \in DOMAIN mGeofenceIds
     IN \/ m.op = "add" /\ Ask(0)
        \/ m.op # "add" /\ known /\ Ask(mGeofenceIds[m.fence.key])
        \/ m.op # "add" /\ ~known /\ UNCHANGED gfCalls
  /\ UNCHANGED <<gfMaps, gfRemoved>>

\* saveGeofenceItem: a saved geofence is not paused.
SaveItem(f, h) ==
  /\ mGeofences' = With(mGeofences, h, [f EXCEPT !.paused = FALSE])
  /\ mGeofenceIds' = With(mGeofenceIds, f.key, h)

\* (mutant) only the id is forgotten
RemoveId(h) ==
  /\ mGeofenceIds' = IF h \in DOMAIN mGeofences THEN Without(mGeofenceIds, mGeofences[h].key)
                     ELSE mGeofenceIds
  /\ UNCHANGED mGeofences
\* removeGeofenceItem
RemoveItem(h) ==
  IF h \in DOMAIN mGeofences /\ mGeofences[h].key \in DOMAIN mGeofenceIds
  THEN /\ mGeofences' = Without(mGeofences, h)
       /\ mGeofenceIds' = Without(mGeofenceIds, mGeofences[h].key)
  ELSE UNCHANGED gfMaps

\* pauseGeofenceItem, resumeGeofenceItem, modifyGeofenceItem
ChangeItem(h, f) ==
  /\ mGeofences' = IF h \in DOMAIN mGeofences THEN [mGeofences EXCEPT ![h] = f]
                   ELSE mGeofences
  /\ UNCHANGED mGeofenceIds

\* The engine has answered the call of an item. (A resume that has failed is
\* not reported to the client.)
GfAnswer ==
  /\ GfTakes("answer")
  /\ LET m == Head(gfMsgs)
         old == mGeofences[m.hwId]
     IN /\ \/ ~m.ok /\ UNCHANGED gfMaps
           \/ m.ok /\ m.op = "add" /\ SaveItem(m.fence, m.hwId)
           \/ m.ok /\ m.op = "remove" /\ RemoveItem(m.hwId)
           \/ m.ok /\ m.op = "pause" /\ ChangeItem(m.hwId, [old EXCEPT !.paused = TRUE])
           \/ m.ok /\ m.op = "resume" /\ ChangeItem(m.hwId, [old EXCEPT !.paused = FALSE])
           \/ /\ m.ok /\ m.op = "modify"
              /\ ChangeItem(m.hwId, [old EXCEPT !.options = m.fence.options])
        /\ gfRemoved' = IF m.ok /\ m.op = "remove" THEN gfRemoved \cup {m.fence.key}
                        ELSE gfRemoved
  /\ UNCHANGED gfCalls

\* stopClientSessions forgets the ids at once and removes the fences.
GfRemoveClient ==
  /\ GfTakes("removeClient")
  /\ LET mine == {k \in DOMAIN mGeofenceIds : k.client = Head(gfMsgs).client}
         keys == ById(mine)
     IN /\ mGeofenceIds' = Restrict(mGeofenceIds, DOMAIN mGeofenceIds \ mine)
        /\ gfCalls' = gfCalls \o [i \in DOMAIN keys |->
             GfCall("remove", mGeofenceIds[keys[i]],
                    GfMsg("cleared", "remove", Fence(keys[i], 0, FALSE)))]
  /\ UNCHANGED <<mGeofences, gfRemoved>>

GfCleared ==
  /\ GfTakes("cleared")
  /\ LET m == Head(gfMsgs) IN
     mGeofences' = IF m.ok THEN Without(mGeofences, m.hwId) ELSE mGeofences
  /\ UNCHANGED <<mGeofenceIds, gfCalls, gfRemoved>>

\* (mutant) the fences of the engine that is gone are kept
KeepMaps == UNCHANGED gfMaps
\* restartGeofences clears the maps
ClearMaps == mGeofences' = <<>> /\ mGeofenceIds' = <<>>

\* and adds all geofences again.
GfEngineUp ==
  /\ GfTakes("engineUp")
  /\ ClearMaps
  /\ LET old == Ascending(DOMAIN mGeofences, [h \in DOMAIN mGeofences |-> h]) IN
     gfCalls' = gfCalls \o [i \in DOMAIN old |->
        GfCall("add", 0, GfMsg("restored", "add", mGeofences[old[i]]))]
  /\ UNCHANGED gfRemoved

\* A fence added again is paused again, but saved as one that is not.
GfRestored ==
  /\ GfTakes("restored")
  /\ LET m == Head(gfMsgs) IN
     \/ ~m.ok /\ UNCHANGED <<gfMaps, gfCalls>>
     \/ /\ m.ok /\ SaveItem(m.fence, m.hwId)
        /\ gfCalls' = IF m.fence.paused
             THEN Append(gfCalls, GfCall("pause", m.hwId, [m EXCEPT !.what = "ignored"]))
             ELSE gfCalls
  /\ UNCHANGED gfRemoved

GfIgnored ==
  /\ GfTakes("ignored")
  /\ UNCHANGED <<gfMaps, gfCalls, gfRemoved>>
-----------------------------------------------------------------------------
GeofenceAdapterStep ==
  \/ GfCommand \/ GfItem \/ GfAnswer \/ GfRemoveClient \/ GfCleared
  \/ GfEngineUp \/ GfRestored \/ GfIgnored
GeofenceEngineStep == EngineHandles \/ EngineCrashes \/ EngineComesUp

GeofenceNext ==
  \/ \E c \in GfClient, o \in GfOption, n \in 1..MaxGfItems :
       \/ AddGeofences(c, n, o)
       \/ \E ids \in [1..n -> 1..gfIds], op \in {"remove", "pause", "resume", "modify"} :
            /\ op = "modify" \/ o = CHOOSE x \in GfOption : TRUE
            /\ OnGeofences(c, op, ids, o)
  \/ \E c \in GfClient : GeofenceClientGoes(c)
  \/ GeofenceAdapterStep \/ GeofenceEngineStep
-----------------------------------------------------------------------------
GeofenceTypeOK ==
  /\ DOMAIN mGeofences \subseteq HwId /\ DOMAIN engineFences \subseteq HwId
  /\ \A f \in {mGeofences, engineFences} : \A h \in DOMAIN f :
       /\ f[h].key \in [client : GfClient, id : 1..MaxFences]
       /\ f[h].options \in GfOption /\ f[h].paused \in BOOLEAN
  /\ \A k \in DOMAIN mGeofenceIds : mGeofenceIds[k] \in HwId
  /\ gfIds \in 0..MaxFences /\ gfClients \subseteq GfClient /\ engineUp \in BOOLEAN

\* Once everything under way has been handled, each fence a client knows is in
\* the engine with its options and, if the adapter takes it for paused, paused;
\* whatever calls fail and however commands interleave with a crash and
\* restartGeofences (gps/geofence/GeofenceAdapter.cpp).
GeofencesServed ==
  gfMsgs = <<>> /\ gfCalls = <<>> /\ engineUp =>
    \A k \in DOMAIN mGeofenceIds :
      LET h == mGeofenceIds[k] IN
      /\ h \in DOMAIN mGeofences /\ mGeofences[h].key = k
      /\ h \in DOMAIN engineFences /\ engineFences[h].key = k
      /\ engineFences[h].options = mGeofences[h].options
      /\ mGeofences[h].paused => engineFences[h].paused

\* A client that was told that its geofence is removed never hears of it again:
\* the adapter does not know it, even though removals race with restartGeofences
\* adding every geofence again (gps/geofence/GeofenceAdapter.cpp).
RemovedStaysRemoved ==
  \A k \in gfRemoved : k.client \in gfClients =>
    k \notin DOMAIN mGeofenceIds /\ \A h \in DOMAIN mGeofences : mGeofences[h].key # k
=============================================================================
