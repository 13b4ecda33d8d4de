---------------------------- MODULE MCComponents ----------------------------
(***************************************************************************)
(* The components that GnssTracking and Agps do not compose, in one run.   *)
(* They share no state, so that a behaviour of all of them adds nothing to *)
(* the behaviours of each: one part is chosen at the start and runs, and   *)
(* the others stay as they are initially.  The states are the sum, not the *)
(* product, of those of the parts.                                         *)
(***************************************************************************)
EXTENDS MsgQueue, LocTimer, Odcpi, NiSession, LocationApi, Geofence, Batching,
        LocHeap, LogBuffer, NetworkInfo, ClientRequests, EventMasks

VARIABLE running
Part == {"queue", "timer", "odcpi", "ni", "api", "geofence", "batching", "heap",
         "log", "network", "requests", "masks"}

Init ==
  /\ running \in Part
  /\ QueueInit /\ TimerInit /\ OdcpiInit /\ NiInit /\ LocationApiInit
  /\ GeofenceInit /\ BatchingInit /\ HeapInit /\ LogInit
  /\ NetworkInfoInit /\ ClientRequestsInit /\ MaskInit
  /\ running # "ni" => niClient
  /\ running # "api" => loadable = {}
  /\ running # "heap" => heapRank \in [Rankable -> {1}]
  /\ Cardinality({n \in Network : typeOf[n] = "mobile"})
       = IF running = "network" THEN 1 ELSE 0
  /\ running # "requests" => hidl = "gnss"
  /\ running # "masks" => engineHub

\* All parts but p stay as they are.
StillBut(p) ==
  /\ p = running /\ UNCHANGED running
  /\ p # "queue" => UNCHANGED queueVars
  /\ p # "timer" => UNCHANGED timerVars
  /\ p # "odcpi" => UNCHANGED odcpiVars
  /\ p # "ni" => UNCHANGED niVars
  /\ p # "api" => UNCHANGED apiVars
  /\ p # "geofence" => UNCHANGED gfVars
  /\ p # "batching" => UNCHANGED batchVars
  /\ p # "heap" => UNCHANGED heapVars
  /\ p # "log" => UNCHANGED logVars
  /\ p # "network" => UNCHANGED netVars
  /\ p # "requests" => UNCHANGED requestVars
  /\ p # "masks" => UNCHANGED maskVars

QueueRuns == StillBut("queue") /\ QueueNext
TimerRuns == StillBut("timer") /\ TimerNext
OdcpiRuns == StillBut("odcpi") /\ OdcpiNext
NiRuns == StillBut("ni") /\ NiNext
ApiRuns == StillBut("api") /\ LocationApiNext
GeofenceRuns == StillBut("geofence") /\ GeofenceNext
BatchingRuns == StillBut("batching") /\ BatchingNext
HeapRuns == StillBut("heap") /\ HeapNext
LogRuns == StillBut("log") /\ LogNext
NetworkRuns == StillBut("network") /\ NetworkInfoNext
RequestsRun == StillBut("requests") /\ ClientRequestsNext
MasksRun == StillBut("masks") /\ EventMasksNext

Next ==
  \/ QueueRuns \/ TimerRuns \/ OdcpiRuns \/ NiRuns \/ ApiRuns
  \/ GeofenceRuns \/ BatchingRuns \/ HeapRuns \/ LogRuns
  \/ NetworkRuns \/ RequestsRun \/ MasksRun

vars == <<running, queueVars, timerVars, odcpiVars, niVars, apiVars, gfVars,
          batchVars, heapVars, logVars, netVars, requestVars, maskVars>>
-----------------------------------------------------------------------------
(* What the scheduling guarantees, of the part that runs *)

\* Both threads are scheduled and handlers return; nobody has to send or stop.
QueueFairness ==
  /\ WF_queueVars(running = "queue" /\ ReaderStep)
  /\ WF_queueVars(running = "queue" /\ StopperStep)

\* The clock goes on and both threads are scheduled; clients owe nothing.
TimerFairness ==
  /\ WF_timerVars(running = "timer" /\ Tick)
  /\ WF_timerVars(running = "timer" /\ PollerStep)
  /\ WF_timerVars(running = "timer" /\ TaskStep)

\* The adapter thread runs and a LocTimer that is running expires (TimerEnds).
OdcpiFairness ==
  /\ WF_odcpiVars(running = "odcpi" /\ OdcpiAdapterStep)
  /\ WF_odcpiVars(running = "odcpi" /\ OdcpiTimerStep)

\* The adapter and every thread run, and a wait times out in the end.
NiFairness ==
  /\ WF_niVars(running = "ni" /\ NiAdapterStep)
  /\ \A r \in NiRequest : WF_niVars(running = "ni" /\ NiThreadStep(r))

\* Adapters handle their messages, and a destroy() that has begun goes on.
LocationApiFairness ==
  /\ \A a \in Adapter : WF_apiVars(running = "api" /\ AdapterHandles(a))
  /\ \A c \in ApiClient : WF_apiVars(running = "api" /\ DestroyApi(c))

Spec ==
  Init /\ [][Next]_vars /\ QueueFairness /\ TimerFairness /\ OdcpiFairness
    /\ NiFairness /\ LocationApiFairness
-----------------------------------------------------------------------------
\* The state of every component has its type.
ComponentsTypeOK ==
  /\ running \in Part
  /\ QueueTypeOK /\ TimerTypeOK /\ OdcpiTypeOK /\ NiTypeOK /\ LocationApiTypeOK
  /\ GeofenceTypeOK /\ BatchingTypeOK /\ LogTypeOK
  /\ NetworkInfoTypeOK /\ ClientRequestsTypeOK /\ EventMasksTypeOK
=============================================================================
