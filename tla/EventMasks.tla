------------------------------ MODULE EventMasks ------------------------------
(***************************************************************************)
(* Which events the engine reports (LocAdapterBase, LocApiBase and the     *)
(* updateClientsEventMask of each adapter).                                *)
(*                                                                         *)
(* Every adapter keeps a mask of the events it wants.  It sets the mask    *)
(* anew when a client comes, changes or goes, and turns single events on   *)
(* and off when something else starts to need them.  Each change posts an  *)
(* LocOpenMsg; the LocApi thread then opens the engine with what the       *)
(* adapters of its array want at that moment.  Adapters join when their    *)
(* library is loaded, and after a crash the engine is closed and opened.   *)
(*                                                                         *)
(* The adapters share one thread, of which every action of theirs here is  *)
(* a whole message.  No code of the repository deletes an adapter (nothing *)
(* calls deinitialize), so that removeAdapter is left out.  BATCH_FULL is  *)
(* in Batching, the masks of NMEA sentences are left out.                  *)
(***************************************************************************)
EXTENDS Naturals, Sequences, FiniteSetsExt

CONSTANTS
  MaskClient,       \* LocationAPI instances
  CallbackSet,      \* the sets of callbacks that clients register with
  NmeaFromModem,    \* NMEA_PROVIDER is NMEA_PROVIDER_MP
  MaxMaskEvents     \* bound: clients' calls, registrations, crashes

Callback == {"tracking", "sv", "nmea", "measurements", "data",
             "breach", "geofenceStatus", "batching"}

ASSUME MaskAssumption ==
  /\ CallbackSet \subseteq SUBSET Callback
  /\ NmeaFromModem \in BOOLEAN
  /\ MaxMaskEvents \in Nat

VARIABLES
  engineHub,        \* initEngHubProxy() loaded it, or EXTERNAL_DR_ENABLED
  mLocAdapters,     \* the adapters in the LocApi's array, of MAX_ADAPTERS = 10
  mEvtMask,         \* mEvtMask[a]: the events that adapter a wants
  maskClients,      \* maskClients[a][c]: callbacks of c, {} if a does not know c
  needs,            \* mAgpsManager.isRegistered(), mOdcpiRequestCb, mNmeaMask
  maskMsgs,         \* messages of the LocApi thread
  upPosted,         \* a MsgHandleEngineUpEvent is on its way to GnssAdapter
  engineMask,       \* the events the engine was last opened with
  notOpened,        \* history: the last attempt to open the engine failed
  maskEvents        \* events so far

maskVars == <<engineHub, mLocAdapters, mEvtMask, maskClients, needs, maskMsgs,
              upPosted, engineMask, notOpened, maskEvents>>

MaskAdapter == {"gnss", "geofence", "batching"}

MaskInit ==
  /\ engineHub \in BOOLEAN /\ mLocAdapters = {} /\ mEvtMask = [a \in MaskAdapter |-> {}]
  /\ maskClients = [a \in MaskAdapter |-> [c \in MaskClient |-> {}]]
  /\ needs = {} /\ maskMsgs = <<>> /\ upPosted = FALSE
  /\ engineMask = {} /\ notOpened = FALSE /\ maskEvents = 0
-----------------------------------------------------------------------------
\* The callbacks each adapter looks at (isGnssClient and the like)
ServedBy(a) ==
  CASE a = "gnss" -> {"tracking", "sv", "nmea", "measurements", "data"}
    [] a = "geofence" -> {"breach", "geofenceStatus"}
    [] a = "batching" -> {"batching"}

\* The events a callback is for, with nmea whether mNmeaMask is not 0
EventsFor(callback, nmea) ==
  CASE callback = "tracking" -> {"position"}
    [] callback = "sv" -> {"satellites"}
    [] callback = "nmea" -> IF nmea THEN {"nmea"} ELSE {}
    [] callback = "measurements" -> {"measurement"}
    [] callback = "data" -> {"position", "nmea"}
    [] callback = "breach" -> {"breach", "dwell"}
    [] callback = "geofenceStatus" -> {"alert"}
    [] callback = "batching" -> {"batchStatus"}

HubEvents == {"measurement", "polynomial", "unpropagated", "ephemeris",
              "system", "event"}

\* (mutant) a change of the clients forgets who asks for ODCPI
AgpsEvents == IF "agps" \in needs THEN {"server"} ELSE {}
\* The events of what is registered beside the clients
RegisteredEvents ==
  (IF "agps" \in needs THEN {"server"} ELSE {})
    \cup (IF "odcpi" \in needs THEN {"wifi"} ELSE {})

\* updateClientsEventMask of the three adapters
ClientsMask(a, clients) ==
  (UNION {EventsFor(k, "nmea" \in needs) : k \in UNION {clients[c] : c \in MaskClient}})
    \cup IF a # "gnss" THEN {}
         ELSE (IF engineHub THEN HubEvents \cup (mEvtMask[a] \cap {"nhz"}) ELSE {})
                \cup RegisteredEvents \cup {"system", "ni"}

\* updateEvtMask
UpdateEvtMask(a, mask) ==
  /\ mEvtMask' = [mEvtMask EXCEPT ![a] = mask]
  /\ maskMsgs' = Append(maskMsgs, [op |-> "open", for |-> "none"])

\* getEvtMask: nothing is excluded (SynergyLocApi is made with the mask 0).
WantedOf(adapters) == UNION {mEvtMask[a] : a \in adapters}
MaskEvent ==
  /\ maskEvents < MaxMaskEvents /\ maskEvents' = maskEvents + 1
  /\ UNCHANGED engineHub
-----------------------------------------------------------------------------
(* The threads that load the libraries, and the adapters' thread *)

\* addAdapter, from the constructor
AddAdapter(a) ==
  /\ a \notin mLocAdapters /\ MaskEvent
  /\ mLocAdapters' = mLocAdapters \cup {a}
  /\ maskMsgs' = Append(maskMsgs, [op |-> "open", for |-> a])
  /\ UNCHANGED <<mEvtMask, maskClients, needs, upPosted, engineMask, notOpened>>

\* saveClient, as addClientCommand posts it for a new client and for an update
SaveClient(a, c, callbacks) ==
  /\ a \in mLocAdapters /\ callbacks \cap ServedBy(a) # {} /\ MaskEvent
  /\ maskClients' = [maskClients EXCEPT ![a][c] = callbacks \cap ServedBy(a)]
  /\ UpdateEvtMask(a, ClientsMask(a, maskClients'[a]))
  /\ UNCHANGED <<mLocAdapters, needs, upPosted, engineMask, notOpened>>

\* eraseClient
EraseClient(a, c) ==
  /\ maskClients[a][c] # {} /\ MaskEvent
  /\ maskClients' = [maskClients EXCEPT ![a][c] = {}]
  /\ UpdateEvtMask(a, ClientsMask(a, maskClients'[a]))
  /\ UNCHANGED <<mLocAdapters, needs, upPosted, engineMask, notOpened>>

\* initAgps and initOdcpi
RegisterAtGnss(need, event) ==
  /\ "gnss" \in mLocAdapters /\ MaskEvent
  /\ needs' = needs \cup {need}
  /\ UpdateEvtMask("gnss", mEvtMask["gnss"] \cup {event})
  /\ UNCHANGED <<mLocAdapters, maskClients, upPosted, engineMask, notOpened>>

\* updateNHzRequirementCb: what is asked for and already on is turned off.
UpdateNHz(measNeeded) ==
  /\ engineHub /\ "gnss" \in mLocAdapters /\ MaskEvent
  /\ \/ /\ measNeeded /\ "nhz" \notin mEvtMask["gnss"]
        /\ UpdateEvtMask("gnss", mEvtMask["gnss"] \cup {"nhz"})
     \/ /\ "nhz" \in mEvtMask["gnss"]
        /\ UpdateEvtMask("gnss", mEvtMask["gnss"] \ {"nhz"})
  /\ UNCHANGED <<mLocAdapters, maskClients, needs, upPosted, engineMask, notOpened>>

\* setConfig, of MsgHandleEngineUpEvent: the clients for NMEA came before it was
\* known where the sentences are made.
SetNmeaMask ==
  /\ upPosted /\ upPosted' = FALSE
  /\ needs' = needs \cup (IF NmeaFromModem THEN {"nmea"} ELSE {})
  /\ IF needs' # needs /\ \E c \in MaskClient : "nmea" \in maskClients["gnss"][c]
       THEN UpdateEvtMask("gnss", mEvtMask["gnss"] \cup {"nmea"})
       ELSE UNCHANGED <<mEvtMask, maskMsgs>>
  /\ UNCHANGED <<engineHub, mLocAdapters, maskClients, engineMask, notOpened,
                 maskEvents>>
-----------------------------------------------------------------------------
(* The LocApi thread *)

\* handleEngineDownEvent: the engine comes up with nothing registered.
MaskEngineCrash ==
  /\ MaskEvent /\ engineMask' = {}
  /\ maskMsgs' = Append(maskMsgs, [op |-> "ssr", for |-> "none"])
  /\ UNCHANGED <<mLocAdapters, mEvtMask, maskClients, needs, upPosted, notOpened>>

\* LocOpenMsg and LocSsrMsg; the call of the engine may fail, and is not tried again.
OpenEngine(ok) ==
  /\ maskMsgs # <<>> /\ maskMsgs' = Tail(maskMsgs)
  /\ LET m == Head(maskMsgs)
         told == IF m.op = "ssr" THEN mLocAdapters ELSE {m.for} IN
       /\ engineMask' = IF ok THEN WantedOf(mLocAdapters)
                        ELSE IF m.op = "ssr" THEN {} ELSE engineMask
       /\ upPosted' = (upPosted \/ (ok /\ "gnss" \in told))
  /\ notOpened' = ~ok
  /\ UNCHANGED <<engineHub, mLocAdapters, mEvtMask, maskClients, needs, maskEvents>>

EventMasksNext ==
  \/ \E a \in MaskAdapter : AddAdapter(a)
  \/ \E a \in MaskAdapter, c \in MaskClient, k \in CallbackSet : SaveClient(a, c, k)
  \/ \E a \in MaskAdapter, c \in MaskClient : EraseClient(a, c)
  \/ RegisterAtGnss("agps", "server") \/ RegisterAtGnss("odcpi", "wifi")
  \/ \E needed \in BOOLEAN : UpdateNHz(needed)
  \/ SetNmeaMask \/ MaskEngineCrash
  \/ \E ok \in BOOLEAN : OpenEngine(ok)
-----------------------------------------------------------------------------
Events == (UNION {EventsFor(k, TRUE) : k \in Callback}) \cup HubEvents
            \cup {"server", "wifi", "nhz", "ni"}

EventMasksTypeOK ==
  /\ mLocAdapters \subseteq MaskAdapter
  /\ mEvtMask \in [MaskAdapter -> SUBSET Events] /\ engineMask \subseteq Events
  /\ maskClients \in [MaskAdapter -> [MaskClient -> SUBSET Callback]]
  /\ needs \subseteq {"agps", "odcpi", "nmea"}
  /\ maskMsgs \in Seq([op : {"open", "ssr"}, for : MaskAdapter \cup {"none"}])
  /\ {engineHub, upPosted, notOpened} \subseteq BOOLEAN /\ maskEvents \in 0 .. MaxMaskEvents

\* Once the LocApi thread has nothing left to do and the engine has not refused
\* to open, the engine reports what some client has a callback for, or what was
\* registered for AGPS and ODCPI, and no other event but those the adapter uses
\* itself: no order of clients, registrations, adapters and crashes loses one or
\* leaves one behind.
EngineReportsWhatIsNeeded ==
  maskMsgs = <<>> /\ ~notOpened =>
    LET callbacks == UNION {maskClients[a][c] : a \in mLocAdapters, c \in MaskClient}
        needed == (UNION {EventsFor(k, "nmea" \in needs) : k \in callbacks})
                    \cup {IF n = "agps" THEN "server" ELSE "wifi" : n \in needs \ {"nmea"}}
        internal == {"system", "ni"}
                      \cup IF engineHub THEN HubEvents \cup {"nhz"} ELSE {}
    IN needed \subseteq engineMask /\ engineMask \ internal = needed \ internal
=============================================================================
