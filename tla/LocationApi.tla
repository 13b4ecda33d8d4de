----------------------------- MODULE LocationApi -----------------------------
(***************************************************************************)
(* The life of a location client: LocationAPI (gps/location/               *)
(* LocationAPI.cpp) under LocationAPIClientBase (LocationAPIClientBase.cpp)*)
(* and over the client lists of the adapters (LocAdapterBase.cpp).       *)
(*                                                                         *)
(* A client object owns one LocationAPI.  To destroy it every adapter that *)
(* is loaded is told to forget it; each answers on its own thread, and the *)
(* last answer deletes both objects.  An adapter calls back the clients it *)
(* knows at any time, so none may know a deleted one.                      *)
(*                                                                         *)
(* Calls hold gDataMutex, so they are atomic; destroy() of the client      *)
(* gives up its handle before it calls the LocationAPI.  Nobody calls a    *)
(* client after destroy(), and everybody passes a completion callback.     *)
(***************************************************************************)
EXTENDS Naturals, Sequences, SequencesExt, FiniteSets

CONSTANTS
  Adapter,         \* "gnss", "batching", "geofence": all are treated alike
  ApiClient,       \* client objects, each with its LocationAPI
  MaxApiCalls      \* bound: calls of updateCallbacks

ASSUME ApiAssumption == MaxApiCalls \in Nat

VARIABLES
  loadable,        \* the adapters whose library is installed
  interfaces,      \* those loaded: gnssInterface, batchingInterface, ...
  clientData,      \* gData.clientData
  waitAdapterMask, \* destroyClientData[c].waitAdapterMask, {} if no entry
  apiHandle,       \* the clients with an mLocationAPI
  apiLife,         \* apiLife[c]: new, live, destroying, deleted
  adapterMsgs,     \* adapterMsgs[a]: the MsgTask of adapter a
  mClientData,     \* mClientData[a]: the clients adapter a knows
  apiCalls         \* those still to come

apiVars == <<loadable, interfaces, clientData, waitAdapterMask, apiHandle, apiLife,
             adapterMsgs, mClientData, apiCalls>>
-----------------------------------------------------------------------------
LocationApiInit ==
  /\ loadable \in SUBSET Adapter /\ interfaces = {}
  /\ clientData = {} /\ apiHandle = {}
  /\ waitAdapterMask = [c \in ApiClient |-> {}]
  /\ apiLife = [c \in ApiClient |-> "new"]
  /\ adapterMsgs = [a \in Adapter |-> <<>>]
  /\ mClientData = [a \in Adapter |-> {}]
  /\ apiCalls = MaxApiCalls

\* A message about c to every adapter of S
Post(S, what, c) ==
  adapterMsgs' = [a \in Adapter |->
     IF a \in S THEN Append(adapterMsgs[a], [what |-> what, client |-> c])
     ELSE adapterMsgs[a]]

\* (mutant) an adapter is taken for loaded although its library is missing
AddToAll(c, wanted) ==
  /\ interfaces' = interfaces \cup wanted
  /\ Post(wanted, "add", c)
  /\ clientData' = clientData \cup {c}
\* createInstance and updateCallbacks load the adapters the callbacks ask for
\* and add the client to them, to update it if it is known.
AddToAdapters(c, wanted) ==
  /\ interfaces' = interfaces \cup (wanted \cap loadable)
  /\ Post(wanted \cap loadable, "add", c)
  /\ clientData' = clientData \cup {c}

CreateInstance(c, wanted) ==
  /\ apiLife[c] = "new" /\ apiLife' = [apiLife EXCEPT ![c] = "live"]
  /\ apiHandle' = apiHandle \cup {c}
  /\ AddToAdapters(c, wanted)
  /\ UNCHANGED <<loadable, waitAdapterMask, mClientData, apiCalls>>

UpdateCallbacks(c, wanted) ==
  /\ c \in apiHandle /\ apiCalls > 0 /\ apiCalls' = apiCalls - 1
  /\ AddToAdapters(c, wanted)
  /\ UNCHANGED <<loadable, waitAdapterMask, apiHandle, apiLife, mClientData>>

\* LocationAPIClientBase::destroy
GiveUpHandle(c) ==
  /\ c \in apiHandle /\ apiHandle' = apiHandle \ {c}
  /\ apiLife' = [apiLife EXCEPT ![c] = "destroying"]
  /\ UNCHANGED <<loadable, interfaces, clientData, waitAdapterMask, adapterMsgs,
                 mClientData, apiCalls>>

\* (mutant) only the adapters that have added the client are waited for
AdaptersToWait(c) == {a \in interfaces : c \in mClientData[a]}
\* (mutant) an adapter that was never loaded is waited for
AdaptersInstalled(c) == loadable
\* removeFromGnssInf, removeFromBatchingInf, removeFromGeofenceInf
AdaptersToLeave(c) == interfaces

\* LocationAPI::destroy: without adapters the object goes at once.
DestroyApi(c) ==
  /\ apiLife[c] = "destroying" /\ c \in clientData
  /\ clientData' = clientData \ {c}
  /\ waitAdapterMask' = [waitAdapterMask EXCEPT ![c] = AdaptersToLeave(c)]
  /\ Post(interfaces, "remove", c)
  /\ apiLife' = IF AdaptersToLeave(c) = {}
                THEN [apiLife EXCEPT ![c] = "deleted"] ELSE apiLife
  /\ UNCHANGED <<loadable, interfaces, apiHandle, mClientData, apiCalls>>

\* waitAdapterMask less the adapter
StillToLeave(c, a) == waitAdapterMask[c] \ {a}

\* MsgRemoveClient::proc forgets the client and answers.
OnRemoveClient(c, a) ==
  /\ mClientData' = [mClientData EXCEPT ![a] = @ \ {c}]
  /\ waitAdapterMask' = [waitAdapterMask EXCEPT ![c] = StillToLeave(c, a)]
  /\ apiLife' = IF waitAdapterMask[c] # {} /\ StillToLeave(c, a) = {}
                THEN [apiLife EXCEPT ![c] = "deleted"] ELSE apiLife

\* An adapter handles the next message.
AdapterHandles(a) ==
  /\ adapterMsgs[a] # <<>>
  /\ adapterMsgs' = [adapterMsgs EXCEPT ![a] = Tail(@)]
  /\ LET m == Head(adapterMsgs[a]) IN
     \/ /\ m.what = "add"
        /\ mClientData' = [mClientData EXCEPT ![a] = @ \cup {m.client}]
        /\ UNCHANGED <<waitAdapterMask, apiLife>>
     \/ m.what = "remove" /\ OnRemoveClient(m.client, a)
  /\ UNCHANGED <<loadable, interfaces, clientData, apiHandle, apiCalls>>
-----------------------------------------------------------------------------
LocationApiNext ==
  \/ \E c \in ApiClient, wanted \in SUBSET Adapter :
       CreateInstance(c, wanted) \/ UpdateCallbacks(c, wanted)
  \/ \E c \in ApiClient : GiveUpHandle(c) \/ DestroyApi(c)
  \/ \E a \in Adapter : AdapterHandles(a)
-----------------------------------------------------------------------------
LocationApiTypeOK ==
  /\ loadable \subseteq Adapter /\ interfaces \subseteq loadable
  /\ clientData \subseteq ApiClient /\ apiHandle \subseteq ApiClient
  /\ waitAdapterMask \in [ApiClient -> SUBSET Adapter]
  /\ apiLife \in [ApiClient -> {"new", "live", "destroying", "deleted"}]
  /\ mClientData \in [Adapter -> SUBSET ApiClient]
  /\ apiCalls \in 0..MaxApiCalls

\* When a client is told that it has been destroyed, and deleted, no adapter
\* knows it or will get to know it, and no other answer for it is outstanding:
\* nobody calls it back any more, although the adapters add and remove it at
\* different times and may be loaded meanwhile for another client
\* (LocationAPI::destroy and onRemoveClientCompleteCb, gps/location/LocationAPI.cpp).
DeletedClientUnknown ==
  \A c \in ApiClient : apiLife[c] = "deleted" =>
    /\ c \notin clientData /\ waitAdapterMask[c] = {}
    /\ \A a \in Adapter :
         c \notin mClientData[a] /\ \A m \in ToSet(adapterMsgs[a]) : m.client # c

\* destroy() completes: the answers of all the adapters it waits for arrive
\* (gps/location/LocationAPI.cpp).
DestroyCompletes ==
  \A c \in ApiClient : apiLife[c] = "destroying" ~> apiLife[c] = "deleted"
=============================================================================
