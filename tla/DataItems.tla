----------------------------- MODULE DataItems -----------------------------
(***************************************************************************)
(* Data items of the operating system (gps/core/SystemStatusOsObserver.cpp)*)
(* and the one who passes them to the XTRA daemon                          *)
(* (gps/gnss/XtraSystemStatusObserver.cpp).                                *)
(*                                                                         *)
(* The framework reports data items; the observer caches them and notifies *)
(* its subscribers; XTRA's sends them over a socket to a daemon that may   *)
(* be down, crash and come up again, and then asks for everything.  All    *)
(* handlers run on the MsgTask of GnssAdapter.                             *)
(*                                                                         *)
(* Outside of the repository: the framework (IDataItemSubscription), the   *)
(* daemon and the engine hub, which is a second subscriber.  Only the hub  *)
(* is handed the observer by GnssAdapter, so that the framework's object   *)
(* is set, once, after XTRA's constructor has subscribed.  What is sent to *)
(* a daemon that is down is lost.                                          *)
(***************************************************************************)
EXTENDS Integers, Sequences, SequencesExt

CONSTANTS
  ItemValue,        \* values of a data item, the GPS lock, the throttle, the DGNSS source
  HubItems,         \* the lists of items in the calls of the hub
  HubCalls,         \* what the hub calls
  MaxDataEvents     \* bound: what the framework, clients and daemon do

NoValue == 0
Item == {"network", "mccmnc", "tac", "screen"}
XtraItem == {"network", "mccmnc", "tac"}
Observer == {"xtra", "hub"}
XtraField == XtraItem \cup {"lock", "throttle", "dgnss"}

ASSUME DataItemsAssumption ==
  /\ NoValue \notin ItemValue
  /\ HubItems \subseteq SUBSET Item
  /\ HubCalls \subseteq {"subscribe", "request", "unsubscribe"}

VARIABLES
  mSubscriptionObj,     \* it is set
  frameworkSubs,        \* what it was asked to subscribe to and not to unsubscribe
  mClientToDataItems,   \* the items of each observer
  mDataItemToClients,   \* the observers of each item
  outOfStep,            \* history: items that were only requested, or wrongly (not) left
  mDataItemCache,       \* the item's value, or NoValue
  dataQ,                \* the MsgTask
  xtra,                 \* mGpsLock, mConnections, mTac, mMccmnc, mXtraThrottle, mNtripParamsString
  mReqStatusReceived,
  daemonUp,
  daemonServed,         \* the daemon was sent the status since it came up
  daemon,               \* what it knows
  dataEvents            \* those still to come

subscriptions ==
  <<mSubscriptionObj, frameworkSubs, mClientToDataItems, mDataItemToClients, outOfStep>>
xtraVars == <<xtra, mReqStatusReceived>>
daemonVars == <<daemonUp, daemonServed, daemon>>
dataVars == <<subscriptions, mDataItemCache, dataQ, xtraVars, daemonVars, dataEvents>>
-----------------------------------------------------------------------------
\* XtraSystemStatusObserver's constructor has just subscribed.
DataItemsInit ==
  /\ mSubscriptionObj = FALSE /\ frameworkSubs = {}
  /\ mClientToDataItems = [c \in Observer |-> {}]
  /\ mDataItemToClients = [d \in Item |-> {}] /\ outOfStep = {}
  /\ mDataItemCache = [d \in Item |-> NoValue]
  /\ dataQ = <<[what |-> "subscribe", items |-> {"network", "mccmnc"}, client |-> "xtra"],
               [what |-> "request", items |-> {"tac"}, client |-> "xtra"]>>
  /\ xtra = [f \in XtraField |-> NoValue] /\ mReqStatusReceived = FALSE
  /\ daemonUp \in BOOLEAN /\ daemonServed = FALSE
  /\ daemon = [f \in XtraField |-> NoValue]
  /\ dataEvents = MaxDataEvents

DataMsg ==
       [what : {"setSubscriptionObj", "unsubscribeAll"}]
  \cup [what : HubCalls, items : HubItems, client : {"hub"}]
  \cup [what : {"notify"}, item : Item, value : ItemValue]
  \cup [what : {"update"}, field : {"lock", "throttle"}, value : ItemValue]
  \cup [what : {"dgnss"}, value : {NoValue} \cup ItemValue]

\* The framework reports an item or sets its object, the hub calls,
\* or the adapter has news for XTRA.
DataEvent ==
  /\ dataEvents > 0 /\ dataEvents' = dataEvents - 1
  /\ \E m \in DataMsg :
       /\ m.what = "setSubscriptionObj" => ~mSubscriptionObj
       /\ dataQ' = Append(dataQ, m)
  /\ UNCHANGED <<subscriptions, mDataItemCache, xtraVars, daemonVars>>
-----------------------------------------------------------------------------
TakeData(what) ==
  /\ dataQ # <<>> /\ Head(dataQ).what = what
  /\ UNCHANGED dataEvents

\* sendCachedDataItems: XTRA's notify() posts them to the same MsgTask.
Cached(c, items) ==
  LET known == SetToSeq({d \in items : mDataItemCache[d] # NoValue}) IN
  IF c # "xtra" THEN <<>>
  ELSE [i \in DOMAIN known |->
          [what |-> "update", field |-> known[i], value |-> mDataItemCache[known[i]]]]

\* SetSubsObj
SetSubscriptionObj ==
  /\ TakeData("setSubscriptionObj")
  /\ dataQ' = Tail(dataQ)
  /\ mSubscriptionObj' = TRUE
  /\ frameworkSubs' = frameworkSubs \cup {d \in Item : mDataItemToClients[d] # {}}
  /\ UNCHANGED <<mClientToDataItems, mDataItemToClients, outOfStep, mDataItemCache>>
  /\ UNCHANGED <<xtraVars, daemonVars>>

\* HandleSubscribeReq: the framework is asked to subscribe to the items that are new
\* or, by requestData, for their data only.
Subscribe ==
  /\ TakeData("subscribe") \/ TakeData("request")
  /\ LET m == Head(dataQ)
         fresh == {d \in m.items : mDataItemToClients[d] = {}}
     IN /\ mClientToDataItems' = [mClientToDataItems EXCEPT ![m.client] = @ \cup m.items]
        /\ mDataItemToClients' = [d \in Item |->
             mDataItemToClients[d] \cup IF d \in m.items THEN {m.client} ELSE {}]
        /\ dataQ' = Tail(dataQ) \o Cached(m.client, m.items)
        /\ frameworkSubs' = frameworkSubs \cup
             IF mSubscriptionObj /\ m.what = "subscribe" THEN fresh ELSE {}
        /\ outOfStep' =
             CASE ~mSubscriptionObj -> outOfStep
               [] m.what = "subscribe" -> outOfStep \ fresh
               [] OTHER -> outOfStep \cup fresh
  /\ UNCHANGED <<mSubscriptionObj, mDataItemCache, xtraVars, daemonVars>>

\* (mutant) the other observers of an item do not count
Abandoned(c, items) == items \cap mClientToDataItems[c]
\* The entries that trimOrRemove leaves without an observer, and erases
LeftAlone(c, items) ==
  {d \in items \cap mClientToDataItems[c] : mDataItemToClients[d] \ {c} = {}}

\* trimOrRemove reads the key of each entry after it has erased it.  What it reads
\* may be that key, any other item, or none that the framework knows.
KeysRead(erased) == {read \in SUBSET Item : Cardinality(read) <= Cardinality(erased)}

\* HandleUnsubscribeReq and HandleUnsubscribeAllReq
Unsubscribe ==
  /\ TakeData("unsubscribe") \/ TakeData("unsubscribeAll")
  /\ LET m == Head(dataQ)
         items == IF m.what = "unsubscribe" THEN m.items ELSE mClientToDataItems["hub"]
     IN /\ mClientToDataItems' = [mClientToDataItems EXCEPT !["hub"] = @ \ items]
        /\ mDataItemToClients' = [d \in Item |->
             mDataItemToClients[d] \ IF d \in items THEN {"hub"} ELSE {}]
        /\ IF mSubscriptionObj
           THEN LET left == LeftAlone("hub", items) IN
                \E read \in KeysRead(left) :
                  /\ frameworkSubs' = frameworkSubs \ read
                  /\ outOfStep' = (outOfStep \ read) \cup (left \ read) \cup (read \ left)
           ELSE UNCHANGED <<frameworkSubs, outOfStep>>
  /\ dataQ' = Tail(dataQ)
  /\ UNCHANGED <<mSubscriptionObj, mDataItemCache, xtraVars, daemonVars>>

\* HandleNotify: an item that has changed is sent to its observers.
Notify ==
  /\ TakeData("notify")
  /\ LET m == Head(dataQ)
         changed == mDataItemCache[m.item] # m.value
     IN /\ mDataItemCache' = [mDataItemCache EXCEPT ![m.item] = m.value]
        /\ dataQ' = Tail(dataQ) \o
             IF changed /\ "xtra" \in mDataItemToClients[m.item]
             THEN <<[what |-> "update", field |-> m.item, value |-> m.value]>> ELSE <<>>
  /\ UNCHANGED <<subscriptions, xtraVars, daemonVars>>
-----------------------------------------------------------------------------
(* XtraSystemStatusObserver *)

SendToDaemon(f, v) ==
  daemon' = IF daemonUp THEN [daemon EXCEPT ![f] = v] ELSE daemon

\* updateConnections, updateTac, updateMccMnc, updateLockStatus, updateXtraThrottle:
\* what changes is kept, and nothing is sent before the daemon has asked once.
XtraUpdate ==
  /\ TakeData("update")
  /\ LET m == Head(dataQ) IN
     /\ xtra' = [xtra EXCEPT ![m.field] = m.value]
     /\ IF mReqStatusReceived THEN SendToDaemon(m.field, m.value) ELSE UNCHANGED daemon
  /\ dataQ' = Tail(dataQ)
  /\ UNCHANGED <<subscriptions, mDataItemCache, mReqStatusReceived, daemonUp, daemonServed>>

\* startDgnssSource and stopDgnssSource
XtraDgnss ==
  /\ TakeData("dgnss")
  /\ xtra' = [xtra EXCEPT !["dgnss"] = Head(dataQ).value]
  /\ SendToDaemon("dgnss", Head(dataQ).value)
  /\ dataQ' = Tail(dataQ)
  /\ UNCHANGED <<subscriptions, mDataItemCache, mReqStatusReceived, daemonUp, daemonServed>>

\* (mutant) only the first daemon is sent the status
RespondOnce(updated) ==
  IF updated \/ mReqStatusReceived THEN {} ELSE XtraItem \cup {"lock"}
\* onStatusRequested and restartDgnssSource: what is sent.  The throttle is not.
Respond(updated) ==
  (IF updated THEN {} ELSE XtraItem \cup {"lock"})
    \cup IF xtra["dgnss"] = NoValue THEN {} ELSE {"dgnss"}

XtraStatusRequested ==
  /\ TakeData("requestStatus")
  /\ LET u == Head(dataQ).updated IN
     /\ daemon' = [f \in XtraField |->
          IF daemonUp /\ f \in Respond(u) THEN xtra[f] ELSE daemon[f]]
     /\ daemonServed' = (daemonServed \/ (daemonUp /\ ~u))
  /\ mReqStatusReceived' = TRUE
  /\ dataQ' = Tail(dataQ)
  /\ UNCHANGED <<subscriptions, mDataItemCache, xtra, daemonUp>>
-----------------------------------------------------------------------------
(* the daemon *)

\* It asks for the status when it comes up or gets "halinit" from mDelayLocTimer,
\* and says whether it has it.
DaemonAsks ==
  /\ daemonUp /\ \A i \in DOMAIN dataQ : dataQ[i].what # "requestStatus"
  /\ IF daemonServed THEN dataEvents > 0 /\ dataEvents' = dataEvents - 1
     ELSE UNCHANGED dataEvents
  /\ dataQ' = Append(dataQ, [what |-> "requestStatus", updated |-> daemonServed])
  /\ UNCHANGED <<subscriptions, mDataItemCache, xtraVars, daemonVars>>

DaemonComesAndGoes ==
  /\ dataEvents > 0 /\ dataEvents' = dataEvents - 1
  /\ daemonUp' = ~daemonUp /\ daemonServed' = FALSE
  /\ daemon' = [f \in XtraField |-> NoValue]
  /\ UNCHANGED <<subscriptions, mDataItemCache, dataQ, xtraVars>>
-----------------------------------------------------------------------------
MsgTaskStep ==
  \/ SetSubscriptionObj \/ Subscribe \/ Unsubscribe \/ Notify
  \/ XtraUpdate \/ XtraDgnss \/ XtraStatusRequested
DataItemsNext == DataEvent \/ MsgTaskStep \/ DaemonAsks \/ DaemonComesAndGoes
DataItemsSpec == DataItemsInit /\ [][DataItemsNext]_dataVars
-----------------------------------------------------------------------------
\* Every variable has its type, and XTRA is sent only items that it can keep.
DataItemsTypeOK ==
  /\ mSubscriptionObj \in BOOLEAN /\ frameworkSubs \subseteq Item /\ outOfStep \subseteq Item
  /\ mClientToDataItems \in [Observer -> SUBSET Item]
  /\ mDataItemToClients \in [Item -> SUBSET Observer]
  /\ mDataItemCache \in [Item -> {NoValue} \cup ItemValue]
  /\ \A v \in {xtra, daemon} : v \in [XtraField -> {NoValue} \cup ItemValue]
  /\ mReqStatusReceived \in BOOLEAN /\ daemonUp \in BOOLEAN /\ daemonServed \in BOOLEAN
  /\ \A i \in DOMAIN dataQ : dataQ[i].what = "update" => dataQ[i].field \in XtraField

MapsMirror ==
  \A c \in Observer, d \in Item : d \in mClientToDataItems[c] <=> c \in mDataItemToClients[d]

\* The two maps of the observer mirror each other, and once its object is set the
\* framework is subscribed to an item exactly when the item has a subscriber, however
\* XTRA and the hub have subscribed, shared and left it.  Excepted are the items that
\* requestData took over (their first observer never gets them subscribed, nor does
\* one that follows) and those that trimOrRemove misread, or missed, when it read the
\* key of an erased entry: until they are left, or left and subscribed to again
\* (gps/core/SystemStatusOsObserver.cpp, LocUnorderedSetMap.h).
SubscribedAtFramework ==
  /\ MapsMirror
  /\ mSubscriptionObj =>
       \A d \in Item \ outOfStep : d \in frameworkSubs <=> mDataItemToClients[d] # {}

\* Once everything under way has been handled, a daemon that has been sent the
\* status knows what the operating system and the adapter last reported, even
\* if it was restarted meanwhile or has the items from before it asked.  Of the
\* throttle it knows the last value or none: the answer to its request leaves it
\* out, so that what was set before the first request or before a restart reaches
\* it only when it is set again
\* (onStatusRequested, gps/gnss/XtraSystemStatusObserver.cpp).
XtraDaemonCurrent ==
  dataQ = <<>> /\ daemonUp /\ daemonServed =>
    /\ \A f \in XtraField \ {"throttle"} : daemon[f] = xtra[f]
    /\ daemon["throttle"] \in {NoValue, xtra["throttle"]}
    /\ \A d \in XtraItem : xtra[d] = mDataItemCache[d]
=============================================================================
