--------------------------- MODULE CoreUtils_proofs ---------------------------
(***************************************************************************)
(* Proofs about gps/core and gps/utils.  The maps of the observer mirror   *)
(* each other, the framework is subscribed to what they hold, the XTRA     *)
(* daemon has what was last reported, and the table of networks holds      *)
(* those that are up; a queue is read in the order in which it is written, *)
(* a timer's delegate does not dangle, the lines of a level of the log     *)
(* stay threaded, and the heap of timers has a highest one at its top.     *)
(* For any values and any number of events.                                *)
(***************************************************************************)
EXTENDS DataItems, NetworkInfo, MsgQueue, LocTimer, LogBuffer, LocHeap, QueueLemmas,
        FiniteSetTheorems, SequenceTheorems

(***************************************************************************)
(* The subscriptions of the observer                                       *)
(***************************************************************************)


Value == {NoValue} \cup ItemValue

\* Everything that is ever in the queue
QueuedMsg ==
       DataMsg
  \cup [what : {"subscribe", "request"}, items : SUBSET XtraItem, client : {"xtra"}]
  \cup [what : {"update"}, field : XtraItem \cup {"lock", "throttle"}, value : Value]
  \cup [what : {"requestStatus"}, updated : BOOLEAN]

Queued == dataQ \in Seq(QueuedMsg)
Values ==
  /\ mDataItemCache \in [Item -> Value]
  /\ xtra \in [XtraField -> Value] /\ daemon \in [XtraField -> Value]
Flags ==
  /\ mSubscriptionObj \in BOOLEAN /\ mReqStatusReceived \in BOOLEAN
  /\ daemonUp \in BOOLEAN /\ daemonServed \in BOOLEAN
Maps ==
  /\ frameworkSubs \in SUBSET Item /\ outOfStep \in SUBSET Item
  /\ mClientToDataItems \in [Observer -> SUBSET Item]
  /\ mDataItemToClients \in [Item -> SUBSET Observer]

XtrasOwn == \A d \in Item \ XtraItem : "xtra" \notin mDataItemToClients[d]

AtFramework ==
  IF mSubscriptionObj
  THEN \A d \in Item \ outOfStep : d \in frameworkSubs <=> mDataItemToClients[d] # {}
  ELSE frameworkSubs = {} /\ outOfStep = {}

DataItemsInv ==
  Queued /\ Values /\ Flags /\ Maps /\ XtrasOwn /\ MapsMirror /\ AtFramework
-----------------------------------------------------------------------------
(* the messages *)

LEMMA MessageShapes ==
  ASSUME NEW m \in QueuedMsg
  PROVE  /\ m.what \in {"subscribe", "request"} =>
              /\ m.client \in Observer /\ m.items \subseteq Item
              /\ m.client = "xtra" => m.items \subseteq XtraItem
         /\ m.what = "unsubscribe" => m.items \subseteq Item
         /\ m.what = "notify" => m.item \in Item /\ m.value \in Value
         /\ m.what = "update" => m.field \in XtraItem \cup {"lock", "throttle"} /\ m.value \in Value
         /\ m.what = "dgnss" => m.value \in Value
         /\ m.what = "requestStatus" => m.updated \in BOOLEAN
  BY DataItemsAssumption DEF QueuedMsg, DataMsg, Item, XtraItem, Observer, Value

\* SetToSeq of a finite set is a sequence of its elements.
LEMMA SetToSeqType ==
  ASSUME NEW S, IsFiniteSet(S)
  PROVE  SetToSeq(S) \in Seq(S)
<1>1. Cardinality(S) \in Nat /\ ExistsBijection(1 .. Cardinality(S), S)
  BY FS_CardinalityType
<1>2. \E f \in [1 .. Cardinality(S) -> S] : IsInjective(f)
  BY <1>1 DEF ExistsBijection, Bijection, Injection
<1>3. SetToSeq(S) \in [1 .. Cardinality(S) -> S]
  BY <1>2 DEF SetToSeq
<1> QED
  BY <1>1, <1>3

\* There are four items.
LEMMA ItemsFinite == \A s \in SUBSET Item : IsFiniteSet(s)
<1>1. IsFiniteSet({} \cup {"network"})
  BY FS_EmptySet, FS_AddElement
<1>2. IsFiniteSet(({} \cup {"network"}) \cup {"mccmnc"})
  BY <1>1, FS_AddElement
<1>3. IsFiniteSet((({} \cup {"network"}) \cup {"mccmnc"}) \cup {"tac"})
  BY <1>2, FS_AddElement
<1>4. IsFiniteSet(((({} \cup {"network"}) \cup {"mccmnc"}) \cup {"tac"}) \cup {"screen"})
  BY <1>3, FS_AddElement
<1>5. Item = ((({} \cup {"network"}) \cup {"mccmnc"}) \cup {"tac"}) \cup {"screen"}
  BY DEF Item
<1> QED
  BY <1>4, <1>5, FS_Subset

LEMMA CachedType ==
  ASSUME NEW c, NEW items \in SUBSET Item, mDataItemCache \in [Item -> Value],
         c = "xtra" => items \subseteq XtraItem
  PROVE  Cached(c, items) \in Seq(QueuedMsg)
<1> DEFINE known == {d \in items : mDataItemCache[d] # NoValue}
           posts == [i \in DOMAIN SetToSeq(known) |->
             [what |-> "update", field |-> SetToSeq(known)[i],
              value |-> mDataItemCache[SetToSeq(known)[i]]]]
<1>1. CASE c = "xtra"
  <2>1. known \in SUBSET XtraItem /\ XtraItem \subseteq Item
    BY <1>1 DEF XtraItem, Item
  <2>2. IsFiniteSet(known)
    BY <2>1, ItemsFinite
  <2>3. SetToSeq(known) \in Seq(XtraItem)
    BY <2>1, <2>2, SetToSeqType
  <2>4. \A d \in XtraItem :
          [what |-> "update", field |-> d, value |-> mDataItemCache[d]] \in QueuedMsg
    BY <2>1 DEF QueuedMsg
  <2>5. posts \in Seq(QueuedMsg)
    <3> HIDE DEF known
    <3> QED
      BY <2>3, <2>4
  <2>6. Cached(c, items) = posts
    BY <1>1 DEF Cached
  <2> QED
    BY <2>5, <2>6
<1>2. CASE c # "xtra"
  BY <1>2 DEF Cached
<1> QED
  BY <1>1, <1>2
-----------------------------------------------------------------------------
LEMMA DataInitInv == DataItemsInit => DataItemsInv
<1> SUFFICES ASSUME DataItemsInit PROVE DataItemsInv
  OBVIOUS
<1>1. Queued
  <2> DEFINE s == [what |-> "subscribe", items |-> {"network", "mccmnc"}, client |-> "xtra"]
             r == [what |-> "request", items |-> {"tac"}, client |-> "xtra"]
  <2>1. s \in QueuedMsg
    <3>1. {"network", "mccmnc"} \in SUBSET XtraItem
      BY DEF XtraItem
    <3> QED
      BY <3>1 DEF QueuedMsg
  <2>2. r \in QueuedMsg
    <3>1. {"tac"} \in SUBSET XtraItem
      BY DEF XtraItem
    <3> QED
      BY <3>1 DEF QueuedMsg
  <2>3. dataQ = <<s, r>>
    BY DEF DataItemsInit
  <2> HIDE DEF s, r
  <2> QED
    BY <2>1, <2>2, <2>3 DEF Queued
<1>2. Values
  BY DEF DataItemsInit, Values, Value
<1>3. Flags
  BY DEF DataItemsInit, Flags
<1>4. Maps
  BY DEF DataItemsInit, Maps
<1>5. XtrasOwn /\ MapsMirror /\ AtFramework
  BY DEF DataItemsInit, XtrasOwn, MapsMirror, AtFramework
<1> QED
  BY <1>1, <1>2, <1>3, <1>4, <1>5 DEF DataItemsInv

\* Taking a message and posting others
LEMMA DataTaken ==
  ASSUME Queued, NEW w, TakeData(w), NEW r \in Seq(QueuedMsg)
  PROVE  /\ Head(dataQ) \in QueuedMsg /\ Head(dataQ).what = w
         /\ Tail(dataQ) \in Seq(QueuedMsg) /\ Tail(dataQ) \o r \in Seq(QueuedMsg)
<1>1. dataQ # <<>> /\ Head(dataQ).what = w
  BY DEF TakeData
<1>2. Head(dataQ) \in QueuedMsg /\ Tail(dataQ) \in Seq(QueuedMsg)
  BY <1>1, TakeHead DEF Queued
<1> QED
  BY <1>1, <1>2, PostMessages

LEMMA SubscribeInv == DataItemsInv /\ Subscribe => DataItemsInv'
<1> SUFFICES ASSUME DataItemsInv, Subscribe PROVE DataItemsInv'
  OBVIOUS
<1> DEFINE m == Head(dataQ)
           fresh == {d \in m.items : mDataItemToClients[d] = {}}
<1>0. Queued /\ Values /\ Flags /\ Maps /\ XtrasOwn /\ MapsMirror /\ AtFramework
  BY DEF DataItemsInv
<1>1. m \in QueuedMsg /\ m.what \in {"subscribe", "request"} /\ Tail(dataQ) \in Seq(QueuedMsg)
  <2>1. <<>> \in Seq(QueuedMsg)
    OBVIOUS
  <2> QED
    BY <1>0, <2>1, DataTaken DEF Subscribe
<1>2. m.client \in Observer /\ m.items \in SUBSET Item
      /\ (m.client = "xtra" => m.items \subseteq XtraItem)
  BY <1>1, MessageShapes
<1>3. /\ mClientToDataItems' = [mClientToDataItems EXCEPT ![m.client] = @ \cup m.items]
      /\ mDataItemToClients' = [d \in Item |->
             mDataItemToClients[d] \cup IF d \in m.items THEN {m.client} ELSE {}]
      /\ dataQ' = Tail(dataQ) \o Cached(m.client, m.items)
      /\ frameworkSubs' = frameworkSubs \cup
             IF mSubscriptionObj /\ m.what = "subscribe" THEN fresh ELSE {}
      /\ outOfStep' =
             CASE ~mSubscriptionObj -> outOfStep
               [] m.what = "subscribe" -> outOfStep \ fresh
               [] OTHER -> outOfStep \cup fresh
      /\ UNCHANGED <<mSubscriptionObj, mDataItemCache, xtraVars, daemonVars>>
  BY DEF Subscribe
<1> HIDE DEF m
<1>4. Queued'
  BY <1>0, <1>1, <1>2, <1>3, CachedType, PostMessages DEF Queued, Values
<1>5. Values' /\ Flags'
  BY <1>0, <1>3 DEF Values, Flags, xtraVars, daemonVars
<1>6. Maps'
  <2>1. mClientToDataItems' \in [Observer -> SUBSET Item]
    BY <1>0, <1>2, <1>3 DEF Maps
  <2>2. mDataItemToClients' \in [Item -> SUBSET Observer]
    BY <1>0, <1>2, <1>3 DEF Maps
  <2>3. frameworkSubs' \in SUBSET Item /\ outOfStep' \in SUBSET Item
    BY <1>0, <1>2, <1>3 DEF Maps
  <2> QED
    BY <2>1, <2>2, <2>3 DEF Maps
<1>7. MapsMirror'
  <2> SUFFICES ASSUME NEW c \in Observer, NEW d \in Item
               PROVE  d \in mClientToDataItems'[c] <=> c \in mDataItemToClients'[d]
    BY DEF MapsMirror
  <2>1. d \in mClientToDataItems[c] <=> c \in mDataItemToClients[d]
    BY <1>0 DEF MapsMirror
  <2>2. d \in mClientToDataItems'[c] <=> d \in mClientToDataItems[c] \/ (c = m.client /\ d \in m.items)
    BY <1>0, <1>2, <1>3 DEF Maps
  <2>3. c \in mDataItemToClients'[d] <=> c \in mDataItemToClients[d] \/ (c = m.client /\ d \in m.items)
    BY <1>3
  <2> QED
    BY <2>1, <2>2, <2>3
<1>8. XtrasOwn'
  <2> SUFFICES ASSUME NEW d \in Item \ XtraItem PROVE "xtra" \notin mDataItemToClients'[d]
    BY DEF XtrasOwn
  <2> QED
    BY <1>0, <1>2, <1>3 DEF XtrasOwn
<1>9. AtFramework'
  <2>1. CASE ~mSubscriptionObj
    BY <1>0, <1>3, <2>1 DEF AtFramework
  <2>2. CASE mSubscriptionObj
    <3> SUFFICES ASSUME NEW d \in Item \ outOfStep'
                 PROVE  d \in frameworkSubs' <=> mDataItemToClients'[d] # {}
      BY <1>3, <2>2 DEF AtFramework
    <3>1. mDataItemToClients'[d] # {} <=> mDataItemToClients[d] # {} \/ d \in m.items
      BY <1>3
    <3>2. d \notin outOfStep => (d \in frameworkSubs <=> mDataItemToClients[d] # {})
      BY <1>0, <2>2 DEF AtFramework
    <3>3. CASE m.what = "subscribe"
      <4>1. outOfStep' = outOfStep \ fresh /\ frameworkSubs' = frameworkSubs \cup fresh
        BY <1>3, <2>2, <3>3
      <4> QED
        BY <3>1, <3>2, <4>1
    <3>4. CASE m.what # "subscribe"
      <4>1. outOfStep' = outOfStep \cup fresh /\ frameworkSubs' = frameworkSubs
        BY <1>3, <2>2, <3>4
      <4> QED
        BY <3>1, <3>2, <4>1
    <3> QED
      BY <3>3, <3>4
  <2> QED
    BY <2>1, <2>2
<1> QED
  BY <1>4, <1>5, <1>6, <1>7, <1>8, <1>9 DEF DataItemsInv

LEMMA UnsubscribeInv == DataItemsInv /\ Unsubscribe => DataItemsInv'
<1> SUFFICES ASSUME DataItemsInv, Unsubscribe PROVE DataItemsInv'
  OBVIOUS
<1> DEFINE m == Head(dataQ)
           items == IF m.what = "unsubscribe" THEN m.items ELSE mClientToDataItems["hub"]
           left == LeftAlone("hub", items)
<1>0. Queued /\ Values /\ Flags /\ Maps /\ XtrasOwn /\ MapsMirror /\ AtFramework
  BY DEF DataItemsInv
<1>1. m \in QueuedMsg /\ Tail(dataQ) \in Seq(QueuedMsg)
  <2>1. <<>> \in Seq(QueuedMsg)
    OBVIOUS
  <2> QED
    BY <1>0, <2>1, DataTaken DEF Unsubscribe
<1>2. items \in SUBSET Item /\ "hub" \in Observer
  BY <1>0, <1>1, MessageShapes DEF Maps, Observer
<1>3. /\ mClientToDataItems' = [mClientToDataItems EXCEPT !["hub"] = @ \ items]
      /\ mDataItemToClients' = [d \in Item |->
             mDataItemToClients[d] \ IF d \in items THEN {"hub"} ELSE {}]
      /\ IF mSubscriptionObj
         THEN \E read \in KeysRead(left) :
                /\ frameworkSubs' = frameworkSubs \ read
                /\ outOfStep' = (outOfStep \ read) \cup (left \ read) \cup (read \ left)
         ELSE UNCHANGED <<frameworkSubs, outOfStep>>
      /\ dataQ' = Tail(dataQ)
      /\ UNCHANGED <<mSubscriptionObj, mDataItemCache, xtraVars, daemonVars>>
  BY DEF Unsubscribe
<1> HIDE DEF m, items, left
<1>4. left \in SUBSET Item /\ \A read \in KeysRead(left) : read \in SUBSET Item
  BY <1>2 DEF left, LeftAlone, KeysRead
<1>5. Queued' /\ Values' /\ Flags'
  BY <1>0, <1>1, <1>3 DEF Queued, Values, Flags, xtraVars, daemonVars
<1>6. Maps'
  <2>1. mClientToDataItems' \in [Observer -> SUBSET Item]
    BY <1>0, <1>2, <1>3 DEF Maps
  <2>2. mDataItemToClients' \in [Item -> SUBSET Observer]
    BY <1>0, <1>2, <1>3 DEF Maps
  <2>3. frameworkSubs' \in SUBSET Item /\ outOfStep' \in SUBSET Item
    BY <1>0, <1>3, <1>4 DEF Maps
  <2> QED
    BY <2>1, <2>2, <2>3 DEF Maps
<1>7. MapsMirror'
  <2> SUFFICES ASSUME NEW c \in Observer, NEW d \in Item
               PROVE  d \in mClientToDataItems'[c] <=> c \in mDataItemToClients'[d]
    BY DEF MapsMirror
  <2>1. d \in mClientToDataItems[c] <=> c \in mDataItemToClients[d]
    BY <1>0 DEF MapsMirror
  <2>2. d \in mClientToDataItems'[c] <=> d \in mClientToDataItems[c] /\ ~(c = "hub" /\ d \in items)
    BY <1>0, <1>2, <1>3 DEF Maps
  <2>3. c \in mDataItemToClients'[d] <=> c \in mDataItemToClients[d] /\ ~(c = "hub" /\ d \in items)
    BY <1>3
  <2> QED
    BY <2>1, <2>2, <2>3
<1>8. XtrasOwn'
  <2> SUFFICES ASSUME NEW d \in Item \ XtraItem PROVE "xtra" \notin mDataItemToClients'[d]
    BY DEF XtrasOwn
  <2> QED
    BY <1>0, <1>3 DEF XtrasOwn
<1>9. AtFramework'
  <2>1. CASE ~mSubscriptionObj
    BY <1>0, <1>3, <2>1 DEF AtFramework
  <2>2. CASE mSubscriptionObj
    <3> SUFFICES ASSUME NEW d \in Item \ outOfStep'
                 PROVE  d \in frameworkSubs' <=> mDataItemToClients'[d] # {}
      BY <1>3, <2>2 DEF AtFramework
    <3>1. PICK read \in KeysRead(left) :
            /\ frameworkSubs' = frameworkSubs \ read
            /\ outOfStep' = (outOfStep \ read) \cup (left \ read) \cup (read \ left)
      BY <1>3, <2>2
    <3>2. d \in read <=> d \in left
      BY <3>1
    <3>3. d \notin read => (d \in frameworkSubs <=> mDataItemToClients[d] # {})
      BY <1>0, <2>2, <3>1 DEF AtFramework
    <3>4. "hub" \in mDataItemToClients[d] <=> d \in mClientToDataItems["hub"]
      BY <1>0, <1>2 DEF MapsMirror
    <3>5. mDataItemToClients'[d] = mDataItemToClients[d] \ IF d \in items THEN {"hub"} ELSE {}
      BY <1>3
    <3>6. d \in left <=>
            /\ d \in items /\ d \in mClientToDataItems["hub"]
            /\ mDataItemToClients[d] \ {"hub"} = {}
      BY DEF left, LeftAlone
    <3> QED
      BY <3>1, <3>2, <3>3, <3>4, <3>5, <3>6
  <2> QED
    BY <2>1, <2>2
<1> QED
  BY <1>5, <1>6, <1>7, <1>8, <1>9 DEF DataItemsInv

\* The steps that do not change the maps
LEMMA OtherStepInv ==
  ASSUME DataItemsInv, UNCHANGED subscriptions, Queued', Values', Flags'
  PROVE  DataItemsInv'
<1>1. Maps' /\ XtrasOwn' /\ MapsMirror' /\ AtFramework'
  BY DEF DataItemsInv, subscriptions, Maps, XtrasOwn, MapsMirror, AtFramework
<1> QED
  BY <1>1 DEF DataItemsInv

LEMMA SetSubscriptionObjInv == DataItemsInv /\ SetSubscriptionObj => DataItemsInv'
<1> SUFFICES ASSUME DataItemsInv, SetSubscriptionObj PROVE DataItemsInv'
  OBVIOUS
<1>0. Queued /\ Values /\ Flags /\ Maps /\ XtrasOwn /\ MapsMirror /\ AtFramework
  BY DEF DataItemsInv
<1>1. Queued'
  <2>1. <<>> \in Seq(QueuedMsg)
    OBVIOUS
  <2> QED
    BY <1>0, <2>1, DataTaken DEF SetSubscriptionObj, Queued
<1>2. Values' /\ Flags'
  BY <1>0 DEF SetSubscriptionObj, TakeData, Values, Flags, xtraVars, daemonVars
<1>3. Maps' /\ XtrasOwn' /\ MapsMirror'
  BY <1>0 DEF SetSubscriptionObj, Maps, XtrasOwn, MapsMirror
<1>4. AtFramework'
  BY <1>0 DEF SetSubscriptionObj, AtFramework
<1> QED
  BY <1>1, <1>2, <1>3, <1>4 DEF DataItemsInv

LEMMA NotifyInv == DataItemsInv /\ Notify => DataItemsInv'
<1> SUFFICES ASSUME DataItemsInv, Notify PROVE DataItemsInv'
  OBVIOUS
<1> DEFINE m == Head(dataQ)
           u == [what |-> "update", field |-> m.item, value |-> m.value]
<1>0. Queued /\ Values /\ Flags
  BY DEF DataItemsInv
<1>1. <<>> \in Seq(QueuedMsg)
  OBVIOUS
<1>2. m \in QueuedMsg /\ m.what = "notify"
  BY <1>0, <1>1, DataTaken DEF Notify
<1>3. m.item \in Item /\ m.value \in Value
  BY <1>2, MessageShapes
<1>4. /\ mDataItemCache' = [mDataItemCache EXCEPT ![m.item] = m.value]
      /\ dataQ' = Tail(dataQ) \o
             IF mDataItemCache[m.item] # m.value /\ "xtra" \in mDataItemToClients[m.item]
             THEN <<u>> ELSE <<>>
      /\ UNCHANGED <<subscriptions, xtraVars, daemonVars>>
  BY DEF Notify
<1>5. "xtra" \in mDataItemToClients[m.item] => u \in QueuedMsg
  <2>1. "xtra" \in mDataItemToClients[m.item] => m.item \in XtraItem
    BY <1>3 DEF DataItemsInv, XtrasOwn
  <2> QED
    BY <1>3, <2>1 DEF QueuedMsg
<1>6. PICK r : r \in Seq(QueuedMsg) /\ dataQ' = Tail(dataQ) \o r
  <2> HIDE DEF u
  <2>2. CASE mDataItemCache[m.item] # m.value /\ "xtra" \in mDataItemToClients[m.item]
    <3>1. <<u>> \in Seq(QueuedMsg)
      BY <1>5, <2>2
    <3> QED
      BY <1>4, <2>2, <3>1
  <2>3. CASE ~(mDataItemCache[m.item] # m.value /\ "xtra" \in mDataItemToClients[m.item])
    <3> QED
      BY <1>1, <1>4, <2>3
  <2> QED
    BY <2>2, <2>3
<1>8. Queued'
  BY <1>0, <1>6, DataTaken DEF Notify, Queued
<1>9. Values' /\ Flags'
  <2> HIDE DEF m, u
  <2>1. mDataItemCache' \in [Item -> Value]
    BY <1>0, <1>3, <1>4 DEF Values
  <2> QED
    BY <1>0, <1>4, <2>1 DEF Values, Flags, subscriptions, xtraVars, daemonVars
<1> QED
  BY <1>4, <1>8, <1>9, OtherStepInv

LEMMA XtraInv ==
  DataItemsInv /\ (XtraUpdate \/ XtraDgnss \/ XtraStatusRequested) => DataItemsInv'
<1> SUFFICES ASSUME DataItemsInv, XtraUpdate \/ XtraDgnss \/ XtraStatusRequested
             PROVE  DataItemsInv'
  OBVIOUS
<1>0. Queued /\ Values /\ Flags
  BY DEF DataItemsInv
<1>1. <<>> \in Seq(QueuedMsg)
  OBVIOUS
<1>2. Queued'
  BY <1>0, <1>1, DataTaken DEF XtraUpdate, XtraDgnss, XtraStatusRequested, Queued
<1>3. CASE XtraUpdate
  <2>1. Head(dataQ).field \in XtraField /\ Head(dataQ).value \in Value
    BY <1>0, <1>1, <1>3, DataTaken, MessageShapes DEF XtraUpdate, XtraField
  <2>2. Values'
    BY <1>0, <1>3, <2>1 DEF XtraUpdate, SendToDaemon, Values
  <2>3. Flags' /\ UNCHANGED subscriptions
    BY <1>0, <1>3 DEF XtraUpdate, Flags, subscriptions
  <2> QED
    BY <1>2, <2>2, <2>3, OtherStepInv
<1>4. CASE XtraDgnss
  <2>1. Head(dataQ).value \in Value /\ "dgnss" \in XtraField
    BY <1>0, <1>1, <1>4, DataTaken, MessageShapes DEF XtraDgnss, XtraField
  <2>2. Values'
    BY <1>0, <1>4, <2>1 DEF XtraDgnss, SendToDaemon, Values
  <2>3. Flags' /\ UNCHANGED subscriptions
    BY <1>0, <1>4 DEF XtraDgnss, Flags, subscriptions
  <2> QED
    BY <1>2, <2>2, <2>3, OtherStepInv
<1>5. CASE XtraStatusRequested
  <2>1. Values'
    BY <1>0, <1>5 DEF XtraStatusRequested, Values
  <2>2. mReqStatusReceived' = TRUE
        /\ daemonServed' = (daemonServed \/ (daemonUp /\ ~Head(dataQ).updated))
        /\ UNCHANGED <<subscriptions, daemonUp>>
    BY <1>5 DEF XtraStatusRequested
  <2>3. Flags' /\ UNCHANGED subscriptions
    BY <1>0, <2>2 DEF Flags, subscriptions
  <2> QED
    BY <1>2, <2>1, <2>3, OtherStepInv
<1> QED
  BY <1>3, <1>4, <1>5

LEMMA OutsideInv ==
  DataItemsInv /\ (DataEvent \/ DaemonAsks \/ DaemonComesAndGoes) => DataItemsInv'
<1> SUFFICES ASSUME DataItemsInv, DataEvent \/ DaemonAsks \/ DaemonComesAndGoes
             PROVE  DataItemsInv'
  OBVIOUS
<1>0. Queued /\ Values /\ Flags
  BY DEF DataItemsInv
<1>1. CASE DataEvent
  <2>1. PICK m \in DataMsg : dataQ' = Append(dataQ, m)
    BY <1>1 DEF DataEvent
  <2>2. m \in QueuedMsg
    BY DEF QueuedMsg
  <2>3. Queued'
    BY <1>0, <2>1, <2>2, PostMessage DEF Queued
  <2>4. Values' /\ Flags' /\ UNCHANGED subscriptions
    BY <1>0, <1>1 DEF DataEvent, Values, Flags, subscriptions, xtraVars, daemonVars
  <2> QED
    BY <2>3, <2>4, OtherStepInv
<1>2. CASE DaemonAsks
  <2>1. [what |-> "requestStatus", updated |-> daemonServed] \in QueuedMsg
    BY <1>0 DEF QueuedMsg, Flags
  <2>2. dataQ' = Append(dataQ, [what |-> "requestStatus", updated |-> daemonServed])
    BY <1>2 DEF DaemonAsks
  <2>3. Queued'
    BY <1>0, <2>1, <2>2, PostMessage DEF Queued
  <2>4. Values' /\ Flags' /\ UNCHANGED subscriptions
    BY <1>0, <1>2 DEF DaemonAsks, Values, Flags, subscriptions, xtraVars, daemonVars
  <2> QED
    BY <2>3, <2>4, OtherStepInv
<1>3. CASE DaemonComesAndGoes
  <2>1. Values'
    BY <1>0, <1>3 DEF DaemonComesAndGoes, Values, Value, xtraVars
  <2>2. Flags' /\ Queued' /\ UNCHANGED <<dataQ, subscriptions>>
    BY <1>0, <1>3 DEF DaemonComesAndGoes, Flags, Queued, subscriptions, xtraVars
  <2> QED
    BY <2>1, <2>2, OtherStepInv
<1> QED
  BY <1>1, <1>2, <1>3

LEMMA DataStepInv == DataItemsInv /\ [DataItemsNext]_dataVars => DataItemsInv'
<1> SUFFICES ASSUME DataItemsInv, UNCHANGED dataVars PROVE DataItemsInv'
  BY SubscribeInv, UnsubscribeInv, SetSubscriptionObjInv, NotifyInv, XtraInv, OutsideInv
     DEF DataItemsNext, MsgTaskStep
<1>1. Queued' /\ Values' /\ Flags' /\ UNCHANGED subscriptions
  BY DEF dataVars, subscriptions, xtraVars, daemonVars, DataItemsInv, Queued, Values, Flags
<1> QED
  BY <1>1, OtherStepInv
-----------------------------------------------------------------------------
\* The state keeps its types (gps/core/SystemStatusOsObserver.h,
\* gps/gnss/XtraSystemStatusObserver.h).
THEOREM DataItemsTypeCorrect == DataItemsSpec => []DataItemsTypeOK
<1>1. ASSUME DataItemsInv, NEW i \in DOMAIN dataQ, dataQ[i].what = "update"
      PROVE  dataQ[i].field \in XtraField
  <2>1. dataQ[i] \in QueuedMsg
    BY <1>1 DEF DataItemsInv, Queued
  <2> QED
    BY <1>1, <2>1, DataItemsAssumption DEF QueuedMsg, DataMsg, XtraField
<1>2. DataItemsInv => DataItemsTypeOK
  BY <1>1 DEF DataItemsInv, Values, Value, Flags, Maps, DataItemsTypeOK
<1> QED
  BY DataInitInv, DataStepInv, <1>2, PTL DEF DataItemsSpec

\* For any values, any lists of items and any number of events the maps of the
\* observer mirror each other, whatever key trimOrRemove reads from the entry it
\* has erased, and the framework is subscribed to exactly the items that have a
\* subscriber, whoever came, shared them and left, apart from those that were only
\* requested from it or misread, until they are back in step
\* (gps/core/SystemStatusOsObserver.cpp, LocUnorderedSetMap.h).
THEOREM AlwaysSubscribedAtFramework == DataItemsSpec => []SubscribedAtFramework
<1>1. DataItemsInv => SubscribedAtFramework
  BY DEF DataItemsInv, AtFramework, SubscribedAtFramework
<1> QED
  BY DataInitInv, DataStepInv, <1>1, PTL DEF DataItemsSpec

(***************************************************************************)
(* What reaches the XTRA daemon                                            *)
(***************************************************************************)

\* The messages that give XTRA an item, or a field a value, and those that will
\* make it hear of an item.
UpdateOf(d) == {m \in QueuedMsg : m.what = "update" /\ m.field = d}
Giving(v) == {m \in QueuedMsg : m.what = "update" /\ m.value = v}
AsksFor(d) ==
  {m \in QueuedMsg : m.what \in {"subscribe", "request"} /\ m.client = "xtra" /\ d \in m.items}

\* Once the queue is handled XTRA has what the cache has of each item it is
\* subscribed to; of the others it has nothing, and will subscribe to them.
Hears(d, q, cache, known, watching) ==
  IF "xtra" \in watching THEN Outcome(q, UpdateOf(d), Giving(cache), known = cache)
  ELSE NoneOf(q, UpdateOf(d)) /\ known = NoValue /\ ~NoneOf(q, AsksFor(d))
XtraHears ==
  \A d \in XtraItem :
    Hears(d, dataQ, mDataItemCache[d], xtra[d], mDataItemToClients[d])

\* A daemon that was sent the status has what XTRA has; before that it has no
\* source of corrections when XTRA has none.
DaemonHears ==
  /\ daemonUp /\ daemonServed =>
       mReqStatusReceived /\ \A f \in XtraField \ {"throttle"} : daemon[f] = xtra[f]
  /\ daemonUp => daemon["throttle"] \in {NoValue, xtra["throttle"]}
  /\ daemonUp /\ ~mReqStatusReceived => daemon["throttle"] = NoValue
  /\ daemonUp /\ xtra["dgnss"] = NoValue => daemon["dgnss"] = NoValue

DaemonInv == DataItemsInv /\ XtraHears /\ DaemonHears
-----------------------------------------------------------------------------
\* SetToSeq of a finite set has each of its elements at one place.
LEMMA SetToSeqPlaces ==
  ASSUME NEW S, IsFiniteSet(S)
  PROVE  /\ \A d \in S : \E i \in DOMAIN SetToSeq(S) : SetToSeq(S)[i] = d
         /\ \A i, j \in DOMAIN SetToSeq(S) : SetToSeq(S)[i] = SetToSeq(S)[j] => i = j
<1> DEFINE n == Cardinality(S)
<1>1. n \in Nat /\ ExistsBijection(1 .. n, S)
  BY FS_CardinalityType
<1>2. \E f \in [1 .. n -> S] : IsInjective(f)
  BY <1>1 DEF ExistsBijection, Bijection, Injection
<1>3. SetToSeq(S) \in [1 .. n -> S] /\ IsInjective(SetToSeq(S))
  BY <1>2 DEF SetToSeq
<1>4. SetToSeq(S) \in Injection(1 .. n, S)
  BY <1>3 DEF Injection
<1>5. IsFiniteSet(1 .. n) /\ Cardinality(1 .. n) = n
  BY <1>1, FS_Interval
<1>6. SetToSeq(S) \in Surjection(1 .. n, S)
  BY <1>4, <1>5, FS_Injection
<1>7. \A d \in S : \E i \in 1 .. n : SetToSeq(S)[i] = d
  BY <1>6 DEF Surjection
<1> QED
  BY <1>3, <1>7 DEF IsInjective

\* What sendCachedDataItems posts: the value of each item that is known, once.
LEMMA CachedNews ==
  ASSUME NEW c, NEW items \in SUBSET Item, mDataItemCache \in [Item -> Value],
         c = "xtra" => items \subseteq XtraItem, NEW d \in XtraItem
  PROVE  LET r == Cached(c, items) IN
         /\ NoneOf(r, AsksFor(d))
         /\ ~(c = "xtra" /\ d \in items /\ mDataItemCache[d] # NoValue) => NoneOf(r, UpdateOf(d))
         /\ c = "xtra" /\ d \in items /\ mDataItemCache[d] # NoValue
              => LastIs(r, UpdateOf(d), Giving(mDataItemCache[d]))
<1> DEFINE known == {e \in items : mDataItemCache[e] # NoValue}
<1>1. known \in SUBSET Item /\ IsFiniteSet(known)
  BY ItemsFinite
<1>2. PICK s : s = SetToSeq(known)
  OBVIOUS
<1>3. s \in Seq(known)
  BY <1>1, <1>2, SetToSeqType
<1>4. /\ \A e \in known : \E i \in DOMAIN s : s[i] = e
      /\ \A i, j \in DOMAIN s : s[i] = s[j] => i = j
  BY <1>1, <1>2, SetToSeqPlaces
<1>5. PICK r : r = Cached(c, items)
  OBVIOUS
<1>6. CASE c # "xtra"
  <2>1. r = <<>>
    BY <1>5, <1>6 DEF Cached
  <2>2. NoneOf(r, AsksFor(d)) /\ NoneOf(r, UpdateOf(d))
    BY <2>1, EmptyOutcome
  <2> QED
    BY <1>5, <1>6, <2>2
<1>7. CASE c = "xtra"
  <2>1. r = [i \in DOMAIN s |->
               [what |-> "update", field |-> s[i], value |-> mDataItemCache[s[i]]]]
    BY <1>2, <1>5, <1>7 DEF Cached
  <2>2. /\ DOMAIN r = DOMAIN s /\ DOMAIN s \subseteq Nat
        /\ \A i \in DOMAIN s : s[i] \in known
        /\ \A i \in DOMAIN s : /\ r[i].what = "update" /\ r[i].field = s[i]
                               /\ r[i].value = mDataItemCache[s[i]]
    BY <1>3, <2>1
  <2>3. \A i \in DOMAIN s : r[i] \in QueuedMsg
    <3>1. \A e \in XtraItem :
            [what |-> "update", field |-> e, value |-> mDataItemCache[e]] \in QueuedMsg
      BY DEF QueuedMsg, XtraItem, Item
    <3>2. known \subseteq XtraItem
      BY <1>7
    <3> QED
      BY <2>1, <2>2, <3>1, <3>2
  <2>4. NoneOf(r, AsksFor(d))
    BY <2>2 DEF NoneOf, AsksFor
  <2>5. d \notin known => NoneOf(r, UpdateOf(d))
    BY <2>2 DEF NoneOf, UpdateOf
  <2>6. d \in known => LastIs(r, UpdateOf(d), Giving(mDataItemCache[d]))
    <3> SUFFICES ASSUME d \in known PROVE LastIs(r, UpdateOf(d), Giving(mDataItemCache[d]))
      OBVIOUS
    <3>1. PICK i \in DOMAIN s : s[i] = d
      BY <1>4
    <3>2. r[i] \in UpdateOf(d) /\ r[i] \in Giving(mDataItemCache[d])
      BY <2>2, <2>3, <3>1 DEF UpdateOf, Giving
    <3>3. \A j \in DOMAIN r : r[j] \in UpdateOf(d) => j = i
      BY <1>4, <2>2, <3>1 DEF UpdateOf
    <3>4. \A j \in DOMAIN r : r[j] \in UpdateOf(d) => j <= i
      BY <2>2, <3>1, <3>3
    <3> QED
      BY <2>2, <3>1, <3>2, <3>4 DEF LastIs
  <2> QED
    BY <1>5, <1>7, <2>4, <2>5, <2>6
<1> QED
  BY <1>6, <1>7
-----------------------------------------------------------------------------
\* Nothing is known, and XTRA is about to subscribe.
LEMMA HearsInit == DataItemsInit => DaemonInv
<1> SUFFICES ASSUME DataItemsInit PROVE DaemonInv
  OBVIOUS
<1>1. DataItemsInv
  BY DataInitInv
<1>2. DaemonHears
  BY DEF DataItemsInit, DaemonHears, XtraField
<1>3. XtraHears
  <2> SUFFICES ASSUME NEW d \in XtraItem
               PROVE  Hears(d, dataQ, mDataItemCache[d], xtra[d], mDataItemToClients[d])
    BY DEF XtraHears
  <2>1. "xtra" \notin mDataItemToClients[d] /\ xtra[d] = NoValue
    BY DEF DataItemsInit, XtraField, XtraItem, Item
  <2>2. PICK s, r :
          /\ s = [what |-> "subscribe", items |-> {"network", "mccmnc"}, client |-> "xtra"]
          /\ r = [what |-> "request", items |-> {"tac"}, client |-> "xtra"]
    OBVIOUS
  <2>3. dataQ = <<s, r>>
    BY <2>2 DEF DataItemsInit
  <2>4. DOMAIN dataQ = {1, 2} /\ dataQ[1] = s /\ dataQ[2] = r
    BY <2>3
  <2>5. s \notin UpdateOf(d) /\ r \notin UpdateOf(d)
    BY <2>2 DEF UpdateOf
  <2>6. dataQ \in Seq(QueuedMsg)
    BY <1>1 DEF DataItemsInv, Queued
  <2>7. s \in QueuedMsg /\ r \in QueuedMsg
    <3>1. \A i \in DOMAIN dataQ : dataQ[i] \in QueuedMsg
      BY <2>6
    <3> QED
      BY <2>4, <3>1
  <2>8. s \in AsksFor(d) \/ r \in AsksFor(d)
    BY <2>2, <2>7 DEF AsksFor, XtraItem
  <2>9. NoneOf(dataQ, UpdateOf(d)) /\ ~NoneOf(dataQ, AsksFor(d))
    BY <2>4, <2>5, <2>8 DEF NoneOf
  <2> QED
    BY <2>1, <2>9 DEF Hears
<1> QED
  BY <1>1, <1>2, <1>3 DEF DaemonInv

\* A message that neither updates the item nor subscribes XTRA to it is taken
\* from the queue.
LEMMA OthersTaken ==
  ASSUME NEW d, NEW q \in Seq(QueuedMsg), q # <<>>, NEW v, NEW known, NEW watching,
         Hears(d, q, v, known, watching),
         Head(q) \notin UpdateOf(d), "xtra" \in watching \/ Head(q) \notin AsksFor(d)
  PROVE  Hears(d, Tail(q), v, known, watching)
<1>1. NoneOf(q, UpdateOf(d)) <=> NoneOf(Tail(q), UpdateOf(d))
  BY NoneTake
<1>2. NoneOf(q, AsksFor(d)) <=> Head(q) \notin AsksFor(d) /\ NoneOf(Tail(q), AsksFor(d))
  BY NoneTake
<1>3. LastIs(q, UpdateOf(d), Giving(v)) <=> LastIs(Tail(q), UpdateOf(d), Giving(v))
  BY OutcomeTake
<1> QED
  BY <1>1, <1>2, <1>3 DEF Hears, Outcome

\* The same for a posted message
LEMMA OthersPosted ==
  ASSUME NEW d, NEW q \in Seq(QueuedMsg), NEW m \in QueuedMsg, NEW v, NEW known,
         NEW watching, Hears(d, q, v, known, watching), m \notin UpdateOf(d)
  PROVE  Hears(d, Append(q, m), v, known, watching)
<1>1. NoneOf(Append(q, m), UpdateOf(d)) <=> NoneOf(q, UpdateOf(d))
  BY NonePost
<1>2. NoneOf(Append(q, m), AsksFor(d)) <=> NoneOf(q, AsksFor(d)) /\ m \notin AsksFor(d)
  BY NonePost
<1>3. LastIs(Append(q, m), UpdateOf(d), Giving(v)) <=> LastIs(q, UpdateOf(d), Giving(v))
  BY OutcomePost
<1> QED
  BY <1>1, <1>2, <1>3 DEF Hears, Outcome

\* The steps that neither change what XTRA knows nor what it hears
LEMMA HearsOutside ==
  DaemonInv /\ (DataEvent \/ DaemonAsks \/ DaemonComesAndGoes) => DaemonInv'
<1> SUFFICES ASSUME DaemonInv, DataEvent \/ DaemonAsks \/ DaemonComesAndGoes
             PROVE  DaemonInv'
  OBVIOUS
<1>1. DataItemsInv'
  BY OutsideInv DEF DaemonInv
<1>2. Queued /\ Values /\ Flags /\ Maps
  BY DEF DaemonInv, DataItemsInv
<1>3. UNCHANGED <<subscriptions, mDataItemCache, xtraVars>>
  BY DEF DataEvent, DaemonAsks, DaemonComesAndGoes
<1>4. DaemonHears'
  <2>1. CASE DataEvent \/ DaemonAsks
    BY <1>3, <2>1 DEF DaemonInv, DaemonHears, DataEvent, DaemonAsks, xtraVars, daemonVars
  <2>2. CASE DaemonComesAndGoes
    BY <2>2 DEF DaemonHears, DaemonComesAndGoes, XtraField
  <2> QED
    BY <2>1, <2>2
<1>5. XtraHears'
  <2>1. dataQ' = dataQ \/ \E m \in QueuedMsg :
                            dataQ' = Append(dataQ, m) /\ \A d \in XtraItem : m \notin UpdateOf(d)
    <3>1. CASE DataEvent
      <4>1. PICK m \in DataMsg : dataQ' = Append(dataQ, m)
        BY <3>1 DEF DataEvent
      <4>2. m \in QueuedMsg /\ (m.what = "update" => m.field \in {"lock", "throttle"})
        BY DataItemsAssumption DEF QueuedMsg, DataMsg
      <4> QED
        BY <4>1, <4>2 DEF UpdateOf, XtraItem
    <3>2. CASE DaemonAsks
      <4>1. PICK m : m = [what |-> "requestStatus", updated |-> daemonServed]
        OBVIOUS
      <4>2. m \in QueuedMsg
        BY <1>2, <4>1 DEF QueuedMsg, Flags
      <4>3. dataQ' = Append(dataQ, m)
        BY <3>2, <4>1 DEF DaemonAsks
      <4>4. m.what = "requestStatus"
        BY <4>1
      <4> QED
        BY <4>2, <4>3, <4>4 DEF UpdateOf
    <3>3. CASE DaemonComesAndGoes
      BY <3>3 DEF DaemonComesAndGoes
    <3> QED
      BY <3>1, <3>2, <3>3
  <2> SUFFICES ASSUME NEW d \in XtraItem
               PROVE  Hears(d, dataQ', mDataItemCache[d], xtra[d], mDataItemToClients[d])
    BY <1>3 DEF XtraHears, subscriptions, xtraVars
  <2>2. Hears(d, dataQ, mDataItemCache[d], xtra[d], mDataItemToClients[d])
    BY DEF DaemonInv, XtraHears
  <2>3. dataQ \in Seq(QueuedMsg)
    BY <1>2 DEF Queued
  <2> QED
    BY <2>1, <2>2, <2>3, OthersPosted
<1> QED
  BY <1>1, <1>4, <1>5 DEF DaemonInv

\* What other observers do is nothing to XTRA.
LEMMA HearsObserver ==
  DaemonInv /\ (SetSubscriptionObj \/ Unsubscribe) => DaemonInv'
<1> SUFFICES ASSUME DaemonInv, SetSubscriptionObj \/ Unsubscribe PROVE DaemonInv'
  OBVIOUS
<1>1. DataItemsInv'
  BY SetSubscriptionObjInv, UnsubscribeInv DEF DaemonInv
<1>2. Queued /\ Maps
  BY DEF DaemonInv, DataItemsInv
<1>3. UNCHANGED <<mDataItemCache, xtraVars, daemonVars>> /\ dataQ' = Tail(dataQ)
  BY DEF SetSubscriptionObj, Unsubscribe
<1>4. dataQ # <<>> /\ Head(dataQ).what \in {"setSubscriptionObj", "unsubscribe", "unsubscribeAll"}
  BY DEF SetSubscriptionObj, Unsubscribe, TakeData
<1>5. \A d \in XtraItem : "xtra" \in mDataItemToClients'[d] <=> "xtra" \in mDataItemToClients[d]
  <2>1. CASE SetSubscriptionObj
    BY <2>1 DEF SetSubscriptionObj
  <2>2. CASE Unsubscribe
    <3>1. PICK items : mDataItemToClients' = [d \in Item |->
             mDataItemToClients[d] \ IF d \in items THEN {"hub"} ELSE {}]
      BY <2>2 DEF Unsubscribe
    <3> QED
      BY <3>1 DEF XtraItem, Item
  <2> QED
    BY <2>1, <2>2
<1>6. DaemonHears'
  BY <1>3 DEF DaemonInv, DaemonHears, xtraVars, daemonVars
<1>7. XtraHears'
  <2> SUFFICES ASSUME NEW d \in XtraItem
               PROVE  Hears(d, Tail(dataQ), mDataItemCache[d], xtra[d], mDataItemToClients[d])
    BY <1>3, <1>5 DEF XtraHears, xtraVars, Hears
  <2>1. Hears(d, dataQ, mDataItemCache[d], xtra[d], mDataItemToClients[d])
    BY DEF DaemonInv, XtraHears
  <2>2. Head(dataQ) \notin UpdateOf(d) /\ Head(dataQ) \notin AsksFor(d)
    BY <1>4 DEF UpdateOf, AsksFor
  <2>3. dataQ \in Seq(QueuedMsg)
    BY <1>2 DEF Queued
  <2> QED
    BY <1>4, <2>1, <2>2, <2>3, OthersTaken
<1> QED
  BY <1>1, <1>6, <1>7 DEF DaemonInv

\* A subscription by XTRA brings what is known of the item; a subscription by
\* another observer changes nothing for it.
LEMMA HearsSubscribe == DaemonInv /\ Subscribe => DaemonInv'
<1> SUFFICES ASSUME DaemonInv, Subscribe PROVE DaemonInv'
  OBVIOUS
<1>1. DataItemsInv'
  BY SubscribeInv DEF DaemonInv
<1>2. Queued /\ Values /\ Maps
  BY DEF DaemonInv, DataItemsInv
<1>3. PICK m, r : m = Head(dataQ) /\ r = Cached(Head(dataQ).client, Head(dataQ).items)
  OBVIOUS
<1>4. dataQ # <<>> /\ m.what \in {"subscribe", "request"}
  BY <1>3 DEF Subscribe, TakeData
<1>5. m \in QueuedMsg /\ Tail(dataQ) \in Seq(QueuedMsg)
  BY <1>2, <1>3, <1>4, TakeHead DEF Queued
<1>6. /\ m.client \in Observer /\ m.items \in SUBSET Item
      /\ m.client = "xtra" => m.items \subseteq XtraItem
  BY <1>4, <1>5, MessageShapes
<1>7. /\ mDataItemToClients' = [d \in Item |->
             mDataItemToClients[d] \cup IF d \in m.items THEN {m.client} ELSE {}]
      /\ dataQ' = Tail(dataQ) \o r
      /\ UNCHANGED <<mDataItemCache, xtraVars, daemonVars>>
  BY <1>3 DEF Subscribe
<1>8. r \in Seq(QueuedMsg)
  BY <1>2, <1>3, <1>6, CachedType DEF Values
<1>9. DaemonHears'
  BY <1>7 DEF DaemonInv, DaemonHears, xtraVars, daemonVars
<1>10. XtraHears'
  <2> SUFFICES ASSUME NEW d \in XtraItem
               PROVE  Hears(d, dataQ', mDataItemCache[d], xtra[d], mDataItemToClients'[d])
    BY <1>7 DEF XtraHears, xtraVars
  <2>1. Hears(d, dataQ, mDataItemCache[d], xtra[d], mDataItemToClients[d])
    BY DEF DaemonInv, XtraHears
  <2>2. m \notin UpdateOf(d)
    BY <1>4 DEF UpdateOf
  <2>3. m \in AsksFor(d) <=> m.client = "xtra" /\ d \in m.items
    BY <1>4, <1>5 DEF AsksFor
  <2>4. "xtra" \in mDataItemToClients'[d]
          <=> "xtra" \in mDataItemToClients[d] \/ m \in AsksFor(d)
    BY <1>7, <2>3 DEF XtraItem, Item
  <2>5. /\ NoneOf(r, AsksFor(d))
        /\ ~(m \in AsksFor(d) /\ mDataItemCache[d] # NoValue) => NoneOf(r, UpdateOf(d))
        /\ m \in AsksFor(d) /\ mDataItemCache[d] # NoValue
             => LastIs(r, UpdateOf(d), Giving(mDataItemCache[d]))
    BY <1>2, <1>3, <1>6, <2>3, CachedNews DEF Values
  <2>6. /\ NoneOf(dataQ, UpdateOf(d)) <=> NoneOf(Tail(dataQ), UpdateOf(d))
        /\ LastIs(dataQ, UpdateOf(d), Giving(mDataItemCache[d]))
             <=> LastIs(Tail(dataQ), UpdateOf(d), Giving(mDataItemCache[d]))
        /\ NoneOf(dataQ, AsksFor(d)) <=> m \notin AsksFor(d) /\ NoneOf(Tail(dataQ), AsksFor(d))
    BY <1>2, <1>3, <1>4, <2>2, OutcomeTake DEF Queued
  <2>7. /\ NoneOf(Tail(dataQ) \o r, UpdateOf(d))
             <=> NoneOf(Tail(dataQ), UpdateOf(d)) /\ NoneOf(r, UpdateOf(d))
        /\ NoneOf(Tail(dataQ) \o r, AsksFor(d))
             <=> NoneOf(Tail(dataQ), AsksFor(d)) /\ NoneOf(r, AsksFor(d))
        /\ LastIs(Tail(dataQ) \o r, UpdateOf(d), Giving(mDataItemCache[d]))
             <=> \/ LastIs(r, UpdateOf(d), Giving(mDataItemCache[d]))
                 \/ /\ NoneOf(r, UpdateOf(d))
                    /\ LastIs(Tail(dataQ), UpdateOf(d), Giving(mDataItemCache[d]))
    BY <1>5, <1>8, OutcomePosts
  <2> QED
    BY <1>7, <2>1, <2>4, <2>5, <2>6, <2>7 DEF Hears, Outcome
<1> QED
  BY <1>1, <1>9, <1>10 DEF DaemonInv

\* A change is sent to XTRA if it is subscribed.
LEMMA HearsNotify == DaemonInv /\ Notify => DaemonInv'
<1> SUFFICES ASSUME DaemonInv, Notify PROVE DaemonInv'
  OBVIOUS
<1>1. DataItemsInv'
  BY NotifyInv DEF DaemonInv
<1>2. Queued /\ Values
  BY DEF DaemonInv, DataItemsInv
<1>3. PICK m, u : /\ m = Head(dataQ)
                  /\ u = [what |-> "update", field |-> m.item, value |-> m.value]
  OBVIOUS
<1>4. dataQ # <<>> /\ m.what = "notify"
  BY <1>3 DEF Notify, TakeData
<1>5. m \in QueuedMsg /\ Tail(dataQ) \in Seq(QueuedMsg)
  BY <1>2, <1>3, <1>4, TakeHead DEF Queued
<1>6. m.item \in Item /\ m.value \in Value
  BY <1>4, <1>5, MessageShapes
<1>7. /\ mDataItemCache' = [mDataItemCache EXCEPT ![m.item] = m.value]
      /\ dataQ' = Tail(dataQ) \o
             IF mDataItemCache[m.item] # m.value /\ "xtra" \in mDataItemToClients[m.item]
             THEN <<u>> ELSE <<>>
      /\ UNCHANGED <<subscriptions, xtraVars, daemonVars>>
  BY <1>3 DEF Notify
<1>8. /\ "xtra" \in mDataItemToClients[m.item] => u \in QueuedMsg
      /\ u.what = "update" /\ u.field = m.item /\ u.value = m.value
  <2>1. "xtra" \in mDataItemToClients[m.item] => m.item \in XtraItem
    BY <1>6 DEF DaemonInv, DataItemsInv, XtrasOwn
  <2> QED
    BY <1>3, <1>6, <2>1 DEF QueuedMsg
<1>9. DaemonHears'
  BY <1>7 DEF DaemonInv, DaemonHears, xtraVars, daemonVars
<1>10. XtraHears'
  <2> SUFFICES ASSUME NEW d \in XtraItem
               PROVE  Hears(d, dataQ', mDataItemCache'[d], xtra[d], mDataItemToClients[d])
    BY <1>7 DEF XtraHears, xtraVars, subscriptions
  <2>1. Hears(d, dataQ, mDataItemCache[d], xtra[d], mDataItemToClients[d])
    BY DEF DaemonInv, XtraHears
  <2>2. PICK b : b = mDataItemToClients[d]
    OBVIOUS
  <2>3. m \notin UpdateOf(d) /\ m \notin AsksFor(d)
    BY <1>4 DEF UpdateOf, AsksFor
  <2>4. Hears(d, Tail(dataQ), mDataItemCache[d], xtra[d], b)
    BY <1>2, <1>3, <1>4, <2>1, <2>2, <2>3, OthersTaken DEF Queued
  <2>5. Tail(dataQ) \o <<>> = Tail(dataQ)
    BY <1>5
  <2>6. CASE mDataItemCache[m.item] # m.value /\ "xtra" \in mDataItemToClients[m.item]
    <3>1. dataQ' = Append(Tail(dataQ), u)
      BY <1>5, <1>7, <2>6
    <3>2. CASE d = m.item
      <4>1. mDataItemCache'[d] = m.value /\ "xtra" \in b
        BY <1>2, <1>6, <1>7, <2>2, <2>6, <3>2 DEF Values
      <4>2. u \in UpdateOf(d) /\ u \in Giving(m.value)
        BY <1>8, <2>6, <3>2 DEF UpdateOf, Giving
      <4>3. LastIs(Append(Tail(dataQ), u), UpdateOf(d), Giving(m.value))
        <5>1. PICK t, T, P : t = Tail(dataQ) /\ T = UpdateOf(d) /\ P = Giving(m.value)
          OBVIOUS
        <5>2. t \in Seq(QueuedMsg) /\ u \in T /\ u \in P
          BY <1>5, <4>2, <5>1
        <5>3. LastIs(Append(t, u), T, P)
          BY <1>8, <2>6, <5>2, OutcomePost
        <5> QED
          BY <5>1, <5>3
      <4> QED
        BY <2>2, <3>1, <4>1, <4>3 DEF Hears, Outcome
    <3>3. CASE d # m.item
      <4>1. mDataItemCache'[d] = mDataItemCache[d]
        BY <1>2, <1>7, <3>3 DEF Values
      <4>2. u \notin UpdateOf(d)
        BY <1>8, <3>3 DEF UpdateOf
      <4> QED
        BY <1>5, <1>8, <2>2, <2>4, <2>6, <3>1, <4>1, <4>2, OthersPosted
    <3> QED
      BY <3>2, <3>3
  <2>7. CASE ~(mDataItemCache[m.item] # m.value /\ "xtra" \in mDataItemToClients[m.item])
    <3>1. dataQ' = Tail(dataQ)
      BY <1>7, <2>5, <2>7
    <3>2. mDataItemCache'[d] = mDataItemCache[d] \/ "xtra" \notin b
      BY <1>2, <1>7, <2>2, <2>7 DEF Values
    <3> QED
      BY <2>2, <2>4, <3>1, <3>2 DEF Hears
  <2> QED
    BY <2>6, <2>7
<1> QED
  BY <1>1, <1>9, <1>10 DEF DaemonInv

\* XTRA takes what it is told, and passes it on to a daemon that has the rest.
LEMMA HearsUpdate == DaemonInv /\ XtraUpdate => DaemonInv'
<1> SUFFICES ASSUME DaemonInv, XtraUpdate PROVE DaemonInv'
  OBVIOUS
<1>1. DataItemsInv'
  BY XtraInv DEF DaemonInv
<1>2. Queued /\ Values
  BY DEF DaemonInv, DataItemsInv
<1>3. PICK m : m = Head(dataQ)
  OBVIOUS
<1>4. dataQ # <<>> /\ m.what = "update"
  BY <1>3 DEF XtraUpdate, TakeData
<1>5. m \in QueuedMsg /\ Tail(dataQ) \in Seq(QueuedMsg)
  BY <1>2, <1>3, <1>4, TakeHead DEF Queued
<1>6. m.field \in XtraItem \cup {"lock", "throttle"} /\ m.value \in Value
  BY <1>4, <1>5, MessageShapes
<1>7. /\ xtra' = [xtra EXCEPT ![m.field] = m.value]
      /\ IF mReqStatusReceived THEN SendToDaemon(m.field, m.value) ELSE UNCHANGED daemon
      /\ dataQ' = Tail(dataQ)
      /\ UNCHANGED <<subscriptions, mDataItemCache, mReqStatusReceived, daemonUp, daemonServed>>
  BY <1>3 DEF XtraUpdate
<1>8. DaemonHears'
  <2>1. DaemonHears
    BY DEF DaemonInv
  <2>2. xtra'["dgnss"] = xtra["dgnss"] /\ daemon'["dgnss"] = daemon["dgnss"]
    BY <1>2, <1>6, <1>7 DEF SendToDaemon, Values, XtraField, XtraItem
  <2>3. ASSUME daemonUp, daemonServed, NEW f \in XtraField \ {"throttle"}
        PROVE  daemon'[f] = xtra'[f]
    BY <1>2, <1>7, <2>1, <2>3 DEF SendToDaemon, DaemonHears, Values
  <2>4. daemonUp => daemon'["throttle"] \in {NoValue, xtra'["throttle"]}
    <3>1. CASE m.field = "throttle"
      <4>1. xtra'["throttle"] = m.value
        BY <1>2, <1>7, <3>1 DEF Values, XtraField
      <4>2. daemonUp /\ mReqStatusReceived => daemon'["throttle"] = m.value
        BY <1>2, <1>7, <3>1 DEF SendToDaemon, Values, XtraField
      <4>3. daemonUp /\ ~mReqStatusReceived => daemon'["throttle"] = NoValue
        BY <1>7, <2>1 DEF DaemonHears
      <4> QED
        BY <4>1, <4>2, <4>3
    <3>2. CASE m.field # "throttle"
      <4>1. "throttle" \in XtraField
        BY DEF XtraField
      <4>2. xtra'["throttle"] = xtra["throttle"] /\ daemon'["throttle"] = daemon["throttle"]
        BY <1>2, <1>7, <3>2, <4>1 DEF SendToDaemon, Values
      <4> QED
        BY <2>1, <4>2 DEF DaemonHears
    <3> QED
      BY <3>1, <3>2
  <2> QED
    BY <1>7, <2>1, <2>2, <2>3, <2>4 DEF DaemonHears
<1>9. XtraHears'
  <2> SUFFICES ASSUME NEW d \in XtraItem
               PROVE  Hears(d, Tail(dataQ), mDataItemCache[d], xtra'[d], mDataItemToClients[d])
    BY <1>7 DEF XtraHears, subscriptions
  <2>1. Hears(d, dataQ, mDataItemCache[d], xtra[d], mDataItemToClients[d])
    BY DEF DaemonInv, XtraHears
  <2>2. CASE m.field = d
    <3>1. xtra'[d] = m.value
      BY <1>2, <1>7, <2>2 DEF Values, XtraField
    <3>2. m \in UpdateOf(d) /\ (m \in Giving(mDataItemCache[d]) <=> m.value = mDataItemCache[d])
      BY <1>4, <1>5, <2>2 DEF UpdateOf, Giving
    <3>3. /\ ~NoneOf(dataQ, UpdateOf(d))
          /\ LastIs(dataQ, UpdateOf(d), Giving(mDataItemCache[d]))
               <=> \/ LastIs(Tail(dataQ), UpdateOf(d), Giving(mDataItemCache[d]))
                   \/ /\ NoneOf(Tail(dataQ), UpdateOf(d))
                      /\ m \in Giving(mDataItemCache[d])
      BY <1>2, <1>3, <1>4, <3>2, OutcomeTake DEF Queued
    <3> QED
      BY <2>1, <3>1, <3>2, <3>3 DEF Hears, Outcome
  <2>3. CASE m.field # d
    <3>1. xtra'[d] = xtra[d]
      BY <1>2, <1>6, <1>7, <2>3 DEF Values, XtraField
    <3>2. m \notin UpdateOf(d) /\ m \notin AsksFor(d)
      BY <1>4, <2>3 DEF UpdateOf, AsksFor
    <3> QED
      BY <1>2, <1>3, <1>4, <2>1, <3>1, <3>2, OthersTaken DEF Queued
  <2> QED
    BY <2>2, <2>3
<1> QED
  BY <1>1, <1>8, <1>9 DEF DaemonInv

\* The source of corrections and the answer to the daemon
LEMMA HearsDaemon == DaemonInv /\ (XtraDgnss \/ XtraStatusRequested) => DaemonInv'
<1> SUFFICES ASSUME DaemonInv, XtraDgnss \/ XtraStatusRequested PROVE DaemonInv'
  OBVIOUS
<1>1. DataItemsInv'
  BY XtraInv DEF DaemonInv
<1>2. Queued /\ Values /\ DaemonHears
  BY DEF DaemonInv, DataItemsInv
<1>3. dataQ # <<>> /\ Head(dataQ).what \in {"dgnss", "requestStatus"}
  BY DEF XtraDgnss, XtraStatusRequested, TakeData
<1>4. UNCHANGED <<subscriptions, mDataItemCache, daemonUp>> /\ dataQ' = Tail(dataQ)
  BY DEF XtraDgnss, XtraStatusRequested
<1>5. \A d \in XtraItem : xtra'[d] = xtra[d]
  <2>1. CASE XtraDgnss
    BY <1>2, <2>1 DEF XtraDgnss, Values, XtraField, XtraItem
  <2>2. CASE XtraStatusRequested
    BY <2>2 DEF XtraStatusRequested
  <2> QED
    BY <2>1, <2>2
<1>6. XtraHears'
  <2> SUFFICES ASSUME NEW d \in XtraItem
               PROVE  Hears(d, Tail(dataQ), mDataItemCache[d], xtra[d], mDataItemToClients[d])
    BY <1>4, <1>5 DEF XtraHears, subscriptions
  <2>1. Hears(d, dataQ, mDataItemCache[d], xtra[d], mDataItemToClients[d])
    BY DEF DaemonInv, XtraHears
  <2>2. Head(dataQ) \notin UpdateOf(d) /\ Head(dataQ) \notin AsksFor(d)
    BY <1>3 DEF UpdateOf, AsksFor
  <2> QED
    BY <1>2, <1>3, <2>1, <2>2, OthersTaken DEF Queued
<1>7. CASE XtraDgnss
  <2>1. PICK v : v = Head(dataQ).value
    OBVIOUS
  <2>2. /\ xtra' = [xtra EXCEPT !["dgnss"] = v]
        /\ daemon' = IF daemonUp THEN [daemon EXCEPT !["dgnss"] = v] ELSE daemon
        /\ UNCHANGED <<mReqStatusReceived, daemonUp, daemonServed>>
    BY <1>7, <2>1 DEF XtraDgnss, SendToDaemon
  <2>3. xtra'["dgnss"] = v /\ (daemonUp => daemon'["dgnss"] = v)
    BY <1>2, <2>2 DEF Values, XtraField
  <2>4. ASSUME NEW f \in XtraField, f # "dgnss"
        PROVE  xtra'[f] = xtra[f] /\ daemon'[f] = daemon[f]
    BY <1>2, <2>2, <2>4 DEF Values
  <2>5. "throttle" \in XtraField
    BY DEF XtraField
  <2>6. DaemonHears'
    BY <1>2, <2>2, <2>3, <2>4, <2>5 DEF DaemonHears
  <2> QED
    BY <1>1, <1>6, <2>6 DEF DaemonInv
<1>8. CASE XtraStatusRequested
  <2>1. PICK u : u = Head(dataQ).updated
    OBVIOUS
  <2>2. /\ daemon' = [f \in XtraField |->
              IF daemonUp /\ f \in Respond(u) THEN xtra[f] ELSE daemon[f]]
        /\ daemonServed' = (daemonServed \/ (daemonUp /\ ~u))
        /\ mReqStatusReceived' = TRUE
        /\ UNCHANGED <<xtra, daemonUp>>
    BY <1>8, <2>1 DEF XtraStatusRequested
  <2>3. daemonUp /\ xtra["dgnss"] = NoValue => daemon'["dgnss"] = NoValue
    BY <1>2, <2>2 DEF DaemonHears, XtraField
  <2>4. ASSUME daemonUp, daemonServed', NEW f \in XtraField \ {"throttle"}
        PROVE  daemon'[f] = xtra[f]
    <3>1. CASE daemonServed
      BY <1>2, <2>2, <2>4, <3>1 DEF DaemonHears
    <3>2. CASE ~daemonServed
      <4>1. ~u
        BY <2>2, <2>4, <3>2
      <4>2. f # "dgnss" \/ xtra["dgnss"] # NoValue => f \in Respond(u)
        BY <4>1 DEF Respond, XtraField
      <4>3. f = "dgnss" /\ xtra["dgnss"] = NoValue => daemon[f] = xtra[f]
        BY <1>2, <2>4 DEF DaemonHears
      <4> QED
        BY <2>2, <2>4, <4>2, <4>3
    <3> QED
      BY <3>1, <3>2
  <2>5. daemonUp => daemon'["throttle"] \in {NoValue, xtra["throttle"]}
    <3>1. "throttle" \in XtraField
      BY DEF XtraField
    <3> QED
      BY <1>2, <2>2, <3>1 DEF DaemonHears
  <2>6. DaemonHears'
    BY <2>2, <2>3, <2>4, <2>5 DEF DaemonHears
  <2> QED
    BY <1>1, <1>6, <2>6 DEF DaemonInv
<1> QED
  BY <1>7, <1>8

\* One lemma for each group of steps
LEMMA HearsStep == DaemonInv /\ [DataItemsNext]_dataVars => DaemonInv'
<1> SUFFICES ASSUME DaemonInv, UNCHANGED dataVars PROVE DaemonInv'
  BY HearsOutside, HearsObserver, HearsSubscribe, HearsNotify, HearsUpdate, HearsDaemon
     DEF DataItemsNext, MsgTaskStep
<1>1. DataItemsInv'
  BY DataStepInv DEF DaemonInv
<1>2. XtraHears' /\ DaemonHears'
  BY DEF dataVars, subscriptions, xtraVars, daemonVars, DaemonInv, XtraHears, DaemonHears
<1> QED
  BY <1>1, <1>2 DEF DaemonInv

\* For any values and any number of events, once everything under way has been
\* handled a daemon that has been sent the status knows what the operating
\* system and the adapter last reported, whatever restarts and requests came
\* between; of the throttle, which the answer to its request leaves out, it has the
\* last value or none (onStatusRequested, gps/gnss/XtraSystemStatusObserver.cpp).
THEOREM DaemonFollows == DataItemsSpec => []XtraDaemonCurrent
<1>1. DaemonInv => XtraDaemonCurrent
  <2> SUFFICES ASSUME DaemonInv, dataQ = <<>>, daemonUp, daemonServed
               PROVE  /\ \A f \in XtraField \ {"throttle"} : daemon[f] = xtra[f]
                      /\ daemon["throttle"] \in {NoValue, xtra["throttle"]}
                      /\ \A d \in XtraItem : xtra[d] = mDataItemCache[d]
    BY DEF XtraDaemonCurrent
  <2>1. /\ \A f \in XtraField \ {"throttle"} : daemon[f] = xtra[f]
        /\ daemon["throttle"] \in {NoValue, xtra["throttle"]}
    BY DEF DaemonInv, DaemonHears
  <2>2. ASSUME NEW d \in XtraItem PROVE xtra[d] = mDataItemCache[d]
    <3>1. Hears(d, <<>>, mDataItemCache[d], xtra[d], mDataItemToClients[d])
      BY DEF DaemonInv, XtraHears
    <3>2. /\ NoneOf(<<>>, AsksFor(d))
          /\ ~LastIs(<<>>, UpdateOf(d), Giving(mDataItemCache[d]))
      BY EmptyOutcome
    <3> QED
      BY <3>1, <3>2 DEF Hears, Outcome
  <2> QED
    BY <2>1, <2>2
<1> QED
  BY HearsInit, HearsStep, <1>1, PTL DEF DataItemsSpec

(***************************************************************************)
(* The table of networks                                                   *)
(***************************************************************************)

NetworkSpec == NetworkInfoInit /\ [][NetworkInfoNext]_netVars

NetMsg == [network : Network, connected : BOOLEAN]
HandleTable == [Slot -> Network \cup {NoNetwork}]
NetworkItem == [network : Network, connected : BOOLEAN, handles : HandleTable,
                types : SUBSET NetType]

\* The first k slots hold k networks, and the others none.
Filled(table, k) ==
  /\ k \in 0..MaxHandles
  /\ \A i \in 1..k : table[i] \in Network
  /\ \A i \in Slot : i > k => table[i] = NoNetwork
  /\ \A i, j \in 1..k : table[i] = table[j] => i = j
NoHole(table) == \E k \in 0..MaxHandles : Filled(table, k)

NetTypes ==
  /\ typeOf \in [Network -> NetType]
  /\ netMsgs \in Seq(NetMsg) /\ mNetworkInfo \in Seq(NetworkItem)
  /\ Len(mNetworkInfo) <= MaxItem
  /\ resetting \in 0..(MaxItem + 1) /\ netEvents \in 0..MaxNetEvents
  /\ netUp \subseteq Network /\ netMissed \subseteq netUp
  /\ netFirst \in Network \cup {NoNetwork}

NothingHeard ==
  mNetworkInfo = <<>> => netUp = {} /\ netMissed = {} /\ netFirst = NoNetwork
LastTable ==
  mNetworkInfo # <<>> =>
    /\ NoHole(Last(mNetworkInfo).handles)
    /\ InTable(Last(mNetworkInfo).handles)
         = (netUp \ netMissed) \cup ({netFirst} \ {NoNetwork})

NetInv == NetTypes /\ NothingHeard /\ LastTable
-----------------------------------------------------------------------------

\* Min of a set that has a least element
LEMMA MinIs ==
  ASSUME NEW S \in SUBSET Int, NEW m \in S, \A x \in S : m <= x
  PROVE  Min(S) = m
<1>1. Min(S) \in S /\ \A x \in S : Min(S) <= x
  BY DEF Min
<1>2. Min(S) <= m /\ m <= Min(S) /\ Min(S) \in Int /\ m \in Int
  BY <1>1
<1> QED
  BY <1>2

\* Max of a set that has a greatest element
LEMMA MaxIs ==
  ASSUME NEW S \in SUBSET Int, NEW m \in S, \A x \in S : x <= m
  PROVE  Max(S) = m
<1>1. Max(S) \in S /\ \A x \in S : Max(S) >= x
  BY DEF Max
<1>2. Max(S) <= m /\ m <= Max(S) /\ Max(S) \in Int /\ m \in Int
  BY <1>1
<1> QED
  BY <1>2

\* In a table without holes, what is filled is what leads.
LEMMA LeadingSlots ==
  ASSUME NEW table \in HandleTable, NEW k, Filled(table, k)
  PROVE  /\ Leading(table) = 1..k /\ k \in 0..MaxHandles /\ 1..k \subseteq Slot
         /\ InTable(table) = {table[i] : i \in 1..k}
<1>1. k \in 0..MaxHandles /\ 1..k \subseteq Slot /\ 0..MaxHandles \subseteq Nat
  BY NetworkAssumption DEF Filled, Slot
<1>2. \A i \in 1..k : table[i] # NoNetwork
  BY NetworkAssumption DEF Filled
<1>3. \A i \in Slot : i \in 1..k \/ i > k
  BY <1>1 DEF Slot
<1>4. \A i \in 1..k : \A j \in 1..i : j \in 1..k
  BY <1>1
<1>5. \A i \in Slot : i \in 1..i
  BY NetworkAssumption DEF Slot
<1>6. Leading(table) = 1..k
  BY <1>1, <1>2, <1>3, <1>4, <1>5 DEF Leading, Filled
<1>7. InTable(table) = {table[i] : i \in 1..k}
  BY <1>1, <1>2, <1>3 DEF InTable, Filled
<1> QED
  BY <1>1, <1>6, <1>7

\* A network that connects is in the table afterwards unless that is full of
\* others.
LEMMA HandleAdded ==
  ASSUME NEW table \in HandleTable, NoHole(table), NEW n \in Network
  PROVE  /\ AddHandle(table, n) \in HandleTable /\ NoHole(AddHandle(table, n))
         /\ Stop(table, n) # {} => InTable(AddHandle(table, n)) = InTable(table) \cup {n}
         /\ Stop(table, n) = {} =>
              InTable(AddHandle(table, n)) = InTable(table) /\ n \notin InTable(table)
<1>1. PICK k \in 0..MaxHandles : Filled(table, k)
  BY DEF NoHole
<1>2. /\ 1..k \subseteq Slot /\ k \in Int /\ MaxHandles \in Int
      /\ InTable(table) = {table[i] : i \in 1..k}
  BY <1>1, LeadingSlots, NetworkAssumption
<1>3. Stop(table, n) \in SUBSET Int
  BY DEF Stop, Slot
<1>4. CASE n \in InTable(table)
  <2>1. PICK i \in 1..k : table[i] = n
    BY <1>2, <1>4
  <2>2. i \in Stop(table, n)
    BY <1>2, <2>1 DEF Stop
  <2>3. \A j \in Stop(table, n) : i <= j
    <3>1. TAKE j \in Stop(table, n)
    <3>2. j \in Slot /\ (table[j] = n \/ table[j] = NoNetwork)
      BY DEF Stop
    <3>3. CASE j \in 1..k
      BY <1>1, <2>1, <3>2, <3>3, NetworkAssumption DEF Filled
    <3>4. CASE j \notin 1..k
      BY <1>2, <2>1, <3>2, <3>4 DEF Slot
    <3> QED
      BY <3>3, <3>4
  <2>4. Min(Stop(table, n)) = i
    BY <1>3, <2>2, <2>3, MinIs
  <2>5. AddHandle(table, n) = table
    BY <1>2, <2>1, <2>2, <2>4 DEF AddHandle, HandleTable
  <2> QED
    BY <1>4, <2>2, <2>5
<1>5. CASE n \notin InTable(table) /\ k < MaxHandles
  <2>1. k + 1 \in Slot /\ k + 1 \in 0..MaxHandles /\ 1..(k + 1) = 1..k \cup {k + 1}
        /\ k + 1 \notin 1..k /\ k + 1 > k
    BY <1>1, <1>5, NetworkAssumption DEF Slot
  <2>2. k + 1 \in Stop(table, n)
    BY <1>1, <2>1 DEF Stop, Filled
  <2>3. \A j \in Stop(table, n) : k + 1 <= j
    <3>1. TAKE j \in Stop(table, n)
    <3>2. j \in Slot /\ (table[j] = n \/ table[j] = NoNetwork)
      BY DEF Stop
    <3>3. j \notin 1..k
      BY <1>1, <1>2, <1>5, <3>2, NetworkAssumption DEF Filled
    <3> QED
      BY <1>2, <3>2, <3>3 DEF Slot
  <2>4. Min(Stop(table, n)) = k + 1
    BY <1>3, <2>2, <2>3, MinIs
  <2>5. AddHandle(table, n) = [table EXCEPT ![k + 1] = n]
    BY <2>2, <2>4 DEF AddHandle
  <2>6. /\ AddHandle(table, n) \in HandleTable
        /\ \A i \in Slot : AddHandle(table, n)[i] = IF i = k + 1 THEN n ELSE table[i]
    BY <2>1, <2>5 DEF HandleTable
  <2>7. \A i \in 1..k : table[i] # n
    BY <1>2, <1>5
  <2>8. Filled(AddHandle(table, n), k + 1)
    <3>1. \A i \in 1..(k + 1) : AddHandle(table, n)[i] \in Network
      BY <1>1, <1>2, <2>1, <2>6 DEF Filled
    <3>2. \A i \in Slot : i > k + 1 => i > k /\ i # k + 1
      BY <1>2 DEF Slot
    <3>3. \A i, j \in 1..(k + 1) :
            AddHandle(table, n)[i] = AddHandle(table, n)[j] => i = j
      BY <1>1, <1>2, <2>1, <2>6, <2>7 DEF Filled
    <3> QED
      BY <1>1, <2>1, <2>6, <3>1, <3>2, <3>3 DEF Filled
  <2>9. InTable(AddHandle(table, n)) = {AddHandle(table, n)[i] : i \in 1..(k + 1)}
    BY <2>6, <2>8, LeadingSlots
  <2>10. InTable(AddHandle(table, n)) = InTable(table) \cup {n}
    BY <1>2, <2>1, <2>6, <2>9
  <2> QED
    BY <2>1, <2>2, <2>6, <2>8, <2>10 DEF NoHole
<1>6. CASE n \notin InTable(table) /\ ~(k < MaxHandles)
  <2>1. k = MaxHandles
    BY <1>1, <1>2, <1>6
  <2>2. Stop(table, n) = {}
    BY <1>1, <1>2, <1>6, <2>1, NetworkAssumption DEF Stop, Slot, Filled
  <2> QED
    BY <1>6, <2>2 DEF AddHandle
<1> QED
  BY <1>4, <1>5, <1>6

\* A network that disconnects is not in the table afterwards.
LEMMA HandleRemoved ==
  ASSUME NEW table \in HandleTable, NoHole(table), NEW n \in Network
  PROVE  /\ RemoveHandle(table, n) \in HandleTable /\ NoHole(RemoveHandle(table, n))
         /\ InTable(RemoveHandle(table, n)) = InTable(table) \ {n}
<1>1. PICK k \in 0..MaxHandles : Filled(table, k)
  BY DEF NoHole
<1>2. /\ 1..k \subseteq Slot /\ k \in Int /\ MaxHandles \in Int
      /\ InTable(table) = {table[i] : i \in 1..k} /\ Leading(table) = 1..k
  BY <1>1, LeadingSlots, NetworkAssumption
<1>3. CASE n \notin InTable(table)
  <2>1. {i \in Leading(table) : table[i] = n} = {}
    BY <1>2, <1>3
  <2>2. RemoveHandle(table, n) = table
    BY <2>1 DEF RemoveHandle
  <2> QED
    BY <1>3, <2>2
<1>4. CASE n \in InTable(table)
  <2>1. PICK f \in 1..k : table[f] = n
    BY <1>2, <1>4
  <2>2. k \in 1..k /\ k - 1 \in 0..MaxHandles /\ 1..k = 1..(k - 1) \cup {k} /\ k \notin 1..(k - 1)
        /\ 1..(k - 1) \subseteq 1..k
    BY <1>1, <1>2, <2>1
  <2>3. {i \in Leading(table) : table[i] = n} = {f}
    BY <1>1, <1>2, <2>1 DEF Filled
  <2>4. Max({i \in Leading(table) : table[i] = n}) = f
    BY <2>1, <2>3, MaxIs
  <2>5. Max(Leading(table) \cup {1}) = k
    <3>1. Leading(table) \cup {1} \in SUBSET Int /\ k \in Leading(table) \cup {1}
          /\ \A x \in Leading(table) \cup {1} : x <= k
      BY <1>2, <2>1, <2>2
    <3> QED
      BY <3>1, MaxIs
  <2>6. RemoveHandle(table, n) = [table EXCEPT ![f] = table[k], ![k] = NoNetwork]
    BY <2>3, <2>4, <2>5 DEF RemoveHandle
  <2>7. /\ RemoveHandle(table, n) \in HandleTable
        /\ \A i \in Slot : RemoveHandle(table, n)[i] =
             IF i = k THEN NoNetwork ELSE IF i = f THEN table[k] ELSE table[i]
    BY <1>2, <2>1, <2>2, <2>6 DEF HandleTable
  <2>8. Filled(RemoveHandle(table, n), k - 1)
    <3>1. \A i \in 1..(k - 1) : RemoveHandle(table, n)[i] \in Network
      BY <1>1, <1>2, <2>2, <2>7 DEF Filled
    <3>2. \A i \in Slot : i > k - 1 => i = k \/ i > k
      BY <1>2 DEF Slot
    <3>3. \A i \in Slot : i > k - 1 => RemoveHandle(table, n)[i] = NoNetwork
      BY <1>1, <1>2, <2>1, <2>7, <3>2 DEF Filled
    <3>4. \A i, j \in 1..(k - 1) :
            RemoveHandle(table, n)[i] = RemoveHandle(table, n)[j] => i = j
      BY <1>1, <1>2, <2>1, <2>2, <2>7 DEF Filled
    <3> QED
      BY <2>2, <3>1, <3>3, <3>4 DEF Filled
  <2>9. InTable(RemoveHandle(table, n)) = {RemoveHandle(table, n)[i] : i \in 1..(k - 1)}
    BY <2>7, <2>8, LeadingSlots
  <2>10. \A i \in 1..(k - 1) : RemoveHandle(table, n)[i] \in InTable(table) \ {n}
    BY <1>1, <1>2, <2>1, <2>2, <2>7 DEF Filled
  <2>11. ASSUME NEW m \in InTable(table) \ {n}
         PROVE  \E i \in 1..(k - 1) : RemoveHandle(table, n)[i] = m
    <3>1. PICK j \in 1..k : table[j] = m
      BY <1>2
    <3>2. j # f
      BY <2>1, <3>1
    <3>3. CASE j = k
      <4>1. f \in 1..(k - 1) /\ f # k
        BY <2>1, <2>2, <3>2, <3>3
      <4> QED
        BY <1>2, <2>7, <3>1, <3>3, <4>1
    <3>4. CASE j # k
      <4>1. j \in 1..(k - 1)
        BY <2>2, <3>4
      <4> QED
        BY <1>2, <2>7, <3>1, <3>2, <3>4, <4>1
    <3> QED
      BY <3>3, <3>4
  <2> QED
    BY <2>2, <2>7, <2>8, <2>9, <2>10, <2>11 DEF NoHole
<1> QED
  BY <1>3, <1>4

\* A table of no networks has no hole.
LEMMA EmptyTableFilled ==
  ASSUME NEW n \in Network
  PROVE  /\ [EmptyTable EXCEPT ![1] = n] \in HandleTable
         /\ NoHole([EmptyTable EXCEPT ![1] = n])
         /\ InTable([EmptyTable EXCEPT ![1] = n]) = {n}
<1> DEFINE table == [EmptyTable EXCEPT ![1] = n]
<1>1. 1 \in Slot /\ 1 \in 0..MaxHandles /\ 1..1 = {1} /\ \A i \in Slot : i > 1 => i # 1
  BY NetworkAssumption DEF Slot
<1>2. table \in HandleTable /\ \A i \in Slot : table[i] = IF i = 1 THEN n ELSE NoNetwork
  BY <1>1 DEF EmptyTable, HandleTable
<1> HIDE DEF table
<1>3. Filled(table, 1)
  BY <1>1, <1>2 DEF Filled
<1>4. InTable(table) = {table[i] : i \in 1..1}
  BY <1>2, <1>3, LeadingSlots
<1>5. InTable(table) = {n}
  BY <1>1, <1>2, <1>4
<1> QED
  BY <1>1, <1>2, <1>3, <1>5 DEF NoHole, table

\* Nothing has been heard of.
LEMMA NetInitInv == NetworkInfoInit => NetInv
<1> SUFFICES ASSUME NetworkInfoInit PROVE NetInv
  OBVIOUS
<1>1. netMsgs \in Seq(NetMsg) /\ mNetworkInfo \in Seq(NetworkItem) /\ Len(mNetworkInfo) = 0
  BY DEF NetworkInfoInit
<1>2. NetTypes
  BY <1>1, NetworkAssumption DEF NetworkInfoInit, NetTypes
<1>3. NothingHeard /\ LastTable
  BY DEF NetworkInfoInit, NothingHeard, LastTable
<1> QED
  BY <1>2, <1>3 DEF NetInv

\* An item appended to the cache is its last, also after the oldest went.
LEMMA ItemCached ==
  ASSUME NEW cache \in Seq(NetworkItem), cache # <<>>, Len(cache) <= MaxItem,
         NEW item \in NetworkItem,
         NEW after, after = IF Len(Append(cache, item)) > MaxItem
                            THEN Tail(Append(cache, item)) ELSE Append(cache, item)
  PROVE  /\ after \in Seq(NetworkItem) /\ Len(after) <= MaxItem /\ after # <<>>
         /\ Last(after) = item
<1> DEFINE longer == Append(cache, item)
<1>1. /\ longer \in Seq(NetworkItem) /\ Len(cache) \in Nat /\ Len(longer) = Len(cache) + 1
      /\ longer[Len(longer)] = item
  BY PostMessage
<1>2. Len(cache) >= 1 /\ longer # <<>>
  BY <1>1
<1> HIDE DEF longer
<1>3. CASE Len(longer) > MaxItem
  <2>1. /\ Tail(longer) \in Seq(NetworkItem) /\ Len(Tail(longer)) = Len(longer) - 1
        /\ \A i \in 1 .. Len(Tail(longer)) : Tail(longer)[i] = longer[i + 1]
    BY <1>1, <1>2, TakeHead
  <2>2. Len(Tail(longer)) \in 1 .. Len(Tail(longer)) /\ Tail(longer)[Len(Tail(longer))] = item
    BY <1>1, <1>2, <2>1
  <2>3. Len(Tail(longer)) <= MaxItem /\ Tail(longer) # <<>>
    BY <1>1, <1>2, <2>1, NetworkAssumption
  <2> QED
    BY <1>3, <2>1, <2>2, <2>3 DEF Last, longer
<1>4. CASE ~(Len(longer) > MaxItem)
  BY <1>1, <1>2, <1>4, NetworkAssumption DEF Last, longer
<1> QED
  BY <1>3, <1>4

\* The table after an event, and the history of the events
LEMMA EventHandled ==
  ASSUME NetInv, NEW n \in Network, NEW connected \in BOOLEAN,
         mNetworkInfo' = SetItem(n, connected), NetworkHistory(n, connected)
  PROVE  /\ mNetworkInfo' \in Seq(NetworkItem) /\ Len(mNetworkInfo') <= MaxItem
         /\ netUp' \subseteq Network /\ netMissed' \subseteq netUp'
         /\ netFirst' \in Network \cup {NoNetwork}
         /\ NothingHeard' /\ LastTable'
<1>1. /\ NetTypes /\ NothingHeard /\ LastTable
      /\ netUp \subseteq Network /\ netMissed \subseteq netUp /\ NoNetwork \notin Network
      /\ netFirst \in Network \cup {NoNetwork} /\ typeOf[n] \in NetType
      /\ mNetworkInfo \in Seq(NetworkItem) /\ Len(mNetworkInfo) <= MaxItem
  BY NetworkAssumption DEF NetInv, NetTypes
<1>2. netUp' \subseteq Network /\ netMissed' \subseteq netUp'
      /\ netFirst' \in Network \cup {NoNetwork}
  BY <1>1 DEF NetworkHistory
<1>3. CASE mNetworkInfo = <<>>
  <2> DEFINE item == NetItem(n, connected, [EmptyTable EXCEPT ![1] = n], {typeOf[n]})
  <2>1. mNetworkInfo' = <<item>>
    BY <1>3 DEF SetItem
  <2>2. item \in NetworkItem /\ item.handles = [EmptyTable EXCEPT ![1] = n]
    BY <1>1, EmptyTableFilled DEF NetItem, NetworkItem
  <2> HIDE DEF item
  <2>3. mNetworkInfo' \in Seq(NetworkItem) /\ Len(mNetworkInfo') <= MaxItem
        /\ mNetworkInfo' # <<>> /\ Last(mNetworkInfo') = item
    BY <2>1, <2>2, NetworkAssumption DEF Last
  <2>4. NoHole(item.handles) /\ InTable(item.handles) = {n}
    BY <2>2, EmptyTableFilled
  <2>5. netUp = {} /\ netMissed = {} /\ netFirst = NoNetwork
    BY <1>1, <1>3 DEF NothingHeard
  <2>6. {n} = (netUp' \ netMissed') \cup ({netFirst'} \ {NoNetwork})
    BY <1>1, <1>3, <2>5 DEF NetworkHistory
  <2> QED
    BY <1>2, <2>3, <2>4, <2>6 DEF NothingHeard, LastTable
<1>4. CASE mNetworkInfo # <<>>
  <2>1. PICK cur \in NetworkItem : cur = Last(mNetworkInfo)
    <3>1. Len(mNetworkInfo) \in 1 .. Len(mNetworkInfo)
      BY <1>1, <1>4
    <3> QED
      BY <1>1, <3>1, MessageType DEF Last
  <2>2. PICK item : item = Collate(n, connected, cur)
    OBVIOUS
  <2>3. cur.handles \in HandleTable /\ NoHole(cur.handles) /\ cur.types \in SUBSET NetType
        /\ InTable(cur.handles) = (netUp \ netMissed) \cup ({netFirst} \ {NoNetwork})
    BY <1>1, <1>4, <2>1 DEF LastTable, NetworkItem
  <2>4. item.handles = IF connected THEN AddHandle(cur.handles, n)
                       ELSE RemoveHandle(cur.handles, n)
    BY <2>2 DEF Collate, NetItem
  <2>5. item \in NetworkItem /\ NoHole(item.handles)
    <3>1. TypesWithout(cur, n) \in SUBSET NetType /\ cur.types \cup {typeOf[n]} \in SUBSET NetType
      BY <1>1, <2>3 DEF TypesWithout
    <3>2. AddHandle(cur.handles, n) \in HandleTable /\ NoHole(AddHandle(cur.handles, n))
          /\ RemoveHandle(cur.handles, n) \in HandleTable /\ NoHole(RemoveHandle(cur.handles, n))
      BY <2>3, HandleAdded, HandleRemoved
    <3>3. CASE connected
      <4>1. item = NetItem(n, TRUE, AddHandle(cur.handles, n), cur.types \cup {typeOf[n]})
        BY <2>2, <3>3 DEF Collate
      <4> QED
        BY <3>1, <3>2, <4>1 DEF NetItem, NetworkItem
    <3>4. CASE ~connected
      <4>1. item = NetItem(n, FALSE, RemoveHandle(cur.handles, n), TypesWithout(cur, n))
        BY <2>2, <3>4 DEF Collate
      <4> QED
        BY <3>1, <3>2, <4>1 DEF NetItem, NetworkItem
    <3> QED
      BY <3>3, <3>4
  <2>6. InTable(item.handles) = (netUp' \ netMissed') \cup ({netFirst'} \ {NoNetwork})
    <3>1. CASE connected /\ Stop(cur.handles, n) # {}
      <4>1. InTable(item.handles) = InTable(cur.handles) \cup {n}
        BY <2>3, <2>4, <3>1, HandleAdded
      <4>2. netUp' = netUp \cup {n} /\ netMissed' = netMissed \ {n}
            /\ netFirst' = IF n = netFirst THEN NoNetwork ELSE netFirst
        BY <1>4, <2>1, <3>1 DEF NetworkHistory
      <4> QED
        BY <1>1, <2>3, <4>1, <4>2
    <3>2. CASE connected /\ Stop(cur.handles, n) = {}
      <4>1. InTable(item.handles) = InTable(cur.handles) /\ n \notin InTable(cur.handles)
        BY <2>3, <2>4, <3>2, HandleAdded
      <4>2. netUp' = netUp \cup {n} /\ netMissed' = netMissed \cup {n}
            /\ netFirst' = IF n = netFirst THEN NoNetwork ELSE netFirst
        BY <1>4, <2>1, <3>2 DEF NetworkHistory
      <4> QED
        BY <1>1, <2>3, <4>1, <4>2
    <3>3. CASE ~connected
      <4>1. InTable(item.handles) = InTable(cur.handles) \ {n}
        BY <2>3, <2>4, <3>3, HandleRemoved
      <4>2. netUp' = netUp \ {n} /\ netMissed' = netMissed \ {n}
            /\ netFirst' = IF n = netFirst THEN NoNetwork ELSE netFirst
        BY <1>4, <2>1, <3>3 DEF NetworkHistory
      <4> QED
        BY <1>1, <2>3, <4>1, <4>2
    <3> QED
      BY <3>1, <3>2, <3>3
  <2>7. /\ mNetworkInfo' \in Seq(NetworkItem) /\ Len(mNetworkInfo') <= MaxItem
        /\ mNetworkInfo' # <<>> /\ Last(mNetworkInfo').handles = item.handles
    <3>1. CASE item.connected = cur.connected /\ item.handles = cur.handles
      <4>1. mNetworkInfo' = mNetworkInfo
        BY <1>4, <2>1, <2>2, <3>1 DEF SetItem
      <4> QED
        BY <1>1, <1>4, <2>1, <3>1, <4>1
    <3>2. CASE ~(item.connected = cur.connected /\ item.handles = cur.handles)
      <4>1. mNetworkInfo' = IF Len(Append(mNetworkInfo, item)) > MaxItem
                            THEN Tail(Append(mNetworkInfo, item))
                            ELSE Append(mNetworkInfo, item)
        BY <1>4, <2>1, <2>2, <3>2 DEF SetItem
      <4> QED
        BY <1>1, <1>4, <2>5, <4>1, ItemCached
    <3> QED
      BY <3>1, <3>2
  <2> QED
    BY <1>2, <2>5, <2>6, <2>7 DEF NothingHeard, LastTable
<1> QED
  BY <1>3, <1>4

\* Each event and each turn of a reset keeps the last table in order.
LEMMA NetStepInv == NetInv /\ [NetworkInfoNext]_netVars => NetInv'
<1> SUFFICES ASSUME NetInv, [NetworkInfoNext]_netVars PROVE NetInv'
  OBVIOUS
<1>0. NetTypes /\ NothingHeard /\ LastTable
  BY DEF NetInv
<1>1. ASSUME NEW n \in Network, NEW connected \in BOOLEAN, PostNetwork(n, connected)
      PROVE  netMsgs' \in Seq(NetMsg)
  <2>1. [network |-> n, connected |-> connected] \in NetMsg
    BY DEF NetMsg
  <2> QED
    BY <1>0, <1>1, <2>1, PostMessage DEF PostNetwork, NetTypes
<1>2. ASSUME UNCHANGED <<mNetworkInfo, netUp, netMissed, netFirst>>
      PROVE  NothingHeard' /\ LastTable'
  BY <1>0, <1>2 DEF NothingHeard, LastTable
<1>3. ASSUME NEW n \in Network, NEW connected \in BOOLEAN, ConnectionStatus(n, connected)
      PROVE  NetInv'
  <2>1. netMsgs' \in Seq(NetMsg)
    BY <1>1, <1>3 DEF ConnectionStatus
  <2>2. netEvents' \in 0..MaxNetEvents
    BY <1>0, <1>3, NetworkAssumption DEF ConnectionStatus, NetTypes
  <2> QED
    BY <1>0, <1>2, <1>3, <2>1, <2>2 DEF ConnectionStatus, NetTypes, NetInv
<1>4. CASE FrameworkDies
  <2>1. netEvents' \in 0..MaxNetEvents /\ resetting' \in 0..(MaxItem + 1)
    BY <1>0, <1>4, NetworkAssumption DEF FrameworkDies, NetTypes
  <2> QED
    BY <1>0, <1>2, <1>4, <2>1 DEF FrameworkDies, NetTypes, NetInv
<1>5. CASE ResetItem
  <2>1. resetting \in Nat /\ MaxItem \in Nat /\ Len(mNetworkInfo) \in Nat
        /\ Len(mNetworkInfo) <= MaxItem
    BY <1>0, NetworkAssumption DEF NetTypes
  <2>2. \/ /\ resetting # 0 /\ resetting <= Len(mNetworkInfo)
           /\ PostNetwork(mNetworkInfo[resetting].network, FALSE)
           /\ resetting' = resetting + 1
        \/ resetting' = 0 /\ UNCHANGED netMsgs
    BY <1>5 DEF ResetItem
  <2>3. CASE /\ resetting # 0 /\ resetting <= Len(mNetworkInfo)
             /\ PostNetwork(mNetworkInfo[resetting].network, FALSE)
             /\ resetting' = resetting + 1
    <3>1. resetting \in 1 .. Len(mNetworkInfo) /\ resetting' \in 0..(MaxItem + 1)
      BY <2>1, <2>3
    <3>2. mNetworkInfo \in Seq(NetworkItem)
      BY <1>0 DEF NetTypes
    <3>3. mNetworkInfo[resetting] \in NetworkItem
      BY <3>1, <3>2, MessageType
    <3>4. mNetworkInfo[resetting].network \in Network
      BY <3>3 DEF NetworkItem
    <3>5. netMsgs' \in Seq(NetMsg)
      BY <1>1, <2>3, <3>4
    <3> QED
      BY <1>0, <1>2, <1>5, <3>1, <3>5 DEF ResetItem, NetTypes, NetInv
  <2>4. CASE resetting' = 0 /\ UNCHANGED netMsgs
    <3>1. resetting' \in 0..(MaxItem + 1)
      BY <2>1, <2>4
    <3> QED
      BY <1>0, <1>2, <1>5, <2>4, <3>1 DEF ResetItem, NetTypes, NetInv
  <2> QED
    BY <2>2, <2>3, <2>4
<1>6. CASE NotifyNetwork
  <2>1. Head(netMsgs) \in NetMsg /\ Tail(netMsgs) \in Seq(NetMsg) /\ netMsgs' = Tail(netMsgs)
        /\ UNCHANGED <<typeOf, resetting, netEvents>>
    BY <1>0, <1>6, TakeHead DEF NotifyNetwork, NetTypes
  <2>2. Head(netMsgs).network \in Network /\ Head(netMsgs).connected \in BOOLEAN
    BY <2>1 DEF NetMsg
  <2>3. mNetworkInfo' = SetItem(Head(netMsgs).network, Head(netMsgs).connected)
        /\ NetworkHistory(Head(netMsgs).network, Head(netMsgs).connected)
    BY <1>6 DEF NotifyNetwork
  <2>4. /\ mNetworkInfo' \in Seq(NetworkItem) /\ Len(mNetworkInfo') <= MaxItem
        /\ netUp' \subseteq Network /\ netMissed' \subseteq netUp'
        /\ netFirst' \in Network \cup {NoNetwork}
        /\ NothingHeard' /\ LastTable'
    BY <2>2, <2>3, EventHandled
  <2> QED
    BY <1>0, <2>1, <2>4 DEF NetTypes, NetInv
<1>7. CASE UNCHANGED netVars
  BY <1>0, <1>2, <1>7 DEF netVars, NetTypes, NetInv
<1> QED
  BY <1>3, <1>4, <1>5, <1>6, <1>7 DEF NetworkInfoNext
-----------------------------------------------------------------------------
\* The state keeps its types (SystemStatusNetworkInfo, gps/core/SystemStatus.h).
THEOREM NetworkTypeCorrect == NetworkSpec => []NetworkInfoTypeOK
<1>1. NetInv => NetworkInfoTypeOK
  BY DEF NetInv, NetTypes, NetMsg, NetworkItem, HandleTable, NetworkInfoTypeOK
<1> QED
  BY NetInitInv, NetStepInv, <1>1, PTL DEF NetworkSpec

\* For any number of networks, slots, cached items and events, the table has no
\* hole and no network twice, and holds the networks that are up
\* (SystemStatusNetworkInfo::collate, gps/core/SystemStatus.h, and
\* setIteminReport, gps/core/SystemStatus.cpp).
THEOREM HandlesFollow == NetworkSpec => []HandlesFollowNetworks
<1>1. NetInv => HandlesFollowNetworks
  <2> SUFFICES ASSUME NetInv, mNetworkInfo # <<>>,
                      NEW table, table = Last(mNetworkInfo).handles
               PROVE  /\ \A i, j \in Leading(table) : table[i] = table[j] => i = j
                      /\ InTable(table) = {table[i] : i \in Leading(table)}
                      /\ InTable(table) = (netUp \ netMissed) \cup ({netFirst} \ {NoNetwork})
    BY DEF HandlesFollowNetworks
  <2>1. Last(mNetworkInfo) \in NetworkItem
    <3>1. mNetworkInfo \in Seq(NetworkItem) /\ Len(mNetworkInfo) \in 1 .. Len(mNetworkInfo)
      BY DEF NetInv, NetTypes
    <3> QED
      BY <3>1, MessageType DEF Last
  <2>2. table \in HandleTable
    BY <2>1 DEF NetworkItem
  <2>3. PICK k \in 0..MaxHandles : Filled(table, k)
    BY DEF NetInv, LastTable, NoHole
  <2>4. Leading(table) = 1..k /\ InTable(table) = {table[i] : i \in 1..k}
    BY <2>2, <2>3, LeadingSlots
  <2> QED
    BY <2>3, <2>4 DEF NetInv, LastTable, Filled
<1> QED
  BY NetInitInv, NetStepInv, <1>1, PTL DEF NetworkSpec

(***************************************************************************)
(* The message queue                                                       *)
(***************************************************************************)

QueueSpec == QueueInit /\ [][QueueNext]_queueVars

\* The thread leaves only an unblocked queue, and the queue is freed only once
\* the thread has left and the stopper has let go.
QueueFlags ==
  /\ unblocked \in BOOLEAN /\ queueFreed \in BOOLEAN
  /\ reader \in {"idle", "waiting", "woken", "handling", "leaving", "gone"}
  /\ stopper \in {"none", "locked", "interrupted", "done"}
  /\ reader \in {"leaving", "gone"} => unblocked
  /\ unblocked => stopper \in {"interrupted", "done"}
  /\ queueFreed => reader = "gone" /\ stopper = "done"

Lists ==
  /\ msgList \in Seq(QueueMsg) /\ msgAccepted \in Seq(QueueMsg)
  /\ msgHandled \in Seq(QueueMsg) /\ msgLeaked \in SUBSET QueueMsg

\* Until the queue is freed the messages accepted are those handled and those
\* in the list, in this order.
InOrder == ~queueFreed => msgAccepted = msgHandled \o msgList

QueueInv == QueueFlags /\ Lists /\ InOrder
-----------------------------------------------------------------------------
LEMMA Taken ==
  ASSUME NEW S, NEW h \in Seq(S), NEW q \in Seq(S), q # <<>>
  PROVE  /\ Tail(q) \in Seq(S) /\ Append(h, Head(q)) \in Seq(S)
         /\ Append(h, Head(q)) \o Tail(q) = h \o q
         /\ Len(h) < Len(h \o q) /\ (h \o q)[Len(h) + 1] = Head(q)
<1>1. Len(q) > 0 /\ Len(q) \in Nat /\ Len(h) \in Nat
  BY EmptySeq, LenProperties
<1>2. Tail(q) \in Seq(S) /\ Head(q) \in S
  BY HeadTailProperties
<1>3. q = <<Head(q)>> \o Tail(q)
  OBVIOUS
<1>4. Append(h, Head(q)) \o Tail(q) = h \o q
  BY <1>2, <1>3
<1>5. Len(h) < Len(h \o q) /\ (h \o q)[Len(h) + 1] = Head(q)
  BY <1>1
<1> QED
  BY <1>2, <1>4, <1>5

LEMMA Sent ==
  ASSUME NEW S, NEW h \in Seq(S), NEW q \in Seq(S), NEW m \in S
  PROVE  /\ Append(q, m) \in Seq(S) /\ Append(h \o q, m) = h \o Append(q, m)
  OBVIOUS

LEMMA InitInv == QueueInit => QueueInv
<1> SUFFICES ASSUME QueueInit PROVE QueueInv
  OBVIOUS
<1>1. QueueFlags
  BY DEF QueueInit, QueueFlags
<1>2. Lists
  BY DEF QueueInit, Lists
<1>3. InOrder
  <2>1. <<>> \o <<>> = <<>>
    OBVIOUS
  <2> QED
    BY <2>1 DEF QueueInit, InOrder
<1> QED
  BY <1>1, <1>2, <1>3 DEF QueueInv

LEMMA StepFlags == QueueFlags /\ [QueueNext]_queueVars => QueueFlags'
<1> SUFFICES ASSUME QueueFlags, [QueueNext]_queueVars PROVE QueueFlags'
  OBVIOUS
<1> USE DEF QueueFlags
<1>1. ASSUME NEW m \in QueueMsg, SendMsg(m) PROVE QueueFlags'
  BY <1>1 DEF SendMsg, Wake
<1>2. CASE Receive
  BY <1>2 DEF Receive
<1>3. CASE ReceiveAfterWait
  BY <1>3 DEF ReceiveAfterWait
<1>4. CASE SpuriousWakeup
  BY <1>4 DEF SpuriousWakeup
<1>5. CASE FinishMsg
  BY <1>5 DEF FinishMsg
<1>6. CASE StopLock
  BY <1>6 DEF StopLock
<1>7. CASE StopInterrupt
  BY <1>7 DEF StopInterrupt, Wake
<1>8. CASE LeaveThread
  BY <1>8 DEF LeaveThread, ReleaseRunnable
<1>9. CASE StopRelease
  BY <1>9 DEF StopRelease, ReleaseRunnable
<1>10. CASE UNCHANGED queueVars
  BY <1>10 DEF queueVars
<1> QED
  BY <1>1, <1>2, <1>3, <1>4, <1>5, <1>6, <1>7, <1>8, <1>9, <1>10
     DEF QueueNext, ReaderStep, StopperStep

\* What each step does to the messages, in the terms the rest needs.
LEMMA StepKinds ==
  ASSUME QueueInv, [QueueNext]_queueVars
  PROVE  \/ \E m \in QueueMsg :
              /\ ~queueFreed /\ ~queueFreed' /\ m \notin ToSet(msgAccepted)
              /\ msgList' = Append(msgList, m)
              /\ msgAccepted' = Append(msgAccepted, m)
              /\ UNCHANGED <<msgHandled, msgLeaked>>
         \/ /\ ~queueFreed /\ ~queueFreed' /\ msgList # <<>> /\ TakeOldest
            /\ UNCHANGED <<msgAccepted, msgLeaked>>
         \/ /\ msgList' = <<>> /\ queueFreed'
            /\ UNCHANGED <<msgAccepted, msgHandled, msgLeaked>>
         \/ /\ msgLeaked' \in SUBSET QueueMsg
            /\ UNCHANGED <<msgList, msgAccepted, msgHandled, queueFreed>>
<1> DEFINE Kinds ==
         \/ \E m \in QueueMsg :
              /\ ~queueFreed /\ ~queueFreed' /\ m \notin ToSet(msgAccepted)
              /\ msgList' = Append(msgList, m)
              /\ msgAccepted' = Append(msgAccepted, m)
              /\ UNCHANGED <<msgHandled, msgLeaked>>
         \/ /\ ~queueFreed /\ ~queueFreed' /\ msgList # <<>> /\ TakeOldest
            /\ UNCHANGED <<msgAccepted, msgLeaked>>
         \/ /\ msgList' = <<>> /\ queueFreed'
            /\ UNCHANGED <<msgAccepted, msgHandled, msgLeaked>>
         \/ /\ msgLeaked' \in SUBSET QueueMsg
            /\ UNCHANGED <<msgList, msgAccepted, msgHandled, queueFreed>>
<1> USE DEF QueueInv
<1>0. msgLeaked \in SUBSET QueueMsg
  BY DEF Lists
<1>1. ASSUME NEW m \in QueueMsg, SendMsg(m) PROVE Kinds
  <2>1. CASE unblocked
    BY <1>0, <1>1, <2>1 DEF SendMsg
  <2>2. CASE ~unblocked
    <3>1. ~queueFreed
      BY <2>2 DEF QueueFlags
    <3> QED
      BY <1>1, <2>2, <3>1 DEF SendMsg
  <2> QED
    BY <2>1, <2>2
<1>2. ASSUME reader # "gone" PROVE ~queueFreed
  BY <1>2 DEF QueueFlags
<1>3. CASE Receive
  BY <1>0, <1>2, <1>3 DEF Receive
<1>4. CASE ReceiveAfterWait
  BY <1>0, <1>2, <1>4 DEF ReceiveAfterWait
<1>5. CASE SpuriousWakeup \/ FinishMsg \/ StopLock \/ StopInterrupt
  BY <1>0, <1>5 DEF SpuriousWakeup, FinishMsg, StopLock, StopInterrupt
<1>6. ASSUME msgList' = <<>>, queueFreed' = TRUE,
             UNCHANGED <<msgAccepted, msgHandled, msgLeaked>>
      PROVE  Kinds
  BY <1>6
<1>7. CASE LeaveThread
  <2>1. CASE stopper \in {"none", "done"}
    BY <1>6, <1>7, <2>1 DEF LeaveThread, ReleaseRunnable
  <2>2. CASE stopper \notin {"none", "done"}
    BY <1>0, <1>7, <2>2 DEF LeaveThread, ReleaseRunnable, QueueFlags
  <2> QED
    BY <2>1, <2>2
<1>8. CASE StopRelease
  <2>1. CASE reader = "gone"
    BY <1>6, <1>8, <2>1 DEF StopRelease, ReleaseRunnable
  <2>2. CASE reader # "gone"
    BY <1>0, <1>8, <2>2 DEF StopRelease, ReleaseRunnable, QueueFlags
  <2> QED
    BY <2>1, <2>2
<1>9. CASE UNCHANGED queueVars
  BY <1>0, <1>9 DEF queueVars
<1> QED
  BY <1>1, <1>3, <1>4, <1>5, <1>7, <1>8, <1>9
     DEF QueueNext, ReaderStep, StopperStep

LEMMA StepInv == QueueInv /\ [QueueNext]_queueVars => QueueInv'
<1> SUFFICES ASSUME QueueInv, [QueueNext]_queueVars PROVE QueueInv'
  OBVIOUS
<1>0. QueueFlags'
  BY StepFlags DEF QueueInv
<1>1. Lists /\ InOrder
  BY DEF QueueInv
<1>2. ASSUME NEW m \in QueueMsg, ~queueFreed, msgList' = Append(msgList, m),
             msgAccepted' = Append(msgAccepted, m), UNCHANGED <<msgHandled, msgLeaked>>
      PROVE  Lists' /\ InOrder'
  <2>1. msgAccepted = msgHandled \o msgList
    BY <1>1, <1>2 DEF InOrder
  <2>2. Append(msgHandled \o msgList, m) = msgHandled \o Append(msgList, m)
    BY <1>1, Sent DEF Lists
  <2> QED
    BY <1>1, <1>2, <2>1, <2>2 DEF Lists, InOrder
<1>3. ASSUME ~queueFreed, msgList # <<>>, TakeOldest, UNCHANGED <<msgAccepted, msgLeaked>>
      PROVE  Lists' /\ InOrder'
  <2>1. msgAccepted = msgHandled \o msgList
    BY <1>1, <1>3 DEF InOrder
  <2>2. /\ Tail(msgList) \in Seq(QueueMsg)
        /\ Append(msgHandled, Head(msgList)) \in Seq(QueueMsg)
        /\ Append(msgHandled, Head(msgList)) \o Tail(msgList) = msgAccepted
    BY <1>1, <1>3, <2>1, Taken DEF Lists
  <2> QED
    BY <1>1, <1>3, <2>2 DEF TakeOldest, Lists, InOrder
<1>4. ASSUME msgList' = <<>>, queueFreed', UNCHANGED <<msgAccepted, msgHandled, msgLeaked>>
      PROVE  Lists' /\ InOrder'
  BY <1>1, <1>4 DEF Lists, InOrder
<1>5. ASSUME msgLeaked' \in SUBSET QueueMsg,
             UNCHANGED <<msgList, msgAccepted, msgHandled, queueFreed>>
      PROVE  Lists' /\ InOrder'
  BY <1>1, <1>5 DEF Lists, InOrder
<1>6. Lists' /\ InOrder'
  BY <1>2, <1>3, <1>4, <1>5, StepKinds
<1> QED
  BY <1>0, <1>6 DEF QueueInv

LEMMA StepImplements ==
  QueueInv /\ [QueueNext]_queueVars =>
    [Channel!Next]_<<msgAccepted, msgHandled, ~queueFreed>>
<1> SUFFICES ASSUME QueueInv, [QueueNext]_queueVars
             PROVE  Channel!Next \/ UNCHANGED <<msgAccepted, msgHandled, ~queueFreed>>
  OBVIOUS
<1>1. QueueFlags /\ Lists /\ InOrder /\ QueueFlags'
  BY StepFlags DEF QueueInv
<1>2. ASSUME ~queueFreed PROVE (~queueFreed) = TRUE
  BY <1>2
<1>3. ASSUME NEW m \in QueueMsg, ~queueFreed, ~queueFreed', m \notin ToSet(msgAccepted),
             msgAccepted' = Append(msgAccepted, m), UNCHANGED msgHandled
      PROVE  Channel!Accept(m)
  <2>1. \A i \in DOMAIN msgAccepted : msgAccepted[i] # m
    BY <1>3 DEF ToSet
  <2>2. (~queueFreed)' = ~queueFreed
    BY <1>3
  <2> QED
    BY <1>2, <1>3, <2>1, <2>2 DEF Channel!Accept
<1>4. ASSUME ~queueFreed, ~queueFreed', msgList # <<>>, TakeOldest, UNCHANGED msgAccepted
      PROVE  Channel!Handle
  <2>1. msgAccepted = msgHandled \o msgList
    BY <1>1, <1>4 DEF InOrder
  <2>2. Len(msgHandled) < Len(msgAccepted) /\ msgAccepted[Len(msgHandled) + 1] = Head(msgList)
    BY <1>1, <1>4, <2>1, Taken DEF Lists
  <2>3. (~queueFreed)' = ~queueFreed
    BY <1>4
  <2> QED
    BY <1>2, <1>4, <2>2, <2>3 DEF TakeOldest, Channel!Handle
<1>5. ASSUME queueFreed', UNCHANGED <<msgAccepted, msgHandled>>
      PROVE  Channel!Close \/ UNCHANGED <<msgAccepted, msgHandled, ~queueFreed>>
  <2>1. CASE queueFreed
    <3>1. (~queueFreed)' = ~queueFreed
      BY <1>5, <2>1
    <3> QED
      BY <1>5, <3>1
  <2>2. CASE ~queueFreed
    <3>1. (~queueFreed)' = FALSE
      BY <1>5
    <3> QED
      BY <1>2, <1>5, <2>2, <3>1 DEF Channel!Close
  <2> QED
    BY <2>1, <2>2
<1>6. ASSUME UNCHANGED <<msgAccepted, msgHandled, queueFreed>>
      PROVE  UNCHANGED <<msgAccepted, msgHandled, ~queueFreed>>
  BY <1>6
<1> QED
  BY <1>3, <1>4, <1>5, <1>6, StepKinds DEF Channel!Next
-----------------------------------------------------------------------------
\* The queue keeps its types for any messages (gps/utils/msg_q.c, MsgTask.cpp).
THEOREM QueueTypeCorrect == QueueSpec => []QueueTypeOK
<1>1. QueueInv => QueueTypeOK
  BY DEF QueueInv, QueueFlags, Lists, QueueTypeOK, ToSet
<1> QED
  BY InitInv, StepInv, <1>1, PTL DEF QueueSpec

\* For any messages and any interleaving of senders, the thread and whoever
\* deletes the task, messages are handled in the order in which they were
\* accepted, none twice, and none once the queue is freed (gps/utils/msg_q.c).
THEOREM QueueImplementsChannel == QueueSpec => QueueIsFifo
<1>1. QueueInit => Channel!Init
  BY DEF QueueInit, Channel!Init
<1> QED
  BY InitInv, StepInv, StepImplements, <1>1, PTL DEF QueueSpec, QueueIsFifo, Channel!Spec

(***************************************************************************)
(* The timers                                                              *)
(***************************************************************************)

TimerSpec == TimerInit /\ [][TimerNext]_timerVars

TimerMessage == [what : {"push", "remove", "expire"}, timer : {NoTimer} \cup Delegate]

\* The message m refers to a delegate of D, or to none if it is an expiration.
RefersTo(m, D) == IF m.what = "expire" THEN m.timer = NoTimer ELSE m.timer \in D
RemovalIn(q, d) == \E i \in DOMAIN q : q[i].what = "remove" /\ q[i].timer = d
ExpirationIn(q) == \E i \in DOMAIN q : q[i].what = "expire"
\* No message refers to a delegate behind the one that deletes it.
RemovalLast(q) ==
  \A i, j \in DOMAIN q : q[i].what = "remove" /\ q[j].timer = q[i].timer => j <= i

TimerTypes ==
  /\ clock \in 0..MaxTime /\ delegates \subseteq Delegate /\ heap \subseteq Delegate
  /\ mTimer \in [TimerClient -> {NoTimer} \cup Delegate]
  /\ mClient \in [Delegate -> {NoClient} \cup TimerClient]
  /\ mFutureTime \in [Delegate -> NoTime..MaxTime]
  /\ timerQ \in Seq(TimerMessage)
  /\ armed \in NoTime..MaxTime /\ polled \in BOOLEAN
  /\ poller \in {"waiting", "woken", "disarmed", "unpolled"}
  /\ task \in {"idle", "popped", "stopping"}
  /\ taskTimer \in {NoTimer} \cup Delegate
  /\ taskClient \in {NoClient} \cup TimerClient /\ taskNow \in Nat

\* Who refers to a delegate refers to one that is not deleted,
References ==
  /\ heap \cup {taskTimer} \subseteq {NoTimer} \cup delegates
  /\ \A i \in DOMAIN timerQ : RefersTo(timerQ[i], delegates)
  /\ \A d \in delegates : mFutureTime[d] # NoTime
\* what is queued for it comes before its removal,
QueueInOrder == RemovalLast(timerQ)
\* a client refers to a delegate of its own that nothing removes yet,
TimersOwned ==
  \A c \in TimerClient : mTimer[c] # NoTimer =>
    /\ mTimer[c] \in delegates /\ mClient[mTimer[c]] = c
    /\ ~RemovalIn(timerQ, mTimer[c])
\* and the task holds one exactly while it handles an expiration.
TaskHolds ==
  /\ (task = "idle") = (taskTimer = NoTimer)
  /\ task = "stopping" => taskClient \in TimerClient

TimerInv ==
  TimerTypes /\ References /\ QueueInOrder /\ TimersOwned /\ TaskHolds
    /\ SoonestTimerArmed
-----------------------------------------------------------------------------
\* Taking the head of the queue keeps what the others refer to, in their order.
LEMMA TimerMessageTaken ==
  ASSUME NEW q \in Seq(TimerMessage), q # <<>>, NEW D,
         \A i \in DOMAIN q : RefersTo(q[i], D), RemovalLast(q)
  PROVE  /\ Tail(q) \in Seq(TimerMessage) /\ Head(q) \in TimerMessage
         /\ RefersTo(Head(q), D)
         /\ \A i \in DOMAIN Tail(q) : RefersTo(Tail(q)[i], D)
         /\ RemovalLast(Tail(q))
         /\ \A d : RemovalIn(Tail(q), d) => RemovalIn(q, d)
         /\ Head(q).what = "remove" => RemovalIn(q, Head(q).timer)
         /\ Head(q).what = "remove" =>
              \A i \in DOMAIN Tail(q) : Tail(q)[i].timer # Head(q).timer
         /\ ExpirationIn(q) /\ Head(q).what # "expire" => ExpirationIn(Tail(q))
<1>1. /\ Head(q) \in TimerMessage /\ Head(q) = q[1]
      /\ Len(q) \in Nat /\ Len(q) >= 1
      /\ Tail(q) \in Seq(TimerMessage) /\ Len(Tail(q)) = Len(q) - 1
      /\ \A i \in 1 .. Len(Tail(q)) : Tail(q)[i] = q[i + 1]
  BY TakeHead
<1>2. /\ DOMAIN q = 1 .. Len(q) /\ DOMAIN Tail(q) = 1 .. Len(q) - 1 /\ 1 \in DOMAIN q
      /\ \A i \in DOMAIN Tail(q) :
           i \in Int /\ i + 1 \in DOMAIN q /\ Tail(q)[i] = q[i + 1] /\ ~(i + 1 <= 1)
      /\ \A i, j \in DOMAIN Tail(q) : i + 1 <= j + 1 => i <= j
      /\ \A i \in DOMAIN q : i = 1 \/ (i - 1 \in DOMAIN Tail(q) /\ Tail(q)[i - 1] = q[i])
  BY <1>1
<1>3. RemovalLast(Tail(q))
  BY <1>2 DEF RemovalLast
<1>4. \A d : RemovalIn(Tail(q), d) => RemovalIn(q, d)
  BY <1>2 DEF RemovalIn
<1>5. Head(q).what = "remove" => RemovalIn(q, Head(q).timer)
  BY <1>1, <1>2 DEF RemovalIn
<1>6. Head(q).what = "remove" =>
        \A i \in DOMAIN Tail(q) : Tail(q)[i].timer # Head(q).timer
  BY <1>1, <1>2 DEF RemovalLast
<1>7. ExpirationIn(q) /\ Head(q).what # "expire" => ExpirationIn(Tail(q))
  BY <1>1, <1>2 DEF ExpirationIn
<1>8. RefersTo(Head(q), D) /\ \A i \in DOMAIN Tail(q) : RefersTo(Tail(q)[i], D)
  BY <1>1, <1>2
<1> QED
  BY <1>1, <1>3, <1>4, <1>5, <1>6, <1>7, <1>8

\* Posting a message about a delegate that nothing removes keeps the order.
LEMMA TimerMessagePosted ==
  ASSUME NEW q \in Seq(TimerMessage), NEW m \in TimerMessage, NEW D, RefersTo(m, D),
         \A i \in DOMAIN q : RefersTo(q[i], D), RemovalLast(q), ~RemovalIn(q, m.timer)
  PROVE  /\ Append(q, m) \in Seq(TimerMessage)
         /\ \A i \in DOMAIN Append(q, m) : RefersTo(Append(q, m)[i], D)
         /\ RemovalLast(Append(q, m))
         /\ \A d : RemovalIn(Append(q, m), d)
                     <=> RemovalIn(q, d) \/ (m.what = "remove" /\ m.timer = d)
         /\ ExpirationIn(q) \/ m.what = "expire" => ExpirationIn(Append(q, m))
<1>1. /\ Append(q, m) \in Seq(TimerMessage)
      /\ Len(q) \in Nat /\ Len(Append(q, m)) = Len(q) + 1
      /\ Append(q, m)[Len(q) + 1] = m
      /\ \A i \in 1 .. Len(q) : Append(q, m)[i] = q[i]
  BY PostMessage
<1>2. /\ DOMAIN q = 1 .. Len(q) /\ DOMAIN Append(q, m) = DOMAIN q \cup {Len(q) + 1}
      /\ \A i \in DOMAIN q : i <= Len(q) + 1 /\ i # Len(q) + 1
      /\ Len(q) + 1 <= Len(q) + 1
  BY <1>1
<1>3. \A i \in DOMAIN Append(q, m) : RefersTo(Append(q, m)[i], D)
  BY <1>1, <1>2
<1>4. RemovalLast(Append(q, m))
  BY <1>1, <1>2 DEF RemovalLast, RemovalIn
<1>5. \A d : RemovalIn(Append(q, m), d)
               <=> RemovalIn(q, d) \/ (m.what = "remove" /\ m.timer = d)
  BY <1>1, <1>2 DEF RemovalIn
<1>6. ExpirationIn(q) \/ m.what = "expire" => ExpirationIn(Append(q, m))
  BY <1>1, <1>2 DEF ExpirationIn
<1> QED
  BY <1>1, <1>3, <1>4, <1>5, <1>6

\* The soonest time of some timers is the time of one of them, and of no other
\* it is later.
LEMMA SoonestIsLeast ==
  ASSUME TimerTypes, NEW S \in SUBSET Delegate, \A d \in S : mFutureTime[d] # NoTime
  PROVE  /\ S = {} => SoonestTime(S) = NoTime
         /\ S # {} => SoonestTime(S) \in 0..MaxTime
         /\ SoonestTime(S) \in NoTime..MaxTime
         /\ SoonestTime(S) # NoTime <=> S # {}
         /\ \A d \in S : SoonestTime(S) <= mFutureTime[d]
         /\ S # {} => \E d \in S : SoonestTime(S) = mFutureTime[d]
<1> DEFINE T == {mFutureTime[d] : d \in S}
<1>1. T \in SUBSET (0..MaxTime)
  BY TimerAssumption DEF TimerTypes, NoTime
<1>2. CASE S = {}
  BY <1>2, TimerAssumption DEF SoonestTime, NoTime
<1>3. CASE S # {}
  <2>1. T # {} /\ T \in SUBSET Nat
    BY <1>1, <1>3, TimerAssumption
  <2> HIDE DEF T
  <2>2. \E x \in T : \A y \in T : x <= y
    BY <2>1, LeastNat
  <2>3. Min(T) \in T /\ \A y \in T : Min(T) <= y
    BY <2>2 DEF Min
  <2>4. SoonestTime(S) = Min(T)
    BY <1>3 DEF SoonestTime, T
  <2>5. SoonestTime(S) \in 0..MaxTime
    BY <1>1, <2>3, <2>4
  <2>6. /\ \A d \in S : SoonestTime(S) <= mFutureTime[d]
        /\ \E d \in S : SoonestTime(S) = mFutureTime[d]
    BY <2>3, <2>4 DEF T
  <2>7. SoonestTime(S) \in NoTime..MaxTime /\ SoonestTime(S) # NoTime
    BY <2>5, TimerAssumption DEF NoTime
  <2> QED
    BY <1>3, <2>5, <2>6, <2>7
<1> QED
  BY <1>2, <1>3

\* The soonest time of fewer timers is no sooner.
LEMMA FewerTimersNoSooner ==
  ASSUME TimerTypes, NEW S \in SUBSET Delegate, \A d \in S : mFutureTime[d] # NoTime,
         NEW R \in SUBSET S, R # {}
  PROVE  SoonestTime(S) <= SoonestTime(R)
<1>1. PICK d \in R : SoonestTime(R) = mFutureTime[d]
  BY SoonestIsLeast
<1> QED
  BY <1>1, SoonestIsLeast

\* No timer exists and the kernel is not set.
LEMMA TimerInitInv == TimerInit => TimerInv
<1> SUFFICES ASSUME TimerInit PROVE TimerInv
  OBVIOUS
<1>1. TimerTypes
  <2>1. 0 \in 0..MaxTime /\ NoTime \in NoTime..MaxTime
    BY TimerAssumption DEF NoTime
  <2>2. mTimer \in [TimerClient -> {NoTimer} \cup Delegate]
        /\ mClient \in [Delegate -> {NoClient} \cup TimerClient]
        /\ mFutureTime \in [Delegate -> NoTime..MaxTime]
    BY <2>1 DEF TimerInit
  <2>3. timerQ \in Seq(TimerMessage) /\ taskNow \in Nat
    BY DEF TimerInit
  <2>4. polled \in BOOLEAN /\ delegates \subseteq Delegate /\ heap \subseteq Delegate
    BY DEF TimerInit
  <2> QED
    BY <2>1, <2>2, <2>3, <2>4 DEF TimerInit, TimerTypes
<1>2. References /\ QueueInOrder /\ TimersOwned /\ TaskHolds
  BY DEF TimerInit, References, QueueInOrder, RemovalLast, TimersOwned, TaskHolds
<1>3. SoonestTimerArmed
  BY DEF TimerInit, SoonestTimerArmed
<1> QED
  BY <1>1, <1>2, <1>3 DEF TimerInv

\* If the times of some timers stay, so does the soonest.
LEMMA TimesStay ==
  ASSUME NEW S, \A d \in S : mFutureTime'[d] = mFutureTime[d]
  PROVE  SoonestTime(S)' = SoonestTime(S)
<1>1. {mFutureTime'[d] : d \in S} = {mFutureTime[d] : d \in S}
  OBVIOUS
<1> QED
  BY <1>1 DEF SoonestTime

\* What updateSoonestTime tells the kernel
LEMMA KernelUpdated ==
  ASSUME TimerTypes, NEW p, NEW h \in SUBSET Delegate,
         \A d \in h : mFutureTime[d] # NoTime, UpdateSoonestTime(p, h)
  PROVE  /\ armed' \in NoTime..MaxTime /\ polled' \in BOOLEAN
         /\ p = NoTime /\ h # {} => polled' /\ armed' # NoTime /\ armed' <= SoonestTime(h)
<1>1. /\ SoonestTime(h) \in NoTime..MaxTime /\ NoTime \in NoTime..MaxTime
      /\ h # {} => SoonestTime(h) # NoTime
  BY SoonestIsLeast, TimerAssumption DEF NoTime
<1>2. \/ armed' = NoTime /\ polled' = FALSE /\ p # NoTime
      \/ armed' = SoonestTime(h) /\ armed' # NoTime /\ polled' = TRUE
      \/ UNCHANGED kernel /\ (p = NoTime => SoonestTime(h) = NoTime)
  BY DEF UpdateSoonestTime
<1>3. armed' \in NoTime..MaxTime
  BY <1>1, <1>2 DEF TimerTypes, kernel
<1>4. polled' \in BOOLEAN
  BY <1>2, Zenon DEF TimerTypes, kernel
<1>5. p = NoTime /\ h # {} => polled' /\ armed' = SoonestTime(h) /\ armed' # NoTime
  BY <1>1, <1>2
<1>6. armed' = SoonestTime(h) => armed' <= SoonestTime(h)
  BY <1>1, TimerAssumption DEF NoTime
<1> QED
  BY <1>3, <1>4, <1>5, <1>6

\* A message for a delegate that nothing removes yet, or a report of the poller
LEMMA PostedInOrder ==
  ASSUME TimerInv, NEW w \in {"push", "remove", "expire"}, NEW d, NEW D \in SUBSET Delegate,
         delegates \subseteq D, IF w = "expire" THEN d = NoTimer ELSE d \in D,
         ~RemovalIn(timerQ, d), timerQ' = Append(timerQ, TimerMsg(w, d))
  PROVE  /\ timerQ' \in Seq(TimerMessage) /\ QueueInOrder'
         /\ \A i \in DOMAIN timerQ' : RefersTo(timerQ'[i], D)
         /\ \A e : RemovalIn(timerQ', e) <=> RemovalIn(timerQ, e) \/ (w = "remove" /\ e = d)
         /\ ExpirationIn(timerQ) \/ w = "expire" => ExpirationIn(timerQ')
<1>1. TimerMsg(w, d) \in TimerMessage /\ RefersTo(TimerMsg(w, d), D)
      /\ TimerMsg(w, d).what = w /\ TimerMsg(w, d).timer = d
  BY DEF TimerMsg, TimerMessage, RefersTo
<1>2. timerQ \in Seq(TimerMessage) /\ RemovalLast(timerQ)
      /\ \A i \in DOMAIN timerQ : RefersTo(timerQ[i], D)
  BY DEF TimerInv, TimerTypes, QueueInOrder, References, RefersTo
<1> HIDE DEF TimerInv
<1> QED
  BY <1>1, <1>2, TimerMessagePosted DEF QueueInOrder

\* A timer that ends is its client's no longer and is the last in the queue.
LEMMA TimerEnded ==
  ASSUME TimerInv, NEW c \in TimerClient, mTimer[c] # NoTimer, EndTimer(c)
  PROVE  /\ mTimer' \in [TimerClient -> {NoTimer} \cup Delegate]
         /\ mClient' \in [Delegate -> {NoClient} \cup TimerClient]
         /\ timerQ' \in Seq(TimerMessage) /\ QueueInOrder' /\ TimersOwned'
         /\ \A i \in DOMAIN timerQ' : RefersTo(timerQ'[i], delegates)
         /\ ExpirationIn(timerQ) => ExpirationIn(timerQ')
<1>1. /\ mTimer[c] \in delegates /\ mClient[mTimer[c]] = c /\ ~RemovalIn(timerQ, mTimer[c])
      /\ delegates \in SUBSET Delegate /\ delegates' = delegates
  BY DEF TimerInv, TimersOwned, TimerTypes, EndTimer
<1>2. timerQ' = Append(timerQ, TimerMsg("remove", mTimer[c]))
  BY DEF EndTimer
<1>3. /\ timerQ' \in Seq(TimerMessage) /\ QueueInOrder'
      /\ \A i \in DOMAIN timerQ' : RefersTo(timerQ'[i], delegates)
      /\ \A e : RemovalIn(timerQ', e) <=> RemovalIn(timerQ, e) \/ e = mTimer[c]
      /\ ExpirationIn(timerQ) => ExpirationIn(timerQ')
  BY <1>1, <1>2, PostedInOrder
<1>4. /\ \A b \in TimerClient : mTimer'[b] = IF b = c THEN NoTimer ELSE mTimer[b]
      /\ \A d \in Delegate : mClient'[d] = IF d = mTimer[c] THEN NoClient ELSE mClient[d]
      /\ mTimer' \in [TimerClient -> {NoTimer} \cup Delegate]
      /\ mClient' \in [Delegate -> {NoClient} \cup TimerClient]
  BY <1>1 DEF EndTimer, TimerInv, TimerTypes
<1>5. TimersOwned'
  BY <1>1, <1>3, <1>4 DEF TimersOwned, TimerInv
<1> QED
  BY <1>3, <1>4, <1>5

\* What popIfOutRanks leaves
LEMMA NextPopped ==
  ASSUME TimerInv, PopNext
  PROVE  /\ heap' \subseteq heap /\ taskTimer' \in {NoTimer} \cup heap
         /\ task' \in {"idle", "popped"} /\ (task' = "idle") = (taskTimer' = NoTimer)
         /\ armed' \in NoTime..MaxTime /\ polled' \in BOOLEAN
         /\ task' = "idle" /\ heap' # {} =>
              polled' /\ armed' # NoTime /\ armed' <= SoonestTime(heap')
<1>1. heap \in SUBSET Delegate /\ TimerTypes /\ \A d \in heap : mFutureTime[d] # NoTime
      /\ NoTimer \notin Delegate
  BY DEF TimerInv, TimerTypes, References, NoTimer, Delegate
<1>2. CASE (\E d \in Soonest(heap) : Pop(d)) /\ UNCHANGED kernel
  BY <1>1, <1>2 DEF Soonest, Pop, kernel, TimerTypes
<1>3. CASE task' = "idle" /\ taskTimer' = NoTimer /\ Rearm /\ UNCHANGED heap
  <2>1. UpdateSoonestTime(NoTime, heap)
    BY <1>3 DEF Rearm
  <2>2. /\ armed' \in NoTime..MaxTime /\ polled' \in BOOLEAN
        /\ heap # {} => polled' /\ armed' # NoTime /\ armed' <= SoonestTime(heap)
    BY <1>1, <2>1, KernelUpdated
  <2> QED
    BY <1>3, <2>2
<1> QED
  BY <1>2, <1>3 DEF PopNext

\* A step that takes no message and leaves the clients alone
LEMMA ReferencesStay ==
  ASSUME TimerInv, UNCHANGED <<clients, timerQ>>, heap' \subseteq heap,
         taskTimer' \in {taskTimer, NoTimer} \cup heap
  PROVE  References' /\ QueueInOrder' /\ TimersOwned'
  BY DEF TimerInv, References, QueueInOrder, TimersOwned, clients

\* Each step of the clients, the polling thread and the task keeps it.
LEMMA TimerStepInv == TimerInv /\ [TimerNext]_timerVars => TimerInv'
<1> SUFFICES ASSUME TimerInv, [TimerNext]_timerVars PROVE TimerInv'
  OBVIOUS
<1>0. /\ TimerTypes /\ References /\ QueueInOrder /\ TimersOwned /\ TaskHolds
      /\ SoonestTimerArmed
      /\ heap \in SUBSET Delegate /\ \A d \in heap : mFutureTime[d] # NoTime
      /\ timerQ \in Seq(TimerMessage) /\ RemovalLast(timerQ)
      /\ \A i \in DOMAIN timerQ : RefersTo(timerQ[i], delegates)
      /\ NoTimer \notin Delegate /\ delegates \subseteq Delegate
  BY DEF TimerInv, TimerTypes, References, QueueInOrder, NoTimer, Delegate
<1>1. ~RemovalIn(timerQ, NoTimer)
  BY <1>0 DEF RemovalIn, RefersTo
<1>2. ASSUME NEW c \in TimerClient, StopTimer(c) PROVE TimerInv'
  <2>1. mTimer[c] # NoTimer /\ EndTimer(c)
        /\ UNCHANGED <<clock, heap, kernel, poller, taskVars>>
    BY <1>2 DEF StopTimer
  <2>2. UNCHANGED <<delegates, mFutureTime>>
    BY <2>1 DEF EndTimer
  <2>3. /\ mTimer' \in [TimerClient -> {NoTimer} \cup Delegate]
        /\ mClient' \in [Delegate -> {NoClient} \cup TimerClient]
        /\ timerQ' \in Seq(TimerMessage) /\ QueueInOrder' /\ TimersOwned'
        /\ \A i \in DOMAIN timerQ' : RefersTo(timerQ'[i], delegates)
        /\ ExpirationIn(timerQ) => ExpirationIn(timerQ')
    BY <2>1, TimerEnded
  <2>4. TimerTypes'
    BY <1>0, <2>1, <2>2, <2>3 DEF TimerTypes, kernel, taskVars
  <2>5. References' /\ TaskHolds'
    BY <1>0, <2>1, <2>2, <2>3 DEF References, TaskHolds, taskVars
  <2>6. SoonestTimerArmed'
    BY <1>0, <2>1, <2>2, <2>3
       DEF SoonestTimerArmed, SoonestTime, ExpirationIn, kernel, taskVars
  <2> QED
    BY <2>3, <2>4, <2>5, <2>6 DEF TimerInv
<1>3. ASSUME NEW c \in TimerClient, NEW delay \in Delay, StartTimer(c, delay) PROVE TimerInv'
  <2>1. PICK d \in Delegate :
          /\ mFutureTime[d] = NoTime /\ clock + delay <= MaxTime
          /\ mTimer' = [mTimer EXCEPT ![c] = d]
          /\ delegates' = delegates \cup {d}
          /\ mClient' = [mClient EXCEPT ![d] = c]
          /\ mFutureTime' = [mFutureTime EXCEPT ![d] = clock + delay]
          /\ timerQ' = Append(timerQ, TimerMsg("push", d))
    BY <1>3 DEF StartTimer
  <2>2. mTimer[c] = NoTimer /\ UNCHANGED <<clock, heap, kernel, poller, taskVars>>
    BY <1>3 DEF StartTimer
  <2>3. d \notin delegates
    BY <1>0, <2>1 DEF References
  <2>4. ~RemovalIn(timerQ, d)
    BY <1>0, <2>1, <2>3 DEF RemovalIn, RefersTo
  <2>5. delegates' \in SUBSET Delegate /\ delegates \subseteq delegates' /\ d \in delegates'
    BY <1>0, <2>1
  <2>6. /\ timerQ' \in Seq(TimerMessage) /\ QueueInOrder'
        /\ \A i \in DOMAIN timerQ' : RefersTo(timerQ'[i], delegates')
        /\ \A e : RemovalIn(timerQ', e) <=> RemovalIn(timerQ, e)
        /\ ExpirationIn(timerQ) => ExpirationIn(timerQ')
    BY <2>1, <2>4, <2>5, PostedInOrder
  <2>7. clock + delay \in NoTime..MaxTime /\ clock + delay # NoTime
    BY <1>0, <2>1, TimerAssumption DEF TimerTypes, NoTime
  <2>8. /\ mTimer' \in [TimerClient -> {NoTimer} \cup Delegate]
        /\ \A b \in TimerClient : mTimer'[b] = IF b = c THEN d ELSE mTimer[b]
        /\ mClient' \in [Delegate -> {NoClient} \cup TimerClient]
        /\ \A e \in Delegate : mClient'[e] = IF e = d THEN c ELSE mClient[e]
        /\ mFutureTime' \in [Delegate -> NoTime..MaxTime]
        /\ \A e \in Delegate :
             mFutureTime'[e] = IF e = d THEN clock + delay ELSE mFutureTime[e]
    BY <1>0, <2>1, <2>7 DEF TimerTypes
  <2>9. TimerTypes'
    BY <1>0, <2>2, <2>5, <2>6, <2>8 DEF TimerTypes, kernel, taskVars
  <2>10. References' /\ TaskHolds'
    BY <1>0, <2>1, <2>2, <2>5, <2>6, <2>7, <2>8 DEF References, TaskHolds, taskVars
  <2>11. TimersOwned'
    BY <1>0, <2>1, <2>3, <2>4, <2>5, <2>6, <2>8 DEF TimersOwned
  <2>12. SoonestTimerArmed'
    <3>1. SoonestTime(heap)' = SoonestTime(heap)
      <4>1. \A e \in heap : mFutureTime'[e] = mFutureTime[e]
        BY <1>0, <2>1, <2>8
      <4>2. {mFutureTime'[e] : e \in heap} = {mFutureTime[e] : e \in heap}
        BY <4>1
      <4> QED
        BY <2>2, <4>2 DEF SoonestTime
    <3> QED
      BY <1>0, <2>2, <2>6, <3>1 DEF SoonestTimerArmed, ExpirationIn, kernel, taskVars
  <2> QED
    BY <2>6, <2>9, <2>10, <2>11, <2>12 DEF TimerInv
<1>4. CASE Tick
  <2>1. clock' \in 0..MaxTime /\ UNCHANGED <<clients, heap, timerQ, kernel, poller, taskVars>>
    BY <1>0, <1>4, TimerAssumption DEF Tick, TimerTypes
  <2>2. TimerTypes'
    BY <1>0, <2>1 DEF TimerTypes, clients, kernel, taskVars
  <2>3. TaskHolds' /\ SoonestTimerArmed'
    BY <1>0, <2>1 DEF TaskHolds, SoonestTimerArmed, SoonestTime, clients, kernel, taskVars
  <2> QED
    BY <2>1, <2>2, <2>3, ReferencesStay DEF TimerInv, taskVars
<1>5. CASE PollWakes \/ PollDisarms \/ PollRemoves
  <2>1. /\ UNCHANGED <<clock, clients, heap, timerQ, taskVars>>
        /\ poller' \in {"woken", "disarmed", "unpolled"}
        /\ armed' \in {armed, NoTime} /\ polled' \in BOOLEAN
    BY <1>0, <1>5 DEF PollWakes, PollDisarms, PollRemoves, kernel, TimerTypes
  <2>2. armed' \in NoTime..MaxTime
    BY <1>0, <2>1, TimerAssumption DEF TimerTypes, NoTime
  <2>3. TimerTypes'
    BY <1>0, <2>1, <2>2 DEF TimerTypes, clients, taskVars
  <2>4. TaskHolds' /\ SoonestTimerArmed'
    BY <1>0, <2>1 DEF TaskHolds, SoonestTimerArmed, taskVars
  <2> QED
    BY <2>1, <2>3, <2>4, ReferencesStay DEF TimerInv, taskVars
<1>6. CASE PollReports
  <2>1. poller' = "waiting" /\ timerQ' = Append(timerQ, TimerMsg("expire", NoTimer))
        /\ UNCHANGED <<clock, clients, heap, kernel, taskVars>>
    BY <1>6 DEF PollReports
  <2>2. /\ timerQ' \in Seq(TimerMessage) /\ QueueInOrder'
        /\ \A i \in DOMAIN timerQ' : RefersTo(timerQ'[i], delegates)
        /\ \A e : RemovalIn(timerQ', e) <=> RemovalIn(timerQ, e)
        /\ ExpirationIn(timerQ')
    BY <1>0, <1>1, <2>1, PostedInOrder
  <2>3. TimerTypes'
    BY <1>0, <2>1, <2>2 DEF TimerTypes, clients, kernel, taskVars
  <2>4. References' /\ TimersOwned' /\ TaskHolds'
    BY <1>0, <2>1, <2>2 DEF References, TimersOwned, TaskHolds, clients, taskVars
  <2>5. SoonestTimerArmed'
    BY <2>2 DEF SoonestTimerArmed, ExpirationIn
  <2> QED
    BY <2>2, <2>3, <2>4, <2>5 DEF TimerInv
<1>7. CASE UNCHANGED timerVars
  <2>1. TimerTypes'
    BY <1>0, <1>7 DEF TimerTypes, timerVars, clients, kernel, taskVars
  <2>2. TaskHolds' /\ SoonestTimerArmed'
    BY <1>0, <1>7
       DEF TaskHolds, SoonestTimerArmed, SoonestTime, timerVars, clients, kernel, taskVars
  <2> QED
    BY <1>7, <2>1, <2>2, ReferencesStay DEF TimerInv, timerVars, taskVars
\* The task's messages
<1>8. ASSUME NEW w, TaskTakes(w), timerQ' = Tail(timerQ)
      PROVE  /\ Head(timerQ).what = w /\ task = "idle" /\ taskTimer = NoTimer
             /\ Head(timerQ) \in TimerMessage /\ RefersTo(Head(timerQ), delegates)
             /\ timerQ' \in Seq(TimerMessage) /\ QueueInOrder'
             /\ \A i \in DOMAIN timerQ' : RefersTo(timerQ'[i], delegates)
             /\ \A d : RemovalIn(timerQ', d) => RemovalIn(timerQ, d)
             /\ w = "remove" => RemovalIn(timerQ, Head(timerQ).timer)
             /\ w = "remove" => \A i \in DOMAIN timerQ' : timerQ'[i].timer # Head(timerQ).timer
             /\ ExpirationIn(timerQ) /\ w # "expire" => ExpirationIn(timerQ')
  <2>1. timerQ # <<>> /\ Head(timerQ).what = w /\ task = "idle" /\ taskTimer = NoTimer
    BY <1>0, <1>8 DEF TaskTakes, TaskHolds
  <2> QED
    BY <1>0, <1>8, <2>1, TimerMessageTaken DEF QueueInOrder
<1>9. CASE TaskPush
  <2> DEFINE d == Head(timerQ).timer
  <2>1. /\ TaskTakes("push") /\ timerQ' = Tail(timerQ) /\ heap' = heap \cup {d}
        /\ UpdateSoonestTime(SoonestTime(heap), heap')
        /\ UNCHANGED <<clock, clients, poller, taskVars>>
    BY <1>9 DEF TaskPush
  <2>2. /\ Head(timerQ).what = "push" /\ RefersTo(Head(timerQ), delegates)
        /\ timerQ' \in Seq(TimerMessage) /\ QueueInOrder'
        /\ \A i \in DOMAIN timerQ' : RefersTo(timerQ'[i], delegates)
        /\ \A e : RemovalIn(timerQ', e) => RemovalIn(timerQ, e)
        /\ ExpirationIn(timerQ) => ExpirationIn(timerQ')
    BY <1>8, <2>1
  <2>3. d \in delegates
    BY <2>2 DEF RefersTo
  <2> HIDE DEF d
  <2>4. heap' \in SUBSET Delegate /\ \A e \in heap' : mFutureTime[e] # NoTime
        /\ heap' \subseteq {NoTimer} \cup delegates
    BY <1>0, <2>1, <2>3 DEF References
  <2>5. armed' \in NoTime..MaxTime /\ polled' \in BOOLEAN
    BY <1>0, <2>1, <2>4, KernelUpdated
  <2>6. TimerTypes'
    BY <1>0, <2>1, <2>2, <2>4, <2>5 DEF TimerTypes, clients, taskVars
  <2>7. References' /\ TimersOwned' /\ TaskHolds'
    BY <1>0, <2>1, <2>2, <2>4 DEF References, TimersOwned, TaskHolds, clients, taskVars
  <2>8. SoonestTimerArmed'
    <3>1. SoonestTime(heap)' = SoonestTime(heap')
      BY <2>1 DEF SoonestTime, clients
    <3>2. SoonestTime(heap') # NoTime /\ SoonestTime(heap') \in Int
      BY <1>0, <2>1, <2>4, SoonestIsLeast, TimerAssumption
    <3>3. CASE heap = {}
      <4>1. polled' /\ armed' # NoTime /\ armed' <= SoonestTime(heap')
        BY <1>0, <2>1, <2>4, <3>3, SoonestIsLeast, KernelUpdated
      <4> QED
        BY <3>1, <4>1 DEF SoonestTimerArmed
    <3>4. CASE heap # {} /\ polled /\ armed # NoTime /\ armed <= SoonestTime(heap)
      <4>1. SoonestTime(heap) # NoTime /\ SoonestTime(heap) \in Int
            /\ SoonestTime(heap') <= SoonestTime(heap)
        BY <1>0, <2>1, <2>4, <3>4, SoonestIsLeast, FewerTimersNoSooner, TimerAssumption
      <4>2. armed \in Int
        BY <1>0, TimerAssumption DEF TimerTypes, NoTime
      <4>3. polled' /\ armed' # NoTime /\ armed' <= SoonestTime(heap')
        <5>1. CASE armed' = SoonestTime(heap') /\ polled' = TRUE
          BY <3>2, <5>1
        <5>2. CASE SoonestTime(heap') >= SoonestTime(heap) /\ UNCHANGED kernel
          BY <3>2, <3>4, <4>1, <4>2, <5>2 DEF kernel
        <5> QED
          BY <2>1, <3>2, <4>1, <5>1, <5>2 DEF UpdateSoonestTime
      <4> QED
        BY <3>1, <4>3 DEF SoonestTimerArmed
    <3>5. CASE poller # "waiting" \/ task # "idle" \/ ExpirationIn(timerQ)
      BY <2>1, <2>2, <3>5 DEF SoonestTimerArmed, ExpirationIn, taskVars
    <3> QED
      BY <1>0, <3>3, <3>4, <3>5 DEF SoonestTimerArmed, ExpirationIn
  <2> QED
    BY <2>2, <2>6, <2>7, <2>8 DEF TimerInv
<1>10. CASE TaskRemove
  <2>1. PICK d \in delegates : d = Head(timerQ).timer
    <3>1. TaskTakes("remove") /\ timerQ' = Tail(timerQ)
      BY <1>10 DEF TaskRemove
    <3> QED
      BY <1>8, <3>1 DEF RefersTo
  <2>2. /\ TaskTakes("remove") /\ timerQ' = Tail(timerQ) /\ heap' = heap \ {d}
        /\ delegates' = delegates \ {d}
        /\ UNCHANGED <<clock, mTimer, mClient, mFutureTime, poller, taskVars>>
        /\ \/ UpdateSoonestTime(NoTime, heap')
           \/ UNCHANGED kernel /\ ~(Soonest(heap) = {d})
    BY <1>10, <2>1 DEF TaskRemove, HeapLess
  <2>3. /\ taskTimer = NoTimer
        /\ timerQ' \in Seq(TimerMessage) /\ QueueInOrder'
        /\ \A i \in DOMAIN timerQ' : RefersTo(timerQ'[i], delegates)
        /\ \A e : RemovalIn(timerQ', e) => RemovalIn(timerQ, e)
        /\ RemovalIn(timerQ, d) /\ \A i \in DOMAIN timerQ' : timerQ'[i].timer # d
        /\ ExpirationIn(timerQ) => ExpirationIn(timerQ')
    BY <1>8, <2>1, <2>2
  <2>4. heap' \in SUBSET Delegate /\ \A e \in heap' : mFutureTime[e] # NoTime
    BY <1>0, <2>2
  <2>5. armed' \in NoTime..MaxTime /\ polled' \in BOOLEAN
    <3>1. CASE UpdateSoonestTime(NoTime, heap')
      BY <1>0, <2>4, <3>1, KernelUpdated
    <3>2. CASE UNCHANGED kernel
      BY <1>0, <3>2 DEF kernel, TimerTypes
    <3> QED
      BY <2>2, <3>1, <3>2
  <2>6. TimerTypes'
    BY <1>0, <2>2, <2>3, <2>4, <2>5 DEF TimerTypes, taskVars
  <2>7. \A i \in DOMAIN timerQ' : RefersTo(timerQ'[i], delegates')
    BY <2>2, <2>3 DEF RefersTo
  <2>8. References' /\ TaskHolds'
    BY <1>0, <2>2, <2>3, <2>7 DEF References, TaskHolds, taskVars
  <2>9. TimersOwned'
    BY <1>0, <2>2, <2>3 DEF TimersOwned
  <2>10. SoonestTimerArmed'
    <3>1. SoonestTime(heap)' = SoonestTime(heap')
      BY <2>2 DEF SoonestTime
    <3>2. CASE heap' # {} /\ UpdateSoonestTime(NoTime, heap')
      <4>1. polled' /\ armed' # NoTime /\ armed' <= SoonestTime(heap')
        BY <1>0, <2>4, <3>2, KernelUpdated
      <4> QED
        BY <3>1, <4>1 DEF SoonestTimerArmed
    <3>3. CASE heap' # {} /\ UNCHANGED kernel /\ polled /\ armed # NoTime
               /\ armed <= SoonestTime(heap)
      <4>1. heap' \in SUBSET heap /\ heap # {}
        BY <2>2, <3>3
      <4>2. SoonestTime(heap) \in Int /\ SoonestTime(heap') \in Int
            /\ SoonestTime(heap) <= SoonestTime(heap')
        BY <1>0, <2>4, <3>3, <4>1, SoonestIsLeast, FewerTimersNoSooner, TimerAssumption
      <4>3. armed \in Int
        BY <1>0, TimerAssumption DEF TimerTypes, NoTime
      <4> QED
        BY <3>1, <3>3, <4>2, <4>3 DEF SoonestTimerArmed, kernel
    <3>4. CASE heap' = {}
      BY <3>4 DEF SoonestTimerArmed
    <3>5. CASE poller # "waiting" \/ task # "idle" \/ ExpirationIn(timerQ)
      BY <2>2, <2>3, <3>5 DEF SoonestTimerArmed, ExpirationIn, taskVars
    <3>6. heap' # {} => heap # {}
      BY <2>2
    <3> QED
      BY <1>0, <2>2, <3>2, <3>3, <3>4, <3>5, <3>6 DEF SoonestTimerArmed, ExpirationIn
  <2> QED
    BY <2>3, <2>6, <2>8, <2>9, <2>10 DEF TimerInv
<1>11. CASE TaskExpire
  <2>1. /\ TaskTakes("expire") /\ timerQ' = Tail(timerQ) /\ taskNow' = clock
        /\ UNCHANGED <<clock, clients, kernel, poller, taskClient>>
        /\ \/ heap = {} /\ UNCHANGED <<heap, task, taskTimer>>
           \/ \E d \in heap : Pop(d)
    BY <1>11 DEF TaskExpire, Soonest
  <2>2. /\ task = "idle" /\ taskTimer = NoTimer
        /\ timerQ' \in Seq(TimerMessage) /\ QueueInOrder'
        /\ \A i \in DOMAIN timerQ' : RefersTo(timerQ'[i], delegates)
        /\ \A e : RemovalIn(timerQ', e) => RemovalIn(timerQ, e)
    BY <1>8, <2>1
  <2>3. /\ heap' \subseteq heap /\ taskTimer' \in {NoTimer} \cup heap
        /\ task' \in {"idle", "popped"} /\ (task' = "idle") = (taskTimer' = NoTimer)
        /\ task' = "idle" => heap' = {}
    BY <1>0, <2>1, <2>2 DEF Pop
  <2>4. taskNow' \in Nat
    BY <1>0, <2>1, TimerAssumption DEF TimerTypes
  <2>5. TimerTypes'
    BY <1>0, <2>1, <2>2, <2>3, <2>4 DEF TimerTypes, clients, kernel
  <2>6. References' /\ TimersOwned' /\ TaskHolds'
    BY <1>0, <2>1, <2>2, <2>3 DEF References, TimersOwned, TaskHolds, clients
  <2>7. SoonestTimerArmed'
    BY <2>3 DEF SoonestTimerArmed
  <2> QED
    BY <2>2, <2>5, <2>6, <2>7 DEF TimerInv
<1>12. CASE TaskReadsClient
  <2>1. /\ task = "popped" /\ taskTimer \in Delegate
        /\ taskClient' = mClient[taskTimer] /\ taskClient' \in {NoClient} \cup TimerClient
        /\ UNCHANGED <<clock, clients, timerQ, poller, taskNow>>
    BY <1>0, <1>12 DEF TaskReadsClient, TimerTypes, TaskHolds
  <2>2. CASE mClient[taskTimer] = NoClient /\ PopNext
    <3>1. /\ heap' \subseteq heap /\ taskTimer' \in {NoTimer} \cup heap
          /\ task' \in {"idle", "popped"} /\ (task' = "idle") = (taskTimer' = NoTimer)
          /\ armed' \in NoTime..MaxTime /\ polled' \in BOOLEAN
          /\ task' = "idle" /\ heap' # {} =>
               polled' /\ armed' # NoTime /\ armed' <= SoonestTime(heap')
      BY <2>2, NextPopped
    <3>2. TimerTypes'
      BY <1>0, <2>1, <3>1 DEF TimerTypes, clients
    <3>3. SoonestTime(heap)' = SoonestTime(heap')
      BY <2>1 DEF SoonestTime, clients
    <3>4. TaskHolds' /\ SoonestTimerArmed'
      BY <3>1, <3>3 DEF TaskHolds, SoonestTimerArmed
    <3> QED
      BY <2>1, <3>1, <3>2, <3>4, ReferencesStay DEF TimerInv
  <2>3. CASE mClient[taskTimer] # NoClient /\ task' = "stopping"
             /\ UNCHANGED <<taskTimer, heap, kernel>>
    <3>1. TimerTypes'
      BY <1>0, <2>1, <2>3 DEF TimerTypes, clients, kernel
    <3>2. TaskHolds' /\ SoonestTimerArmed'
      BY <1>0, <2>1, <2>3 DEF TaskHolds, SoonestTimerArmed
    <3> QED
      BY <2>1, <2>3, <3>1, <3>2, ReferencesStay DEF TimerInv
  <2> QED
    BY <1>12, <2>2, <2>3 DEF TaskReadsClient
<1>13. CASE TaskCallsBack
  <2>1. /\ taskClient \in TimerClient /\ PopNext /\ taskClient' = NoClient
        /\ UNCHANGED <<clock, poller, taskNow, delegates, mFutureTime>>
    BY <1>0, <1>13 DEF TaskCallsBack, TaskHolds, EndTimer, clients
  <2>2. /\ heap' \subseteq heap /\ taskTimer' \in {NoTimer} \cup heap
        /\ task' \in {"idle", "popped"} /\ (task' = "idle") = (taskTimer' = NoTimer)
        /\ armed' \in NoTime..MaxTime /\ polled' \in BOOLEAN
        /\ task' = "idle" /\ heap' # {} =>
             polled' /\ armed' # NoTime /\ armed' <= SoonestTime(heap')
    BY <2>1, NextPopped
  <2>3. /\ mTimer' \in [TimerClient -> {NoTimer} \cup Delegate]
        /\ mClient' \in [Delegate -> {NoClient} \cup TimerClient]
        /\ timerQ' \in Seq(TimerMessage) /\ QueueInOrder' /\ TimersOwned'
        /\ \A i \in DOMAIN timerQ' : RefersTo(timerQ'[i], delegates)
    <3>1. CASE mTimer[taskClient] # NoTimer /\ EndTimer(taskClient)
      BY <2>1, <3>1, TimerEnded
    <3>2. CASE UNCHANGED <<clients, timerQ>>
      BY <1>0, <3>2 DEF TimerTypes, QueueInOrder, TimersOwned, clients
    <3> QED
      BY <1>13, <3>1, <3>2 DEF TaskCallsBack
  <2>4. TimerTypes'
    BY <1>0, <2>1, <2>2, <2>3 DEF TimerTypes
  <2>5. References'
    BY <1>0, <2>1, <2>2, <2>3 DEF References
  <2>6. SoonestTime(heap)' = SoonestTime(heap')
    BY <2>1 DEF SoonestTime
  <2>7. TaskHolds' /\ SoonestTimerArmed'
    BY <2>2, <2>6 DEF TaskHolds, SoonestTimerArmed
  <2> QED
    BY <2>3, <2>4, <2>5, <2>7 DEF TimerInv
<1> QED
  BY <1>2, <1>3, <1>4, <1>5, <1>6, <1>7, <1>9, <1>10, <1>11, <1>12, <1>13
     DEF TimerNext, PollerStep, TaskStep
-----------------------------------------------------------------------------
\* The state keeps its types (gps/utils/LocTimer.cpp).
THEOREM TimerTypeCorrect == TimerSpec => []TimerTypeOK
<1>1. TimerInv => TimerTypeOK
  BY DEF TimerInv, TimerTypes, TimerTypeOK
<1> QED
  BY TimerInitInv, TimerStepInv, <1>1, PTL DEF TimerSpec

\* For any number of clients and timers, nobody refers to a delegate that has
\* been deleted, and none is deleted twice (LocTimerDelegate::destroyLocked and
\* LocTimerContainer, gps/utils/LocTimer.cpp).
THEOREM NoneDangles == TimerSpec => []NoDanglingDelegate
<1>1. TimerInv => NoDanglingDelegate
  <2> SUFFICES ASSUME TimerInv PROVE NoDanglingDelegate
    OBVIOUS
  <2>1. \A i \in DOMAIN timerQ : timerQ[i].timer \in {NoTimer} \cup delegates
    BY DEF TimerInv, References, RefersTo
  <2>2. \A c \in TimerClient : mTimer[c] \in {NoTimer} \cup delegates
    BY DEF TimerInv, TimersOwned
  <2>3. DOMAIN timerQ \subseteq Int
    BY DEF TimerInv, TimerTypes
  <2>4. \A i, j \in DOMAIN timerQ : timerQ[i] = timerQ[j] /\ timerQ[i].what = "remove" => i = j
    BY <2>3 DEF TimerInv, QueueInOrder, RemovalLast
  <2> QED
    BY <2>1, <2>2, <2>4 DEF TimerInv, References, NoDanglingDelegate
<1> QED
  BY TimerInitInv, TimerStepInv, <1>1, PTL DEF TimerSpec

\* For any number of timers, delays and races of the polling thread with the
\* task, the kernel is set for the soonest timer or an expiration that will set
\* it is on its way (updateSoonestTime and expire, gps/utils/LocTimer.cpp).
THEOREM SoonestAlwaysArmed == TimerSpec => []SoonestTimerArmed
<1>1. TimerInv => SoonestTimerArmed
  BY DEF TimerInv
<1> QED
  BY TimerInitInv, TimerStepInv, <1>1, PTL DEF TimerSpec

(***************************************************************************)
(* The log in memory                                                       *)
(***************************************************************************)
LogSpec == LogInit /\ [][LogNext]_logVars

\* Each node is in the list once.
OnceInList == \A i, j \in DOMAIN mMainList : mMainList[i] = mMainList[j] => i = j

\* A level is over its bound only while a line of it is being appended.
Bounded ==
  /\ \A a, b \in trimming : a = b
  /\ \A l \in LogLevel :
       mCurrentSize[l] <= MaxNumThres \/ \E line \in trimming : line.level = l

\* What LogLevelsThreaded says of level l
Threaded(l) ==
  /\ FirstOf(mHeadVec[l], Mine(l))
  /\ \A n \in Mine(l) : FirstOf(logNode[n].next, {m \in Mine(l) : Precedes(n, m)})
  /\ IF Mine(l) = {} THEN mTailVec[l] = EndNode
     ELSE mTailVec[l] \in Mine(l) /\ logNode[mTailVec[l]].next = EndNode
  /\ mCurrentSize[l] = Cardinality(Mine(l))

\* The line that is being appended is the last of its level, if one may stay.
LastIsNew ==
  MaxNumThres # 0 => \A line \in trimming :
    Mine(line.level) # {} /\ logNode[mTailVec[line.level]].time = line.time

LogInv ==
  LogTypeOK /\ OnceInList /\ Bounded /\ LastIsNew /\ \A l \in LogLevel : Threaded(l)

\* The nodes of the list are ordered by their places.
LEMMA ListOrder ==
  ASSUME mMainList \in Seq(LogNode), OnceInList
  PROVE  /\ ToSet(mMainList) \subseteq LogNode
         /\ \A m \in ToSet(mMainList) : ~Precedes(m, m)
         /\ \A m, n \in ToSet(mMainList) : m # n => Precedes(m, n) \/ Precedes(n, m)
         /\ \A m, n : Precedes(m, n) => /\ ~Precedes(n, m)
                                        /\ m \in ToSet(mMainList) /\ n \in ToSet(mMainList)
<1>1. PICK q : q = mMainList
  OBVIOUS
<1>2. q \in Seq(LogNode) /\ DOMAIN q = 1..Len(q) /\ Len(q) \in Nat
      /\ \A i, j \in DOMAIN q : q[i] = q[j] => i = j
  BY <1>1 DEF OnceInList
<1>3. \A m, n : Precedes(m, n) <=> \E i, j \in DOMAIN q : i < j /\ q[i] = m /\ q[j] = n
  BY <1>1 DEF Precedes
<1>4. \A n : n \in ToSet(mMainList) <=> \E i \in DOMAIN q : q[i] = n
  BY <1>1 DEF ToSet
<1>5. ToSet(mMainList) \subseteq LogNode
  BY <1>2, <1>4
<1>6. \A m : ~Precedes(m, m)
  BY <1>2, <1>3
<1>7. \A m, n \in ToSet(mMainList) : m # n => Precedes(m, n) \/ Precedes(n, m)
  BY <1>2, <1>3, <1>4
<1>8. \A m, n : Precedes(m, n) => /\ ~Precedes(n, m)
                                  /\ m \in ToSet(mMainList) /\ n \in ToSet(mMainList)
  BY <1>2, <1>3, <1>4
<1> QED
  BY <1>5, <1>6, <1>7, <1>8

\* A node that is put at the end comes after all the others.
LEMMA OrderAppended ==
  ASSUME mMainList \in Seq(LogNode), OnceInList,
         NEW n \in LogNode, n \notin ToSet(mMainList), mMainList' = Append(mMainList, n)
  PROVE  /\ mMainList' \in Seq(LogNode) /\ OnceInList'
         /\ ToSet(mMainList)' = ToSet(mMainList) \cup {n}
         /\ \A a, b : Precedes(a, b)' <=> Precedes(a, b) \/ (a \in ToSet(mMainList) /\ b = n)
<1>1. PICK q, r : q = mMainList /\ r = mMainList'
  OBVIOUS
<1>2. /\ q \in Seq(LogNode) /\ r \in Seq(LogNode) /\ DOMAIN q = 1..Len(q) /\ Len(q) \in Nat
      /\ DOMAIN r = 1..(Len(q) + 1) /\ r[Len(q) + 1] = n /\ \A i \in 1..Len(q) : r[i] = q[i]
  BY <1>1, PostMessage
<1>3. (\A i, j \in DOMAIN q : q[i] = q[j] => i = j) /\ \A i \in DOMAIN q : q[i] # n
  BY <1>1 DEF OnceInList, ToSet
<1>4. \A i \in DOMAIN r : i \in DOMAIN q \/ i = Len(q) + 1
  BY <1>2
<1>5. \A i, j \in DOMAIN r : r[i] = r[j] => i = j
  BY <1>2, <1>3, <1>4
<1>6. ASSUME NEW b
      PROVE  (\E i \in DOMAIN r : r[i] = b) <=> (\E i \in DOMAIN q : q[i] = b) \/ b = n
  <2>1. ASSUME NEW i \in DOMAIN r, r[i] = b PROVE (\E x \in DOMAIN q : q[x] = b) \/ b = n
    BY <1>2, <1>4, <2>1
  <2>2. ASSUME NEW i \in DOMAIN q, q[i] = b PROVE \E x \in DOMAIN r : r[x] = b
    <3>1. i \in DOMAIN r /\ r[i] = b
      BY <1>2, <2>2
    <3> QED
      BY <3>1
  <2>3. Len(q) + 1 \in DOMAIN r /\ r[Len(q) + 1] = n
    BY <1>2
  <2> QED
    BY <2>1, <2>2, <2>3
<1>7. ASSUME NEW a, NEW b
      PROVE  (\E i, j \in DOMAIN r : i < j /\ r[i] = a /\ r[j] = b)
               <=> \/ \E i, j \in DOMAIN q : i < j /\ q[i] = a /\ q[j] = b
                   \/ (\E i \in DOMAIN q : q[i] = a) /\ b = n
  <2>1. ASSUME NEW i \in DOMAIN r, NEW j \in DOMAIN r, i < j, r[i] = a, r[j] = b
        PROVE  \/ \E x, y \in DOMAIN q : x < y /\ q[x] = a /\ q[y] = b
               \/ (\E x \in DOMAIN q : q[x] = a) /\ b = n
    <3>1. i \in DOMAIN q /\ (j \in DOMAIN q \/ j = Len(q) + 1)
      BY <1>2, <1>4, <2>1
    <3> QED
      BY <1>2, <2>1, <3>1
  <2>2. ASSUME NEW i \in DOMAIN q, NEW j \in DOMAIN q, i < j, q[i] = a, q[j] = b
        PROVE  \E x, y \in DOMAIN r : x < y /\ r[x] = a /\ r[y] = b
    <3>1. i \in DOMAIN r /\ j \in DOMAIN r /\ r[i] = a /\ r[j] = b
      BY <1>2, <2>2
    <3> QED
      BY <2>2, <3>1
  <2>3. ASSUME NEW i \in DOMAIN q, q[i] = a, b = n
        PROVE  \E x, y \in DOMAIN r : x < y /\ r[x] = a /\ r[y] = b
    <3>1. i \in DOMAIN r /\ Len(q) + 1 \in DOMAIN r /\ i < Len(q) + 1 /\ r[i] = a
      BY <1>2, <2>3
    <3> QED
      BY <1>2, <2>3, <3>1
  <2> QED
    BY <2>1, <2>2, <2>3
<1>8. OnceInList'
  BY <1>1, <1>5 DEF OnceInList
<1>9. \A b : /\ b \in ToSet(mMainList) <=> \E i \in DOMAIN q : q[i] = b
             /\ b \in ToSet(mMainList)' <=> \E i \in DOMAIN r : r[i] = b
  BY <1>1 DEF ToSet
<1>10. ToSet(mMainList)' = ToSet(mMainList) \cup {n}
  BY <1>6, <1>9
<1>11. ASSUME NEW a, NEW b
       PROVE  Precedes(a, b)' <=> Precedes(a, b) \/ (a \in ToSet(mMainList) /\ b = n)
  <2>1. /\ Precedes(a, b) <=> \E i, j \in DOMAIN q : i < j /\ q[i] = a /\ q[j] = b
        /\ Precedes(a, b)' <=> \E i, j \in DOMAIN r : i < j /\ r[i] = a /\ r[j] = b
    BY <1>1 DEF Precedes
  <2>2. a \in ToSet(mMainList) <=> \E i \in DOMAIN q : q[i] = a
    BY <1>9
  <2>3. (\E i, j \in DOMAIN r : i < j /\ r[i] = a /\ r[j] = b)
          <=> \/ \E i, j \in DOMAIN q : i < j /\ q[i] = a /\ q[j] = b
              \/ (\E i \in DOMAIN q : q[i] = a) /\ b = n
    BY <1>7
  <2> QED
    BY <2>1, <2>2, <2>3
<1> QED
  BY <1>1, <1>2, <1>8, <1>10, <1>11

\* A node that is taken out leaves the order of the others.
LEMMA OrderErased ==
  ASSUME mMainList \in Seq(LogNode), OnceInList, NEW n,
         NEW k \in DOMAIN mMainList, mMainList[k] = n, mMainList' = RemoveAt(mMainList, k)
  PROVE  /\ mMainList' \in Seq(LogNode) /\ OnceInList'
         /\ ToSet(mMainList)' = ToSet(mMainList) \ {n}
         /\ \A a, b : Precedes(a, b)' <=> Precedes(a, b) /\ a # n /\ b # n
<1>1. PICK q, r : q = mMainList /\ r = mMainList'
  OBVIOUS
<1>2. /\ q \in Seq(LogNode) /\ DOMAIN q = 1..Len(q) /\ Len(q) \in Nat
      /\ k \in 1..Len(q) /\ q[k] = n /\ \A i, j \in DOMAIN q : q[i] = q[j] => i = j
  BY <1>1 DEF OnceInList
<1>3. /\ r \in Seq(LogNode) /\ Len(r) = Len(q) - 1
      /\ \A j \in 1..Len(r) : r[j] = IF j < k THEN q[j] ELSE q[j + 1]
  <2>1. r = SubSeq(q, 1, k - 1) \o SubSeq(q, k + 1, Len(q))
    BY <1>1 DEF RemoveAt
  <2>2. k \in 1 .. Len(q) /\ q \in Seq(LogNode)
    BY <1>2
  <2> QED
    BY <2>1, <2>2, LeavesOut
<1>4. DOMAIN r = 1..(Len(q) - 1)
  BY <1>3
\* where the node at place j of the new list was, and where that at place j goes
<1> DEFINE old(j) == IF j < k THEN j ELSE j + 1
           new(j) == IF j < k THEN j ELSE j - 1
<1>5. ASSUME NEW j \in DOMAIN r PROVE old(j) \in DOMAIN q /\ old(j) # k /\ r[j] = q[old(j)]
  BY <1>2, <1>3, <1>4
<1>6. ASSUME NEW j \in DOMAIN q, j # k PROVE new(j) \in DOMAIN r /\ old(new(j)) = j
  BY <1>2, <1>4, <1>6
<1>7. /\ \A i, j \in DOMAIN r : i < j <=> old(i) < old(j)
      /\ \A i, j \in DOMAIN r : old(i) = old(j) => i = j
  BY <1>2, <1>4
<1> HIDE DEF old, new
<1>8. \A i, j \in DOMAIN r : r[i] = r[j] => i = j
  BY <1>2, <1>5, <1>7
<1>9. \A b : (\E i \in DOMAIN r : r[i] = b) <=> (\E i \in DOMAIN q : q[i] = b) /\ b # n
  BY <1>2, <1>5, <1>6
<1>10. ASSUME NEW a, NEW b
       PROVE  (\E i, j \in DOMAIN r : i < j /\ r[i] = a /\ r[j] = b)
                <=> (\E i, j \in DOMAIN q : i < j /\ q[i] = a /\ q[j] = b) /\ a # n /\ b # n
  <2>1. ASSUME NEW i \in DOMAIN r, NEW j \in DOMAIN r, i < j, r[i] = a, r[j] = b
        PROVE  (\E x, y \in DOMAIN q : x < y /\ q[x] = a /\ q[y] = b) /\ a # n /\ b # n
    BY <1>2, <1>5, <1>7, <2>1
  <2>2. ASSUME NEW i \in DOMAIN q, NEW j \in DOMAIN q, i < j, q[i] = a, q[j] = b, a # n, b # n
        PROVE  \E x, y \in DOMAIN r : x < y /\ r[x] = a /\ r[y] = b
    <3>1. i # k /\ j # k
      BY <1>2, <2>2
    <3>2. PICK x, y : x = new(i) /\ y = new(j)
      OBVIOUS
    <3>3. /\ x \in DOMAIN r /\ y \in DOMAIN r /\ old(x) = i /\ old(y) = j
      BY <1>6, <3>1, <3>2
    <3>4. x < y /\ r[x] = a /\ r[y] = b
      BY <1>5, <1>7, <2>2, <3>3
    <3> QED
      BY <3>3, <3>4
  <2> QED
    BY <2>1, <2>2
<1>11. OnceInList'
  BY <1>1, <1>8 DEF OnceInList
<1>12. \A b : /\ b \in ToSet(mMainList) <=> \E i \in DOMAIN q : q[i] = b
              /\ b \in ToSet(mMainList)' <=> \E i \in DOMAIN r : r[i] = b
  BY <1>1 DEF ToSet
<1>13. ToSet(mMainList)' = ToSet(mMainList) \ {n}
  BY <1>9, <1>12
<1>14. ASSUME NEW a, NEW b
       PROVE  Precedes(a, b)' <=> Precedes(a, b) /\ a # n /\ b # n
  <2>1. /\ Precedes(a, b) <=> \E i, j \in DOMAIN q : i < j /\ q[i] = a /\ q[j] = b
        /\ Precedes(a, b)' <=> \E i, j \in DOMAIN r : i < j /\ r[i] = a /\ r[j] = b
    BY <1>1 DEF Precedes
  <2> QED
    BY <1>10, <2>1
<1> QED
  BY <1>1, <1>3, <1>11, <1>13, <1>14

\* The lines of a level are nodes, and finitely many.
LEMMA MineNodes ==
  ASSUME LogTypeOK, NEW l \in LogLevel
  PROVE  /\ Mine(l) \subseteq LogNode /\ EndNode \notin Mine(l)
         /\ IsFiniteSet(Mine(l)) /\ Cardinality(Mine(l)) \in Nat
<1>1. ToSet(mMainList) \subseteq LogNode
  BY DEF LogTypeOK, ToSet
<1>2. Mine(l) \subseteq LogNode
  BY <1>1 DEF Mine
<1>3. PICK p \in Nat : LogNode = 1..p
  <2>1. MaxNumThres \in Nat /\ Cardinality(LogLevel) \in Nat
    BY LogAssumption, FS_CardinalityType
  <2>2. MaxNumThres * Cardinality(LogLevel) + 1 \in Nat
    BY <2>1
  <2> QED
    BY <2>2 DEF LogNode
<1>4. IsFiniteSet(LogNode)
  BY <1>3, FS_Interval
<1>5. IsFiniteSet(Mine(l))
  BY <1>2, <1>4, FS_Subset
<1> QED
  BY <1>2, <1>3, <1>5, FS_CardinalityType DEF EndNode

\* There is a free node while no line is being appended: the lines of each level
\* are at most MaxNumThres.
LEMMA NodeIsFree ==
  ASSUME LogInv, trimming = {}
  PROVE  \E n \in LogNode : n \notin ToSet(mMainList)
<1> DEFINE N == ToSet(mMainList)
           Room == LogLevel \X (1..MaxNumThres)
<1>1. MaxNumThres \in Nat /\ IsFiniteSet(LogLevel) /\ Cardinality(LogLevel) \in Nat
  BY LogAssumption, FS_CardinalityType
<1>2. IsFiniteSet(1..MaxNumThres) /\ Cardinality(1..MaxNumThres) = MaxNumThres
  <2>1. CASE MaxNumThres = 0
    <3>1. 1..MaxNumThres = {}
      BY <2>1
    <3> QED
      BY <2>1, <3>1, FS_EmptySet
  <2>2. CASE MaxNumThres # 0
    <3>1. PICK c \in Nat : c = MaxNumThres /\ c # 0
      BY <1>1, <2>2
    <3>2. IsFiniteSet(1..c) /\ Cardinality(1..c) = c
      <4>1. 1 \in Int /\ c \in Int /\ ~(1 > c) /\ c - 1 + 1 = c
        BY <3>1
      <4> QED
        BY <4>1, FS_Interval
    <3> QED
      BY <3>1, <3>2
  <2> QED
    BY <2>1, <2>2
<1>3. IsFiniteSet(Room) /\ Cardinality(Room) = Cardinality(LogLevel) * MaxNumThres
  <2>1. PICK T : T = 1..MaxNumThres
    OBVIOUS
  <2>2. IsFiniteSet(LogLevel \X T) /\ Cardinality(LogLevel \X T) = Cardinality(LogLevel) * Cardinality(T)
    BY <1>1, <1>2, <2>1, FS_Product
  <2> QED
    BY <1>2, <2>1, <2>2
<1>4. ASSUME NEW l \in LogLevel
      PROVE  \E f \in [Mine(l) -> 1..MaxNumThres] : \A a, b \in Mine(l) : f[a] = f[b] => a = b
  <2>1. IsFiniteSet(Mine(l)) /\ Cardinality(Mine(l)) \in Nat
    BY MineNodes DEF LogInv
  <2>2. mCurrentSize[l] = Cardinality(Mine(l)) /\ mCurrentSize[l] <= MaxNumThres
    BY DEF LogInv, Threaded, Bounded
  <2>3. PICK c \in Nat : c = Cardinality(Mine(l)) /\ c <= MaxNumThres
    BY <2>1, <2>2
  <2>4. ExistsBijection(1..c, Mine(l))
    BY <2>1, <2>3, FS_CardinalityType
  <2>5. PICK g \in Bijection(1..c, Mine(l)) : TRUE
    BY <2>4 DEF ExistsBijection
  <2>6. /\ g \in [1..c -> Mine(l)] /\ \A n \in Mine(l) : \E x \in 1..c : g[x] = n
    BY <2>5 DEF Bijection, Injection, Surjection
  <2> DEFINE f == [n \in Mine(l) |-> CHOOSE x \in 1..c : g[x] = n]
  <2>7. \A n \in Mine(l) : f[n] \in 1..c /\ g[f[n]] = n
    BY <2>6
  <2>8. \A n \in Mine(l) : f[n] \in 1..MaxNumThres
    BY <1>1, <2>3, <2>7
  <2>9. f \in [Mine(l) -> 1..MaxNumThres]
    BY <2>8
  <2> HIDE DEF f
  <2>10. \A x, y \in Mine(l) : f[x] = f[y] => x = y
    BY <2>7
  <2> QED
    BY <2>9, <2>10
<1> DEFINE at(l) == CHOOSE f \in [Mine(l) -> 1..MaxNumThres] :
                      \A a, b \in Mine(l) : f[a] = f[b] => a = b
           h == [n \in N |-> <<logNode[n].level, at(logNode[n].level)[n]>>]
<1>5. \A l \in LogLevel : /\ at(l) \in [Mine(l) -> 1..MaxNumThres]
                          /\ \A a, b \in Mine(l) : at(l)[a] = at(l)[b] => a = b
  BY <1>4
<1> HIDE DEF at
<1>6. \A n \in N : n \in LogNode /\ logNode[n].level \in LogLevel /\ n \in Mine(logNode[n].level)
  BY DEF LogInv, LogTypeOK, ToSet, Mine
<1>7. h \in [N -> Room]
  BY <1>5, <1>6
<1>8. \A a, b \in N : h[a] = h[b] => a = b
  <2> SUFFICES ASSUME NEW a \in N, NEW b \in N, h[a] = h[b] PROVE a = b
    OBVIOUS
  <2>1. logNode[a].level = logNode[b].level
        /\ at(logNode[a].level)[a] = at(logNode[b].level)[b]
    OBVIOUS
  <2> QED
    BY <1>5, <1>6, <2>1
<1>9. h \in Injection(N, Room)
  BY <1>7, <1>8 DEF Injection, IsInjective
<1> HIDE DEF h, Room
<1>10. Cardinality(N) <= Cardinality(Room) /\ IsFiniteSet(N)
  BY <1>3, <1>9, FS_Injection
<1>11. N # LogNode
  <2>1. PICK p \in Nat : p = MaxNumThres * Cardinality(LogLevel)
    BY <1>1
  <2>2. Cardinality(LogLevel) * MaxNumThres = MaxNumThres * Cardinality(LogLevel)
    BY <1>1
  <2>3. Cardinality(Room) = p /\ LogNode = 1..(p + 1)
    BY <1>3, <2>1, <2>2 DEF LogNode
  <2>4. Cardinality(1..(p + 1)) = p + 1
    BY FS_Interval
  <2>5. Cardinality(N) <= p
    BY <1>10, <2>3
  <2> QED
    BY <2>3, <2>4, <2>5
<1>12. N \subseteq LogNode
  BY <1>6
<1> QED
  BY <1>11, <1>12

\* A level whose lines, links and order stay is still threaded.
LEMMA StillThreaded ==
  ASSUME NEW l, Threaded(l), Mine(l)' = Mine(l),
         mHeadVec'[l] = mHeadVec[l], mTailVec'[l] = mTailVec[l],
         mCurrentSize'[l] = mCurrentSize[l],
         \A n \in Mine(l) : logNode'[n].next = logNode[n].next,
         \A m, n \in Mine(l) : Precedes(m, n)' <=> Precedes(m, n)
  PROVE  Threaded(l)'
<1>1. PICK L : L = Mine(l) /\ L = Mine(l)'
  OBVIOUS
<1>2. FirstOf(mHeadVec[l], Mine(l))'
  BY <1>1 DEF Threaded, FirstOf
<1>3. ASSUME NEW n \in Mine(l)'
      PROVE  FirstOf(logNode[n].next, {m \in Mine(l) : Precedes(n, m)})'
  <2>1. PICK S : S = {m \in L : Precedes(n, m)} /\ S \subseteq L
    OBVIOUS
  <2>2. S = {m \in Mine(l)' : Precedes(n, m)'}
    BY <1>1, <1>3, <2>1
  <2>3. FirstOf(logNode[n].next, S)
    BY <1>1, <1>3, <2>1 DEF Threaded
  <2>4. PICK x : x = logNode[n].next /\ x = logNode'[n].next
    BY <1>1, <1>3
  <2>5. IF S = {} THEN x = EndNode ELSE x \in S /\ \A m \in S \ {x} : Precedes(x, m)'
    BY <1>1, <2>1, <2>3, <2>4 DEF FirstOf
  <2> QED
    BY <2>2, <2>4, <2>5 DEF FirstOf
<1>4. IF Mine(l)' = {} THEN mTailVec'[l] = EndNode
      ELSE mTailVec'[l] \in Mine(l)' /\ logNode'[mTailVec'[l]].next = EndNode
  BY <1>1 DEF Threaded
<1> QED
  BY <1>1, <1>2, <1>3, <1>4 DEF Threaded

\* Nothing comes after the last line of a level, and all its others come before.
LEMMA LastLine ==
  ASSUME LogTypeOK, OnceInList, NEW l \in LogLevel, Threaded(l), Mine(l) # {}
  PROVE  LET last == mTailVec[l] IN
         /\ last \in Mine(l) /\ \A m \in Mine(l) : ~Precedes(last, m)
         /\ \A m \in Mine(l) : m # last => Precedes(m, last)
<1>1. PICK last : last = mTailVec[l]
  OBVIOUS
<1>2. last \in Mine(l) /\ logNode[last].next = EndNode
  BY <1>1 DEF Threaded
<1>3. PICK S : S = {m \in Mine(l) : Precedes(last, m)}
  OBVIOUS
<1>4. FirstOf(EndNode, S)
  BY <1>2, <1>3 DEF Threaded
<1>5. EndNode \notin S
  BY <1>3, MineNodes
<1>6. S = {}
  BY <1>4, <1>5 DEF FirstOf
<1>7. Mine(l) \subseteq ToSet(mMainList)
  BY DEF Mine
<1>8. \A m \in Mine(l) : m # last => Precedes(m, last)
  BY <1>2, <1>3, <1>6, <1>7, ListOrder DEF LogTypeOK
<1> QED
  BY <1>1, <1>2, <1>3, <1>6, <1>8

\* The invariant has what LogLevelsThreaded says, and the bound.
LEMMA LogInvThreaded == LogInv => LogLevelsThreaded
<1> SUFFICES ASSUME LogInv, NEW l \in LogLevel
             PROVE  /\ trimming = {} => mCurrentSize[l] <= MaxNumThres
                    /\ MaxNumThres # 0 => \A line \in trimming :
                         line.level = l =>
                           Mine(l) # {} /\ logNode[mTailVec[l]].time = line.time
  BY DEF LogInv, LogLevelsThreaded, Threaded
<1> QED
  BY DEF LogInv, Bounded, LastIsNew

\* An empty log satisfies the invariant.
LEMMA LogInitInv == LogInit => LogInv
<1> SUFFICES ASSUME LogInit PROVE LogInv
  OBVIOUS
<1>1. mMainList = <<>> /\ trimming = {}
  BY DEF LogInit
<1>2. ASSUME NEW l \in LogLevel
      PROVE  Mine(l) = {} /\ Threaded(l) /\ mCurrentSize[l] = 0
  <2>1. Mine(l) = {}
    BY <1>1 DEF Mine, ToSet
  <2>2. mHeadVec[l] = EndNode /\ mTailVec[l] = EndNode /\ mCurrentSize[l] = 0
    BY DEF LogInit
  <2>3. Cardinality({}) = 0
    BY FS_EmptySet
  <2> QED
    BY <2>1, <2>2, <2>3 DEF Threaded, FirstOf
<1>3. LogTypeOK
  <2>1. (CHOOSE l \in LogLevel : TRUE) \in LogLevel
    BY LogAssumption
  <2>2. Erased \in [level : LogLevel, time : {0} \cup LogTime, next : {EndNode} \cup LogNode]
    BY <2>1 DEF Erased
  <2>3. <<>> \in Seq(LogNode)
    OBVIOUS
  <2> QED
    BY <2>2, <2>3 DEF LogInit, LogTypeOK
<1>4. OnceInList
  BY <1>1 DEF OnceInList
<1>5. Bounded
  BY <1>1, <1>2, LogAssumption DEF Bounded
<1>6. LastIsNew
  BY <1>1 DEF LastIsNew
<1> QED
  BY <1>2, <1>3, <1>4, <1>5, <1>6 DEF LogInv

\* The new line comes last of its level, behind the tail if there is one.
LEMMA LogAppendInv ==
  ASSUME LogInv, NEW l \in LogLevel, NEW t \in LogTime, LogAppend(l, t)
  PROVE  LogInv'
<1>1. LogTypeOK /\ OnceInList /\ Bounded /\ \A k \in LogLevel : Threaded(k)
  BY DEF LogInv
<1>2. trimming = {} /\ trimming' = {[level |-> l, time |-> t]}
  BY DEF LogAppend
<1>3. PICK n : n = CHOOSE x \in LogNode : x \notin ToSet(mMainList)
  OBVIOUS
<1>4. n \in LogNode /\ n \notin ToSet(mMainList)
  BY <1>2, <1>3, NodeIsFree
<1>5. PICK old : old = IF mHeadVec[l] = EndNode THEN EndNode ELSE mTailVec[l]
  OBVIOUS
<1>6. PICK line : line = [level |-> l, time |-> t, next |-> EndNode]
  OBVIOUS
<1>7. /\ mMainList' = Append(mMainList, n)
      /\ logNode' = Linked([logNode EXCEPT ![n] = line], old, n)
      /\ mHeadVec' = IF old = EndNode THEN [mHeadVec EXCEPT ![l] = n] ELSE mHeadVec
      /\ mTailVec' = [mTailVec EXCEPT ![l] = n]
      /\ mCurrentSize' = [mCurrentSize EXCEPT ![l] = @ + 1]
  BY <1>3, <1>5, <1>6 DEF LogAppend
<1>8. mMainList \in Seq(LogNode)
  BY <1>1 DEF LogTypeOK
<1>9. /\ mMainList' \in Seq(LogNode) /\ OnceInList'
      /\ ToSet(mMainList)' = ToSet(mMainList) \cup {n}
      /\ \A a, b : Precedes(a, b)' <=> Precedes(a, b) \/ (a \in ToSet(mMainList) /\ b = n)
  BY <1>1, <1>4, <1>7, <1>8, OrderAppended
<1>10. /\ \A k \in LogLevel : Mine(k) \subseteq LogNode /\ EndNode \notin Mine(k)
                              /\ IsFiniteSet(Mine(k)) /\ Cardinality(Mine(k)) \in Nat
       /\ \A k \in LogLevel : Mine(k) \subseteq ToSet(mMainList)
       /\ \A a, b : Precedes(a, b) => a \in ToSet(mMainList) /\ b \in ToSet(mMainList)
  <2>1. \A a, b : Precedes(a, b) => a \in ToSet(mMainList) /\ b \in ToSet(mMainList)
    BY <1>1, <1>8, ListOrder
  <2> QED
    BY <1>1, <2>1, MineNodes DEF Mine
\* the level is empty, or its last line is old
<1>11. \/ old = EndNode /\ Mine(l) = {}
       \/ old = mTailVec[l] /\ old \in Mine(l) /\ mHeadVec[l] \in Mine(l)
  <2>1. FirstOf(mHeadVec[l], Mine(l))
    BY <1>1 DEF Threaded
  <2>2. CASE Mine(l) = {}
    BY <1>5, <2>1, <2>2 DEF FirstOf
  <2>3. CASE Mine(l) # {}
    <3>1. mHeadVec[l] \in Mine(l) /\ mTailVec[l] \in Mine(l)
      BY <1>1, <2>1, <2>3 DEF FirstOf, Threaded
    <3> QED
      BY <1>5, <1>10, <3>1
  <2> QED
    BY <2>2, <2>3
<1>12. /\ logNode' \in [LogNode -> [level : LogLevel, time : {0} \cup LogTime,
                                    next : {EndNode} \cup LogNode]]
       /\ logNode'[n] = line
       /\ \A m \in LogNode \ {n} : /\ logNode'[m].level = logNode[m].level
                                   /\ logNode'[m].next = IF m = old THEN n ELSE logNode[m].next
  <2> DEFINE R == [level : LogLevel, time : {0} \cup LogTime, next : {EndNode} \cup LogNode]
             g == [logNode EXCEPT ![n] = line]
  <2>1. line \in R
    BY <1>6
  <2>2. logNode \in [LogNode -> R]
    BY <1>1 DEF LogTypeOK
  <2>3. g \in [LogNode -> R] /\ g[n] = line /\ \A m \in LogNode \ {n} : g[m] = logNode[m]
    BY <1>4, <2>1, <2>2
  <2>4. old # n
    BY <1>4, <1>10, <1>11 DEF EndNode, LogNode
  <2>5. PICK f : f = g
    OBVIOUS
  <2>6. logNode' = IF old = EndNode THEN f ELSE [f EXCEPT ![old].next = n]
    BY <1>7, <2>5 DEF Linked
  <2> HIDE DEF g
  <2>7. /\ f \in [LogNode -> R] /\ f[n] = line /\ \A m \in LogNode \ {n} : f[m] = logNode[m]
    BY <2>3, <2>5
  <2>8. CASE old = EndNode
    <3>1. logNode' = f /\ \A m \in LogNode : m # old
      BY <2>6, <2>8 DEF EndNode, LogNode
    <3> QED
      BY <2>7, <3>1
  <2>9. CASE old # EndNode
    <3>1. old \in LogNode
      BY <1>10, <1>11, <2>9
    <3>2. logNode' = [f EXCEPT ![old] = [f[old] EXCEPT !.next = n]]
      BY <2>6, <2>9
    <3>3. f[old] \in R
      BY <2>7, <3>1
    <3>4. PICK z : z = [f[old] EXCEPT !.next = n]
      OBVIOUS
    <3>5. z \in R /\ z.next = n /\ z.level = f[old].level
      BY <1>4, <3>3, <3>4
    <3>6. /\ logNode' \in [LogNode -> R] /\ logNode'[old] = z
          /\ \A m \in LogNode \ {old} : logNode'[m] = f[m]
      BY <2>7, <3>1, <3>2, <3>4, <3>5
    <3> QED
      BY <1>4, <2>4, <2>7, <3>1, <3>5, <3>6
  <2> QED
    BY <2>8, <2>9
<1>13. /\ \A k \in LogLevel \ {l} : Mine(k)' = Mine(k)
       /\ Mine(l)' = Mine(l) \cup {n}
  <2>1. n \notin ToSet(mMainList) /\ logNode'[n].level = l
    BY <1>4, <1>6, <1>12
  <2>2. \A m \in ToSet(mMainList) : logNode'[m].level = logNode[m].level
    <3>1. ToSet(mMainList) \subseteq LogNode \ {n}
      BY <1>1, <1>4, <1>8, ListOrder
    <3> QED
      BY <1>12, <3>1
  <2> QED
    BY <1>9, <2>1, <2>2 DEF Mine
<1>14. LogTypeOK'
  <2>1. mHeadVec' \in [LogLevel -> {EndNode} \cup LogNode]
    BY <1>1, <1>4, <1>7 DEF LogTypeOK
  <2>2. mTailVec' \in [LogLevel -> {EndNode} \cup LogNode]
    BY <1>1, <1>4, <1>7 DEF LogTypeOK
  <2>3. mCurrentSize' \in [LogLevel -> Nat]
    BY <1>1, <1>7 DEF LogTypeOK
  <2>4. trimming' \subseteq [level : LogLevel, time : LogTime]
    BY <1>2
  <2> QED
    BY <1>9, <1>12, <2>1, <2>2, <2>3, <2>4 DEF LogTypeOK
<1>15. /\ mTailVec'[l] = n /\ mCurrentSize'[l] = mCurrentSize[l] + 1
       /\ mHeadVec'[l] = IF old = EndNode THEN n ELSE mHeadVec[l]
       /\ \A k \in LogLevel \ {l} : /\ mTailVec'[k] = mTailVec[k] /\ mHeadVec'[k] = mHeadVec[k]
                                    /\ mCurrentSize'[k] = mCurrentSize[k]
  BY <1>1, <1>7 DEF LogTypeOK
<1>16. ASSUME NEW k \in LogLevel, k # l PROVE Threaded(k)'
  <2>1. \A m \in Mine(k) : m \in LogNode /\ m # n /\ m # old
    <3>1. Mine(k) \cap Mine(l) = {}
      BY <1>16 DEF Mine
    <3> QED
      BY <1>4, <1>10, <1>11, <3>1
  <2>2. \A m \in Mine(k) : logNode'[m].next = logNode[m].next
    BY <1>12, <2>1
  <2>3. \A a, b \in Mine(k) : Precedes(a, b)' <=> Precedes(a, b)
    BY <1>9, <2>1
  <2> QED
    BY <1>1, <1>13, <1>15, <1>16, <2>2, <2>3, StillThreaded
<1>17. Threaded(l)'
  <2>1. PICK M : M = Mine(l) /\ Mine(l)' = M \cup {n}
    BY <1>13
  <2>2. n \notin M /\ M \subseteq LogNode \ {n} /\ M \subseteq ToSet(mMainList)
        /\ IsFiniteSet(M) /\ Cardinality(M) \in Nat
    BY <1>4, <1>10, <2>1
  <2>3. /\ \A a, b \in M : Precedes(a, b)' <=> Precedes(a, b)
        /\ \A a \in M : Precedes(a, n)'
        /\ \A a \in M \cup {n} : ~Precedes(n, a)'
    BY <1>4, <1>9, <1>10, <2>2
  <2>4. mCurrentSize'[l] = Cardinality(M \cup {n})
    <3>1. Cardinality(M \cup {n}) = Cardinality(M) + 1
      BY <2>2, FS_AddElement
    <3> QED
      BY <1>1, <1>15, <2>1, <3>1 DEF Threaded
  <2>5. /\ mTailVec'[l] \in M \cup {n} /\ logNode'[mTailVec'[l]].next = EndNode
    BY <1>6, <1>12, <1>15
  <2>6. FirstOf(mHeadVec[l], Mine(l))'
    <3>1. CASE old = EndNode
      BY <1>10, <1>11, <1>15, <2>1, <3>1 DEF FirstOf
    <3>2. CASE old # EndNode
      <4>1. mHeadVec'[l] = mHeadVec[l] /\ mHeadVec[l] \in M
        BY <1>11, <1>15, <2>1, <3>2
      <4>2. \A m \in M \ {mHeadVec[l]} : Precedes(mHeadVec[l], m)
        BY <1>1, <2>1, <4>1 DEF Threaded, FirstOf
      <4> QED
        BY <2>1, <2>3, <4>1, <4>2 DEF FirstOf
    <3> QED
      BY <3>1, <3>2
  <2>7. ASSUME NEW x \in M \cup {n}
        PROVE  FirstOf(logNode[x].next, {m \in Mine(l) : Precedes(x, m)})'
    <3>1. PICK y, S : y = logNode'[x].next /\ S = {m \in M \cup {n} : Precedes(x, m)'}
      OBVIOUS
    <3>2. IF S = {} THEN y = EndNode ELSE y \in S /\ \A m \in S \ {y} : Precedes(y, m)'
      <4>1. CASE x = n
        BY <1>6, <1>12, <2>3, <3>1, <4>1
      <4>2. CASE x \in M /\ x = old
        <5>1. \A m \in M : ~Precedes(x, m)
          <6>1. M # {} /\ x = mTailVec[l]
            BY <1>10, <1>11, <2>1, <4>2
          <6> QED
            BY <1>1, <2>1, <6>1, LastLine
        <5>2. S = {n} /\ y = n
          BY <1>12, <2>2, <2>3, <3>1, <4>2, <5>1
        <5> QED
          BY <5>2
      <4>3. CASE x \in M /\ x # old
        <5>1. PICK T : T = {m \in M : Precedes(x, m)}
          OBVIOUS
        <5>2. S = T \cup {n} /\ T \subseteq M
          BY <2>3, <3>1, <4>3, <5>1
        <5>3. old \in T
          <6>1. M # {} /\ old = mTailVec[l]
            BY <1>11, <2>1, <4>3
          <6>2. old \in M /\ Precedes(x, old)
            BY <1>1, <2>1, <4>3, <6>1, LastLine
          <6> QED
            BY <5>1, <6>2
        <5>4. y = logNode[x].next
          BY <1>12, <2>2, <3>1, <4>3
        <5>5. y \in T /\ \A m \in T \ {y} : Precedes(y, m)
          BY <1>1, <2>1, <4>3, <5>1, <5>3, <5>4 DEF Threaded, FirstOf
        <5> QED
          BY <2>3, <5>2, <5>5
      <4> QED
        BY <4>1, <4>2, <4>3
    <3>3. S = {m \in Mine(l)' : Precedes(x, m)'}
      BY <2>1, <3>1
    <3> QED
      BY <3>1, <3>2, <3>3 DEF FirstOf
  <2> QED
    BY <2>1, <2>4, <2>5, <2>6, <2>7 DEF Threaded
<1>18. LastIsNew'
  <2>1. Mine(l)' # {} /\ logNode'[mTailVec'[l]].time = t
    BY <1>6, <1>12, <1>13, <1>15
  <2>2. \A x \in trimming' : x.level = l /\ x.time = t
    BY <1>2
  <2> QED
    BY <2>1, <2>2 DEF LastIsNew
<1>19. Bounded'
  <2>1. \A k \in LogLevel \ {l} : mCurrentSize'[k] <= MaxNumThres
    BY <1>1, <1>2, <1>15 DEF Bounded
  <2>2. \E x \in trimming' : x.level = l
    BY <1>2
  <2> QED
    BY <1>2, <2>1, <2>2 DEF Bounded
<1> QED
  BY <1>9, <1>14, <1>16, <1>17, <1>18, <1>19 DEF LogInv

\* The loop of append() takes the first line of the level, which is not the new one
\* unless the capacity is 0: that one is of the same time, and alone it is within
\* the bound.
LEMMA LogPopInv ==
  ASSUME LogInv, NEW line \in trimming, LogPop(line)
  PROVE  LogInv'
<1>1. LogTypeOK /\ OnceInList /\ Bounded /\ LastIsNew /\ \A k \in LogLevel : Threaded(k)
  BY DEF LogInv
<1>2. PICK l \in LogLevel : l = line.level
  BY <1>1 DEF LogTypeOK
<1>3. PICK first, next : first = mHeadVec[l] /\ next = logNode[first].next
  OBVIOUS
<1>4. PICK k \in DOMAIN mMainList : mMainList[k] = first /\ mMainList' = RemoveAt(mMainList, k)
  BY <1>2, <1>3 DEF LogPop
<1>5. /\ mHeadVec' = [mHeadVec EXCEPT ![l] = next]
      /\ mTailVec' = IF next = EndNode THEN [mTailVec EXCEPT ![l] = EndNode] ELSE mTailVec
      /\ logNode' = [logNode EXCEPT ![first] = Erased]
      /\ mCurrentSize' = [mCurrentSize EXCEPT ![l] = @ - 1]
      /\ trimming' = trimming
      /\ first # EndNode
  BY <1>2, <1>3 DEF LogPop
<1>6. mMainList \in Seq(LogNode)
  BY <1>1 DEF LogTypeOK
<1>7. /\ mMainList' \in Seq(LogNode) /\ OnceInList'
      /\ ToSet(mMainList)' = ToSet(mMainList) \ {first}
      /\ \A a, b : Precedes(a, b)' <=> Precedes(a, b) /\ a # first /\ b # first
  BY <1>1, <1>4, <1>6, OrderErased
<1>8. PICK M : M = Mine(l)
  OBVIOUS
<1>9. /\ M \subseteq LogNode /\ EndNode \notin M /\ IsFiniteSet(M) /\ Cardinality(M) \in Nat
      /\ M \subseteq ToSet(mMainList)
  BY <1>1, <1>8, MineNodes DEF Mine
<1>10. first \in M /\ \A m \in M \ {first} : Precedes(first, m)
  BY <1>1, <1>3, <1>5, <1>8 DEF Threaded, FirstOf
<1>11. \A m, n : Precedes(m, n) => ~Precedes(n, m)
  BY <1>1, <1>6, ListOrder
<1>12. {m \in M : Precedes(first, m)} = M \ {first}
  BY <1>10, <1>11
<1>13. FirstOf(next, M \ {first})
  <2>1. FirstOf(logNode[first].next, {m \in Mine(l) : Precedes(first, m)})
    BY <1>1, <1>8, <1>10 DEF Threaded
  <2>2. {m \in Mine(l) : Precedes(first, m)} = M \ {first}
    BY <1>8, <1>12
  <2> QED
    BY <1>3, <2>1, <2>2
<1>14. MaxNumThres # 0 => M # {first}
  <2> SUFFICES ASSUME MaxNumThres # 0, M = {first} PROVE FALSE
    OBVIOUS
  <2>1. mTailVec[l] = first
    BY <1>1, <1>8, <1>10 DEF Threaded
  <2>2. logNode[first].time = line.time
    BY <1>1, <1>2, <2>1 DEF LastIsNew
  <2>3. mCurrentSize[l] = 1
    <3>1. Cardinality({first}) = 1
      BY FS_Singleton
    <3> QED
      BY <1>1, <1>8, <3>1 DEF Threaded
  <2>4. (line.time - logNode[first].time) % TimeModulus = 0
    <3>1. PICK t \in LogTime : t = line.time
      BY <1>1 DEF LogTypeOK
    <3>2. t \in Nat /\ TimeModulus \in Nat /\ TimeModulus > 0
      BY LogAssumption
    <3>3. t - t = 0 /\ 0 % TimeModulus = 0
      BY <3>2
    <3> QED
      BY <2>2, <3>1, <3>3
  <2>5. TimeDepthThres \in Nat /\ MaxNumThres \in Nat /\ MaxNumThres # 0
    BY LogAssumption
  <2>6. ~(0 > TimeDepthThres) /\ ~(1 > MaxNumThres)
    BY <2>5
  <2>7. TooMuch(line)
    BY DEF LogPop
  <2> QED
    BY <1>2, <1>3, <2>3, <2>4, <2>6, <2>7 DEF TooMuch
\* the level is emptied, or another line is its first
<1>15. \/ next = EndNode /\ M \ {first} = {}
       \/ next \in M \ {first} /\ \A m \in M \ {first, next} : Precedes(next, m)
  BY <1>13 DEF FirstOf
<1>16. /\ \A x \in LogLevel \ {l} : mTailVec'[x] = mTailVec[x]
       /\ mTailVec' \in [LogLevel -> {EndNode} \cup LogNode]
       /\ IF M \ {first} = {} THEN mTailVec'[l] = EndNode
          ELSE /\ mTailVec'[l] = mTailVec[l] /\ mTailVec[l] \in M \ {first}
               /\ logNode[mTailVec[l]].next = EndNode
  <2>1. mTailVec \in [LogLevel -> {EndNode} \cup LogNode]
    BY <1>1 DEF LogTypeOK
  <2>2. CASE M \ {first} = {}
    <3>1. mTailVec' = [mTailVec EXCEPT ![l] = EndNode]
      BY <1>5, <1>15, <2>2
    <3> QED
      BY <2>1, <2>2, <3>1
  <2>3. CASE M \ {first} # {}
    <3>1. mTailVec' = mTailVec /\ next # EndNode
      BY <1>5, <1>9, <1>15, <2>3
    <3>2. mTailVec[l] \in M /\ logNode[mTailVec[l]].next = EndNode
      BY <1>1, <1>8, <1>10 DEF Threaded
    <3> QED
      BY <1>3, <2>1, <2>3, <3>1, <3>2
  <2> QED
    BY <2>2, <2>3
<1>17. /\ logNode' \in [LogNode -> [level : LogLevel, time : {0} \cup LogTime,
                                    next : {EndNode} \cup LogNode]]
       /\ \A m \in LogNode \ {first} : logNode'[m] = logNode[m]
  <2> DEFINE R == [level : LogLevel, time : {0} \cup LogTime, next : {EndNode} \cup LogNode]
  <2>1. (CHOOSE x \in LogLevel : TRUE) \in LogLevel
    BY LogAssumption
  <2>2. Erased \in R
    BY <2>1 DEF Erased
  <2>3. logNode \in [LogNode -> R]
    BY <1>1 DEF LogTypeOK
  <2> QED
    BY <1>5, <2>2, <2>3
<1>18. ASSUME NEW x \in LogLevel PROVE Mine(x)' = Mine(x) \ {first}
  <2>1. ToSet(mMainList) \subseteq LogNode
    BY <1>1, <1>6, ListOrder
  <2>2. \A m \in ToSet(mMainList) \ {first} : logNode'[m].level = logNode[m].level
    BY <1>17, <2>1
  <2> QED
    BY <1>7, <2>2 DEF Mine
<1>19. /\ mHeadVec'[l] = next /\ mCurrentSize'[l] = mCurrentSize[l] - 1
       /\ \A x \in LogLevel \ {l} : mHeadVec'[x] = mHeadVec[x] /\ mCurrentSize'[x] = mCurrentSize[x]
  BY <1>1, <1>5 DEF LogTypeOK
<1>20. mCurrentSize[l] = Cardinality(M) /\ Cardinality(M \ {first}) = Cardinality(M) - 1
  BY <1>1, <1>8, <1>9, <1>10, FS_RemoveElement DEF Threaded
<1>21. IsFiniteSet(M \ {first}) /\ Cardinality(M \ {first}) \in Nat
  BY <1>9, FS_RemoveElement, FS_CardinalityType
<1>22. LogTypeOK'
  <2>1. mHeadVec' \in [LogLevel -> {EndNode} \cup LogNode]
    BY <1>1, <1>5, <1>9, <1>15 DEF LogTypeOK
  <2>2. mTailVec' \in [LogLevel -> {EndNode} \cup LogNode]
    BY <1>16
  <2>3. mCurrentSize' \in [LogLevel -> Nat]
    <3>1. mCurrentSize[l] - 1 \in Nat
      BY <1>20, <1>21
    <3> QED
      BY <1>1, <1>5, <3>1 DEF LogTypeOK
  <2>4. trimming' \subseteq [level : LogLevel, time : LogTime]
    BY <1>1, <1>5 DEF LogTypeOK
  <2> QED
    BY <1>7, <1>17, <2>1, <2>2, <2>3, <2>4 DEF LogTypeOK
<1>23. ASSUME NEW x \in LogLevel, x # l PROVE Threaded(x)'
  <2>1. first \notin Mine(x)
    BY <1>8, <1>10, <1>23 DEF Mine
  <2>2. Mine(x)' = Mine(x) /\ Mine(x) \subseteq LogNode \ {first}
    BY <1>1, <1>18, <2>1, MineNodes
  <2>3. \A m \in Mine(x) : logNode'[m].next = logNode[m].next
    BY <1>17, <2>2
  <2>4. \A a, b \in Mine(x) : Precedes(a, b)' <=> Precedes(a, b)
    BY <1>7, <2>1
  <2> QED
    BY <1>1, <1>16, <1>19, <1>23, <2>2, <2>3, <2>4, StillThreaded
<1>24. Threaded(l)'
  <2>1. PICK N : N = M \ {first} /\ N = Mine(l)'
    BY <1>8, <1>18
  <2>2. \A a, b \in N : Precedes(a, b)' <=> Precedes(a, b)
    BY <1>7, <2>1
  <2>3. FirstOf(mHeadVec[l], Mine(l))'
    BY <1>15, <1>19, <2>1, <2>2 DEF FirstOf
  <2>4. ASSUME NEW n \in N
        PROVE  FirstOf(logNode[n].next, {m \in Mine(l) : Precedes(n, m)})'
    <3>1. PICK S : S = {m \in M : Precedes(n, m)}
      OBVIOUS
    <3>2. S \subseteq N
      BY <1>10, <1>11, <2>1, <3>1
    <3>3. S = {m \in Mine(l)' : Precedes(n, m)'}
      BY <2>1, <2>2, <2>4, <3>1, <3>2
    <3>4. PICK y : y = logNode[n].next /\ y = logNode'[n].next
      BY <1>9, <1>17, <2>1, <2>4
    <3>5. FirstOf(y, S)
      BY <1>1, <1>8, <2>1, <2>4, <3>1, <3>4 DEF Threaded
    <3>6. IF S = {} THEN y = EndNode ELSE y \in S /\ \A m \in S \ {y} : Precedes(y, m)'
      BY <2>2, <3>2, <3>5 DEF FirstOf
    <3> QED
      BY <3>3, <3>4, <3>6 DEF FirstOf
  <2>5. IF N = {} THEN mTailVec'[l] = EndNode
        ELSE mTailVec'[l] \in N /\ logNode'[mTailVec'[l]].next = EndNode
    BY <1>9, <1>16, <1>17, <2>1
  <2>6. mCurrentSize'[l] = Cardinality(N)
    BY <1>19, <1>20, <2>1
  <2> QED
    BY <2>1, <2>3, <2>4, <2>5, <2>6 DEF Threaded
<1>25. \A x \in trimming : x.level = l /\ x.time = line.time
  BY <1>1, <1>2 DEF Bounded
<1>26. LastIsNew'
  <2> SUFFICES ASSUME MaxNumThres # 0
               PROVE  \A x \in trimming' : /\ Mine(x.level)' # {}
                                           /\ logNode'[mTailVec'[x.level]].time = x.time
    BY DEF LastIsNew
  <2>0. M \ {first} # {}
    BY <1>10, <1>14
  <2>1. Mine(l)' # {}
    BY <1>8, <1>18, <2>0
  <2>2. logNode'[mTailVec'[l]].time = line.time
    <3>1. logNode[mTailVec[l]].time = line.time
      BY <1>1, <1>2 DEF LastIsNew
    <3> QED
      BY <1>9, <1>16, <1>17, <2>0, <3>1
  <2> QED
    BY <1>5, <1>25, <2>1, <2>2
<1>27. Bounded'
  BY <1>1, <1>2, <1>5, <1>19 DEF Bounded
<1> QED
  BY <1>7, <1>22, <1>23, <1>24, <1>26, <1>27 DEF LogInv

\* Every step keeps the invariant.
LEMMA LogStepInv == LogInv /\ [LogNext]_logVars => LogInv'
<1> SUFFICES ASSUME LogInv, [LogNext]_logVars PROVE LogInv'
  OBVIOUS
<1>1. ASSUME NEW l \in LogLevel, NEW t \in LogTime, LogAppend(l, t) PROVE LogInv'
  BY <1>1, LogAppendInv
<1>2. ASSUME NEW line \in trimming, LogPop(line) PROVE LogInv'
  BY <1>2, LogPopInv
<1>3. ASSUME \/ UNCHANGED logVars
             \/ \E line \in trimming : LogAppended(line)
      PROVE  LogInv'
  <2>1. UNCHANGED <<mMainList, logNode, mHeadVec, mTailVec, mCurrentSize>>
    BY <1>3 DEF logVars, logList, LogAppended
  <2>2. trimming' = trimming \/ trimming' = {}
    BY <1>3 DEF logVars, LogAppended
  <2>3. LogTypeOK' /\ OnceInList' /\ LastIsNew'
    BY <2>1, <2>2 DEF LogInv, LogTypeOK, OnceInList, LastIsNew, Mine
  <2>4. \A l \in LogLevel : Threaded(l)'
    BY <2>1 DEF LogInv, Threaded, FirstOf, Precedes, Mine
  <2>5. Bounded'
    <3>1. CASE trimming' = trimming
      BY <2>1, <3>1 DEF LogInv, Bounded
    <3>2. CASE trimming' # trimming
      <4>1. PICK line \in trimming : /\ mHeadVec[line.level] # EndNode => ~TooMuch(line)
                                     /\ trimming' = {}
        BY <1>3, <3>2 DEF LogAppended, logVars
      <4>2. mCurrentSize[line.level] <= MaxNumThres
        <5>1. line.level \in LogLevel
          BY <4>1 DEF LogInv, LogTypeOK
        <5>2. mCurrentSize[line.level] \in Nat /\ MaxNumThres \in Nat
          BY <5>1, LogAssumption DEF LogInv, LogTypeOK
        <5>3. CASE mHeadVec[line.level] # EndNode
          <6>1. ~(mCurrentSize[line.level] > MaxNumThres)
            BY <4>1, <5>3 DEF TooMuch
          <6> QED
            BY <5>2, <6>1
        \* an empty level
        <5>4. CASE mHeadVec[line.level] = EndNode
          <6>1. EndNode \notin Mine(line.level)
            BY <5>1, MineNodes DEF LogInv
          <6>2. Mine(line.level) = {}
            BY <5>1, <5>4, <6>1 DEF LogInv, Threaded, FirstOf
          <6>3. mCurrentSize[line.level] = 0
            BY <5>1, <6>2, FS_EmptySet DEF LogInv, Threaded
          <6> QED
            BY <5>2, <6>3
        <5> QED
          BY <5>3, <5>4
      <4>3. \A x \in trimming : x = line
        BY <4>1 DEF LogInv, Bounded
      <4> QED
        BY <2>1, <4>1, <4>2, <4>3 DEF LogInv, Bounded
    <3> QED
      BY <3>1, <3>2
  <2> QED
    BY <2>3, <2>4, <2>5 DEF LogInv
<1> QED
  BY <1>1, <1>2, <1>3 DEF LogNext

\* The log's invariant holds at all times.
LEMMA LogInvariant == LogSpec => []LogInv
BY LogInitInv, LogStepInv, PTL DEF LogSpec

\* The list and the vectors of the log hold nodes, levels and times, and the node of
\* a new line is a free one (SkipList.h, LogBuffer.cpp).
THEOREM LogTypeCorrect == LogSpec => []LogTypeOK
<1>1. LogInv => LogTypeOK
  BY DEF LogInv
<1> QED
  BY <1>1, LogInvariant, PTL

\* Whatever order of times threads append in, and however the difference of two
\* wraps, the lines of each level stay threaded and counted, and an append leaves at
\* most the bound and, if that is not 0, its own line (LogBuffer::append, LogBuffer.cpp).
THEOREM LevelsStayThreaded == LogSpec => []LogLevelsThreaded
BY LogInvariant, LogInvThreaded, PTL

(***************************************************************************)
(* The heap of timers                                                      *)
(***************************************************************************)

HeapSpec == HeapInit /\ [][HeapNext]_heapVars

Place == Seq(Side)

\* What the tree is made of: with a node there are those on the way to it.
Tree ==
  /\ Node \subseteq Place /\ IsFiniteSet(Node)
  /\ mTree \in [Node -> [data : Rankable, size : Nat]]
  /\ \A q \in Node, p \in Place : OnWay(p, q) => p \in Node
\* It holds what was pushed; that makes one node for each object.
Holding ==
  /\ {mTree[p].data : p \in Node} = pushed /\ pushed \subseteq Rankable
  /\ Cardinality(Node) = Cardinality(pushed) /\ SizeAt(Top) = Cardinality(pushed)
Sized ==
  \A p \in Node : mTree[p].size = 1 + SizeAt(Child(p, "left")) + SizeAt(Child(p, "right"))
\* No node outranks its parent.
Ordered ==
  \A p \in Node, side \in Side :
    HasChild(p, side) => ~OutRanks(mTree[Child(p, side)].data, mTree[p].data)

HeapInv == heapRank \in [Rankable -> Int] /\ Tree /\ Holding /\ Sized /\ Ordered
-----------------------------------------------------------------------------
(* ways *)

LEMMA ChildOf ==
  ASSUME NEW p \in Place, NEW side \in Side
  PROVE  /\ Child(p, side) \in Place /\ Len(Child(p, side)) = Len(p) + 1
         /\ \A i \in 1..Len(p) : Child(p, side)[i] = p[i]
         /\ Child(p, side)[Len(p) + 1] = side
         /\ OnWay(p, Child(p, side)) /\ Child(p, side) # p
BY DEF Place, Child, OnWay

LEMMA ChildOnce ==
  ASSUME NEW p \in Place, NEW q \in Place, NEW side \in Side, NEW other \in Side,
         Child(p, side) = Child(q, other)
  PROVE  p = q /\ side = other
<1>1. Len(p) = Len(q) /\ Len(p) \in Nat
  BY ChildOf, LenProperties DEF Place
<1>2. \A i \in 1..Len(p) : p[i] = q[i]
  <2>1. \A i \in 1..Len(p) : Child(p, side)[i] = p[i]
    BY ChildOf
  <2>2. \A i \in 1..Len(q) : Child(q, other)[i] = q[i]
    BY ChildOf
  <2>. QED  BY <1>1, <2>1, <2>2
<1>3. p = q
  BY <1>1, <1>2, SeqEqual DEF Place
<1>. QED  BY <1>3, ChildOf

\* Being on the way is a strict order, linear below a place.
LEMMA WayOrder ==
  ASSUME NEW p \in Place, NEW q \in Place, NEW e \in Place
  PROVE  /\ ~OnWay(e, e)
         /\ OnWay(p, q) /\ OnWay(q, e) => OnWay(p, e)
         /\ OnWay(p, q) => ~OnWay(q, p)
         /\ p = Top \/ OnWay(Top, p)
<1>1. Len(p) \in Nat /\ Len(q) \in Nat /\ Len(e) \in Nat
  BY LenProperties DEF Place
<1>2. p = Top \/ Len(p) # 0
  BY EmptySeq DEF Place, Top
<1>3. Len(Top) = 0
  BY DEF Top
<1>. QED  BY <1>1, <1>2, <1>3 DEF OnWay

\* The next node on a way
LEMMA WayNext ==
  ASSUME NEW p \in Place, NEW e \in Place, OnWay(p, e)
  PROVE  /\ Toward(p, e) \in Place /\ Len(Toward(p, e)) = Len(p) + 1
         /\ Len(p) \in Nat /\ Len(e) \in Nat /\ Len(p) < Len(e)
         /\ \E side \in Side : Toward(p, e) = Child(p, side)
         /\ OnWay(p, Toward(p, e)) /\ Toward(p, e) # p
         /\ Toward(p, e) = e \/ OnWay(Toward(p, e), e)
<1>1. Len(p) \in Nat /\ Len(e) \in Nat /\ Len(p) < Len(e)
  BY LenProperties DEF Place, OnWay
<1>2. PICK side : side = e[Len(p) + 1]
  OBVIOUS
<1>3. side \in Side
  BY <1>1, <1>2, ElementOfSeq DEF Place
<1>4. Toward(p, e) = Child(p, side)
  BY <1>2 DEF Toward, Child
<1>5. \A i \in 1..Len(p) + 1 : Child(p, side)[i] = e[i]
  <2>1. /\ \A i \in 1..Len(p) : Child(p, side)[i] = p[i]
        /\ Child(p, side)[Len(p) + 1] = side
    BY <1>3, ChildOf
  <2>2. \A i \in 1..Len(p) : p[i] = e[i]
    BY DEF OnWay
  <2>. QED  BY <1>1, <1>2, <2>1, <2>2
<1>6. Child(p, side) = e \/ OnWay(Child(p, side), e)
  <2>1. CASE Len(p) + 1 = Len(e)
    BY <2>1, <1>3, <1>5, ChildOf, SeqEqual DEF Place
  <2>2. CASE Len(p) + 1 < Len(e)
    BY <2>2, <1>3, <1>5, ChildOf DEF OnWay
  <2>. QED  BY <1>1, <2>1, <2>2
<1>. QED  BY <1>1, <1>3, <1>4, <1>6, ChildOf

\* A child that is on the way, or at its end, is the next node.
LEMMA WayChild ==
  ASSUME NEW p \in Place, NEW e \in Place, NEW side \in Side,
         Child(p, side) = e \/ OnWay(Child(p, side), e)
  PROVE  OnWay(p, e) /\ Toward(p, e) = Child(p, side)
<1>1. OnWay(p, e)
  BY ChildOf, WayOrder
<1>2. Len(p) \in Nat /\ Len(p) + 1 \in 1..Len(Child(p, side))
  <2>1. Len(p) \in Nat /\ Len(Child(p, side)) = Len(p) + 1
    BY ChildOf, LenProperties DEF Place
  <2>. QED  BY <2>1
<1>3. e[Len(p) + 1] = side
  BY <1>2, ChildOf DEF OnWay
<1>. QED  BY <1>1, <1>3 DEF Toward, Child

\* A place other than the top is a child.
LEMMA WayParent ==
  ASSUME NEW e \in Place, e # Top
  PROVE  \E p \in Place, side \in Side : e = Child(p, side)
<1>1. Len(e) \in Nat \ {0}
  BY EmptySeq DEF Place, Top
<1>2. PICK p : p = SubSeq(e, 1, Len(e) - 1)
  OBVIOUS
<1>3. PICK side : side = e[Len(e)]
  OBVIOUS
<1>4. side \in Side
  BY <1>1, <1>3, ElementOfSeq DEF Place
<1>5. p \in Place /\ Len(p) = Len(e) - 1 /\ \A i \in 1..Len(e) - 1 : p[i] = e[i]
  <2>1. \A i \in 1..Len(e) - 1 : e[i] \in Side
    BY <1>1, ElementOfSeq DEF Place
  <2>2. Len(e) - 1 \in Int /\ 1 \in Int /\ Len(e) - 1 - 1 + 1 = Len(e) - 1
    BY <1>1
  <2>3. /\ p \in Seq(Side) /\ Len(p) = IF 1 <= Len(e) - 1 THEN Len(e) - 1 - 1 + 1 ELSE 0
        /\ \A i \in 1..Len(e) - 1 - 1 + 1 : p[i] = e[1 + i - 1]
    BY <1>2, <2>1, <2>2, SubSeqProperties
  <2>4. Len(p) = Len(e) - 1
    <3>1. PICK m \in Nat : m = Len(e) - 1
      BY <1>1
    <3>2. Len(p) = IF 1 <= m THEN m - 1 + 1 ELSE 0
      BY <2>3, <3>1
    <3>3. Len(p) = m
      BY <3>1, <3>2
    <3>. QED  BY <3>1, <3>3
  <2>5. ASSUME NEW i \in 1..Len(e) - 1 PROVE p[i] = e[i]
    <3>1. 1 + i - 1 = i /\ i \in 1..Len(e) - 1 - 1 + 1
      BY <1>1
    <3>2. p[i] = e[1 + i - 1]
      BY <2>3, <3>1
    <3>. QED  BY <3>1, <3>2
  <2>. QED  BY <2>3, <2>4, <2>5 DEF Place
<1>6. Child(p, side) \in Place /\ Len(Child(p, side)) = Len(e)
  BY <1>1, <1>4, <1>5, ChildOf
<1>7. \A i \in 1..Len(e) : Child(p, side)[i] = e[i]
  BY <1>1, <1>3, <1>4, <1>5, ChildOf
<1>8. e = Child(p, side)
  BY <1>6, <1>7, SeqEqual DEF Place
<1>. QED  BY <1>4, <1>5, <1>8

\* What is on the way to a child is its parent or on the way to that.
LEMMA WayToChild ==
  ASSUME NEW p \in Place, NEW q \in Place, NEW side \in Side, OnWay(q, Child(p, side))
  PROVE  q = p \/ OnWay(q, p)
<1>1. Len(q) \in Nat /\ Len(p) \in Nat /\ Len(q) <= Len(p)
  BY ChildOf, LenProperties DEF Place, OnWay
<1>2. \A i \in 1..Len(q) : q[i] = p[i]
  BY <1>1, ChildOf DEF OnWay
<1>3. Len(q) = Len(p) => q = p
  BY <1>1, <1>2, SeqEqual DEF Place
<1>. QED  BY <1>1, <1>2, <1>3 DEF OnWay
-----------------------------------------------------------------------------
(* the invariant *)

LEMMA NodeData ==
  ASSUME HeapInv, NEW p \in Node
  PROVE  /\ p \in Place /\ mTree[p].data \in Rankable /\ mTree[p].data \in pushed
         /\ mTree[p].size \in Nat /\ heapRank[mTree[p].data] \in Int
BY DEF HeapInv, Tree, Holding

\* No node outranks one on the way to it.
LEMMA NoneBelowOutranks ==
  ASSUME HeapInv, NEW p \in Node, NEW q \in Node, OnWay(p, q)
  PROVE  ~OutRanks(mTree[q].data, mTree[p].data)
<1> DEFINE Bad(x) == OnWay(x, q) /\ OutRanks(mTree[q].data, mTree[x].data)
           S == {Len(q) - Len(x) : x \in {y \in Node : Bad(y)}}
<1>1. SUFFICES ASSUME S # {} PROVE FALSE
  <2>1. Bad(p) => Len(q) - Len(p) \in S
    OBVIOUS
  <2>. QED  BY <2>1
<1>2. S \subseteq Nat
  <2>1. ASSUME NEW x \in Node, Bad(x) PROVE Len(q) - Len(x) \in Nat
    <3>1. Len(x) \in Nat /\ Len(q) \in Nat /\ Len(x) < Len(q)
      BY <2>1, NodeData, WayNext
    <3>. QED  BY <3>1
  <2>. QED  BY <2>1
<1>3. PICK m \in S : \A n \in S : m <= n
  <2>. HIDE DEF S
  <2>. QED  BY <1>1, <1>2, LeastNat
<1>4. PICK x \in Node : Bad(x) /\ m = Len(q) - Len(x)
  BY <1>3
<1>5. PICK y : y = Toward(x, q)
  OBVIOUS
<1>6. /\ Len(y) = Len(x) + 1 /\ Len(x) \in Nat /\ Len(q) \in Nat
      /\ (\E side \in Side : y = Child(x, side)) /\ (y = q \/ OnWay(y, q)) /\ y \in Place
  BY <1>4, <1>5, NodeData, WayNext
<1>7. y \in Node
  BY <1>6 DEF HeapInv, Tree
<1>8. ~OutRanks(mTree[y].data, mTree[x].data)
  BY <1>6, <1>7 DEF HeapInv, Ordered, HasChild
<1>9. OutRanks(mTree[q].data, mTree[y].data)
  BY <1>4, <1>7, <1>8, NodeData DEF OutRanks
<1>10. y # q
  BY <1>9, NodeData DEF OutRanks
<1>11. Len(q) - Len(y) \in S
  BY <1>6, <1>7, <1>9, <1>10
<1>12. m <= Len(q) - Len(y)
  <2>. HIDE DEF S
  <2>. QED  BY <1>3, <1>11
<1>. QED  BY <1>4, <1>6, <1>12

\* An object is in the tree once.
LEMMA DataOnce ==
  ASSUME HeapInv, NEW p \in Node, NEW q \in Node, mTree[p].data = mTree[q].data
  PROVE  p = q
<1> DEFINE f == [x \in Node |-> mTree[x].data]
<1>1. f \in Surjection(Node, pushed)
  BY DEF HeapInv, Holding, Surjection
<1>2. f \in Injection(Node, pushed)
  <2>1. IsFiniteSet(Node) /\ Cardinality(Node) = Cardinality(pushed)
    BY DEF HeapInv, Tree, Holding
  <2>. HIDE DEF f
  <2>. QED  BY <1>1, <2>1, FS_SurjSameCardinalityImpliesInj
<1>3. f[p] = f[q] => p = q
  <2>. HIDE DEF f
  <2>. QED  BY <1>2 DEF Injection, IsInjective
<1>. QED  BY <1>3

LEMMA PushedFinite ==
  ASSUME HeapInv
  PROVE  IsFiniteSet(pushed) /\ Cardinality(pushed) \in Nat
<1> DEFINE f == [x \in Node |-> mTree[x].data]
<1>1. f \in Surjection(Node, pushed) /\ IsFiniteSet(Node)
  BY DEF HeapInv, Tree, Holding, Surjection
<1>2. IsFiniteSet(pushed)
  <2>. HIDE DEF f
  <2>. QED  BY <1>1, FS_Surjection
<1>. QED  BY <1>2, FS_CardinalityType

LEMMA HeapInitInv == HeapInit => HeapInv
<1>. SUFFICES ASSUME HeapInit PROVE HeapInv
  OBVIOUS
<1>1. Node = {} /\ mTree \in [{} -> [data : Rankable, size : Nat]]
  BY DEF HeapInit, Node
<1>2. heapRank \in [Rankable -> Int]
  BY RankAssumption DEF HeapInit
<1>3. Tree
  BY <1>1, FS_EmptySet DEF Tree
<1>4. pushed = {} /\ Cardinality({}) = 0
  BY FS_EmptySet DEF HeapInit
<1>5. Holding
  BY <1>1, <1>4 DEF Holding, SizeAt
<1>. QED  BY <1>1, <1>2, <1>3, <1>5 DEF HeapInv, Sized, Ordered

LEMMA HeapInvServes == HeapInv => HeapServesHighest
<1>. SUFFICES ASSUME HeapInv PROVE HeapServesHighest
  OBVIOUS
<1>1. {mTree[p].data : p \in Node} = pushed /\ SizeAt(Top) = Cardinality(pushed)
  BY DEF HeapInv, Holding
<1>2. \A p \in Node :
        mTree[p].size = 1 + SizeAt(Child(p, "left")) + SizeAt(Child(p, "right"))
  BY DEF HeapInv, Sized
<1>3. \A p, q \in Node : OnWay(p, q) => ~OutRanks(mTree[q].data, mTree[p].data)
  BY NoneBelowOutranks
<1>. QED  BY <1>1, <1>2, <1>3 DEF HeapServesHighest
-----------------------------------------------------------------------------
(* push *)

\* The nodes above a free place are those on the way to it.
LEMMA FreePlace ==
  ASSUME HeapInv, NEW e \in Free
  PROVE  /\ e \in Place /\ e \notin Node
         /\ \A p \in Place : OnWay(p, e) => p \in Node
         /\ \A p \in Node : ~OnWay(e, p)
         /\ e = Top => Node = {}
<1>1. e \notin Node /\ (e = Top \/ \E p \in Node, side \in Side : e = Child(p, side))
  BY DEF Free
<1>2. Node \subseteq Place /\ \A q \in Node, p \in Place : OnWay(p, q) => p \in Node
  BY DEF HeapInv, Tree
<1>3. Top \in Place
  BY EmptySeq DEF Top, Place
<1>4. e \in Place
  BY <1>1, <1>2, <1>3, ChildOf
<1>5. \A p \in Node : ~OnWay(e, p)
  BY <1>1, <1>2, <1>4
<1>6. ASSUME NEW p \in Place, OnWay(p, e) PROVE p \in Node
  <2>1. CASE e = Top
    BY <2>1, <1>3, <1>6, WayOrder
  <2>2. CASE \E q \in Node, side \in Side : e = Child(q, side)
    BY <2>2, <1>2, <1>6, WayToChild
  <2>. QED  BY <2>1, <2>2, <1>1
<1>7. e = Top => Node = {}
  BY <1>2, <1>4, <1>5, <1>1, WayOrder
<1>. QED  BY <1>1, <1>4, <1>5, <1>6, <1>7

\* What a push does, with the data carried along the way
Pushing(d, e, carried) ==
  /\ carried \in [{p \in Node : OnWay(p, e)} \cup {e} -> pushed \cup {d}]
  /\ carried[Top] = d
  /\ \A p \in Node : OnWay(p, e) =>
       /\ Toward(p, e) = Child(p, PushSide(p))
       /\ carried[Toward(p, e)] = Lower(carried[p], mTree[p].data)
  /\ mTree' = [p \in Node \cup {e} |->
       IF p = e THEN [data |-> carried[e], size |-> 1]
       ELSE IF OnWay(p, e) THEN [data |-> Higher(carried[p], mTree[p].data),
                                 size |-> mTree[p].size + 1]
       ELSE mTree[p]]

LEMMA PushAt ==
  ASSUME HeapInv, NEW d \in Rankable, NEW e \in Free, NEW carried, Pushing(d, e, carried),
         NEW p \in Node
  PROVE  /\ OnWay(p, e) => mTree'[p] = [data |-> Higher(carried[p], mTree[p].data),
                                        size |-> mTree[p].size + 1]
         /\ ~OnWay(p, e) => mTree'[p] = mTree[p]
<1>1. p # e
  BY FreePlace
<1>. QED  BY <1>1 DEF Pushing

LEMMA PushTree ==
  ASSUME HeapInv, NEW d \in Rankable, NEW e \in Free, NEW carried, Pushing(d, e, carried)
  PROVE  /\ Node' = Node \cup {e}
         /\ mTree'[e] = [data |-> carried[e], size |-> 1]
         /\ carried[e] \in pushed \cup {d}
         /\ \A p \in Node : OnWay(p, e) => carried[p] \in pushed \cup {d}
         /\ pushed \cup {d} \subseteq Rankable
         /\ \A x \in pushed \cup {d} : heapRank[x] \in Int
         /\ Tree'
<1>1. Node' = Node \cup {e}
  BY DEF Pushing, Node
<1>2. mTree'[e] = [data |-> carried[e], size |-> 1]
  BY DEF Pushing
<1>4. /\ carried[e] \in pushed \cup {d}
      /\ \A p \in Node : OnWay(p, e) => carried[p] \in pushed \cup {d}
  BY DEF Pushing
<1>5. pushed \cup {d} \subseteq Rankable /\ heapRank \in [Rankable -> Int]
  BY DEF HeapInv, Holding
<1>6. Tree'
  <2>1. Node' \subseteq Place /\ IsFiniteSet(Node')
    BY <1>1, FreePlace, FS_AddElement DEF HeapInv, Tree
  <2>2. ASSUME NEW p \in Node' PROVE mTree'[p] \in [data : Rankable, size : Nat]
    <3>1. CASE p = e
      BY <3>1, <1>2, <1>4, <1>5
    <3>2. CASE p \in Node
      <4>1. mTree[p].data \in Rankable /\ mTree[p].size \in Nat
              /\ mTree[p] \in [data : Rankable, size : Nat]
        BY <3>2, NodeData DEF HeapInv, Tree
      <4>2. CASE OnWay(p, e)
        <5>1. PICK x : x = Higher(carried[p], mTree[p].data)
          OBVIOUS
        <5>2. x \in Rankable
          BY <3>2, <4>1, <4>2, <5>1, <1>4, <1>5 DEF Higher
        <5>3. mTree'[p] = [data |-> x, size |-> mTree[p].size + 1]
          BY <3>2, <4>2, <5>1, PushAt
        <5>. QED  BY <4>1, <5>2, <5>3
      <4>3. CASE ~OnWay(p, e)
        BY <3>2, <4>1, <4>3, PushAt
      <4>. QED  BY <4>2, <4>3
    <3>. QED  BY <1>1, <3>1, <3>2
  <2>3. mTree' \in [Node' -> [data : Rankable, size : Nat]]
    <3>1. mTree' = [p \in Node' |-> mTree'[p]]
      BY <1>1 DEF Pushing
    <3>. QED  BY <2>2, <3>1
  <2>4. ASSUME NEW q \in Node', NEW p \in Place, OnWay(p, q) PROVE p \in Node'
    BY <1>1, <2>4, FreePlace DEF HeapInv, Tree
  <2>. QED  BY <2>1, <2>3, <2>4 DEF Tree
<1>. QED  BY <1>1, <1>2, <1>4, <1>5, <1>6

LEMMA PushSized ==
  ASSUME HeapInv, NEW d \in Rankable, NEW e \in Free, NEW carried, Pushing(d, e, carried)
  PROVE  Sized'
<1>1. Node' = Node \cup {e} /\ mTree'[e].size = 1 /\ e \in Place /\ e \notin Node
  <2>1. Node' = Node \cup {e} /\ mTree'[e] = [data |-> carried[e], size |-> 1]
    BY PushTree
  <2>. QED  BY <2>1, FreePlace
<1>2. \A p \in Node : p \in Place /\ mTree[p].size \in Nat
                      /\ mTree'[p].size = mTree[p].size + (IF OnWay(p, e) THEN 1 ELSE 0)
  <2>. TAKE p \in Node
  <2>1. p \in Place /\ mTree[p].size \in Nat
    BY NodeData
  <2>2. /\ OnWay(p, e) => mTree'[p] = [data |-> Higher(carried[p], mTree[p].data),
                                       size |-> mTree[p].size + 1]
        /\ ~OnWay(p, e) => mTree'[p] = mTree[p]
    BY PushAt
  <2>. QED  BY <2>1, <2>2
<1>3. ASSUME NEW q \in Place
      PROVE  /\ SizeAt(q) \in Nat
             /\ SizeAt(q)' = SizeAt(q) + (IF q = e \/ OnWay(q, e) THEN 1 ELSE 0)
  <2>1. OnWay(q, e) => q \in Node
    BY FreePlace
  <2>2. SizeAt(q)' = IF q \in Node' THEN mTree'[q].size ELSE 0
    BY DEF SizeAt
  <2>. QED  BY <1>1, <1>2, <2>1, <2>2 DEF SizeAt
<1>. SUFFICES ASSUME NEW p \in Node'
              PROVE  mTree'[p].size = 1 + SizeAt(Child(p, "left"))' + SizeAt(Child(p, "right"))'
  BY DEF Sized, Child
<1>4. p \in Place /\ "left" \in Side /\ "right" \in Side /\ "left" # "right"
  BY <1>1, <1>2 DEF Side
<1>5. PICK l, r : l = Child(p, "left") /\ r = Child(p, "right")
  OBVIOUS
<1>6. l \in Place /\ r \in Place /\ l # r
  BY <1>4, <1>5, ChildOf, ChildOnce
<1>7. CASE p = e
  <2>1. l \notin Node /\ r \notin Node
    BY <1>4, <1>5, <1>7, ChildOf, FreePlace
  <2>2. l # e /\ r # e /\ ~OnWay(l, e) /\ ~OnWay(r, e)
    BY <1>4, <1>5, <1>6, <1>7, ChildOf, WayOrder
  <2>. QED  BY <1>1, <1>3, <1>5, <1>6, <1>7, <2>1, <2>2 DEF SizeAt
<1>8. CASE p # e
  <2>1. p \in Node /\ mTree[p].size = 1 + SizeAt(l) + SizeAt(r)
    BY <1>1, <1>5, <1>8 DEF HeapInv, Sized
  <2>2. CASE OnWay(p, e)
    <3>1. \/ Toward(p, e) = l /\ (l = e \/ OnWay(l, e)) /\ ~(r = e \/ OnWay(r, e))
          \/ Toward(p, e) = r /\ (r = e \/ OnWay(r, e)) /\ ~(l = e \/ OnWay(l, e))
      <4>1. /\ Toward(p, e) = e \/ OnWay(Toward(p, e), e)
            /\ Toward(p, e) = l \/ Toward(p, e) = r
        BY <1>1, <1>4, <1>5, <2>2, WayNext DEF Side
      <4>2. (l = e \/ OnWay(l, e) => Toward(p, e) = l) /\ (r = e \/ OnWay(r, e) => Toward(p, e) = r)
        BY <1>1, <1>4, <1>5, WayChild
      <4>. QED  BY <1>6, <4>1, <4>2
    <3>. QED  BY <1>2, <1>3, <1>5, <1>6, <2>1, <2>2, <3>1
  <2>3. CASE ~OnWay(p, e)
    <3>1. ~(l = e \/ OnWay(l, e)) /\ ~(r = e \/ OnWay(r, e))
      BY <1>1, <1>4, <1>5, <2>3, WayChild
    <3>. QED  BY <1>2, <1>3, <1>5, <1>6, <2>1, <2>3, <3>1
  <2>. QED  BY <2>2, <2>3
<1>. QED  BY <1>7, <1>8

LEMMA PushOrdered ==
  ASSUME HeapInv, NEW d \in Rankable, NEW e \in Free, NEW carried, Pushing(d, e, carried),
         UNCHANGED heapRank
  PROVE  Ordered'
<1> DEFINE Rk(x) == heapRank[x]
           New(p) == Rk(mTree'[p].data)
           Old(p) == Rk(mTree[p].data)
<1>1. Node' = Node \cup {e} /\ e \in Place /\ e \notin Node
  BY PushTree, FreePlace
<1>2. New(e) = Rk(carried[e]) /\ Rk(carried[e]) \in Int
  <2>1. mTree'[e] = [data |-> carried[e], size |-> 1] /\ carried[e] \in pushed \cup {d}
        /\ \A x \in pushed \cup {d} : heapRank[x] \in Int
    BY PushTree
  <2>. QED  BY <2>1
<1>3. ASSUME NEW p \in Node
      PROVE  /\ p \in Place /\ Old(p) \in Int
             /\ ~OnWay(p, e) => New(p) = Old(p)
             /\ OnWay(p, e) => /\ Rk(carried[p]) \in Int
                               /\ New(p) = IF Rk(carried[p]) > Old(p) THEN Rk(carried[p]) ELSE Old(p)
                               /\ Rk(carried[Toward(p, e)]) =
                                    IF Rk(carried[p]) > Old(p) THEN Old(p) ELSE Rk(carried[p])
  <2>1. p \in Place /\ Old(p) \in Int
    BY NodeData
  <2>2. /\ OnWay(p, e) => mTree'[p] = [data |-> Higher(carried[p], mTree[p].data),
                                       size |-> mTree[p].size + 1]
        /\ ~OnWay(p, e) => mTree'[p] = mTree[p]
    BY PushAt
  <2>3. CASE OnWay(p, e)
    <3>1. Rk(carried[p]) \in Int
      <4>1. carried[p] \in pushed \cup {d} /\ \A x \in pushed \cup {d} : heapRank[x] \in Int
        BY <2>3, PushTree
      <4>. QED  BY <4>1
    <3>2. mTree'[p].data = Higher(carried[p], mTree[p].data)
      BY <2>2, <2>3
    <3>3. carried[Toward(p, e)] = Lower(carried[p], mTree[p].data)
      BY <2>3 DEF Pushing
    <3>. QED  BY <2>1, <2>3, <3>1, <3>2, <3>3 DEF Higher, Lower, OutRanks
  <2>. QED  BY <2>1, <2>2, <2>3
<1>. SUFFICES ASSUME NEW p \in Node', NEW side \in Side, HasChild(p, side)'
              PROVE  ~(New(Child(p, side)) > New(p))
  BY DEF Ordered, OutRanks, Child
<1>4. PICK c : c = Child(p, side)
  OBVIOUS
<1>5. c \in Node' /\ p \in Place /\ c \in Place /\ OnWay(p, c) /\ c # p
  BY <1>1, <1>3, <1>4, ChildOf DEF HasChild, Child
<1>6. p \in Node
  BY <1>1, <1>5, FreePlace, WayOrder
<1>7. c \in Node => ~(Old(c) > Old(p)) /\ Old(c) \in Int
  BY <1>3, <1>4, <1>6 DEF HeapInv, Ordered, HasChild, OutRanks
<1>8. CASE c = e \/ OnWay(c, e)
  <2>1. OnWay(p, e) /\ Toward(p, e) = c
    BY <1>1, <1>4, <1>5, <1>8, WayChild
  <2>2. CASE c = e
    BY <1>2, <1>3, <1>4, <1>6, <2>1, <2>2
  <2>3. CASE c # e
    <3>1. c \in Node /\ OnWay(c, e)
      BY <1>1, <1>5, <1>8, <2>3
    <3>. QED  BY <1>3, <1>4, <1>6, <1>7, <2>1, <3>1
  <2>. QED  BY <2>2, <2>3
<1>9. CASE ~(c = e \/ OnWay(c, e))
  <2>1. c \in Node
    BY <1>1, <1>5, <1>9
  <2>. QED  BY <1>3, <1>4, <1>6, <1>7, <1>9, <2>1
<1>. QED  BY <1>8, <1>9

\* All that was carried is somewhere in the tree.
LEMMA CarriedStays ==
  ASSUME HeapInv, NEW d \in Rankable, NEW e \in Free, NEW carried, Pushing(d, e, carried),
         NEW p \in Place, p = e \/ OnWay(p, e)
  PROVE  \E q \in Node' : mTree'[q].data = carried[p]
<1> DEFINE On(x) == x = e \/ OnWay(x, e)
           Lost(x) == On(x) /\ \A q \in Node' : mTree'[q].data # carried[x]
           S == {Len(e) - Len(x) : x \in {y \in Place : Lost(y)}}
<1>1. SUFFICES ASSUME S # {} PROVE FALSE
  <2>1. Lost(p) => Len(e) - Len(p) \in S
    OBVIOUS
  <2>. QED  BY <2>1
<1>2. Node' = Node \cup {e} /\ mTree'[e] = [data |-> carried[e], size |-> 1] /\ e \in Place
  BY PushTree, FreePlace
<1>3. ~Lost(e)
  BY <1>2
<1>4. S \subseteq Nat
  <2>1. ASSUME NEW x \in Place, Lost(x) PROVE Len(e) - Len(x) \in Nat
    <3>1. Len(x) \in Nat /\ Len(e) \in Nat /\ Len(x) < Len(e)
      BY <1>2, <1>3, <2>1, WayNext
    <3>. QED  BY <3>1
  <2>. QED  BY <2>1
<1>5. PICK m \in S : \A n \in S : m <= n
  <2>. HIDE DEF S
  <2>. QED  BY <1>1, <1>4, LeastNat
<1>6. PICK x \in Place : Lost(x) /\ m = Len(e) - Len(x)
  BY <1>5
<1>7. OnWay(x, e) /\ x \in Node /\ carried[Toward(x, e)] = Lower(carried[x], mTree[x].data)
  <2>1. OnWay(x, e)
    BY <1>3, <1>6
  <2>. QED  BY <2>1, FreePlace DEF Pushing
<1>8. PICK y : y = Toward(x, e)
  OBVIOUS
<1>9. Len(y) = Len(x) + 1 /\ Len(x) \in Nat /\ Len(e) \in Nat /\ y \in Place /\ On(y)
  BY <1>2, <1>7, <1>8, WayNext
<1>10. mTree'[x].data = Higher(carried[x], mTree[x].data) /\ x \in Node'
  <2>1. mTree'[x] = [data |-> Higher(carried[x], mTree[x].data), size |-> mTree[x].size + 1]
    BY <1>7, PushAt
  <2>. QED  BY <1>2, <1>7, <2>1
<1>11. carried[y] = carried[x]
  BY <1>6, <1>7, <1>8, <1>10 DEF Higher, Lower
<1>12. Lost(y)
  BY <1>6, <1>9, <1>11
<1>13. Len(e) - Len(y) \in S
  BY <1>9, <1>12
<1>14. m <= Len(e) - Len(y)
  <2>. HIDE DEF S
  <2>. QED  BY <1>5, <1>13
<1>. QED  BY <1>6, <1>9, <1>14

LEMMA PushHolding ==
  ASSUME HeapInv, NEW d \in Rankable, NEW e \in Free, NEW carried, Pushing(d, e, carried),
         d \notin pushed, pushed' = pushed \cup {d}
  PROVE  Holding'
<1>1. Node' = Node \cup {e} /\ mTree'[e] = [data |-> carried[e], size |-> 1]
      /\ carried[e] \in pushed \cup {d} /\ e \in Place /\ e \notin Node
  BY PushTree, FreePlace
<1>2. ASSUME NEW p \in Node
      PROVE  mTree'[p].data \in pushed \cup {d}
             /\ \/ mTree'[p].data = mTree[p].data
                \/ OnWay(p, e) /\ carried[Toward(p, e)] = mTree[p].data
  <2>1. /\ OnWay(p, e) => mTree'[p] = [data |-> Higher(carried[p], mTree[p].data),
                                       size |-> mTree[p].size + 1]
        /\ ~OnWay(p, e) => mTree'[p] = mTree[p]
    BY PushAt
  <2>2. mTree[p].data \in pushed
    BY NodeData
  <2>3. CASE OnWay(p, e)
    <3>1. carried[p] \in pushed \cup {d}
      BY <2>3, PushTree
    <3>2. carried[Toward(p, e)] = Lower(carried[p], mTree[p].data)
      BY <2>3 DEF Pushing
    <3>3. mTree'[p].data = Higher(carried[p], mTree[p].data)
      BY <2>1, <2>3
    <3>. QED  BY <2>2, <2>3, <3>1, <3>2, <3>3 DEF Higher, Lower
  <2>. QED  BY <2>1, <2>2, <2>3
<1>3. ASSUME NEW x \in pushed \cup {d} PROVE \E q \in Node' : mTree'[q].data = x
  <2>1. CASE x = d
    <3>1. Top \in Place /\ (Top = e \/ OnWay(Top, e)) /\ carried[Top] = d
      BY <1>1, EmptySeq, WayOrder DEF Place, Top, Pushing
    <3>. QED  BY <2>1, <3>1, CarriedStays
  <2>2. CASE x \in pushed
    <3>1. PICK p \in Node : mTree[p].data = x
      BY <2>2 DEF HeapInv, Holding
    <3>2. CASE mTree'[p].data = x
      BY <1>1, <3>2
    <3>3. CASE OnWay(p, e) /\ carried[Toward(p, e)] = x
      <4>1. Toward(p, e) \in Place /\ (Toward(p, e) = e \/ OnWay(Toward(p, e), e))
        BY <1>1, <3>3, NodeData, WayNext
      <4>. QED  BY <3>3, <4>1, CarriedStays
    <3>. QED  BY <1>2, <3>1, <3>2, <3>3
  <2>. QED  BY <2>1, <2>2
<1>4. {mTree'[p].data : p \in Node'} = pushed'
  BY <1>1, <1>2, <1>3
<1>5. pushed' \subseteq Rankable
  BY DEF HeapInv, Holding
<1>6. Cardinality(Node') = Cardinality(Node) + 1 /\ Cardinality(pushed') = Cardinality(pushed) + 1
  BY <1>1, PushedFinite, FS_AddElement DEF HeapInv, Tree
<1>7. Cardinality(Node) = Cardinality(pushed) /\ SizeAt(Top) = Cardinality(pushed)
  BY DEF HeapInv, Holding
<1>8. SizeAt(Top)' = SizeAt(Top) + 1
  <2>0. SizeAt(Top)' = IF Top \in Node' THEN mTree'[Top].size ELSE 0
    BY DEF SizeAt, Top
  <2>1. CASE Top = e
    <3>1. SizeAt(Top) = 0 /\ mTree'[Top].size = 1
      BY <1>1, <2>1 DEF SizeAt
    <3>. QED  BY <1>1, <2>0, <2>1, <3>1
  <2>2. CASE Top # e
    <3>1. OnWay(Top, e) /\ Top \in Node
      BY <1>1, <2>2, EmptySeq, WayOrder, FreePlace DEF Place, Top
    <3>2. mTree'[Top] = [data |-> Higher(carried[Top], mTree[Top].data),
                         size |-> mTree[Top].size + 1]
      BY <3>1, PushAt
    <3>. QED  BY <1>1, <2>0, <3>1, <3>2 DEF SizeAt
  <2>. QED  BY <2>1, <2>2
<1>. QED  BY <1>4, <1>5, <1>6, <1>7, <1>8 DEF Holding

LEMMA HeapPushInv ==
  ASSUME HeapInv, NEW d \in Rankable, HeapPush(d)
  PROVE  HeapInv'
<1>0. PICK e \in Free : PushNode(d, e)
  BY DEF HeapPush
<1>1. PICK carried : Pushing(d, e, carried)
  BY <1>0 DEF PushNode, Pushing
<1>2. d \notin pushed /\ pushed' = pushed \cup {d} /\ UNCHANGED heapRank
  BY DEF HeapPush
<1>3. Tree'
  BY <1>1, PushTree
<1>4. Holding'
  BY <1>1, <1>2, PushHolding
<1>5. Sized'
  BY <1>1, PushSized
<1>6. Ordered'
  BY <1>1, <1>2, PushOrdered
<1>. QED  BY <1>2, <1>3, <1>4, <1>5, <1>6 DEF HeapInv
-----------------------------------------------------------------------------
(* pop *)

\* The leaf that goes, and what is on the way to it
LEMMA LeafPlace ==
  ASSUME HeapInv, NEW t \in Node, NEW e \in Node, PopNode(t, e)
  PROVE  /\ e \in Place /\ t \in Place /\ Top \in Place /\ mTree[e].size = 1
         /\ \A p \in Place : OnWay(p, e) => p \in Node
         /\ \A p \in Node : ~OnWay(e, p)
         /\ t = e \/ OnWay(t, e)
         /\ e = Top => Node = {e}
<1>1. Node \subseteq Place /\ \A q \in Node, p \in Place : OnWay(p, q) => p \in Node
  BY DEF HeapInv, Tree
<1>2. e \in Place /\ t \in Place /\ Top \in Place
  BY <1>1, EmptySeq DEF Place, Top
<1>3. \A side \in Side : Child(e, side) \notin Node
  BY DEF PopNode, HasChild
<1>4. mTree[e].size = 1
  BY <1>3 DEF HeapInv, Sized, SizeAt, Side
<1>5. ASSUME NEW p \in Node, OnWay(e, p) PROVE FALSE
  <2>1. PICK side \in Side : Toward(e, p) = Child(e, side)
    BY <1>1, <1>5, WayNext
  <2>2. Toward(e, p) \in Place /\ (Toward(e, p) = p \/ OnWay(Toward(e, p), p))
    BY <1>1, <1>5, WayNext
  <2>. QED  BY <1>1, <1>3, <2>1, <2>2
<1>6. t = e \/ OnWay(t, e)
  BY DEF PopNode
<1>7. e = Top => Node = {e}
  BY <1>1, <1>5, WayOrder
<1>. QED  BY <1>1, <1>2, <1>4, <1>5, <1>6, <1>7

LEMMA PopAt ==
  ASSUME HeapInv, NEW t \in Node, NEW e \in Node, PopNode(t, e), NEW p \in Node, p # e
  PROVE  /\ p \in Node'
         /\ ~OnWay(p, e) => mTree'[p] = mTree[p]
         /\ OnWay(p, e) => mTree'[p].size = mTree[p].size - 1
         /\ OnWay(p, e) /\ OnWay(p, t) => mTree'[p].data = mTree[p].data
         /\ OnWay(p, e) /\ ~OnWay(p, t) => mTree'[p].data = mTree[Toward(p, e)].data
<1>1. p \in Node \ {e}
  OBVIOUS
<1>2. Node' = Node \ {e}
  BY DEF PopNode, Node
<1>3. ~OnWay(p, e) => mTree'[p] = mTree[p]
  BY <1>1 DEF PopNode
<1>4. OnWay(p, e) => mTree'[p] =
         [data |-> IF OnWay(p, t) THEN mTree[p].data ELSE mTree[Toward(p, e)].data,
          size |-> mTree[p].size - 1]
  BY <1>1 DEF PopNode
<1>. QED  BY <1>1, <1>2, <1>3, <1>4

LEMMA PopTree ==
  ASSUME HeapInv, NEW t \in Node, NEW e \in Node, PopNode(t, e)
  PROVE  Node' = Node \ {e} /\ Tree'
<1>1. Node' = Node \ {e}
  BY DEF PopNode, Node
<1>2. Node' \subseteq Place /\ IsFiniteSet(Node')
  BY <1>1, FS_Subset DEF HeapInv, Tree
<1>3. ASSUME NEW p \in Node' PROVE mTree'[p] \in [data : Rankable, size : Nat]
  <2>1. p \in Node /\ p # e /\ mTree[p] \in [data : Rankable, size : Nat]
    BY <1>1 DEF HeapInv, Tree
  <2>2. CASE OnWay(p, e)
    <3>1. PICK x : x = IF OnWay(p, t) THEN mTree[p].data ELSE mTree[Toward(p, e)].data
      OBVIOUS
    <3>2. x \in Rankable
      <4>1. Toward(p, e) \in Node
        BY <2>1, <2>2, LeafPlace, NodeData, WayNext
      <4>. QED  BY <2>1, <3>1, <4>1, NodeData
    <3>3. mTree[p].size - 1 \in Nat
      <4>1. \A q \in Node : mTree[q].size \in Nat
        BY NodeData
      <4>2. \A q : SizeAt(q) \in Nat
        BY <4>1 DEF SizeAt
      <4>. QED  BY <2>1, <4>2 DEF HeapInv, Sized
    <3>4. mTree'[p] = [data |-> x, size |-> mTree[p].size - 1]
      BY <1>1, <2>1, <2>2, <3>1 DEF PopNode
    <3>. QED  BY <3>2, <3>3, <3>4
  <2>3. CASE ~OnWay(p, e)
    BY <2>1, <2>3, PopAt
  <2>. QED  BY <2>2, <2>3
<1>4. mTree' \in [Node' -> [data : Rankable, size : Nat]]
  <2>1. mTree' = [p \in Node' |-> mTree'[p]]
    BY <1>1 DEF PopNode
  <2>. QED  BY <1>3, <2>1
<1>5. ASSUME NEW q \in Node', NEW p \in Place, OnWay(p, q) PROVE p \in Node'
  <2>1. p \in Node
    BY <1>1, <1>5 DEF HeapInv, Tree
  <2>2. p # e
    BY <1>1, <1>5, LeafPlace
  <2>. QED  BY <1>1, <2>1, <2>2
<1>. QED  BY <1>1, <1>2, <1>4, <1>5 DEF Tree

LEMMA PopSized ==
  ASSUME HeapInv, NEW t \in Node, NEW e \in Node, PopNode(t, e)
  PROVE  Sized'
<1>1. Node' = Node \ {e} /\ mTree[e].size = 1 /\ e \in Place
  BY PopTree, LeafPlace
<1>2. \A p \in Node : p \in Place /\ mTree[p].size \in Nat
  BY NodeData
<1>3. \A p \in Node \ {e} :
        mTree'[p].size = IF OnWay(p, e) THEN mTree[p].size - 1 ELSE mTree[p].size
  BY PopAt
<1>4. ASSUME NEW q \in Place
      PROVE  /\ SizeAt(q) \in Nat
             /\ SizeAt(q)' = IF q = e \/ OnWay(q, e) THEN SizeAt(q) - 1 ELSE SizeAt(q)
  <2>1. OnWay(q, e) => q \in Node
    BY LeafPlace
  <2>2. SizeAt(q)' = IF q \in Node' THEN mTree'[q].size ELSE 0
    BY DEF SizeAt
  <2>. QED  BY <1>1, <1>2, <1>3, <2>1, <2>2 DEF SizeAt
<1>. SUFFICES ASSUME NEW p \in Node'
              PROVE  mTree'[p].size = 1 + SizeAt(Child(p, "left"))' + SizeAt(Child(p, "right"))'
  BY DEF Sized, Child
<1>5. p \in Node /\ p # e /\ p \in Place /\ "left" \in Side /\ "right" \in Side /\ "left" # "right"
  BY <1>1, <1>2 DEF Side
<1>6. PICK l, r : l = Child(p, "left") /\ r = Child(p, "right")
  OBVIOUS
<1>7. l \in Place /\ r \in Place /\ l # r
  BY <1>5, <1>6, ChildOf, ChildOnce
<1>8. mTree[p].size = 1 + SizeAt(l) + SizeAt(r)
  BY <1>5, <1>6 DEF HeapInv, Sized
<1>9. CASE OnWay(p, e)
  <2>1. \/ Toward(p, e) = l /\ (l = e \/ OnWay(l, e)) /\ ~(r = e \/ OnWay(r, e))
        \/ Toward(p, e) = r /\ (r = e \/ OnWay(r, e)) /\ ~(l = e \/ OnWay(l, e))
    <3>1. /\ Toward(p, e) = e \/ OnWay(Toward(p, e), e)
          /\ Toward(p, e) = l \/ Toward(p, e) = r
      BY <1>1, <1>5, <1>6, <1>9, WayNext DEF Side
    <3>2. (l = e \/ OnWay(l, e) => Toward(p, e) = l) /\ (r = e \/ OnWay(r, e) => Toward(p, e) = r)
      BY <1>1, <1>5, <1>6, WayChild
    <3>. QED  BY <1>7, <3>1, <3>2
  <2>. QED  BY <1>3, <1>4, <1>5, <1>6, <1>7, <1>8, <1>9, <2>1
<1>10. CASE ~OnWay(p, e)
  <2>1. ~(l = e \/ OnWay(l, e)) /\ ~(r = e \/ OnWay(r, e))
    BY <1>1, <1>5, <1>6, <1>10, WayChild
  <2>. QED  BY <1>3, <1>4, <1>5, <1>6, <1>7, <1>8, <1>10, <2>1
<1>. QED  BY <1>9, <1>10

LEMMA PopOrdered ==
  ASSUME HeapInv, NEW t \in Node, NEW e \in Node, PopNode(t, e), UNCHANGED heapRank
  PROVE  Ordered'
<1> DEFINE Rk(x) == heapRank[x]
           New(p) == Rk(mTree'[p].data)
           Old(p) == Rk(mTree[p].data)
<1>1. Node' = Node \ {e} /\ e \in Place
  BY PopTree, LeafPlace
<1>2. \A p \in Node : p \in Place /\ Old(p) \in Int
  BY NodeData
<1>3. ASSUME NEW p \in Node, NEW side \in Side, Child(p, side) \in Node
      PROVE  Old(Child(p, side)) <= Old(p)
  <2>1. ~OutRanks(mTree[Child(p, side)].data, mTree[p].data)
    BY <1>3 DEF HeapInv, Ordered, HasChild
  <2>. QED  BY <1>2, <1>3, <2>1 DEF OutRanks
<1>4. ASSUME NEW p \in Node, OnWay(p, e)
      PROVE  /\ Toward(p, e) \in Node /\ Old(Toward(p, e)) <= Old(p)
             /\ Toward(p, e) = e \/ OnWay(Toward(p, e), e)
  <2>1. PICK side \in Side : Toward(p, e) = Child(p, side)
    BY <1>1, <1>2, <1>4, WayNext
  <2>2. Toward(p, e) \in Place /\ (Toward(p, e) = e \/ OnWay(Toward(p, e), e))
    BY <1>1, <1>2, <1>4, WayNext
  <2>3. Toward(p, e) \in Node
    BY <2>2, LeafPlace
  <2>. QED  BY <1>3, <2>1, <2>2, <2>3
\* No node gets data that rank higher.
<1>5. ASSUME NEW p \in Node' PROVE New(p) <= Old(p) /\ New(p) \in Int
  <2>1. p \in Node /\ p # e
    BY <1>1
  <2>2. CASE ~OnWay(p, e) \/ OnWay(p, t)
    <3>1. mTree'[p].data = mTree[p].data
      BY <2>1, <2>2, PopAt
    <3>. QED  BY <1>2, <2>1, <3>1
  <2>3. CASE OnWay(p, e) /\ ~OnWay(p, t)
    <3>1. mTree'[p].data = mTree[Toward(p, e)].data
      BY <2>1, <2>3, PopAt
    <3>. QED  BY <1>2, <1>4, <2>1, <2>3, <3>1
  <2>. QED  BY <2>2, <2>3
<1>. SUFFICES ASSUME NEW p \in Node', NEW side \in Side, HasChild(p, side)'
              PROVE  ~(New(Child(p, side)) > New(p))
  BY DEF Ordered, OutRanks, Child
<1>6. PICK c : c = Child(p, side)
  OBVIOUS
<1>7. p \in Node /\ p # e /\ p \in Place /\ c \in Node' /\ c \in Node /\ c # e /\ OnWay(p, c)
  BY <1>1, <1>2, <1>6, ChildOf DEF HasChild, Child
<1>8. New(c) <= Old(c) /\ New(c) \in Int /\ Old(c) <= Old(p) /\ Old(p) \in Int /\ Old(c) \in Int
  BY <1>2, <1>3, <1>5, <1>6, <1>7
<1>9. CASE ~OnWay(p, e) \/ OnWay(p, t)
  <2>1. New(p) = Old(p)
    BY <1>7, <1>9, PopAt
  <2>. QED  BY <1>6, <1>8, <2>1
<1>10. CASE OnWay(p, e) /\ ~OnWay(p, t)
  <2>1. New(p) = Old(Toward(p, e))
    BY <1>7, <1>10, PopAt
  <2>2. CASE c = Toward(p, e)
    BY <1>6, <1>8, <2>1, <2>2
  <2>3. CASE c # Toward(p, e)
    <3>1. Toward(p, e) = Child(p, PopSide(p)) /\ Child(p, PopSide(p)) \in Node
      BY <1>4, <1>7, <1>10 DEF PopNode
    <3>2. Old(c) <= Old(Child(p, PopSide(p)))
      <4>1. HasChild(p, "left") /\ HasChild(p, "right") /\ side # PopSide(p)
        BY <1>6, <1>7, <2>3, <3>1 DEF HasChild, Side, PopSide
      <4>2. /\ Old(Child(p, "left")) \in Int /\ Old(Child(p, "right")) \in Int
            /\ PopSide(p) = IF Old(Child(p, "left")) > Old(Child(p, "right"))
                            THEN "left" ELSE "right"
        BY <1>2, <4>1 DEF HasChild, PopSide, OutRanks
      <4>. QED  BY <1>6, <4>1, <4>2 DEF Side
    <3>3. Old(Child(p, PopSide(p))) \in Int
      BY <1>2, <3>1
    <3>. QED  BY <1>6, <1>8, <2>1, <3>1, <3>2, <3>3
  <2>. QED  BY <2>2, <2>3
<1>. QED  BY <1>9, <1>10

LEMMA PopHolding ==
  ASSUME HeapInv, NEW t \in Node, NEW e \in Node, PopNode(t, e),
         pushed' = pushed \ {mTree[t].data}
  PROVE  Holding'
<1>1. Node' = Node \ {e} /\ e \in Place /\ t \in Place /\ (t = e \/ OnWay(t, e))
  BY PopTree, LeafPlace
<1>2. \A p \in Node : p \in Place /\ mTree[p].data \in pushed
  BY NodeData
<1>3. ASSUME NEW p \in Node', NEW q \in Node, q # t, mTree'[p].data = mTree[q].data
      PROVE  mTree'[p].data \in pushed'
  BY <1>2, <1>3, DataOnce
<1>4. ASSUME NEW p \in Node' PROVE mTree'[p].data \in pushed'
  <2>1. p \in Node /\ p # e /\ p \in Place
    BY <1>1, <1>2
  <2>2. CASE ~OnWay(p, e) \/ OnWay(p, t)
    <3>1. mTree'[p].data = mTree[p].data
      BY <2>1, <2>2, PopAt
    <3>2. p # t
      BY <1>1, <2>1, <2>2, WayOrder
    <3>. QED  BY <1>3, <2>1, <3>1, <3>2
  <2>3. CASE OnWay(p, e) /\ ~OnWay(p, t)
    <3>1. mTree'[p].data = mTree[Toward(p, e)].data
      BY <2>1, <2>3, PopAt
    <3>2. OnWay(p, Toward(p, e)) /\ Toward(p, e) \in Place
            /\ (Toward(p, e) = e \/ OnWay(Toward(p, e), e))
      BY <1>1, <2>1, <2>3, WayNext
    <3>3. Toward(p, e) # t /\ Toward(p, e) \in Node
      BY <2>3, <3>2, LeafPlace
    <3>. QED  BY <1>3, <3>1, <3>3
  <2>. QED  BY <2>2, <2>3
<1>5. ASSUME NEW q \in Node, q # t PROVE \E p \in Node' : mTree'[p].data = mTree[q].data
  <2>1. CASE q # e /\ (~OnWay(q, e) \/ OnWay(q, t))
    BY <1>1, <2>1, PopAt
  <2>2. CASE (q = e \/ OnWay(q, e)) /\ ~OnWay(q, t)
    <3>1. q # Top
      BY <1>1, <1>5, <2>2, WayOrder
    <3>2. PICK p \in Place, side \in Side : q = Child(p, side)
      BY <1>2, <3>1, WayParent
    <3>3. OnWay(p, e) /\ Toward(p, e) = q
      BY <1>1, <2>2, <3>2, WayChild
    <3>4. p \in Node /\ p # e
      BY <1>1, <3>3, LeafPlace, WayOrder
    <3>5. ~OnWay(p, t)
      <4>. SUFFICES ASSUME OnWay(p, t) PROVE FALSE
        OBVIOUS
      <4>1. PICK y : y = Toward(p, t)
        OBVIOUS
      <4>2. /\ y \in Place /\ (y = t \/ OnWay(y, t))
            /\ \E other \in Side : y = Child(p, other)
        BY <1>1, <4>1, WayNext
      <4>3. y = e \/ OnWay(y, e)
        BY <1>1, <4>2, WayOrder
      <4>4. y = q
        BY <1>1, <3>3, <4>2, <4>3, WayChild
      <4>. QED  BY <1>5, <2>2, <4>2, <4>4
    <3>. QED  BY <3>3, <3>4, <3>5, PopAt
  <2>3. CASE q = e /\ OnWay(q, t)
    BY <1>1, <2>3, WayOrder
  <2>. QED  BY <2>1, <2>2, <2>3
<1>6. {mTree'[p].data : p \in Node'} = pushed'
  <2>1. \A x \in pushed' : \E q \in Node : q # t /\ mTree[q].data = x
    BY DEF HeapInv, Holding
  <2>. QED  BY <1>4, <1>5, <2>1
<1>7. pushed' \subseteq Rankable
  BY DEF HeapInv, Holding
<1>8. Cardinality(Node') = Cardinality(Node) - 1 /\ Cardinality(pushed') = Cardinality(pushed) - 1
  BY <1>1, <1>2, PushedFinite, FS_RemoveElement DEF HeapInv, Tree
<1>9. Cardinality(Node) = Cardinality(pushed) /\ SizeAt(Top) = Cardinality(pushed)
  BY DEF HeapInv, Holding
<1>10. SizeAt(Top)' = SizeAt(Top) - 1
  <2>1. SizeAt(Top)' = IF Top \in Node' THEN mTree'[Top].size ELSE 0
    BY DEF SizeAt, Top
  <2>2. CASE Top = e
    <3>1. SizeAt(Top) = 1 /\ Top \notin Node'
      BY <1>1, <2>2, LeafPlace DEF SizeAt
    <3>. QED  BY <2>1, <3>1
  <2>3. CASE Top # e
    <3>1. OnWay(Top, e) /\ Top \in Node
      BY <1>1, <2>3, LeafPlace, WayOrder
    <3>2. mTree'[Top].size = mTree[Top].size - 1 /\ Top \in Node'
      BY <2>3, <3>1, PopAt
    <3>. QED  BY <2>1, <3>1, <3>2 DEF SizeAt
  <2>. QED  BY <2>2, <2>3
<1>. QED  BY <1>6, <1>7, <1>8, <1>9, <1>10 DEF Holding

LEMMA PopInv ==
  ASSUME HeapInv, NEW t \in Node, NEW e \in Node, PopNode(t, e),
         pushed' = pushed \ {mTree[t].data}, UNCHANGED heapRank
  PROVE  HeapInv'
<1>1. Tree' /\ Holding' /\ Sized' /\ Ordered'
  BY PopTree, PopHolding, PopSized, PopOrdered
<1>. QED  BY <1>1 DEF HeapInv

\* What is in the heap is found, since no object on the way to it is outranked by it.
LEMMA PushedFound ==
  ASSUME HeapInv, NEW d \in pushed
  PROVE  Holders(d) # {}
<1>1. PICK q \in Node : mTree[q].data = d
  BY DEF HeapInv, Holding
<1>2. ASSUME NEW p \in Node, OnWay(p, q) PROVE mTree[p].data # d /\ MayBeBelow(p, d)
  <2>1. p # q
    BY <1>2, NodeData, WayOrder
  <2>2. ~OutRanks(mTree[q].data, mTree[p].data)
    BY <1>2, NoneBelowOutranks
  <2>. QED  BY <1>1, <2>1, <2>2, DataOnce DEF MayBeBelow
<1>. QED  BY <1>1, <1>2 DEF Holders

LEMMA HeapRemoveInv ==
  ASSUME HeapInv, NEW d \in Rankable, HeapRemove(d)
  PROVE  HeapInv'
<1>1. pushed' = pushed \ {d} /\ UNCHANGED heapRank
  BY DEF HeapRemove
<1>2. CASE Holders(d) = {}
  <2>1. d \notin pushed
    BY <1>2, PushedFound
  <2>2. UNCHANGED <<mTree, heapRank, pushed>>
    BY <1>1, <1>2, <2>1 DEF HeapRemove
  <2>. QED  BY <2>2 DEF HeapInv, Tree, Holding, Sized, Ordered, Node, SizeAt, HasChild, OutRanks
<1>3. CASE Holders(d) # {}
  <2>1. PICK t \in Holders(d), e \in Node : PopNode(t, e)
    BY <1>3 DEF HeapRemove
  <2>2. t \in Node /\ mTree[t].data = d
    BY <2>1 DEF Holders
  <2>. QED  BY <1>1, <2>1, <2>2, PopInv
<1>. QED  BY <1>2, <1>3

LEMMA HeapStepInv == HeapInv /\ [HeapNext]_heapVars => HeapInv'
<1>. SUFFICES ASSUME HeapInv, [HeapNext]_heapVars PROVE HeapInv'
  OBVIOUS
<1>1. CASE HeapPop
  BY <1>1, PopInv DEF HeapPop
<1>2. ASSUME NEW d \in Rankable, HeapPush(d) PROVE HeapInv'
  BY <1>2, HeapPushInv
<1>3. ASSUME NEW d \in Rankable, HeapRemove(d) PROVE HeapInv'
  BY <1>3, HeapRemoveInv
<1>4. CASE UNCHANGED heapVars
  BY <1>4 DEF heapVars, HeapInv, Tree, Holding, Sized, Ordered, Node, SizeAt, HasChild, OutRanks
<1>. QED  BY <1>1, <1>2, <1>3, <1>4 DEF HeapNext

\* Whatever is pushed, popped and removed in any order, the heap holds what was pushed
\* and not taken out, each object once, every subtree knows its size, and no object
\* outranks one above it, so that remove() finds what is there and pop() returns a
\* highest one (LocHeap.cpp).
THEOREM TopIsHighest == HeapSpec => []HeapServesHighest
<1>1. HeapSpec => []HeapInv
  BY HeapInitInv, HeapStepInv, PTL DEF HeapSpec
<1>. QED  BY <1>1, HeapInvServes, PTL
=============================================================================
