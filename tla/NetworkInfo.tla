----------------------------- MODULE NetworkInfo -----------------------------
(***************************************************************************)
(* Which networks are up (SystemStatusNetworkInfo in gps/core/             *)
(* SystemStatus.h and its cache in SystemStatus.cpp).                      *)
(*                                                                         *)
(* The framework tells of one network at a time; every event is posted to  *)
(* the MsgTask, which collates it with the latest cached item: the table   *)
(* of handles and the mask of types of all networks.  A changed item goes  *)
(* to the end of the cache, of which the oldest is dropped, and on to the  *)
(* observers.  When the framework dies its thread walks the cache, while   *)
(* the MsgTask changes it, and posts a disconnection of every item.        *)
(*                                                                         *)
(* A network keeps its type here, and it is one the code has a bit for, as *)
(* updateNetworkState_2_0 passes it.  The walk reads one item of the cache *)
(* at a time, each whole; the code reads them without the lock.            *)
(***************************************************************************)
EXTENDS Naturals, Sequences, SequencesExt, FiniteSets, FiniteSetsExt

CONSTANTS
  Network,          \* network handles
  NetType,          \* TYPE_MOBILE, TYPE_WIFI
  NoNetwork,        \* NETWORK_HANDLE_UNKNOWN
  MaxHandles,       \* MAX_NETWORK_HANDLES, 10
  MaxItem,          \* SystemStatusItemBase::maxItem, 5
  MaxNetEvents      \* bound: events of the framework, and deaths

ASSUME NetworkAssumption ==
  /\ NoNetwork \notin Network
  /\ MaxHandles \in Nat \ {0} /\ MaxItem \in Nat \ {0} /\ MaxNetEvents \in Nat

VARIABLES
  typeOf,           \* the type of each network
  netMsgs,          \* posted events: the network and whether it is connected
  mNetworkInfo,     \* mCache.mNetworkInfo, the latest last
  resetting,        \* the next item of the walk of resetNetworkInfo, 0 if none
  netEvents,        \* events so far
  netUp,            \* history: networks connected by the events handled
  netMissed,        \* history: those that connected while the table was full
  netFirst          \* history: the network of the first event if that was a
                    \* disconnection, until it is heard of again

netVars == <<typeOf, netMsgs, mNetworkInfo, resetting, netEvents, netUp, netMissed,
             netFirst>>

NetworkInfoInit ==
  /\ typeOf \in [Network -> NetType]
  /\ netMsgs = <<>> /\ mNetworkInfo = <<>> /\ resetting = 0 /\ netEvents = 0
  /\ netUp = {} /\ netMissed = {} /\ netFirst = NoNetwork
-----------------------------------------------------------------------------
Slot == 1..MaxHandles
EmptyTable == [i \in Slot |-> NoNetwork]
InTable(table) == {table[i] : i \in Slot} \ {NoNetwork}
\* A slot that is free or holds n: the first is where the search of n ends.
Stop(table, n) == {i \in Slot : table[i] \in {n, NoNetwork}}
Leading(table) == {i \in Slot : \A j \in 1..i : table[j] # NoNetwork}
\* An item of the cache: what was reported, and of all networks
NetItem(n, connected, table, types) ==
  [network |-> n, connected |-> connected, handles |-> table, types |-> types]

\* n is connected: it takes the first free slot unless it has one.
AddHandle(table, n) ==
  IF Stop(table, n) = {} THEN table ELSE [table EXCEPT ![Min(Stop(table, n))] = n]

\* (mutant) the slot is freed and nothing moves into it
ClearHandle(table, n) ==
  IF n \notin InTable(table) THEN table
  ELSE [table EXCEPT ![CHOOSE i \in Slot : table[i] = n] = NoNetwork]
\* n is disconnected: the last handle takes its slot.
RemoveHandle(table, n) ==
  LET last == Max(Leading(table) \cup {1})
      freed == {i \in Leading(table) : table[i] = n} IN
    IF freed = {} THEN table
    ELSE [table EXCEPT ![Max(freed)] = table[last], ![last] = NoNetwork]

\* The mask after n went: its type is taken out if no other handle has it,
\* and is all that is left otherwise.
TypesWithout(cur, n) ==
  IF \E m \in InTable(cur.handles) \ {n} : typeOf[m] = typeOf[n]
    THEN {typeOf[n]} ELSE cur.types \ {typeOf[n]}

Collate(n, connected, cur) ==
  IF connected
    THEN NetItem(n, TRUE, AddHandle(cur.handles, n), cur.types \cup {typeOf[n]})
    ELSE NetItem(n, FALSE, RemoveHandle(cur.handles, n), TypesWithout(cur, n))

\* setIteminReport: the first item is taken as it comes, one that changes
\* neither handles nor connected is dropped, and the cache has MaxItem items.
SetItem(n, connected) ==
  IF mNetworkInfo = <<>>
    THEN <<NetItem(n, connected, [EmptyTable EXCEPT ![1] = n], {typeOf[n]})>>
    ELSE LET cur == Last(mNetworkInfo)
             item == Collate(n, connected, cur)
             longer == Append(mNetworkInfo, item) IN
      IF item.connected = cur.connected /\ item.handles = cur.handles
        THEN mNetworkInfo
        ELSE IF Len(longer) > MaxItem THEN Tail(longer) ELSE longer
-----------------------------------------------------------------------------
PostNetwork(n, connected) ==
  netMsgs' = Append(netMsgs, [network |-> n, connected |-> connected])

\* eventConnectionStatus
ConnectionStatus(n, connected) ==
  /\ netEvents < MaxNetEvents /\ netEvents' = netEvents + 1
  /\ PostNetwork(n, connected)
  /\ UNCHANGED <<typeOf, mNetworkInfo, resetting, netUp, netMissed, netFirst>>

\* resetNetworkInfo
FrameworkDies ==
  /\ resetting = 0 /\ netEvents < MaxNetEvents
  /\ netEvents' = netEvents + 1 /\ resetting' = 1
  /\ UNCHANGED <<typeOf, netMsgs, mNetworkInfo, netUp, netMissed, netFirst>>

ResetItem ==
  /\ resetting # 0
  /\ \/ /\ resetting <= Len(mNetworkInfo)
        /\ PostNetwork(mNetworkInfo[resetting].network, FALSE)
        /\ resetting' = resetting + 1
     \/ /\ resetting > Len(mNetworkInfo)
        /\ resetting' = 0 /\ UNCHANGED netMsgs
  /\ UNCHANGED <<typeOf, mNetworkInfo, netEvents, netUp, netMissed, netFirst>>

\* What the events handled say, for the properties
NetworkHistory(n, connected) ==
  /\ netUp' = IF connected THEN netUp \cup {n} ELSE netUp \ {n}
  /\ netMissed' = IF connected /\ mNetworkInfo # <<>>
                     /\ Stop(Last(mNetworkInfo).handles, n) = {}
                  THEN netMissed \cup {n} ELSE netMissed \ {n}
  /\ netFirst' = IF mNetworkInfo = <<>> /\ ~connected THEN n
                 ELSE IF n = netFirst THEN NoNetwork ELSE netFirst

\* HandleNotify::proc, updateCache and eventDataItemNotify of one item
NotifyNetwork ==
  /\ netMsgs # <<>> /\ netMsgs' = Tail(netMsgs)
  /\ LET m == Head(netMsgs) IN
       /\ mNetworkInfo' = SetItem(m.network, m.connected)
       /\ NetworkHistory(m.network, m.connected)
  /\ UNCHANGED <<typeOf, resetting, netEvents>>

NetworkInfoNext ==
  \/ \E n \in Network, connected \in BOOLEAN : ConnectionStatus(n, connected)
  \/ FrameworkDies \/ ResetItem \/ NotifyNetwork
-----------------------------------------------------------------------------
NetworkInfoTypeOK ==
  /\ typeOf \in [Network -> NetType]
  /\ netMsgs \in Seq([network : Network, connected : BOOLEAN])
  /\ mNetworkInfo \in Seq([network : Network, connected : BOOLEAN,
                           handles : [Slot -> Network \cup {NoNetwork}],
                           types : SUBSET NetType])
  /\ Len(mNetworkInfo) <= MaxItem
  /\ resetting \in 0..(MaxItem + 1) /\ netEvents \in 0..MaxNetEvents
  /\ netUp \subseteq Network /\ netMissed \subseteq netUp
  /\ netFirst \in Network \cup {NoNetwork}

\* The table the observers get has no hole and no handle twice.  It holds the
\* networks that the events handled so far have connected, but for those that
\* found it full; nothing else is in it except the network of the very first
\* event, which is entered even if the event says that it is gone.
HandlesFollowNetworks ==
  mNetworkInfo # <<>> =>
    LET table == Last(mNetworkInfo).handles IN
      /\ \A i, j \in Leading(table) : table[i] = table[j] => i = j
      /\ InTable(table) = {table[i] : i \in Leading(table)}
      /\ InTable(table) = (netUp \ netMissed) \cup ({netFirst} \ {NoNetwork})

\* "we keep mAllTypes as 0, which means no more connections"
\* (SystemStatus.h:567): an empty mask is never told while a network is up.
NoTypesMeansNoConnection ==
  mNetworkInfo # <<>> /\ Last(mNetworkInfo).types = {} => netUp = {}
=============================================================================
