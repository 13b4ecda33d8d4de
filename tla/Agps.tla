------------------------------- MODULE Agps -------------------------------
(***************************************************************************)
(* Assistance data connections (gps/gnss/Agps.cpp).                        *)
(*                                                                         *)
(* The modem asks for a connection by handle, and releases it.  The        *)
(* adapter thread keeps the handles in the subscriber list of one state    *)
(* machine, which asks the Android framework for a single data call while  *)
(* the list is not empty.  The framework answers on threads of its own, so *)
(* an answer can arrive after the machine has moved on.                    *)
(*                                                                         *)
(* The machine is the one for SUPL: the HIDL service never creates the one *)
(* for WWAN_ANY.  requestATL makes subscribers that do not wait for the    *)
(* call to close, so that none is ever inactive and AGPS_STATE_RELEASING   *)
(* is never entered; that part of the machine is left out.                 *)
(***************************************************************************)
EXTENDS Integers, Sequences, FiniteSets

CONSTANTS
  Handle,           \* connection handles of the modem
  EmergencyPdn,     \* USE_EMERGENCY_PDN_FOR_EMERGENCY_SUPL
  BadApn,           \* whether the framework may open a call with a bad APN name
  MaxRequests,      \* bound: requests of the modem
  MaxLosses         \* bound: calls the network drops

ASSUME AgpsAssumption ==
  /\ EmergencyPdn \in BOOLEAN /\ BadApn \in BOOLEAN
  /\ MaxRequests \in Nat /\ MaxLosses \in Nat

VARIABLES
  (* state machine *)
  state,        \* mState
  subs,         \* mSubscriberList: the handles in it
  type,         \* mAgpsType, with the APN mask set along with it
  adapterQ,     \* the adapter's MsgTask
  (* framework *)
  fwQ,          \* statusV4Cb calls it has not acted on
  call,         \* the data call is up
  losses,       \* calls the network may still drop
  (* modem *)
  requests,     \* requests it may still make
  told,         \* told[h]: what the modem was told of its last request for h
  (* history *)
  askedType,    \* the type the data call was asked for
  joined,       \* those of the requests since then, that one included
  bad           \* the framework has opened a call with a bad name

machine == <<state, subs, type>>
framework == <<call, losses, bad>>
history == <<askedType, joined>>
vars == <<state, subs, type, adapterQ, fwQ, call, losses, requests, told,
          askedType, joined, bad>>
-----------------------------------------------------------------------------
Type == {"SUPL", "SUPL_ES", "WWAN"}
MachineType == {"SUPL", "SUPL_ES"}
Event == {"opened", "failed", "closed"}
OnHandle == [what : {"request", "release"}, handle : Handle, type : Type]
FromFramework == [what : Event]
DataCall == [what : {"request", "release"}, type : MachineType]

\* requestATL: without an emergency PDN an emergency request is a normal one.
EffectiveType(t) == IF t = "SUPL_ES" /\ ~EmergencyPdn THEN "SUPL" ELSE t

\* (mutant) the result of getAgpsStateMachine is not checked
AnyMachine(t) == TRUE
\* getAgpsStateMachine finds one.
HasMachine(t) == t # "WWAN"

\* notifyEventToSubscriber, for every handle of S
Tell(S, what) == told' = [h \in Handle |-> IF h \in S THEN what ELSE told[h]]

\* requestOrReleaseDataConn
DataConn(what, t) == fwQ' = Append(fwQ, [what |-> what, type |-> t])

\* (mutant) subscribers are not deleted after the notification
NotifyAllKeep(what) ==
  /\ state' = "RELEASED" /\ UNCHANGED subs
  /\ Tell(subs, what)
\* notifyAllSubscribers and delete them
NotifyAll(what) ==
  /\ state' = "RELEASED" /\ subs' = {}
  /\ Tell(subs, what)
-----------------------------------------------------------------------------
(* State machine events *)

\* (mutant) setType comes after the event: the data call has the type before
SubscribeFirst(h, t) ==
  /\ subs' = subs \cup {h}
  /\ joined' = {t} \cup IF state = "RELEASED" THEN {} ELSE joined
  /\ \/ /\ state = "RELEASED"
        /\ state' = "PENDING" /\ askedType' = type
        /\ DataConn("request", type)
        /\ UNCHANGED told
     \/ state = "PENDING" /\ UNCHANGED <<state, askedType, fwQ, told>>
     \/ state = "ACQUIRED" /\ Tell({h}, "opened") /\ UNCHANGED <<state, askedType, fwQ>>
\* (mutant) the data call is not asked for
SubscribeQuietly(h, t) ==
  /\ subs' = subs \cup {h}
  /\ joined' = {t} \cup IF state = "RELEASED" THEN {} ELSE joined
  /\ \/ /\ state = "RELEASED"
        /\ state' = "PENDING" /\ askedType' = t
        /\ UNCHANGED <<fwQ, told>>
     \/ state = "PENDING" /\ UNCHANGED <<state, askedType, fwQ, told>>
     \/ state = "ACQUIRED" /\ Tell({h}, "opened") /\ UNCHANGED <<state, askedType, fwQ>>
\* processAgpsEventSubscribe
Subscribe(h, t) ==
  /\ subs' = subs \cup {h}
  /\ joined' = {t} \cup IF state = "RELEASED" THEN {} ELSE joined
  /\ \/ /\ state = "RELEASED"
        /\ state' = "PENDING" /\ askedType' = t
        /\ DataConn("request", t)
        /\ UNCHANGED told
     \/ /\ state = "PENDING"
        /\ UNCHANGED <<state, askedType, fwQ, told>>
     \/ /\ state = "ACQUIRED"
        /\ Tell({h}, "opened")
        /\ UNCHANGED <<state, askedType, fwQ>>

\* (mutant) the state is kept when the last subscriber leaves
UnsubscribeStays(h) ==
  /\ Tell({h}, "closed")
  /\ subs' = subs \ {h}
  /\ IF subs' = {} THEN DataConn("release", type) ELSE UNCHANGED fwQ
  /\ UNCHANGED state
\* processAgpsEventUnsubscribe
Unsubscribe(h) ==
  /\ Tell({h}, "closed")
  /\ IF state = "RELEASED" THEN UNCHANGED <<state, subs, fwQ>>
     ELSE /\ subs' = subs \ {h}
          /\ IF subs' = {} THEN state' = "RELEASED" /\ DataConn("release", type)
             ELSE UNCHANGED <<state, fwQ>>

\* processAgpsEventGranted: unexpected unless pending
Granted ==
  IF state = "PENDING"
  THEN state' = "ACQUIRED" /\ Tell(subs, "opened") /\ UNCHANGED subs
  ELSE UNCHANGED <<state, subs, told>>

\* (mutant) a forced release is not noticed
ReleasedIgnored == UNCHANGED <<state, subs, told>>
\* processAgpsEventReleased: a forced release; nothing happens when pending
Released ==
  IF state = "ACQUIRED" THEN NotifyAll("closed")
  ELSE UNCHANGED <<state, subs, told>>

\* processAgpsEventDenied
Denied ==
  IF state = "PENDING" THEN NotifyAll("denied")
  ELSE UNCHANGED <<state, subs, told>>
-----------------------------------------------------------------------------
(* The adapter thread *)

Head1 == Head(adapterQ)
Take(what) ==
  /\ adapterQ # <<>> /\ Head1.what = what
  /\ adapterQ' = Tail(adapterQ)
  /\ UNCHANGED <<framework, requests>>

\* AgpsManager::requestATL
RequestATL ==
  LET t == EffectiveType(Head1.type)
  IN /\ Take("request")
     /\ \/ /\ ~HasMachine(t)
           /\ Tell({Head1.handle}, "denied")
           /\ UNCHANGED <<machine, history, fwQ>>
        \/ /\ HasMachine(t)
           /\ type' = t
           /\ Subscribe(Head1.handle, t)

\* AgpsManager::releaseATL: an unknown handle is not answered.
ReleaseATL ==
  /\ Take("release")
  /\ \/ Head1.handle \in subs /\ Unsubscribe(Head1.handle)
     \/ Head1.handle \notin subs /\ UNCHANGED <<state, subs, told, fwQ>>
  /\ UNCHANGED <<type, history>>

\* AgpsManager::reportAtlOpenSuccess, reportAtlOpenFailed and reportAtlClosed
ReportATL ==
  /\ \/ Take("opened") /\ Granted
     \/ Take("failed") /\ Denied
     \/ Take("closed") /\ Released
  /\ UNCHANGED <<type, history, fwQ>>
-----------------------------------------------------------------------------
(* The framework: every request is answered, in order *)

Answer(what) == adapterQ' = Append(adapterQ, [what |-> what])

\* A request can fail unless the call is up already.  dataConnOpenCommand
\* refuses a bad name and reports the call closed at once, on the framework's
\* thread.
MakeCall ==
  /\ fwQ # <<>> /\ Head(fwQ).what = "request"
  /\ fwQ' = Tail(fwQ)
  /\ \/ call' = TRUE /\ Answer("opened") /\ UNCHANGED <<bad, state, subs, told>>
     \/ ~call /\ Answer("failed") /\ UNCHANGED <<call, bad, state, subs, told>>
     \/ BadApn /\ call' = TRUE /\ bad' = TRUE /\ Released /\ UNCHANGED adapterQ
  /\ UNCHANGED <<type, history, losses, requests>>

EndCall ==
  /\ fwQ # <<>> /\ Head(fwQ).what = "release"
  /\ fwQ' = Tail(fwQ)
  /\ call' = FALSE /\ Answer("closed")
  /\ UNCHANGED <<machine, told, history, losses, bad, requests>>

LoseCall ==
  /\ call /\ losses > 0
  /\ losses' = losses - 1
  /\ call' = FALSE /\ Answer("closed")
  /\ UNCHANGED <<machine, told, history, bad, requests, fwQ>>
-----------------------------------------------------------------------------
(* The modem: GnssAdapter::requestATL and releaseATL, on the QMI thread *)

Queued(h, whats) ==
  \E i \in 1 .. Len(adapterQ) :
    adapterQ[i].what \in whats /\ adapterQ[i].handle = h
ModemPosts(what, h, t) ==
  /\ adapterQ' = Append(adapterQ, [what |-> what, handle |-> h, type |-> t])
  /\ UNCHANGED <<machine, framework, fwQ, history>>

\* A handle is in use until its request was answered and nothing about it is
\* on its way.
Request(h, t) ==
  /\ requests > 0
  /\ told[h] \notin {"waiting", "opened"} /\ ~Queued(h, {"request", "release"})
  /\ requests' = requests - 1
  /\ Tell({h}, "waiting")
  /\ ModemPosts("request", h, t)

Release(h) ==
  /\ told[h] # "none" /\ ~Queued(h, {"release"})
  /\ ModemPosts("release", h, "SUPL")
  /\ UNCHANGED <<requests, told>>
-----------------------------------------------------------------------------
Init ==
  /\ state = "RELEASED" /\ subs = {} /\ type = "SUPL"
  /\ adapterQ = <<>> /\ fwQ = <<>>
  /\ call = FALSE /\ losses = MaxLosses
  /\ requests = MaxRequests
  /\ told = [h \in Handle |-> "none"]
  /\ askedType = "SUPL" /\ joined = {} /\ bad = FALSE

AdapterThread == RequestATL \/ ReleaseATL \/ ReportATL
Framework == MakeCall \/ EndCall
Modem == \E h \in Handle : Release(h) \/ \E t \in Type : Request(h, t)

Next == AdapterThread \/ Framework \/ LoseCall \/ Modem

Spec == Init /\ [][Next]_vars

\* The MsgTask runs what is in its queue, and the framework acts on every
\* call of its status callback.
FairSpec == Spec /\ WF_vars(AdapterThread) /\ WF_vars(Framework)
-----------------------------------------------------------------------------
(* Properties *)

\* Every variable has its type; the machine never has the type of the one that
\* does not exist.
TypeOK ==
  /\ state \in {"RELEASED", "PENDING", "ACQUIRED"}
  /\ subs \in SUBSET Handle
  /\ type \in MachineType /\ askedType \in MachineType
  /\ joined \subseteq MachineType
  /\ adapterQ \in Seq(OnHandle \cup FromFramework)
  /\ fwQ \in Seq(DataCall)
  /\ call \in BOOLEAN /\ bad \in BOOLEAN
  /\ losses \in Nat /\ requests \in Nat
  /\ told \in [Handle -> {"none", "waiting", "opened", "denied", "closed"}]

\* The list is empty exactly in the released state ("Subscriber list should be
\* empty if we are in released state"), and the modem was told of each handle
\* what the machine's state says: no handle is forgotten while it waits and
\* none is thought open without the machine holding the call.
StatusMatchesState ==
  /\ state = "RELEASED" <=> subs = {}
  /\ \A h \in Handle :
       /\ told[h] = "opened" <=> h \in subs /\ state = "ACQUIRED"
       /\ told[h] = "waiting" <=>
            (h \in subs /\ state = "PENDING") \/ Queued(h, {"request"})

\* A queued request is not queued behind another message about its handle, and
\* its handle is not yet a subscriber.
InOrder ==
  \A j \in 1 .. Len(adapterQ) : \A i \in 1 .. Len(adapterQ) :
    /\ i < j /\ adapterQ[j].what = "request"
    /\ adapterQ[i].what \in {"request", "release"}
    => adapterQ[i].handle # adapterQ[j].handle
RequestsLast == InOrder /\ \A h \in Handle : Queued(h, {"request"}) => h \notin subs

\* A release of the data call names the type it was asked for, whichever handles
\* have joined the list since; unless one of them asked for the other type, as an
\* emergency request does only if there is an emergency PDN, the default: the
\* machine then has the type of the request that came last (requestATL,
\* requestOrReleaseDataConn, gps/gnss/Agps.cpp).
ReleaseNamesRequest ==
  state # "RELEASED" /\ type # askedType => EmergencyPdn /\ joined = MachineType

\* Once nothing is on its way, an acquired connection has its data call, late
\* answers and losses notwithstanding.
AcquiredMeansCallUp ==
  adapterQ = <<>> /\ fwQ = <<>> /\ state = "ACQUIRED" => call

\* Each request of the modem is answered once and an opened connection is only
\* ever closed.
Service == INSTANCE AtlService WITH status <- told
AnsweredOnce == Service!Spec

\* Every request is answered, as long as the framework names its calls well.
RequestAnswered ==
  \A h \in Handle : told[h] = "waiting" ~> (told[h] # "waiting" \/ bad)

\* "If no subscribers in list, release data connection": once nothing is on its
\* way, no data call is up for an empty list.
NoIdleCall == adapterQ = <<>> /\ fwQ = <<>> /\ subs = {} => ~call
=============================================================================
