---------------------------- MODULE Agps_proofs ----------------------------
(* Proofs about the data connections of Agps, for any number of handles,    *)
(* requests and losses.                                                     *)
EXTENDS Agps, QueueLemmas

QMessage == OnHandle \cup FromFramework

USE DEF QMessage

(***************************************************************************)
(* Type correctness                                                        *)
(***************************************************************************)

\* What a handler finds at the head of the adapter's queue.
LEMMA HeadType ==
  ASSUME TypeOK, adapterQ # <<>>
  PROVE  /\ Tail(adapterQ) \in Seq(QMessage)
         /\ Head1.what \in {"request", "release"} =>
              Head1.handle \in Handle /\ Head1.type \in Type
<1>1. adapterQ \in Seq(QMessage)
  BY DEF TypeOK
<1>2. Head(adapterQ) \in QMessage /\ Tail(adapterQ) \in Seq(QMessage)
  BY <1>1, TakeHead
<1>. QED  BY <1>2 DEF Head1, OnHandle, FromFramework, Event

\* The data call messages are of the machine's types.
LEMMA DataConnType ==
  ASSUME TypeOK, NEW what \in {"request", "release"}, NEW t \in MachineType,
         DataConn(what, t)
  PROVE  fwQ' \in Seq(DataCall)
<1>1. [what |-> what, type |-> t] \in DataCall
  BY DEF DataCall
<1>. QED  BY <1>1, PostMessage DEF TypeOK, DataConn

LEMMA EffectiveMachineType ==
  ASSUME NEW t \in Type, HasMachine(EffectiveType(t))
  PROVE  EffectiveType(t) \in MachineType
BY DEF EffectiveType, HasMachine, Type, MachineType

\* A framework answer is a message of the adapter.
LEMMA AnswerType ==
  ASSUME TypeOK, NEW what \in Event, Answer(what)
  PROVE  adapterQ' \in Seq(QMessage)
<1>1. [what |-> what] \in QMessage
  BY DEF FromFramework
<1>. QED  BY <1>1, PostMessage DEF TypeOK, Answer

\* Each handler, framework and modem step keeps every variable in its type.
LEMMA TypeStep == TypeOK /\ [Next]_vars => TypeOK'
<1>. SUFFICES ASSUME TypeOK, [Next]_vars PROVE TypeOK'
  OBVIOUS
<1>1. CASE RequestATL
  <2>. DEFINE t == EffectiveType(Head1.type)
  <2>1. Head1.handle \in Handle /\ Head1.type \in Type /\ adapterQ' \in Seq(QMessage)
    BY <1>1, HeadType DEF RequestATL, Take
  <2>2. CASE ~HasMachine(t)
    BY <1>1, <2>1, <2>2 DEF RequestATL, Take, Tell, machine, history, framework,
                             TypeOK
  <2>3. CASE HasMachine(t)
    <3>1. type' = t /\ Subscribe(Head1.handle, t)
      BY <1>1, <2>3 DEF RequestATL
    <3>2. t \in MachineType
      BY <2>1, <2>3, EffectiveMachineType
    <3>3. /\ fwQ' \in Seq(DataCall) /\ askedType' \in MachineType
          /\ joined' \subseteq MachineType
      BY <3>1, <3>2, DataConnType DEF Subscribe, TypeOK
    <3>4. /\ state' \in {"RELEASED", "PENDING", "ACQUIRED"} /\ subs' \in SUBSET Handle
          /\ told' \in [Handle -> {"none", "waiting", "opened", "denied", "closed"}]
      BY <2>1, <3>1 DEF Subscribe, Tell, TypeOK
    <3>. QED  BY <1>1, <2>1, <3>1, <3>2, <3>3, <3>4 DEF RequestATL, Take, framework, TypeOK
  <2>. QED  BY <2>2, <2>3
<1>2. CASE ReleaseATL
  <2>1. Head1.handle \in Handle /\ adapterQ' \in Seq(QMessage)
    BY <1>2, HeadType DEF ReleaseATL, Take
  <2>2. fwQ' \in Seq(DataCall)
    BY <1>2, <2>1, DataConnType DEF ReleaseATL, Unsubscribe, TypeOK
  <2>. QED  BY <1>2, <2>1, <2>2 DEF ReleaseATL, Unsubscribe, Take, Tell, history, framework,
                                         TypeOK
<1>3. CASE ReportATL
  <2>1. adapterQ' \in Seq(QMessage)
    BY <1>3, HeadType DEF ReportATL, Take
  <2>. QED  BY <1>3, <2>1 DEF ReportATL, Granted, Denied, Released, NotifyAll, Tell,
                               Take, history, framework, TypeOK
<1>4. CASE MakeCall
  <2>1. fwQ' \in Seq(DataCall)
    BY <1>4, TakeHead DEF MakeCall, TypeOK
  <2>2. adapterQ' \in Seq(QMessage)
    BY <1>4, AnswerType DEF MakeCall, Event, TypeOK
  <2>. QED  BY <1>4, <2>1, <2>2 DEF MakeCall, Released, NotifyAll, Tell, history, TypeOK
<1>5. CASE EndCall
  <2>1. fwQ' \in Seq(DataCall)
    BY <1>5, TakeHead DEF EndCall, TypeOK
  <2>2. adapterQ' \in Seq(QMessage)
    BY <1>5, AnswerType DEF EndCall, Event
  <2>. QED  BY <1>5, <2>1, <2>2 DEF EndCall, machine, history, TypeOK
<1>6. CASE LoseCall
  <2>1. adapterQ' \in Seq(QMessage)
    BY <1>6, AnswerType DEF LoseCall, Event
  <2>2. losses' \in Nat
    BY <1>6 DEF LoseCall, TypeOK
  <2>. QED  BY <1>6, <2>1, <2>2, Zenon DEF LoseCall, machine, history, TypeOK
<1>7. ASSUME NEW h \in Handle, Release(h) PROVE TypeOK'
  <2>1. [what |-> "release", handle |-> h, type |-> "SUPL"] \in QMessage
    BY DEF OnHandle, Type
  <2>2. adapterQ' \in Seq(QMessage)
    BY <1>7, <2>1, PostMessage DEF Release, ModemPosts, TypeOK
  <2>. QED  BY <1>7, <2>2 DEF Release, ModemPosts, machine, history, framework, TypeOK
<1>8. ASSUME NEW h \in Handle, NEW t \in Type, Request(h, t) PROVE TypeOK'
  <2>1. [what |-> "request", handle |-> h, type |-> t] \in QMessage
    BY DEF OnHandle
  <2>2. adapterQ' \in Seq(QMessage)
    BY <1>8, <2>1, PostMessage DEF Request, ModemPosts, TypeOK
  <2>. QED  BY <1>8, <2>2 DEF Request, ModemPosts, Tell, machine, history, framework, TypeOK
<1>9. CASE UNCHANGED vars
  BY <1>9 DEF vars, TypeOK
<1>. QED  BY <1>1, <1>2, <1>3, <1>4, <1>5, <1>6, <1>7, <1>8, <1>9
          DEF Next, AdapterThread, Framework, Modem

LEMMA InitType == Init => TypeOK
<1>. SUFFICES ASSUME Init PROVE TypeOK
  OBVIOUS
<1>1. losses \in Nat /\ requests \in Nat /\ adapterQ \in Seq(QMessage) /\ fwQ \in Seq(DataCall)
  BY AgpsAssumption DEF Init
<1>2. told \in [Handle -> {"none", "waiting", "opened", "denied", "closed"}]
  BY DEF Init
<1>. QED  BY <1>1, <1>2, Zenon DEF Init, TypeOK, MachineType

\* Every reachable state is of the declared type; in particular the state
\* machine never takes the type of the one that does not exist.
THEOREM TypeCorrect == Spec => []TypeOK
BY InitType, TypeStep, PTL DEF Spec

(***************************************************************************)
(* The list, the state and what the modem was told                         *)
(***************************************************************************)

Waits(h) == Queued(h, {"request"})

\* Taking the head leaves the requests behind it, none of which is about the
\* handle of a request or release at the head.
LEMMA TakeKeepsOrder ==
  ASSUME TypeOK, InOrder, adapterQ # <<>>, adapterQ' = Tail(adapterQ)
  PROVE  /\ InOrder'
         /\ \A h \in Handle : Waits(h)' => Waits(h)
         /\ \A h \in Handle : Waits(h) =>
              Waits(h)' \/ (Head1.what = "request" /\ Head1.handle = h)
         /\ \A h \in Handle : Head1.what = "request" /\ Head1.handle = h => Waits(h)
         /\ \A h \in Handle :
              Head1.what \in {"request", "release"} /\ Head1.handle = h => ~Waits(h)'
<1>1. /\ Len(adapterQ) \in Nat /\ Len(adapterQ') = Len(adapterQ) - 1
      /\ Head1 = adapterQ[1]
      /\ \A i \in 1 .. Len(adapterQ') : adapterQ'[i] = adapterQ[i + 1]
  BY TakeHead DEF TypeOK, Head1
<1>2. InOrder'
  <2>. SUFFICES ASSUME NEW j \in 1 .. Len(adapterQ'), NEW i \in 1 .. Len(adapterQ'),
                       i < j, adapterQ'[j].what = "request",
                       adapterQ'[i].what \in {"request", "release"}
                PROVE  adapterQ'[i].handle # adapterQ'[j].handle
    BY DEF InOrder
  <2>1. i + 1 \in 1 .. Len(adapterQ) /\ j + 1 \in 1 .. Len(adapterQ) /\ i + 1 < j + 1
    BY <1>1
  <2>. QED  BY <1>1, <2>1 DEF InOrder
<1>3. \A h \in Handle : Waits(h)' => Waits(h)
  <2>. SUFFICES ASSUME NEW h \in Handle, NEW i \in 1 .. Len(adapterQ'),
                       adapterQ'[i].what \in {"request"}, adapterQ'[i].handle = h
                PROVE  Waits(h)
    BY DEF Waits, Queued
  <2>1. i + 1 \in 1 .. Len(adapterQ)
    BY <1>1
  <2>. QED  BY <1>1, <2>1 DEF Waits, Queued
<1>4. ASSUME NEW h \in Handle, Waits(h)
      PROVE  Waits(h)' \/ (Head1.what = "request" /\ Head1.handle = h)
  <2>1. PICK i \in 1 .. Len(adapterQ) :
          adapterQ[i].what \in {"request"} /\ adapterQ[i].handle = h
    BY <1>4 DEF Waits, Queued
  <2>2. CASE i = 1
    BY <1>1, <2>1, <2>2
  <2>3. CASE i # 1
    <3>1. i - 1 \in 1 .. Len(adapterQ') /\ adapterQ'[i - 1] = adapterQ[i]
      BY <1>1, <2>3
    <3>. QED  BY <2>1, <3>1 DEF Waits, Queued
  <2>. QED  BY <2>2, <2>3
<1>5. ASSUME NEW h \in Handle, Head1.what \in {"request", "release"}, Head1.handle = h,
             Waits(h)'
      PROVE  FALSE
  <2>1. PICK i \in 1 .. Len(adapterQ') :
          adapterQ'[i].what = "request" /\ adapterQ'[i].handle = h
    BY <1>5 DEF Waits, Queued
  <2>2. i + 1 \in 1 .. Len(adapterQ) /\ 1 \in 1 .. Len(adapterQ) /\ 1 < i + 1
    BY <1>1
  <2>. QED  BY <1>1, <1>5, <2>1, <2>2 DEF InOrder
<1>6. ASSUME NEW h \in Handle, Head1.what = "request", Head1.handle = h PROVE Waits(h)
  BY <1>1, <1>6, TakeHead DEF Waits, Queued, TypeOK
<1>. QED  BY <1>2, <1>3, <1>4, <1>5, <1>6

\* Posting a message keeps the order, unless it is a request for a handle that
\* has a message in the queue.
LEMMA PostKeepsOrder ==
  ASSUME TypeOK, InOrder, NEW m \in QMessage, adapterQ' = Append(adapterQ, m),
         m.what = "request" => ~Queued(m.handle, {"request", "release"})
  PROVE  /\ InOrder'
         /\ \A h \in Handle :
              Waits(h)' <=> Waits(h) \/ (m.what = "request" /\ m.handle = h)
<1>1. /\ Len(adapterQ) \in Nat /\ Len(adapterQ') = Len(adapterQ) + 1
      /\ adapterQ'[Len(adapterQ) + 1] = m
      /\ \A i \in 1 .. Len(adapterQ) : adapterQ'[i] = adapterQ[i]
  BY PostMessage DEF TypeOK
<1>2. InOrder'
  <2>. SUFFICES ASSUME NEW j \in 1 .. Len(adapterQ'), NEW i \in 1 .. Len(adapterQ'),
                       i < j, adapterQ'[j].what = "request",
                       adapterQ'[i].what \in {"request", "release"}
                PROVE  adapterQ'[i].handle # adapterQ'[j].handle
    BY DEF InOrder
  <2>1. i \in 1 .. Len(adapterQ) /\ adapterQ'[i] = adapterQ[i]
    BY <1>1
  <2>2. CASE j = Len(adapterQ) + 1
    BY <1>1, <2>1, <2>2 DEF Queued
  <2>3. CASE j # Len(adapterQ) + 1
    <3>1. j \in 1 .. Len(adapterQ) /\ adapterQ'[j] = adapterQ[j]
      BY <1>1, <2>3
    <3>. QED  BY <2>1, <3>1 DEF InOrder
  <2>. QED  BY <2>2, <2>3
<1>3. ASSUME NEW h \in Handle, Waits(h)'
      PROVE  Waits(h) \/ (m.what = "request" /\ m.handle = h)
  <2>1. PICK i \in 1 .. Len(adapterQ') :
          adapterQ'[i].what \in {"request"} /\ adapterQ'[i].handle = h
    BY <1>3 DEF Waits, Queued
  <2>2. CASE i = Len(adapterQ) + 1
    BY <1>1, <2>1, <2>2
  <2>3. CASE i # Len(adapterQ) + 1
    <3>1. i \in 1 .. Len(adapterQ) /\ adapterQ'[i] = adapterQ[i]
      BY <1>1, <2>3
    <3>. QED  BY <2>1, <3>1 DEF Waits, Queued
  <2>. QED  BY <2>2, <2>3
<1>4. ASSUME NEW h \in Handle, Waits(h) \/ (m.what = "request" /\ m.handle = h)
      PROVE  Waits(h)'
  <2>1. CASE Waits(h)
    <3>1. PICK i \in 1 .. Len(adapterQ) :
            adapterQ[i].what \in {"request"} /\ adapterQ[i].handle = h
      BY <2>1 DEF Waits, Queued
    <3>2. i \in 1 .. Len(adapterQ') /\ adapterQ'[i] = adapterQ[i]
      BY <1>1
    <3>. QED  BY <3>1, <3>2 DEF Waits, Queued
  <2>2. CASE m.what = "request" /\ m.handle = h
    <3>1. Len(adapterQ) + 1 \in 1 .. Len(adapterQ')
      BY <1>1
    <3>. QED  BY <1>1, <2>2, <3>1 DEF Waits, Queued
  <2>. QED  BY <1>4, <2>1, <2>2
<1>. QED  BY <1>2, <1>3, <1>4

\* The inductive invariant: StatusMatchesState holds because a handle with a
\* request in the queue is told nothing else meanwhile (RequestsLast).
IInv == TypeOK /\ StatusMatchesState /\ RequestsLast

\* The part of the invariant that a step of the state machine decides.
Told(h) == /\ told[h] = "opened" <=> h \in subs /\ state = "ACQUIRED"
           /\ told[h] = "waiting" <=> (h \in subs /\ state = "PENDING") \/ Waits(h)
           /\ Waits(h) => h \notin subs

LEMMA IInvParts ==
  IInv <=> TypeOK /\ InOrder /\ (state = "RELEASED" <=> subs = {})
             /\ \A h \in Handle : Told(h)
BY DEF IInv, StatusMatchesState, RequestsLast, Told, Waits

LEMMA InvStep == IInv /\ [Next]_vars => IInv'
<1>. SUFFICES ASSUME IInv, [Next]_vars PROVE IInv'
  OBVIOUS
<1>0. /\ TypeOK /\ InOrder /\ (state = "RELEASED" <=> subs = {}) /\ TypeOK'
      /\ \A h \in Handle : Told(h)
  BY IInvParts, TypeStep DEF IInv
<1>a. SUFFICES InOrder' /\ (state' = "RELEASED" <=> subs' = {}) /\ \A h \in Handle : Told(h)'
  BY <1>0 DEF IInv, StatusMatchesState, RequestsLast, Told, Waits
<1>1. CASE RequestATL
  <2>1. adapterQ # <<>> /\ adapterQ' = Tail(adapterQ) /\ Head1.what = "request"
    BY <1>1 DEF RequestATL, Take
  <2>2. InOrder' /\ Head1.handle \in Handle
    BY <1>0, <2>1, TakeKeepsOrder, HeadType
  <2>3. CASE ~HasMachine(EffectiveType(Head1.type))
    <3>1. UNCHANGED <<state, subs>> /\ Tell({Head1.handle}, "denied")
      BY <1>1, <2>3 DEF RequestATL, machine
    <3>2. ASSUME NEW h \in Handle PROVE Told(h)'
      BY <1>0, <2>1, <2>2, <3>1, TakeKeepsOrder DEF Told, Tell, TypeOK
    <3>. QED  BY <1>0, <2>2, <3>1, <3>2
  <2>4. CASE HasMachine(EffectiveType(Head1.type))
    <3>1. Subscribe(Head1.handle, EffectiveType(Head1.type))
      BY <1>1, <2>4 DEF RequestATL
    <3>2. ASSUME NEW h \in Handle PROVE Told(h)'
      BY <1>0, <2>1, <2>2, <3>1, TakeKeepsOrder DEF Told, Subscribe, Tell, TypeOK
    <3>. QED  BY <1>0, <2>2, <3>1, <3>2 DEF Subscribe
  <2>. QED  BY <2>3, <2>4
<1>2. CASE ReleaseATL
  <2>1. adapterQ # <<>> /\ adapterQ' = Tail(adapterQ) /\ Head1.what = "release"
    BY <1>2 DEF ReleaseATL, Take
  <2>2. InOrder' /\ Head1.handle \in Handle
    BY <1>0, <2>1, TakeKeepsOrder, HeadType
  <2>3. ASSUME NEW h \in Handle PROVE Told(h)'
    BY <1>0, <1>2, <2>1, <2>2, TakeKeepsOrder DEF Told, ReleaseATL, Unsubscribe, Tell, TypeOK
  <2>. QED  BY <1>0, <1>2, <2>2, <2>3 DEF ReleaseATL, Unsubscribe
<1>3. CASE ReportATL
  <2>1. /\ adapterQ # <<>> /\ adapterQ' = Tail(adapterQ)
        /\ Head1.what \notin {"request", "release"}
    BY <1>3 DEF ReportATL, Take
  <2>2. InOrder' /\ \A h \in Handle : Waits(h)' <=> Waits(h)
    BY <1>0, <2>1, TakeKeepsOrder
  <2>3. ASSUME NEW h \in Handle PROVE Told(h)'
    BY <1>0, <1>3, <2>2 DEF Told, ReportATL, Granted, Denied, Released, NotifyAll, Tell, TypeOK
  <2>. QED  BY <1>0, <1>3, <2>2, <2>3 DEF ReportATL, Granted, Denied, Released, NotifyAll
<1>4. CASE MakeCall \/ EndCall \/ LoseCall
  <2>1. InOrder' /\ \A h \in Handle : Waits(h)' <=> Waits(h)
    <3>1. ASSUME NEW what \in Event, Answer(what)
          PROVE  InOrder' /\ \A h \in Handle : Waits(h)' <=> Waits(h)
      <4>1. [what |-> what] \in QMessage /\ what # "request"
        BY DEF FromFramework, Event
      <4>. QED  BY <1>0, <3>1, <4>1, PostKeepsOrder DEF Answer
    <3>2. ASSUME UNCHANGED adapterQ
          PROVE  InOrder' /\ \A h \in Handle : Waits(h)' <=> Waits(h)
      BY <1>0, <3>2 DEF InOrder, Waits, Queued
    <3>. QED  BY <1>4, <3>1, <3>2 DEF MakeCall, EndCall, LoseCall, Event
  <2>2. Released \/ UNCHANGED <<state, subs, told>>
    BY <1>4 DEF MakeCall, EndCall, LoseCall, machine
  <2>3. ASSUME NEW h \in Handle PROVE Told(h)'
    BY <1>0, <2>1, <2>2 DEF Told, Released, NotifyAll, Tell, TypeOK
  <2>. QED  BY <1>0, <2>1, <2>2, <2>3 DEF Released, NotifyAll
<1>5. ASSUME NEW c \in Handle, Release(c)
      PROVE  InOrder' /\ (state' = "RELEASED" <=> subs' = {}) /\ \A h \in Handle : Told(h)'
  <2>. DEFINE m == [what |-> "release", handle |-> c, type |-> "SUPL"]
  <2>1. m \in QMessage /\ adapterQ' = Append(adapterQ, m) /\ UNCHANGED <<state, subs, told>>
    BY <1>5 DEF Release, ModemPosts, machine, OnHandle, Type
  <2>2. InOrder' /\ \A h \in Handle : Waits(h)' <=> Waits(h)
    BY <1>0, <2>1, PostKeepsOrder
  <2>. QED  BY <1>0, <2>1, <2>2 DEF Told
<1>6. ASSUME NEW c \in Handle, NEW t \in Type, Request(c, t)
      PROVE  InOrder' /\ (state' = "RELEASED" <=> subs' = {}) /\ \A h \in Handle : Told(h)'
  <2>. DEFINE m == [what |-> "request", handle |-> c, type |-> t]
  <2>1. /\ m \in QMessage /\ adapterQ' = Append(adapterQ, m) /\ UNCHANGED <<state, subs>>
        /\ Tell({c}, "waiting") /\ told[c] \notin {"waiting", "opened"}
        /\ ~Queued(c, {"request", "release"})
    BY <1>6 DEF Request, ModemPosts, machine, OnHandle
  <2>2. InOrder' /\ \A h \in Handle : Waits(h)' <=> Waits(h) \/ h = c
    BY <1>0, <2>1, PostKeepsOrder
  <2>3. c \notin subs
    BY <1>0, <2>1 DEF Told, TypeOK
  <2>4. ASSUME NEW h \in Handle PROVE Told(h)'
    BY <1>0, <2>1, <2>2, <2>3 DEF Told, Tell, TypeOK
  <2>. QED  BY <1>0, <2>1, <2>2, <2>4
<1>7. CASE UNCHANGED vars
  BY <1>0, <1>7 DEF vars, InOrder, Told, Waits, Queued
<1>. QED  BY <1>1, <1>2, <1>3, <1>4, <1>5, <1>6, <1>7
          DEF Next, AdapterThread, Framework, Modem

LEMMA InitInv == Init => IInv
<1>. SUFFICES ASSUME Init PROVE IInv
  OBVIOUS
<1>1. TypeOK
  BY InitType
<1>2. \A h \in Handle : ~Queued(h, {"request"})
  BY DEF Init, Queued
<1>. QED  BY <1>1, <1>2 DEF Init, IInv, StatusMatchesState, RequestsLast, InOrder

\* However late the framework answers, the subscriber list is empty exactly in
\* the released state and the modem was told of every handle what the state is.
THEOREM StatusCorrect == Spec => []StatusMatchesState
<1>1. IInv => StatusMatchesState
  BY DEF IInv
<1>. QED  BY <1>1, InitInv, InvStep, PTL DEF Spec

(***************************************************************************)
(* The state machine implements AtlService                                 *)
(***************************************************************************)

\* A subscriber waits while the call is asked for and is open afterwards.
LEMMA SubscriberStatus ==
  ASSUME IInv
  PROVE  /\ state = "PENDING" => \A h \in subs : told[h] = "waiting"
         /\ state = "ACQUIRED" => \A h \in subs : told[h] = "opened"
         /\ \A h \in subs : told[h] \in {"waiting", "opened"}
BY DEF IInv, TypeOK, StatusMatchesState

\* The handle of a request at the head of the queue waits.
LEMMA RequestedStatus ==
  ASSUME IInv, adapterQ # <<>>, Head1.what = "request"
  PROVE  Head1.handle \in Handle /\ told[Head1.handle] = "waiting"
<1>1. Head1 = adapterQ[1] /\ 1 \in 1 .. Len(adapterQ) /\ Head1.handle \in Handle
  BY TakeHead, HeadType DEF IInv, TypeOK, Head1
<1>2. Queued(Head1.handle, {"request"})
  BY <1>1 DEF Queued
<1>. QED  BY <1>1, <1>2 DEF IInv, StatusMatchesState

LEMMA ServiceStep == IInv /\ [Next]_vars => [Service!Next]_told
<1>. SUFFICES ASSUME IInv, [Next]_vars, told' # told
              PROVE  \E S \in SUBSET Handle : \/ Service!Ask(S) \/ Service!Open(S)
                                              \/ Service!Deny(S) \/ Service!Close(S)
  BY DEF Service!Next
<1>. USE DEF Tell, Service!Tell, Service!Are
<1>0. subs \in SUBSET Handle
  BY DEF IInv, TypeOK
<1>1. CASE RequestATL
  <2>1. {Head1.handle} \in SUBSET Handle /\ told[Head1.handle] = "waiting"
    BY <1>1, RequestedStatus DEF RequestATL, Take
  <2>2. Tell({Head1.handle}, "denied") \/ Tell({Head1.handle}, "opened")
    BY <1>1 DEF RequestATL, Subscribe
  <2>3. Service!Deny({Head1.handle}) \/ Service!Open({Head1.handle})
    BY <2>1, <2>2 DEF Service!Deny, Service!Open
  <2>. QED  BY <2>1, <2>3
<1>2. CASE ReleaseATL
  <2>1. Head1.handle \in subs /\ Tell({Head1.handle}, "closed")
    BY <1>2 DEF ReleaseATL, Unsubscribe
  <2>2. Service!Close({Head1.handle})
    BY <2>1, SubscriberStatus DEF Service!Close
  <2>. QED  BY <1>0, <2>1, <2>2
<1>3. CASE ReportATL \/ MakeCall \/ EndCall \/ LoseCall
  <2>1. \/ state = "PENDING" /\ (Tell(subs, "opened") \/ Tell(subs, "denied"))
        \/ state = "ACQUIRED" /\ Tell(subs, "closed")
    BY <1>3 DEF ReportATL, Granted, Denied, Released, NotifyAll, MakeCall, EndCall, LoseCall
  <2>2. Service!Open(subs) \/ Service!Deny(subs) \/ Service!Close(subs)
    BY <2>1, SubscriberStatus DEF Service!Open, Service!Deny, Service!Close
  <2>. QED  BY <1>0, <2>2
<1>4. ASSUME NEW h \in Handle, NEW t \in Type, Request(h, t)
      PROVE  \E S \in SUBSET Handle : Service!Ask(S)
  <2>1. Service!Ask({h})
    BY <1>4 DEF Request, Service!Ask, IInv, TypeOK
  <2>. QED  BY <2>1
<1>5. CASE \E h \in Handle : Release(h)
  BY <1>5 DEF Release
<1>6. CASE UNCHANGED vars
  BY <1>6 DEF vars
<1>. QED  BY <1>1, <1>2, <1>3, <1>4, <1>5, <1>6
          DEF Next, AdapterThread, Framework, Modem

\* Every request of the modem is answered once, and an opened connection is
\* only ever closed: the state machine implements AtlService.
THEOREM Implements == Spec => AnsweredOnce
<1>1. Init => Service!Init
  BY DEF Init, Service!Init
<1>. QED  BY <1>1, InitInv, InvStep, ServiceStep, PTL DEF Spec, AnsweredOnce, Service!Spec

(***************************************************************************)
(* An acquired connection and its data call                                *)
(***************************************************************************)

\* A message of the framework that waits at place i of the adapter's queue.
Waiting(i, what) == i \in 1 .. Len(adapterQ) /\ adapterQ[i].what = what

\* Once the call is down its end is on its way, and behind every "opened" that
\* is on its way too: the framework tells of its calls in their order.
EndsAreTold ==
  ~call => /\ state = "ACQUIRED" => \E j \in 1 .. Len(adapterQ) : Waiting(j, "closed")
           /\ \A i \in 1 .. Len(adapterQ) :
                Waiting(i, "opened") =>
                  \E j \in 1 .. Len(adapterQ) : i < j /\ Waiting(j, "closed")

\* The adapter takes a message: the ends that are left are behind it.
LEMMA TakeTellsEnds ==
  ASSUME TypeOK, EndsAreTold, adapterQ # <<>>, adapterQ' = Tail(adapterQ), UNCHANGED call,
         state' = "ACQUIRED" => Head1.what = "opened" \/ (state = "ACQUIRED" /\ Head1.what # "closed")
  PROVE  EndsAreTold'
<1>1. /\ Len(adapterQ) \in Nat /\ Len(adapterQ') = Len(adapterQ) - 1
      /\ Head1 = adapterQ[1] /\ 1 \in 1 .. Len(adapterQ)
      /\ \A i \in 1 .. Len(adapterQ') : adapterQ'[i] = adapterQ[i + 1]
  BY TakeHead DEF TypeOK, Head1
<1>2. ASSUME NEW j \in 1 .. Len(adapterQ), Waiting(j, "closed"), j # 1
      PROVE  j - 1 \in 1 .. Len(adapterQ') /\ Waiting(j - 1, "closed")'
  <2>1. j - 1 \in 1 .. Len(adapterQ') /\ adapterQ'[j - 1] = adapterQ[j]
    BY <1>1, <1>2
  <2>. QED  BY <1>2, <2>1 DEF Waiting
<1>. SUFFICES ASSUME ~call
              PROVE  /\ state' = "ACQUIRED" =>
                          \E j \in 1 .. Len(adapterQ') : Waiting(j, "closed")'
                     /\ \A i \in 1 .. Len(adapterQ') :
                          Waiting(i, "opened")' =>
                            \E j \in 1 .. Len(adapterQ') : i < j /\ Waiting(j, "closed")'
  BY DEF EndsAreTold
<1>3. ASSUME state' = "ACQUIRED"
      PROVE  \E j \in 1 .. Len(adapterQ') : Waiting(j, "closed")'
  <2>1. PICK j \in 1 .. Len(adapterQ) : Waiting(j, "closed") /\ j # 1
    BY <1>1, <1>3 DEF EndsAreTold, Waiting
  <2>. QED  BY <1>2, <2>1
<1>4. ASSUME NEW i \in 1 .. Len(adapterQ'), Waiting(i, "opened")'
      PROVE  \E j \in 1 .. Len(adapterQ') : i < j /\ Waiting(j, "closed")'
  <2>1. i + 1 \in 1 .. Len(adapterQ) /\ Waiting(i + 1, "opened")
    BY <1>1, <1>4 DEF Waiting
  <2>2. PICK j \in 1 .. Len(adapterQ) : i + 1 < j /\ Waiting(j, "closed")
    BY <2>1 DEF EndsAreTold
  <2>3. j # 1 /\ i < j - 1
    BY <1>1, <2>2
  <2>. QED  BY <1>2, <2>2, <2>3
<1>. QED  BY <1>3, <1>4

\* A message is posted: the end of a call that goes down, or the start of one
\* that is up.
LEMMA PostTellsEnds ==
  ASSUME TypeOK, EndsAreTold, NEW m \in QMessage, adapterQ' = Append(adapterQ, m),
         call \in BOOLEAN,
         \/ m.what = "closed"
         \/ call' = TRUE
         \/ m.what # "opened" /\ UNCHANGED <<call, state>>
  PROVE  EndsAreTold'
<1>1. /\ Len(adapterQ) \in Nat /\ Len(adapterQ') = Len(adapterQ) + 1
      /\ adapterQ'[Len(adapterQ) + 1] = m
      /\ \A i \in 1 .. Len(adapterQ) : adapterQ'[i] = adapterQ[i]
  BY PostMessage DEF TypeOK
<1>2. \A i \in 1 .. Len(adapterQ) :
        i \in 1 .. Len(adapterQ') /\ \A w \in Event : Waiting(i, w)' <=> Waiting(i, w)
  BY <1>1 DEF Waiting
<1>3. CASE m.what = "closed"
  <2>0. PICK n : n = Len(adapterQ) + 1
    OBVIOUS
  <2>1. n \in 1 .. Len(adapterQ') /\ Waiting(n, "closed")'
    BY <1>1, <1>3, <2>0 DEF Waiting
  <2>2. ASSUME NEW i \in 1 .. Len(adapterQ'), Waiting(i, "opened")' PROVE i < n
    BY <1>1, <1>3, <2>0, <2>2 DEF Waiting
  <2>. QED  BY <2>1, <2>2 DEF EndsAreTold
<1>4. CASE call' = TRUE
  BY <1>4 DEF EndsAreTold
<1>5. CASE m.what # "opened" /\ UNCHANGED <<call, state>> /\ ~call
  <2>1. ASSUME state' = "ACQUIRED"
        PROVE  \E j \in 1 .. Len(adapterQ') : Waiting(j, "closed")'
    BY <1>2, <1>5, <2>1 DEF EndsAreTold, Event
  <2>2. ASSUME NEW i \in 1 .. Len(adapterQ'), Waiting(i, "opened")'
        PROVE  \E j \in 1 .. Len(adapterQ') : i < j /\ Waiting(j, "closed")'
    <3>1. i \in 1 .. Len(adapterQ)
      BY <1>1, <1>5, <2>2 DEF Waiting
    <3>2. PICK j \in 1 .. Len(adapterQ) : i < j /\ Waiting(j, "closed")
      BY <1>2, <1>5, <2>2, <3>1 DEF EndsAreTold, Event
    <3>. QED  BY <1>2, <3>2 DEF Event
  <2>. QED  BY <2>1, <2>2 DEF EndsAreTold
<1>. QED  BY <1>3, <1>4, <1>5 DEF EndsAreTold

LEMMA EndsStep == TypeOK /\ EndsAreTold /\ [Next]_vars => EndsAreTold'
<1>. SUFFICES ASSUME TypeOK, EndsAreTold, [Next]_vars PROVE EndsAreTold'
  OBVIOUS
<1>0. call \in BOOLEAN
  BY DEF TypeOK
<1>1. CASE RequestATL \/ ReleaseATL
  <2>1. /\ adapterQ # <<>> /\ adapterQ' = Tail(adapterQ) /\ UNCHANGED call
        /\ Head1.what \in {"request", "release"}
    BY <1>1 DEF RequestATL, ReleaseATL, Take, framework
  <2>2. state' = "ACQUIRED" => state = "ACQUIRED"
    BY <1>1 DEF RequestATL, ReleaseATL, Subscribe, Unsubscribe, machine
  <2>. QED  BY <2>1, <2>2, TakeTellsEnds
<1>2. CASE ReportATL
  <2>1. adapterQ # <<>> /\ adapterQ' = Tail(adapterQ) /\ UNCHANGED call
    BY <1>2 DEF ReportATL, Take, framework
  <2>2. state' = "ACQUIRED" =>
          Head1.what = "opened" \/ (state = "ACQUIRED" /\ Head1.what # "closed")
    BY <1>2 DEF ReportATL, Take, Granted, Denied, Released, NotifyAll
  <2>. QED  BY <2>1, <2>2, TakeTellsEnds
<1>3. CASE MakeCall
  <2>1. CASE call' = TRUE
    BY <2>1 DEF EndsAreTold
  <2>2. CASE ~call /\ Answer("failed") /\ UNCHANGED <<call, bad, state, subs, told>>
    <3>1. [what |-> "failed"] \in QMessage
      BY DEF FromFramework, Event
    <3>. QED  BY <1>0, <2>2, <3>1, PostTellsEnds DEF Answer
  <2>. QED  BY <1>3, <2>1, <2>2 DEF MakeCall
<1>4. CASE EndCall \/ LoseCall
  <2>1. [what |-> "closed"] \in QMessage
    BY DEF FromFramework, Event
  <2>. QED  BY <1>0, <1>4, <2>1, PostTellsEnds DEF EndCall, LoseCall, Answer
<1>5. ASSUME NEW h \in Handle, NEW t \in Type, Release(h) \/ Request(h, t) PROVE EndsAreTold'
  <2>1. PICK m \in OnHandle : adapterQ' = Append(adapterQ, m) /\ UNCHANGED <<call, state>>
    BY <1>5 DEF Release, Request, ModemPosts, OnHandle, Type, machine, framework
  <2>2. m \in QMessage /\ m.what # "opened"
    BY DEF OnHandle
  <2>. QED  BY <1>0, <2>1, <2>2, PostTellsEnds
<1>6. CASE UNCHANGED vars
  BY <1>6 DEF vars, EndsAreTold, Waiting
<1>. QED  BY <1>1, <1>2, <1>3, <1>4, <1>5, <1>6
          DEF Next, AdapterThread, Framework, Modem, Type

\* Once nothing is on its way an acquired connection has its data call: answers
\* that came late, losses and calls opened with a bad name have been told.
THEOREM CallIsUp == Spec => []AcquiredMeansCallUp
<1>1. Init => EndsAreTold
  BY DEF Init, EndsAreTold, Waiting
<1>2. TypeOK /\ EndsAreTold => AcquiredMeansCallUp
  BY DEF EndsAreTold, AcquiredMeansCallUp
<1>. QED  BY <1>1, <1>2, InitType, TypeStep, EndsStep, PTL DEF Spec

(***************************************************************************)
(* The type of the data call                                               *)
(***************************************************************************)

\* What a machine that holds a data call has been asked for
TypesJoined ==
  /\ joined \subseteq MachineType
  /\ ~EmergencyPdn => joined \subseteq {"SUPL"}
  /\ state # "RELEASED" => type \in joined /\ askedType \in joined

\* The data call that is released is of the type that was asked for, unless with an
\* emergency PDN requests of both types have joined it, with that PDN, the default,
\* or without (requestATL, requestOrReleaseDataConn, gps/gnss/Agps.cpp).
THEOREM TypeKept == Spec => []ReleaseNamesRequest
<1>1. ASSUME TypeOK, TypesJoined, [Next]_vars PROVE TypesJoined'
  <2>1. CASE RequestATL
    <3>1. Head1.type \in Type
      BY <1>1, <2>1, HeadType DEF RequestATL, Take
    <3>. DEFINE t == EffectiveType(Head1.type)
    <3>2. HasMachine(t) => t \in MachineType /\ (~EmergencyPdn => t = "SUPL")
      BY <3>1 DEF EffectiveType, HasMachine, Type, MachineType
    <3>3. CASE HasMachine(t)
      <4>1. type' = t /\ Subscribe(Head1.handle, t)
        BY <2>1, <3>3 DEF RequestATL
      <4>2. /\ joined' = {t} \cup IF state = "RELEASED" THEN {} ELSE joined
            /\ \/ state = "RELEASED" /\ askedType' = t
               \/ state # "RELEASED" /\ askedType' = askedType
        BY <4>1 DEF Subscribe
      <4>. QED  BY <1>1, <3>2, <3>3, <4>1, <4>2 DEF TypesJoined
    <3>4. CASE ~HasMachine(t)
      BY <1>1, <2>1, <3>4 DEF RequestATL, machine, history, TypesJoined
    <3>. QED  BY <3>3, <3>4
  <2>2. CASE ReleaseATL
    BY <1>1, <2>2 DEF ReleaseATL, Unsubscribe, history, TypesJoined
  <2>3. CASE ReportATL
    BY <1>1, <2>3 DEF ReportATL, Granted, Denied, Released, NotifyAll, history, TypesJoined
  <2>4. CASE MakeCall
    BY <1>1, <2>4 DEF MakeCall, Released, NotifyAll, history, TypesJoined
  <2>5. CASE EndCall \/ LoseCall \/ Modem \/ UNCHANGED vars
    BY <1>1, <2>5 DEF EndCall, LoseCall, Modem, Release, Request, ModemPosts, machine, history,
                      vars, TypesJoined
  <2>. QED  BY <1>1, <2>1, <2>2, <2>3, <2>4, <2>5 DEF Next, AdapterThread, Framework
<1>2. Init => TypesJoined
  BY DEF Init, TypesJoined
<1>3. TypeOK /\ TypesJoined => ReleaseNamesRequest
  BY DEF TypesJoined, ReleaseNamesRequest, TypeOK, MachineType
<1>4. TypeOK /\ TypesJoined /\ [Next]_vars => TypesJoined'
  BY <1>1
<1>. QED  BY <1>2, <1>3, <1>4, InitType, TypeStep, PTL DEF Spec
=============================================================================
