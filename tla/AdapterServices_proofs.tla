------------------------ MODULE AdapterServices_proofs -----------------------
(***************************************************************************)
(* Proofs about what GnssAdapter does beside tracking, about batching and   *)
(* the clients: the ODCPI timer that it counts as active expires, no        *)
(* network initiated request is answered twice, the engine reports what the *)
(* adapters need, it collects positions for the sessions that the batching  *)
(* adapter keeps, a client that has been deleted is unknown to every        *)
(* adapter, and requests are as many as the answers they wait for, each of  *)
(* which takes its own while they come in order.  For any number of events, *)
(* requests, sessions, calls, clients and adapters.                         *)
(***************************************************************************)
EXTENDS Odcpi, NiSession, EventMasks, Batching, LocationApi, ClientRequests, QueueLemmas,
        FiniteSetTheorems, SequenceTheorems

(***************************************************************************)
(* On demand injection of positions                                        *)
(***************************************************************************)

OdcpiSpec == OdcpiInit /\ [][OdcpiNext]_odcpiVars

\* An expiration of the timer is waiting in q.
ExpiresIn(q) == \E i \in DOMAIN q : q[i].what = "expire"

OdcpiQueued == odcpiQ \in Seq(OdcpiMsg)
OdcpiFlags ==
  /\ mOdcpiRequestCb \in {0} \cup OdcpiPriority
  /\ mOdcpiRequestActive \in BOOLEAN /\ mOdcpiRequest \in BOOLEAN
  /\ mOdcpiTimer \in BOOLEAN /\ locTimer \in BOOLEAN
  /\ firing \in BOOLEAN /\ unasked \in BOOLEAN
ActiveRuns == mOdcpiTimer => locTimer \/ firing \/ ExpiresIn(odcpiQ)

OdcpiInv == OdcpiQueued /\ OdcpiFlags /\ ActiveRuns
-----------------------------------------------------------------------------
\* Handling another message leaves an expiration in the queue.
LEMMA ExpirationStays ==
  ASSUME NEW q \in Seq(OdcpiMsg), q # <<>>, Head(q).what # "expire", ExpiresIn(q)
  PROVE  ExpiresIn(Tail(q))
<1>1. PICK i \in DOMAIN q : q[i].what = "expire"
  BY DEF ExpiresIn
<1>2. /\ Head(q) = q[1] /\ Len(q) \in Nat /\ Tail(q) \in Seq(OdcpiMsg)
      /\ Len(Tail(q)) = Len(q) - 1
      /\ \A j \in 1 .. Len(Tail(q)) : Tail(q)[j] = q[j + 1]
  BY TakeHead
<1>3. i \in 1 .. Len(q) /\ i # 1
  BY <1>1, <1>2
<1>4. i - 1 \in DOMAIN Tail(q) /\ Tail(q)[i - 1] = q[i]
  BY <1>2, <1>3
<1> QED
  BY <1>1, <1>4 DEF ExpiresIn

\* So does posting one, and an expiration that is posted is in the queue.
LEMMA ExpirationPosted ==
  ASSUME NEW q \in Seq(OdcpiMsg), NEW m \in OdcpiMsg
  PROVE  /\ Append(q, m) \in Seq(OdcpiMsg)
         /\ ExpiresIn(q) \/ m.what = "expire" => ExpiresIn(Append(q, m))
<1>1. /\ Append(q, m) \in Seq(OdcpiMsg)
      /\ Len(q) \in Nat /\ Len(Append(q, m)) = Len(q) + 1
      /\ Append(q, m)[Len(q) + 1] = m
      /\ \A i \in 1 .. Len(q) : Append(q, m)[i] = q[i]
  BY PostMessage
<1>2. DOMAIN q = 1 .. Len(q) /\ DOMAIN Append(q, m) = 1 .. Len(q) + 1
  BY <1>1
<1> QED
  BY <1>1, <1>2 DEF ExpiresIn

LEMMA OdcpiInitInv == OdcpiInit => OdcpiInv
<1> SUFFICES ASSUME OdcpiInit PROVE OdcpiInv
  OBVIOUS
<1>1. OdcpiQueued
  BY DEF OdcpiInit, OdcpiQueued
<1>2. OdcpiFlags
  BY DEF OdcpiInit, OdcpiFlags
<1>3. ActiveRuns
  BY DEF OdcpiInit, ActiveRuns
<1> QED
  BY <1>1, <1>2, <1>3 DEF OdcpiInv

LEMMA OdcpiStepFlags == OdcpiQueued /\ OdcpiFlags /\ [OdcpiNext]_odcpiVars => OdcpiFlags'
<1> SUFFICES ASSUME OdcpiQueued, OdcpiFlags, [OdcpiNext]_odcpiVars PROVE OdcpiFlags'
  OBVIOUS
<1> USE DEF OdcpiFlags
<1>0. odcpiQ # <<>> => Head(odcpiQ) \in OdcpiMsg
  BY TakeHead DEF OdcpiQueued
<1>1. CASE OdcpiEvent
  BY <1>1 DEF OdcpiEvent
<1>2. CASE OdcpiTimerFires
  BY <1>2 DEF OdcpiTimerFires
<1>3. CASE OdcpiTimerPosts
  BY <1>3 DEF OdcpiTimerPosts
<1>4. CASE InitOdcpi
  <2>1. Head(odcpiQ).priority \in OdcpiPriority
    BY <1>0, <1>4 DEF InitOdcpi, TakeOdcpi, OdcpiMsg
  <2> QED
    BY <1>4, <2>1 DEF InitOdcpi, TakeOdcpi
<1>5. CASE RequestOdcpi
  <2>1. Head(odcpiQ).emergency \in BOOLEAN
    BY <1>0, <1>5 DEF RequestOdcpi, TakeOdcpi, OdcpiMsg
  <2> QED
    BY <1>5, <2>1 DEF RequestOdcpi, TakeOdcpi, StartOdcpiTimer
<1>6. CASE StopOdcpi
  BY <1>6 DEF StopOdcpi, TakeOdcpi
<1>7. CASE OdcpiTimerExpire
  BY <1>7 DEF OdcpiTimerExpire, TakeOdcpi, AskOnExpire, StartOdcpiTimer, StopOdcpiTimer
<1>8. CASE OdcpiEngineUp
  BY <1>8 DEF OdcpiEngineUp, TakeOdcpi
<1>9. CASE UNCHANGED odcpiVars
  BY <1>9 DEF odcpiVars
<1> QED
  BY <1>1, <1>2, <1>3, <1>4, <1>5, <1>6, <1>7, <1>8, <1>9
     DEF OdcpiNext, OdcpiTimerStep, OdcpiAdapterStep

\* A step that takes a message other than an expiration and leaves the timer
\* alone, or starts it
LEMMA OtherMessage ==
  ASSUME OdcpiInv, NEW w, w # "expire", TakeOdcpi(w),
         UNCHANGED <<mOdcpiTimer, locTimer>> \/ StartOdcpiTimer
  PROVE  OdcpiQueued' /\ ActiveRuns'
<1>1. Tail(odcpiQ) \in Seq(OdcpiMsg) /\ odcpiQ' = Tail(odcpiQ) /\ firing' = firing
  BY TakeHead DEF OdcpiInv, OdcpiQueued, TakeOdcpi
<1>2. ExpiresIn(odcpiQ) => ExpiresIn(odcpiQ')
  BY <1>1, ExpirationStays DEF OdcpiInv, OdcpiQueued, TakeOdcpi
<1>3. CASE UNCHANGED <<mOdcpiTimer, locTimer>>
  BY <1>1, <1>2, <1>3 DEF OdcpiInv, OdcpiQueued, ActiveRuns
<1>4. CASE StartOdcpiTimer
  BY <1>1, <1>4 DEF OdcpiQueued, ActiveRuns, StartOdcpiTimer
<1> QED
  BY <1>3, <1>4

LEMMA OdcpiStepInv == OdcpiInv /\ [OdcpiNext]_odcpiVars => OdcpiInv'
<1> SUFFICES ASSUME OdcpiInv, [OdcpiNext]_odcpiVars PROVE OdcpiInv'
  OBVIOUS
<1>0. OdcpiFlags' /\ OdcpiQueued /\ ActiveRuns
  BY OdcpiStepFlags DEF OdcpiInv
<1>1. CASE OdcpiEvent
  <2>1. PICK m \in OdcpiMsg : odcpiQ' = Append(odcpiQ, m)
    BY <1>1 DEF OdcpiEvent
  <2>2. OdcpiQueued' /\ (ExpiresIn(odcpiQ) => ExpiresIn(odcpiQ'))
    BY <1>0, <2>1, ExpirationPosted DEF OdcpiQueued
  <2> QED
    BY <1>0, <1>1, <2>2 DEF OdcpiEvent, ActiveRuns, OdcpiInv
<1>2. CASE OdcpiTimerFires
  BY <1>0, <1>2 DEF OdcpiTimerFires, OdcpiQueued, ActiveRuns, OdcpiInv
<1>3. CASE OdcpiTimerPosts
  <2>1. [what |-> "expire"] \in OdcpiMsg
    BY DEF OdcpiMsg
  <2>2. OdcpiQueued' /\ ExpiresIn(odcpiQ')
    BY <1>0, <1>3, <2>1, ExpirationPosted DEF OdcpiTimerPosts, OdcpiQueued
  <2> QED
    BY <1>0, <2>2 DEF ActiveRuns, OdcpiInv
<1>4. CASE InitOdcpi
  BY <1>0, <1>4, OtherMessage DEF InitOdcpi, OdcpiInv
<1>5. CASE RequestOdcpi
  BY <1>0, <1>5, OtherMessage DEF RequestOdcpi, OdcpiInv
<1>6. CASE StopOdcpi
  BY <1>0, <1>6, OtherMessage DEF StopOdcpi, OdcpiInv
<1>7. CASE OdcpiTimerExpire
  <2>1. OdcpiQueued'
    BY <1>0, <1>7, TakeHead DEF OdcpiTimerExpire, TakeOdcpi, OdcpiQueued
  <2>2. ActiveRuns'
    BY <1>7 DEF OdcpiTimerExpire, AskOnExpire, StartOdcpiTimer, StopOdcpiTimer, ActiveRuns
  <2> QED
    BY <1>0, <2>1, <2>2 DEF OdcpiInv
<1>8. CASE OdcpiEngineUp
  BY <1>0, <1>8, OtherMessage DEF OdcpiEngineUp, OdcpiInv
<1>9. CASE UNCHANGED odcpiVars
  BY <1>0, <1>9 DEF odcpiVars, OdcpiQueued, ActiveRuns, OdcpiInv
<1> QED
  BY <1>1, <1>2, <1>3, <1>4, <1>5, <1>6, <1>7, <1>8, <1>9
     DEF OdcpiNext, OdcpiTimerStep, OdcpiAdapterStep
-----------------------------------------------------------------------------
\* The state keeps its types (OdcpiTimer, gps/gnss/GnssAdapter.h).
THEOREM OdcpiTypeCorrect == OdcpiSpec => []OdcpiTypeOK
<1>1. OdcpiInv => OdcpiTypeOK
  <2> SUFFICES ASSUME OdcpiInv PROVE OdcpiTypeOK
    OBVIOUS
  <2>1. \A i \in DOMAIN odcpiQ : odcpiQ[i] \in OdcpiMsg
    BY MessageType DEF OdcpiInv, OdcpiQueued
  <2> QED
    BY <2>1 DEF OdcpiInv, OdcpiFlags, OdcpiTypeOK
<1> QED
  BY OdcpiInitInv, OdcpiStepInv, <1>1, PTL DEF OdcpiSpec

\* For any number of requests, registrations and restarts, a timer that the
\* adapter counts as active runs or has its expiration on the way, so that a
\* request held back is not held back for ever (requestOdcpi and
\* odcpiTimerExpire, gps/gnss/GnssAdapter.cpp).
THEOREM ActiveTimerAlwaysExpires == OdcpiSpec => []ActiveTimerExpires
<1>1. OdcpiInv => ActiveTimerExpires
  BY DEF OdcpiInv, ActiveRuns, ExpiresIn, ActiveTimerExpires
<1> QED
  BY OdcpiInitInv, OdcpiStepInv, <1>1, PTL DEF OdcpiSpec

(***************************************************************************)
(* Network initiated requests                                              *)
(***************************************************************************)

NiSpec == NiInit /\ [][NiNext]_niVars

NiMsg == [what : {"user"}, request : NiRequest, resp : UserResponse]
           \cup [what : {"answer"}, request : NiRequest]
NiResp == UserResponse \cup {"none", "noResponse", "ignore"}

\* An answer for r waits in q; no two answers in q are for the same request.
AnswerIn(q, r) == \E i \in DOMAIN q : q[i].what = "answer" /\ q[i].request = r
AnswersDiffer(q) ==
  \A i, j \in DOMAIN q :
    q[i].what = "answer" /\ q[j].what = "answer" /\ q[i].request = q[j].request => i = j

NiTypes ==
  /\ rawRequest \in [NiSessions -> 0..MaxNi] /\ reqID \in [NiSessions -> 0..MaxNi]
  /\ resp \in [NiSessions -> NiResp] /\ respRecvd \in [NiSessions -> BOOLEAN]
  /\ niCounter \in 0..MaxNi /\ niClient \in BOOLEAN /\ asked \subseteq NiRequest
  /\ niThread \in [NiRequest -> {"none", "started", "waiting", "unlocked",
                                 "posting", "gone"}]
  /\ niOf \in [NiRequest -> NiSessions] /\ niPost \in [NiRequest -> 0..MaxNi]
  /\ niQ \in Seq(NiMsg) /\ niStep \in Seq([session : NiSessions, resp : NiResp])
  /\ answers \in [NiRequest -> Nat]

\* The data of r is in a session, in a thread or in a message.
Held(r) ==
  \/ \E s \in NiSessions : rawRequest[s] = r
  \/ \E t \in NiRequest : niPost[t] = r
  \/ AnswerIn(niQ, r)

\* It is in one place only,
HeldOnce ==
  /\ \A s, t \in NiSessions : rawRequest[s] = rawRequest[t] => rawRequest[s] = 0 \/ s = t
  /\ \A t, u \in NiRequest : niPost[t] = niPost[u] => niPost[t] = 0 \/ t = u
  /\ AnswersDiffer(niQ)
  /\ \A s \in NiSessions, t \in NiRequest : rawRequest[s] = niPost[t] => niPost[t] = 0
  /\ \A s \in NiSessions : ~AnswerIn(niQ, rawRequest[s])
  /\ \A t \in NiRequest : ~AnswerIn(niQ, niPost[t])

\* and while it is, the modem has not been answered for r.
HeldUnanswered ==
  \A r \in NiRequest :
    /\ answers[r] <= 1
    /\ Held(r) => answers[r] = 0
    /\ r > niCounter => answers[r] = 0 /\ ~Held(r)

NiInv == NiTypes /\ HeldOnce /\ HeldUnanswered
-----------------------------------------------------------------------------
\* Taking the head of the queue takes its answer out, and no other.
LEMMA AnswerTaken ==
  ASSUME NEW q \in Seq(NiMsg), q # <<>>
  PROVE  /\ Tail(q) \in Seq(NiMsg) /\ Head(q) \in NiMsg
         /\ \A r : AnswerIn(Tail(q), r) => AnswerIn(q, r)
         /\ Head(q).what = "answer" => AnswerIn(q, Head(q).request)
         /\ AnswersDiffer(q) => AnswersDiffer(Tail(q))
         /\ AnswersDiffer(q) /\ Head(q).what = "answer"
              => ~AnswerIn(Tail(q), Head(q).request)
<1>1. /\ Head(q) \in NiMsg /\ Head(q) = q[1]
      /\ Len(q) \in Nat /\ Len(q) >= 1
      /\ Tail(q) \in Seq(NiMsg) /\ Len(Tail(q)) = Len(q) - 1
      /\ \A i \in 1 .. Len(Tail(q)) : Tail(q)[i] = q[i + 1]
  BY TakeHead
<1>2. /\ DOMAIN q = 1 .. Len(q) /\ DOMAIN Tail(q) = 1 .. Len(q) - 1
      /\ 1 \in DOMAIN q
      /\ \A i \in DOMAIN Tail(q) : i + 1 \in DOMAIN q /\ Tail(q)[i] = q[i + 1] /\ i + 1 # 1
      /\ \A i, j \in DOMAIN Tail(q) : i + 1 = j + 1 => i = j
  BY <1>1
<1>3. \A r : AnswerIn(Tail(q), r) => AnswerIn(q, r)
  BY <1>2 DEF AnswerIn
<1>4. Head(q).what = "answer" => AnswerIn(q, Head(q).request)
  BY <1>1, <1>2 DEF AnswerIn
<1>5. AnswersDiffer(q) => AnswersDiffer(Tail(q))
  BY <1>2 DEF AnswersDiffer
<1>6. AnswersDiffer(q) /\ Head(q).what = "answer"
        => ~AnswerIn(Tail(q), Head(q).request)
  BY <1>1, <1>2 DEF AnswersDiffer, AnswerIn
<1> QED
  BY <1>1, <1>3, <1>4, <1>5, <1>6

\* Posting an answer that does not wait yet keeps the answers different.
LEMMA AnswerPosted ==
  ASSUME NEW q \in Seq(NiMsg), NEW m \in NiMsg
  PROVE  /\ Append(q, m) \in Seq(NiMsg)
         /\ \A r : AnswerIn(Append(q, m), r)
                     <=> AnswerIn(q, r) \/ (m.what = "answer" /\ m.request = r)
         /\ AnswersDiffer(q) /\ (m.what = "answer" => ~AnswerIn(q, m.request))
              => AnswersDiffer(Append(q, m))
<1>1. /\ Append(q, m) \in Seq(NiMsg)
      /\ Len(q) \in Nat /\ Len(Append(q, m)) = Len(q) + 1
      /\ Append(q, m)[Len(q) + 1] = m
      /\ \A i \in 1 .. Len(q) : Append(q, m)[i] = q[i]
  BY PostMessage
<1>2. /\ DOMAIN q = 1 .. Len(q) /\ DOMAIN Append(q, m) = DOMAIN q \cup {Len(q) + 1}
      /\ Len(q) + 1 \notin DOMAIN q
  BY <1>1
<1>3. \A r : AnswerIn(Append(q, m), r)
               <=> AnswerIn(q, r) \/ (m.what = "answer" /\ m.request = r)
  BY <1>1, <1>2 DEF AnswerIn
<1>4. AnswersDiffer(q) /\ (m.what = "answer" => ~AnswerIn(q, m.request))
        => AnswersDiffer(Append(q, m))
  BY <1>1, <1>2 DEF AnswersDiffer, AnswerIn
<1> QED
  BY <1>1, <1>3, <1>4

\* No request is held and none was answered.
LEMMA NiInitInv == NiInit => NiInv
<1> SUFFICES ASSUME NiInit PROVE NiInv
  OBVIOUS
<1>1. NiTypes
  BY NiAssumption DEF NiInit, NiTypes, NiResp, NiSessions, NiRequest
<1>2. \A r : ~AnswerIn(niQ, r)
  BY DEF NiInit, AnswerIn
<1>3. HeldOnce
  BY <1>2 DEF NiInit, HeldOnce, AnswersDiffer
<1>4. HeldUnanswered
  BY <1>2, NiAssumption DEF NiInit, HeldUnanswered, Held, NiRequest
<1> QED
  BY <1>1, <1>3, <1>4 DEF NiInv

\* Answering a request counts it.
LEMMA AnsweredOnce ==
  ASSUME NiTypes, NEW r \in NiRequest, Answered(r)
  PROVE  /\ answers' \in [NiRequest -> Nat] /\ answers'[r] = answers[r] + 1
         /\ \A u \in NiRequest \ {r} : answers'[u] = answers[u]
  BY DEF NiTypes, Answered

\* A request that a session or a thread holds is a request.
LEMMA NonZeroRequest ==
  ASSUME NEW r \in 0..MaxNi, r # 0
  PROVE  r \in NiRequest
  BY NiAssumption DEF NiRequest

\* Each step of the modem, the user, the adapter and the threads keeps the types.
LEMMA NiStepTypes == NiTypes /\ [NiNext]_niVars => NiTypes'
<1> SUFFICES ASSUME NiTypes, [NiNext]_niVars PROVE NiTypes'
  OBVIOUS
<1> USE DEF NiTypes
<1>1. ASSUME NEW k \in NiKind, NEW e \in BOOLEAN, NEW o \in BOOLEAN, NiNotify(k, e, o)
      PROVE  NiTypes'
  <2> DEFINE r == niCounter + 1
  <2>1. r \in NiRequest /\ r \in 0..MaxNi /\ niCounter' = r /\ SessionOf(k) \in NiSessions
    BY <1>1, NiAssumption DEF NiNotify, NiRequest, SessionOf, NiSessions
  <2>2. [session |-> "session", resp |-> "ignore"] \in [session : NiSessions, resp : NiResp]
    BY DEF NiSessions, NiResp
  <2>3. UNCHANGED <<niClient, niQ>>
    BY <1>1 DEF NiNotify
  <2>4. CASE Answered(r) /\ niStep' \in {<<[session |-> "session", resp |-> "ignore"]>>, <<>>}
             /\ UNCHANGED <<sessionVars, threadVars, asked>>
    <3>1. <<[session |-> "session", resp |-> "ignore"]>>
            \in Seq([session : NiSessions, resp : NiResp])
          /\ <<>> \in Seq([session : NiSessions, resp : NiResp])
      BY <2>2
    <3>2. niStep' \in Seq([session : NiSessions, resp : NiResp])
      <4>1. niStep' = <<[session |-> "session", resp |-> "ignore"]>> \/ niStep' = <<>>
        BY <2>4
      <4> QED
        BY <3>1, <4>1, Zenon
    <3>3. answers' \in [NiRequest -> Nat]
      BY <2>1, <2>4, AnsweredOnce
    <3> QED
      BY <2>1, <2>3, <2>4, <3>2, <3>3 DEF sessionVars, threadVars
  <2>5. CASE UNCHANGED <<sessionVars, threadVars, asked, answers, niStep>>
    BY <2>1, <2>3, <2>5 DEF sessionVars, threadVars
  <2>6. CASE KeepRequest(r, SessionOf(k))
    <3>1. /\ rawRequest' \in [NiSessions -> 0..MaxNi] /\ reqID' \in [NiSessions -> 0..MaxNi]
          /\ niOf' \in [NiRequest -> NiSessions] /\ asked' \subseteq NiRequest
      BY <2>1, <2>6 DEF KeepRequest
    <3>2. niThread' \in [NiRequest -> {"none", "started", "waiting", "unlocked",
                                       "posting", "gone"}]
      BY <2>1, <2>6 DEF KeepRequest
    <3>3. UNCHANGED <<resp, respRecvd, niPost, answers, niStep>>
      BY <2>6 DEF KeepRequest
    <3> QED
      BY <2>1, <2>3, <3>1, <3>2, <3>3
  <2> QED
    BY <1>1, <2>4, <2>5, <2>6 DEF NiNotify
<1>2. ASSUME NEW r \in NiRequest, NEW u \in UserResponse, UserResponds(r, u)
      PROVE  NiTypes'
  <2>1. [what |-> "user", request |-> r, resp |-> u] \in NiMsg
    BY DEF NiMsg
  <2>2. niQ' \in Seq(NiMsg)
    BY <1>2, <2>1, PostMessage DEF UserResponds
  <2>3. asked' \subseteq NiRequest
        /\ UNCHANGED <<rawRequest, reqID, resp, respRecvd, niCounter, niClient, niThread,
                       niOf, niPost, niStep, answers>>
    BY <1>2 DEF UserResponds, sessionVars, threadVars
  <2> QED
    BY <2>2, <2>3
<1>3. CASE NiLookup
  <2>1. Head(niQ) \in NiMsg /\ Tail(niQ) \in Seq(NiMsg)
    BY <1>3, TakeHead DEF NiLookup
  <2>2. Head(niQ).resp \in UserResponse
    BY <1>3, <2>1 DEF NiMsg, NiLookup
  <2>3. \A x \in UserResponse, s \in NiSessions :
          Store(s, x) \in [session : NiSessions, resp : NiResp]
        /\ Store(s, "ignore") \in [session : NiSessions, resp : NiResp]
    BY DEF Store, NiResp
  <2>4. "session" \in NiSessions /\ "sessionEs" \in NiSessions
    BY DEF NiSessions
  <2>5. niStep' \in Seq([session : NiSessions, resp : NiResp])
    <3> DEFINE T == [session : NiSessions, resp : NiResp]
    <3>1. \A x, y \in T : <<>> \in Seq(T) /\ <<x>> \in Seq(T)
                          /\ <<x>> \o <<y>> \in Seq(T) /\ <<>> \o <<y>> \in Seq(T)
      <4> HIDE DEF T
      <4> QED
        OBVIOUS
    <3>2. /\ Store("session", "ignore") \in T
          /\ Store("sessionEs", Head(niQ).resp) \in T
          /\ Store("session", Head(niQ).resp) \in T
      BY <2>2, <2>3, <2>4
    <3> HIDE DEF T
    <3>3. niStep' \in Seq(T)
      BY <1>3, <3>1, <3>2 DEF NiLookup
    <3> QED
      BY <3>3 DEF T
  <2> QED
    BY <1>3, <2>1, <2>5 DEF NiLookup, sessionVars, threadVars
<1>4. CASE NiStore
  <2>1. Head(niStep) \in [session : NiSessions, resp : NiResp]
        /\ Tail(niStep) \in Seq([session : NiSessions, resp : NiResp])
    BY <1>4, TakeHead DEF NiStore
  <2> QED
    BY <1>4, <2>1 DEF NiStore, threadVars
<1>5. CASE NiAnswer
  <2>1. Head(niQ) \in NiMsg /\ Tail(niQ) \in Seq(NiMsg)
    BY <1>5, TakeHead DEF NiAnswer
  <2>2. answers' \in [NiRequest -> Nat]
    BY <1>5, <2>1, AnsweredOnce DEF NiAnswer, NiMsg
  <2> QED
    BY <1>5, <2>1, <2>2 DEF NiAnswer, sessionVars, threadVars
<1>6. ASSUME NEW r \in NiRequest, NEW x \in NiResp, Finish(r, x) PROVE NiTypes'
  <2>1. niOf[r] \in NiSessions
    OBVIOUS
  <2>2. answers' \in [NiRequest -> Nat] /\ niPost' \in [NiRequest -> 0..MaxNi]
    <3>1. rawRequest[niOf[r]] \in 0..MaxNi
      BY <2>1
    <3>2. CASE rawRequest[niOf[r]] # 0 /\ x = "ignore"
      BY <1>6, <3>1, <3>2, NonZeroRequest, AnsweredOnce DEF Finish
    <3>3. CASE ~(rawRequest[niOf[r]] # 0 /\ x = "ignore")
      BY <1>6, <3>1, <3>3 DEF Finish
    <3> QED
      BY <3>2, <3>3
  <2>3. rawRequest' \in [NiSessions -> 0..MaxNi]
    BY <1>6, <2>1, NiAssumption DEF Finish, ClearRaw
  <2> QED
    BY <1>6, <2>1, <2>2, <2>3 DEF Finish
<1>7. ASSUME NEW r \in NiRequest, NiThreadStarts(r) PROVE NiTypes'
  <2>1. CASE Finish(r, resp[niOf[r]])
    BY <1>6, <2>1
  <2>2. CASE ~Finish(r, resp[niOf[r]])
    BY <1>7, <2>2 DEF NiThreadStarts, sessionVars
  <2> QED
    BY <2>1, <2>2
<1>8. ASSUME NEW r \in NiRequest, NiThreadWakes(r) PROVE NiTypes'
  BY <1>6, <1>8 DEF NiThreadWakes
<1>9. ASSUME NEW r \in NiRequest, NiThreadTimesOut(r) PROVE NiTypes'
  BY <1>6, <1>9 DEF NiThreadTimesOut, NiResp
<1>10. ASSUME NEW r \in NiRequest, NiThreadEnds(r),
              UNCHANGED <<rawRequest, resp, respRecvd, niCounter, niClient, niOf,
                          niStep, asked, answers>>
       PROVE  NiTypes'
  <2>1. niPost[r] # 0 => [what |-> "answer", request |-> niPost[r]] \in NiMsg
    BY NonZeroRequest DEF NiMsg
  <2>2. reqID' \in [NiSessions -> 0..MaxNi] /\ niPost' \in [NiRequest -> 0..MaxNi]
    <3>1. 0 \in 0..MaxNi
      BY NiAssumption
    <3>2. reqID' \in {reqID, [reqID EXCEPT ![niOf[r]] = 0]}
          /\ niPost' \in {niPost, [niPost EXCEPT ![r] = 0]}
      BY <1>10 DEF NiThreadEnds
    <3>3. [reqID EXCEPT ![niOf[r]] = 0] \in [NiSessions -> 0..MaxNi]
      BY <3>1
    <3>4. [niPost EXCEPT ![r] = 0] \in [NiRequest -> 0..MaxNi]
      BY <3>1
    <3> QED
      BY <3>2, <3>3, <3>4
  <2>3. niQ' \in Seq(NiMsg)
    <3>1. CASE niQ' = niQ
      BY <3>1
    <3>2. CASE niPost[r] # 0 /\ niQ' = Append(niQ, [what |-> "answer", request |-> niPost[r]])
      BY <2>1, <3>2, PostMessage
    <3> QED
      BY <1>10, <3>1, <3>2 DEF NiThreadEnds
  <2> QED
    BY <1>10, <2>2, <2>3 DEF NiThreadEnds
<1>11. CASE UNCHANGED niVars
  BY <1>11 DEF niVars, sessionVars, threadVars
<1> QED
  BY <1>1, <1>2, <1>3, <1>4, <1>5, <1>7, <1>8, <1>9, <1>10, <1>11
     DEF NiNext, NiAdapterStep, NiThreadStep

\* A step that neither moves a request nor answers one
LEMMA NothingMoves ==
  ASSUME NiInv, UNCHANGED <<rawRequest, niPost, answers, niCounter>>,
         \A r : AnswerIn(niQ', r) => AnswerIn(niQ, r), AnswersDiffer(niQ')
  PROVE  HeldOnce' /\ HeldUnanswered'
  BY DEF NiInv, HeldOnce, HeldUnanswered, Held

\* Each step moves the data of a request from one place to the next, and answers
\* the request when it leaves the last.
LEMMA NiStepHeld == NiInv /\ [NiNext]_niVars => HeldOnce' /\ HeldUnanswered'
<1> SUFFICES ASSUME NiInv, [NiNext]_niVars PROVE HeldOnce' /\ HeldUnanswered'
  OBVIOUS
<1> USE DEF NiInv
<1>0. niQ \in Seq(NiMsg) /\ AnswersDiffer(niQ)
  BY DEF NiTypes, HeldOnce
<1>1. ASSUME NEW k \in NiKind, NEW e \in BOOLEAN, NEW o \in BOOLEAN, NiNotify(k, e, o)
      PROVE  HeldOnce' /\ HeldUnanswered'
  <2> DEFINE r == niCounter + 1
  <2>1. /\ r \in NiRequest /\ r > niCounter /\ r # 0 /\ niCounter' = r
        /\ \A u \in NiRequest : u > r => u > niCounter /\ u # r
        /\ SessionOf(k) \in NiSessions /\ UNCHANGED niQ
    BY <1>1, NiAssumption DEF NiNotify, NiRequest, SessionOf, NiSessions, NiTypes
  <2>2. answers[r] = 0 /\ ~Held(r)
    BY <2>1 DEF HeldUnanswered
  <2> HIDE DEF r
  <2>3. CASE Answered(r) /\ UNCHANGED <<sessionVars, threadVars>>
    <3>1. /\ answers'[r] = 1 /\ \A u \in NiRequest \ {r} : answers'[u] = answers[u]
      BY <2>1, <2>2, <2>3, AnsweredOnce
    <3>2. HeldOnce'
      BY <2>1, <2>3 DEF HeldOnce, sessionVars, threadVars
    <3>3. \A u : Held(u)' <=> Held(u)
      BY <2>1, <2>3 DEF Held, sessionVars, threadVars
    <3>4. HeldUnanswered'
      BY <2>1, <2>2, <3>1, <3>3 DEF HeldUnanswered
    <3> QED
      BY <3>2, <3>4
  <2>4. CASE UNCHANGED <<sessionVars, threadVars, answers>>
    <3>1. HeldOnce'
      BY <2>1, <2>4 DEF HeldOnce, sessionVars, threadVars
    <3>2. \A u : Held(u)' <=> Held(u)
      BY <2>1, <2>4 DEF Held, sessionVars, threadVars
    <3>3. HeldUnanswered'
      BY <2>1, <2>4, <3>2 DEF HeldUnanswered
    <3> QED
      BY <3>1, <3>3
  <2>5. CASE KeepRequest(r, SessionOf(k))
    <3>1. /\ \A s \in NiSessions :
               rawRequest'[s] = IF s = SessionOf(k) THEN r ELSE rawRequest[s]
          /\ UNCHANGED <<niPost, answers, niQ>>
      BY <2>1, <2>5 DEF KeepRequest, NiTypes
    <3>2. HeldOnce'
      BY <2>1, <2>2, <3>1 DEF HeldOnce, Held
    <3>3. \A u : Held(u)' => Held(u) \/ u = r
      BY <3>1 DEF Held
    <3>4. HeldUnanswered'
      BY <2>1, <2>2, <3>1, <3>3 DEF HeldUnanswered
    <3> QED
      BY <3>2, <3>4
  <2> QED
    BY <1>1, <2>3, <2>4, <2>5 DEF NiNotify, r
<1>2. ASSUME NEW r \in NiRequest, NEW u \in UserResponse, UserResponds(r, u)
      PROVE  HeldOnce' /\ HeldUnanswered'
  <2>1. [what |-> "user", request |-> r, resp |-> u] \in NiMsg
    BY DEF NiMsg
  <2>2. /\ niQ' = Append(niQ, [what |-> "user", request |-> r, resp |-> u])
        /\ UNCHANGED <<rawRequest, niPost, answers, niCounter>>
    BY <1>2 DEF UserResponds, sessionVars, threadVars
  <2> QED
    BY <1>0, <2>1, <2>2, AnswerPosted, NothingMoves
<1>3. CASE NiLookup
  BY <1>0, <1>3, AnswerTaken, NothingMoves DEF NiLookup, sessionVars, threadVars
<1>4. CASE NiStore
  BY <1>0, <1>4, NothingMoves DEF NiStore, threadVars
<1>5. CASE NiAnswer
  <2>1. /\ niQ # <<>> /\ Head(niQ).what = "answer" /\ niQ' = Tail(niQ)
        /\ Answered(Head(niQ).request)
        /\ UNCHANGED <<rawRequest, niPost, niCounter>>
    BY <1>5 DEF NiAnswer, sessionVars, threadVars
  <2>2. PICK r \in NiRequest : r = Head(niQ).request
    BY <1>0, <2>1, AnswerTaken DEF NiMsg
  <2>3. AnswerIn(niQ, r) /\ ~AnswerIn(niQ', r) /\ AnswersDiffer(niQ')
        /\ \A u : AnswerIn(niQ', u) => AnswerIn(niQ, u)
    BY <1>0, <2>1, <2>2, AnswerTaken
  <2>4. answers'[r] = answers[r] + 1 /\ \A u \in NiRequest \ {r} : answers'[u] = answers[u]
    BY <2>1, <2>2, AnsweredOnce
  <2>5. answers[r] = 0 /\ ~(r > niCounter)
    BY <2>3 DEF HeldUnanswered, Held
  <2>6. HeldOnce'
    BY <2>1, <2>3 DEF HeldOnce
  <2>7. ~Held(r)'
    BY <2>1, <2>3 DEF Held, HeldOnce
  <2>8. \A u : Held(u)' => Held(u)
    BY <2>1, <2>3 DEF Held
  <2>9. HeldUnanswered'
    BY <2>1, <2>4, <2>5, <2>7, <2>8 DEF HeldUnanswered
  <2> QED
    BY <2>6, <2>9
<1>6. ASSUME NEW t \in NiRequest, NEW x, Finish(t, x)
      PROVE  HeldOnce' /\ HeldUnanswered'
  <2>1. PICK s \in NiSessions : s = niOf[t]
    BY DEF NiTypes
  <2>2. PICK r \in 0..MaxNi : r = rawRequest[s]
    BY DEF NiTypes
  <2>3. /\ \A v \in NiSessions : rawRequest'[v] = IF v = s THEN 0 ELSE rawRequest[v]
        /\ UNCHANGED <<niQ, niCounter>>
    BY <1>6, <2>1 DEF Finish, ClearRaw, NiTypes
  <2>4. ~AnswerIn(niQ, 0)
    <3>1. \A i \in 1 .. Len(niQ) : niQ[i] \in NiMsg
      BY <1>0, MessageType
    <3>2. \A i \in DOMAIN niQ : niQ[i].request # 0
      BY <1>0, <3>1 DEF NiMsg, NiRequest
    <3> QED
      BY <3>2 DEF AnswerIn
  <2>5. CASE r # 0 /\ x = "ignore"
    <3>1. Answered(r) /\ UNCHANGED niPost /\ r \in NiRequest
      BY <1>6, <2>1, <2>2, <2>5, NonZeroRequest DEF Finish
    <3>2. answers'[r] = answers[r] + 1 /\ \A u \in NiRequest \ {r} : answers'[u] = answers[u]
      BY <3>1, AnsweredOnce
    <3>3. answers[r] = 0 /\ ~(r > niCounter)
      BY <2>2, <3>1 DEF HeldUnanswered, Held
    <3>4. HeldOnce'
      BY <2>2, <2>3, <2>4, <3>1 DEF HeldOnce
    <3>5. ~Held(r)'
      <4>1. \A v \in NiSessions : rawRequest'[v] # r
        BY <2>2, <2>3, <2>5 DEF HeldOnce
      <4>2. \A u \in NiRequest : niPost'[u] # r
        BY <2>2, <2>5, <3>1 DEF HeldOnce
      <4>3. ~AnswerIn(niQ', r)
        BY <2>2, <2>3 DEF HeldOnce
      <4> QED
        BY <4>1, <4>2, <4>3 DEF Held
    <3>6. \A u \in NiRequest : Held(u)' => Held(u)
      BY <2>3, <3>1 DEF Held, NiRequest
    <3>7. HeldUnanswered'
      <4>1. /\ answers'[r] = 1 /\ ~Held(r)' /\ ~(r > niCounter') /\ r \in NiRequest
        BY <2>3, <3>1, <3>2, <3>3, <3>5
      <4>2. ASSUME NEW u \in NiRequest \ {r}
            PROVE  /\ answers'[u] <= 1
                   /\ Held(u)' => answers'[u] = 0
                   /\ u > niCounter' => answers'[u] = 0 /\ ~Held(u)'
        BY <2>3, <3>2, <3>6 DEF HeldUnanswered
      <4> QED
        BY <4>1, <4>2 DEF HeldUnanswered
    <3> QED
      BY <3>4, <3>7
  <2>6. CASE ~(r # 0 /\ x = "ignore")
    <3>1. /\ \A u \in NiRequest : niPost'[u] = IF u = t THEN r ELSE niPost[u]
          /\ UNCHANGED answers
      BY <1>6, <2>1, <2>2, <2>6 DEF Finish, NiTypes
    <3>2. HeldOnce'
      BY <2>2, <2>3, <2>4, <3>1 DEF HeldOnce
    <3>3. \A u \in NiRequest : Held(u)' => Held(u)
      BY <2>2, <2>3, <3>1 DEF Held, NiRequest
    <3>4. HeldUnanswered'
      BY <2>3, <3>1, <3>3 DEF HeldUnanswered
    <3> QED
      BY <3>2, <3>4
  <2> QED
    BY <2>5, <2>6
<1>7. ASSUME NEW t \in NiRequest, NiThreadStarts(t) PROVE HeldOnce' /\ HeldUnanswered'
  <2>1. CASE Finish(t, resp[niOf[t]])
    BY <1>6, <2>1
  <2>2. CASE ~Finish(t, resp[niOf[t]])
    BY <1>0, <1>7, <2>2, NothingMoves DEF NiThreadStarts, sessionVars
  <2> QED
    BY <2>1, <2>2
<1>8. ASSUME NEW t \in NiRequest, NiThreadWakes(t) PROVE HeldOnce' /\ HeldUnanswered'
  BY <1>6, <1>8 DEF NiThreadWakes
<1>9. ASSUME NEW t \in NiRequest, NiThreadTimesOut(t) PROVE HeldOnce' /\ HeldUnanswered'
  BY <1>6, <1>9 DEF NiThreadTimesOut
<1>10. ASSUME NEW t \in NiRequest, NiThreadEnds(t),
              UNCHANGED <<rawRequest, resp, respRecvd, niCounter, niClient, niOf,
                          niStep, asked, answers>>
       PROVE  HeldOnce' /\ HeldUnanswered'
  <2> DEFINE r == niPost[t]
  <2>1. CASE UNCHANGED <<niPost, niQ>>
    BY <1>0, <1>10, <2>1, NothingMoves
  <2>2. CASE niPost' = [niPost EXCEPT ![t] = 0] /\ r # 0
             /\ niQ' = Append(niQ, [what |-> "answer", request |-> r])
    <3>1. r \in NiRequest /\ \A u \in NiRequest : niPost'[u] = IF u = t THEN 0 ELSE niPost[u]
      BY <2>2, NonZeroRequest DEF NiTypes
    <3>2. [what |-> "answer", request |-> r] \in NiMsg
      BY <3>1 DEF NiMsg
    <3>3. ~AnswerIn(niQ, r)
      BY DEF HeldOnce
    <3>4. /\ \A u : AnswerIn(niQ', u) <=> AnswerIn(niQ, u) \/ r = u
          /\ AnswersDiffer(niQ')
      BY <1>0, <2>2, <3>2, <3>3, AnswerPosted
    <3>5. ~AnswerIn(niQ, 0)
      <4>1. \A i \in 1 .. Len(niQ) : niQ[i] \in NiMsg
        BY <1>0, MessageType
      <4>2. \A i \in DOMAIN niQ : niQ[i].request # 0
        BY <1>0, <4>1 DEF NiMsg, NiRequest
      <4> QED
        BY <4>2 DEF AnswerIn
    <3> HIDE DEF r
    <3>6. niPost[t] = r
      BY DEF r
    <3>7. HeldOnce'
      BY <1>10, <2>2, <3>1, <3>4, <3>5, <3>6 DEF HeldOnce
    <3>8. \A u \in NiRequest : Held(u)' => Held(u)
      BY <1>10, <3>1, <3>4, <3>6 DEF Held, NiRequest
    <3>9. HeldUnanswered'
      BY <1>10, <3>8 DEF HeldUnanswered
    <3> QED
      BY <3>7, <3>9
  <2>3. CASE niPost' = [niPost EXCEPT ![t] = 0] /\ r = 0 /\ UNCHANGED niQ
    <3>1. niPost' = niPost
      BY <2>3 DEF NiTypes
    <3> QED
      BY <1>0, <1>10, <2>3, <3>1, NothingMoves
  <2> QED
    BY <1>10, <2>1, <2>2, <2>3 DEF NiThreadEnds
<1>11. CASE UNCHANGED niVars
  BY <1>0, <1>11, NothingMoves DEF niVars, sessionVars, threadVars
<1> QED
  BY <1>1, <1>2, <1>3, <1>4, <1>5, <1>7, <1>8, <1>9, <1>10, <1>11
     DEF NiNext, NiAdapterStep, NiThreadStep

\* The parts together
LEMMA NiStepInv == NiInv /\ [NiNext]_niVars => NiInv'
  BY NiStepTypes, NiStepHeld DEF NiInv
-----------------------------------------------------------------------------
\* The state keeps its types (NiSession and NiData, gps/gnss/GnssAdapter.h).
THEOREM NiTypeCorrect == NiSpec => []NiTypeOK
<1>1. NiInv => NiTypeOK
  BY DEF NiInv, NiTypes, NiResp, NiTypeOK
<1> QED
  BY NiInitInv, NiStepInv, <1>1, PTL DEF NiSpec

\* For any number of requests and responses, no request is answered twice or
\* after its data has been freed (niThreadProc, requestNiNotify and
\* gnssNiResponseCommand, gps/gnss/GnssAdapter.cpp).
THEOREM AnsweredAtMostOnce == NiSpec => []NiAnsweredOnce
<1>1. NiInv => NiAnsweredOnce
  <2> SUFFICES ASSUME NiInv PROVE NiAnsweredOnce
    OBVIOUS
  <2>1. \A s \in NiSessions : rawRequest[s] # 0 => rawRequest[s] \in NiRequest
    BY NonZeroRequest DEF NiInv, NiTypes
  <2> QED
    BY <2>1 DEF NiInv, HeldUnanswered, Held, NiAnsweredOnce
<1> QED
  BY NiInitInv, NiStepInv, <1>1, PTL DEF NiSpec

(***************************************************************************)
(* The masks of events                                                     *)
(***************************************************************************)

MaskSpec == MaskInit /\ [][EventMasksNext]_maskVars

MaskMsg == [op : {"open", "ssr"}, for : MaskAdapter \cup {"none"}]

\* The callbacks that adapter a knows of, and the events they are for
Callbacks(a) == UNION {maskClients[a][c] : c \in MaskClient}
ClientEvents(a) == UNION {EventsFor(k, "nmea" \in needs) : k \in Callbacks(a)}
\* The events that an adapter may turn on for itself
InternalEvents ==
  {"system", "ni"} \cup IF engineHub THEN HubEvents \cup {"nhz"} ELSE {}

MaskTypes ==
  /\ mLocAdapters \subseteq MaskAdapter
  /\ mEvtMask \in [MaskAdapter -> SUBSET Events] /\ engineMask \subseteq Events
  /\ maskClients \in [MaskAdapter -> [MaskClient -> SUBSET Callback]]
  /\ needs \subseteq {"agps", "odcpi", "nmea"}
  /\ maskMsgs \in Seq(MaskMsg)
  /\ engineHub \in BOOLEAN /\ upPosted \in BOOLEAN /\ notOpened \in BOOLEAN
  /\ maskEvents \in 0 .. MaxMaskEvents

\* An adapter that is not in the array yet has no client and wants nothing.
ListedFirst ==
  /\ \A a \in MaskAdapter \ mLocAdapters :
       mEvtMask[a] = {} /\ \A c \in MaskClient : maskClients[a][c] = {}
  /\ "gnss" \notin mLocAdapters => needs \subseteq {"nmea"}

\* No adapter keeps a callback that another serves.
OwnCallbacks ==
  \A a \in MaskAdapter, c \in MaskClient : maskClients[a][c] \subseteq ServedBy(a)

\* The mask of an adapter is what its clients and registrations need, and what
\* the adapter itself may want.
MasksServe ==
  /\ \A a \in {"geofence", "batching"} : mEvtMask[a] = ClientEvents(a)
  /\ ClientEvents("gnss") \cup RegisteredEvents \subseteq mEvtMask["gnss"]
  /\ mEvtMask["gnss"] \subseteq ClientEvents("gnss") \cup RegisteredEvents \cup InternalEvents

\* What the engine was opened with is stale only while a message will open it.
EngineCurrent ==
  maskMsgs = <<>> /\ ~notOpened => engineMask = WantedOf(mLocAdapters)

MaskInv == MaskTypes /\ ListedFirst /\ OwnCallbacks /\ MasksServe /\ EngineCurrent
-----------------------------------------------------------------------------
\* The events of a callback are events, and never one that only the engine hub
\* asks for; mNmeaMask matters to the NMEA callback only.
LEMMA CallbackEvents ==
  ASSUME NEW k \in Callback, NEW nmea \in BOOLEAN
  PROVE  /\ EventsFor(k, nmea) \subseteq Events /\ "nhz" \notin EventsFor(k, nmea)
         /\ EventsFor(k, TRUE)
              = EventsFor(k, FALSE) \cup IF k = "nmea" THEN {"nmea"} ELSE {}
<1>1. EventsFor(k, nmea) \subseteq EventsFor(k, TRUE)
  BY SMT DEF Callback, EventsFor
<1>2. EventsFor(k, TRUE) \subseteq Events
  BY DEF Events
<1>3. "nhz" \notin EventsFor(k, nmea)
  BY SMT DEF Callback, EventsFor
<1>4. EventsFor(k, TRUE)
        = EventsFor(k, FALSE) \cup IF k = "nmea" THEN {"nmea"} ELSE {}
  BY SMT DEF Callback, EventsFor
<1> QED
  BY <1>1, <1>2, <1>3, <1>4

\* There are three adapters.
LEMMA MaskAdapters ==
  MaskAdapter = {"gnss"} \cup {"geofence", "batching"} /\ "gnss" \notin {"geofence", "batching"}
  BY DEF MaskAdapter

\* What updateClientsEventMask computes has the type of a mask.
LEMMA ClientsMaskType ==
  ASSUME MaskTypes, NEW a \in MaskAdapter, NEW clients \in [MaskClient -> SUBSET Callback]
  PROVE  ClientsMask(a, clients) \in SUBSET Events
<1>1. \A k \in UNION {clients[c] : c \in MaskClient} :
        EventsFor(k, "nmea" \in needs) \subseteq Events
  <2>1. PICK nmea \in BOOLEAN : nmea = ("nmea" \in needs)
    <3>1. ("nmea" \in needs) \in BOOLEAN
      OBVIOUS
    <3> QED
      BY <3>1, Zenon
  <2>2. \A k \in UNION {clients[c] : c \in MaskClient} : k \in Callback
    OBVIOUS
  <2>3. \A k \in Callback : EventsFor(k, nmea) \subseteq Events
    BY CallbackEvents
  <2> QED
    BY <2>1, <2>2, <2>3, Zenon
<1>2. HubEvents \subseteq Events /\ RegisteredEvents \subseteq Events
      /\ {"system", "ni"} \subseteq Events
  BY DEF Events, RegisteredEvents, HubEvents
<1>3. mEvtMask[a] \subseteq Events
  BY DEF MaskTypes
<1> QED
  BY <1>1, <1>2, <1>3 DEF ClientsMask

\* A new mask keeps the types and posts a message.
LEMMA UpdateEvtMaskTypes ==
  ASSUME MaskTypes, NEW a \in MaskAdapter, NEW mask \in SUBSET Events,
         UpdateEvtMask(a, mask)
  PROVE  /\ mEvtMask' \in [MaskAdapter -> SUBSET Events]
         /\ mEvtMask'[a] = mask
         /\ \A b \in MaskAdapter \ {a} : mEvtMask'[b] = mEvtMask[b]
         /\ maskMsgs' \in Seq(MaskMsg) /\ maskMsgs' # <<>>
<1>1. [op |-> "open", for |-> "none"] \in MaskMsg
  BY DEF MaskMsg
<1>2. maskMsgs' \in Seq(MaskMsg) /\ maskMsgs' # <<>>
  BY <1>1 DEF UpdateEvtMask, MaskTypes
<1> QED
  BY <1>2 DEF UpdateEvtMask, MaskTypes

\* No adapter is in the array and nothing is wanted.
LEMMA MaskInitInv == MaskInit => MaskInv
<1> SUFFICES ASSUME MaskInit PROVE MaskInv
  OBVIOUS
<1>1. MaskTypes
  <2>1. mEvtMask \in [MaskAdapter -> SUBSET Events]
        /\ maskClients \in [MaskAdapter -> [MaskClient -> SUBSET Callback]]
    BY DEF MaskInit
  <2>2. maskMsgs \in Seq(MaskMsg) /\ maskEvents \in 0 .. MaxMaskEvents
    BY MaskAssumption DEF MaskInit
  <2> QED
    BY <2>1, <2>2 DEF MaskInit, MaskTypes
<1>2. ListedFirst /\ OwnCallbacks
  BY DEF MaskInit, ListedFirst, OwnCallbacks
<1>3. EngineCurrent
  BY DEF MaskInit, EngineCurrent, WantedOf
<1>4. \A a \in MaskAdapter : ClientEvents(a) = {}
  BY DEF MaskInit, ClientEvents, Callbacks
<1>5. RegisteredEvents = {} /\ \A a \in MaskAdapter : mEvtMask[a] = {}
  BY DEF MaskInit, RegisteredEvents
<1>6. MasksServe
  BY <1>4, <1>5, MaskAdapters DEF MasksServe
<1> QED
  BY <1>1, <1>2, <1>3, <1>6 DEF MaskInv

\* A message is posted, or the engine is opened with what is wanted now, or
\* nothing that EngineCurrent speaks of changes.
LEMMA MaskStepEngineCurrent ==
  MaskTypes /\ EngineCurrent /\ [EventMasksNext]_maskVars => EngineCurrent'
<1> SUFFICES ASSUME MaskTypes, EngineCurrent, [EventMasksNext]_maskVars
             PROVE  EngineCurrent'
  OBVIOUS
<1>1. ASSUME NEW a, NEW mask, UpdateEvtMask(a, mask) PROVE maskMsgs' # <<>>
  BY <1>1 DEF UpdateEvtMask, MaskTypes
<1>2. ASSUME NEW a \in MaskAdapter, AddAdapter(a) PROVE EngineCurrent'
  BY <1>2 DEF AddAdapter, EngineCurrent, MaskTypes
<1>3. ASSUME NEW a \in MaskAdapter, NEW c \in MaskClient, NEW k \in CallbackSet,
             SaveClient(a, c, k)
      PROVE  EngineCurrent'
  BY <1>1, <1>3 DEF SaveClient, EngineCurrent
<1>4. ASSUME NEW a \in MaskAdapter, NEW c \in MaskClient, EraseClient(a, c)
      PROVE  EngineCurrent'
  BY <1>1, <1>4 DEF EraseClient, EngineCurrent
<1>5. ASSUME NEW n, NEW e, RegisterAtGnss(n, e) PROVE EngineCurrent'
  BY <1>1, <1>5 DEF RegisterAtGnss, EngineCurrent
<1>6. ASSUME NEW needed \in BOOLEAN, UpdateNHz(needed) PROVE EngineCurrent'
  BY <1>1, <1>6 DEF UpdateNHz, EngineCurrent
<1>7. CASE SetNmeaMask
  BY <1>1, <1>7 DEF SetNmeaMask, EngineCurrent, WantedOf
<1>8. CASE MaskEngineCrash
  BY <1>8 DEF MaskEngineCrash, EngineCurrent, MaskTypes
<1>9. ASSUME NEW ok \in BOOLEAN, OpenEngine(ok) PROVE EngineCurrent'
  BY <1>9 DEF OpenEngine, EngineCurrent, WantedOf
<1>10. CASE UNCHANGED maskVars
  BY <1>10 DEF maskVars, EngineCurrent, WantedOf
<1> QED
  BY <1>2, <1>3, <1>4, <1>5, <1>6, <1>7, <1>8, <1>9, <1>10 DEF EventMasksNext

\* A step that leaves the masks, the clients and the registrations alone
LEMMA MasksStay ==
  ASSUME MaskInv, UNCHANGED <<engineHub, mEvtMask, maskClients, needs>>,
         mLocAdapters \subseteq mLocAdapters'
  PROVE  ListedFirst' /\ OwnCallbacks' /\ MasksServe'
  BY DEF MaskInv, ListedFirst, OwnCallbacks, MasksServe, ClientEvents, Callbacks,
         RegisteredEvents, InternalEvents

\* The adapter sets its mask anew when the callbacks of a client change.
LEMMA ClientChanges ==
  ASSUME MaskInv, NEW a \in mLocAdapters, NEW c \in MaskClient,
         NEW callbacks \in SUBSET Callback, callbacks \subseteq ServedBy(a),
         maskClients' = [maskClients EXCEPT ![a][c] = callbacks],
         UpdateEvtMask(a, ClientsMask(a, maskClients'[a])),
         UNCHANGED <<engineHub, mLocAdapters, needs>>
  PROVE  /\ mEvtMask' \in [MaskAdapter -> SUBSET Events]
         /\ maskClients' \in [MaskAdapter -> [MaskClient -> SUBSET Callback]]
         /\ maskMsgs' \in Seq(MaskMsg)
         /\ ListedFirst' /\ OwnCallbacks' /\ MasksServe'
<1> USE DEF MaskInv
<1>1. a \in MaskAdapter
  BY DEF MaskTypes
<1>2. /\ maskClients' \in [MaskAdapter -> [MaskClient -> SUBSET Callback]]
      /\ \A b \in MaskAdapter, d \in MaskClient :
           maskClients'[b][d] = IF b = a /\ d = c THEN callbacks ELSE maskClients[b][d]
      /\ \A b \in MaskAdapter \ {a} : maskClients'[b] = maskClients[b]
  BY <1>1 DEF MaskTypes
<1>3. ClientsMask(a, maskClients'[a]) \in SUBSET Events
  BY <1>1, <1>2, ClientsMaskType
<1>4. /\ mEvtMask' \in [MaskAdapter -> SUBSET Events]
      /\ mEvtMask'[a] = ClientsMask(a, maskClients'[a])
      /\ \A b \in MaskAdapter \ {a} : mEvtMask'[b] = mEvtMask[b]
      /\ maskMsgs' \in Seq(MaskMsg)
  BY <1>1, <1>3, UpdateEvtMaskTypes
<1>5. ListedFirst'
  BY <1>1, <1>2, <1>4 DEF ListedFirst
<1>6. OwnCallbacks'
  BY <1>2 DEF OwnCallbacks
<1>7. \A b \in MaskAdapter \ {a} : ClientEvents(b)' = ClientEvents(b)
  BY <1>2 DEF ClientEvents, Callbacks
<1>8. RegisteredEvents' = RegisteredEvents /\ InternalEvents' = InternalEvents
  BY DEF RegisteredEvents, InternalEvents
<1>9. ClientEvents(a)'
        = UNION {EventsFor(k, "nmea" \in needs) :
                 k \in UNION {maskClients'[a][d] : d \in MaskClient}}
  BY DEF ClientEvents, Callbacks
<1>10. CASE a = "gnss"
  <2>1. /\ ClientEvents("gnss")' \cup RegisteredEvents \subseteq ClientsMask(a, maskClients'[a])
        /\ ClientsMask(a, maskClients'[a])
             \subseteq ClientEvents("gnss")' \cup RegisteredEvents \cup InternalEvents
    BY <1>9, <1>10 DEF ClientsMask, InternalEvents
  <2> QED
    BY <1>2, <1>4, <1>5, <1>6, <1>7, <1>8, <1>10, <2>1, MaskAdapters DEF MasksServe
<1>11. CASE a # "gnss"
  <2>1. mEvtMask'[a] = ClientEvents(a)'
    BY <1>4, <1>9, <1>11 DEF ClientsMask
  <2> QED
    BY <1>2, <1>4, <1>5, <1>6, <1>7, <1>8, <1>11, <2>1, MaskAdapters DEF MasksServe
<1> QED
  BY <1>10, <1>11

\* The bound on the events
LEMMA MaskEventTypes ==
  ASSUME MaskTypes, MaskEvent
  PROVE  maskEvents' \in 0 .. MaxMaskEvents /\ engineHub' = engineHub
  BY MaskAssumption DEF MaskTypes, MaskEvent

\* Each step keeps what the adapters know, want and have told the LocApi.
LEMMA MaskStepInv ==
  ASSUME MaskInv, [EventMasksNext]_maskVars
  PROVE  MaskInv'
<1> USE DEF MaskInv
<1>0. EngineCurrent'
  BY MaskStepEngineCurrent
<1>1. ASSUME NEW a \in MaskAdapter, AddAdapter(a) PROVE MaskInv'
  <2>1. [op |-> "open", for |-> a] \in MaskMsg
    BY DEF MaskMsg
  <2>2. maskMsgs' \in Seq(MaskMsg)
    BY <1>1, <2>1 DEF AddAdapter, MaskTypes
  <2>3. MaskTypes'
    BY <1>1, <2>2, MaskEventTypes DEF AddAdapter, MaskTypes
  <2>4. UNCHANGED <<engineHub, mEvtMask, maskClients, needs>>
        /\ mLocAdapters \subseteq mLocAdapters'
    BY <1>1, MaskEventTypes DEF AddAdapter
  <2> QED
    BY <1>0, <2>3, <2>4, MasksStay
<1>2. ASSUME NEW a \in MaskAdapter, NEW c \in MaskClient, NEW k \in CallbackSet,
             SaveClient(a, c, k)
      PROVE  MaskInv'
  <2>1. k \cap ServedBy(a) \in SUBSET Callback
    BY MaskAssumption
  <2>2. UNCHANGED <<engineHub, mLocAdapters, needs>>
    BY <1>2, MaskEventTypes DEF SaveClient
  <2>3. /\ mEvtMask' \in [MaskAdapter -> SUBSET Events]
        /\ maskClients' \in [MaskAdapter -> [MaskClient -> SUBSET Callback]]
        /\ maskMsgs' \in Seq(MaskMsg)
        /\ ListedFirst' /\ OwnCallbacks' /\ MasksServe'
    BY <1>2, <2>1, <2>2, ClientChanges DEF SaveClient
  <2>4. MaskTypes'
    BY <1>2, <2>2, <2>3, MaskEventTypes DEF SaveClient, MaskTypes
  <2> QED
    BY <1>0, <2>3, <2>4
<1>3. ASSUME NEW a \in MaskAdapter, NEW c \in MaskClient, EraseClient(a, c)
      PROVE  MaskInv'
  <2>1. a \in mLocAdapters
    BY <1>3 DEF EraseClient, ListedFirst
  <2>2. UNCHANGED <<engineHub, mLocAdapters, needs>>
    BY <1>3, MaskEventTypes DEF EraseClient
  <2>3. /\ mEvtMask' \in [MaskAdapter -> SUBSET Events]
        /\ maskClients' \in [MaskAdapter -> [MaskClient -> SUBSET Callback]]
        /\ maskMsgs' \in Seq(MaskMsg)
        /\ ListedFirst' /\ OwnCallbacks' /\ MasksServe'
    <3>1. PICK none \in SUBSET Callback : none = {}
      OBVIOUS
    <3>2. none \subseteq ServedBy(a)
          /\ maskClients' = [maskClients EXCEPT ![a][c] = none]
          /\ UpdateEvtMask(a, ClientsMask(a, maskClients'[a]))
      BY <1>3, <3>1 DEF EraseClient
    <3> QED
      BY <2>1, <2>2, <3>2, ClientChanges
  <2>4. MaskTypes'
    BY <1>3, <2>2, <2>3, MaskEventTypes DEF EraseClient, MaskTypes
  <2> QED
    BY <1>0, <2>3, <2>4
<1>4. ASSUME NEW n, NEW e, RegisterAtGnss(n, e), <<n, e>> \in {<<"agps", "server">>, <<"odcpi", "wifi">>}
      PROVE  MaskInv'
  <2>1. e \in Events /\ n \in {"agps", "odcpi"}
    BY <1>4 DEF Events
  <2>2. "gnss" \in MaskAdapter
    BY MaskAdapters
  <2>3. mEvtMask["gnss"] \cup {e} \in SUBSET Events
    BY <2>1, <2>2 DEF MaskTypes
  <2>4. UpdateEvtMask("gnss", mEvtMask["gnss"] \cup {e})
    BY <1>4 DEF RegisterAtGnss
  <2>5. /\ mEvtMask' \in [MaskAdapter -> SUBSET Events]
        /\ mEvtMask'["gnss"] = mEvtMask["gnss"] \cup {e}
        /\ \A b \in MaskAdapter \ {"gnss"} : mEvtMask'[b] = mEvtMask[b]
        /\ maskMsgs' \in Seq(MaskMsg)
    BY <2>2, <2>3, <2>4, UpdateEvtMaskTypes
  <2>6. MaskTypes'
    BY <1>4, <2>1, <2>5, MaskEventTypes DEF RegisterAtGnss, MaskTypes
  <2>7. "gnss" \in mLocAdapters /\ UNCHANGED <<engineHub, mLocAdapters, maskClients>>
        /\ needs' = needs \cup {n}
    BY <1>4, MaskEventTypes DEF RegisterAtGnss
  <2>8. ListedFirst' /\ OwnCallbacks'
    BY <2>5, <2>7 DEF ListedFirst, OwnCallbacks
  <2>9. ("nmea" \in needs') = ("nmea" \in needs)
    BY <2>1, <2>7
  <2>10. \A a \in MaskAdapter : ClientEvents(a)' = ClientEvents(a)
    BY <2>7, <2>9 DEF ClientEvents, Callbacks
  <2>11. RegisteredEvents' = RegisteredEvents \cup {e} /\ InternalEvents' = InternalEvents
    BY <1>4, <2>7 DEF RegisteredEvents, InternalEvents
  <2>12. MasksServe'
    BY <2>5, <2>10, <2>11, MaskAdapters DEF MasksServe
  <2> QED
    BY <1>0, <2>6, <2>8, <2>12
<1>5. ASSUME NEW needed \in BOOLEAN, UpdateNHz(needed) PROVE MaskInv'
  <2>1. engineHub /\ "gnss" \in mLocAdapters /\ "gnss" \in MaskAdapter
    BY <1>5, MaskAdapters DEF UpdateNHz
  <2>2. PICK mask \in {mEvtMask["gnss"] \cup {"nhz"}, mEvtMask["gnss"] \ {"nhz"}} :
          UpdateEvtMask("gnss", mask)
    BY <1>5 DEF UpdateNHz
  <2>3. mask \in SUBSET Events
    BY <2>1, <2>2 DEF MaskTypes, Events
  <2>4. /\ mEvtMask' \in [MaskAdapter -> SUBSET Events]
        /\ mEvtMask'["gnss"] = mask
        /\ \A b \in MaskAdapter \ {"gnss"} : mEvtMask'[b] = mEvtMask[b]
        /\ maskMsgs' \in Seq(MaskMsg)
    BY <2>1, <2>2, <2>3, UpdateEvtMaskTypes
  <2>5. UNCHANGED <<engineHub, mLocAdapters, maskClients, needs>>
    BY <1>5, MaskEventTypes DEF UpdateNHz
  <2>6. MaskTypes'
    BY <1>5, <2>4, <2>5, MaskEventTypes DEF UpdateNHz, MaskTypes
  <2>7. ListedFirst' /\ OwnCallbacks'
    BY <2>1, <2>4, <2>5 DEF ListedFirst, OwnCallbacks
  <2>8. \A a \in MaskAdapter : ClientEvents(a)' = ClientEvents(a)
    BY <2>5 DEF ClientEvents, Callbacks
  <2>9. RegisteredEvents' = RegisteredEvents /\ InternalEvents' = InternalEvents
        /\ "nhz" \in InternalEvents /\ "nhz" \notin RegisteredEvents
    BY <2>1, <2>5 DEF RegisteredEvents, InternalEvents
  <2>10. "nhz" \notin ClientEvents("gnss")
    <3>1. ("nmea" \in needs) \in BOOLEAN /\ Callbacks("gnss") \subseteq Callback
      BY <2>1 DEF Callbacks, MaskTypes
    <3> QED
      BY <3>1, CallbackEvents DEF ClientEvents
  <2>11. MasksServe'
    BY <2>2, <2>4, <2>8, <2>9, <2>10, MaskAdapters DEF MasksServe
  <2> QED
    BY <1>0, <2>6, <2>7, <2>11
<1>6. CASE SetNmeaMask
  <2>1. UNCHANGED <<engineHub, mLocAdapters, maskClients, maskEvents, engineMask, notOpened>>
        /\ upPosted' = FALSE /\ needs' \in {needs, needs \cup {"nmea"}}
    BY <1>6 DEF SetNmeaMask
  <2>2. /\ mEvtMask' \in [MaskAdapter -> SUBSET Events]
        /\ maskMsgs' \in Seq(MaskMsg)
        /\ \A b \in MaskAdapter \ {"gnss"} : mEvtMask'[b] = mEvtMask[b]
        /\ mEvtMask'["gnss"] =
             IF needs' # needs /\ "nmea" \in Callbacks("gnss")
             THEN mEvtMask["gnss"] \cup {"nmea"} ELSE mEvtMask["gnss"]
    <3>1. "gnss" \in MaskAdapter /\ "nmea" \in Events
      BY MaskAdapters DEF Events, EventsFor, Callback
    <3>2. mEvtMask["gnss"] \cup {"nmea"} \in SUBSET Events
      BY <3>1 DEF MaskTypes
    <3>3. ("nmea" \in Callbacks("gnss"))
            <=> \E c \in MaskClient : "nmea" \in maskClients["gnss"][c]
      BY DEF Callbacks
    <3>4. CASE needs' # needs /\ "nmea" \in Callbacks("gnss")
      <4>1. UpdateEvtMask("gnss", mEvtMask["gnss"] \cup {"nmea"})
        BY <1>6, <3>3, <3>4 DEF SetNmeaMask
      <4> QED
        BY <3>1, <3>2, <3>4, <4>1, UpdateEvtMaskTypes
    <3>5. CASE ~(needs' # needs /\ "nmea" \in Callbacks("gnss"))
      BY <1>6, <3>3, <3>5 DEF SetNmeaMask, MaskTypes
    <3> QED
      BY <3>4, <3>5
  <2>3. MaskTypes'
    BY <2>1, <2>2 DEF MaskTypes
  <2>4. "gnss" \in mLocAdapters \/ mEvtMask'["gnss"] = mEvtMask["gnss"]
    <3>1. "gnss" \notin mLocAdapters => Callbacks("gnss") = {}
      BY MaskAdapters DEF ListedFirst, Callbacks
    <3> QED
      BY <2>2, <3>1
  <2>5. ListedFirst' /\ OwnCallbacks'
    BY <2>1, <2>2, <2>4 DEF ListedFirst, OwnCallbacks
  <2>6. \A a \in MaskAdapter :
          ClientEvents(a)' = ClientEvents(a) \cup
            IF needs' # needs /\ "nmea" \in Callbacks(a) THEN {"nmea"} ELSE {}
    <3>1. TAKE a \in MaskAdapter
    <3>2. Callbacks(a)' = Callbacks(a) /\ Callbacks(a) \subseteq Callback
      BY <2>1 DEF Callbacks, MaskTypes
    <3>3. CASE needs' = needs
      BY <3>2, <3>3 DEF ClientEvents
    <3>4. CASE needs' # needs
      <4>1. "nmea" \notin needs /\ "nmea" \in needs'
        BY <2>1, <3>4
      <4>2. /\ ("nmea" \in needs) = FALSE /\ ("nmea" \in needs') = TRUE
        BY <4>1
      <4>3. ClientEvents(a) = UNION {EventsFor(k, FALSE) : k \in Callbacks(a)}
            /\ ClientEvents(a)' = UNION {EventsFor(k, TRUE) : k \in Callbacks(a)}
        BY <3>2, <4>2 DEF ClientEvents
      <4>4. \A k \in Callbacks(a) :
              EventsFor(k, TRUE)
                = EventsFor(k, FALSE) \cup IF k = "nmea" THEN {"nmea"} ELSE {}
        BY <3>2, CallbackEvents
      <4>5. CASE "nmea" \in Callbacks(a)
        <5> DEFINE off == {EventsFor(k, FALSE) : k \in Callbacks(a)}
                   on == {EventsFor(k, TRUE) : k \in Callbacks(a)}
        <5>1. UNION on = (UNION off) \cup {"nmea"}
          <6>1. UNION on \subseteq (UNION off) \cup {"nmea"}
            <7>1. ASSUME NEW k \in Callbacks(a)
                  PROVE  EventsFor(k, TRUE) \subseteq (UNION off) \cup {"nmea"}
              <8>1. EventsFor(k, FALSE) \subseteq UNION off
                OBVIOUS
              <8> QED
                BY <4>4, <8>1
            <7> QED
              BY <7>1
          <6>2. UNION off \subseteq UNION on
            <7>1. ASSUME NEW k \in Callbacks(a) PROVE EventsFor(k, FALSE) \subseteq UNION on
              <8>1. EventsFor(k, TRUE) \subseteq UNION on
                OBVIOUS
              <8> QED
                BY <4>4, <8>1
            <7> QED
              BY <7>1
          <6>3. "nmea" \in UNION on
            <7>1. "nmea" \in EventsFor("nmea", TRUE)
              BY <4>4, <4>5
            <7> QED
              BY <4>5, <7>1
          <6> QED
            BY <6>1, <6>2, <6>3
        <5> QED
          BY <3>4, <4>3, <4>5, <5>1
      <4>6. CASE "nmea" \notin Callbacks(a)
        <5>1. \A k \in Callbacks(a) : EventsFor(k, TRUE) = EventsFor(k, FALSE)
          BY <4>4, <4>6
        <5> QED
          BY <3>4, <4>3, <4>6, <5>1
      <4> QED
        BY <4>5, <4>6
    <3> QED
      BY <3>3, <3>4
  <2>7. \A a \in {"geofence", "batching"} : "nmea" \notin Callbacks(a)
    BY MaskAdapters DEF OwnCallbacks, ServedBy, Callbacks
  <2>8. RegisteredEvents' = RegisteredEvents /\ InternalEvents' = InternalEvents
    BY <2>1 DEF RegisteredEvents, InternalEvents
  <2>9. \A a \in {"geofence", "batching"} : mEvtMask'[a] = ClientEvents(a)'
    <3>1. TAKE a \in {"geofence", "batching"}
    <3>2. a \in MaskAdapter /\ a # "gnss"
      BY MaskAdapters
    <3>3. ClientEvents(a)' = ClientEvents(a)
      BY <2>6, <2>7, <3>2
    <3> QED
      BY <2>2, <3>2, <3>3 DEF MasksServe
  <2>10. /\ ClientEvents("gnss")' \cup RegisteredEvents \subseteq mEvtMask'["gnss"]
         /\ mEvtMask'["gnss"]
              \subseteq ClientEvents("gnss")' \cup RegisteredEvents \cup InternalEvents
    <3>1. "gnss" \in MaskAdapter
      BY MaskAdapters
    <3>2. CASE needs' # needs /\ "nmea" \in Callbacks("gnss")
      BY <2>2, <2>6, <3>1, <3>2 DEF MasksServe
    <3>3. CASE ~(needs' # needs /\ "nmea" \in Callbacks("gnss"))
      BY <2>2, <2>6, <3>1, <3>3 DEF MasksServe
    <3> QED
      BY <3>2, <3>3
  <2>11. MasksServe'
    BY <2>8, <2>9, <2>10 DEF MasksServe
  <2> QED
    BY <1>0, <2>3, <2>5, <2>11
<1>7. CASE MaskEngineCrash
  <2>1. [op |-> "ssr", for |-> "none"] \in MaskMsg
    BY DEF MaskMsg
  <2>2. maskMsgs' \in Seq(MaskMsg)
    BY <1>7, <2>1 DEF MaskEngineCrash, MaskTypes
  <2>3. MaskTypes'
    BY <1>7, <2>2, MaskEventTypes DEF MaskEngineCrash, MaskTypes
  <2> QED
    BY <1>0, <1>7, <2>3, MaskEventTypes, MasksStay DEF MaskEngineCrash
<1>8. ASSUME NEW ok \in BOOLEAN, OpenEngine(ok) PROVE MaskInv'
  <2>1. maskMsgs' \in Seq(MaskMsg)
    BY <1>8, TakeHead DEF OpenEngine, MaskTypes
  <2>2. engineMask' \subseteq Events
    BY <1>8 DEF OpenEngine, WantedOf, MaskTypes
  <2>3. MaskTypes'
    BY <1>8, <2>1, <2>2 DEF OpenEngine, MaskTypes
  <2> QED
    BY <1>0, <1>8, <2>3, MasksStay DEF OpenEngine
<1>9. CASE UNCHANGED maskVars
  BY <1>0, <1>9, MasksStay DEF maskVars, MaskTypes
<1> QED
  BY <1>1, <1>2, <1>3, <1>4, <1>5, <1>6, <1>7, <1>8, <1>9 DEF EventMasksNext
-----------------------------------------------------------------------------
\* The state keeps its types (gps/core/LocAdapterBase.h, gps/core/LocApiBase.h).
THEOREM EventMasksTypeCorrect == MaskSpec => []EventMasksTypeOK
<1>1. MaskInv => EventMasksTypeOK
  BY DEF MaskInv, MaskTypes, MaskMsg, EventMasksTypeOK
<1> QED
  BY MaskInitInv, MaskStepInv, <1>1, PTL DEF MaskSpec

\* The events registered for, each by what needs it
LEMMA RegisteredNeeds ==
  ASSUME needs \subseteq {"agps", "odcpi", "nmea"}
  PROVE  {IF n = "agps" THEN "server" ELSE "wifi" : n \in needs \ {"nmea"}} = RegisteredEvents
<1>1. ASSUME NEW n \in needs \ {"nmea"}
      PROVE  (IF n = "agps" THEN "server" ELSE "wifi") \in RegisteredEvents
  <2>1. CASE n = "agps"
    BY <2>1 DEF RegisteredEvents
  <2>2. CASE n = "odcpi"
    BY <2>2 DEF RegisteredEvents
  <2>. QED  BY <2>1, <2>2
<1>2. ASSUME NEW x \in RegisteredEvents
      PROVE  \E n \in needs \ {"nmea"} : x = IF n = "agps" THEN "server" ELSE "wifi"
  <2>1. CASE x = "server"
    <3>1. "agps" \in needs \ {"nmea"}
      BY <1>2, <2>1 DEF RegisteredEvents
    <3>. QED  BY <2>1, <3>1
  <2>2. CASE x = "wifi"
    <3>1. "odcpi" \in needs \ {"nmea"}
      BY <1>2, <2>2 DEF RegisteredEvents
    <3>. QED  BY <2>2, <3>1
  <2>. QED  BY <1>2, <2>1, <2>2 DEF RegisteredEvents
<1>. QED  BY <1>1, <1>2

\* For any number of clients, sets of callbacks and events, the engine reports
\* what is needed and no more once the LocApi thread is done (updateEvtMask,
\* updateClientsEventMask and getEvtMask, gps/core/LocAdapterBase.cpp,
\* gps/gnss/GnssAdapter.cpp and gps/core/LocApiBase.cpp).
THEOREM EngineReports == MaskSpec => []EngineReportsWhatIsNeeded
<1>1. MaskInv => EngineReportsWhatIsNeeded
  <2> USE DEF MaskInv
  <2> DEFINE callbacks == UNION {maskClients[a][c] : a \in mLocAdapters, c \in MaskClient}
             needed == (UNION {EventsFor(k, "nmea" \in needs) : k \in callbacks})
                          \cup {IF n = "agps" THEN "server" ELSE "wifi" : n \in needs \ {"nmea"}}
  <2> SUFFICES ASSUME MaskInv, maskMsgs = <<>>, ~notOpened
               PROVE  needed \subseteq engineMask
                      /\ engineMask \ InternalEvents = needed \ InternalEvents
    BY DEF EngineReportsWhatIsNeeded, InternalEvents
  <2>1. engineMask = UNION {mEvtMask[a] : a \in mLocAdapters}
    BY DEF EngineCurrent, WantedOf
  <2>2. (UNION {EventsFor(k, "nmea" \in needs) : k \in callbacks})
          = UNION {ClientEvents(a) : a \in mLocAdapters}
    BY DEF ClientEvents, Callbacks
  <2>3. {IF n = "agps" THEN "server" ELSE "wifi" : n \in needs \ {"nmea"}}
          = RegisteredEvents
    BY RegisteredNeeds DEF MaskTypes
  <2>4. RegisteredEvents # {} => "gnss" \in mLocAdapters
    BY DEF RegisteredEvents, ListedFirst
  <2>5. needed = (UNION {ClientEvents(a) : a \in mLocAdapters}) \cup RegisteredEvents
    BY <2>2, <2>3
  <2>6. \A a \in mLocAdapters :
          /\ ClientEvents(a) \subseteq mEvtMask[a]
          /\ mEvtMask[a] \subseteq ClientEvents(a) \cup RegisteredEvents \cup InternalEvents
    BY MaskAdapters DEF MasksServe, MaskTypes
  <2>7. "gnss" \in mLocAdapters => RegisteredEvents \subseteq mEvtMask["gnss"]
    BY DEF MasksServe
  <2> HIDE DEF needed
  <2> QED
    BY <2>1, <2>4, <2>5, <2>6, <2>7
<1> QED
  BY MaskInitInv, MaskStepInv, <1>1, PTL DEF MaskSpec

(***************************************************************************)
(* Batching                                                                *)
(***************************************************************************)

\* The walk through a map is a sequence of its keys, each at one place.
LEMMA SessionWalk ==
  ASSUME NEW S, IsFiniteSet(S), NEW rank \in [S -> Int]
  PROVE  /\ Ascending(S, rank) \in Seq(S)
         /\ \A x \in S : \E i \in DOMAIN Ascending(S, rank) : Ascending(S, rank)[i] = x
         /\ \A i, j \in DOMAIN Ascending(S, rank) :
              Ascending(S, rank)[i] = Ascending(S, rank)[j] => i = j
<1>1. PICK s : s = Ascending(S, rank)
  OBVIOUS
<1>2. s \in [1..Cardinality(S) -> S] /\ IsInjective(s)
  <2>1. Ascending(S, rank) \in [1..Cardinality(S) -> S] /\ IsInjective(Ascending(S, rank))
    BY OrderExists DEF Ascending
  <2> QED
    BY <1>1, <2>1
<1> QED
  BY <1>1, <1>2, EachOnce

BatchSpec == BatchingInit /\ [][BatchingNext]_batchVars

\* The modes there are as long as no trip was asked for, or then
Modes == IF tripStarted THEN BatchingMode ELSE BatchingMode \ {"trip"}

\* The commands and calls about sessions of modes M, and the messages if the
\* engine has refused calls of the kinds R only
CommandsIn(M) ==
  [what : {"start", "update"}, key : BatchKey, mode : M, was : {None}]
    \cup [what : {"stop"}, key : BatchKey, mode : {None}, was : {None}]
CallsIn(M) ==
  [what : {"start", "restart"}, key : BatchKey, mode : M, was : {None}]
    \cup [what : {"startTrip", "query"}, key : BatchKey, mode : M \cap {"trip"}, was : {None}]
    \cup [what : {"stop"}, key : BatchKey, mode : M \cup {None}, was : M]
    \cup [what : {"stopTrip"}, key : BatchKey, mode : M \cup {None}, was : M \cap {"trip"}]
RefusedIn(M, R) == {c \in CallsIn(M) : c.what \in R}
EngineUpMsg == [what : {"engineUp"}]
MsgsIn(M, R) ==
  CommandsIn(M) \cup EngineUpMsg \cup [what : {"removeClient"}, client : BatchClient]
    \cup [what : {"answer"}, ok : {TRUE}, call : CallsIn(M)]
    \cup [what : {"answer"}, ok : {FALSE}, call : RefusedIn(M, R)]

SessionsIn(s, M) == s \in [DOMAIN s -> M] /\ DOMAIN s \subseteq BatchKey /\ IsFiniteSet(DOMAIN s)
TripsIn(t, M) == t \subseteq BatchKey /\ (t # {} => "trip" \in M)

SessionsTyped(M) ==
  /\ SessionsIn(mBatchingSessions, M) /\ TripsIn(mTripSessions, M)
  /\ batchFull \in BOOLEAN /\ batchCalls \in Seq(CallsIn(M))
BatchFlags ==
  /\ capabilitiesKnown \in BOOLEAN /\ batchUp \in BOOLEAN /\ tripStarted \in BOOLEAN
  /\ batchClients \subseteq BatchClient /\ batchIds \in 0..MaxBatching
  /\ engineBatches \subseteq BatchKey
BatchQueues(M, R) ==
  mPendingMsgs \in Seq(CommandsIn(M)) /\ batchMsgs \in Seq(MsgsIn(M, R))
BatchTyped(M, R) == SessionsTyped(M) /\ BatchFlags /\ BatchQueues(M, R)

\* The sessions that report
Reporting(s) == {k \in DOMAIN s : s[k] # "noAuto"}
Registered ==
  "stop" \notin batchRefused /\ ~tripStarted => (Reporting(mBatchingSessions) # {} => batchFull)

\* The calls that start or stop session k, and those that start
On(k) == {c \in CallsIn(BatchingMode) : c.what \in {"start", "restart", "stop"} /\ c.key = k}
Opening == {c \in CallsIn(BatchingMode) : c.what # "stop"}

\* What the engine will collect positions for when it has handled the calls:
\* nothing the adapter does not keep, and all that the adapter keeps, unless it
\* has been restarted and the adapter has yet to hear of that.
Collected(k) == Outcome(batchCalls, On(k), Opening, k \in engineBatches)
CollectedRight(k) ==
  /\ k \in DOMAIN mBatchingSessions /\ batchUp /\ NoneOf(batchMsgs, EngineUpMsg) => Collected(k)
  /\ k \notin DOMAIN mBatchingSessions => ~Collected(k)
Served == batchRefused = {} /\ ~tripStarted => \A k \in BatchKey : CollectedRight(k)

BatchInv == BatchTyped(Modes, batchRefused) /\ Registered /\ Served
-----------------------------------------------------------------------------
\* What a message is about.
LEMMA MsgIs ==
  ASSUME NEW M, NEW R, NEW m \in MsgsIn(M, R)
  PROVE  /\ m.what \in {"start", "update"} =>
              m \in CommandsIn(M) /\ m.key \in BatchKey /\ m.mode \in M
         /\ m.what = "stop" => m \in CommandsIn(M) /\ m.key \in BatchKey /\ m.mode = None
         /\ m.what = "removeClient" => m.client \in BatchClient
         /\ m.what = "answer" =>
              /\ m.call \in CallsIn(M) /\ m.ok \in BOOLEAN
              /\ m.ok = FALSE => m.call.what \in R
         /\ m \in EngineUpMsg <=> m.what = "engineUp"
BY DEF MsgsIn, CommandsIn, EngineUpMsg, RefusedIn

\* What a call is about.
LEMMA CallIs ==
  ASSUME NEW M, M \subseteq BatchingMode, NEW c \in CallsIn(M)
  PROVE  /\ c.key \in BatchKey /\ c.mode \in M \cup {None} /\ c \in CallsIn(BatchingMode)
         /\ c.what \in {"start", "restart", "startTrip", "query", "stop", "stopTrip"}
         /\ c.what \in {"start", "restart"} => c.mode \in M
         /\ c.what \in {"startTrip", "query"} => c.mode = "trip" /\ "trip" \in M
         /\ c.what = "stop" => c.was \in M
         /\ c.what = "stopTrip" => "trip" \in M
BY DEF CallsIn, BatchingMode, None

\* Where the modes are more, the calls are.
LEMMA MoreModes ==
  ASSUME NEW M, NEW N, M \subseteq N, NEW R, NEW Q, R \subseteq Q
  PROVE  /\ CommandsIn(M) \subseteq CommandsIn(N) /\ CallsIn(M) \subseteq CallsIn(N)
         /\ MsgsIn(M, R) \subseteq MsgsIn(N, Q)
         /\ BatchQueues(M, R) => BatchQueues(N, Q)
         /\ SessionsTyped(M) => SessionsTyped(N)
         /\ BatchTyped(M, R) => BatchTyped(N, Q)
<1>1. CommandsIn(M) \subseteq CommandsIn(N)
  BY DEF CommandsIn
<1>2. CallsIn(M) \subseteq CallsIn(N)
  BY DEF CallsIn
<1>3. RefusedIn(M, R) \subseteq RefusedIn(N, Q)
  BY <1>2 DEF RefusedIn
<1>4. MsgsIn(M, R) \subseteq MsgsIn(N, Q)
  BY <1>1, <1>2, <1>3 DEF MsgsIn
<1>5. BatchQueues(M, R) => BatchQueues(N, Q)
  BY <1>1, <1>4 DEF BatchQueues
<1>6. SessionsTyped(M) => SessionsTyped(N)
  BY <1>2 DEF SessionsTyped, SessionsIn, TripsIn
<1> QED
  BY <1>1, <1>2, <1>4, <1>5, <1>6 DEF BatchTyped

\* Saving and erasing a session.
LEMMA SessionSaved ==
  ASSUME NEW M, NEW s, SessionsIn(s, M), NEW k \in BatchKey, NEW mode \in M
  PROVE  /\ SessionsIn(With(s, k, mode), M) /\ DOMAIN With(s, k, mode) = DOMAIN s \cup {k}
         /\ Reporting(With(s, k, mode)) \subseteq
              Reporting(s) \cup IF mode = "noAuto" THEN {} ELSE {k}
<1>1. DOMAIN With(s, k, mode) = DOMAIN s \cup {k}
  BY DEF With
<1>2. With(s, k, mode) \in [DOMAIN s \cup {k} -> M]
  BY DEF With, SessionsIn
<1>3. IsFiniteSet(DOMAIN s \cup {k})
  BY FS_AddElement DEF SessionsIn
<1>4. SessionsIn(With(s, k, mode), M)
  BY <1>1, <1>2, <1>3 DEF SessionsIn
<1> QED
  BY <1>1, <1>4 DEF Reporting, With

\* Leaving only the sessions K.
LEMMA SessionsLeft ==
  ASSUME NEW M, NEW s, SessionsIn(s, M), NEW K, K \subseteq DOMAIN s
  PROVE  /\ SessionsIn(Restrict(s, K), M) /\ DOMAIN Restrict(s, K) = K
         /\ Reporting(Restrict(s, K)) \subseteq Reporting(s)
<1>1. DOMAIN Restrict(s, K) = K /\ Restrict(s, K) \in [K -> M]
  BY DEF Restrict, SessionsIn
<1>2. IsFiniteSet(K)
  BY FS_Subset DEF SessionsIn
<1> QED
  BY <1>1, <1>2 DEF SessionsIn, Reporting, Restrict

\* Erasing one.
LEMMA SessionErased ==
  ASSUME NEW M, NEW s, SessionsIn(s, M), NEW k
  PROVE  /\ SessionsIn(Without(s, k), M) /\ DOMAIN Without(s, k) = DOMAIN s \ {k}
         /\ Reporting(Without(s, k)) \subseteq Reporting(s)
<1>1. DOMAIN s \ {k} \subseteq DOMAIN s
  OBVIOUS
<1> QED
  BY <1>1, SessionsLeft DEF Without

\* Without trips the count is that of the sessions that report.
LEMMA CountReports ==
  ASSUME NEW M, NEW s, SessionsIn(s, M)
  PROVE  /\ AutoReports(s, {}) = 0 <=> Reporting(s) = {}
         /\ AutoReports(s, {}) > 0 <=> Reporting(s) # {}
<1>1. Reporting(s) \subseteq DOMAIN s /\ IsFiniteSet(DOMAIN s)
  BY DEF SessionsIn, Reporting
<1>2. IsFiniteSet(Reporting(s))
  BY <1>1, FS_Subset
<1>3. Cardinality(Reporting(s)) \in Nat /\ (Cardinality(Reporting(s)) = 0 <=> Reporting(s) = {})
  BY <1>2, FS_CardinalityType, FS_EmptySet
<1>4. Cardinality({}) = 0
  BY FS_EmptySet
<1>5. AutoReports(s, {}) = Cardinality(Reporting(s)) + Cardinality({})
  BY DEF AutoReports, Reporting
<1>6. AutoReports(s, {}) = Cardinality(Reporting(s))
  BY <1>3, <1>4, <1>5
<1> QED
  BY <1>3, <1>6

\* The invariant holds when the adapter is created.
LEMMA BatchInitInv == BatchingInit => BatchInv
<1> SUFFICES ASSUME BatchingInit PROVE BatchInv
  OBVIOUS
<1>1. DOMAIN mBatchingSessions = {}
  BY DEF BatchingInit
<1>2. IsFiniteSet({})
  BY FS_EmptySet
<1>3. BatchTyped(Modes, batchRefused)
  <2>1. SessionsTyped(Modes)
    <3>1. SessionsIn(mBatchingSessions, Modes)
      BY <1>1, <1>2 DEF SessionsIn, BatchingInit
    <3>2. TripsIn(mTripSessions, Modes) /\ batchCalls \in Seq(CallsIn(Modes))
      BY DEF TripsIn, BatchingInit
    <3>3. batchFull \in BOOLEAN
      BY Zenon DEF BatchingInit
    <3> QED
      BY <3>1, <3>2, <3>3 DEF SessionsTyped
  <2>2. BatchQueues(Modes, batchRefused)
    BY DEF BatchingInit, BatchQueues
  <2>3. MaxBatching \in Nat
    BY BatchingAssumption
  <2>4. BatchFlags
    <3>1. batchIds \in 0..MaxBatching
      BY <2>3 DEF BatchingInit
    <3> QED
      BY <3>1, Zenon DEF BatchingInit, BatchFlags
  <2> QED
    BY <2>1, <2>2, <2>4 DEF BatchTyped
<1>4. Registered
  BY <1>1 DEF Registered, Reporting
<1>5. Served
  BY <1>1, EmptyOutcome DEF BatchingInit, Served, CollectedRight, Collected, Outcome
<1> QED
  BY <1>3, <1>4, <1>5 DEF BatchInv

\* Stopping the sessions of a client one after the other makes only calls there
\* are and adds no trips; without trips it is one call for each.
LEMMA StopWalk ==
  ASSUME NEW M, M \subseteq BatchingMode, NEW R, BatchTyped(M, R),
         NEW keys \in Seq(DOMAIN mBatchingSessions)
  PROVE  /\ StopSessions(keys).trips \subseteq mTripSessions
         /\ StopSessions(keys).calls \in Seq(CallsIn(M))
         /\ "trip" \notin M =>
              StopSessions(keys).calls = batchCalls \o [i \in DOMAIN keys |->
                BatchMsg("stop", keys[i], None, mBatchingSessions[keys[i]])]
<1> DEFINE n == Len(keys)
           V == [trips : SUBSET mTripSessions, calls : Seq(CallsIn(M))]
           base == [trips |-> mTripSessions, calls |-> batchCalls]
           next(i, v) == StopSessionOf(v, keys[i])
           step == [p \in (1..n) \X V |-> next(p[1], p[2])]
           stop(i) == BatchMsg("stop", keys[i], None, mBatchingSessions[keys[i]])
<1>1. n \in Nat /\ DOMAIN keys = 1..n /\ \A i \in 1..n : keys[i] \in DOMAIN mBatchingSessions
  OBVIOUS
<1>2. base \in V
  BY DEF BatchTyped, SessionsTyped
<1>3. ASSUME NEW i \in 1..n, NEW v \in V
      PROVE  next(i, v) \in V /\ ("trip" \notin M => next(i, v).calls = Append(v.calls, stop(i)))
  <2>1. PICK k : k = keys[i] /\ k \in BatchKey /\ mBatchingSessions[k] \in M
    BY <1>1 DEF BatchTyped, SessionsTyped, SessionsIn
  <2>2. PICK w : w = mBatchingSessions[k]
    OBVIOUS
  <2> DEFINE put(c) == [v EXCEPT !.calls = Append(@, c)]
             drop == [v EXCEPT !.trips = @ \ {k}]
  <2>3. v.trips \subseteq mTripSessions /\ v.calls \in Seq(CallsIn(M))
        /\ v = [trips |-> v.trips, calls |-> v.calls]
    OBVIOUS
  <2>4. ASSUME NEW c \in CallsIn(M)
        PROVE  put(c) \in V /\ put(c).calls = Append(v.calls, c)
    <3>0. PICK S, q : S = CallsIn(M) /\ q = v.calls
      OBVIOUS
    <3>1. PICK d \in Seq(CallsIn(M)) : d = Append(v.calls, c)
      <4>1. q \in Seq(S) /\ c \in S
        BY <2>3, <3>0
      <4>2. Append(q, c) \in Seq(S)
        BY <4>1
      <4> QED
        BY <3>0, <4>2
    <3>2. put(c) = [v EXCEPT !.calls = d]
      BY <3>1
    <3>3. v.trips \in SUBSET mTripSessions /\ v = [trips |-> v.trips, calls |-> v.calls]
      BY <2>3
    <3>4. PICK t : t = v.trips
      OBVIOUS
    <3>5. v = [trips |-> t, calls |-> q]
      BY <3>0, <3>3, <3>4
    <3>6. put(c) = [trips |-> t, calls |-> d]
      BY <3>2, <3>5
    <3> QED
      BY <3>1, <3>3, <3>4, <3>6
  <2>5. drop \in V
    BY <2>3
  <2>6. CASE w # "trip"
    <3>1. BatchMsg("stop", k, None, w) \in CallsIn(M)
      BY <2>1, <2>2 DEF BatchMsg, CallsIn
    <3>2. next(i, v) = put(BatchMsg("stop", k, None, w))
      BY <2>1, <2>2, <2>6 DEF StopSessionOf
    <3> QED
      BY <2>1, <2>2, <2>4, <3>1, <3>2
  <2>7. CASE w = "trip"
    <3>1. BatchMsg("stopTrip", k, None, w) \in CallsIn(M)
      BY <2>1, <2>2, <2>7 DEF BatchMsg, CallsIn
    <3>2. next(i, v) = IF Cardinality(v.trips) = 1 THEN put(BatchMsg("stopTrip", k, None, w)) ELSE drop
      BY <2>1, <2>2, <2>7 DEF StopSessionOf
    <3>3. "trip" \in M
      BY <2>1, <2>2, <2>7
    <3>4. put(BatchMsg("stopTrip", k, None, w)) \in V
      BY <2>4, <3>1
    <3> HIDE DEF put, drop, V
    <3> QED
      BY <2>5, <3>2, <3>3, <3>4
  <2> QED
    BY <2>6, <2>7
<1>4. step \in [(1..n) \X V -> V]
  <2> SUFFICES ASSUME NEW p \in (1..n) \X V PROVE next(p[1], p[2]) \in V
    OBVIOUS
  <2>1. p[1] \in 1..n /\ p[2] \in V
    OBVIOUS
  <2> HIDE DEF next, V
  <2> QED
    BY <1>3, <2>1
<1>5. PICK U, b, st : U = V /\ b = base /\ st = step
  OBVIOUS
<1>6. b \in U /\ st \in [(1..n) \X U -> U]
  BY <1>2, <1>4, <1>5
<1>7. PICK f \in [0..n -> U] : f[0] = b /\ \A i \in 1..n : f[i] = st[<<i, f[i - 1]>>]
  <2>1. PICK N : N = n
    OBVIOUS
  <2>2. N \in Nat /\ b \in U /\ st \in [(1..N) \X U -> U]
    <3> HIDE DEF n, V, base, step
    <3> QED
      BY <1>1, <1>6, <2>1
  <2>3. Walks(U, N, b, st) # {}
    BY <2>2, WalkExists
  <2> HIDE DEF n, V, base, step
  <2> QED
    BY <2>1, <2>3 DEF Walks
<1>8. ASSUME NEW i \in 1..n
      PROVE  f[i - 1] \in V /\ f[i] = next(i, f[i - 1])
  <2>1. i - 1 \in 0..n /\ f[i - 1] \in V
    <3>1. i - 1 \in 0..n
      BY <1>1
    <3> HIDE DEF V
    <3> QED
      BY <1>5, <1>7, <3>1
  <2>2. PICK v \in V : v = f[i - 1]
    BY <2>1
  <2>3. step[<<i, v>>] = next(i, v)
    <3> HIDE DEF V, next
    <3> QED
      BY <2>2
  <2> HIDE DEF V, next, step
  <2> QED
    BY <1>5, <1>7, <2>1, <2>2, <2>3
<1>9. f = [i \in 0..n |-> IF i = 0 THEN base ELSE next(i, f[i - 1])]
  <2>1. ASSUME NEW i \in 0..n PROVE f[i] = IF i = 0 THEN base ELSE next(i, f[i - 1])
    <3>1. i = 0 \/ i \in 1..n
      BY <1>1
    <3> HIDE DEF base, next, V
    <3> QED
      BY <1>1, <1>5, <1>7, <1>8, <3>1
  <2> HIDE DEF base, next, V
  <2> QED
    BY <1>7, <2>1
<1> DEFINE r == CHOOSE r : r = [i \in 0..n |-> IF i = 0 THEN base ELSE next(i, r[i - 1])]
<1>10. r = [i \in 0..n |-> IF i = 0 THEN base ELSE next(i, r[i - 1])]
  <2> HIDE DEF base, next
  <2> QED
    BY <1>9
<1>11. StopSessions(keys) = r[n]
  BY DEF StopSessions
<1>12. PICK q : q = r
  OBVIOUS
<1>13. q[0] = base /\ \A i \in 1..n : q[i] = next(i, q[i - 1])
  <2> HIDE DEF base, next, r
  <2> QED
    BY <1>1, <1>10, <1>12
<1> DEFINE stops(i) == [j \in 1..i |-> stop(j)]
           Q(i) == q[i] \in V /\ ("trip" \notin M => q[i].calls = batchCalls \o stops(i))
           Bad == {i \in 0..n : ~Q(i)}
<1> HIDE DEF r
<1>14. ASSUME NEW i \in 1..n, "trip" \notin M
       PROVE  Append(batchCalls \o stops(i - 1), stop(i)) = batchCalls \o stops(i)
  <2>1. \A j \in 1..n : stop(j) \in CallsIn(M)
    <3> SUFFICES ASSUME NEW j \in 1..n PROVE stop(j) \in CallsIn(M)
      OBVIOUS
    <3>1. keys[j] \in BatchKey /\ mBatchingSessions[keys[j]] \in M
      BY <1>1 DEF BatchTyped, SessionsTyped, SessionsIn
    <3> QED
      BY <3>1 DEF BatchMsg, CallsIn
  <2>2. PICK a, b2, m : a = stops(i - 1) /\ b2 = stops(i) /\ m = stop(i)
    OBVIOUS
  <2>3. /\ a \in Seq(CallsIn(M)) /\ Len(a) = i - 1 /\ b2 \in Seq(CallsIn(M)) /\ Len(b2) = i
        /\ m \in CallsIn(M) /\ b2[i] = m
        /\ \A j \in 1..(i - 1) : a[j] = b2[j]
    <3> HIDE DEF stop
    <3>1. i \in Nat /\ i - 1 \in Nat /\ i \in 1..i
          /\ \A j \in 1..i : j \in 1..n
          /\ \A x \in 1..(i - 1) : x \in 1..n /\ x \in 1..i
      BY <1>1
    <3>2. a \in [1..(i - 1) -> CallsIn(M)] /\ b2 \in [1..i -> CallsIn(M)]
      BY <2>1, <2>2, <3>1
    <3>3. /\ a \in Seq(CallsIn(M)) /\ Len(a) = i - 1 /\ b2 \in Seq(CallsIn(M)) /\ Len(b2) = i
      BY <3>1, <3>2
    <3>4. m \in CallsIn(M) /\ b2[i] = m
      BY <2>1, <2>2, <3>1
    <3>5. \A j \in 1..(i - 1) : a[j] = b2[j]
      BY <2>2, <3>1
    <3> QED
      BY <3>3, <3>4, <3>5
  <2>4. batchCalls \in Seq(CallsIn(M))
    BY DEF BatchTyped, SessionsTyped
  <2>5. PICK c : c = batchCalls
    OBVIOUS
  <2> HIDE DEF stops, stop
  <2>6. c \in Seq(CallsIn(M))
    BY <2>4, <2>5
  <2>7. PICK S : S = CallsIn(M)
    OBVIOUS
  <2>8. c \in Seq(S) /\ a \in Seq(S) /\ b2 \in Seq(S) /\ i \in Nat /\ i >= 1
        /\ Len(b2) = i /\ Len(a) = i - 1 /\ \A j \in 1..(i - 1) : a[j] = b2[j]
    BY <1>1, <2>3, <2>6, <2>7
  <2>9. Append(c \o a, m) = c \o b2
    <3>1. Append(c \o a, b2[i]) = c \o b2
      BY <2>8, LongerPart, ZenonT(30)
    <3> QED
      BY <2>3, <3>1
  <2>10. Append(batchCalls \o a, m) = batchCalls \o b2
    BY <2>5, <2>9
  <2> QED
    BY <2>2, <2>10
<1>15. Bad = {}
  <2> SUFFICES ASSUME Bad # {} PROVE FALSE
    OBVIOUS
  <2>1. Bad \in SUBSET Nat
    OBVIOUS
  <2>2. PICK i \in Bad : \A y \in Bad : i <= y
    <3> HIDE DEF Bad
    <3> QED
      BY <2>1, LeastNat
  <2>3. CASE i = 0
    <3>1. stops(0) = <<>>
      OBVIOUS
    <3>2. batchCalls \in Seq(CallsIn(M))
      BY DEF BatchTyped, SessionsTyped
    <3>3. batchCalls \o <<>> = batchCalls
      BY <3>2
    <3>4. base.calls = batchCalls
      OBVIOUS
    <3>5. Q(0)
      <4> HIDE DEF V, stops, base
      <4> QED
        BY <1>2, <1>13, <3>1, <3>3, <3>4
    <3> HIDE DEF Q
    <3> QED
      BY <2>2, <2>3, <3>5
  <2>4. CASE i # 0
    <3>1. i \in 1..n /\ i - 1 \in 0..n /\ ~(i <= i - 1)
      BY <1>1, <2>2, <2>4
    <3>2. Q(i - 1)
      <4> HIDE DEF Q
      <4> QED
        BY <2>2, <3>1
    <3>3. PICK v \in V : v = q[i - 1]
      BY <3>2
    <3>4. q[i] = next(i, v)
      <4> HIDE DEF next
      <4> QED
        BY <1>13, <3>1, <3>3
    <3>5. next(i, v) \in V /\ ("trip" \notin M => next(i, v).calls = Append(v.calls, stop(i)))
      BY <1>3, <3>1, <3>3
    <3> HIDE DEF next, V, stops, stop
    <3>6. Q(i)
      BY <1>14, <3>1, <3>2, <3>3, <3>4, <3>5
    <3> HIDE DEF Q
    <3> QED
      BY <2>2, <3>6
  <2> QED
    BY <2>3, <2>4
<1>16. Q(n)
  <2>1. n \in 0..n
    BY <1>1
  <2> HIDE DEF Q
  <2> QED
    BY <1>15, <2>1
<1>17. q[n].trips \subseteq mTripSessions /\ q[n].calls \in Seq(CallsIn(M))
  BY <1>16
<1> HIDE DEF V
<1> QED
  BY <1>1, <1>11, <1>12, <1>16, <1>17

\* A session that is started: it is saved with its mode, and without trips the
\* engine is asked for it and the registration is there if it is needed.
LEMMA SessionStarts ==
  ASSUME NEW M, M \subseteq BatchingMode, NEW k \in BatchKey, NEW mode \in M,
         NEW s, SessionsIn(s, M), NEW t, TripsIn(t, M), NEW full \in BOOLEAN,
         batchCalls \in Seq(CallsIn(M)), StartSession(k, mode, s, t, full)
  PROVE  /\ SessionsTyped(M)'
         /\ "trip" \notin M =>
              /\ mBatchingSessions' = With(s, k, mode)
              /\ \E c \in CallsIn(M) : /\ c \in On(k) /\ c \in Opening
                                       /\ batchCalls' = Append(batchCalls, c)
              /\ (Reporting(s) # {} => full) => (Reporting(With(s, k, mode)) # {} => batchFull')
<1>1. \A what, was : BatchMsg(what, k, mode, was) \in CallsIn(M) =>
        /\ Call(what, k, mode, was) => batchCalls' = Append(batchCalls, BatchMsg(what, k, mode, was))
        /\ Append(batchCalls, BatchMsg(what, k, mode, was)) \in Seq(CallsIn(M))
  BY PostMessage DEF Call
<1>2. CASE StartRoutine(k, mode, s, t, full)
  <2>1. BatchMsg("start", k, mode, None) \in CallsIn(M)
    BY DEF BatchMsg, CallsIn
  <2>2. PICK c \in CallsIn(M) : c = BatchMsg("start", k, mode, None)
    BY <2>1
  <2>3. c \in On(k) /\ c \in Opening
    <3>1. c \in CallsIn(BatchingMode)
      BY CallIs
    <3> QED
      BY <2>2, <3>1 DEF On, Opening, BatchMsg
  <2>4. batchCalls' = Append(batchCalls, c) /\ batchCalls' \in Seq(CallsIn(M))
    BY <1>1, <1>2, <2>2 DEF StartRoutine
  <2>5. mBatchingSessions' = With(s, k, mode) /\ mTripSessions' = t
    BY <1>2 DEF StartRoutine
  <2>6. batchFull' = (full \/ (mode # "noAuto" /\ AutoReports(s, t) = 0))
    BY <1>2, Zenon DEF StartRoutine
  <2>7. batchFull' \in BOOLEAN
    BY <2>6
  <2>8. SessionsIn(With(s, k, mode), M)
    BY SessionSaved
  <2>9. ASSUME "trip" \notin M, Reporting(s) # {} => full, Reporting(With(s, k, mode)) # {}
        PROVE  batchFull'
    <3>1. t = {}
      BY <2>9 DEF TripsIn
    <3>2. Reporting(s) = {} => mode # "noAuto"
      <4>1. Reporting(With(s, k, mode)) \subseteq
              Reporting(s) \cup IF mode = "noAuto" THEN {} ELSE {k}
        BY SessionSaved
      <4> QED
        BY <2>9, <4>1
    <3>3. Reporting(s) = {} => AutoReports(s, t) = 0
      BY <3>1, CountReports
    <3> QED
      BY <2>6, <2>9, <3>2, <3>3, Zenon
  <2>10. SessionsTyped(M)'
    BY <2>4, <2>5, <2>7, <2>8 DEF SessionsTyped
  <2> QED
    BY <2>3, <2>4, <2>5, <2>9, <2>10
<1>3. CASE mode = "trip" /\ StartTrip(k, s, t, full)
  <2>1. BatchMsg("startTrip", k, "trip", None) \in CallsIn(M)
        /\ BatchMsg("query", k, "trip", None) \in CallsIn(M)
    BY <1>3 DEF BatchMsg, CallsIn
  <2>2. CASE t = {}
    <3>1. mBatchingSessions' = With(s, k, "trip") /\ mTripSessions' = {k}
      BY <1>3, <2>2 DEF StartTrip
    <3>2. batchFull' = (full \/ AutoReports(s, t) = 0)
      BY <1>3, <2>2, Zenon DEF StartTrip
    <3>3. batchFull' \in BOOLEAN
      BY <3>2
    <3>4. batchCalls' \in Seq(CallsIn(M))
      BY <1>1, <1>3, <2>1, <2>2 DEF StartTrip
    <3>5. SessionsIn(With(s, k, mode), M)
      BY SessionSaved
    <3> QED
      BY <1>3, <3>1, <3>3, <3>4, <3>5 DEF SessionsTyped, TripsIn
  <2>3. CASE t # {}
    <3>1. mBatchingSessions' = s /\ mTripSessions' = t /\ batchFull' = full
      BY <1>3, <2>3 DEF StartTrip
    <3>2. batchCalls' \in Seq(CallsIn(M))
      BY <1>1, <1>3, <2>1, <2>3 DEF StartTrip
    <3> QED
      BY <1>3, <3>1, <3>2 DEF SessionsTyped
  <2> QED
    BY <2>2, <2>3
<1> QED
  BY <1>2, <1>3 DEF StartSession

\* A message the adapter takes is one there is, and the others are left.
LEMMA BatchTakes ==
  ASSUME NEW M, NEW R, BatchTyped(M, R), batchMsgs # <<>>, batchMsgs' = Tail(batchMsgs)
  PROVE  Head(batchMsgs) \in MsgsIn(M, R) /\ batchMsgs' \in Seq(MsgsIn(M, R))
BY TakeHead DEF BatchTyped, BatchQueues

\* A step that leaves the environment, the clients and the commands that wait.
LEMMA BatchKeeps ==
  ASSUME NEW M, NEW R, BatchTyped(M, R),
         UNCHANGED <<batchEnv, batchEngine>>, UNCHANGED <<batchClients, batchPending>>,
         SessionsTyped(M)', batchMsgs' \in Seq(MsgsIn(M, R))
  PROVE  BatchTyped(M, R)'
<1>1. BatchFlags'
  BY Zenon DEF BatchTyped, BatchFlags, batchEnv, batchEngine, batchPending
<1>2. BatchQueues(M, R)'
  BY DEF BatchTyped, BatchQueues, batchPending
<1> QED
  BY <1>1, <1>2 DEF BatchTyped

\* A command that waits.
LEMMA KeepTypes ==
  ASSUME NEW M, NEW R, BatchTyped(M, R), KeepPending
  PROVE  BatchTyped(M, R)'
<1>1. batchMsgs # <<>> /\ batchMsgs' = Tail(batchMsgs)
  BY DEF KeepPending, BatchingTakes
<1>2. Head(batchMsgs) \in MsgsIn(M, R) /\ batchMsgs' \in Seq(MsgsIn(M, R))
  BY <1>1, BatchTakes
<1>3. Head(batchMsgs).what \in {"start", "update", "stop"}
  BY DEF KeepPending, BatchingTakes
<1>4. Head(batchMsgs) \in CommandsIn(M)
  BY <1>2, <1>3, MsgIs
<1>5. mPendingMsgs' \in Seq(CommandsIn(M))
  BY <1>4, PostMessage DEF KeepPending, BatchTyped, BatchQueues
<1>6. UNCHANGED <<batchSessions, batchClients, capabilitiesKnown, batchCalls, batchEnv, batchEngine>>
  BY DEF KeepPending, BatchingTakes
<1>7. BatchFlags'
  BY <1>6, Zenon DEF BatchTyped, BatchFlags, batchEnv, batchEngine, batchSessions
<1> QED
  BY <1>2, <1>5, <1>6, <1>7 DEF BatchTyped, SessionsTyped, BatchQueues, batchSessions

\* MsgStartBatching::proc.
LEMMA MsgStartTypes ==
  ASSUME NEW M, M \subseteq BatchingMode, NEW R, BatchTyped(M, R), MsgStartBatching
  PROVE  BatchTyped(M, R)'
<1>1. /\ batchMsgs # <<>> /\ batchMsgs' = Tail(batchMsgs) /\ Head(batchMsgs).what = "start"
      /\ UNCHANGED <<batchEnv, batchEngine>> /\ UNCHANGED <<batchClients, batchPending>>
  BY DEF MsgStartBatching, TakesCommand, BatchingTakes
<1>2. PICK m \in MsgsIn(M, R) : m = Head(batchMsgs)
  BY <1>1, BatchTakes
<1>3. batchMsgs' \in Seq(MsgsIn(M, R)) /\ m.key \in BatchKey /\ m.mode \in M
  BY <1>1, <1>2, BatchTakes, MsgIs
<1>4. CASE StartSession(m.key, m.mode, mBatchingSessions, mTripSessions, batchFull)
  <2>1. PICK k, mode, s, t, full : /\ k = m.key /\ mode = m.mode /\ s = mBatchingSessions
                                   /\ t = mTripSessions /\ full = batchFull
    OBVIOUS
  <2>2. /\ k \in BatchKey /\ mode \in M /\ SessionsIn(s, M) /\ TripsIn(t, M) /\ full \in BOOLEAN
        /\ batchCalls \in Seq(CallsIn(M)) /\ StartSession(k, mode, s, t, full)
    BY <1>3, <1>4, <2>1 DEF BatchTyped, SessionsTyped
  <2>3. SessionsTyped(M)'
    BY <2>2, SessionStarts
  <2> QED
    BY <1>1, <1>3, <2>3, BatchKeeps
<1>5. CASE UNCHANGED <<batchSessions, batchCalls>>
  <2>1. SessionsTyped(M)'
    BY <1>5 DEF BatchTyped, SessionsTyped, batchSessions
  <2> QED
    BY <1>1, <1>3, <2>1, BatchKeeps
<1> QED
  BY <1>2, <1>4, <1>5 DEF MsgStartBatching

\* A session that is stopped in the engine is erased at once.
LEMMA StopRoutineTypes ==
  ASSUME NEW M, M \subseteq BatchingMode, SessionsTyped(M), NEW k \in DOMAIN mBatchingSessions,
         NEW mode \in M \cup {None}, StopRoutine(k, mode)
  PROVE  /\ SessionsTyped(M)'
         /\ mBatchingSessions' = Without(mBatchingSessions, k) /\ batchFull' = batchFull
         /\ \E c \in CallsIn(M) : /\ c \in On(k) /\ c \notin Opening
                                  /\ batchCalls' = Append(batchCalls, c)
<1>1. k \in BatchKey /\ mBatchingSessions[k] \in M
  BY DEF SessionsTyped, SessionsIn
<1>2. PICK c \in CallsIn(M) : c = BatchMsg("stop", k, mode, mBatchingSessions[k])
  BY <1>1 DEF BatchMsg, CallsIn
<1>3. c \in On(k) /\ c \notin Opening
  <2>1. c \in CallsIn(BatchingMode)
    BY CallIs
  <2> QED
    BY <1>2, <2>1 DEF On, Opening, BatchMsg
<1>4. batchCalls' = Append(batchCalls, c)
  BY <1>2 DEF StopRoutine, Call
<1>5. batchCalls' \in Seq(CallsIn(M))
  BY <1>4, PostMessage DEF SessionsTyped
<1>6. /\ mBatchingSessions' = Without(mBatchingSessions, k)
      /\ mTripSessions' = mTripSessions /\ batchFull' = batchFull
  BY DEF StopRoutine
<1>7. SessionsIn(mBatchingSessions', M)
  BY <1>6, SessionErased DEF SessionsTyped
<1>8. SessionsTyped(M)'
  BY <1>5, <1>6, <1>7 DEF SessionsTyped, TripsIn
<1> QED
  BY <1>3, <1>4, <1>6, <1>8

\* A trip that has been stopped, and is perhaps restarted in another mode.
LEMMA TripStoppedTypes ==
  ASSUME NEW M, M \subseteq BatchingMode, SessionsTyped(M), NEW k \in BatchKey,
         NEW mode \in M \cup {None}, NEW full \in BOOLEAN, TripStopped(k, mode, full)
  PROVE  SessionsTyped(M)'
<1>1. TripsIn(mTripSessions \ {k}, M)
  BY DEF SessionsTyped, TripsIn
<1>2. CASE mode = None
  <2>1. /\ mTripSessions' = mTripSessions \ {k} /\ batchFull' = full
        /\ UNCHANGED <<mBatchingSessions, batchCalls>>
    BY <1>2 DEF TripStopped
  <2> QED
    BY <1>1, <2>1 DEF SessionsTyped
<1>3. CASE mode # None
  <2>1. PICK s, t : s = Without(mBatchingSessions, k) /\ t = mTripSessions \ {k}
    OBVIOUS
  <2>2. SessionsIn(s, M)
    BY <2>1, SessionErased DEF SessionsTyped
  <2>3. StartSession(k, mode, s, t, full)
    BY <1>3, <2>1 DEF TripStopped
  <2>4. batchCalls \in Seq(CallsIn(M)) /\ TripsIn(t, M) /\ mode \in M
    BY <1>1, <1>3, <2>1 DEF SessionsTyped
  <2> QED
    BY <2>2, <2>3, <2>4, SessionStarts
<1> QED
  BY <1>2, <1>3

\* MsgStopBatching::proc and MsgUpdateBatching::proc.
LEMMA MsgStopTypes ==
  ASSUME NEW M, M \subseteq BatchingMode, NEW R, BatchTyped(M, R), MsgStopBatching
  PROVE  BatchTyped(M, R)'
<1>1. /\ batchMsgs # <<>> /\ batchMsgs' = Tail(batchMsgs)
      /\ Head(batchMsgs).what \in {"update", "stop"}
      /\ UNCHANGED <<batchEnv, batchEngine>> /\ UNCHANGED <<batchClients, batchPending>>
  BY DEF MsgStopBatching, TakesCommand, BatchingTakes
<1>2. PICK m \in MsgsIn(M, R) : m = Head(batchMsgs)
  BY <1>1, BatchTakes
<1>3. batchMsgs' \in Seq(MsgsIn(M, R)) /\ m.key \in BatchKey /\ m.mode \in M \cup {None}
  BY <1>1, <1>2, BatchTakes, MsgIs
<1>4. SessionsTyped(M)
  BY DEF BatchTyped
<1>5. CASE UNCHANGED <<batchSessions, batchCalls>>
  <2>1. SessionsTyped(M)'
    BY <1>5 DEF BatchTyped, SessionsTyped, batchSessions
  <2> QED
    BY <1>1, <1>3, <2>1, BatchKeeps
<1>6. CASE m.key \in DOMAIN mBatchingSessions /\ StopRoutine(m.key, m.mode)
  <2>1. PICK k, mode : k = m.key /\ mode = m.mode
    OBVIOUS
  <2>2. SessionsTyped(M)'
    BY <1>3, <1>4, <1>6, <2>1, StopRoutineTypes
  <2> QED
    BY <1>1, <1>3, <2>2, BatchKeeps
<1>7. CASE m.key \in mTripSessions /\ StopTrip(m.key, m.mode)
  <2>1. PICK k, mode, full : k = m.key /\ mode = m.mode /\ full = batchFull
    OBVIOUS
  <2>2. CASE TripStopped(m.key, m.mode, batchFull)
    <3>1. TripStopped(k, mode, full) /\ full \in BOOLEAN
      BY <1>4, <2>1, <2>2 DEF SessionsTyped
    <3>2. SessionsTyped(M)'
      BY <1>3, <1>4, <2>1, <3>1, TripStoppedTypes
    <3> QED
      BY <1>1, <1>3, <3>2, BatchKeeps
  <2>3. CASE Call("stopTrip", m.key, m.mode, "trip") /\ UNCHANGED batchSessions
    <3>1. "trip" \in M
      BY <1>4, <1>7 DEF SessionsTyped, TripsIn
    <3>2. BatchMsg("stopTrip", m.key, m.mode, "trip") \in CallsIn(M)
      BY <1>3, <3>1 DEF BatchMsg, CallsIn
    <3>3. batchCalls' \in Seq(CallsIn(M))
      BY <1>4, <2>3, <3>2, PostMessage DEF Call, SessionsTyped
    <3>4. SessionsTyped(M)'
      BY <1>4, <2>3, <3>3 DEF SessionsTyped, batchSessions
    <3> QED
      BY <1>1, <1>3, <3>4, BatchKeeps
  <2> QED
    BY <1>7, <2>2, <2>3 DEF StopTrip
<1> QED
  BY <1>2, <1>5, <1>6, <1>7 DEF MsgStopBatching

\* An answer the adapter takes is one to a call there is.
LEMMA CallAnswered ==
  ASSUME NEW M, NEW R, BatchTyped(M, R), NEW what, NEW ok, TakesAnswer(what, ok)
  PROVE  /\ batchMsgs # <<>> /\ batchMsgs' = Tail(batchMsgs) /\ batchMsgs' \in Seq(MsgsIn(M, R))
         /\ Head(batchMsgs) \in MsgsIn(M, R) /\ Head(batchMsgs).what = "answer"
         /\ Head(batchMsgs).call \in CallsIn(M) /\ Head(batchMsgs).call.what = what
         /\ Head(batchMsgs).ok = ok /\ (Head(batchMsgs).ok = FALSE => what \in R)
         /\ UNCHANGED <<batchEnv, batchEngine>> /\ UNCHANGED <<batchClients, batchPending>>
<1>1. /\ batchMsgs # <<>> /\ batchMsgs' = Tail(batchMsgs) /\ Head(batchMsgs).what = "answer"
      /\ Head(batchMsgs).call.what = what /\ Head(batchMsgs).ok = ok
      /\ UNCHANGED <<batchEnv, batchEngine>> /\ UNCHANGED <<batchClients, batchPending>>
  BY DEF TakesAnswer, BatchingTakes
<1>2. PICK m \in MsgsIn(M, R) : m = Head(batchMsgs)
  BY <1>1, BatchTakes
<1>3. batchMsgs' \in Seq(MsgsIn(M, R)) /\ m.call \in CallsIn(M) /\ (m.ok = FALSE => m.call.what \in R)
  BY <1>1, <1>2, BatchTakes, MsgIs
<1> QED
  BY <1>1, <1>2, <1>3

\* Answers after which nothing changes.
LEMMA IdleTypes ==
  ASSUME NEW M, M \subseteq BatchingMode, NEW R, BatchTyped(M, R), Started \/ RestartFailed
  PROVE  BatchTyped(M, R)'
<1>1. UNCHANGED <<batchSessions, batchCalls>> /\ \E what, ok : TakesAnswer(what, ok)
  BY DEF Started, RestartFailed
<1>2. SessionsTyped(M)'
  BY <1>1 DEF BatchTyped, SessionsTyped, batchSessions
<1> QED
  BY <1>1, <1>2, CallAnswered, BatchKeeps

\* The lambdas of the calls to the engine: a start that fails,
LEMMA StartFailedTypes ==
  ASSUME NEW M, M \subseteq BatchingMode, NEW R, BatchTyped(M, R), StartFailed
  PROVE  BatchTyped(M, R)'
<1>1. \E w \in {"start", "startTrip"} : TakesAnswer(w, FALSE)
  BY DEF StartFailed
<1>2. /\ batchMsgs' \in Seq(MsgsIn(M, R))
      /\ UNCHANGED <<batchEnv, batchEngine>> /\ UNCHANGED <<batchClients, batchPending>>
  BY <1>1, CallAnswered
<1>3. PICK k : mBatchingSessions' = Without(mBatchingSessions, k)
  BY DEF StartFailed
<1>4. mTripSessions' \subseteq mTripSessions /\ batchCalls' = batchCalls
  BY DEF StartFailed
<1>5. batchFull' \in BOOLEAN
  <2>1. PICK full : batchFull' = (batchFull /\ full)
    BY Zenon DEF StartFailed
  <2> QED
    BY <2>1, Zenon DEF BatchTyped, SessionsTyped
<1>6. SessionsIn(mBatchingSessions', M)
  BY <1>3, SessionErased DEF BatchTyped, SessionsTyped
<1>7. SessionsTyped(M)'
  BY <1>4, <1>5, <1>6 DEF BatchTyped, SessionsTyped, TripsIn
<1> QED
  BY <1>2, <1>7, BatchKeeps

\* the others' progress before another trip starts,
LEMMA TripQueriedTypes ==
  ASSUME NEW M, M \subseteq BatchingMode, NEW R, BatchTyped(M, R), TripQueried
  PROVE  BatchTyped(M, R)'
<1>1. PICK ok \in BOOLEAN :
        /\ TakesAnswer("query", ok)
        /\ mTripSessions' = mTripSessions \cup IF ok THEN {Head(batchMsgs).call.key} ELSE {}
  BY DEF TripQueried
<1>2. /\ batchMsgs' \in Seq(MsgsIn(M, R)) /\ Head(batchMsgs).call \in CallsIn(M)
      /\ Head(batchMsgs).call.what = "query"
      /\ UNCHANGED <<batchEnv, batchEngine>> /\ UNCHANGED <<batchClients, batchPending>>
  BY <1>1, CallAnswered
<1>3. Head(batchMsgs).call.key \in BatchKey /\ "trip" \in M
  <2>1. PICK c \in CallsIn(M) : c = Head(batchMsgs).call
    BY <1>2
  <2> QED
    BY <1>2, <2>1, CallIs
<1>4. UNCHANGED <<mBatchingSessions, batchFull, batchCalls>>
  BY DEF TripQueried
<1>5. SessionsTyped(M)'
  BY <1>1, <1>3, <1>4 DEF BatchTyped, SessionsTyped, TripsIn
<1> QED
  BY <1>2, <1>5, BatchKeeps

\* a stop,
LEMMA StoppedTypes ==
  ASSUME NEW M, M \subseteq BatchingMode, NEW R, BatchTyped(M, R), Stopped
  PROVE  BatchTyped(M, R)'
<1>1. TakesAnswer("stop", TRUE)
  BY DEF Stopped
<1>2. /\ batchMsgs' \in Seq(MsgsIn(M, R)) /\ Head(batchMsgs).call \in CallsIn(M)
      /\ UNCHANGED <<batchEnv, batchEngine>> /\ UNCHANGED <<batchClients, batchPending>>
  BY <1>1, CallAnswered
<1>3. PICK c \in CallsIn(M) : c = Head(batchMsgs).call
  BY <1>2
<1>4. c.key \in BatchKey /\ c.mode \in M \cup {None}
  BY CallIs
<1>5. PICK full : full = (batchFull /\ ~(NoReports(mBatchingSessions, mTripSessions) /\ c.was # "noAuto"))
  OBVIOUS
<1>6. full \in BOOLEAN
  BY <1>5, Zenon
<1>7. \/ /\ c.mode = None /\ batchFull' = full
         /\ UNCHANGED <<mBatchingSessions, mTripSessions, batchCalls>>
      \/ /\ c.mode # None
         /\ StartSession(c.key, c.mode, mBatchingSessions, mTripSessions, full)
  BY <1>3, <1>5, Zenon DEF Stopped
<1>8. SessionsTyped(M)
  BY DEF BatchTyped
<1>9. CASE c.mode = None
  <2>1. batchFull' = full /\ UNCHANGED <<mBatchingSessions, mTripSessions, batchCalls>>
    BY <1>7, <1>9
  <2>2. SessionsTyped(M)'
    BY <1>6, <1>8, <2>1 DEF SessionsTyped
  <2> QED
    BY <1>2, <2>2, BatchKeeps
<1>10. CASE c.mode # None
  <2>1. PICK k, mode, s, t : k = c.key /\ mode = c.mode /\ s = mBatchingSessions /\ t = mTripSessions
    OBVIOUS
  <2>2. /\ k \in BatchKey /\ mode \in M /\ SessionsIn(s, M) /\ TripsIn(t, M)
        /\ batchCalls \in Seq(CallsIn(M)) /\ StartSession(k, mode, s, t, full)
    BY <1>4, <1>7, <1>8, <1>10, <2>1 DEF SessionsTyped
  <2>3. SessionsTyped(M)'
    BY <1>6, <2>2, SessionStarts
  <2> QED
    BY <1>2, <2>3, BatchKeeps
<1> QED
  BY <1>9, <1>10

\* a stop that fails,
LEMMA StopFailedTypes ==
  ASSUME NEW M, {"routine"} \subseteq M, M \subseteq BatchingMode, NEW R, BatchTyped(M, R), StopFailed
  PROVE  BatchTyped(M, R)'
<1>1. TakesAnswer("stop", FALSE)
  BY DEF StopFailed
<1>2. /\ batchMsgs' \in Seq(MsgsIn(M, R)) /\ Head(batchMsgs).call \in CallsIn(M)
      /\ UNCHANGED <<batchEnv, batchEngine>> /\ UNCHANGED <<batchClients, batchPending>>
  BY <1>1, CallAnswered
<1>3. PICK c \in CallsIn(M) : c = Head(batchMsgs).call
  BY <1>2
<1>4. c.key \in BatchKey /\ c.mode \in M \cup {None}
  BY CallIs
<1>5. PICK k \in BatchKey, mode \in M : mBatchingSessions' = With(mBatchingSessions, k, mode)
  BY <1>3, <1>4 DEF StopFailed
<1>6. SessionsIn(mBatchingSessions', M)
  BY <1>5, SessionSaved DEF BatchTyped, SessionsTyped
<1>7. SessionsTyped(M)'
  BY <1>6 DEF BatchTyped, SessionsTyped, StopFailed
<1> QED
  BY <1>2, <1>7, BatchKeeps

\* the stop of the last trip,
LEMMA LastTripTypes ==
  ASSUME NEW M, M \subseteq BatchingMode, NEW R, BatchTyped(M, R), LastTripStopped
  PROVE  BatchTyped(M, R)'
<1>1. PICK ok \in BOOLEAN :
        /\ TakesAnswer("stopTrip", ok)
        /\ TripStopped(Head(batchMsgs).call.key, Head(batchMsgs).call.mode,
                       batchFull /\ ~(ok /\ CountIsOne))
  BY DEF LastTripStopped
<1>2. /\ batchMsgs' \in Seq(MsgsIn(M, R)) /\ Head(batchMsgs).call \in CallsIn(M)
      /\ UNCHANGED <<batchEnv, batchEngine>> /\ UNCHANGED <<batchClients, batchPending>>
  BY <1>1, CallAnswered
<1>3. PICK c \in CallsIn(M) : c = Head(batchMsgs).call
  BY <1>2
<1>4. PICK k, mode : k = c.key /\ mode = c.mode
  OBVIOUS
<1>5. k \in BatchKey /\ mode \in M \cup {None}
  BY <1>4, CallIs
<1>6. PICK full : full = (batchFull /\ ~(ok /\ CountIsOne))
  OBVIOUS
<1>7. full \in BOOLEAN
  BY <1>6, Zenon
<1>8. TripStopped(k, mode, full)
  BY <1>1, <1>3, <1>4, <1>6, Zenon
<1>9. SessionsTyped(M)
  BY DEF BatchTyped
<1>10. SessionsTyped(M)'
  BY <1>5, <1>7, <1>8, <1>9, TripStoppedTypes
<1> QED
  BY <1>2, <1>10, BatchKeeps

\* and the trips that are completed.
LEMMA TripsCompletedTypes ==
  ASSUME NEW M, M \subseteq BatchingMode, NEW R, BatchTyped(M, R), TripsCompleted
  PROVE  BatchTyped(M, R)' /\ "trip" \in M
<1>1. /\ mTripSessions # {} /\ mTripSessions' \subseteq mTripSessions
      /\ UNCHANGED <<mBatchingSessions, batchClients, batchPending, batchEnv,
                 batchMsgs, batchCalls, batchEngine>>
  BY DEF TripsCompleted
<1>2. batchFull' \in BOOLEAN
  <2>1. PICK full : batchFull' = (batchFull /\ full)
    BY Zenon DEF TripsCompleted
  <2> QED
    BY <2>1, Zenon DEF BatchTyped, SessionsTyped
<1>3. SessionsTyped(M)'
  BY <1>1, <1>2 DEF BatchTyped, SessionsTyped, TripsIn
<1>4. batchMsgs' \in Seq(MsgsIn(M, R))
  BY <1>1 DEF BatchTyped, BatchQueues
<1>5. "trip" \in M
  BY <1>1 DEF BatchTyped, SessionsTyped, TripsIn
<1>6. UNCHANGED <<batchEnv, batchEngine>> /\ UNCHANGED <<batchClients, batchPending>>
  BY <1>1
<1> QED
  BY <1>3, <1>4, <1>5, <1>6, BatchKeeps

\* The keys of sessions, in order.
LEMMA KeysWalk ==
  ASSUME NEW S, S \subseteq BatchKey, IsFiniteSet(S)
  PROVE  ById(S) \in Seq(S) /\ \A x \in S : \E i \in DOMAIN ById(S) : ById(S)[i] = x
<1>1. PICK rank : rank = [k \in S |-> k.id]
  OBVIOUS
<1>2. \A k \in S : k.id \in Int
  BY DEF BatchKey
<1>3. rank \in [S -> Int]
  BY <1>1, <1>2
<1>4. ById(S) = Ascending(S, rank)
  BY <1>1 DEF ById
<1> QED
  BY <1>3, <1>4, SessionWalk

\* The client whose sessions go, the calls made for them and the sessions kept
LEMMA ClientRemoved ==
  ASSUME NEW M, M \subseteq BatchingMode, NEW R, BatchTyped(M, R), BatchRemoveClient
  PROVE  /\ SessionsTyped(M)' /\ batchMsgs' = Tail(batchMsgs)
         /\ \E c \in BatchClient :
              LET mine == {k \in DOMAIN mBatchingSessions : k.client = c} IN
              /\ DOMAIN mBatchingSessions' \subseteq DOMAIN mBatchingSessions
              /\ \A k \in DOMAIN mBatchingSessions' \ mine :
                   mBatchingSessions'[k] = mBatchingSessions[k]
              /\ DOMAIN mBatchingSessions \ mine \subseteq DOMAIN mBatchingSessions'
              /\ "trip" \notin M =>
                   /\ DOMAIN mBatchingSessions' = DOMAIN mBatchingSessions \ mine
                   /\ batchCalls' = batchCalls \o [i \in DOMAIN ById(mine) |->
                        BatchMsg("stop", ById(mine)[i], None, mBatchingSessions[ById(mine)[i]])]
<1>1. batchMsgs # <<>> /\ batchMsgs' = Tail(batchMsgs) /\ Head(batchMsgs).what = "removeClient"
  BY DEF BatchRemoveClient, BatchingTakes
<1>2. Head(batchMsgs).client \in BatchClient
  <2>1. PICK m \in MsgsIn(M, R) : m = Head(batchMsgs)
    BY <1>1, BatchTakes
  <2> QED
    BY <1>1, <2>1, MsgIs
<1>3. PICK c \in BatchClient : c = Head(batchMsgs).client
  BY <1>2
<1> DEFINE mine == {k \in DOMAIN mBatchingSessions : k.client = c}
           kept == {k \in DOMAIN mBatchingSessions : k.client # c \/ mBatchingSessions[k] = "trip"}
<1>4. /\ mTripSessions' = StopSessions(ById(mine)).trips
      /\ batchCalls' = StopSessions(ById(mine)).calls
      /\ mBatchingSessions' = Restrict(mBatchingSessions, kept)
      /\ batchFull' = (AutoReports(mBatchingSessions', mTripSessions') > 0)
  BY <1>3 DEF BatchRemoveClient, UpdateClientsEventMask
<1>5. SessionsIn(mBatchingSessions, M)
  BY DEF BatchTyped, SessionsTyped
<1>6. ById(mine) \in Seq(DOMAIN mBatchingSessions)
  <2>1. mine \subseteq DOMAIN mBatchingSessions /\ mine \subseteq BatchKey /\ IsFiniteSet(mine)
    BY <1>5, FS_Subset DEF SessionsIn
  <2>2. PICK S : S = mine
    OBVIOUS
  <2>3. ById(S) \in Seq(S)
    BY <2>1, <2>2, KeysWalk
  <2>4. PICK keys : keys = ById(S)
    OBVIOUS
  <2>5. S \subseteq DOMAIN mBatchingSessions
    BY <2>1, <2>2
  <2> HIDE DEF mine
  <2>6. keys \in Seq(DOMAIN mBatchingSessions)
    BY <2>3, <2>4, <2>5
  <2> QED
    BY <2>2, <2>4, <2>6
<1>7. PICK keys \in Seq(DOMAIN mBatchingSessions) : keys = ById(mine)
  BY <1>6
<1>8. /\ StopSessions(keys).trips \subseteq mTripSessions
      /\ StopSessions(keys).calls \in Seq(CallsIn(M))
      /\ "trip" \notin M =>
           StopSessions(keys).calls = batchCalls \o [i \in DOMAIN keys |->
             BatchMsg("stop", keys[i], None, mBatchingSessions[keys[i]])]
  BY StopWalk
<1>9. SessionsIn(mBatchingSessions', M) /\ DOMAIN mBatchingSessions' = kept
  <2>1. kept \subseteq DOMAIN mBatchingSessions
    OBVIOUS
  <2> QED
    BY <1>4, <1>5, <2>1, SessionsLeft
<1>10. batchFull' \in BOOLEAN
  BY <1>4
<1>11. SessionsTyped(M)'
  <2>1. mTripSessions' \subseteq mTripSessions /\ batchCalls' \in Seq(CallsIn(M))
    BY <1>4, <1>7, <1>8
  <2>2. TripsIn(mTripSessions', M)
    BY <2>1 DEF BatchTyped, SessionsTyped, TripsIn
  <2> QED
    BY <1>9, <1>10, <2>1, <2>2 DEF SessionsTyped
<1>12. \A k \in kept : mBatchingSessions'[k] = mBatchingSessions[k]
  BY <1>4 DEF Restrict
<1>13. "trip" \notin M => kept = DOMAIN mBatchingSessions \ mine
  <2>1. \A k \in DOMAIN mBatchingSessions : mBatchingSessions[k] \in M
    BY <1>5 DEF SessionsIn
  <2> QED
    BY <2>1
<1>14. "trip" \notin M =>
         batchCalls' = batchCalls \o [i \in DOMAIN ById(mine) |->
           BatchMsg("stop", ById(mine)[i], None, mBatchingSessions[ById(mine)[i]])]
  BY <1>4, <1>7, <1>8
<1>15. kept \subseteq DOMAIN mBatchingSessions /\ DOMAIN mBatchingSessions \ mine \subseteq kept
  OBVIOUS
<1> HIDE DEF kept
<1> QED
  BY <1>1, <1>9, <1>11, <1>12, <1>13, <1>14, <1>15

\* MsgRemoveClient::proc.
LEMMA RemoveTypes ==
  ASSUME NEW M, M \subseteq BatchingMode, NEW R, BatchTyped(M, R), BatchRemoveClient
  PROVE  BatchTyped(M, R)'
<1>1. SessionsTyped(M)' /\ batchMsgs # <<>> /\ batchMsgs' = Tail(batchMsgs)
  BY ClientRemoved DEF BatchRemoveClient, BatchingTakes
<1>2. /\ batchClients' \subseteq batchClients
      /\ UNCHANGED <<batchEnv, batchEngine, batchPending>>
  BY DEF BatchRemoveClient, BatchingTakes
<1>3. batchMsgs' \in Seq(MsgsIn(M, R))
  BY <1>1, BatchTakes
<1>4. BatchFlags'
  <2>1. batchClients' \subseteq BatchClient
    BY <1>2 DEF BatchTyped, BatchFlags
  <2> QED
    BY <1>2, <2>1, Zenon DEF BatchTyped, BatchFlags, batchEnv, batchEngine, batchPending
<1> QED
  BY <1>1, <1>2, <1>3, <1>4 DEF BatchTyped, BatchQueues, batchPending

\* The calls that start the sessions again
Restarts == LET keys == ById(ToRestart) IN
  [i \in DOMAIN keys |-> BatchMsg("restart", keys[i], mBatchingSessions[keys[i]], None)]

\* Each session is started again.
LEMMA RestartCalls ==
  ASSUME NEW M, M \subseteq BatchingMode, SessionsTyped(M)
  PROVE  /\ Restarts \in Seq(CallsIn(M))
         /\ \A i \in DOMAIN Restarts : Restarts[i].key \in ToRestart /\ Restarts[i] \in Opening
         /\ \A k \in ToRestart : \E i \in DOMAIN Restarts : Restarts[i] \in On(k)
<1>1. /\ ToRestart \subseteq BatchKey /\ IsFiniteSet(ToRestart)
      /\ \A k \in ToRestart : mBatchingSessions[k] \in M
  BY FS_Subset DEF SessionsTyped, SessionsIn, ToRestart
<1>2. PICK S, keys : S = ToRestart /\ keys = ById(S)
  OBVIOUS
<1>3. keys \in Seq(S) /\ \A x \in S : \E i \in DOMAIN keys : keys[i] = x
  BY <1>1, <1>2, KeysWalk
<1>4. PICK n \in Nat : n = Len(keys) /\ DOMAIN keys = 1..n /\ \A i \in 1..n : keys[i] \in S
  BY <1>3
<1>5. PICK q : q = Restarts
  OBVIOUS
<1>6. q = [i \in 1..n |-> BatchMsg("restart", keys[i], mBatchingSessions[keys[i]], None)]
  BY <1>2, <1>4, <1>5 DEF Restarts
<1>7. ASSUME NEW i \in 1..n
      PROVE  /\ q[i] \in CallsIn(M) /\ q[i].key \in S /\ q[i] \in Opening
             /\ q[i].key = keys[i] /\ q[i] \in On(keys[i])
  <2>1. keys[i] \in BatchKey /\ mBatchingSessions[keys[i]] \in M /\ keys[i] \in S
    BY <1>1, <1>2, <1>4
  <2>2. PICK k, v : k = keys[i] /\ v = mBatchingSessions[keys[i]]
    OBVIOUS
  <2>3. q[i] = [what |-> "restart", key |-> k, mode |-> v, was |-> None]
    BY <1>6, <2>2 DEF BatchMsg
  <2>4. q[i] \in CallsIn(M)
    BY <2>1, <2>2, <2>3 DEF CallsIn
  <2>5. q[i] \in CallsIn(BatchingMode)
    BY <2>4, CallIs
  <2> QED
    BY <2>1, <2>2, <2>3, <2>4, <2>5 DEF On, Opening
<1>8. DOMAIN q = 1..n /\ q \in Seq(CallsIn(M))
  BY <1>6, <1>7
<1>9. \A k \in S : \E i \in 1..n : q[i] \in On(k)
  BY <1>3, <1>4, <1>7
<1> QED
  BY <1>2, <1>5, <1>7, <1>8, <1>9

\* MsgSSREvent::proc.
LEMMA EngineUpTypes ==
  ASSUME NEW M, M \subseteq BatchingMode, NEW R, BatchTyped(M, R), BatchEngineUp
  PROVE  BatchTyped(M, R)'
<1>1. /\ batchMsgs # <<>> /\ batchMsgs' = Tail(batchMsgs) \o mPendingMsgs
      /\ capabilitiesKnown' = TRUE /\ mPendingMsgs' = <<>>
      /\ batchCalls' = batchCalls \o Restarts
      /\ UNCHANGED <<mBatchingSessions, mTripSessions, batchClients, batchEnv, batchEngine>>
  BY DEF BatchEngineUp, BatchingTakes, Restarts
<1>2. batchMsgs' \in Seq(MsgsIn(M, R))
  <2>1. PICK S, C : S = MsgsIn(M, R) /\ C = CommandsIn(M)
    OBVIOUS
  <2>2. C \subseteq S
    BY <2>1 DEF MsgsIn
  <2>3. batchMsgs \in Seq(S) /\ mPendingMsgs \in Seq(C)
    BY <2>1 DEF BatchTyped, BatchQueues
  <2>4. mPendingMsgs \in Seq(S)
    BY <2>2, <2>3
  <2>5. Tail(batchMsgs) \in Seq(S)
    BY <1>1, <2>3
  <2>6. PICK p, q : p = Tail(batchMsgs) /\ q = mPendingMsgs
    OBVIOUS
  <2>7. p \o q \in Seq(S)
    BY <2>4, <2>5, <2>6, PostMessages
  <2> QED
    BY <1>1, <2>1, <2>6, <2>7
<1>3. batchCalls' \in Seq(CallsIn(M))
  <2>1. batchCalls \in Seq(CallsIn(M)) /\ Restarts \in Seq(CallsIn(M))
    BY RestartCalls DEF BatchTyped, SessionsTyped
  <2>2. PICK S, p, q : S = CallsIn(M) /\ p = batchCalls /\ q = Restarts
    OBVIOUS
  <2>3. p \o q \in Seq(S)
    BY <2>1, <2>2, PostMessages
  <2> QED
    BY <1>1, <2>2, <2>3
<1>4. batchFull' \in BOOLEAN
  BY Zenon DEF BatchEngineUp
<1>5. SessionsTyped(M)'
  BY <1>1, <1>3, <1>4 DEF BatchTyped, SessionsTyped
<1>6. BatchFlags'
  BY <1>1, Zenon DEF BatchTyped, BatchFlags, batchEnv, batchEngine
<1>7. mPendingMsgs' \in Seq(CommandsIn(M))
  BY <1>1
<1> QED
  BY <1>2, <1>5, <1>6, <1>7 DEF BatchTyped, BatchQueues

\* All steps of the adapter keep the types.
LEMMA BatchStepTypes ==
  ASSUME NEW M, {"routine"} \subseteq M, M \subseteq BatchingMode, NEW R, BatchTyped(M, R), BatchingStep
  PROVE  BatchTyped(M, R)'
BY KeepTypes, MsgStartTypes, MsgStopTypes, IdleTypes, StartFailedTypes, TripQueriedTypes,
   StoppedTypes, StopFailedTypes, LastTripTypes, TripsCompletedTypes, RemoveTypes,
   EngineUpTypes DEF BatchingStep

\* A command of a client: its mode is one there is once it has been asked for.
LEMMA CommandTypes ==
  ASSUME BatchTyped(Modes, batchRefused), NEW c \in BatchClient, NEW id \in 1..MaxBatching,
         NEW what \in {"start", "update", "stop"}, NEW mode \in BatchingMode \cup {None},
         what = "stop" <=> mode = None, batchIds' \in 0..MaxBatching,
         BatchCommand(BatchMsg(what, Key(c, id), mode, None))
  PROVE  /\ BatchTyped(Modes, batchRefused)'
         /\ UNCHANGED <<batchSessions, batchCalls, batchEngine>>
         /\ tripStarted' = FALSE => tripStarted = FALSE
         /\ batchMsgs' = Append(batchMsgs, BatchMsg(what, Key(c, id), mode, None))
<1>1. PICK M, N, R : M = Modes /\ N = Modes' /\ R = batchRefused
  OBVIOUS
<1>2. /\ UNCHANGED <<batchSessions, batchClients, batchPending, batchCalls, batchEngine>>
      /\ batchMsgs' = Append(batchMsgs, BatchMsg(what, Key(c, id), mode, None))
  BY DEF BatchCommand
<1>3. tripStarted' = (tripStarted \/ mode = "trip")
  BY Zenon DEF BatchCommand, BatchMsg
<1>4. tripStarted \in BOOLEAN
  BY DEF BatchTyped, BatchFlags
<1>5. tripStarted' \in BOOLEAN /\ (tripStarted => tripStarted') /\ (mode = "trip" => tripStarted')
  BY <1>3, <1>4, Zenon
<1>6. M \subseteq N /\ N \subseteq BatchingMode
  BY <1>1, <1>5 DEF Modes
<1>7. mode # None => mode \in N
  BY <1>1, <1>5 DEF Modes, BatchingMode
<1>8. BatchMsg(what, Key(c, id), mode, None) \in CommandsIn(N)
  <2>1. Key(c, id) \in BatchKey
    BY DEF Key, BatchKey
  <2>2. CASE what = "stop"
    BY <2>1, <2>2 DEF BatchMsg, CommandsIn
  <2>3. CASE what # "stop"
    BY <1>7, <2>1, <2>3 DEF BatchMsg, CommandsIn
  <2> QED
    BY <2>2, <2>3
<1>9. BatchTyped(N, R)
  <2>1. BatchTyped(M, R)
    BY <1>1
  <2> QED
    BY <1>6, <2>1, MoreModes
<1>10. PICK m \in MsgsIn(N, R) : m = BatchMsg(what, Key(c, id), mode, None)
  BY <1>8 DEF MsgsIn
<1>11. batchMsgs' \in Seq(MsgsIn(N, R))
  BY <1>2, <1>9, <1>10, PostMessage DEF BatchTyped, BatchQueues
<1>12. SessionsTyped(N)'
  BY <1>2, <1>9 DEF BatchTyped, SessionsTyped, batchSessions
<1>13. BatchFlags'
  BY <1>2, <1>5, <1>9, Zenon DEF BatchTyped, BatchFlags, batchPending, batchEngine
<1>14. mPendingMsgs' \in Seq(CommandsIn(N))
  BY <1>2, <1>9 DEF BatchTyped, BatchQueues, batchPending
<1>15. batchRefused' = R
  BY <1>1, <1>2 DEF batchEngine
<1>16. BatchTyped(N, R)'
  BY <1>11, <1>12, <1>13, <1>14 DEF BatchTyped, BatchQueues
<1>17. BatchTyped(Modes, batchRefused)'
  BY <1>1, <1>15, <1>16 DEF BatchTyped, BatchQueues, SessionsTyped
<1> QED
  BY <1>2, <1>5, <1>17

\* The commands of clients, and what they leave.
LEMMA ClientStep ==
  ASSUME BatchTyped(Modes, batchRefused),
         \E c \in BatchClient :
           \/ BatchClientGoes(c)
           \/ \E mode \in BatchingMode : StartBatchingCommand(c, mode)
           \/ \E id \in 1..MaxBatching :
                \/ StopBatchingCommand(Key(c, id))
                \/ \E mode \in BatchingMode : UpdateBatchingCommand(Key(c, id), mode)
  PROVE  /\ BatchTyped(Modes, batchRefused)'
         /\ UNCHANGED <<batchSessions, batchCalls, batchEngine>>
         /\ tripStarted' = FALSE => tripStarted = FALSE
         /\ \E m : m \notin EngineUpMsg /\ batchMsgs' = Append(batchMsgs, m)
<1>1. PICK c \in BatchClient :
        \/ BatchClientGoes(c)
        \/ \E mode \in BatchingMode : StartBatchingCommand(c, mode)
        \/ \E id \in 1..MaxBatching :
             \/ StopBatchingCommand(Key(c, id))
             \/ \E mode \in BatchingMode : UpdateBatchingCommand(Key(c, id), mode)
  OBVIOUS
<1>2. MaxBatching \in Nat /\ batchIds \in 0..MaxBatching
  BY BatchingAssumption DEF BatchTyped, BatchFlags
<1>3. None \notin BatchingMode
  BY DEF None, BatchingMode
<1>4. ASSUME NEW id, NEW what \in {"start", "update", "stop"}, NEW mode, NEW m,
             m = BatchMsg(what, Key(c, id), mode, None)
      PROVE  m \notin EngineUpMsg
  BY <1>4 DEF BatchMsg, EngineUpMsg
<1>5. CASE BatchClientGoes(c)
  <2>1. PICK m : m = [what |-> "removeClient", client |-> c]
    OBVIOUS
  <2>2. PICK M, R : M = Modes /\ R = batchRefused
    OBVIOUS
  <2>3. m \in MsgsIn(M, R) /\ m \notin EngineUpMsg
    BY <2>1 DEF MsgsIn, EngineUpMsg
  <2>4. /\ batchMsgs' = Append(batchMsgs, m)
        /\ UNCHANGED <<batchSessions, batchClients, batchPending, batchEnv, batchCalls, batchEngine>>
    BY <1>5, <2>1 DEF BatchClientGoes
  <2>5. batchMsgs' \in Seq(MsgsIn(M, R))
    BY <2>2, <2>3, <2>4, PostMessage DEF BatchTyped, BatchQueues
  <2>6. tripStarted' = tripStarted /\ Modes' = M /\ batchRefused' = R
    BY <2>2, <2>4 DEF batchEnv, batchEngine, Modes
  <2>7. BatchFlags'
    BY <2>4, Zenon DEF BatchTyped, BatchFlags, batchEnv, batchPending, batchEngine
  <2>8. BatchTyped(M, R)
    BY <2>2
  <2>9. SessionsTyped(M)'
    BY <2>4, <2>8 DEF BatchTyped, SessionsTyped, batchSessions
  <2>10. mPendingMsgs' \in Seq(CommandsIn(M))
    BY <2>4, <2>8 DEF BatchTyped, BatchQueues, batchPending
  <2>11. BatchTyped(Modes, batchRefused)'
    BY <2>5, <2>6, <2>7, <2>9, <2>10 DEF BatchTyped, BatchQueues, SessionsTyped
  <2> QED
    BY <2>3, <2>4, <2>6, <2>11
<1>6. CASE \E mode \in BatchingMode : StartBatchingCommand(c, mode)
  <2>1. PICK mode \in BatchingMode : StartBatchingCommand(c, mode)
    BY <1>6
  <2>2. PICK id : id = batchIds'
    OBVIOUS
  <2>3. id \in 1..MaxBatching /\ batchIds' \in 0..MaxBatching
    BY <1>2, <2>1, <2>2 DEF StartBatchingCommand
  <2>4. BatchCommand(BatchMsg("start", Key(c, id), mode, None))
    BY <2>1, <2>2 DEF StartBatchingCommand
  <2>5. mode # None
    BY <1>3
  <2>6. /\ BatchTyped(Modes, batchRefused)'
        /\ UNCHANGED <<batchSessions, batchCalls, batchEngine>>
        /\ tripStarted' = FALSE => tripStarted = FALSE
        /\ batchMsgs' = Append(batchMsgs, BatchMsg("start", Key(c, id), mode, None))
    BY <2>3, <2>4, <2>5, CommandTypes
  <2> QED
    BY <1>4, <2>6
<1>7. ASSUME NEW id \in 1..MaxBatching, StopBatchingCommand(Key(c, id))
      PROVE  /\ BatchTyped(Modes, batchRefused)'
             /\ UNCHANGED <<batchSessions, batchCalls, batchEngine>>
             /\ tripStarted' = FALSE => tripStarted = FALSE
             /\ \E m : m \notin EngineUpMsg /\ batchMsgs' = Append(batchMsgs, m)
  <2>1. BatchCommand(BatchMsg("stop", Key(c, id), None, None)) /\ batchIds' = batchIds
    BY <1>7 DEF StopBatchingCommand
  <2>2. /\ BatchTyped(Modes, batchRefused)'
        /\ UNCHANGED <<batchSessions, batchCalls, batchEngine>>
        /\ tripStarted' = FALSE => tripStarted = FALSE
        /\ batchMsgs' = Append(batchMsgs, BatchMsg("stop", Key(c, id), None, None))
    BY <1>2, <2>1, CommandTypes
  <2> QED
    BY <1>4, <2>2
<1>8. ASSUME NEW id \in 1..MaxBatching, NEW mode \in BatchingMode, UpdateBatchingCommand(Key(c, id), mode)
      PROVE  /\ BatchTyped(Modes, batchRefused)'
             /\ UNCHANGED <<batchSessions, batchCalls, batchEngine>>
             /\ tripStarted' = FALSE => tripStarted = FALSE
             /\ \E m : m \notin EngineUpMsg /\ batchMsgs' = Append(batchMsgs, m)
  <2>1. BatchCommand(BatchMsg("update", Key(c, id), mode, None)) /\ batchIds' = batchIds
    BY <1>8 DEF UpdateBatchingCommand
  <2>2. mode # None
    BY <1>3
  <2>3. /\ BatchTyped(Modes, batchRefused)'
        /\ UNCHANGED <<batchSessions, batchCalls, batchEngine>>
        /\ tripStarted' = FALSE => tripStarted = FALSE
        /\ batchMsgs' = Append(batchMsgs, BatchMsg("update", Key(c, id), mode, None))
    BY <1>2, <2>1, <2>2, CommandTypes
  <2> QED
    BY <1>4, <2>3
<1> QED
  BY <1>1, <1>5, <1>6, <1>7, <1>8

\* The engine and its answers.
LEMMA EngineStepTypes ==
  ASSUME BatchTyped(Modes, batchRefused), BatchEngineStep
  PROVE  BatchTyped(Modes, batchRefused)'
<1>1. PICK M, R, Q : M = Modes /\ R = batchRefused /\ Q = batchRefused'
  OBVIOUS
<1>2. UNCHANGED <<batchSessions, batchClients, batchPending, batchEnv>>
  BY DEF BatchEngineStep, BatchEngineHandles, BatchEngineCrashes, BatchEngineComesUp
<1>3. Modes' = M
  BY <1>1, <1>2 DEF Modes, batchEnv
<1>4. M \subseteq BatchingMode /\ BatchTyped(M, R)
  BY <1>1 DEF Modes
<1>5. /\ R \subseteq Q /\ batchMsgs' \in Seq(MsgsIn(M, Q)) /\ batchCalls' \in Seq(CallsIn(M))
      /\ batchUp' \in BOOLEAN /\ engineBatches' \subseteq BatchKey
  <2>1. CASE BatchEngineHandles
    <3>1. PICK call \in CallsIn(M) : call = Head(batchCalls)
      BY <1>4, <2>1, TakeHead DEF BatchEngineHandles, BatchTyped, SessionsTyped
    <3>2. batchCalls' \in Seq(CallsIn(M)) /\ UNCHANGED batchUp
      BY <1>4, <2>1, TakeHead DEF BatchEngineHandles, BatchTyped, SessionsTyped
    <3>3. call.key \in BatchKey
      BY <1>4, CallIs
    <3>4. CASE batchMsgs' = Append(batchMsgs, [what |-> "answer", ok |-> TRUE, call |-> call])
               /\ EngineBatching(call) /\ UNCHANGED batchRefused
      <4>1. PICK m \in MsgsIn(M, Q) : m = [what |-> "answer", ok |-> TRUE, call |-> call]
        BY DEF MsgsIn
      <4>2. batchMsgs \in Seq(MsgsIn(M, Q)) /\ R \subseteq Q
        BY <1>1, <1>4, <3>4 DEF BatchTyped, BatchQueues
      <4>3. batchMsgs' \in Seq(MsgsIn(M, Q))
        BY <3>4, <4>1, <4>2, PostMessage
      <4>4. engineBatches' \subseteq BatchKey
        BY <1>4, <3>3, <3>4 DEF EngineBatching, BatchTyped, BatchFlags
      <4> QED
        BY <1>4, <3>2, <4>2, <4>3, <4>4 DEF BatchTyped, BatchFlags
    <3>5. CASE /\ batchMsgs' = Append(batchMsgs, [what |-> "answer", ok |-> FALSE, call |-> call])
               /\ batchRefused' = batchRefused \cup {call.what} /\ UNCHANGED engineBatches
      <4>1. R \subseteq Q /\ call.what \in Q
        BY <1>1, <3>5
      <4>2. call \in RefusedIn(M, Q)
        BY <4>1 DEF RefusedIn
      <4>3. PICK m \in MsgsIn(M, Q) : m = [what |-> "answer", ok |-> FALSE, call |-> call]
        BY <4>2 DEF MsgsIn
      <4>4. batchMsgs \in Seq(MsgsIn(M, Q))
        <5>1. BatchTyped(M, Q)
          BY <1>4, <4>1, MoreModes
        <5> QED
          BY <5>1 DEF BatchTyped, BatchQueues
      <4>5. batchMsgs' \in Seq(MsgsIn(M, Q))
        BY <3>5, <4>3, <4>4, PostMessage
      <4> QED
        BY <1>4, <3>2, <3>5, <4>1, <4>5 DEF BatchTyped, BatchFlags
    <3> QED
      BY <2>1, <3>1, <3>4, <3>5 DEF BatchEngineHandles
  <2>2. CASE BatchEngineCrashes
    BY <1>1, <1>4, <2>2 DEF BatchEngineCrashes, BatchTyped, SessionsTyped, BatchQueues
  <2>3. CASE BatchEngineComesUp
    <3>1. /\ batchMsgs' = Append(batchMsgs, [what |-> "engineUp"]) /\ batchUp' = TRUE
          /\ UNCHANGED <<batchCalls, engineBatches, batchRefused>>
      BY <2>3 DEF BatchEngineComesUp
    <3>2. PICK m \in MsgsIn(M, R) : m = [what |-> "engineUp"]
      BY DEF MsgsIn, EngineUpMsg
    <3>3. batchMsgs' \in Seq(MsgsIn(M, R)) /\ Q = R
      BY <1>1, <1>4, <3>1, <3>2, PostMessage DEF BatchTyped, BatchQueues
    <3> QED
      BY <1>4, <3>1, <3>3 DEF BatchTyped, BatchFlags, SessionsTyped
  <2> QED
    BY <2>1, <2>2, <2>3 DEF BatchEngineStep
<1>6. SessionsTyped(M)'
  BY <1>2, <1>4, <1>5 DEF BatchTyped, SessionsTyped, batchSessions
<1>7. BatchFlags'
  BY <1>2, <1>4, <1>5, Zenon DEF BatchTyped, BatchFlags, batchPending, batchEnv
<1>8. mPendingMsgs' \in Seq(CommandsIn(M))
  BY <1>2, <1>4 DEF BatchTyped, BatchQueues, batchPending
<1> QED
  BY <1>1, <1>3, <1>5, <1>6, <1>7, <1>8 DEF BatchTyped, BatchQueues, SessionsTyped

\* As long as no trip was asked for there is none, and no call about one.
LEMMA NoTrips ==
  ASSUME NEW M, M \subseteq BatchingMode, NEW R, BatchTyped(M, R), "trip" \notin M
  PROVE  /\ mTripSessions = {} /\ ~TripsCompleted /\ ~TripQueried /\ ~LastTripStopped
         /\ "stop" \notin R => ~StopFailed
<1>1. mTripSessions = {}
  BY DEF BatchTyped, SessionsTyped, TripsIn
<1>2. ~TripsCompleted
  BY <1>1 DEF TripsCompleted
<1>3. ASSUME NEW what \in {"query", "stopTrip"}, NEW ok, TakesAnswer(what, ok) PROVE FALSE
  <2>1. Head(batchMsgs).call \in CallsIn(M) /\ Head(batchMsgs).call.what = what
    BY <1>3, CallAnswered
  <2>2. PICK c \in CallsIn(M) : c = Head(batchMsgs).call
    BY <2>1
  <2> QED
    BY <2>1, <2>2, CallIs
<1>4. ~TripQueried /\ ~LastTripStopped
  BY <1>3 DEF TripQueried, LastTripStopped
<1>5. ASSUME "stop" \notin R, StopFailed PROVE FALSE
  <2>1. TakesAnswer("stop", FALSE)
    BY <1>5 DEF StopFailed
  <2> QED
    BY <1>5, <2>1, CallAnswered
<1> QED
  BY <1>1, <1>2, <1>4, <1>5

\* No step of the adapter takes the registration from a session that reports.
LEMMA StepRegistered ==
  ASSUME NEW M, M \subseteq BatchingMode, NEW R, BatchTyped(M, R), BatchTyped(M, R)',
         "trip" \notin M, "stop" \notin R, BatchingStep,
         Reporting(mBatchingSessions) # {} => batchFull
  PROVE  Reporting(mBatchingSessions') # {} => batchFull'
<1>1. mTripSessions = {} /\ mTripSessions' = {}
  BY DEF BatchTyped, SessionsTyped, TripsIn
<1>2. SessionsTyped(M) /\ SessionsTyped(M)'
  BY DEF BatchTyped
<1>3. PICK s, t, s1 : s = mBatchingSessions /\ t = mTripSessions /\ s1 = mBatchingSessions'
  OBVIOUS
<1>4. SessionsIn(s, M) /\ SessionsIn(s1, M) /\ TripsIn(t, M) /\ t = {}
  BY <1>1, <1>2, <1>3 DEF SessionsTyped
<1>5. /\ AutoReports(s, {}) = 0 <=> Reporting(s) = {}
      /\ AutoReports(s1, {}) = 0 <=> Reporting(s1) = {}
      /\ AutoReports(s1, {}) > 0 <=> Reporting(s1) # {}
  BY <1>4, CountReports
<1>6. CASE UNCHANGED batchSessions
  BY <1>6 DEF batchSessions
<1>7. ASSUME NEW k, NEW mode, k \in BatchKey, mode \in M, NEW full \in BOOLEAN,
             Reporting(s) # {} => full, StartSession(k, mode, s, t, full)
      PROVE  Reporting(s1) # {} => batchFull'
  <2>1. batchCalls \in Seq(CallsIn(M))
    BY <1>2 DEF SessionsTyped
  <2>2. /\ mBatchingSessions' = With(s, k, mode)
        /\ (Reporting(s) # {} => full) => (Reporting(With(s, k, mode)) # {} => batchFull')
    BY <1>4, <1>7, <2>1, SessionStarts
  <2> QED
    BY <1>3, <1>7, <2>2
<1>8. CASE MsgStartBatching
  <2>1. /\ batchMsgs # <<>> /\ batchMsgs' = Tail(batchMsgs) /\ Head(batchMsgs).what = "start"
    BY <1>8 DEF MsgStartBatching, TakesCommand, BatchingTakes
  <2>2. PICK m \in MsgsIn(M, R) : m = Head(batchMsgs)
    BY <2>1, BatchTakes
  <2>3. PICK k, mode, full : k = m.key /\ mode = m.mode /\ full = batchFull
    OBVIOUS
  <2>4. k \in BatchKey /\ mode \in M /\ full \in BOOLEAN
    BY <1>2, <2>1, <2>2, <2>3, MsgIs DEF SessionsTyped
  <2>5. CASE StartSession(m.key, m.mode, mBatchingSessions, mTripSessions, batchFull)
    BY <1>3, <1>7, <2>3, <2>4, <2>5
  <2> QED
    BY <1>6, <1>8, <2>2, <2>5 DEF MsgStartBatching
<1>9. CASE MsgStopBatching
  <2>1. CASE \E k, mode : StopRoutine(k, mode)
    <3>1. PICK k : mBatchingSessions' = Without(mBatchingSessions, k) /\ batchFull' = batchFull
      BY <2>1 DEF StopRoutine
    <3>2. Reporting(Without(s, k)) \subseteq Reporting(s)
      BY <1>4, SessionErased
    <3> QED
      BY <1>3, <3>1, <3>2
  <2> QED
    BY <1>1, <1>6, <1>9, <2>1 DEF MsgStopBatching
<1>10. CASE StartFailed
  <2>1. PICK k : mBatchingSessions' = Without(mBatchingSessions, k)
    BY <1>10 DEF StartFailed
  <2>2. PICK mode : batchFull' = (batchFull /\ ~(mode # "noAuto" /\ AutoReports(s1, {}) = 0))
    BY <1>1, <1>3, <1>10, Zenon DEF StartFailed, NoReports
  <2>3. Reporting(s1) \subseteq Reporting(s)
    BY <1>3, <1>4, <2>1, SessionErased
  <2>4. ASSUME Reporting(s1) # {} PROVE batchFull'
    <3>1. batchFull
      BY <1>3, <2>3, <2>4
    <3>2. ~(AutoReports(s1, {}) = 0)
      BY <1>5, <2>4
    <3> QED
      BY <2>2, <3>1, <3>2, Zenon
  <2> QED
    BY <1>3, <2>4
<1>11. CASE Stopped
  <2>1. TakesAnswer("stop", TRUE)
    BY <1>11 DEF Stopped
  <2>2. PICK c \in CallsIn(M) : c = Head(batchMsgs).call
    BY <2>1, CallAnswered
  <2>3. c.key \in BatchKey /\ c.mode \in M \cup {None}
    BY CallIs
  <2>4. PICK full : full = (batchFull /\ ~(NoReports(mBatchingSessions, mTripSessions) /\ c.was # "noAuto"))
    OBVIOUS
  <2>5. full \in BOOLEAN
    BY <2>4, Zenon
  <2>6. \/ batchFull' = full /\ UNCHANGED <<mBatchingSessions, mTripSessions, batchCalls>>
        \/ /\ c.mode # None
           /\ StartSession(c.key, c.mode, mBatchingSessions, mTripSessions, full)
    BY <1>11, <2>2, <2>4, Zenon DEF Stopped
  <2>7. ASSUME Reporting(s) # {} PROVE full
    <3>1. batchFull /\ ~(AutoReports(s, {}) = 0)
      BY <1>3, <1>5, <2>7
    <3>2. ~NoReports(mBatchingSessions, mTripSessions)
      BY <1>1, <1>3, <3>1 DEF NoReports
    <3> QED
      BY <2>4, <3>1, <3>2, Zenon
  <2>8. CASE batchFull' = full /\ UNCHANGED <<mBatchingSessions, mTripSessions, batchCalls>>
    BY <1>3, <2>7, <2>8
  <2>9. CASE c.mode # None /\ StartSession(c.key, c.mode, mBatchingSessions, mTripSessions, full)
    <3>1. PICK k, mode : k = c.key /\ mode = c.mode
      OBVIOUS
    <3>2. k \in BatchKey /\ mode \in M /\ StartSession(k, mode, s, t, full)
      BY <1>3, <2>3, <2>9, <3>1
    <3> QED
      BY <1>3, <1>7, <2>5, <2>7, <3>2
  <2> QED
    BY <2>6, <2>8, <2>9
<1>12. CASE BatchRemoveClient
  <2>1. batchFull' = (AutoReports(s1, {}) > 0)
    BY <1>1, <1>3, <1>12 DEF BatchRemoveClient, UpdateClientsEventMask
  <2> QED
    BY <1>3, <1>5, <2>1
<1>13. CASE BatchEngineUp
  <2>1. mBatchingSessions' = mBatchingSessions /\ (batchFull => batchFull')
    BY <1>13, Zenon DEF BatchEngineUp
  <2> QED
    BY <2>1
<1>14. CASE KeepPending \/ Started \/ RestartFailed
  BY <1>6, <1>14 DEF KeepPending, Started, RestartFailed
<1> QED
  BY <1>8, <1>9, <1>10, <1>11, <1>12, <1>13, <1>14, NoTrips DEF BatchingStep

\* A call that is made decides about its session and about no other.
LEMMA CallMade ==
  ASSUME NEW M, SessionsTyped(M), NEW k0, NEW c \in CallsIn(M), c \in On(k0),
         batchCalls' = Append(batchCalls, c), engineBatches' = engineBatches, NEW k
  PROVE  /\ k = k0 => (Collected(k)' <=> c \in Opening)
         /\ k # k0 => (Collected(k)' <=> Collected(k))
<1>1. PICK T, q : T = On(k) /\ q = batchCalls
  OBVIOUS
<1>2. q \in Seq(CallsIn(M))
  BY <1>1 DEF SessionsTyped
<1>3. /\ NoneOf(Append(q, c), T) <=> NoneOf(q, T) /\ c \notin T
      /\ LastIs(Append(q, c), T, Opening)
           <=> (c \in T /\ c \in Opening) \/ (c \notin T /\ LastIs(q, T, Opening))
  BY <1>2, OutcomePost
<1>4. c \in T <=> k = k0
  BY <1>1 DEF On
<1>5. Collected(k)' <=> LastIs(Append(q, c), T, Opening) \/ (NoneOf(Append(q, c), T) /\ k \in engineBatches)
  BY <1>1 DEF Collected, Outcome
<1>6. Collected(k) <=> LastIs(q, T, Opening) \/ (NoneOf(q, T) /\ k \in engineBatches)
  BY <1>1 DEF Collected, Outcome
<1> QED
  BY <1>3, <1>4, <1>5, <1>6

\* Taking another message leaves word of the engine's restart where it is.
LEMMA RestartWaits ==
  ASSUME NEW M, NEW R, BatchTyped(M, R), batchMsgs # <<>>, batchMsgs' = Tail(batchMsgs),
         Head(batchMsgs).what # "engineUp", NoneOf(batchMsgs', EngineUpMsg)
  PROVE  NoneOf(batchMsgs, EngineUpMsg)
<1>1. PICK q, S : q = batchMsgs /\ S = MsgsIn(M, R)
  OBVIOUS
<1>2. q \in Seq(S) /\ q # <<>>
  BY <1>1 DEF BatchTyped, BatchQueues
<1>3. PICK m \in MsgsIn(M, R) : m = Head(batchMsgs)
  BY BatchTakes
<1>4. Head(q) \notin EngineUpMsg
  BY <1>1, <1>3, MsgIs
<1>5. NoneOf(q, EngineUpMsg) <=> Head(q) \notin EngineUpMsg /\ NoneOf(Tail(q), EngineUpMsg)
  BY <1>2, NoneTake
<1> QED
  BY <1>1, <1>4, <1>5

\* A step of the adapter that takes such a message and starts a session, stops
\* one, or does neither
LEMMA SessionServed ==
  ASSUME NEW M, M \subseteq BatchingMode, NEW R, BatchTyped(M, R),
         batchMsgs # <<>>, batchMsgs' = Tail(batchMsgs), Head(batchMsgs).what # "engineUp",
         UNCHANGED batchEngine, \A k \in BatchKey : CollectedRight(k),
         \/ UNCHANGED <<mBatchingSessions, batchCalls>>
         \/ \E k0 : \E c \in CallsIn(M) :
              /\ c \in On(k0) /\ batchCalls' = Append(batchCalls, c)
              /\ \/ c \in Opening /\ DOMAIN mBatchingSessions' = DOMAIN mBatchingSessions \cup {k0}
                 \/ c \notin Opening /\ DOMAIN mBatchingSessions' = DOMAIN mBatchingSessions \ {k0},
         NEW k \in BatchKey
  PROVE  CollectedRight(k)'
<1>1. NoneOf(batchMsgs', EngineUpMsg) => NoneOf(batchMsgs, EngineUpMsg)
  BY RestartWaits
<1>2. UNCHANGED <<batchUp, engineBatches>>
  BY DEF batchEngine
<1>3. CASE UNCHANGED <<mBatchingSessions, batchCalls>>
  <2>1. Collected(k)' <=> Collected(k)
    BY <1>2, <1>3 DEF Collected
  <2> QED
    BY <1>1, <1>2, <1>3, <2>1 DEF CollectedRight
<1>4. ASSUME NEW k0, NEW c \in CallsIn(M), c \in On(k0), batchCalls' = Append(batchCalls, c),
             \/ c \in Opening /\ DOMAIN mBatchingSessions' = DOMAIN mBatchingSessions \cup {k0}
             \/ c \notin Opening /\ DOMAIN mBatchingSessions' = DOMAIN mBatchingSessions \ {k0}
      PROVE  CollectedRight(k)'
  <2>1. SessionsTyped(M)
    BY DEF BatchTyped
  <2>2. /\ k = k0 => (Collected(k)' <=> c \in Opening)
        /\ k # k0 => (Collected(k)' <=> Collected(k))
    BY <1>2, <1>4, <2>1, CallMade
  <2> QED
    BY <1>1, <1>2, <1>4, <2>2 DEF CollectedRight
<1> QED
  BY <1>3, <1>4

\* With the client go its sessions, each with a call that stops it.
LEMMA RemoveServed ==
  ASSUME NEW M, M \subseteq BatchingMode, NEW R, BatchTyped(M, R), "trip" \notin M,
         BatchRemoveClient, \A k \in BatchKey : CollectedRight(k), NEW k \in BatchKey
  PROVE  CollectedRight(k)'
<1>1. /\ batchMsgs # <<>> /\ batchMsgs' = Tail(batchMsgs) /\ Head(batchMsgs).what # "engineUp"
      /\ UNCHANGED batchEngine
  BY DEF BatchRemoveClient, BatchingTakes
<1>2. NoneOf(batchMsgs', EngineUpMsg) => NoneOf(batchMsgs, EngineUpMsg)
  BY <1>1, RestartWaits
<1>3. UNCHANGED <<batchUp, engineBatches>>
  BY <1>1 DEF batchEngine
<1>4. PICK mine, keys :
        /\ mine \subseteq DOMAIN mBatchingSessions /\ keys = ById(mine)
        /\ DOMAIN mBatchingSessions' = DOMAIN mBatchingSessions \ mine
        /\ batchCalls' = batchCalls \o [i \in DOMAIN keys |->
             BatchMsg("stop", keys[i], None, mBatchingSessions[keys[i]])]
  <2>1. \E c \in BatchClient :
          LET mine == {x \in DOMAIN mBatchingSessions : x.client = c} IN
          /\ DOMAIN mBatchingSessions' = DOMAIN mBatchingSessions \ mine
          /\ batchCalls' = batchCalls \o [i \in DOMAIN ById(mine) |->
               BatchMsg("stop", ById(mine)[i], None, mBatchingSessions[ById(mine)[i]])]
    BY ClientRemoved
  <2> QED
    BY <2>1
<1>5. PICK s : s = mBatchingSessions
  OBVIOUS
<1>6. DOMAIN s \subseteq BatchKey /\ IsFiniteSet(DOMAIN s) /\ \A x \in DOMAIN s : s[x] \in M
  BY <1>5 DEF BatchTyped, SessionsTyped, SessionsIn
<1>7. mine \subseteq BatchKey /\ IsFiniteSet(mine)
  BY <1>4, <1>5, <1>6, FS_Subset
<1>8. keys \in Seq(mine) /\ \A x \in mine : \E i \in DOMAIN keys : keys[i] = x
  BY <1>4, <1>7, KeysWalk
<1>9. PICK n \in Nat : n = Len(keys) /\ DOMAIN keys = 1..n /\ \A i \in 1..n : keys[i] \in mine
  BY <1>8
<1>10. PICK r : r = [i \in 1..n |-> BatchMsg("stop", keys[i], None, s[keys[i]])]
  OBVIOUS
<1>11. ASSUME NEW i \in 1..n
       PROVE  r[i] \in CallsIn(M) /\ r[i] \notin Opening /\ \A x : r[i] \in On(x) <=> x = keys[i]
  <2>1. PICK x, v : x = keys[i] /\ v = s[keys[i]]
    OBVIOUS
  <2>2. x \in BatchKey /\ v \in M
    BY <1>4, <1>5, <1>6, <1>9, <2>1
  <2>3. r[i] = [what |-> "stop", key |-> x, mode |-> None, was |-> v]
    BY <1>10, <2>1 DEF BatchMsg
  <2>4. r[i] \in CallsIn(M)
    BY <2>2, <2>3 DEF CallsIn
  <2>5. r[i] \in CallsIn(BatchingMode)
    BY <2>4, CallIs
  <2> QED
    BY <2>1, <2>3, <2>4, <2>5 DEF On, Opening
<1>12. r \in Seq(CallsIn(M)) /\ DOMAIN r = 1..n
  BY <1>9, <1>10, <1>11
<1>13. PICK q, T : q = batchCalls /\ T = On(k)
  OBVIOUS
<1>14. q \in Seq(CallsIn(M)) /\ batchCalls' = q \o r
  BY <1>4, <1>5, <1>9, <1>10, <1>13 DEF BatchTyped, SessionsTyped
<1>15. /\ NoneOf(q \o r, T) <=> NoneOf(q, T) /\ NoneOf(r, T)
       /\ LastIs(q \o r, T, Opening)
            <=> LastIs(r, T, Opening) \/ (NoneOf(r, T) /\ LastIs(q, T, Opening))
  BY <1>12, <1>14, OutcomePosts
<1>16. ~LastIs(r, T, Opening)
  BY <1>11, <1>12 DEF LastIs
<1>17. NoneOf(r, T) <=> k \notin mine
  BY <1>8, <1>9, <1>11, <1>12, <1>13 DEF NoneOf
<1>18. Collected(k)' <=> LastIs(q \o r, T, Opening) \/ (NoneOf(q \o r, T) /\ k \in engineBatches)
  BY <1>3, <1>13, <1>14 DEF Collected, Outcome
<1>19. Collected(k) <=> LastIs(q, T, Opening) \/ (NoneOf(q, T) /\ k \in engineBatches)
  BY <1>13 DEF Collected, Outcome
<1>20. Collected(k)' <=> k \notin mine /\ Collected(k)
  BY <1>15, <1>16, <1>17, <1>18, <1>19
<1> QED
  BY <1>2, <1>3, <1>4, <1>20 DEF CollectedRight

\* Once the adapter has heard that the engine is up, it has asked for all of its
\* sessions again.
LEMMA EngineUpServed ==
  ASSUME NEW M, M \subseteq BatchingMode, NEW R, BatchTyped(M, R), "trip" \notin M,
         BatchEngineUp, \A k \in BatchKey : CollectedRight(k), NEW k \in BatchKey
  PROVE  CollectedRight(k)'
<1>1. /\ batchCalls' = batchCalls \o Restarts /\ mBatchingSessions' = mBatchingSessions
      /\ engineBatches' = engineBatches
  BY DEF BatchEngineUp, BatchingTakes, Restarts, batchEngine
<1>2. ToRestart = DOMAIN mBatchingSessions
  BY DEF ToRestart, BatchTyped, SessionsTyped, SessionsIn
<1>3. SessionsTyped(M)
  BY DEF BatchTyped
<1>4. PICK q, r, T, D : q = batchCalls /\ r = Restarts /\ T = On(k) /\ D = DOMAIN mBatchingSessions
  OBVIOUS
<1>5. /\ r \in Seq(CallsIn(M)) /\ q \in Seq(CallsIn(M))
      /\ \A i \in DOMAIN r : r[i].key \in D /\ r[i] \in Opening
      /\ \A x \in D : \E i \in DOMAIN r : r[i] \in On(x)
  BY <1>2, <1>3, <1>4, RestartCalls DEF SessionsTyped
<1>6. /\ NoneOf(q \o r, T) <=> NoneOf(q, T) /\ NoneOf(r, T)
      /\ LastIs(q \o r, T, Opening)
           <=> LastIs(r, T, Opening) \/ (NoneOf(r, T) /\ LastIs(q, T, Opening))
  BY <1>5, OutcomePosts
<1>7. k \notin D => NoneOf(r, T)
  BY <1>4, <1>5 DEF NoneOf, On
<1>8. k \notin D => (Collected(k)' <=> Collected(k))
  BY <1>1, <1>4, <1>6, <1>7 DEF Collected, Outcome, LastIs, NoneOf
<1>9. ASSUME k \in D PROVE LastIs(r, T, Opening)
  <2>1. ~NoneOf(r, T)
    BY <1>4, <1>5, <1>9 DEF NoneOf
  <2> QED
    BY <1>5, <2>1, SomeLast
<1>10. k \in D => Collected(k)'
  BY <1>1, <1>4, <1>6, <1>9 DEF Collected, Outcome
<1> QED
  BY <1>1, <1>4, <1>8, <1>10 DEF CollectedRight

\* While the engine refuses nothing, each step of the adapter makes the calls its
\* sessions need.
LEMMA StepServed ==
  ASSUME NEW M, M \subseteq BatchingMode, BatchTyped(M, {}), "trip" \notin M,
         BatchingStep, \A k \in BatchKey : CollectedRight(k), NEW k \in BatchKey
  PROVE  CollectedRight(k)'
<1> DEFINE Opens(k0, c) == c \in Opening /\ DOMAIN mBatchingSessions' = DOMAIN mBatchingSessions \cup {k0}
           Closes(k0, c) == c \notin Opening /\ DOMAIN mBatchingSessions' = DOMAIN mBatchingSessions \ {k0}
<1>1. ASSUME batchMsgs # <<>>, batchMsgs' = Tail(batchMsgs), Head(batchMsgs).what # "engineUp",
             UNCHANGED batchEngine,
             \/ UNCHANGED <<mBatchingSessions, batchCalls>>
             \/ \E k0 : \E c \in CallsIn(M) :
                  /\ c \in On(k0) /\ batchCalls' = Append(batchCalls, c)
                  /\ Opens(k0, c) \/ Closes(k0, c)
      PROVE  CollectedRight(k)'
  <2>1. PICK R : R = {}
    OBVIOUS
  <2>2. BatchTyped(M, R)
    BY <2>1
  <2> QED
    BY <1>1, <2>2, SessionServed
<1>2. SessionsTyped(M) /\ mTripSessions = {}
  BY NoTrips DEF BatchTyped
<1>3. PICK s, t : s = mBatchingSessions /\ t = mTripSessions
  OBVIOUS
<1>4. SessionsIn(s, M) /\ TripsIn(t, M) /\ batchCalls \in Seq(CallsIn(M))
  BY <1>2, <1>3 DEF SessionsTyped
<1>5. ASSUME NEW key, NEW mode, key \in BatchKey, mode \in M, NEW full \in BOOLEAN,
             StartSession(key, mode, s, t, full)
      PROVE  \E c \in CallsIn(M) :
               c \in On(key) /\ batchCalls' = Append(batchCalls, c) /\ Opens(key, c)
  <2>1. /\ mBatchingSessions' = With(s, key, mode)
        /\ \E c \in CallsIn(M) : /\ c \in On(key) /\ c \in Opening
                                 /\ batchCalls' = Append(batchCalls, c)
    BY <1>4, <1>5, SessionStarts
  <2>2. DOMAIN With(s, key, mode) = DOMAIN s \cup {key}
    BY DEF With
  <2> QED
    BY <1>3, <2>1, <2>2
<1>6. CASE KeepPending
  BY <1>1, <1>6 DEF KeepPending, BatchingTakes, batchSessions
<1>7. CASE MsgStartBatching
  <2>1. /\ batchMsgs # <<>> /\ batchMsgs' = Tail(batchMsgs) /\ Head(batchMsgs).what = "start"
        /\ UNCHANGED batchEngine
    BY <1>7 DEF MsgStartBatching, TakesCommand, BatchingTakes
  <2>2. PICK R, m : R = {} /\ m \in MsgsIn(M, R) /\ m = Head(batchMsgs)
    BY <2>1, BatchTakes
  <2>3. PICK key, mode, full : key = m.key /\ mode = m.mode /\ full = batchFull
    OBVIOUS
  <2>4. key \in BatchKey /\ mode \in M /\ full \in BOOLEAN
    BY <1>2, <2>1, <2>2, <2>3, MsgIs DEF SessionsTyped
  <2>5. CASE StartSession(m.key, m.mode, mBatchingSessions, mTripSessions, batchFull)
    <3>1. StartSession(key, mode, s, t, full)
      BY <1>3, <2>3, <2>5
    <3> HIDE DEF Opens, Closes
    <3> QED
      BY <1>1, <1>5, <2>1, <2>4, <3>1
  <2> QED
    BY <1>1, <1>7, <2>1, <2>2, <2>5 DEF MsgStartBatching, batchSessions
<1>8. CASE MsgStopBatching
  <2>1. /\ batchMsgs # <<>> /\ batchMsgs' = Tail(batchMsgs) /\ Head(batchMsgs).what \in {"update", "stop"}
        /\ UNCHANGED batchEngine
    BY <1>8 DEF MsgStopBatching, TakesCommand, BatchingTakes
  <2>2. PICK R, m : R = {} /\ m \in MsgsIn(M, R) /\ m = Head(batchMsgs)
    BY <2>1, BatchTakes
  <2>3. PICK key, mode : key = m.key /\ mode = m.mode
    OBVIOUS
  <2>4. mode \in M \cup {None}
    BY <2>1, <2>2, <2>3, MsgIs
  <2>5. CASE key \in DOMAIN mBatchingSessions /\ StopRoutine(key, mode)
    <3>1. /\ mBatchingSessions' = Without(mBatchingSessions, key)
          /\ \E c \in CallsIn(M) : /\ c \in On(key) /\ c \notin Opening
                                   /\ batchCalls' = Append(batchCalls, c)
      BY <1>2, <2>4, <2>5, StopRoutineTypes
    <3>2. DOMAIN Without(s, key) = DOMAIN s \ {key}
      BY <1>4, SessionErased
    <3>3. \E c \in CallsIn(M) : /\ c \in On(key) /\ batchCalls' = Append(batchCalls, c) /\ Closes(key, c)
      BY <1>3, <3>1, <3>2
    <3> HIDE DEF Opens, Closes
    <3> QED
      BY <1>1, <2>1, <3>3
  <2> QED
    BY <1>1, <1>2, <1>8, <2>1, <2>2, <2>3, <2>5 DEF MsgStopBatching, batchSessions
<1>9. ASSUME NEW what, TakesAnswer(what, FALSE) PROVE FALSE
  <2>1. PICK R : R = {}
    OBVIOUS
  <2>2. what \in R
    BY <1>9, <2>1, CallAnswered
  <2> QED
    BY <2>1, <2>2
<1>10. ASSUME NEW what, NEW ok, TakesAnswer(what, ok)
       PROVE  /\ batchMsgs # <<>> /\ batchMsgs' = Tail(batchMsgs) /\ Head(batchMsgs).what # "engineUp"
              /\ UNCHANGED batchEngine
  BY <1>10 DEF TakesAnswer, BatchingTakes
<1>11. CASE Started
  BY <1>1, <1>10, <1>11 DEF Started, batchSessions
<1>12. CASE Stopped
  <2>1. TakesAnswer("stop", TRUE)
    BY <1>12 DEF Stopped
  <2>2. PICK c \in CallsIn(M) : c = Head(batchMsgs).call
    BY <2>1, CallAnswered
  <2>3. c.key \in BatchKey /\ c.mode \in M \cup {None}
    BY CallIs
  <2>4. PICK full : full = (batchFull /\ ~(NoReports(mBatchingSessions, mTripSessions) /\ c.was # "noAuto"))
    OBVIOUS
  <2>5. full \in BOOLEAN
    BY <2>4, Zenon
  <2>6. \/ UNCHANGED <<mBatchingSessions, mTripSessions, batchCalls>>
        \/ /\ c.mode # None
           /\ StartSession(c.key, c.mode, mBatchingSessions, mTripSessions, full)
    BY <1>12, <2>2, <2>4, Zenon DEF Stopped
  <2>7. CASE UNCHANGED <<mBatchingSessions, mTripSessions, batchCalls>>
    BY <1>1, <1>10, <2>1, <2>7
  <2>8. CASE c.mode # None /\ StartSession(c.key, c.mode, mBatchingSessions, mTripSessions, full)
    <3>1. PICK key, mode : key = c.key /\ mode = c.mode
      OBVIOUS
    <3>2. key \in BatchKey /\ mode \in M /\ StartSession(key, mode, s, t, full)
      BY <1>3, <2>3, <2>8, <3>1
    <3> HIDE DEF Opens, Closes
    <3> QED
      BY <1>1, <1>5, <1>10, <2>1, <2>5, <3>2
  <2> QED
    BY <2>6, <2>7, <2>8
<1>13. CASE StartFailed \/ RestartFailed \/ StopFailed
  BY <1>9, <1>13 DEF StartFailed, RestartFailed, StopFailed
<1>14. CASE BatchRemoveClient \/ BatchEngineUp
  <2>1. PICK R : R = {}
    OBVIOUS
  <2>2. BatchTyped(M, R)
    BY <2>1
  <2> QED
    BY <1>14, <2>2, RemoveServed, EngineUpServed
<1> QED
  BY <1>6, <1>7, <1>8, <1>11, <1>12, <1>13, <1>14, NoTrips DEF BatchingStep

\* The engine does what the calls say; when it crashes the adapter has yet to
\* hear of its restart.
LEMMA EngineServed ==
  ASSUME NEW M, M \subseteq BatchingMode, BatchTyped(M, {}), batchRefused' = {}, batchRefused = {},
         BatchEngineStep, \A k \in BatchKey : CollectedRight(k), NEW k \in BatchKey
  PROVE  CollectedRight(k)'
<1>1. UNCHANGED mBatchingSessions
  BY DEF BatchEngineStep, BatchEngineHandles, BatchEngineCrashes, BatchEngineComesUp, batchSessions
<1>2. PICK q, T, S, ms : q = batchCalls /\ T = On(k) /\ S = CallsIn(M) /\ ms = batchMsgs
  OBVIOUS
<1>3. q \in Seq(S) /\ ms \in Seq(MsgsIn(M, {}))
  BY <1>2 DEF BatchTyped, SessionsTyped, BatchQueues
<1>4. CASE BatchEngineHandles
  <2>1. q # <<>> /\ batchCalls' = Tail(q) /\ batchUp' = batchUp
    BY <1>2, <1>4 DEF BatchEngineHandles
  <2>2. PICK call \in S : call = Head(q)
    BY <1>3, <2>1, TakeHead
  <2>3. EngineBatching(call) /\ batchMsgs' = Append(ms, [what |-> "answer", ok |-> TRUE, call |-> call])
    BY <1>2, <1>4, <2>2 DEF BatchEngineHandles
  <2>4. /\ NoneOf(q, T) <=> call \notin T /\ NoneOf(Tail(q), T)
        /\ LastIs(q, T, Opening)
             <=> LastIs(Tail(q), T, Opening)
                 \/ (NoneOf(Tail(q), T) /\ call \in T /\ call \in Opening)
    BY <1>3, <2>1, <2>2, OutcomeTake
  <2>5. k \in engineBatches' <=> (call \in T /\ call \in Opening) \/ (call \notin T /\ k \in engineBatches)
    <3>1. call \in CallsIn(BatchingMode)
      BY <1>2, CallIs
    <3>2. PICK w, key, e : w = call.what /\ key = call.key /\ e = engineBatches
      OBVIOUS
    <3>3. /\ call \in T <=> w \in {"start", "restart", "stop"} /\ key = k
          /\ call \in Opening <=> w # "stop"
      BY <1>2, <3>1, <3>2 DEF On, Opening
    <3>4. engineBatches' = (e \ IF w = "stop" THEN {key} ELSE {})
                             \cup IF w \in {"start", "restart"} THEN {key} ELSE {}
      BY <2>3, <3>2 DEF EngineBatching
    <3> QED
      BY <3>2, <3>3, <3>4
  <2>6. Collected(k)' <=> LastIs(Tail(q), T, Opening) \/ (NoneOf(Tail(q), T) /\ k \in engineBatches')
    BY <1>2, <2>1 DEF Collected, Outcome
  <2>7. Collected(k) <=> LastIs(q, T, Opening) \/ (NoneOf(q, T) /\ k \in engineBatches)
    BY <1>2 DEF Collected, Outcome
  <2>8. Collected(k)' <=> Collected(k)
    BY <2>4, <2>5, <2>6, <2>7
  <2>9. NoneOf(batchMsgs', EngineUpMsg) => NoneOf(ms, EngineUpMsg)
    <3>1. PICK m : m = [what |-> "answer", ok |-> TRUE, call |-> call]
      OBVIOUS
    <3>2. m \in MsgsIn(M, {})
      BY <1>2, <3>1 DEF MsgsIn
    <3>3. NoneOf(Append(ms, m), EngineUpMsg) <=> NoneOf(ms, EngineUpMsg) /\ m \notin EngineUpMsg
      BY <1>3, <3>2, NonePost
    <3> QED
      BY <2>3, <3>1, <3>3
  <2> QED
    BY <1>1, <1>2, <2>1, <2>8, <2>9 DEF CollectedRight
<1>5. CASE BatchEngineCrashes
  <2>1. batchUp' = FALSE /\ engineBatches' = {} /\ batchCalls' = batchCalls
    BY <1>5 DEF BatchEngineCrashes
  <2>2. Collected(k)' => Collected(k)
    BY <2>1 DEF Collected, Outcome
  <2> QED
    BY <1>1, <2>1, <2>2 DEF CollectedRight
<1>6. CASE BatchEngineComesUp
  <2>1. /\ engineBatches' = engineBatches /\ batchCalls' = batchCalls
        /\ batchMsgs' = Append(ms, [what |-> "engineUp"])
    BY <1>2, <1>6 DEF BatchEngineComesUp
  <2>2. Collected(k)' <=> Collected(k)
    BY <2>1 DEF Collected
  <2>3. ~NoneOf(batchMsgs', EngineUpMsg)
    <3>1. PICK m : m = [what |-> "engineUp"]
      OBVIOUS
    <3>2. m \in MsgsIn(M, {}) /\ m \in EngineUpMsg
      BY <3>1 DEF MsgsIn, EngineUpMsg
    <3>3. NoneOf(Append(ms, m), EngineUpMsg) <=> NoneOf(ms, EngineUpMsg) /\ m \notin EngineUpMsg
      BY <1>3, <3>2, NonePost
    <3> QED
      BY <2>1, <3>1, <3>2, <3>3
  <2> QED
    BY <1>1, <2>2, <2>3 DEF CollectedRight
<1> QED
  BY <1>4, <1>5, <1>6 DEF BatchEngineStep

\* Every step keeps the invariant.
LEMMA BatchStepInv == BatchInv /\ [BatchingNext]_batchVars => BatchInv'
<1> SUFFICES ASSUME BatchInv, [BatchingNext]_batchVars PROVE BatchInv'
  OBVIOUS
<1>1. BatchTyped(Modes, batchRefused) /\ Registered /\ Served
  BY DEF BatchInv
<1>2. tripStarted \in BOOLEAN
  BY <1>1 DEF BatchTyped, BatchFlags
<1>3. CASE \E c \in BatchClient :
             \/ BatchClientGoes(c)
             \/ \E mode \in BatchingMode : StartBatchingCommand(c, mode)
             \/ \E id \in 1..MaxBatching :
                  \/ StopBatchingCommand(Key(c, id))
                  \/ \E mode \in BatchingMode : UpdateBatchingCommand(Key(c, id), mode)
  <2>1. /\ BatchTyped(Modes, batchRefused)'
        /\ UNCHANGED <<batchSessions, batchCalls, batchEngine>>
        /\ tripStarted' = FALSE => tripStarted = FALSE
    BY <1>1, <1>3, ClientStep
  <2>2. PICK m : m \notin EngineUpMsg /\ batchMsgs' = Append(batchMsgs, m)
    BY <1>1, <1>3, ClientStep
  <2>3. tripStarted' \in BOOLEAN
    BY <2>1 DEF BatchTyped, BatchFlags
  <2>4. Registered'
    BY <1>1, <2>1, <2>3 DEF Registered, batchSessions, batchEngine
  <2>5. NoneOf(batchMsgs', EngineUpMsg) => NoneOf(batchMsgs, EngineUpMsg)
    <3>1. PICK q, S : q = batchMsgs /\ S = MsgsIn(Modes, batchRefused) \cup {m}
      OBVIOUS
    <3>2. q \in Seq(S) /\ m \in S
      <4>1. MsgsIn(Modes, batchRefused) \subseteq S /\ batchMsgs \in Seq(MsgsIn(Modes, batchRefused))
        BY <1>1, <3>1 DEF BatchTyped, BatchQueues
      <4>2. PICK Z : Z = MsgsIn(Modes, batchRefused)
        OBVIOUS
      <4>3. q \in Seq(Z) /\ Z \subseteq S
        BY <3>1, <4>1, <4>2
      <4> QED
        BY <3>1, <4>3
    <3>3. NoneOf(Append(q, m), EngineUpMsg) <=> NoneOf(q, EngineUpMsg) /\ m \notin EngineUpMsg
      BY <3>2, NonePost
    <3> QED
      BY <2>2, <3>1, <3>3
  <2>6. Served'
    <3>1. \A k \in BatchKey : Collected(k)' <=> Collected(k)
      BY <2>1 DEF Collected, batchEngine
    <3>2. \A k \in BatchKey : CollectedRight(k) => CollectedRight(k)'
      BY <2>1, <2>5, <3>1 DEF CollectedRight, batchSessions, batchEngine
    <3> QED
      BY <1>1, <2>1, <2>3, <3>2 DEF Served, batchEngine
  <2> QED
    BY <2>1, <2>4, <2>6 DEF BatchInv
<1>4. CASE BatchingStep
  <2>1. PICK M, R : M = Modes /\ R = batchRefused
    OBVIOUS
  <2>2. UNCHANGED <<batchRefused, tripStarted>>
    BY <1>4 DEF BatchingStep, KeepPending, MsgStartBatching, MsgStopBatching, TakesCommand,
       Started, StartFailed, RestartFailed, TripQueried, Stopped, StopFailed, LastTripStopped,
       TripsCompleted, BatchRemoveClient, BatchEngineUp, TakesAnswer, BatchingTakes, batchEnv,
       batchEngine
  <2>3. M \subseteq BatchingMode /\ {"routine"} \subseteq M /\ Modes' = M /\ batchRefused' = R
        /\ (~tripStarted => "trip" \notin M)
    BY <2>1, <2>2 DEF Modes, BatchingMode
  <2>4. BatchTyped(M, R) /\ BatchTyped(M, R)'
    <3>1. BatchTyped(M, R)
      BY <1>1, <2>1
    <3> QED
      BY <1>4, <2>3, <3>1, BatchStepTypes
  <2>5. BatchTyped(Modes, batchRefused)'
    BY <2>3, <2>4 DEF BatchTyped, BatchQueues, SessionsTyped
  <2>6. Registered'
    <3>1. ASSUME "stop" \notin R, ~tripStarted
          PROVE  Reporting(mBatchingSessions') # {} => batchFull'
      <4>1. Reporting(mBatchingSessions) # {} => batchFull
        BY <1>1, <2>1, <3>1 DEF Registered
      <4> QED
        BY <1>4, <2>3, <2>4, <3>1, <4>1, StepRegistered
    <3> QED
      BY <2>1, <2>2, <3>1 DEF Registered
  <2>7. Served'
    <3>1. ASSUME R = {}, ~tripStarted PROVE \A k \in BatchKey : CollectedRight(k)'
      <4>1. BatchTyped(M, {})
        BY <2>4, <3>1
      <4>2. \A k \in BatchKey : CollectedRight(k)
        BY <1>1, <2>1, <3>1 DEF Served
      <4> QED
        BY <1>4, <2>3, <3>1, <4>1, <4>2, StepServed
    <3> QED
      BY <2>1, <2>2, <3>1 DEF Served
  <2> QED
    BY <2>5, <2>6, <2>7 DEF BatchInv
<1>5. CASE BatchEngineStep
  <2>1. BatchTyped(Modes, batchRefused)'
    BY <1>1, <1>5, EngineStepTypes
  <2>2. UNCHANGED <<batchSessions, tripStarted>> /\ batchRefused \subseteq batchRefused'
    BY <1>5 DEF BatchEngineStep, BatchEngineHandles, BatchEngineCrashes, BatchEngineComesUp, batchEnv
  <2>3. Registered'
    BY <1>1, <2>2 DEF Registered, batchSessions
  <2>4. Served'
    <3>1. ASSUME batchRefused' = {}, ~tripStarted PROVE \A k \in BatchKey : CollectedRight(k)'
      <4>1. PICK M : M = Modes
        OBVIOUS
      <4>2. batchRefused = {}
        BY <2>2, <3>1
      <4>3. BatchTyped(M, {}) /\ M \subseteq BatchingMode
        BY <1>1, <4>1, <4>2 DEF Modes
      <4>4. \A k \in BatchKey : CollectedRight(k)
        BY <1>1, <3>1, <4>2 DEF Served
      <4> QED
        BY <1>5, <3>1, <4>2, <4>3, <4>4, EngineServed
    <3> QED
      BY <2>2, <3>1 DEF Served
  <2> QED
    BY <2>1, <2>3, <2>4 DEF BatchInv
<1>6. CASE UNCHANGED batchVars
  <2>1. Modes' = Modes /\ UNCHANGED <<mBatchingSessions, mTripSessions, batchFull, batchCalls, batchMsgs,
          mPendingMsgs, batchRefused, tripStarted, batchUp, engineBatches, capabilitiesKnown,
          batchClients, batchIds>>
    BY <1>6 DEF batchVars, batchSessions, batchPending, batchEnv, batchEngine, Modes
  <2>2. BatchTyped(Modes, batchRefused)'
    BY <1>1, <2>1 DEF BatchTyped, SessionsTyped, BatchFlags, BatchQueues
  <2>3. Registered'
    BY <1>1, <2>1 DEF Registered
  <2>4. Served'
    BY <1>1, <2>1 DEF Served, CollectedRight, Collected
  <2> QED
    BY <2>2, <2>3, <2>4 DEF BatchInv
<1> QED
  BY <1>3, <1>4, <1>5, <1>6 DEF BatchingNext

\* The types of the batching adapter's state (gps/batching/BatchingAdapter.h).
THEOREM BatchingTypeCorrect == BatchSpec => []BatchingTypeOK
<1>1. BatchInv => BatchingTypeOK
  <2> SUFFICES ASSUME BatchInv PROVE BatchingTypeOK
    OBVIOUS
  <2>1. BatchTyped(Modes, batchRefused) /\ Modes \subseteq BatchingMode
    BY DEF BatchInv, Modes
  <2>2. SessionsIn(mBatchingSessions, Modes) /\ mTripSessions \subseteq BatchKey
    BY <2>1 DEF BatchTyped, SessionsTyped, TripsIn
  <2>3. /\ DOMAIN mBatchingSessions \subseteq BatchKey
        /\ \A k \in DOMAIN mBatchingSessions : mBatchingSessions[k] \in BatchingMode
    BY <2>1, <2>2 DEF SessionsIn
  <2>4. batchFull \in BOOLEAN /\ capabilitiesKnown \in BOOLEAN /\ batchUp \in BOOLEAN
        /\ tripStarted \in BOOLEAN /\ batchClients \subseteq BatchClient
        /\ batchIds \in 0..MaxBatching /\ engineBatches \subseteq BatchKey
    BY <2>1 DEF BatchTyped, SessionsTyped, BatchFlags
  <2> QED
    BY <2>2, <2>3, <2>4, Zenon DEF BatchingTypeOK
<1> QED
  BY <1>1, BatchInitInv, BatchStepInv, PTL DEF BatchSpec

\* While no trip is started and the engine refuses no stop, BATCH_FULL stays
\* registered while a session reports (autoReportBatchingSessionsCount,
\* gps/batching/BatchingAdapter.cpp).
THEOREM BatchFullStaysRegistered == BatchSpec => []AutoReportRegistered
<1>1. BatchInv => AutoReportRegistered
  <2> SUFFICES ASSUME BatchInv, "stop" \notin batchRefused, ~tripStarted,
                      AutoReports(mBatchingSessions, mTripSessions) > 0
               PROVE  batchFull
    BY DEF AutoReportRegistered
  <2>1. PICK M, s : M = Modes /\ s = mBatchingSessions
    OBVIOUS
  <2>2. "trip" \notin M /\ SessionsIn(s, M) /\ mTripSessions = {}
    BY <2>1 DEF BatchInv, BatchTyped, SessionsTyped, TripsIn, Modes
  <2>3. AutoReports(s, {}) > 0 <=> Reporting(s) # {}
    BY <2>2, CountReports
  <2> QED
    BY <2>1, <2>2, <2>3 DEF BatchInv, Registered
<1> QED
  BY <1>1, BatchInitInv, BatchStepInv, PTL DEF BatchSpec

\* While no trip is started and the engine refuses nothing, once everything under
\* way has been handled it collects positions for exactly the sessions that the
\* adapter keeps, however restartSessions races with commands and their answers
\* (gps/batching/BatchingAdapter.cpp).
THEOREM EngineCollects == BatchSpec => []BatchingServed
<1>1. BatchInv => BatchingServed
  <2> SUFFICES ASSUME BatchInv, batchMsgs = <<>>, batchCalls = <<>>, batchUp,
                      batchRefused = {}, ~tripStarted
               PROVE  engineBatches = DOMAIN mBatchingSessions
    BY DEF BatchingServed, BatchingQuiet
  <2>1. engineBatches \subseteq BatchKey /\ DOMAIN mBatchingSessions \subseteq BatchKey
    BY DEF BatchInv, BatchTyped, BatchFlags, SessionsTyped, SessionsIn
  <2>2. \A k \in BatchKey : Collected(k) <=> k \in engineBatches
    BY EmptyOutcome DEF Collected, Outcome
  <2>3. \A k \in BatchKey : k \in DOMAIN mBatchingSessions <=> Collected(k)
    BY EmptyOutcome DEF BatchInv, Served, CollectedRight
  <2> QED
    BY <2>1, <2>2, <2>3
<1> QED
  BY <1>1, BatchInitInv, BatchStepInv, PTL DEF BatchSpec

(***************************************************************************)
(* The life of a client                                                    *)
(***************************************************************************)

LocationApiSpec == LocationApiInit /\ [][LocationApiNext]_apiVars

ApiMsg == [what : {"add", "remove"}, client : ApiClient]

\* What the queue of an adapter holds about a client
Concerns(q, c) == \E i \in DOMAIN q : q[i].client = c
OnlyAdds(q, c) == \A i \in DOMAIN q : q[i].client = c => q[i].what = "add"
LastIsRemove(q, c) ==
  \E i \in DOMAIN q :
    /\ q[i].what = "remove" /\ q[i].client = c
    /\ \A j \in DOMAIN q : q[j].client = c /\ j # i => j < i /\ q[j].what = "add"

Forgotten(a, c) == c \notin mClientData[a] /\ ~Concerns(adapterMsgs[a], c)

Types ==
  /\ loadable \in SUBSET Adapter /\ interfaces \in SUBSET loadable
  /\ clientData \in SUBSET ApiClient /\ apiHandle \in SUBSET ApiClient
  /\ waitAdapterMask \in [ApiClient -> SUBSET Adapter]
  /\ apiLife \in [ApiClient -> {"new", "live", "destroying", "deleted"}]
  /\ adapterMsgs \in [Adapter -> Seq(ApiMsg)]
  /\ mClientData \in [Adapter -> SUBSET ApiClient]

\* Where the client is in its life
Life(c) ==
  /\ c \in apiHandle <=> apiLife[c] = "live"
  /\ apiLife[c] = "live" => c \in clientData
  /\ c \in clientData => apiLife[c] \in {"live", "destroying"} /\ waitAdapterMask[c] = {}
  /\ c \notin clientData => (apiLife[c] = "destroying" <=> waitAdapterMask[c] # {})

\* What an adapter knows and will get to know of the client
Knows(a, c) ==
  /\ c \in clientData => OnlyAdds(adapterMsgs[a], c) /\ (a \notin interfaces => Forgotten(a, c))
  /\ c \notin clientData => IF a \in waitAdapterMask[c] THEN LastIsRemove(adapterMsgs[a], c)
                            ELSE Forgotten(a, c)

LocationApiInv ==
  /\ Types
  /\ \A c \in ApiClient : Life(c) /\ \A a \in Adapter : Knows(a, c)
-----------------------------------------------------------------------------
(* the queue of an adapter *)

\* A message about d at the end, for what the queue holds about c
LEMMA PostAbout ==
  ASSUME NEW q \in Seq(ApiMsg), NEW m \in ApiMsg, NEW c \in ApiClient
  PROVE  /\ Append(q, m) \in Seq(ApiMsg)
         /\ m.client # c => /\ Concerns(Append(q, m), c) => Concerns(q, c)
                            /\ OnlyAdds(q, c) => OnlyAdds(Append(q, m), c)
                            /\ LastIsRemove(q, c) => LastIsRemove(Append(q, m), c)
         /\ m.what = "add" /\ OnlyAdds(q, c) => OnlyAdds(Append(q, m), c)
         /\ m.what = "remove" /\ m.client = c /\ OnlyAdds(q, c) => LastIsRemove(Append(q, m), c)
<1>1. /\ Append(q, m) \in Seq(ApiMsg)
      /\ Len(q) \in Nat /\ Len(Append(q, m)) = Len(q) + 1
      /\ Append(q, m)[Len(q) + 1] = m
      /\ \A i \in 1 .. Len(q) : Append(q, m)[i] = q[i]
  BY PostMessage
<1>2. DOMAIN q = 1 .. Len(q) /\ DOMAIN Append(q, m) = 1 .. Len(q) + 1
  BY <1>1
<1>3. \A i \in DOMAIN Append(q, m) : i \in DOMAIN q \/ i = Len(q) + 1
  BY <1>1, <1>2
<1>4. \A i \in DOMAIN q : i \in DOMAIN Append(q, m) /\ i < Len(q) + 1 /\ i # Len(q) + 1
  BY <1>1, <1>2
<1>5. Len(q) + 1 \in DOMAIN Append(q, m)
  BY <1>1, <1>2
<1>6. \A i \in DOMAIN q : Append(q, m)[i] = q[i]
  BY <1>1, <1>2
<1>7. m.client # c => (Concerns(Append(q, m), c) => Concerns(q, c))
  BY <1>1, <1>3, <1>6 DEF Concerns
<1>8. (m.client # c \/ m.what = "add") /\ OnlyAdds(q, c) => OnlyAdds(Append(q, m), c)
  BY <1>1, <1>3, <1>6 DEF OnlyAdds
<1>9. m.client # c /\ LastIsRemove(q, c) => LastIsRemove(Append(q, m), c)
  BY <1>1, <1>3, <1>4, <1>6 DEF LastIsRemove
<1>10. m.what = "remove" /\ m.client = c /\ OnlyAdds(q, c) => LastIsRemove(Append(q, m), c)
  BY <1>1, <1>3, <1>4, <1>5, <1>6 DEF LastIsRemove, OnlyAdds
<1> QED
  BY <1>1, <1>7, <1>8, <1>9, <1>10

LEMMA TakeAbout ==
  ASSUME NEW q \in Seq(ApiMsg), q # <<>>, NEW c \in ApiClient
  PROVE  /\ Head(q) \in ApiMsg /\ Tail(q) \in Seq(ApiMsg)
         /\ Head(q).client = c => Concerns(q, c)
         /\ Concerns(Tail(q), c) => Concerns(q, c)
         /\ OnlyAdds(q, c) => OnlyAdds(Tail(q), c)
         /\ OnlyAdds(q, c) /\ Head(q).client = c => Head(q).what = "add"
         /\ LastIsRemove(q, c) /\ (Head(q).client # c \/ Head(q).what = "add")
              => LastIsRemove(Tail(q), c)
         /\ LastIsRemove(q, c) /\ Head(q).client = c /\ Head(q).what = "remove"
              => ~Concerns(Tail(q), c)
<1>1. /\ Head(q) \in ApiMsg /\ Head(q) = q[1]
      /\ Len(q) \in Nat /\ Len(q) >= 1
      /\ Tail(q) \in Seq(ApiMsg) /\ Len(Tail(q)) = Len(q) - 1
      /\ \A i \in 1 .. Len(Tail(q)) : Tail(q)[i] = q[i + 1]
  BY TakeHead
<1>2. /\ DOMAIN q = 1 .. Len(q) /\ DOMAIN Tail(q) = 1 .. Len(q) - 1 /\ 1 \in DOMAIN q
  BY <1>1
<1>3. \A i \in DOMAIN Tail(q) : i + 1 \in DOMAIN q /\ i + 1 # 1 /\ Tail(q)[i] = q[i + 1]
  BY <1>1, <1>2
<1>4. \A i \in DOMAIN q : i # 1 => i - 1 \in DOMAIN Tail(q) /\ Tail(q)[i - 1] = q[i]
  BY <1>1, <1>2
<1>5. Head(q).client = c => Concerns(q, c)
  BY <1>1, <1>2 DEF Concerns
<1>6. Concerns(Tail(q), c) => Concerns(q, c)
  BY <1>3 DEF Concerns
<1>7. OnlyAdds(q, c) => OnlyAdds(Tail(q), c)
  BY <1>3 DEF OnlyAdds
<1>8. OnlyAdds(q, c) /\ Head(q).client = c => Head(q).what = "add"
  BY <1>1, <1>2 DEF OnlyAdds
<1>9. ASSUME LastIsRemove(q, c)
      PROVE  /\ Head(q).client # c \/ Head(q).what = "add" => LastIsRemove(Tail(q), c)
             /\ Head(q).client = c /\ Head(q).what = "remove" => ~Concerns(Tail(q), c)
  <2>1. PICK i \in DOMAIN q :
          /\ q[i].what = "remove" /\ q[i].client = c
          /\ \A j \in DOMAIN q : q[j].client = c /\ j # i => j < i /\ q[j].what = "add"
    BY <1>9 DEF LastIsRemove
  <2>2. ASSUME Head(q).client # c \/ Head(q).what = "add" PROVE LastIsRemove(Tail(q), c)
    <3>1. i # 1
      BY <1>1, <2>1, <2>2
    <3>2. i - 1 \in DOMAIN Tail(q) /\ Tail(q)[i - 1] = q[i]
      BY <1>4, <3>1
    <3>3. ASSUME NEW j \in DOMAIN Tail(q), Tail(q)[j].client = c, j # i - 1
          PROVE  j < i - 1 /\ Tail(q)[j].what = "add"
      <4>1. j + 1 \in DOMAIN q /\ Tail(q)[j] = q[j + 1] /\ j + 1 # i
        BY <1>1, <1>2, <1>3, <3>3
      <4>2. j + 1 < i /\ q[j + 1].what = "add"
        BY <2>1, <3>3, <4>1
      <4> QED
        BY <1>1, <1>2, <4>1, <4>2
    <3> QED
      BY <2>1, <3>2, <3>3 DEF LastIsRemove
  <2>3. ASSUME Head(q).client = c, Head(q).what = "remove" PROVE ~Concerns(Tail(q), c)
    <3>1. i = 1
      BY <1>1, <1>2, <2>1, <2>3
    <3>2. ASSUME NEW j \in DOMAIN Tail(q), Tail(q)[j].client = c PROVE FALSE
      <4>1. j + 1 \in DOMAIN q /\ q[j + 1].client = c /\ j + 1 # 1
        BY <1>3, <3>2
      <4>2. j + 1 < 1
        BY <2>1, <3>1, <4>1
      <4> QED
        BY <1>2, <1>1, <4>2
    <3> QED
      BY <3>2 DEF Concerns
  <2> QED
    BY <2>2, <2>3
<1> QED
  BY <1>1, <1>5, <1>6, <1>7, <1>8, <1>9

LEMMA ApiInitInv == LocationApiInit => LocationApiInv
<1> SUFFICES ASSUME LocationApiInit PROVE LocationApiInv
  OBVIOUS
<1>1. Types
  BY DEF LocationApiInit, Types
<1>2. ASSUME NEW c \in ApiClient PROVE Life(c)
  BY <1>2 DEF LocationApiInit, Life
<1>3. ASSUME NEW c \in ApiClient, NEW a \in Adapter PROVE Knows(a, c)
  BY <1>3 DEF LocationApiInit, Knows, Forgotten, Concerns
<1> QED
  BY <1>1, <1>2, <1>3 DEF LocationApiInv
-----------------------------------------------------------------------------
(* the steps of the state *)

\* A call that adds c, which is new or has its handle, to adapters
LEMMA AddKnows ==
  ASSUME LocationApiInv, NEW c \in ApiClient, NEW wanted \in SUBSET Adapter,
         AddToAdapters(c, wanted), UNCHANGED <<waitAdapterMask, mClientData>>,
         apiLife[c] \in {"new", "live"},
         NEW a \in Adapter, NEW d \in ApiClient
  PROVE  adapterMsgs'[a] \in Seq(ApiMsg) /\ Knows(a, d)'
<1> DEFINE S == wanted \cap loadable
           m == [what |-> "add", client |-> c]
           q == adapterMsgs[a]
<1>1. Types /\ Life(c) /\ Life(d) /\ Knows(a, d) /\ Knows(a, c)
  BY DEF LocationApiInv
<1>2. m \in ApiMsg /\ m.what = "add" /\ m.client = c /\ q \in Seq(ApiMsg)
  BY <1>1 DEF ApiMsg, Types
<1>3. /\ adapterMsgs'[a] = IF a \in S THEN Append(q, m) ELSE q
      /\ interfaces' = interfaces \cup S /\ clientData' = clientData \cup {c}
  BY DEF AddToAdapters, Post
<1>4. waitAdapterMask' = waitAdapterMask /\ mClientData' = mClientData
  OBVIOUS
<1> HIDE DEF m, q, S
<1>5. adapterMsgs'[a] \in Seq(ApiMsg)
  BY <1>2, <1>3, PostAbout
<1>6. waitAdapterMask[c] = {}
  BY <1>1 DEF Life
<1>7. CASE d = c
  <2>1. OnlyAdds(q, c)
    BY <1>1, <1>6 DEF Knows, Forgotten, Concerns, OnlyAdds, q
  <2>2. OnlyAdds(adapterMsgs'[a], c)
    BY <1>2, <1>3, <2>1, PostAbout
  <2>3. a \notin interfaces' => Forgotten(a, c)'
    BY <1>1, <1>3, <1>4, <1>6 DEF Knows, Forgotten, q
  <2> QED
    BY <1>3, <1>5, <1>7, <2>2, <2>3 DEF Knows
<1>8. CASE d # c
  <2>1. /\ Concerns(adapterMsgs'[a], d) => Concerns(q, d)
        /\ OnlyAdds(q, d) => OnlyAdds(adapterMsgs'[a], d)
        /\ LastIsRemove(q, d) => LastIsRemove(adapterMsgs'[a], d)
    BY <1>2, <1>3, <1>8, PostAbout
  <2>2. Forgotten(a, d) => Forgotten(a, d)'
    BY <1>4, <2>1 DEF Forgotten, q
  <2>3. d \in clientData' <=> d \in clientData
    BY <1>3, <1>8
  <2> QED
    BY <1>1, <1>3, <1>4, <1>5, <2>1, <2>2, <2>3 DEF Knows, q
<1> QED
  BY <1>7, <1>8

LEMMA AddInv ==
  ASSUME LocationApiInv, NEW c \in ApiClient, NEW wanted \in SUBSET Adapter,
         CreateInstance(c, wanted) \/ UpdateCallbacks(c, wanted)
  PROVE  LocationApiInv'
<1>1. Types /\ \A d \in ApiClient : Life(d)
  BY DEF LocationApiInv
<1>2. /\ AddToAdapters(c, wanted) /\ UNCHANGED <<loadable, waitAdapterMask, mClientData>>
      /\ apiLife[c] \in {"new", "live"}
      /\ apiLife' = [apiLife EXCEPT ![c] = "live"] /\ apiHandle' = apiHandle \cup {c}
  <2>1. CASE CreateInstance(c, wanted)
    BY <2>1 DEF CreateInstance
  <2>2. CASE UpdateCallbacks(c, wanted)
    <3>1. apiLife[c] = "live" /\ c \in apiHandle
      BY <1>1, <2>2 DEF UpdateCallbacks, Life
    <3>2. apiLife = [apiLife EXCEPT ![c] = "live"]
      BY <1>1, <3>1 DEF Types
    <3> QED
      BY <2>2, <3>1, <3>2 DEF UpdateCallbacks
  <2> QED
    BY <2>1, <2>2
<1>3. \A a \in Adapter, d \in ApiClient : adapterMsgs'[a] \in Seq(ApiMsg) /\ Knows(a, d)'
  BY <1>2, AddKnows
<1>4. Types'
  <2>1. adapterMsgs' = [a \in Adapter |-> adapterMsgs'[a]]
    BY <1>2 DEF AddToAdapters, Post
  <2>2. adapterMsgs' \in [Adapter -> Seq(ApiMsg)]
    BY <1>3, <2>1
  <2> QED
    BY <1>1, <1>2, <2>2 DEF AddToAdapters, Types
<1>5. ASSUME NEW d \in ApiClient PROVE Life(d)'
  <2>1. Life(d) /\ Life(c) /\ clientData' = clientData \cup {c}
    BY <1>1, <1>2 DEF AddToAdapters
  <2>2. CASE d = c
    BY <1>1, <1>2, <2>1, <2>2 DEF Life, Types
  <2>3. CASE d # c
    BY <1>1, <1>2, <2>1, <2>3 DEF Life, Types
  <2> QED
    BY <2>2, <2>3
<1> QED
  BY <1>3, <1>4, <1>5 DEF LocationApiInv

LEMMA GiveUpInv ==
  ASSUME LocationApiInv, NEW c \in ApiClient, GiveUpHandle(c)
  PROVE  LocationApiInv'
<1>1. Types /\ \A d \in ApiClient : Life(d) /\ \A a \in Adapter : Knows(a, d)
  BY DEF LocationApiInv
<1>2. Types'
  BY <1>1 DEF GiveUpHandle, Types
<1>3. ASSUME NEW d \in ApiClient PROVE Life(d)'
  <2>1. Life(c) /\ Life(d)
    BY <1>1
  <2>2. CASE d = c
    BY <1>1, <2>1, <2>2 DEF GiveUpHandle, Life, Types
  <2>3. CASE d # c
    BY <1>1, <2>1, <2>3 DEF GiveUpHandle, Life, Types
  <2> QED
    BY <2>2, <2>3
<1>4. ASSUME NEW d \in ApiClient, NEW a \in Adapter PROVE Knows(a, d)'
  BY <1>1, <1>4 DEF GiveUpHandle, Knows, Forgotten
<1> QED
  BY <1>2, <1>3, <1>4 DEF LocationApiInv

LEMMA DestroyInv ==
  ASSUME LocationApiInv, NEW c \in ApiClient, DestroyApi(c)
  PROVE  LocationApiInv'
<1> DEFINE m == [what |-> "remove", client |-> c]
<1>1. Types /\ \A d \in ApiClient : Life(d) /\ \A a \in Adapter : Knows(a, d)
  BY DEF LocationApiInv
<1>2. /\ apiLife[c] = "destroying" /\ c \in clientData
      /\ clientData' = clientData \ {c}
      /\ waitAdapterMask' = [waitAdapterMask EXCEPT ![c] = interfaces]
      /\ adapterMsgs' = [a \in Adapter |->
           IF a \in interfaces THEN Append(adapterMsgs[a], m) ELSE adapterMsgs[a]]
      /\ apiLife' = IF interfaces = {} THEN [apiLife EXCEPT ![c] = "deleted"] ELSE apiLife
      /\ UNCHANGED <<loadable, interfaces, apiHandle, mClientData>>
  BY DEF DestroyApi, AdaptersToLeave, Post
<1>3. m \in ApiMsg /\ m.what = "remove" /\ m.client = c
  BY DEF ApiMsg
<1> HIDE DEF m
<1>4. Types'
  <2>1. \A a \in Adapter : Append(adapterMsgs[a], m) \in Seq(ApiMsg)
    BY <1>1, <1>3 DEF Types
  <2>2. adapterMsgs' \in [Adapter -> Seq(ApiMsg)]
    BY <1>1, <1>2, <2>1 DEF Types
  <2>3. waitAdapterMask' \in [ApiClient -> SUBSET Adapter]
    BY <1>1, <1>2 DEF Types
  <2> QED
    BY <1>1, <1>2, <2>2, <2>3 DEF Types
<1>5. ASSUME NEW d \in ApiClient PROVE Life(d)'
  <2>1. Life(c) /\ Life(d)
    BY <1>1
  <2>2. CASE d = c
    BY <1>1, <1>2, <2>1, <2>2 DEF Life, Types
  <2>3. CASE d # c
    BY <1>1, <1>2, <2>1, <2>3 DEF Life, Types
  <2> QED
    BY <2>2, <2>3
<1>6. ASSUME NEW d \in ApiClient, NEW a \in Adapter PROVE Knows(a, d)'
  <2>1. /\ adapterMsgs[a] \in Seq(ApiMsg) /\ Knows(a, d)
        /\ adapterMsgs'[a] = IF a \in interfaces THEN Append(adapterMsgs[a], m)
                             ELSE adapterMsgs[a]
    BY <1>1, <1>2 DEF Types
  <2>2. CASE d = c
    <3>1. /\ OnlyAdds(adapterMsgs[a], c) /\ (a \notin interfaces => Forgotten(a, c))
          /\ c \notin clientData' /\ waitAdapterMask'[c] = interfaces
      BY <1>1, <1>2, <2>1, <2>2 DEF Knows, Types
    <3>2. CASE a \in interfaces
      <4>1. LastIsRemove(adapterMsgs'[a], c)
        BY <1>3, <2>1, <3>1, <3>2, PostAbout
      <4> QED
        BY <2>2, <3>1, <3>2, <4>1 DEF Knows
    <3>3. CASE a \notin interfaces
      BY <1>2, <2>1, <2>2, <3>1, <3>3 DEF Knows, Forgotten
    <3> QED
      BY <3>2, <3>3
  <2>3. CASE d # c
    <3>1. /\ Concerns(adapterMsgs'[a], d) => Concerns(adapterMsgs[a], d)
          /\ OnlyAdds(adapterMsgs[a], d) => OnlyAdds(adapterMsgs'[a], d)
          /\ LastIsRemove(adapterMsgs[a], d) => LastIsRemove(adapterMsgs'[a], d)
      BY <1>3, <2>1, <2>3, PostAbout
    <3>2. Forgotten(a, d) => Forgotten(a, d)'
      BY <1>2, <3>1 DEF Forgotten
    <3>3. (d \in clientData' <=> d \in clientData) /\ waitAdapterMask'[d] = waitAdapterMask[d]
      BY <1>1, <1>2, <2>3 DEF Types
    <3> QED
      BY <1>2, <2>1, <3>1, <3>2, <3>3 DEF Knows
  <2> QED
    BY <2>2, <2>3
<1> QED
  BY <1>4, <1>5, <1>6 DEF LocationApiInv

\* The parts of AdapterHandles(a), with the client c of the message
LEMMA HandlesAdd ==
  ASSUME LocationApiInv, NEW a \in Adapter, AdapterHandles(a),
         Head(adapterMsgs[a]).what = "add"
  PROVE  LocationApiInv'
<1> DEFINE q == adapterMsgs[a]
<1>1. Types /\ \A d \in ApiClient : Life(d) /\ \A b \in Adapter : Knows(b, d)
  BY DEF LocationApiInv
<1>2. q # <<>> /\ q \in Seq(ApiMsg) /\ Head(q) \in ApiMsg /\ Tail(q) \in Seq(ApiMsg)
  <2>1. q # <<>> /\ q \in Seq(ApiMsg)
    BY <1>1 DEF AdapterHandles, Types
  <2> QED
    BY <2>1, TakeHead
<1>3. PICK c \in ApiClient : Head(q).client = c
  BY <1>2 DEF ApiMsg
<1>4. /\ q # <<>> /\ adapterMsgs' = [adapterMsgs EXCEPT ![a] = Tail(q)]
      /\ mClientData' = [mClientData EXCEPT ![a] = @ \cup {c}]
      /\ UNCHANGED <<waitAdapterMask, apiLife, loadable, interfaces, clientData, apiHandle>>
  BY <1>3 DEF AdapterHandles
<1>5. Types'
  <2>1. adapterMsgs' \in [Adapter -> Seq(ApiMsg)]
    BY <1>1, <1>2, <1>4 DEF Types
  <2>2. mClientData' \in [Adapter -> SUBSET ApiClient]
    BY <1>1, <1>2, <1>4 DEF Types
  <2> QED
    BY <1>1, <1>4, <2>1, <2>2 DEF Types
<1>6. ASSUME NEW d \in ApiClient PROVE Life(d)'
  BY <1>1, <1>4 DEF Life
<1>7. ASSUME NEW d \in ApiClient, NEW b \in Adapter PROVE Knows(b, d)'
  <2>1. Knows(b, d)
    BY <1>1
  <2>2. CASE b # a
    <3>1. adapterMsgs'[b] = adapterMsgs[b] /\ mClientData'[b] = mClientData[b]
      BY <1>1, <1>4, <2>2 DEF Types
    <3> QED
      BY <1>4, <2>1, <3>1 DEF Knows, Forgotten
  <2>3. CASE b = a
    <3>1. adapterMsgs'[a] = Tail(q) /\ mClientData'[a] = mClientData[a] \cup {c}
      BY <1>1, <1>4 DEF Types
    <3>2. /\ c = d => Concerns(q, d)
          /\ Concerns(Tail(q), d) => Concerns(q, d)
          /\ OnlyAdds(q, d) => OnlyAdds(Tail(q), d)
          /\ LastIsRemove(q, d) => LastIsRemove(Tail(q), d)
      BY <1>2, <1>3, TakeAbout
    <3>3. Forgotten(a, d) => Forgotten(a, d)'
      BY <3>1, <3>2 DEF Forgotten
    <3> QED
      BY <1>4, <2>1, <2>3, <3>1, <3>2, <3>3 DEF Knows
  <2> QED
    BY <2>2, <2>3
<1> QED
  BY <1>5, <1>6, <1>7 DEF LocationApiInv

LEMMA HandlesRemove ==
  ASSUME LocationApiInv, NEW a \in Adapter, AdapterHandles(a),
         Head(adapterMsgs[a]).what = "remove"
  PROVE  LocationApiInv'
<1> DEFINE q == adapterMsgs[a]
<1>1. Types /\ \A d \in ApiClient : Life(d) /\ \A b \in Adapter : Knows(b, d)
  BY DEF LocationApiInv
<1>2. q # <<>> /\ q \in Seq(ApiMsg) /\ Head(q) \in ApiMsg /\ Tail(q) \in Seq(ApiMsg)
  <2>1. q # <<>> /\ q \in Seq(ApiMsg)
    BY <1>1 DEF AdapterHandles, Types
  <2> QED
    BY <2>1, TakeHead
<1>3. PICK c \in ApiClient : Head(q).client = c
  BY <1>2 DEF ApiMsg
<1>4. /\ q # <<>> /\ adapterMsgs' = [adapterMsgs EXCEPT ![a] = Tail(q)]
      /\ mClientData' = [mClientData EXCEPT ![a] = @ \ {c}]
      /\ waitAdapterMask' = [waitAdapterMask EXCEPT ![c] = waitAdapterMask[c] \ {a}]
      /\ apiLife' = IF waitAdapterMask[c] # {} /\ waitAdapterMask[c] \ {a} = {}
                    THEN [apiLife EXCEPT ![c] = "deleted"] ELSE apiLife
      /\ UNCHANGED <<loadable, interfaces, clientData, apiHandle>>
  BY <1>3 DEF AdapterHandles, OnRemoveClient, StillToLeave
\* The client was told to go, and this adapter is one of those it waits for.
<1>5. c \notin clientData /\ a \in waitAdapterMask[c] /\ LastIsRemove(q, c)
  <2>1. Concerns(q, c) /\ ~OnlyAdds(q, c)
    BY <1>2, <1>3, <1>4, TakeAbout
  <2>2. Knows(a, c)
    BY <1>1, <1>2
  <2> QED
    BY <2>1, <2>2 DEF Knows, Forgotten
<1>6. Types'
  <2>1. adapterMsgs' \in [Adapter -> Seq(ApiMsg)]
    BY <1>1, <1>2, <1>4 DEF Types
  <2>2. mClientData' \in [Adapter -> SUBSET ApiClient]
    BY <1>1, <1>2, <1>4 DEF Types
  <2>3. waitAdapterMask' \in [ApiClient -> SUBSET Adapter]
    BY <1>1, <1>2, <1>4 DEF Types
  <2>4. apiLife' \in [ApiClient -> {"new", "live", "destroying", "deleted"}]
    BY <1>1, <1>2, <1>4 DEF Types
  <2> QED
    BY <1>1, <1>4, <2>1, <2>2, <2>3, <2>4 DEF Types
<1>7. ASSUME NEW d \in ApiClient PROVE Life(d)'
  <2>1. Life(c) /\ Life(d)
    BY <1>1, <1>2
  <2>2. CASE d = c
    <3>1. apiLife[c] = "destroying" /\ waitAdapterMask'[c] = waitAdapterMask[c] \ {a}
      BY <1>1, <1>2, <1>4, <1>5, <2>1 DEF Life, Types
    <3>2. apiLife'[c] = IF waitAdapterMask'[c] = {} THEN "deleted" ELSE "destroying"
      BY <1>1, <1>2, <1>4, <1>5, <3>1 DEF Types
    <3> QED
      BY <1>4, <1>5, <2>1, <2>2, <3>1, <3>2 DEF Life
  <2>3. CASE d # c
    BY <1>1, <1>4, <2>1, <2>3 DEF Life, Types
  <2> QED
    BY <2>2, <2>3
<1>8. ASSUME NEW d \in ApiClient, NEW b \in Adapter PROVE Knows(b, d)'
  <2>1. Knows(b, d)
    BY <1>1
  <2>2. waitAdapterMask'[d] = IF d = c THEN waitAdapterMask[d] \ {a} ELSE waitAdapterMask[d]
    BY <1>1, <1>2, <1>4 DEF Types
  <2>3. CASE b # a
    <3>1. /\ adapterMsgs'[b] = adapterMsgs[b] /\ mClientData'[b] = mClientData[b]
          /\ b \in waitAdapterMask'[d] <=> b \in waitAdapterMask[d]
      BY <1>1, <1>4, <2>2, <2>3 DEF Types
    <3> QED
      BY <1>4, <2>1, <3>1 DEF Knows, Forgotten
  <2>4. CASE b = a
    <3>1. adapterMsgs'[a] = Tail(q) /\ mClientData'[a] = mClientData[a] \ {c}
      BY <1>1, <1>4 DEF Types
    <3>2. CASE d = c
      <4>1. ~Concerns(Tail(q), c)
        BY <1>2, <1>3, <1>4, <1>5, TakeAbout
      <4>2. Forgotten(a, c)'
        BY <3>1, <4>1 DEF Forgotten
      <4>3. a \notin waitAdapterMask'[c] /\ c \notin clientData'
        BY <1>4, <1>5, <2>2, <3>2
      <4> QED
        BY <2>4, <3>2, <4>2, <4>3 DEF Knows
    <3>3. CASE d # c
      <4>1. /\ Concerns(Tail(q), d) => Concerns(q, d)
            /\ OnlyAdds(q, d) => OnlyAdds(Tail(q), d)
            /\ LastIsRemove(q, d) => LastIsRemove(Tail(q), d)
        BY <1>2, <1>3, <1>4, <3>3, TakeAbout
      <4>2. Forgotten(a, d) => Forgotten(a, d)'
        BY <3>1, <3>3, <4>1 DEF Forgotten
      <4> QED
        BY <1>4, <2>1, <2>2, <2>4, <3>1, <3>3, <4>1, <4>2 DEF Knows
    <3> QED
      BY <3>2, <3>3
  <2> QED
    BY <2>3, <2>4
<1> QED
  BY <1>6, <1>7, <1>8 DEF LocationApiInv

LEMMA ApiStepInv == LocationApiInv /\ [LocationApiNext]_apiVars => LocationApiInv'
<1> SUFFICES ASSUME LocationApiInv, [LocationApiNext]_apiVars PROVE LocationApiInv'
  OBVIOUS
<1>1. ASSUME NEW a \in Adapter, AdapterHandles(a) PROVE LocationApiInv'
  BY <1>1, HandlesAdd, HandlesRemove DEF AdapterHandles
<1>2. CASE UNCHANGED apiVars
  BY <1>2 DEF apiVars, LocationApiInv, Types, Life, Knows, Forgotten
<1> QED
  BY <1>1, <1>2, AddInv, GiveUpInv, DestroyInv DEF LocationApiNext
-----------------------------------------------------------------------------
\* For any adapters, clients and interleaving of their threads, a client that
\* has been told that it is destroyed is known to no adapter and none has a
\* message about it left, so that nobody calls it back (LocationAPI::destroy
\* and onRemoveClientCompleteCb, gps/location/LocationAPI.cpp).
THEOREM DeletedClientsStayUnknown == LocationApiSpec => []DeletedClientUnknown
<1>1. LocationApiInv => DeletedClientUnknown
  <2> SUFFICES ASSUME LocationApiInv, NEW c \in ApiClient, apiLife[c] = "deleted"
               PROVE  /\ c \notin clientData /\ waitAdapterMask[c] = {}
                      /\ \A a \in Adapter :
                           /\ c \notin mClientData[a]
                           /\ \A m \in ToSet(adapterMsgs[a]) : m.client # c
    BY DEF DeletedClientUnknown
  <2>1. c \notin clientData /\ waitAdapterMask[c] = {}
    BY DEF LocationApiInv, Life
  <2>2. \A a \in Adapter : Forgotten(a, c)
    BY <2>1 DEF LocationApiInv, Knows
  <2> QED
    BY <2>1, <2>2 DEF Forgotten, Concerns, ToSet
<1> QED
  BY ApiInitInv, ApiStepInv, <1>1, PTL DEF LocationApiSpec

\* The state keeps its types (gps/location/LocationAPI.cpp).
THEOREM LocationApiTypeCorrect == LocationApiSpec => []LocationApiTypeOK
<1> DEFINE Inv == LocationApiInv /\ apiCalls \in 0..MaxApiCalls
<1>1. LocationApiInit => Inv
  BY ApiInitInv, ApiAssumption DEF LocationApiInit
<1>2. Inv /\ [LocationApiNext]_apiVars => Inv'
  <2> SUFFICES ASSUME Inv, [LocationApiNext]_apiVars PROVE Inv'
    OBVIOUS
  <2>1. LocationApiInv'
    BY ApiStepInv
  <2>2. apiCalls' = apiCalls \/ (apiCalls > 0 /\ apiCalls' = apiCalls - 1)
    BY DEF LocationApiNext, CreateInstance, UpdateCallbacks, GiveUpHandle, DestroyApi,
           AdapterHandles, apiVars
  <2>3. apiCalls' \in 0..MaxApiCalls
    BY <2>2, ApiAssumption
  <2> QED
    BY <2>1, <2>3
<1>3. Inv => LocationApiTypeOK
  BY DEF LocationApiInv, Types, LocationApiTypeOK
<1> QED
  BY <1>1, <1>2, <1>3, PTL DEF LocationApiSpec

(***************************************************************************)
(* Queues that messages leave anywhere                                     *)
(***************************************************************************)

\* Taking a message out from anywhere leaves the others in their order.
LEMMA TakeOut ==
  ASSUME NEW S, NEW q \in Seq(S), NEW i \in 1 .. Len(q)
  PROVE  /\ RemoveAt(q, i) \in Seq(S) /\ Len(q) \in Nat /\ Len(RemoveAt(q, i)) = Len(q) - 1
         /\ \A j \in 1 .. Len(RemoveAt(q, i)) :
              RemoveAt(q, i)[j] = IF j < i THEN q[j] ELSE q[j + 1]
  BY LeavesOut DEF RemoveAt

\* It takes one off their number, if it is one of them.
LEMMA PlacesLeft ==
  ASSUME NEW S, NEW q \in Seq(S), NEW i \in 1 .. Len(q), NEW T
  PROVE  Cardinality(Places(RemoveAt(q, i), T))
           = Cardinality(Places(q, T)) - (IF q[i] \in T THEN 1 ELSE 0)
<1> DEFINE r == RemoveAt(q, i)
           old == Places(q, T) \ {i}
           f == [j \in Places(r, T) |-> IF j < i THEN j ELSE j + 1]
<1>1. /\ r \in Seq(S) /\ Len(q) \in Nat /\ Len(r) = Len(q) - 1
      /\ \A j \in 1 .. Len(r) : r[j] = IF j < i THEN q[j] ELSE q[j + 1]
  BY TakeOut
<1>2. DOMAIN r = 1 .. Len(q) - 1 /\ DOMAIN q = 1 .. Len(q)
  BY <1>1
<1> HIDE DEF r
<1>3. IsFiniteSet(1 .. Len(q)) /\ Places(q, T) \subseteq 1 .. Len(q)
      /\ IsFiniteSet(1 .. Len(q) - 1) /\ Places(r, T) \subseteq 1 .. Len(q) - 1
  <2>1. IsFiniteSet(1 .. Len(q)) /\ IsFiniteSet(1 .. Len(q) - 1)
    BY <1>1, FS_Interval
  <2> QED
    BY <1>2, <2>1 DEF Places
<1>4. IsFiniteSet(Places(q, T)) /\ Cardinality(Places(q, T)) \in Nat
      /\ IsFiniteSet(Places(r, T))
  BY <1>3, FS_Subset, FS_CardinalityType
<1>5. Cardinality(old) = Cardinality(Places(q, T)) - (IF q[i] \in T THEN 1 ELSE 0)
  <2>1. i \in Places(q, T) <=> q[i] \in T
    BY <1>2 DEF Places
  <2>2. Cardinality(old) = IF i \in Places(q, T) THEN Cardinality(Places(q, T)) - 1
                           ELSE Cardinality(Places(q, T))
    BY <1>4, FS_RemoveElement
  <2> HIDE DEF old
  <2> QED
    BY <1>4, <2>1, <2>2
<1>6. f \in [Places(r, T) -> old]
  <2> SUFFICES ASSUME NEW j \in Places(r, T) PROVE f[j] \in old
    OBVIOUS
  <2>1. j \in 1 .. Len(q) - 1 /\ r[j] \in T
    BY <1>2 DEF Places
  <2>2. f[j] \in 1 .. Len(q) /\ f[j] # i /\ q[f[j]] = r[j]
    BY <1>1, <1>2, <2>1
  <2> QED
    BY <1>2, <2>1, <2>2 DEF Places
<1>7. \A a, b \in Places(r, T) : f[a] = f[b] => a = b
  BY <1>1, <1>3
<1>8. ASSUME NEW k \in old PROVE \E j \in Places(r, T) : f[j] = k
  <2>1. k \in 1 .. Len(q) /\ k # i /\ q[k] \in T
    BY <1>2 DEF Places
  <2> DEFINE j == IF k < i THEN k ELSE k - 1
  <2>2. j \in 1 .. Len(q) - 1 /\ (IF j < i THEN j ELSE j + 1) = k
    BY <1>1, <2>1
  <2>3. r[j] = q[k]
    BY <1>1, <2>1, <2>2
  <2>4. j \in Places(r, T)
    BY <1>2, <2>1, <2>2, <2>3 DEF Places
  <2> QED
    BY <2>2, <2>4
<1>9. f \in Bijection(Places(r, T), old)
  BY <1>6, <1>7, <1>8 DEF Bijection, Injection, Surjection, IsInjective
<1>10. ExistsBijection(Places(r, T), old)
  BY <1>9 DEF ExistsBijection
<1> HIDE DEF old, f
<1>11. Cardinality(old) = Cardinality(Places(r, T))
  BY <1>4, <1>10, FS_Bijection
<1> QED
  BY <1>5, <1>11 DEF r

(***************************************************************************)
(* Requests and answers                                                    *)
(***************************************************************************)

RequestSpec == ClientRequestsInit /\ [][ClientRequestsNext]_requestVars

BatchingOp == {"start", "stop", "flush"}
OpsOf(h) == IF h = "gnss" THEN TrackingOp ELSE IF h = "batching" THEN BatchingOp ELSE GeofenceOp

\* The commands that can be under way
Issued == [op : OpsOf(hidl), session : 1..sessionNo, no : 1..clientCalls]
            \cup [op : {"ni"}, session : niAnswered, no : 1..clientCalls]
RequestsOf == [session : Nat, requests : Seq(Request)]

RequestTypes ==
  /\ hidl \in {"gnss", "batching", "geofence"} /\ open \in BOOLEAN /\ mTracking \in BOOLEAN
  /\ mRequestQueues \in [Queue -> RequestsOf]
  /\ sessionNo \in Nat /\ clientCalls \in Nat
  /\ sessionNo <= clientCalls /\ clientCalls <= MaxClientCalls
  /\ commands \in Seq(Issued) /\ unanswered \in Seq(1..sessionNo)
  /\ niAnswered \in SUBSET NiId /\ mislaid \in Nat /\ outOfOrder \in SUBSET Nat
\* An id that is known has a session which leads back to it.
Dictionary ==
  /\ DOMAIN forward \subseteq FenceId \cup {mDefaultId} /\ DOMAIN backward \subseteq 1..sessionNo
  /\ \A id \in DOMAIN forward : forward[id] \in DOMAIN backward /\ backward[forward[id]] = id
\* What each client does with its queues
niQueue == mRequestQueues["ni"]
Sessions ==
  /\ tracking.session <= sessionNo
  /\ hidl # "gnss" => (tracking.session = 0 /\ niQueue.session = 0 /\ niAnswered = {})
  /\ fences.session = 0 \/ (hidl = "geofence" /\ fences.session = GEOFENCE_SESSION_ID)
  /\ hidl = "geofence" /\ open /\ fences.session = 0 => commands = <<>>
  /\ ~open => \A k \in Queue : mRequestQueues[k] = Fresh(0)

\* The commands of session s that a request for tracking waits for
Of(s) == [op : TrackingOp, session : {s}, no : Nat]
TrackingDue(s) == Cardinality(Places(commands, Of(s))) + Cardinality(Places(unanswered, {s}))
Counted ==
  /\ tracking.session \notin niAnswered \cup {0} =>
       Len(tracking.requests) = TrackingDue(tracking.session)
  /\ fences.session = GEOFENCE_SESSION_ID => Len(fences.requests) = Len(commands)
  /\ hidl = "batching" /\ open => Len(batching.requests) = Len(commands) + mislaid
\* Which request each answer will take, and the order of the commands that shows it
Matched ==
  /\ OldestFirst(commands)
  /\ tracking.session \notin niAnswered \cup {0} \cup outOfOrder =>
       Matching(tracking.requests, Waiting(tracking.session))
  /\ fences.session = GEOFENCE_SESSION_ID /\ GEOFENCE_SESSION_ID \notin outOfOrder =>
       Matching(fences.requests, ToSet(commands))
  /\ hidl = "batching" /\ open /\ mislaid = 0 /\ 0 \notin outOfOrder =>
       Matching(batching.requests, ToSet(commands))

RequestInv == RequestTypes /\ Dictionary /\ Sessions /\ Counted /\ Matched
-----------------------------------------------------------------------------
\* A queue of a set is one of any larger set.
LEMMA Wider ==
  ASSUME NEW S, NEW T, S \subseteq T, NEW q \in Seq(S)
  PROVE  q \in Seq(T)
  OBVIOUS

\* A request that is newer than all others may be put behind them.
LEMMA InOrderPushed ==
  ASSUME NEW q \in Seq(Request), NEW c \in Request, OldestFirst(q),
         \A d \in ToSet(q) : d.no < c.no
  PROVE  OldestFirst(Append(q, c)) /\ ToSet(Append(q, c)) = ToSet(q) \cup {c}
<1>1. PICK r : r = Append(q, c)
  OBVIOUS
<1>2. /\ r \in Seq(Request) /\ DOMAIN q = 1..Len(q) /\ Len(q) \in Nat
      /\ DOMAIN r = 1..(Len(q) + 1) /\ r[Len(q) + 1] = c /\ \A i \in 1..Len(q) : r[i] = q[i]
  BY <1>1, PostMessage
<1>3. \A i \in DOMAIN r : i \in DOMAIN q \/ i = Len(q) + 1
  BY <1>2
<1>4. \A i \in DOMAIN q : q[i].no < c.no
  BY DEF ToSet
<1>5. ASSUME NEW i \in DOMAIN r, NEW j \in DOMAIN r, i < j PROVE r[i].no < r[j].no
  <2>1. i \in DOMAIN q
    BY <1>2, <1>3, <1>5
  <2> QED
    BY <1>2, <1>3, <1>4, <1>5, <2>1 DEF OldestFirst
<1>6. ASSUME NEW b
      PROVE  (\E i \in DOMAIN r : r[i] = b) <=> (\E i \in DOMAIN q : q[i] = b) \/ b = c
  <2>1. ASSUME NEW i \in DOMAIN r, r[i] = b PROVE (\E x \in DOMAIN q : q[x] = b) \/ b = c
    BY <1>2, <1>3, <2>1
  <2>2. ASSUME NEW i \in DOMAIN q, q[i] = b PROVE \E x \in DOMAIN r : r[x] = b
    <3>1. i \in DOMAIN r /\ r[i] = b
      BY <1>2, <2>2
    <3> QED
      BY <3>1
  <2>3. Len(q) + 1 \in DOMAIN r /\ r[Len(q) + 1] = c
    BY <1>2
  <2> QED
    BY <2>1, <2>2, <2>3
<1>7. ToSet(r) = ToSet(q) \cup {c}
  BY <1>6 DEF ToSet
<1>8. OldestFirst(r)
  BY <1>5 DEF OldestFirst
<1> QED
  BY <1>1, <1>7, <1>8

\* The oldest request is the first, and the others stay in order behind it.
LEMMA InOrderPopped ==
  ASSUME NEW q \in Seq(Request), OldestFirst(q), NEW c \in ToSet(q),
         \A d \in ToSet(q) \ {c} : c.no < d.no
  PROVE  /\ q # <<>> /\ Head(q) = c
         /\ OldestFirst(Tail(q)) /\ ToSet(Tail(q)) = ToSet(q) \ {c}
<1>1. PICK k \in DOMAIN q : q[k] = c
  BY DEF ToSet
<1>2. /\ DOMAIN q = 1..Len(q) /\ Len(q) \in Nat /\ q # <<>> /\ Head(q) = q[1]
      /\ \A i \in DOMAIN q : q[i] \in Request /\ q[i] \in ToSet(q)
      /\ 1 \in DOMAIN q /\ k \in Nat
  <2>1. /\ DOMAIN q = 1..Len(q) /\ Len(q) \in Nat /\ q # <<>> /\ Head(q) = q[1]
        /\ \A i \in DOMAIN q : q[i] \in Request
    BY <1>1
  <2>2. \A i \in DOMAIN q : q[i] \in ToSet(q)
    BY DEF ToSet
  <2> QED
    BY <1>1, <2>1, <2>2
<1>3. \A i \in DOMAIN q : q[i].no \in Nat
  BY <1>2 DEF Request
<1>4. k = 1
  <2> SUFFICES ASSUME k # 1 PROVE FALSE
    OBVIOUS
  <2>1. 1 < k
    BY <1>1, <1>2
  <2>2. q[1].no < q[k].no
    BY <1>1, <1>2, <2>1 DEF OldestFirst
  <2>3. q[1] \in ToSet(q) \ {c}
    BY <1>1, <1>2, <1>3, <2>2
  <2>4. q[k].no < q[1].no
    BY <1>1, <2>3
  <2> QED
    BY <1>1, <1>2, <1>3, <2>2, <2>4
<1>5. PICK r : r = Tail(q)
  OBVIOUS
<1>6. /\ DOMAIN r = 1..(Len(q) - 1)
      /\ \A j \in DOMAIN r : j \in Nat /\ j + 1 \in DOMAIN q /\ r[j] = q[j + 1]
  BY <1>2, <1>5
<1>7. \A i, j \in DOMAIN r : i < j => r[i].no < r[j].no
  BY <1>6 DEF OldestFirst
<1>8. ASSUME NEW b
      PROVE  (\E j \in DOMAIN r : r[j] = b) <=> (\E i \in DOMAIN q : q[i] = b) /\ b # c
  <2>1. ASSUME NEW j \in DOMAIN r, r[j] = b PROVE (\E i \in DOMAIN q : q[i] = b) /\ b # c
    <3>1. j + 1 \in DOMAIN q /\ q[j + 1] = b /\ 1 < j + 1
      BY <1>6, <2>1
    <3>2. q[1].no < q[j + 1].no
      BY <1>2, <3>1 DEF OldestFirst
    <3> QED
      BY <1>1, <1>2, <1>3, <1>4, <3>1, <3>2
  <2>2. ASSUME NEW i \in DOMAIN q, q[i] = b, b # c PROVE \E j \in DOMAIN r : r[j] = b
    <3>1. i # 1
      BY <1>1, <1>4, <2>2
    <3>2. i - 1 \in DOMAIN r /\ r[i - 1] = b
      BY <1>2, <1>6, <2>2, <3>1
    <3> QED
      BY <3>2
  <2> QED
    BY <2>1, <2>2
<1>9. ToSet(r) = ToSet(q) \ {c}
  BY <1>8 DEF ToSet
<1>10. OldestFirst(r)
  BY <1>7 DEF OldestFirst
<1> QED
  BY <1>1, <1>2, <1>4, <1>5, <1>9, <1>10

\* One that is taken out from anywhere leaves the others in order.
LEMMA InOrderTaken ==
  ASSUME NEW q \in Seq(Request), OldestFirst(q), NEW i \in DOMAIN q
  PROVE  OldestFirst(RemoveAt(q, i)) /\ ToSet(RemoveAt(q, i)) = ToSet(q) \ {q[i]}
<1>1. PICK r : r = RemoveAt(q, i)
  OBVIOUS
<1>2. DOMAIN q = 1..Len(q) /\ Len(q) \in Nat /\ i \in 1..Len(q)
      /\ \A j \in DOMAIN q : q[j].no \in Nat
  <2>1. DOMAIN q = 1..Len(q) /\ Len(q) \in Nat /\ \A j \in DOMAIN q : q[j] \in Request
    OBVIOUS
  <2> QED
    BY <2>1 DEF Request
<1>3. /\ r \in Seq(Request) /\ Len(r) = Len(q) - 1
      /\ \A j \in 1..Len(r) : r[j] = IF j < i THEN q[j] ELSE q[j + 1]
  BY <1>1, <1>2, TakeOut
<1>4. DOMAIN r = 1..(Len(q) - 1)
  BY <1>3
<1>5. \A x, y \in DOMAIN q : x < y => q[x].no < q[y].no
  BY DEF OldestFirst
<1> DEFINE old(j) == IF j < i THEN j ELSE j + 1
           new(j) == IF j < i THEN j ELSE j - 1
<1>6. ASSUME NEW j \in DOMAIN r PROVE old(j) \in DOMAIN q /\ old(j) # i /\ r[j] = q[old(j)]
  BY <1>2, <1>3, <1>4
<1>7. ASSUME NEW j \in DOMAIN q, j # i PROVE new(j) \in DOMAIN r /\ old(new(j)) = j
  BY <1>2, <1>4, <1>7
<1>8. \A x, y \in DOMAIN r : x < y => old(x) < old(y)
  BY <1>2, <1>4
<1> HIDE DEF old, new
<1>9. \A x, y \in DOMAIN r : x < y => r[x].no < r[y].no
  BY <1>5, <1>6, <1>8
<1>10. \A x \in DOMAIN q : x # i => q[x] # q[i]
  BY <1>2, <1>5
<1>11. \A b : (\E j \in DOMAIN r : r[j] = b) <=> (\E j \in DOMAIN q : q[j] = b) /\ b # q[i]
  BY <1>6, <1>7, <1>10
<1>12. ToSet(r) = ToSet(q) \ {q[i]}
  BY <1>11 DEF ToSet
<1>13. OldestFirst(r)
  BY <1>9 DEF OldestFirst
<1> QED
  BY <1>1, <1>12, <1>13

\* Nothing waits, and nothing is waited for.
LEMMA EmptyMatches == Matching(<<>>, {}) /\ ToSet(<<>>) = {} /\ OldestFirst(<<>>)
  BY DEF Matching, OldestFirst, ToSet

\* No call was made: the queues and the dictionary are empty.
LEMMA RequestInitInv == ClientRequestsInit => RequestInv
<1> SUFFICES ASSUME ClientRequestsInit PROVE RequestInv
  OBVIOUS
<1>0. MaxClientCalls \in Nat
  BY RequestsAssumption
<1>1. \A k \in Queue : mRequestQueues[k] = [session |-> 0, requests |-> <<>>]
  BY DEF ClientRequestsInit
<1>2. [session |-> 0, requests |-> <<>>] \in RequestsOf
  BY DEF RequestsOf
<1>3. RequestTypes
  <2>1. mRequestQueues \in [Queue -> RequestsOf]
    BY <1>2 DEF ClientRequestsInit
  <2>2. open \in BOOLEAN /\ mTracking \in BOOLEAN
    BY DEF ClientRequestsInit
  <2>3. commands \in Seq(Issued) /\ unanswered \in Seq(1..sessionNo)
    BY DEF ClientRequestsInit
  <2>4. /\ hidl \in {"gnss", "batching", "geofence"} /\ niAnswered \in SUBSET NiId
        /\ sessionNo \in Nat /\ clientCalls \in Nat
        /\ sessionNo <= clientCalls /\ clientCalls <= MaxClientCalls
        /\ mislaid \in Nat /\ outOfOrder \in SUBSET Nat
    BY <1>0 DEF ClientRequestsInit
  <2> QED
    BY <2>1, <2>2, <2>3, <2>4 DEF RequestTypes
<1>4. Dictionary
  BY DEF ClientRequestsInit, Dictionary
<1>5. tracking.session = 0 /\ fences.session = 0 /\ niQueue.session = 0
      /\ batching.requests = <<>>
  BY <1>1 DEF tracking, fences, niQueue, batching, Queue
<1>6. Sessions
  BY <1>5 DEF ClientRequestsInit, Sessions
<1>7. GEOFENCE_SESSION_ID # 0
  BY <1>0 DEF GEOFENCE_SESSION_ID
<1>8. commands = <<>> /\ mislaid = 0
  BY DEF ClientRequestsInit
<1>9. Counted
  BY <1>5, <1>7, <1>8 DEF Counted
<1>10. Matched
  BY <1>5, <1>7, <1>8, EmptyMatches DEF Matched
<1> QED
  BY <1>3, <1>4, <1>6, <1>9, <1>10 DEF RequestInv

\* A request that is pushed is the last of its queue.
LEMMA PushedType ==
  ASSUME NEW q \in RequestsOf, NEW c \in Request
  PROVE  /\ Pushed(q, c) \in RequestsOf /\ Pushed(q, c).session = q.session
         /\ Pushed(q, c).requests = Append(q.requests, c)
         /\ Len(Pushed(q, c).requests) = Len(q.requests) + 1
<1>1. q.requests \in Seq(Request) /\ q.session \in Nat
  BY DEF RequestsOf
<1>2. /\ Append(q.requests, c) \in Seq(Request)
      /\ Len(Append(q.requests, c)) = Len(q.requests) + 1
  BY <1>1, PostMessage
<1>3. Pushed(q, c) = [session |-> q.session, requests |-> Append(q.requests, c)]
  <2> DEFINE r == Append(q.requests, c)
  <2>1. Pushed(q, c) = [q EXCEPT !.requests = r]
    BY DEF Pushed
  <2> HIDE DEF r
  <2>2. [q EXCEPT !.requests = r] = [session |-> q.session, requests |-> r]
    BY DEF RequestsOf
  <2> QED
    BY <2>1, <2>2 DEF r
<1> QED
  BY <1>1, <1>2, <1>3 DEF RequestsOf

\* A queue that is reset has no request.
LEMMA FreshType ==
  ASSUME NEW s \in Nat
  PROVE  Fresh(s) \in RequestsOf /\ Fresh(s).session = s /\ Fresh(s).requests = <<>>
  BY DEF Fresh, RequestsOf

\* A call of the framework that sends op for session s and pushes it on queue k
CallOf(k, q, op, s) ==
  /\ open /\ clientCalls < MaxClientCalls /\ clientCalls' = clientCalls + 1
  /\ UNCHANGED <<hidl, open, answered>>
  /\ sessionNo' \in {sessionNo, sessionNo + 1}
  /\ Send(k, q, op, s)
  /\ niAnswered \subseteq niAnswered'

\* Every command is a request, and of a number that was given out.
LEMMA IssuedRequests ==
  ASSUME RequestTypes
  PROVE  /\ Issued \subseteq Request /\ \A c \in Issued : c.no <= clientCalls
         /\ commands \in Seq(Request) /\ \A c \in ToSet(commands) : c \in Issued
<1>1. OpsOf(hidl) \subseteq RequestOp /\ "ni" \in RequestOp
  BY DEF OpsOf, RequestOp, TrackingOp, BatchingOp
<1>2. 1..sessionNo \subseteq Nat /\ niAnswered \subseteq Nat /\ 1..clientCalls \subseteq Nat
      /\ \A n \in 1..clientCalls : n <= clientCalls
  BY RequestsAssumption DEF RequestTypes
<1>3. Issued \subseteq Request
  BY <1>1, <1>2 DEF Issued, Request
<1>4. \A c \in Issued : c.no <= clientCalls
  BY <1>2 DEF Issued
<1>5. commands \in Seq(Issued)
  BY DEF RequestTypes
<1>6. PICK S : S = Issued
  OBVIOUS
<1>7. commands \in Seq(S) /\ S \subseteq Request
  BY <1>3, <1>5, <1>6
<1>8. commands \in Seq(Request) /\ \A c \in ToSet(commands) : c \in S
  BY <1>7, Wider DEF ToSet
<1> QED
  BY <1>3, <1>4, <1>6, <1>8

\* A call has a number.
LEMMA CallNumber ==
  ASSUME RequestTypes, clientCalls' = clientCalls + 1
  PROVE  clientCalls + 1 \in 1..clientCalls'
  BY DEF RequestTypes

\* Such a call keeps the types, and changes no other queue.
LEMMA CallTypes ==
  ASSUME RequestInv, NEW k \in Queue, NEW q \in RequestsOf, NEW op \in RequestOp,
         NEW s \in Nat, CallOf(k, q, op, s),
         Command(op, s) \in Issued', niAnswered' \in SUBSET NiId, mTracking' \in BOOLEAN
  PROVE  /\ RequestTypes' /\ Command(op, s) \in Request
         /\ mRequestQueues'[k] = Pushed(q, Command(op, s))
         /\ mRequestQueues'[k].session = q.session
         /\ Len(mRequestQueues'[k].requests) = Len(q.requests) + 1
         /\ \A j \in Queue \ {k} : mRequestQueues'[j] = mRequestQueues[j]
<1>1. RequestTypes /\ MaxClientCalls \in Nat
  BY RequestsAssumption DEF RequestInv
<1>2. PICK c : c = Command(op, s)
  OBVIOUS
<1>3. c \in Request
  BY <1>1, <1>2 DEF Command, Request, RequestTypes
<1>4. /\ Pushed(q, c) \in RequestsOf /\ Pushed(q, c).session = q.session
      /\ Len(Pushed(q, c).requests) = Len(q.requests) + 1
  BY <1>3, PushedType
<1>5. mRequestQueues' = [mRequestQueues EXCEPT ![k] = Pushed(q, c)]
      /\ commands' = Append(commands, c)
  BY <1>2 DEF CallOf, Send, WithQueue
<1>6. mRequestQueues' \in [Queue -> RequestsOf]
  BY <1>1, <1>4, <1>5 DEF RequestTypes
<1>7. sessionNo' \in Nat /\ sessionNo <= sessionNo' /\ clientCalls' \in Nat
      /\ clientCalls <= clientCalls'
      /\ sessionNo' <= clientCalls' /\ clientCalls' <= MaxClientCalls
  BY <1>1 DEF CallOf, RequestTypes
<1>8. Issued \subseteq Issued' /\ 1..sessionNo \subseteq 1..sessionNo'
  <2>1. 1..sessionNo \subseteq 1..sessionNo' /\ 1..clientCalls \subseteq 1..clientCalls'
    BY <1>1, <1>7 DEF RequestTypes
  <2> QED
    BY <2>1 DEF CallOf, Issued
<1>9. commands \in Seq(Issued')
  BY <1>1, <1>8, Wider DEF RequestTypes
<1>10. commands' \in Seq(Issued')
  BY <1>2, <1>5, <1>9, PostMessage
<1>11. unanswered \in Seq(1..sessionNo') /\ UNCHANGED <<hidl, open, answered>>
  BY <1>1, <1>8, Wider DEF RequestTypes, CallOf
<1>12. RequestTypes'
  BY <1>1, <1>6, <1>7, <1>10, <1>11 DEF RequestTypes, answered
<1> QED
  BY <1>1, <1>2, <1>3, <1>4, <1>5, <1>12 DEF RequestTypes

\* What it adds to the requests that wait for an answer
LEMMA CallCounts ==
  ASSUME RequestInv, NEW k \in Queue, NEW q \in RequestsOf, NEW op \in RequestOp,
         NEW s \in Nat, CallOf(k, q, op, s), NEW t
  PROVE  /\ Len(commands') = Len(commands) + 1 /\ Len(commands) \in Nat
         /\ TrackingDue(t) \in Nat
         /\ TrackingDue(t)' = TrackingDue(t) + (IF t = s /\ op \in TrackingOp THEN 1 ELSE 0)
<1>1. RequestTypes
  BY DEF RequestInv
<1> DEFINE c == Command(op, s)
<1>2. c \in Request /\ commands \in Seq(Request) /\ commands' = Append(commands, c)
      /\ unanswered' = unanswered /\ unanswered \in Seq(1..sessionNo)
  <2>1. c \in Request
    BY <1>1 DEF Command, Request, RequestTypes
  <2> QED
    BY <1>1, <2>1, IssuedRequests DEF CallOf, Send, RequestTypes, answered
<1>3. c \in Of(t) <=> t = s /\ op \in TrackingOp
  BY <1>1 DEF Command, Of, RequestTypes
<1> HIDE DEF c
<1>4. Len(commands') = Len(commands) + 1 /\ Len(commands) \in Nat
  BY <1>2, PostMessage
<1>5. /\ Cardinality(Places(commands, Of(t))) \in Nat
      /\ Cardinality(Places(commands', Of(t)))
           = Cardinality(Places(commands, Of(t))) + (IF c \in Of(t) THEN 1 ELSE 0)
  BY <1>2, PlacesPosted, PlacesNumber
<1>6. Cardinality(Places(unanswered, {t})) \in Nat
  BY <1>2, PlacesNumber
<1>7. TrackingDue(t)' = Cardinality(Places(commands', Of(t)))
                          + Cardinality(Places(unanswered, {t}))
  BY <1>2 DEF TrackingDue, Of
<1> QED
  BY <1>3, <1>4, <1>5, <1>6, <1>7 DEF TrackingDue

\* The new command is the last, and its request goes behind those it is pushed on.
LEMMA CallMatches ==
  ASSUME RequestInv, NEW k \in Queue, NEW q \in RequestsOf, NEW op \in RequestOp,
         NEW s \in Nat, CallOf(k, q, op, s),
         mRequestQueues'[k] = Pushed(q, Command(op, s))
  PROVE  LET c == Command(op, s) IN
         /\ OldestFirst(commands)' /\ ToSet(commands)' = ToSet(commands) \cup {c}
         /\ \A t : Waiting(t)' = Waiting(t) \cup IF t = s /\ op \in TrackingOp THEN {c} ELSE {}
         /\ \A t : Waiting(t) \subseteq ToSet(commands)
         /\ \A S \in SUBSET ToSet(commands) :
              Matching(q.requests, S) => Matching(mRequestQueues'[k].requests, S \cup {c})
<1>1. RequestTypes /\ OldestFirst(commands)
  BY DEF RequestInv, Matched
<1>2. PICK c : c = Command(op, s)
  OBVIOUS
<1>3. c \in Request /\ c.no = clientCalls + 1 /\ c.session = s /\ c.op = op
  BY <1>1, <1>2 DEF Command, Request, RequestTypes
<1>4. /\ commands \in Seq(Request) /\ commands' = Append(commands, c)
      /\ \A d \in ToSet(commands) : d.no < c.no
  <2>1. commands \in Seq(Request) /\ \A d \in ToSet(commands) : d \in Request /\ d.no <= clientCalls
    BY <1>1, IssuedRequests
  <2>2. \A d \in Request : d.no \in Nat
    BY DEF Request
  <2>3. commands' = Append(commands, c)
    BY <1>2 DEF CallOf, Send
  <2> QED
    BY <1>1, <1>3, <2>1, <2>2, <2>3 DEF RequestTypes
<1>5. OldestFirst(commands)' /\ ToSet(commands)' = ToSet(commands) \cup {c}
  <2>1. OldestFirst(Append(commands, c)) /\ ToSet(Append(commands, c)) = ToSet(commands) \cup {c}
    BY <1>1, <1>3, <1>4, InOrderPushed
  <2> QED
    BY <1>4, <2>1 DEF OldestFirst
<1>6. ASSUME NEW t
      PROVE  /\ Waiting(t)' = Waiting(t) \cup IF t = s /\ op \in TrackingOp THEN {c} ELSE {}
             /\ Waiting(t) \subseteq ToSet(commands)
  BY <1>3, <1>5 DEF Waiting
<1>7. ASSUME NEW S \in SUBSET ToSet(commands), Matching(q.requests, S)
      PROVE  Matching(mRequestQueues'[k].requests, S \cup {c})
  <2>1. mRequestQueues'[k].requests = Append(q.requests, c) /\ q.requests \in Seq(Request)
    BY <1>2, <1>3, PushedType DEF RequestsOf
  <2>2. OldestFirst(q.requests) /\ ToSet(q.requests) = S
    BY <1>7 DEF Matching
  <2>3. OldestFirst(Append(q.requests, c)) /\ ToSet(Append(q.requests, c)) = S \cup {c}
    <3>1. \A d \in ToSet(q.requests) : d.no < c.no
      BY <1>4, <2>2
    <3> QED
      BY <1>3, <2>1, <2>2, <3>1, InOrderPushed
  <2> QED
    BY <2>1, <2>3 DEF Matching
<1> QED
  BY <1>2, <1>5, <1>6, <1>7

\* The same, of a queue that holds the requests of all commands
LEMMA CallMatchesAll ==
  ASSUME RequestInv, NEW k \in Queue, NEW q \in RequestsOf, NEW op \in RequestOp,
         NEW s \in Nat, CallOf(k, q, op, s),
         mRequestQueues'[k] = Pushed(q, Command(op, s))
  PROVE  /\ OldestFirst(commands)'
         /\ Matching(q.requests, ToSet(commands))
              => Matching(mRequestQueues'[k].requests, ToSet(commands)')
<1>1. PICK c : c = Command(op, s)
  OBVIOUS
<1>2. /\ OldestFirst(commands)' /\ ToSet(commands)' = ToSet(commands) \cup {c}
      /\ \A S \in SUBSET ToSet(commands) :
           Matching(q.requests, S) => Matching(mRequestQueues'[k].requests, S \cup {c})
  BY <1>1, CallMatches
<1> QED
  BY <1>2
-----------------------------------------------------------------------------
(* GnssAPIClient *)

\* No command has a number that was not given out yet.
LEMMA NewSessionUnused ==
  ASSUME RequestInv, NEW s \in Nat, s > sessionNo
  PROVE  TrackingDue(s) = 0 /\ Waiting(s) = {}
<1>1. RequestTypes /\ sessionNo \in Nat
  BY DEF RequestInv, RequestTypes
<1>2. \A i \in DOMAIN commands : commands[i] \in Issued
  BY <1>1 DEF RequestTypes
<1>3. \A i \in DOMAIN unanswered : unanswered[i] \in 1..sessionNo
  BY <1>1 DEF RequestTypes
<1>4. ASSUME NEW c \in Issued PROVE c \notin Of(s)
  <2>1. CASE c \in [op : OpsOf(hidl), session : 1..sessionNo, no : 1..clientCalls]
    BY <1>1, <2>1 DEF Of
  <2>2. CASE c \in [op : {"ni"}, session : niAnswered, no : 1..clientCalls]
    BY <2>2 DEF Of, TrackingOp
  <2> QED
    BY <2>1, <2>2 DEF Issued
<1>5. Places(commands, Of(s)) = {}
  BY <1>2, <1>4 DEF Places
<1>6. Places(unanswered, {s}) = {}
  BY <1>1, <1>3 DEF Places
<1>7. Waiting(s) = {}
  <2>1. \A c \in ToSet(commands) : c \in Issued /\ c \in Request
    BY <1>1, IssuedRequests
  <2>2. \A c \in Request : c.session = s /\ c.op \in TrackingOp => c \in Of(s)
    BY DEF Request, Of
  <2> QED
    BY <1>4, <2>1, <2>2 DEF Waiting
<1> QED
  BY <1>5, <1>6, <1>7, FS_EmptySet DEF TrackingDue

\* The first call for a session starts its queue anew.
LEMMA StartTrackingInv == RequestInv /\ StartTracking => RequestInv'
<1> SUFFICES ASSUME RequestInv, StartTracking PROVE RequestInv'
  OBVIOUS
<1>0. PICK s : s = sessionNo + 1
  OBVIOUS
<1>1. RequestTypes /\ Dictionary /\ Sessions
  BY DEF RequestInv
<1>2. s \in Nat /\ s > sessionNo /\ s # 0 /\ s \in 1..s
  BY <1>0, <1>1 DEF RequestTypes
<1>3. /\ CallOf("tracking", Fresh(s), "start", s) /\ hidl = "gnss" /\ open
      /\ sessionNo' = s /\ hidl' = hidl /\ open' = open /\ niAnswered' = niAnswered
      /\ mTracking' = TRUE /\ UNCHANGED dict
  BY <1>0 DEF StartTracking, Calls, NewSession, CallOf
<1>4. "tracking" \in Queue /\ "geofence" \in Queue /\ "start" \in RequestOp
      /\ "start" \in TrackingOp
  BY DEF Queue, RequestOp, TrackingOp
<1>5. Command("start", s) \in Issued'
  <2>1. clientCalls + 1 \in 1..clientCalls'
    BY <1>1, <1>3, CallNumber DEF CallOf
  <2> QED
    BY <1>2, <1>3, <1>4, <2>1 DEF Command, Issued, OpsOf
<1>6. Fresh(s) \in RequestsOf
  BY <1>2, FreshType
<1>7. /\ RequestTypes'
      /\ mRequestQueues'["tracking"] = Pushed(Fresh(s), Command("start", s))
      /\ mRequestQueues'["tracking"].session = s
      /\ Len(mRequestQueues'["tracking"].requests) = 1
      /\ \A j \in Queue \ {"tracking"} : mRequestQueues'[j] = mRequestQueues[j]
  <2>1. Fresh(s).session = s /\ Len(Fresh(s).requests) = 0
    BY <1>2, FreshType
  <2>2. niAnswered' \in SUBSET NiId /\ mTracking' \in BOOLEAN
    BY <1>1, <1>3 DEF RequestTypes
  <2>3. /\ RequestTypes'
        /\ mRequestQueues'["tracking"] = Pushed(Fresh(s), Command("start", s))
        /\ mRequestQueues'["tracking"].session = Fresh(s).session
        /\ Len(mRequestQueues'["tracking"].requests) = Len(Fresh(s).requests) + 1
        /\ \A j \in Queue \ {"tracking"} : mRequestQueues'[j] = mRequestQueues[j]
    BY <1>2, <1>3, <1>4, <1>5, <1>6, <2>2, CallTypes
  <2> QED
    BY <2>1, <2>3
<1>8. tracking'.session = s /\ Len(tracking'.requests) = 1 /\ fences' = fences
  BY <1>4, <1>7 DEF tracking, fences
<1>9. fences.session = 0 /\ GEOFENCE_SESSION_ID # 0
  BY <1>1, <1>3, RequestsAssumption DEF Sessions, GEOFENCE_SESSION_ID
<1>10. Sessions'
  BY <1>2, <1>3, <1>8, <1>9 DEF Sessions
<1>11. Dictionary'
  BY <1>1, <1>2, <1>3 DEF Dictionary, dict, RequestTypes
<1>12. TrackingDue(s)' = 1
  <2>1. TrackingDue(s) = 0
    BY <1>2, NewSessionUnused
  <2> QED
    BY <1>2, <1>3, <1>4, <1>6, <2>1, CallCounts
<1>13. Counted'
  BY <1>3, <1>8, <1>9, <1>12 DEF Counted, GEOFENCE_SESSION_ID
<1>14. OldestFirst(commands)' /\ Matching(mRequestQueues'["tracking"].requests, Waiting(s)')
  <2>1. Matching(Fresh(s).requests, {}) /\ Waiting(s) = {}
    BY <1>2, FreshType, EmptyMatches, NewSessionUnused
  <2>2. PICK c : c = Command("start", s)
    OBVIOUS
  <2>3. /\ OldestFirst(commands)' /\ Waiting(s)' = Waiting(s) \cup {c}
        /\ \A S \in SUBSET ToSet(commands) :
             Matching(Fresh(s).requests, S)
               => Matching(mRequestQueues'["tracking"].requests, S \cup {c})
    BY <1>2, <1>3, <1>4, <1>6, <1>7, <2>2, CallMatches
  <2> QED
    BY <2>1, <2>3
<1>15. Matched'
  BY <1>3, <1>8, <1>9, <1>14 DEF Matched, Matching, OldestFirst, tracking, GEOFENCE_SESSION_ID
<1> QED
  BY <1>7, <1>10, <1>11, <1>13, <1>15 DEF RequestInv

\* A stop or an update pushes a request on the session's queue.
LEMMA OnTrackingInv ==
  ASSUME RequestInv, NEW op \in {"stop", "update"}, OnTracking(op)
  PROVE  RequestInv'
<1>0. PICK s : s = tracking.session
  OBVIOUS
<1>1. RequestTypes /\ Dictionary /\ Sessions /\ Counted /\ Matched
  BY DEF RequestInv
<1>2. "tracking" \in Queue /\ "geofence" \in Queue /\ op \in RequestOp /\ op \in TrackingOp
  BY DEF Queue, RequestOp, TrackingOp
<1>3. tracking \in RequestsOf
  BY <1>1, <1>2 DEF RequestTypes, tracking
<1>4. s \in Nat /\ s \in 1..sessionNo
  BY <1>0, <1>1, <1>3 DEF OnTracking, RequestsOf, Sessions, RequestTypes
<1>5. /\ CallOf("tracking", tracking, op, s) /\ hidl = "gnss" /\ open
      /\ sessionNo' = sessionNo /\ hidl' = hidl /\ open' = open /\ niAnswered' = niAnswered
      /\ mTracking' \in BOOLEAN /\ UNCHANGED dict
  BY <1>0 DEF OnTracking, Calls, CallOf
<1>6. Command(op, s) \in Issued'
  <2>1. clientCalls + 1 \in 1..clientCalls'
    BY <1>1, <1>5, CallNumber DEF CallOf
  <2> QED
    BY <1>2, <1>4, <1>5, <2>1 DEF Command, Issued, OpsOf
<1>7. /\ RequestTypes'
      /\ mRequestQueues'["tracking"] = Pushed(tracking, Command(op, s))
      /\ mRequestQueues'["tracking"].session = s
      /\ Len(mRequestQueues'["tracking"].requests) = Len(tracking.requests) + 1
      /\ \A j \in Queue \ {"tracking"} : mRequestQueues'[j] = mRequestQueues[j]
  <2>1. niAnswered' \in SUBSET NiId
    BY <1>1, <1>5 DEF RequestTypes
  <2> QED
    BY <1>0, <1>2, <1>3, <1>4, <1>5, <1>6, <2>1, CallTypes
<1>8. tracking'.session = s /\ Len(tracking'.requests) = Len(tracking.requests) + 1
      /\ fences' = fences
  BY <1>2, <1>7 DEF tracking, fences
<1>9. fences.session = 0 /\ GEOFENCE_SESSION_ID # 0
  BY <1>1, <1>5, RequestsAssumption DEF Sessions, GEOFENCE_SESSION_ID
<1>10. Sessions'
  BY <1>0, <1>1, <1>5, <1>8, <1>9 DEF Sessions
<1>11. Dictionary'
  BY <1>1, <1>5 DEF Dictionary, dict
<1>12. TrackingDue(s)' = TrackingDue(s) + 1
  BY <1>2, <1>3, <1>4, <1>5, CallCounts
<1>13. Counted'
  BY <1>0, <1>1, <1>5, <1>8, <1>9, <1>12 DEF Counted, GEOFENCE_SESSION_ID
<1>14. /\ OldestFirst(commands)'
       /\ Matching(tracking.requests, Waiting(s))
            => Matching(mRequestQueues'["tracking"].requests, Waiting(s)')
  <2>1. PICK c : c = Command(op, s)
    OBVIOUS
  <2>2. /\ OldestFirst(commands)' /\ Waiting(s)' = Waiting(s) \cup {c}
        /\ Waiting(s) \subseteq ToSet(commands)
        /\ \A S \in SUBSET ToSet(commands) :
             Matching(tracking.requests, S)
               => Matching(mRequestQueues'["tracking"].requests, S \cup {c})
    BY <1>2, <1>3, <1>4, <1>5, <1>7, <2>1, CallMatches
  <2> QED
    BY <2>2
<1>15. outOfOrder' = outOfOrder
  BY <1>5 DEF CallOf, answered
<1>16. Matched'
  <2>1. ASSUME s \notin niAnswered \cup {0} \cup outOfOrder
        PROVE  Matching(tracking'.requests, Waiting(s)')
    BY <1>0, <1>1, <1>14, <2>1 DEF Matched, tracking
  <2> QED
    BY <1>5, <1>8, <1>9, <1>14, <1>15, <2>1 DEF Matched, Matching, OldestFirst, GEOFENCE_SESSION_ID
<1> QED
  BY <1>7, <1>10, <1>11, <1>13, <1>16 DEF RequestInv

\* A response to the network has a queue of its own.
LEMMA NiResponseInv ==
  ASSUME RequestInv, NEW id \in NiId, NiResponse(id)
  PROVE  RequestInv'
<1>0. PICK t : t = tracking.session
  OBVIOUS
<1>1. RequestTypes /\ Dictionary /\ Sessions /\ Counted /\ Matched /\ id \in Nat
  BY RequestsAssumption DEF RequestInv
<1>2. "tracking" \in Queue /\ "geofence" \in Queue /\ "ni" \in Queue /\ "ni" \in RequestOp
      /\ "ni" \notin TrackingOp
  BY DEF Queue, RequestOp, TrackingOp
<1>3. Fresh(id) \in RequestsOf /\ tracking \in RequestsOf
  BY <1>1, <1>2, FreshType DEF RequestTypes, tracking
<1>4. /\ CallOf("ni", Fresh(id), "ni", id) /\ hidl = "gnss" /\ open
      /\ sessionNo' = sessionNo /\ hidl' = hidl /\ open' = open
      /\ niAnswered' = niAnswered \cup {id} /\ mTracking' = mTracking /\ UNCHANGED dict
  BY <1>1 DEF NiResponse, Calls, CallOf, RequestTypes
<1>5. Command("ni", id) \in Issued'
  <2>1. clientCalls + 1 \in 1..clientCalls'
    BY <1>1, <1>4, CallNumber DEF CallOf
  <2> QED
    BY <1>4, <2>1 DEF Command, Issued
<1>6. niAnswered' \in SUBSET NiId /\ mTracking' \in BOOLEAN
  BY <1>1, <1>4 DEF RequestTypes
<1>7. /\ RequestTypes'
      /\ mRequestQueues'["ni"] = Pushed(Fresh(id), Command("ni", id))
      /\ \A j \in Queue \ {"ni"} : mRequestQueues'[j] = mRequestQueues[j]
  BY <1>1, <1>2, <1>3, <1>4, <1>5, <1>6, CallTypes
<1>8. tracking' = tracking /\ fences' = fences
  BY <1>2, <1>7 DEF tracking, fences
<1>9. fences.session = 0 /\ GEOFENCE_SESSION_ID # 0
  BY <1>1, <1>4, RequestsAssumption DEF Sessions, GEOFENCE_SESSION_ID
<1>10. Sessions'
  BY <1>1, <1>4, <1>8, <1>9 DEF Sessions
<1>11. Dictionary'
  BY <1>1, <1>4 DEF Dictionary, dict
<1>12. TrackingDue(t)' = TrackingDue(t)
  <2>1. TrackingDue(t) \in Nat
        /\ TrackingDue(t)' = TrackingDue(t) + (IF t = id /\ "ni" \in TrackingOp THEN 1 ELSE 0)
    BY <1>1, <1>2, <1>3, <1>4, CallCounts
  <2> QED
    BY <1>2, <2>1
<1>13. Counted'
  BY <1>0, <1>1, <1>4, <1>8, <1>9, <1>12 DEF Counted, GEOFENCE_SESSION_ID
<1>14. OldestFirst(commands)' /\ Waiting(t)' = Waiting(t)
  <2>1. PICK c : c = Command("ni", id)
    OBVIOUS
  <2>2. OldestFirst(commands)'
        /\ Waiting(t)' = Waiting(t) \cup IF t = id /\ "ni" \in TrackingOp THEN {c} ELSE {}
    BY <1>1, <1>2, <1>3, <1>4, <1>7, <2>1, CallMatches
  <2> QED
    BY <1>2, <2>2
<1>15. outOfOrder' = outOfOrder
  BY <1>4 DEF CallOf, answered
<1>16. Matched'
  BY <1>0, <1>1, <1>4, <1>8, <1>9, <1>14, <1>15 DEF Matched, Matching, OldestFirst,
     GEOFENCE_SESSION_ID
<1> QED
  BY <1>7, <1>10, <1>11, <1>13, <1>16 DEF RequestInv
-----------------------------------------------------------------------------
(* BatchingAPIClient and GeofenceAPIClient *)

\* A new session is entered under its id, in both maps.
LEMMA DictAdded ==
  ASSUME Dictionary, sessionNo \in Nat, NEW id \in FenceId \cup {mDefaultId},
         NEW s, s = sessionNo + 1, sessionNo' = s, DictSet(id, s)
  PROVE  Dictionary'
<1>1. /\ forward' = [z \in DOMAIN forward \cup {id} |-> IF z = id THEN s ELSE forward[z]]
      /\ backward' = [z \in DOMAIN backward \cup {s} |-> IF z = s THEN id ELSE backward[z]]
  BY DEF DictSet, SetIn
<1>2. s \notin DOMAIN backward /\ DOMAIN backward' \subseteq 1..s
      /\ DOMAIN forward' \subseteq FenceId \cup {mDefaultId}
  BY <1>1 DEF Dictionary
<1>3. ASSUME NEW z \in DOMAIN forward'
      PROVE  forward'[z] \in DOMAIN backward' /\ backward'[forward'[z]] = z
  <2>1. CASE z = id
    BY <1>1, <2>1
  <2>2. CASE z # id
    BY <1>1, <1>2, <1>3, <2>2 DEF Dictionary
  <2> QED
    BY <2>1, <2>2
<1> QED
  BY <1>2, <1>3 DEF Dictionary

\* A session that is removed is gone from both.
LEMMA DictRemoved ==
  ASSUME Dictionary, sessionNo' = sessionNo, NEW s \in DOMAIN backward, DictRemove(s)
  PROVE  Dictionary'
<1>1. /\ forward' = [z \in DOMAIN forward \ {backward[s]} |-> forward[z]]
      /\ backward' = [z \in DOMAIN backward \ {s} |-> backward[z]]
  BY DEF DictRemove, Without, Restrict
<1>2. ASSUME NEW z \in DOMAIN forward'
      PROVE  forward'[z] \in DOMAIN backward' /\ backward'[forward'[z]] = z
  BY <1>1, <1>2 DEF Dictionary
<1> QED
  BY <1>1, <1>2 DEF Dictionary

\* A batching session is entered in the dictionary when it is started.
LEMMA StartBatchInv == RequestInv /\ StartBatchSession => RequestInv'
<1> SUFFICES ASSUME RequestInv, StartBatchSession PROVE RequestInv'
  OBVIOUS
<1>0. PICK s : s = sessionNo + 1
  OBVIOUS
<1>1. RequestTypes /\ Dictionary /\ Sessions /\ Counted /\ Matched
  BY DEF RequestInv
<1>2. s \in Nat /\ s \in 1..s /\ s > sessionNo
  BY <1>0, <1>1 DEF RequestTypes
<1>3. {"tracking", "geofence", "session", "ni"} \subseteq Queue /\ "start" \in RequestOp
      /\ "start" \in BatchingOp
  BY DEF Queue, RequestOp, BatchingOp
<1>4. PICK q : q = [batching EXCEPT !.session = s]
  OBVIOUS
<1>5. q \in RequestsOf /\ q.requests = batching.requests
  <2>1. batching \in RequestsOf
    BY <1>1, <1>3 DEF RequestTypes, batching
  <2> QED
    BY <1>2, <1>4, <2>1 DEF RequestsOf
<1>6. /\ CallOf("session", q, "start", s) /\ hidl = "batching" /\ open
      /\ sessionNo' = s /\ hidl' = hidl /\ open' = open /\ niAnswered' = niAnswered
      /\ mTracking' = mTracking /\ DictSet(mDefaultId, s)
  BY <1>0, <1>4 DEF StartBatchSession, Calls, NewSession, CallOf
<1>7. Command("start", s) \in Issued'
  <2>1. clientCalls + 1 \in 1..clientCalls'
    BY <1>1, <1>6, CallNumber DEF CallOf
  <2> QED
    BY <1>2, <1>3, <1>6, <2>1 DEF Command, Issued, OpsOf
<1>8. niAnswered' \in SUBSET NiId /\ mTracking' \in BOOLEAN
  BY <1>1, <1>6 DEF RequestTypes
<1>9. /\ RequestTypes'
      /\ mRequestQueues'["session"] = Pushed(q, Command("start", s))
      /\ Len(mRequestQueues'["session"].requests) = Len(q.requests) + 1
      /\ \A j \in Queue \ {"session"} : mRequestQueues'[j] = mRequestQueues[j]
  BY <1>2, <1>3, <1>5, <1>6, <1>7, <1>8, CallTypes
<1>10. /\ tracking' = tracking /\ fences' = fences /\ niQueue' = niQueue
       /\ batching' = mRequestQueues'["session"]
  BY <1>3, <1>9 DEF tracking, fences, niQueue, batching
<1>11. tracking.session = 0 /\ fences.session = 0 /\ GEOFENCE_SESSION_ID # 0
  BY <1>1, <1>6, RequestsAssumption DEF Sessions, GEOFENCE_SESSION_ID
<1>12. Sessions'
  BY <1>1, <1>2, <1>6, <1>10, <1>11 DEF Sessions
<1>13. Dictionary'
  BY <1>0, <1>1, <1>6, DictAdded DEF RequestTypes
<1>14. Len(batching'.requests) = Len(commands') + mislaid'
  <2>1. Len(commands') = Len(commands) + 1 /\ Len(commands) \in Nat
    BY <1>2, <1>3, <1>5, <1>6, CallCounts
  <2>2. Len(batching.requests) = Len(commands) + mislaid
    BY <1>1, <1>6 DEF Counted
  <2>3. mislaid' = mislaid /\ mislaid \in Nat
    BY <1>1, <1>6 DEF CallOf, answered, RequestTypes
  <2>4. Len(batching'.requests) = Len(batching.requests) + 1
    BY <1>5, <1>9, <1>10
  <2> QED
    BY <2>1, <2>2, <2>3, <2>4
<1>15. Counted'
  BY <1>10, <1>11, <1>14 DEF Counted, GEOFENCE_SESSION_ID
<1>16. /\ OldestFirst(commands)'
       /\ Matching(batching.requests, ToSet(commands))
            => Matching(batching'.requests, ToSet(commands)')
  <2>1. /\ OldestFirst(commands)'
        /\ Matching(q.requests, ToSet(commands))
             => Matching(mRequestQueues'["session"].requests, ToSet(commands)')
    BY <1>2, <1>3, <1>5, <1>6, <1>9, CallMatchesAll
  <2> QED
    BY <1>5, <1>10, <2>1
<1>17. Matched'
  <2>1. UNCHANGED <<mislaid, outOfOrder>>
    BY <1>6 DEF CallOf, answered
  <2>2. ASSUME mislaid = 0, 0 \notin outOfOrder
        PROVE  Matching(batching'.requests, ToSet(commands)')
    BY <1>1, <1>6, <1>16, <2>2 DEF Matched
  <2> QED
    BY <1>6, <1>10, <1>11, <1>16, <2>1, <2>2 DEF Matched, Matching, OldestFirst, GEOFENCE_SESSION_ID
<1> QED
  BY <1>9, <1>12, <1>13, <1>15, <1>17 DEF RequestInv

\* A stop or a flush leaves the entry until it is answered.
LEMMA OnSessionInv ==
  ASSUME RequestInv, NEW op \in {"stop", "flush"}, OnSession(op)
  PROVE  RequestInv'
<1>0. PICK s : s = forward[mDefaultId]
  OBVIOUS
<1>1. RequestTypes /\ Dictionary /\ Sessions /\ Counted /\ Matched
  BY DEF RequestInv
<1>2. s \in 1..sessionNo /\ s \in Nat
  BY <1>0, <1>1 DEF OnSession, Dictionary, RequestTypes
<1>3. {"tracking", "geofence", "session", "ni"} \subseteq Queue /\ op \in RequestOp
      /\ op \in BatchingOp
  BY DEF Queue, RequestOp, BatchingOp
<1>5. batching \in RequestsOf
  BY <1>1, <1>3 DEF RequestTypes, batching
<1>6. /\ CallOf("session", batching, op, s) /\ hidl = "batching" /\ open
      /\ sessionNo' = sessionNo /\ hidl' = hidl /\ open' = open /\ niAnswered' = niAnswered
      /\ mTracking' = mTracking /\ UNCHANGED dict
  BY <1>0 DEF OnSession, Calls, CallOf
<1>7. Command(op, s) \in Issued'
  <2>1. clientCalls + 1 \in 1..clientCalls'
    BY <1>1, <1>6, CallNumber DEF CallOf
  <2> QED
    BY <1>2, <1>3, <1>6, <2>1 DEF Command, Issued, OpsOf
<1>8. niAnswered' \in SUBSET NiId /\ mTracking' \in BOOLEAN
  BY <1>1, <1>6 DEF RequestTypes
<1>9. /\ RequestTypes'
      /\ mRequestQueues'["session"] = Pushed(batching, Command(op, s))
      /\ Len(mRequestQueues'["session"].requests) = Len(batching.requests) + 1
      /\ \A j \in Queue \ {"session"} : mRequestQueues'[j] = mRequestQueues[j]
  BY <1>2, <1>3, <1>5, <1>6, <1>7, <1>8, CallTypes
<1>10. /\ tracking' = tracking /\ fences' = fences /\ niQueue' = niQueue
       /\ batching' = mRequestQueues'["session"]
  BY <1>3, <1>9 DEF tracking, fences, niQueue, batching
<1>11. tracking.session = 0 /\ fences.session = 0 /\ GEOFENCE_SESSION_ID # 0
  BY <1>1, <1>6, RequestsAssumption DEF Sessions, GEOFENCE_SESSION_ID
<1>12. Sessions'
  BY <1>1, <1>2, <1>6, <1>10, <1>11 DEF Sessions
<1>13. Dictionary'
  BY <1>1, <1>6 DEF Dictionary, dict
<1>14. Len(batching'.requests) = Len(commands') + mislaid'
  <2>1. Len(commands') = Len(commands) + 1 /\ Len(commands) \in Nat
    BY <1>2, <1>3, <1>5, <1>6, CallCounts
  <2>2. Len(batching.requests) = Len(commands) + mislaid
    BY <1>1, <1>6 DEF Counted
  <2>3. mislaid' = mislaid /\ mislaid \in Nat
    BY <1>1, <1>6 DEF CallOf, answered, RequestTypes
  <2>4. Len(batching'.requests) = Len(batching.requests) + 1
    BY <1>5, <1>9, <1>10
  <2> QED
    BY <2>1, <2>2, <2>3, <2>4
<1>15. Counted'
  BY <1>10, <1>11, <1>14 DEF Counted, GEOFENCE_SESSION_ID
<1>16. /\ OldestFirst(commands)'
       /\ Matching(batching.requests, ToSet(commands))
            => Matching(batching'.requests, ToSet(commands)')
  <2>1. /\ OldestFirst(commands)'
        /\ Matching(batching.requests, ToSet(commands))
             => Matching(mRequestQueues'["session"].requests, ToSet(commands)')
    BY <1>2, <1>3, <1>5, <1>6, <1>9, CallMatchesAll
  <2> QED
    BY <1>5, <1>10, <2>1
<1>17. Matched'
  <2>1. UNCHANGED <<mislaid, outOfOrder>>
    BY <1>6 DEF CallOf, answered
  <2>2. ASSUME mislaid = 0, 0 \notin outOfOrder
        PROVE  Matching(batching'.requests, ToSet(commands)')
    BY <1>1, <1>6, <1>16, <2>2 DEF Matched
  <2> QED
    BY <1>6, <1>10, <1>11, <1>16, <2>1, <2>2 DEF Matched, Matching, OldestFirst, GEOFENCE_SESSION_ID
<1> QED
  BY <1>9, <1>12, <1>13, <1>15, <1>17 DEF RequestInv

\* A fence that is added is entered under the caller's id.
LEMMA AddGeofenceInv ==
  ASSUME RequestInv, NEW f \in FenceId, AddGeofence(f)
  PROVE  RequestInv'
<1>0. PICK s : s = sessionNo + 1
  OBVIOUS
<1>1. RequestTypes /\ Dictionary /\ Sessions /\ Counted /\ Matched
  BY DEF RequestInv
<1>2. s \in Nat /\ s \in 1..s /\ s > sessionNo
      /\ GEOFENCE_SESSION_ID \in Nat /\ GEOFENCE_SESSION_ID # 0
  BY <1>0, <1>1, RequestsAssumption DEF RequestTypes, GEOFENCE_SESSION_ID
<1>3. {"tracking", "geofence", "ni"} \subseteq Queue /\ "add" \in RequestOp /\ "add" \in GeofenceOp
  BY DEF Queue, RequestOp, GeofenceOp
<1>4. PICK q : q = IF fences.session = GEOFENCE_SESSION_ID THEN fences
                   ELSE Fresh(GEOFENCE_SESSION_ID)
  OBVIOUS
<1>5. fences \in RequestsOf /\ Fresh(GEOFENCE_SESSION_ID) \in RequestsOf
  BY <1>1, <1>2, <1>3, FreshType DEF RequestTypes, fences
<1>6. /\ CallOf("geofence", q, "add", s) /\ hidl = "geofence" /\ open
      /\ sessionNo' = s /\ hidl' = hidl /\ open' = open /\ niAnswered' = niAnswered
      /\ mTracking' = mTracking /\ DictSet(f, s)
  BY <1>0, <1>4 DEF AddGeofence, Calls, NewSession, CallOf
<1>7. /\ q \in RequestsOf /\ q.session = GEOFENCE_SESSION_ID /\ Len(q.requests) = Len(commands)
      /\ GEOFENCE_SESSION_ID \notin outOfOrder => Matching(q.requests, ToSet(commands))
  <2>1. CASE fences.session = GEOFENCE_SESSION_ID
    BY <1>1, <1>4, <1>5, <2>1 DEF Counted, Matched
  <2>2. CASE fences.session # GEOFENCE_SESSION_ID
    <3>1. commands = <<>> /\ q = Fresh(GEOFENCE_SESSION_ID)
      BY <1>1, <1>4, <1>6, <2>2 DEF Sessions
    <3>2. q.requests = <<>> /\ q.session = GEOFENCE_SESSION_ID
      BY <1>2, <3>1, FreshType
    <3> QED
      BY <1>5, <3>1, <3>2, EmptyMatches
  <2> QED
    BY <2>1, <2>2
<1>8. Command("add", s) \in Issued'
  <2>1. clientCalls + 1 \in 1..clientCalls'
    BY <1>1, <1>6, CallNumber DEF CallOf
  <2> QED
    BY <1>2, <1>3, <1>6, <2>1 DEF Command, Issued, OpsOf
<1>9. niAnswered' \in SUBSET NiId /\ mTracking' \in BOOLEAN
  BY <1>1, <1>6 DEF RequestTypes
<1>10. /\ RequestTypes' /\ mRequestQueues'["geofence"] = Pushed(q, Command("add", s))
       /\ mRequestQueues'["geofence"].session = q.session
       /\ Len(mRequestQueues'["geofence"].requests) = Len(q.requests) + 1
       /\ \A j \in Queue \ {"geofence"} : mRequestQueues'[j] = mRequestQueues[j]
  BY <1>2, <1>3, <1>6, <1>7, <1>8, <1>9, CallTypes
<1>11. /\ tracking' = tracking /\ niQueue' = niQueue
       /\ fences' = mRequestQueues'["geofence"]
  BY <1>3, <1>10 DEF tracking, fences, niQueue
<1>12. fences'.session = GEOFENCE_SESSION_ID /\ Len(fences'.requests) = Len(q.requests) + 1
  BY <1>7, <1>10, <1>11
<1>13. Len(commands') = Len(commands) + 1 /\ Len(commands) \in Nat
  BY <1>2, <1>3, <1>6, <1>7, CallCounts
<1>14. Sessions'
  BY <1>1, <1>2, <1>6, <1>11, <1>12 DEF Sessions, GEOFENCE_SESSION_ID
<1>15. Dictionary'
  BY <1>0, <1>1, <1>6, DictAdded DEF RequestTypes
<1>16. Counted'
  BY <1>1, <1>6, <1>7, <1>11, <1>12, <1>13 DEF Counted, Sessions
<1>17. /\ OldestFirst(commands)'
       /\ Matching(q.requests, ToSet(commands)) => Matching(fences'.requests, ToSet(commands)')
  <2>1. /\ OldestFirst(commands)'
        /\ Matching(q.requests, ToSet(commands))
             => Matching(mRequestQueues'["geofence"].requests, ToSet(commands)')
    BY <1>2, <1>3, <1>6, <1>7, <1>10, CallMatchesAll
  <2> QED
    BY <1>11, <2>1
<1>18. Matched'
  <2>1. UNCHANGED outOfOrder
    BY <1>6 DEF CallOf, answered
  <2>2. tracking'.session = 0
    BY <1>1, <1>6, <1>11 DEF Sessions
  <2> QED
    BY <1>6, <1>7, <1>17, <2>1, <2>2 DEF Matched, Matching, OldestFirst, GEOFENCE_SESSION_ID
<1> QED
  BY <1>10, <1>14, <1>15, <1>16, <1>18 DEF RequestInv

\* The calls on a fence that is known count in the collective queue.
LEMMA OnGeofenceInv ==
  ASSUME RequestInv, NEW f \in FenceId, NEW op \in GeofenceOp \ {"add"}, OnGeofence(f, op)
  PROVE  RequestInv'
<1>0. PICK s : s = forward[f]
  OBVIOUS
<1>1. RequestTypes /\ Dictionary /\ Sessions /\ Counted /\ Matched
  BY DEF RequestInv
<1>2. {"tracking", "geofence", "ni"} \subseteq Queue /\ op \in RequestOp
  BY DEF Queue, RequestOp
<1>3. s \in 1..sessionNo /\ s \in DOMAIN backward /\ s \in Nat
  BY <1>0, <1>1 DEF OnGeofence, Dictionary, RequestTypes
<1>4. fences \in RequestsOf /\ fences.session = GEOFENCE_SESSION_ID
  BY <1>1, <1>2 DEF RequestTypes, fences, OnGeofence
<1>5. /\ CallOf("geofence", fences, op, s) /\ hidl = "geofence" /\ open
      /\ sessionNo' = sessionNo /\ hidl' = hidl /\ open' = open /\ niAnswered' = niAnswered
      /\ mTracking' = mTracking /\ (DictRemove(s) \/ UNCHANGED dict)
  BY <1>0 DEF OnGeofence, Calls, CallOf
<1>6. Command(op, s) \in Issued'
  <2>1. clientCalls + 1 \in 1..clientCalls'
    BY <1>1, <1>5, CallNumber DEF CallOf
  <2> QED
    BY <1>2, <1>3, <1>5, <2>1 DEF Command, Issued, OpsOf
<1>7. niAnswered' \in SUBSET NiId /\ mTracking' \in BOOLEAN
  BY <1>1, <1>5 DEF RequestTypes
<1>8. /\ RequestTypes' /\ mRequestQueues'["geofence"] = Pushed(fences, Command(op, s))
      /\ mRequestQueues'["geofence"].session = fences.session
      /\ Len(mRequestQueues'["geofence"].requests) = Len(fences.requests) + 1
      /\ \A j \in Queue \ {"geofence"} : mRequestQueues'[j] = mRequestQueues[j]
  BY <1>2, <1>3, <1>4, <1>5, <1>6, <1>7, CallTypes
<1>9. /\ tracking' = tracking /\ niQueue' = niQueue
      /\ fences' = mRequestQueues'["geofence"]
  BY <1>2, <1>8 DEF tracking, fences, niQueue
<1>10. fences'.session = GEOFENCE_SESSION_ID /\ Len(fences'.requests) = Len(fences.requests) + 1
  BY <1>4, <1>8, <1>9
<1>11. Len(commands') = Len(commands) + 1 /\ Len(commands) \in Nat
  BY <1>2, <1>3, <1>4, <1>5, CallCounts
<1>12. GEOFENCE_SESSION_ID # 0
  BY RequestsAssumption DEF GEOFENCE_SESSION_ID
<1>13. Sessions'
  BY <1>1, <1>5, <1>9, <1>10, <1>12 DEF Sessions, GEOFENCE_SESSION_ID
<1>14. Dictionary'
  BY <1>1, <1>3, <1>5, DictRemoved DEF Dictionary, dict
<1>15. Counted'
  BY <1>1, <1>4, <1>5, <1>9, <1>10, <1>11 DEF Counted, Sessions
<1>16. /\ OldestFirst(commands)'
       /\ Matching(fences.requests, ToSet(commands))
            => Matching(fences'.requests, ToSet(commands)')
  <2>1. /\ OldestFirst(commands)'
        /\ Matching(fences.requests, ToSet(commands))
             => Matching(mRequestQueues'["geofence"].requests, ToSet(commands)')
    BY <1>2, <1>3, <1>4, <1>5, <1>8, CallMatchesAll
  <2> QED
    BY <1>9, <2>1
<1>17. Matched'
  <2>1. UNCHANGED outOfOrder
    BY <1>5 DEF CallOf, answered
  <2>2. tracking'.session = 0
    BY <1>1, <1>5, <1>9 DEF Sessions
  <2>3. ASSUME GEOFENCE_SESSION_ID \notin outOfOrder
        PROVE  Matching(fences'.requests, ToSet(commands)')
    BY <1>1, <1>4, <1>16, <2>3 DEF Matched
  <2> QED
    BY <1>5, <1>16, <2>1, <2>2, <2>3 DEF Matched, Matching, OldestFirst, GEOFENCE_SESSION_ID
<1> QED
  BY <1>8, <1>13, <1>14, <1>15, <1>17 DEF RequestInv
-----------------------------------------------------------------------------
(* The end, and the answers *)

\* A client that is destroyed empties its queues.
LEMMA DestroyClientInv == RequestInv /\ DestroyClient => RequestInv'
<1> SUFFICES ASSUME RequestInv, DestroyClient PROVE RequestInv'
  OBVIOUS
<1>1. RequestTypes /\ Dictionary /\ Sessions /\ Matched
  BY DEF RequestInv
<1>2. {"tracking", "geofence", "ni"} \subseteq Queue
  BY DEF Queue
<1>3. \A k \in Queue : mRequestQueues'[k] = Fresh(0)
  BY DEF DestroyClient
<1>4. mRequestQueues' \in [Queue -> RequestsOf]
  BY FreshType DEF DestroyClient
<1>5. Issued' = Issued /\ commands' = commands /\ unanswered' = unanswered /\ open' = FALSE
  <2>1. /\ UNCHANGED <<hidl, sessionNo, niAnswered, clientCalls, commands, answered>>
        /\ open' = FALSE
    BY DEF DestroyClient
  <2> QED
    BY <2>1 DEF Issued, answered
<1>6. RequestTypes'
  BY <1>1, <1>4, <1>5 DEF DestroyClient, RequestTypes, answered
<1>7. tracking'.session = 0 /\ fences'.session = 0 /\ niQueue'.session = 0
  BY <1>2, <1>3, FreshType DEF tracking, fences, niQueue
<1>8. GEOFENCE_SESSION_ID # 0
  BY RequestsAssumption DEF GEOFENCE_SESSION_ID
<1>9. Sessions'
  BY <1>1, <1>3, <1>5, <1>7 DEF DestroyClient, Sessions, RequestTypes
<1>10. Dictionary'
  BY <1>1 DEF DestroyClient, Dictionary, dict
<1>11. Counted'
  BY <1>5, <1>7, <1>8 DEF Counted, GEOFENCE_SESSION_ID
<1>12. Matched'
  BY <1>1, <1>5, <1>7, <1>8 DEF Matched, OldestFirst, GEOFENCE_SESSION_ID
<1> QED
  BY <1>6, <1>9, <1>10, <1>11, <1>12 DEF RequestInv

\* A command that an adapter has dealt with no longer counts.
LEMMA RetiredCounts ==
  ASSUME RequestTypes, NEW i \in DOMAIN commands, Retired(i),
         UNCHANGED <<hidl, sessionNo, niAnswered, clientCalls>>, NEW t
  PROVE  /\ commands' \in Seq(Issued') /\ commands[i] \in Issued /\ commands[i] \in Request
         /\ Len(commands') = Len(commands) - 1 /\ Len(commands) \in Nat /\ Len(commands) >= 1
         /\ Cardinality(Places(commands, Of(t))) \in Nat
         /\ Cardinality(Places(commands', Of(t)))
              = Cardinality(Places(commands, Of(t))) - (IF commands[i] \in Of(t) THEN 1 ELSE 0)
         /\ commands[i] \in Of(t) => Cardinality(Places(commands, Of(t))) > 0
<1>1. commands \in Seq(Issued) /\ Issued' = Issued /\ commands' = RemoveAt(commands, i)
  BY DEF RequestTypes, Retired, Issued
<1> DEFINE S == Issued
<1> HIDE DEF S
<1>2. commands \in Seq(S)
  BY <1>1 DEF S
<1>3. i \in 1 .. Len(commands) /\ Len(commands) \in Nat /\ commands[i] \in S
  BY <1>2
<1>4. RemoveAt(commands, i) \in Seq(S) /\ Len(RemoveAt(commands, i)) = Len(commands) - 1
  BY <1>2, <1>3, TakeOut
<1>5. Cardinality(Places(RemoveAt(commands, i), Of(t)))
        = Cardinality(Places(commands, Of(t))) - (IF commands[i] \in Of(t) THEN 1 ELSE 0)
  BY <1>2, <1>3, PlacesLeft
<1>6. IsFiniteSet(Places(commands, Of(t))) /\ Cardinality(Places(commands, Of(t))) \in Nat
  BY <1>2, PlacesNumber
<1>7. commands[i] \in Of(t) => Cardinality(Places(commands, Of(t))) > 0
  <2>1. commands[i] \in Of(t) => Places(commands, Of(t)) # {}
    BY DEF Places
  <2> QED
    BY <1>6, <2>1, FS_EmptySet
<1>8. commands[i] \in Request
  BY IssuedRequests
<1> QED
  BY <1>1, <1>3, <1>4, <1>5, <1>6, <1>7, <1>8 DEF S

\* The commands that are left stay in order, and one that was not overtaken was the
\* oldest of those that share its key.
LEMMA RetiredOrder ==
  ASSUME RequestTypes, OldestFirst(commands), NEW i \in DOMAIN commands, Retired(i)
  PROVE  /\ OldestFirst(commands)' /\ ToSet(commands)' = ToSet(commands) \ {commands[i]}
         /\ commands[i] \in ToSet(commands)
         /\ \A t : Waiting(t)' = Waiting(t) \ {commands[i]}
         /\ ~Overtakes(i) =>
              \A d \in ToSet(commands) \ {commands[i]} :
                QueueKey(d) = QueueKey(commands[i]) => commands[i].no < d.no
<1>1. commands \in Seq(Request) /\ commands' = RemoveAt(commands, i)
  BY IssuedRequests DEF Retired
<1>2. PICK r : r = RemoveAt(commands, i)
  OBVIOUS
<1>3. OldestFirst(r) /\ ToSet(r) = ToSet(commands) \ {commands[i]}
  BY <1>1, <1>2, InOrderTaken
<1>4. OldestFirst(commands)' /\ ToSet(commands)' = ToSet(commands) \ {commands[i]}
  BY <1>1, <1>2, <1>3 DEF OldestFirst
<1>5. \A t : Waiting(t)' = Waiting(t) \ {commands[i]}
  BY <1>4 DEF Waiting
<1>6. ASSUME ~Overtakes(i), NEW d \in ToSet(commands) \ {commands[i]},
             QueueKey(d) = QueueKey(commands[i])
      PROVE  commands[i].no < d.no
  <2>1. PICK j \in DOMAIN commands : commands[j] = d
    BY <1>6 DEF ToSet
  <2>2. i \in Nat /\ j \in Nat /\ j >= 1 /\ i # j
    BY <1>1, <1>6, <2>1
  <2>3. ~(j < i)
    BY <1>6, <2>1, <2>2 DEF Overtakes
  <2> QED
    BY <2>1, <2>2, <2>3 DEF OldestFirst
<1>7. commands[i] \in ToSet(commands)
  BY DEF ToSet
<1> QED
  BY <1>4, <1>5, <1>6, <1>7

\* The adapter drops a command: what it was waits for an answer for ever.
LEMMA NoAnswerInv ==
  ASSUME RequestInv, NEW i \in DOMAIN commands, NoAnswer(i)
  PROVE  RequestInv'
<1>0. PICK s : s = commands[i].session
  OBVIOUS
<1>1. RequestTypes /\ Dictionary /\ Sessions /\ Counted /\ Matched
  BY DEF RequestInv
<1>2. /\ Retired(i) /\ commands[i].op \in TrackingOp /\ hidl = "gnss"
      /\ unanswered' = Append(unanswered, s) /\ OutOfOrder(i)
      /\ UNCHANGED <<hidl, open, mTracking, mRequestQueues, dict, sessionNo, mislaid,
                     niAnswered, clientCalls>>
  BY <1>0 DEF NoAnswer, TrackingOp
<1>3. PICK t : t = tracking.session
  OBVIOUS
<1>4. /\ commands' \in Seq(Issued') /\ commands[i] \in Issued
      /\ Cardinality(Places(commands, Of(t))) \in Nat
      /\ Cardinality(Places(commands', Of(t)))
           = Cardinality(Places(commands, Of(t))) - (IF commands[i] \in Of(t) THEN 1 ELSE 0)
  BY <1>1, <1>2, RetiredCounts
<1>5. commands[i] \in [op : OpsOf(hidl), session : 1..sessionNo, no : 1..clientCalls]
  BY <1>2, <1>4 DEF Issued, TrackingOp
<1>6. s \in 1..sessionNo /\ s \in Nat /\ (commands[i] \in Of(t) <=> s = t)
  BY <1>0, <1>1, <1>2, <1>5 DEF Of, RequestTypes
<1>7. unanswered \in Seq(1..sessionNo) /\ unanswered' \in Seq(1..sessionNo)
  BY <1>1, <1>2, <1>6, PostMessage DEF RequestTypes
<1>8. /\ Cardinality(Places(unanswered, {t})) \in Nat
      /\ Cardinality(Places(unanswered', {t}))
           = Cardinality(Places(unanswered, {t})) + (IF s = t THEN 1 ELSE 0)
  <2>1. Cardinality(Places(Append(unanswered, s), {t}))
          = Cardinality(Places(unanswered, {t})) + (IF s \in {t} THEN 1 ELSE 0)
    <3>1. PICK N : unanswered \in Seq(N) /\ s \in N
      BY <1>6, <1>7
    <3> QED
      BY <3>1, PlacesPosted
  <2> QED
    BY <1>2, <1>7, <2>1, PlacesNumber
<1>9. TrackingDue(t)' = TrackingDue(t)
  BY <1>4, <1>6, <1>8 DEF TrackingDue, Of
<1>10. outOfOrder' = outOfOrder \cup {s}
  BY <1>0, <1>2 DEF OutOfOrder, QueueKey
<1>16. RequestTypes'
  BY <1>1, <1>2, <1>4, <1>6, <1>7, <1>10 DEF RequestTypes
<1>11. Dictionary'
  BY <1>1, <1>2 DEF Dictionary, dict
<1>12. tracking' = tracking /\ fences' = fences /\ niQueue' = niQueue
  BY <1>2 DEF tracking, fences, niQueue
<1>13. Sessions'
  BY <1>1, <1>2, <1>12 DEF Sessions
<1>14. fences.session # GEOFENCE_SESSION_ID
  BY <1>1, <1>2, RequestsAssumption DEF Sessions, GEOFENCE_SESSION_ID
<1>15. Counted'
  BY <1>1, <1>2, <1>3, <1>9, <1>12, <1>14 DEF Counted, GEOFENCE_SESSION_ID
<1>17. Matched'
  <2>1. OldestFirst(commands)' /\ Waiting(t)' = Waiting(t) \ {commands[i]}
    BY <1>1, <1>2, RetiredOrder DEF Matched
  <2>2. s # t => Waiting(t)' = Waiting(t)
    BY <1>0, <2>1 DEF Waiting
  <2> QED
    BY <1>1, <1>2, <1>3, <1>10, <1>12, <1>14, <2>1, <2>2
       DEF Matched, Matching, OldestFirst, GEOFENCE_SESSION_ID
<1> QED
  BY <1>11, <1>13, <1>15, <1>16, <1>17 DEF RequestInv

\* What is left of a queue when its first request is taken
AfterPop(q) == [q EXCEPT !.requests = IF @ = <<>> THEN @ ELSE Tail(@)]

\* It keeps its session and its type.
LEMMA PoppedType ==
  ASSUME NEW q \in RequestsOf
  PROVE  /\ AfterPop(q) \in RequestsOf /\ AfterPop(q).session = q.session
         /\ q.requests # <<>> => /\ AfterPop(q).requests = Tail(q.requests)
                                 /\ Len(AfterPop(q).requests) = Len(q.requests) - 1
         /\ q = Fresh(0) => AfterPop(q) = Fresh(0)
<1>1. q.requests \in Seq(Request) /\ q.session \in Nat
      /\ q = [session |-> q.session, requests |-> q.requests]
  BY DEF RequestsOf
<1>2. PICK r : r = IF q.requests = <<>> THEN q.requests ELSE Tail(q.requests)
  OBVIOUS
<1>3. r \in Seq(Request) /\ (q.requests # <<>> => Len(r) = Len(q.requests) - 1)
  BY <1>1, <1>2
<1>4. AfterPop(q) = [session |-> q.session, requests |-> r]
  <2>1. AfterPop(q) = [q EXCEPT !.requests = r]
    BY <1>2, Zenon DEF AfterPop
  <2>2. [q EXCEPT !.requests = r] = [session |-> q.session, requests |-> r]
    BY <1>1
  <2> QED
    BY <2>1, <2>2, Zenon
<1>5. q = Fresh(0) => r = <<>> /\ q.session = 0
  BY <1>2 DEF Fresh
<1> QED
  BY <1>1, <1>2, <1>3, <1>4, <1>5 DEF RequestsOf, Fresh

\* The answer of the oldest of the commands whose requests are in a queue takes the
\* request of that command.
LEMMA OldestAnswered ==
  ASSUME RequestTypes, OldestFirst(commands), NEW i \in DOMAIN commands, Retired(i),
         ~Overtakes(i), NEW S \in SUBSET ToSet(commands), commands[i] \in S,
         \A d \in S : QueueKey(d) = QueueKey(commands[i]),
         NEW q \in RequestsOf, Matching(q.requests, S)
  PROVE  q.requests # <<>> /\ Matching(AfterPop(q).requests, S \ {commands[i]})
<1>1. PICK c : c = commands[i]
  OBVIOUS
<1>2. /\ q.requests \in Seq(Request) /\ OldestFirst(q.requests) /\ ToSet(q.requests) = S
      /\ c \in ToSet(q.requests)
  BY <1>1 DEF RequestsOf, Matching
<1>3. \A d \in ToSet(q.requests) \ {c} : c.no < d.no
  BY <1>1, <1>2, RetiredOrder
<1>4. /\ q.requests # <<>> /\ OldestFirst(Tail(q.requests))
      /\ ToSet(Tail(q.requests)) = ToSet(q.requests) \ {c}
  BY <1>2, <1>3, InOrderPopped
<1>5. AfterPop(q).requests = Tail(q.requests)
  BY <1>4, PoppedType
<1> QED
  BY <1>1, <1>2, <1>4, <1>5 DEF Matching

\* An answer takes a request of the session it names, if there is one: another
\* session's are left alone.
LEMMA ResponseQueues ==
  ASSUME RequestTypes, NEW s, NEW ok, OnResponse(s, ok)
  PROVE  /\ mRequestQueues' \in [Queue -> RequestsOf]
         /\ tracking'.session = tracking.session /\ fences' = fences
         /\ niQueue'.session = niQueue.session
         /\ s = tracking.session /\ tracking.requests # <<>> => tracking' = AfterPop(tracking)
         /\ s # tracking.session => tracking' = tracking
         /\ s \notin {tracking.session, niQueue.session} =>
              batching' = IF s \in DOMAIN backward THEN AfterPop(batching) ELSE batching
         /\ (\A k \in Queue : mRequestQueues[k] = Fresh(0)) =>
              \A k \in Queue : mRequestQueues'[k] = Fresh(0)
<1>1. mRequestQueues \in [Queue -> RequestsOf]
  BY DEF RequestTypes
<1>2. {"tracking", "geofence", "ni", "session"} \subseteq Queue
  BY DEF Queue
<1>3. PICK k : k = QueueOf(s)
  OBVIOUS
<1>4. /\ k \in {"tracking", "ni", "session"}
      /\ k = "tracking" <=> tracking.session = s /\ tracking.requests # <<>>
      /\ s \notin {tracking.session, niQueue.session} => k = "session"
  BY <1>3 DEF QueueOf, niQueue
<1>5. /\ Popped(k) \/ (k = "session" /\ s \notin DOMAIN backward /\ UNCHANGED mRequestQueues)
      /\ k = "session" /\ s \notin DOMAIN backward => UNCHANGED mRequestQueues
  BY <1>3, <1>4 DEF OnResponse
<1>6. CASE k = "session" /\ s \notin DOMAIN backward /\ UNCHANGED mRequestQueues
  BY <1>1, <1>4, <1>6 DEF tracking, fences, niQueue, batching
<1>7. CASE Popped(k) /\ ~(k = "session" /\ s \notin DOMAIN backward)
  <2>1. mRequestQueues' = [mRequestQueues EXCEPT ![k] = AfterPop(mRequestQueues[k])]
    BY <1>7 DEF Popped, WithQueue, AfterPop
  <2>2. k \in Queue /\ mRequestQueues[k] \in RequestsOf
    BY <1>1, <1>2, <1>4
  <2>3. AfterPop(mRequestQueues[k]) \in RequestsOf
        /\ AfterPop(mRequestQueues[k]).session = mRequestQueues[k].session
    BY <2>2, PoppedType
  <2>4. mRequestQueues' \in [Queue -> RequestsOf]
    BY <1>1, <2>1, <2>3
  <2>5. /\ mRequestQueues'[k] = AfterPop(mRequestQueues[k])
        /\ \A j \in Queue \ {k} : mRequestQueues'[j] = mRequestQueues[j]
    BY <1>1, <2>1, <2>2
  <2>6. fences' = fences
    BY <1>2, <1>4, <2>5 DEF fences
  <2>7. k # "tracking" => tracking' = tracking
    BY <1>2, <2>5 DEF tracking
  <2>8. k = "tracking" => tracking'.session = tracking.session /\ tracking' = AfterPop(tracking)
    BY <2>3, <2>5 DEF tracking
  <2>9. (\A j \in Queue : mRequestQueues[j] = Fresh(0)) =>
          \A j \in Queue : mRequestQueues'[j] = Fresh(0)
    BY <2>2, <2>5, PoppedType
  <2>10. niQueue'.session = niQueue.session
    BY <1>2, <2>3, <2>5 DEF niQueue
  <2>11. k = "session" => s \in DOMAIN backward /\ batching' = AfterPop(batching)
    BY <1>7, <2>5 DEF batching
  <2> QED
    BY <1>4, <2>4, <2>6, <2>7, <2>8, <2>9, <2>10, <2>11
<1> QED
  BY <1>5, <1>6, <1>7

\* An answer about a session takes the request of that session.
LEMMA OnResponseInv ==
  ASSUME RequestInv, NEW i \in DOMAIN commands, NEW ok \in BOOLEAN, Answer(i, ok),
         commands[i].op \notin GeofenceOp
  PROVE  RequestInv'
<1>0. PICK c : c = commands[i]
  OBVIOUS
<1>1. RequestTypes /\ Dictionary /\ Sessions /\ Counted /\ Matched
  BY DEF RequestInv
<1>2. /\ Retired(i) /\ OnResponse(c.session, ok)
      /\ IF Overtakes(i) THEN OutOfOrder(i) ELSE UNCHANGED outOfOrder
      /\ mislaid' = mislaid + (IF Mislays(i) THEN 1 ELSE 0)
      /\ UNCHANGED <<hidl, open, mTracking, sessionNo, unanswered, niAnswered, clientCalls>>
  BY <1>0 DEF Answer
<1>3. PICK t : t = tracking.session
  OBVIOUS
<1>4. PICK s : s = c.session
  OBVIOUS
<1>5. /\ commands' \in Seq(Issued') /\ c \in Issued /\ c \in Request
      /\ Len(commands') = Len(commands) - 1 /\ Len(commands) \in Nat /\ Len(commands) >= 1
      /\ Cardinality(Places(commands, Of(t))) \in Nat
      /\ Cardinality(Places(commands', Of(t)))
           = Cardinality(Places(commands, Of(t))) - (IF c \in Of(t) THEN 1 ELSE 0)
      /\ c \in Of(t) => Cardinality(Places(commands, Of(t))) > 0
  BY <1>0, <1>1, <1>2, RetiredCounts
<1>6. /\ mRequestQueues' \in [Queue -> RequestsOf]
      /\ tracking'.session = tracking.session /\ fences' = fences
      /\ niQueue'.session = niQueue.session
      /\ s = tracking.session /\ tracking.requests # <<>> => tracking' = AfterPop(tracking)
      /\ s # tracking.session => tracking' = tracking
      /\ s \notin {tracking.session, niQueue.session} =>
           batching' = IF s \in DOMAIN backward THEN AfterPop(batching) ELSE batching
      /\ (\A k \in Queue : mRequestQueues[k] = Fresh(0)) =>
           \A k \in Queue : mRequestQueues'[k] = Fresh(0)
  BY <1>1, <1>2, <1>4, ResponseQueues
<1>7. /\ OldestFirst(commands)' /\ ToSet(commands)' = ToSet(commands) \ {c}
      /\ c \in ToSet(commands) /\ \A u : Waiting(u)' = Waiting(u) \ {c}
  BY <1>0, <1>1, <1>2, RetiredOrder DEF Matched
<1>8. /\ mislaid' \in Nat /\ outOfOrder' \in SUBSET Nat /\ outOfOrder \subseteq outOfOrder'
      /\ Overtakes(i) => QueueKey(c) \in outOfOrder'
  <2>1. mislaid \in Nat /\ outOfOrder \in SUBSET Nat
    BY <1>1 DEF RequestTypes
  <2>2. QueueKey(c) \in Nat
    BY <1>5, RequestsAssumption DEF QueueKey, Request, GEOFENCE_SESSION_ID
  <2>3. outOfOrder' = outOfOrder \/ outOfOrder' = outOfOrder \cup {QueueKey(c)}
    BY <1>0, <1>2 DEF OutOfOrder
  <2>4. Overtakes(i) => outOfOrder' = outOfOrder \cup {QueueKey(c)}
    BY <1>0, <1>2 DEF OutOfOrder
  <2>5. mislaid' \in Nat
    BY <1>2, <2>1
  <2> QED
    BY <2>1, <2>2, <2>3, <2>4, <2>5
<1>9. RequestTypes'
  BY <1>1, <1>2, <1>5, <1>6, <1>8 DEF RequestTypes
<1>10. Dictionary'
  <2>1. CASE UNCHANGED dict
    BY <1>1, <1>2, <2>1 DEF Dictionary, dict
  <2>2. CASE s \in DOMAIN backward /\ DictRemove(s)
    BY <1>1, <1>2, <2>2, DictRemoved
  <2> QED
    BY <1>2, <1>4, <2>1, <2>2 DEF OnResponse, dict
\* It is no answer to a geofence client, which would have been a collective one.
<1>11. /\ hidl # "geofence" /\ (s \notin niAnswered => s \in 1..sessionNo /\ c.op \in OpsOf(hidl))
  <2>1. CASE c \in [op : OpsOf(hidl), session : 1..sessionNo, no : 1..clientCalls]
    BY <1>0, <1>4, <2>1 DEF OpsOf
  <2>2. CASE c \in [op : {"ni"}, session : niAnswered, no : 1..clientCalls]
    BY <1>1, <1>4, <2>2 DEF Sessions
  <2> QED
    BY <1>5, <2>1, <2>2 DEF Issued
<1>12. fences.session = 0 /\ GEOFENCE_SESSION_ID # 0
  BY <1>1, <1>11, RequestsAssumption DEF Sessions, GEOFENCE_SESSION_ID
<1>13. Sessions'
  BY <1>1, <1>2, <1>6, <1>11, <1>12 DEF Sessions
<1>14. t # 0 => hidl = "gnss"
  BY <1>1, <1>3 DEF Sessions
<1>15. t \notin niAnswered \cup {0} => (c \in Of(t) <=> s = t)
  BY <1>4, <1>5, <1>11, <1>14 DEF OpsOf, Of, Request
<1>16. tracking \in RequestsOf /\ batching \in RequestsOf
  <2>1. "tracking" \in Queue /\ "session" \in Queue
    BY DEF Queue
  <2> QED
    BY <1>1, <2>1 DEF RequestTypes, tracking, batching
<1>17. ASSUME t \notin niAnswered \cup {0}
       PROVE  Len(tracking'.requests) = TrackingDue(t)'
  <2>1. Len(tracking.requests) = TrackingDue(t)
    BY <1>1, <1>3, <1>17 DEF Counted
  <2>2. TrackingDue(t)' = TrackingDue(t) - (IF c \in Of(t) THEN 1 ELSE 0)
        /\ (c \in Of(t) => TrackingDue(t) > 0) /\ TrackingDue(t) \in Nat
    <3>1. Cardinality(Places(unanswered, {t})) \in Nat /\ unanswered' = unanswered
      BY <1>1, <1>2, PlacesNumber DEF RequestTypes
    <3>2. TrackingDue(t)' = Cardinality(Places(commands', Of(t)))
                              + Cardinality(Places(unanswered, {t}))
      BY <3>1 DEF TrackingDue, Of
    <3> QED
      BY <1>5, <3>1, <3>2 DEF TrackingDue
  <2>3. CASE s = t
    <3>1. tracking.requests # <<>>
      BY <1>15, <1>17, <2>1, <2>2, <2>3
    <3>2. Len(tracking'.requests) = Len(tracking.requests) - 1
      BY <1>3, <1>6, <1>16, <2>3, <3>1, PoppedType
    <3> QED
      BY <1>15, <1>17, <2>1, <2>2, <2>3, <3>2
  <2>4. CASE s # t
    BY <1>3, <1>6, <1>15, <1>17, <2>1, <2>2, <2>4
  <2> QED
    BY <2>3, <2>4
\* A batching client has no other queue that could have the session's number.
<1>18. ASSUME hidl = "batching", open
       PROVE  /\ Len(batching.requests) = Len(commands) + mislaid
              /\ s \in DOMAIN backward <=> ~Mislays(i)
              /\ batching' = IF s \in DOMAIN backward THEN AfterPop(batching) ELSE batching
  <2>1. s \in 1..sessionNo /\ tracking.session = 0 /\ niQueue.session = 0
    BY <1>1, <1>11, <1>18 DEF Sessions
  <2>2. s \notin {tracking.session, niQueue.session}
    BY <1>1, <2>1 DEF RequestTypes
  <2>3. s \in DOMAIN backward <=> ~Mislays(i)
    BY <1>0, <1>4, <1>18 DEF Mislays
  <2>4. Len(batching.requests) = Len(commands) + mislaid
    BY <1>1, <1>18 DEF Counted
  <2> QED
    BY <1>6, <2>2, <2>3, <2>4
<1>19. ASSUME hidl = "batching", open
       PROVE  Len(batching'.requests) = Len(commands') + mislaid'
  <2>1. mislaid \in Nat
    BY <1>1 DEF RequestTypes
  <2>2. CASE s \in DOMAIN backward
    <3>1. batching.requests # <<>> /\ mislaid' = mislaid
      BY <1>2, <1>5, <1>18, <1>19, <2>1, <2>2
    <3>2. Len(batching'.requests) = Len(batching.requests) - 1
      BY <1>16, <1>18, <1>19, <2>2, <3>1, PoppedType
    <3>3. Len(batching.requests) = Len(commands) + mislaid
      BY <1>18, <1>19
    <3>4. Len(commands') = Len(commands) - 1 /\ Len(commands) \in Nat
      BY <1>5
    <3> QED
      BY <2>1, <3>1, <3>2, <3>3, <3>4
  <2>3. CASE s \notin DOMAIN backward
    BY <1>2, <1>5, <1>18, <1>19, <2>1, <2>3
  <2> QED
    BY <2>2, <2>3
<1>20. Counted'
  BY <1>2, <1>3, <1>6, <1>12, <1>17, <1>19 DEF Counted, GEOFENCE_SESSION_ID
<1>21. ASSUME t \notin niAnswered \cup {0} \cup outOfOrder'
       PROVE  Matching(tracking'.requests, Waiting(t)')
  <2>1. Matching(tracking.requests, Waiting(t)) /\ hidl = "gnss"
    BY <1>1, <1>3, <1>8, <1>14, <1>21 DEF Matched
  <2>2. CASE s = t
    <3>1. c \in Waiting(t)
      BY <1>4, <1>7, <1>11, <1>21, <2>1, <2>2 DEF Waiting, OpsOf
    <3>2. \A d \in Waiting(t) : QueueKey(d) = t
      BY <2>1 DEF Waiting, QueueKey
    <3>3. ~Overtakes(i)
      BY <1>8, <1>21, <3>1, <3>2
    <3>4. Waiting(t) \subseteq ToSet(commands) /\ OldestFirst(commands)
      BY <1>1 DEF Waiting, Matched
    <3>5. tracking.requests # <<>> /\ Matching(AfterPop(tracking).requests, Waiting(t) \ {c})
      BY <1>0, <1>1, <1>2, <1>16, <2>1, <3>1, <3>2, <3>3, <3>4, OldestAnswered
    <3> QED
      BY <1>3, <1>6, <1>7, <2>2, <3>5
  <2>3. CASE s # t
    <3>1. Waiting(t)' = Waiting(t)
      BY <1>4, <1>7, <2>3 DEF Waiting
    <3> QED
      BY <1>3, <1>6, <2>1, <2>3, <3>1
  <2> QED
    BY <2>2, <2>3
<1>22. ASSUME hidl = "batching", open, mislaid' = 0, 0 \notin outOfOrder'
       PROVE  Matching(batching'.requests, ToSet(commands)')
  <2>1. mislaid = 0 /\ ~Mislays(i)
    BY <1>1, <1>2, <1>22 DEF RequestTypes
  <2>2. Matching(batching.requests, ToSet(commands)) /\ OldestFirst(commands)
    BY <1>1, <1>8, <1>22, <2>1 DEF Matched
  <2>3. \A d \in ToSet(commands) : QueueKey(d) = 0
    BY <1>22 DEF QueueKey
  <2>4. ~Overtakes(i)
    BY <1>7, <1>8, <1>22, <2>3
  <2>5. Matching(AfterPop(batching).requests, ToSet(commands) \ {c})
    BY <1>0, <1>1, <1>2, <1>7, <1>16, <2>2, <2>3, <2>4, OldestAnswered
  <2> QED
    BY <1>7, <1>18, <1>22, <2>1, <2>5
<1>23. Matched'
  BY <1>2, <1>3, <1>6, <1>7, <1>12, <1>21, <1>22 DEF Matched, Matching, OldestFirst,
     GEOFENCE_SESSION_ID
<1> QED
  BY <1>9, <1>10, <1>13, <1>20, <1>23 DEF RequestInv

\* An answer about fences takes the oldest request of the collective queue.
LEMMA OnCollectiveInv ==
  ASSUME RequestInv, NEW i \in DOMAIN commands, NEW ok \in BOOLEAN, Answer(i, ok),
         commands[i].op \in GeofenceOp
  PROVE  RequestInv'
<1>1. RequestTypes /\ Dictionary /\ Sessions /\ Counted /\ Matched
  BY DEF RequestInv
<1>2. /\ Retired(i) /\ OnCollectiveResponse /\ UNCHANGED dict
      /\ IF Overtakes(i) THEN OutOfOrder(i) ELSE UNCHANGED outOfOrder
      /\ mislaid' = mislaid + (IF Mislays(i) THEN 1 ELSE 0)
      /\ UNCHANGED <<hidl, open, mTracking, sessionNo, unanswered, niAnswered, clientCalls>>
  BY DEF Answer, OnCollectiveResponse
<1>3. /\ commands' \in Seq(Issued') /\ commands[i] \in Issued /\ commands[i] \in Request
      /\ Len(commands') = Len(commands) - 1 /\ Len(commands) \in Nat /\ Len(commands) >= 1
  BY <1>1, <1>2, RetiredCounts
<1>4. hidl = "geofence"
  <2>1. CASE commands[i] \in [op : OpsOf(hidl), session : 1..sessionNo, no : 1..clientCalls]
    BY <1>1, <2>1 DEF OpsOf, GeofenceOp, TrackingOp, BatchingOp, RequestTypes
  <2>2. CASE commands[i] \in [op : {"ni"}, session : niAnswered, no : 1..clientCalls]
    BY <2>2 DEF GeofenceOp
  <2> QED
    BY <1>3, <2>1, <2>2 DEF Issued
<1>5. tracking.session = 0 /\ GEOFENCE_SESSION_ID # 0
  BY <1>1, <1>4, RequestsAssumption DEF Sessions, GEOFENCE_SESSION_ID
<1>6. {"tracking", "geofence", "ni"} \subseteq Queue
  BY DEF Queue
<1>7. /\ mRequestQueues' \in [Queue -> RequestsOf]
      /\ tracking' = tracking /\ niQueue' = niQueue /\ fences'.session = fences.session
      /\ fences.session = GEOFENCE_SESSION_ID => fences' = AfterPop(fences)
      /\ (\A k \in Queue : mRequestQueues[k] = Fresh(0)) =>
           \A k \in Queue : mRequestQueues'[k] = Fresh(0)
  <2>1. mRequestQueues \in [Queue -> RequestsOf]
    BY <1>1 DEF RequestTypes
  <2>2. CASE fences.session # GEOFENCE_SESSION_ID
    BY <1>2, <2>1, <2>2 DEF OnCollectiveResponse, tracking, fences, niQueue
  <2>3. CASE fences.session = GEOFENCE_SESSION_ID
    <3>1. mRequestQueues' = [mRequestQueues EXCEPT !["geofence"] =
                               AfterPop(mRequestQueues["geofence"])]
      BY <1>2, <2>3 DEF OnCollectiveResponse, Popped, WithQueue, AfterPop
    <3>2. fences \in RequestsOf /\ AfterPop(fences) \in RequestsOf
      BY <1>6, <2>1, PoppedType DEF fences
    <3>3. mRequestQueues' \in [Queue -> RequestsOf] /\ tracking' = tracking
          /\ niQueue' = niQueue /\ fences' = AfterPop(fences)
      BY <1>6, <2>1, <3>1, <3>2 DEF tracking, fences, niQueue
    <3>4. fences.session # 0
      BY <1>5, <2>3
    <3>5. ~(\A k \in Queue : mRequestQueues[k] = Fresh(0))
      BY <1>6, <3>4, FreshType DEF fences
    <3>6. AfterPop(fences).session = fences.session
      BY <3>2, PoppedType
    <3> QED
      BY <3>3, <3>5, <3>6
  <2> QED
    BY <2>2, <2>3
<1>8. RequestTypes'
  <2>1. mislaid' \in Nat
    BY <1>1, <1>2 DEF RequestTypes
  <2>2. outOfOrder' \in SUBSET Nat
    <3>1. outOfOrder \in SUBSET Nat
      BY <1>1 DEF RequestTypes
    <3>2. QueueKey(commands[i]) \in Nat
      BY <1>4, RequestsAssumption DEF QueueKey, GEOFENCE_SESSION_ID
    <3> QED
      BY <1>2, <3>1, <3>2 DEF OutOfOrder
  <2> QED
    BY <1>1, <1>2, <1>3, <1>7, <2>1, <2>2 DEF RequestTypes
<1>9. Dictionary'
  BY <1>1, <1>2 DEF Dictionary, dict
<1>10. Sessions'
  <2>1. open => fences.session # 0
    BY <1>1, <1>3, <1>4 DEF Sessions
  <2> QED
    BY <1>1, <1>2, <1>4, <1>7, <2>1 DEF Sessions, GEOFENCE_SESSION_ID
<1>11. fences \in RequestsOf
  BY <1>1, <1>6 DEF RequestTypes, fences
<1>12. Counted'
  <2>1. ASSUME fences.session = GEOFENCE_SESSION_ID
        PROVE  Len(fences'.requests) = Len(commands')
    <3>1. Len(fences.requests) = Len(commands)
      BY <1>1, <2>1 DEF Counted
    <3>2. fences.requests # <<>>
      BY <1>3, <3>1
    <3>3. Len(fences'.requests) = Len(fences.requests) - 1
      BY <1>7, <1>11, <2>1, <3>2, PoppedType
    <3> QED
      BY <1>3, <3>1, <3>3
  <2> QED
    BY <1>2, <1>4, <1>5, <1>7, <2>1 DEF Counted, GEOFENCE_SESSION_ID
<1>13. /\ OldestFirst(commands)' /\ ToSet(commands)' = ToSet(commands) \ {commands[i]}
       /\ commands[i] \in ToSet(commands)
  BY <1>1, <1>2, RetiredOrder DEF Matched
<1>14. ASSUME fences.session = GEOFENCE_SESSION_ID, GEOFENCE_SESSION_ID \notin outOfOrder'
       PROVE  Matching(fences'.requests, ToSet(commands)')
  <2>1. \A d \in ToSet(commands) : QueueKey(d) = GEOFENCE_SESSION_ID
    BY <1>4 DEF QueueKey
  <2>2. ~Overtakes(i) /\ outOfOrder' = outOfOrder
    BY <1>2, <1>13, <1>14, <2>1 DEF OutOfOrder
  <2>3. Matching(fences.requests, ToSet(commands)) /\ OldestFirst(commands)
    BY <1>1, <1>14, <2>2 DEF Matched
  <2>4. Matching(AfterPop(fences).requests, ToSet(commands) \ {commands[i]})
    BY <1>1, <1>2, <1>11, <1>13, <2>1, <2>2, <2>3, OldestAnswered
  <2> QED
    BY <1>7, <1>13, <1>14, <2>4
<1>15. Matched'
  BY <1>2, <1>4, <1>5, <1>7, <1>13, <1>14 DEF Matched, Matching, OldestFirst, GEOFENCE_SESSION_ID
<1> QED
  BY <1>8, <1>9, <1>10, <1>12, <1>15 DEF RequestInv

\* Each call and each answer keeps the parts.
LEMMA RequestStepInv == RequestInv /\ [ClientRequestsNext]_requestVars => RequestInv'
<1> SUFFICES ASSUME RequestInv, [ClientRequestsNext]_requestVars PROVE RequestInv'
  OBVIOUS
<1>1. CASE UNCHANGED requestVars
  BY <1>1 DEF requestVars, dict, answered, RequestInv, RequestTypes, Issued, Dictionary, Sessions,
     Counted, Matched, TrackingDue, Waiting, Matching, OldestFirst, tracking, fences, niQueue, batching
<1>2. ASSUME NEW i \in DOMAIN commands, NEW ok \in BOOLEAN, Answer(i, ok) PROVE RequestInv'
  BY <1>2, OnResponseInv, OnCollectiveInv
<1> QED
  BY <1>1, <1>2, StartTrackingInv, OnTrackingInv, NiResponseInv, StartBatchInv, OnSessionInv,
     AddGeofenceInv, OnGeofenceInv, DestroyClientInv, NoAnswerInv DEF ClientRequestsNext
-----------------------------------------------------------------------------
\* The queues, the dictionary and the numbers of sessions keep their types, and
\* every id that the dictionary knows has one session that leads back to it
\* (BiDict, gps/location/LocationAPIClientBase.h).
THEOREM RequestTypeCorrect == RequestSpec => []ClientRequestsTypeOK
<1>1. RequestInv => ClientRequestsTypeOK
  <2> SUFFICES ASSUME RequestInv PROVE ClientRequestsTypeOK
    OBVIOUS
  <2>1. RequestTypes /\ Dictionary /\ MaxClientCalls \in Nat
    BY RequestsAssumption DEF RequestInv
  <2>2. sessionNo \in 0..MaxClientCalls /\ clientCalls \in 0..MaxClientCalls
        /\ 1..sessionNo \subseteq SessionNo
    BY <2>1 DEF RequestTypes, SessionNo
  <2>3. commands \in Seq(Request)
    BY <2>1, IssuedRequests
  <2>4. unanswered \in Seq(SessionNo)
    BY <2>1, <2>2, Wider DEF RequestTypes
  <2>5. IsInjective(forward) /\ \A id \in DOMAIN forward : Known(backward, forward[id]) = id
    BY <2>1 DEF Dictionary, IsInjective, Known
  <2>6. DOMAIN forward \subseteq FenceId \cup {mDefaultId} /\ DOMAIN backward \subseteq SessionNo
    BY <2>1, <2>2 DEF Dictionary
  <2> QED
    BY <2>1, <2>2, <2>3, <2>4, <2>5, <2>6 DEF RequestTypes, RequestsOf, ClientRequestsTypeOK
<1> QED
  BY RequestInitInv, RequestStepInv, <1>1, PTL DEF RequestSpec

\* For any number of calls of the framework and any order of the answers, the requests
\* of a queue are as many as the answers still due and those that took none; and as long
\* as its answers come in the order of its commands, each takes the request of the very
\* command that it answers.  Excepted is a session under whose number a network request
\* was answered (pushes and getRequestBySession,
\* gps/location/LocationAPIClientBase.cpp).
THEOREM RequestsGetTheirAnswers == RequestSpec => []RequestsMatchAnswers
<1>1. RequestInv => RequestsMatchAnswers
  <2> SUFFICES ASSUME RequestInv PROVE RequestsMatchAnswers
    OBVIOUS
  <2>1. RequestTypes /\ Sessions /\ Counted /\ Matched
    BY DEF RequestInv
  <2>2. PICK s : s = tracking.session
    OBVIOUS
  <2>3. \A i \in DOMAIN commands : commands[i] \in Issued
    BY <2>1 DEF RequestTypes
  <2>4. \A i \in DOMAIN commands :
          commands[i] \in Of(s) <=> commands[i].session = s /\ commands[i].op \in TrackingOp
    <3>1. \A i \in DOMAIN commands : commands[i] \in Request
      BY <2>1, <2>3, IssuedRequests
    <3> QED
      BY <3>1 DEF Request, Of
  <2>5. Cardinality(Places(commands, Of(s))) = Due(s, TrackingOp)
    <3>1. Places(commands, Of(s))
            = {i \in DOMAIN commands : commands[i].session = s /\ commands[i].op \in TrackingOp}
      BY <2>4 DEF Places
    <3> QED
      BY <3>1 DEF Due
  <2>6. Cardinality(Places(unanswered, {s})) = Lost(s)
    <3>1. Places(unanswered, {s}) = {i \in DOMAIN unanswered : unanswered[i] = s}
      BY DEF Places
    <3> QED
      BY <3>1 DEF Lost
  <2>7. s \notin niAnswered \cup {0} =>
          Len(tracking.requests) = Due(s, TrackingOp) + Lost(s)
    BY <2>1, <2>2, <2>5, <2>6 DEF Counted, TrackingDue
  <2>8. ~open => \A k \in Queue : mRequestQueues[k].requests = <<>>
    BY <2>1 DEF Sessions, Fresh
  <2> QED
    BY <2>1, <2>2, <2>7, <2>8 DEF RequestsMatchAnswers, Counted, Matched
<1> QED
  BY RequestInitInv, RequestStepInv, <1>1, PTL DEF RequestSpec
=============================================================================
