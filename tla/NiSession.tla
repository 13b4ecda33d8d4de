----------------------------- MODULE NiSession -----------------------------
(***************************************************************************)
(* Network initiated requests (gps/gnss/GnssAdapter.cpp).                  *)
(*                                                                         *)
(* The modem asks whether the network may locate the device.  The adapter  *)
(* answers at once, or keeps the request in one of two sessions, asks the  *)
(* user, and starts a thread that waits for the user's response or times   *)
(* out.  The thread then takes the request out of the session and posts    *)
(* the answer to the adapter.                                              *)
(*                                                                         *)
(* The adapter looks at rawRequest and reqID without the lock and takes it *)
(* only to store a response, so its steps interleave with the thread's.    *)
(* Time is left out: a waiting thread may time out whenever it likes.      *)
(***************************************************************************)
EXTENDS Integers, Sequences

CONSTANTS
  MaxNi,           \* bound: requests of the network
  NfwLocked,       \* GPS lock on, NI_SUPL_DENY_ON_NFW_LOCKED set
  SuplEsNo,        \* SUPL_ES is GNSS_CONFIG_SUPL_EMERGENCY_SERVICES_NO
  CpMtlrEs         \* CP_MTLR_ES is set

ASSUME NiAssumption ==
  MaxNi \in Nat /\ {NfwLocked, SuplEsNo, CpMtlrEs} \subseteq BOOLEAN

NiRequest == 1..MaxNi
NiSessions == {"session", "sessionEs"}
NiKind == {"supl", "es", "cp"}
UserResponse == {"accept", "deny"}

VARIABLES
  rawRequest,     \* rawRequest[s]: the request kept in session s, or 0
  reqID,          \* reqID[s], the number of the request it was set for
  resp,           \* resp[s]
  respRecvd,      \* respRecvd[s]
  niCounter,      \* reqIDCounter: requests made so far
  niClient,       \* a client has a gnssNiCb
  niThread,       \* niThread[r]: where the thread started for r is
  niOf,           \* niOf[r]: the session it was given
  niPost,         \* niPost[r]: the request whose answer it has to post, or 0
  niQ,            \* the adapter's MsgTask
  niStep,         \* what the adapter is about to store, in which session
  asked,          \* the requests the user has not responded to
  answers         \* history: answers[r], how often r was answered or freed

sessionVars == <<rawRequest, reqID, resp, respRecvd>>
threadVars == <<niThread, niOf, niPost>>
niVars == <<sessionVars, niCounter, niClient, threadVars, niQ, niStep, asked,
            answers>>
-----------------------------------------------------------------------------
NiInit ==
  /\ rawRequest = [s \in NiSessions |-> 0] /\ reqID = [s \in NiSessions |-> 0]
  /\ resp = [s \in NiSessions |-> "none"]
  /\ respRecvd = [s \in NiSessions |-> FALSE]
  /\ niCounter = 0 /\ niClient \in BOOLEAN
  /\ niThread = [r \in NiRequest |-> "none"]
  /\ niOf = [r \in NiRequest |-> "session"]
  /\ niPost = [r \in NiRequest |-> 0]
  /\ niQ = <<>> /\ niStep = <<>> /\ asked = {}
  /\ answers = [r \in NiRequest |-> 0]

\* The modem is answered for r, or r is dropped; its data is freed.
Answered(r) == answers' = [answers EXCEPT ![r] = @ + 1]

\* requestNiNotifyEvent and the message it posts, which the model handles at
\* once: the order of requests and responses in the queue is arbitrary anyway.
SessionOf(kind) == IF kind = "es" THEN "sessionEs" ELSE "session"
DeniedAtOnce(kind, emergency, override) ==
  \/ NfwLocked /\ kind # "cp" /\ ~emergency /\ ~override
  \/ kind = "es" /\ ~emergency /\ ~SuplEsNo
AcceptedAtOnce(kind, emergency) ==
  \/ kind = "cp" /\ emergency /\ CpMtlrEs
  \/ kind = "es" /\ ~niClient

\* (mutant) a request in progress is overwritten
Overwrite(kind) == FALSE
\* requestNiNotify: a request that comes during another is dropped.
Busy(kind) ==
  \/ rawRequest["sessionEs"] # 0
  \/ kind # "es" /\ rawRequest["session"] # 0

\* requestNiNotify of a request that is kept
KeepRequest(r, s) ==
  /\ rawRequest' = [rawRequest EXCEPT ![s] = r]
  /\ reqID' = [reqID EXCEPT ![s] = r]
  /\ niThread' = [niThread EXCEPT ![r] = "started"]
  /\ niOf' = [niOf EXCEPT ![r] = s]
  /\ asked' = asked \cup {r}
  /\ UNCHANGED <<resp, respRecvd, niPost, answers, niStep>>

NiNotify(kind, emergency, override) ==
  /\ niStep = <<>> /\ niCounter < MaxNi
  /\ niCounter' = niCounter + 1
  /\ LET r == niCounter + 1
         s == SessionOf(kind)
         denied == DeniedAtOnce(kind, emergency, override)
         accepted == ~denied /\ AcceptedAtOnce(kind, emergency)
     IN \/ /\ denied \/ accepted
           /\ Answered(r)
           /\ niStep' = IF accepted /\ kind = "es" /\ rawRequest["session"] # 0
                        THEN <<[session |-> "session", resp |-> "ignore"]>>
                        ELSE <<>>
           /\ UNCHANGED <<sessionVars, threadVars, asked>>
        \/ /\ ~denied /\ ~accepted /\ ~niClient
           /\ UNCHANGED <<sessionVars, threadVars, asked, answers, niStep>>
        \/ /\ ~denied /\ ~accepted /\ niClient /\ Busy(kind)
           /\ Answered(r)
           /\ UNCHANGED <<sessionVars, threadVars, asked, niStep>>
        \/ /\ ~denied /\ ~accepted /\ niClient /\ ~Busy(kind)
           /\ KeepRequest(r, s)
  /\ UNCHANGED <<niClient, niQ>>

\* The user responds to a request: gnssNiResponseCommand posts a message.
UserResponds(r, u) ==
  /\ r \in asked /\ asked' = asked \ {r}
  /\ niQ' = Append(niQ, [what |-> "user", request |-> r, resp |-> u])
  /\ UNCHANGED <<sessionVars, niCounter, niClient, threadVars, niStep, answers>>

Active(s, r) == reqID[s] = r /\ rawRequest[s] # 0
Store(s, x) == [session |-> s, resp |-> x]

\* MsgGnssNiResponse::proc looks for the session of a user's response,
NiLookup ==
  /\ niStep = <<>> /\ niQ # <<>> /\ Head(niQ).what = "user"
  /\ niQ' = Tail(niQ)
  /\ LET r == Head(niQ).request
         u == Head(niQ).resp
     IN niStep' =
          IF Active("sessionEs", r)
          THEN (IF u = "accept" /\ rawRequest["session"] # 0
                THEN <<Store("session", "ignore")>> ELSE <<>>)
               \o <<Store("sessionEs", u)>>
          ELSE IF Active("session", r) THEN <<Store("session", u)>> ELSE <<>>
  /\ UNCHANGED <<sessionVars, niCounter, niClient, threadVars, asked, answers>>

\* and stores it under the lock.
NiStore ==
  /\ niStep # <<>> /\ niStep' = Tail(niStep)
  /\ resp' = [resp EXCEPT ![Head(niStep).session] = Head(niStep).resp]
  /\ respRecvd' = [respRecvd EXCEPT ![Head(niStep).session] = TRUE]
  /\ UNCHANGED <<rawRequest, reqID, niCounter, niClient, threadVars, niQ, asked,
                 answers>>

\* MsgGnssNiResponse::proc of a thread's answer
NiAnswer ==
  /\ niStep = <<>> /\ niQ # <<>> /\ Head(niQ).what = "answer"
  /\ niQ' = Tail(niQ) /\ Answered(Head(niQ).request)
  /\ UNCHANGED <<sessionVars, niCounter, niClient, threadVars, niStep, asked>>
-----------------------------------------------------------------------------
(* niThreadProc of the thread started for r *)

\* (mutant) the request stays in the session
KeepRaw(s) == UNCHANGED rawRequest
\* The thread takes the request out of the session.
ClearRaw(s) == rawRequest' = [rawRequest EXCEPT ![s] = 0]

\* The rest of niThreadProc's critical section, with x in resp
Finish(r, x) ==
  LET s == niOf[r] IN
  /\ niThread' = [niThread EXCEPT ![r] = "unlocked"]
  /\ resp' = [resp EXCEPT ![s] = x]
  /\ respRecvd' = [respRecvd EXCEPT ![s] = FALSE]
  /\ ClearRaw(s)
  /\ IF rawRequest[s] # 0 /\ x = "ignore"
     THEN Answered(rawRequest[s]) /\ UNCHANGED niPost
     ELSE niPost' = [niPost EXCEPT ![r] = rawRequest[s]] /\ UNCHANGED answers
  /\ UNCHANGED <<reqID, niOf, niCounter, niClient, niQ, niStep, asked>>

\* It waits only if no response has been received.
NiThreadStarts(r) ==
  /\ niThread[r] = "started"
  /\ \/ respRecvd[niOf[r]] /\ Finish(r, resp[niOf[r]])
     \/ /\ ~respRecvd[niOf[r]]
        /\ niThread' = [niThread EXCEPT ![r] = "waiting"]
        /\ UNCHANGED <<sessionVars, niCounter, niClient, niOf, niPost, niQ,
                       niStep, asked, answers>>

NiThreadWakes(r) ==
  niThread[r] = "waiting" /\ respRecvd[niOf[r]] /\ Finish(r, resp[niOf[r]])

\* A response received meanwhile is lost.
NiThreadTimesOut(r) == niThread[r] = "waiting" /\ Finish(r, "noResponse")

\* reqID is reset without the lock, and then the answer is posted.
NiThreadEnds(r) ==
  \/ /\ niThread[r] = "unlocked"
     /\ niThread' = [niThread EXCEPT ![r] = "posting"]
     /\ reqID' = [reqID EXCEPT ![niOf[r]] = 0]
     /\ UNCHANGED <<niPost, niQ>>
  \/ /\ niThread[r] = "posting"
     /\ niThread' = [niThread EXCEPT ![r] = "gone"]
     /\ niPost' = [niPost EXCEPT ![r] = 0]
     /\ niQ' = IF niPost[r] = 0 THEN niQ
               ELSE Append(niQ, [what |-> "answer", request |-> niPost[r]])
     /\ UNCHANGED reqID
-----------------------------------------------------------------------------
NiThreadStep(r) ==
  \/ NiThreadStarts(r) \/ NiThreadWakes(r) \/ NiThreadTimesOut(r)
  \/ /\ NiThreadEnds(r)
     /\ UNCHANGED <<rawRequest, resp, respRecvd, niCounter, niClient, niOf,
                    niStep, asked, answers>>
NiAdapterStep == NiLookup \/ NiStore \/ NiAnswer

NiNext ==
  \/ \E k \in NiKind, e, o \in BOOLEAN : NiNotify(k, e, o)
  \/ \E r \in NiRequest, u \in UserResponse : UserResponds(r, u)
  \/ NiAdapterStep
  \/ \E r \in NiRequest : NiThreadStep(r)
-----------------------------------------------------------------------------
NiTypeOK ==
  /\ \A f \in {rawRequest, reqID} : f \in [NiSessions -> 0..MaxNi]
  /\ resp \in [NiSessions -> UserResponse \cup {"none", "noResponse", "ignore"}]
  /\ respRecvd \in [NiSessions -> BOOLEAN]
  /\ niCounter \in 0..MaxNi /\ niClient \in BOOLEAN /\ asked \subseteq NiRequest
  /\ niThread \in [NiRequest -> {"none", "started", "waiting", "unlocked",
                                 "posting", "gone"}]
  /\ niOf \in [NiRequest -> NiSessions] /\ niPost \in [NiRequest -> 0..MaxNi]
  /\ answers \in [NiRequest -> Nat]

\* The modem is answered at most once for a request, whose data is then freed:
\* not again by a late response, a timeout or the one that makes it ignored,
\* and not while a session still holds it (niThreadProc and requestNiNotify,
\* gps/gnss/GnssAdapter.cpp).
NiAnsweredOnce ==
  /\ \A r \in NiRequest : answers[r] <= 1
  /\ \A s \in NiSessions : rawRequest[s] # 0 => answers[rawRequest[s]] = 0

\* A request that is kept is answered or dropped in the end, whether the user
\* responds or not, so that the session can be used again (niThreadProc,
\* gps/gnss/GnssAdapter.cpp).
NiRequestEnds ==
  \A r \in NiRequest : (\E s \in NiSessions : rawRequest[s] = r) ~> answers[r] > 0
=============================================================================
