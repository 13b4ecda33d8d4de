------------------------------- MODULE Odcpi -------------------------------
(***************************************************************************)
(* On demand coarse position injection (requestOdcpi and the OdcpiTimer,   *)
(* gps/gnss/GnssAdapter.cpp and .h).                                       *)
(*                                                                         *)
(* The modem starts and stops requests for a coarse position; the adapter  *)
(* passes them to the Android framework, at most one in the time of a      *)
(* timer unless an emergency comes up.  The timer is a LocTimer: its       *)
(* thread stops it and then calls back, which posts a message; meanwhile   *)
(* the adapter thread may have restarted it.                               *)
(***************************************************************************)
EXTENDS Integers, Sequences

CONSTANT MaxOdcpiEvents     \* bound: requests, registrations and restarts

VARIABLES
  mOdcpiRequestCb,     \* a callback is registered, and its priority; 0 if none
  mOdcpiRequestActive,
  mOdcpiRequest,       \* its isEmergencyMode
  mOdcpiTimer,         \* its mActive
  locTimer,            \* the LocTimer runs
  firing,              \* the timer's thread is between stopping and posting
  odcpiQ,              \* the adapter's MsgTask
  odcpiEvents,         \* those still to come
  unasked              \* history: the modem waits, the framework is not asked

odcpiVars == <<mOdcpiRequestCb, mOdcpiRequestActive, mOdcpiRequest, mOdcpiTimer,
               locTimer, firing, odcpiQ, odcpiEvents, unasked>>
-----------------------------------------------------------------------------
OdcpiPriority == 1..2
OdcpiMsg == [what : {"start"}, emergency : BOOLEAN]
              \cup [what : {"stop", "engineUp", "expire"}]
              \cup [what : {"init"}, priority : OdcpiPriority]

OdcpiInit ==
  /\ mOdcpiRequestCb = 0 /\ mOdcpiRequestActive = FALSE
  /\ mOdcpiRequest = FALSE /\ mOdcpiTimer = FALSE /\ locTimer = FALSE
  /\ firing = FALSE /\ odcpiQ = <<>>
  /\ odcpiEvents = MaxOdcpiEvents /\ unasked = FALSE

\* OdcpiTimer::start (and restart, for the LocTimer it starts runs anyway)
StartOdcpiTimer == mOdcpiTimer' = TRUE /\ locTimer' = TRUE
\* (mutant) the timer is stopped but still counted as active
StopLocTimerOnly == locTimer' = FALSE /\ UNCHANGED mOdcpiTimer
\* OdcpiTimer::stop
StopOdcpiTimer == mOdcpiTimer' = FALSE /\ locTimer' = FALSE

\* The modem, the framework and the engine give the adapter work.
OdcpiEvent ==
  /\ odcpiEvents > 0 /\ odcpiEvents' = odcpiEvents - 1
  /\ \E m \in OdcpiMsg : m.what # "expire" /\ odcpiQ' = Append(odcpiQ, m)
  /\ UNCHANGED <<mOdcpiRequestCb, mOdcpiRequestActive, mOdcpiRequest,
                 mOdcpiTimer, locTimer, firing, unasked>>

\* The LocTimer stops itself,
OdcpiTimerFires ==
  /\ locTimer /\ ~firing
  /\ locTimer' = FALSE /\ firing' = TRUE
  /\ UNCHANGED <<mOdcpiRequestCb, mOdcpiRequestActive, mOdcpiRequest,
                 mOdcpiTimer, odcpiQ, odcpiEvents, unasked>>
\* and its callback is odcpiTimerExpireEvent.
OdcpiTimerPosts ==
  /\ firing /\ firing' = FALSE
  /\ odcpiQ' = Append(odcpiQ, [what |-> "expire"])
  /\ UNCHANGED <<mOdcpiRequestCb, mOdcpiRequestActive, mOdcpiRequest,
                 mOdcpiTimer, locTimer, odcpiEvents, unasked>>

TakeOdcpi(w) ==
  /\ odcpiQ # <<>> /\ Head(odcpiQ).what = w
  /\ odcpiQ' = Tail(odcpiQ)
  /\ UNCHANGED <<firing, odcpiEvents>>

\* initOdcpi
InitOdcpi ==
  /\ TakeOdcpi("init")
  /\ mOdcpiRequestCb' = IF Head(odcpiQ).priority >= mOdcpiRequestCb
                        THEN Head(odcpiQ).priority ELSE mOdcpiRequestCb
  /\ UNCHANGED <<mOdcpiRequestActive, mOdcpiRequest, mOdcpiTimer, locTimer, unasked>>

\* requestOdcpi of a start
RequestOdcpi ==
  /\ TakeOdcpi("start")
  /\ LET em == Head(odcpiQ).emergency
         fresh == ~mOdcpiRequestActive /\ ~mOdcpiTimer
         upgrade == ~mOdcpiRequest /\ em
     IN \/ mOdcpiRequestCb = 0
           /\ UNCHANGED <<mOdcpiRequestActive, mOdcpiRequest, mOdcpiTimer,
                          locTimer, unasked>>
        \/ /\ mOdcpiRequestCb # 0 /\ mOdcpiRequest' = em
           /\ mOdcpiRequestActive' = TRUE
           /\ \/ /\ fresh \/ upgrade
                 /\ unasked' = FALSE /\ StartOdcpiTimer
              \/ /\ ~fresh /\ ~upgrade
                 /\ unasked' = (unasked \/ ~mOdcpiRequestActive)
                 /\ UNCHANGED <<mOdcpiTimer, locTimer>>
  /\ UNCHANGED mOdcpiRequestCb

\* requestOdcpi of a stop: the timer is left to expire.
StopOdcpi ==
  /\ TakeOdcpi("stop")
  /\ mOdcpiRequestActive' = (mOdcpiRequestActive /\ mOdcpiRequestCb = 0)
  /\ unasked' = (unasked /\ mOdcpiRequestCb = 0)
  /\ UNCHANGED <<mOdcpiRequestCb, mOdcpiRequest, mOdcpiTimer, locTimer>>

\* (mutant) the request is not made again when the timer expires
StopOnExpire == unasked' = unasked /\ StopOdcpiTimer
\* odcpiTimerExpire with a request still active
AskOnExpire == unasked' = FALSE /\ StartOdcpiTimer

\* odcpiTimerExpire
OdcpiTimerExpire ==
  /\ TakeOdcpi("expire")
  /\ \/ mOdcpiRequestActive /\ AskOnExpire
     \/ ~mOdcpiRequestActive /\ StopOdcpiTimer /\ UNCHANGED unasked
  /\ UNCHANGED <<mOdcpiRequestCb, mOdcpiRequestActive, mOdcpiRequest>>

\* restartSessions after the engine has come up again
OdcpiEngineUp ==
  /\ TakeOdcpi("engineUp")
  /\ mOdcpiRequestActive' = FALSE /\ unasked' = FALSE
  /\ UNCHANGED <<mOdcpiRequestCb, mOdcpiRequest, mOdcpiTimer, locTimer>>
-----------------------------------------------------------------------------
OdcpiAdapterStep ==
  InitOdcpi \/ RequestOdcpi \/ StopOdcpi \/ OdcpiTimerExpire \/ OdcpiEngineUp
OdcpiTimerStep == OdcpiTimerFires \/ OdcpiTimerPosts
OdcpiNext == OdcpiEvent \/ OdcpiTimerStep \/ OdcpiAdapterStep
-----------------------------------------------------------------------------
OdcpiTypeOK ==
  /\ mOdcpiRequestCb \in {0} \cup OdcpiPriority
  /\ \A b \in {mOdcpiRequestActive, mOdcpiRequest, mOdcpiTimer, locTimer,
               firing, unasked} : b \in BOOLEAN
  /\ \A i \in DOMAIN odcpiQ : odcpiQ[i] \in OdcpiMsg

\* A timer the adapter counts as active really runs, or its expiration is on
\* its way; otherwise no request would ever be passed on again (mActive against
\* the LocTimer, gps/gnss/GnssAdapter.h and requestOdcpi in GnssAdapter.cpp).
ActiveTimerExpires ==
  mOdcpiTimer => \/ locTimer \/ firing
                 \/ \E i \in DOMAIN odcpiQ : odcpiQ[i].what = "expire"

\* A request that comes while the timer runs is not forgotten: the framework is
\* asked when it expires, unless the modem stops the request or restarts
\* (requestOdcpi and odcpiTimerExpire, gps/gnss/GnssAdapter.cpp).
DelayedRequestPassedOn == unasked ~> ~unasked
=============================================================================
