------------------------ MODULE TimeTracking_proofs ------------------------
(***************************************************************************)
(* Proofs about time based sessions. As long as no client asks for a       *)
(* distance and no call of the engine fails, what the adapter last asked   *)
(* of the engine serves every session and the engine runs it, removing a   *)
(* client leaves none of its sessions and (without the NHz requirement) no *)
(* response is sent that nobody waits for. With crashes, and the calls     *)
(* that fail because of them, the engine serves the sessions again once it *)
(* was reopened and all is handled. And of any sessions, with distances,   *)
(* failures and crashes: which messages alone bring a stopped one back.    *)
(* Any number of clients, sessions, intervals, power modes, updates, stops *)
(* and reconfigurations.                                                   *)
(***************************************************************************)
EXTENDS GnssAdapter_proofs

\* No distances, no failures.
TimeBasedOnly == TRUE \notin Distance /\ ~EngineMayFail /\ MaxCrashes = 0

(***************************************************************************)
(* The inductive invariant                                                 *)
(***************************************************************************)

\* The options of a time based session, and those that the lambda of a reply keeps.
TimeOptions == {o \in Options : o.dist = FALSE /\ MinTrackingInterval <= o.interval}
Kept(kind) == IF kind = "updated" THEN TimeOptions ELSE {NoOptions}

\* The messages and calls that occur then: the outcome of a call is a success.
TimeReply == {"started", "updated", "stopped"}
TimeMessage == {m \in Message :
                  /\ m.kind \in {"Start", "Update"} => m.opts.dist = FALSE
                  /\ m.kind \in Reply => m.ok = TRUE /\ m.kind \in TimeReply}
TimeCall == {m \in ApiMessage :
               /\ m.op \in {"open", "ssr", "startTime", "stopTime"}
               /\ m.reply # NoReply => /\ m.reply.kind \in TimeReply
                                      /\ m.reply.opts \in Kept(m.reply.kind)}

MessagesTime == adapterQ \in Seq(TimeMessage) /\ pending = <<>>
CallsTime == apiQ \in Seq(TimeCall)
\* The engine is opened before the first call reaches it.
Running ==
  /\ engine.up \/ (apiQ # <<>> /\ Head(apiQ).op = "open")
  /\ budget.crashes = 0
NoDistance ==
  /\ DOMAIN distS = {}
  /\ loop.what \in {"removeDist", "restart", "engineUp"} => loop.left = {}

\* When the engine is taken to run at the highest rate it was asked to, and
\* that is fast enough for any session.
SpeFast == spe => nhz /\ asked.on /\ asked.interval <= MinTrackingInterval
NoFaster == \A id \in DOMAIN timeS : timeS[id] \in TimeOptions

\* Sessions belong to known clients; the loop that removes a client still has
\* all of its sessions before it.
Owned == \A id \in DOMAIN timeS : owner[id] \in registered
Removing ==
  /\ loop.what = "remove" =>
       /\ loop.left \subseteq DOMAIN timeS
       /\ \A id \in DOMAIN timeS : owner[id] = loop.who => id \in loop.left
  /\ loop.what = "removeDist" => \A id \in DOMAIN timeS : owner[id] # loop.who

\* A request that serves the sessions of S.
Serves(a, h, S) ==
  /\ a.on <=> S # {}
  /\ h <=> S # {}
  /\ \A id \in S : a.interval <= timeS[id].interval

Serving == Serves(asked, hub, DOMAIN timeS)

TimeInv ==
  /\ MessagesTime /\ CallsTime /\ Running /\ NoDistance
  /\ SpeFast /\ NoFaster /\ Owned /\ Removing /\ Serving

(***************************************************************************)
(* Queues                                                                  *)
(***************************************************************************)

\* CallsMade are only added to the LocApi's queue.
CallsMade == \E r \in Seq(TimeCall) : apiQ' = apiQ \o r

LEMMA CallsKeep ==
  ASSUME CallsTime, CallsMade
  PROVE  CallsTime' /\ (apiQ # <<>> => apiQ' # <<>> /\ Head(apiQ') = Head(apiQ))
<1>1. PICK r \in Seq(TimeCall) : apiQ' = apiQ \o r
  BY DEF CallsMade
<1>. QED  BY <1>1, PostMessages, PostKeepsHead DEF CallsTime

LEMMA RunningKeeps ==
  ASSUME CallsTime, Running, CallsMade, UNCHANGED <<engine, budget>>
  PROVE  CallsTime' /\ Running'
BY CallsKeep DEF Running

LEMMA NoCalls ==
  ASSUME CallsTime, UNCHANGED apiQ
  PROVE  CallsMade
<1>1. <<>> \in Seq(TimeCall) /\ apiQ' = apiQ \o <<>>
  BY DEF CallsTime
<1>. QED  BY <1>1 DEF CallsMade

LEMMA TakeTime ==
  ASSUME MessagesTime, NEW kind, Take(kind)
  PROVE  /\ Head1 \in TimeMessage /\ Head1.kind = kind
         /\ adapterQ' \in Seq(TimeMessage)
         /\ loop = Idle
         /\ UNCHANGED <<phase, owner, budget, engine>>
BY TakeHead DEF MessagesTime, Take, Head1, clientVars

LEMMA TimeCallOf ==
  ASSUME NEW o \in Options, NEW id \in Id, NEW kind \in TimeReply, NEW p \in Kept(kind),
         NEW op \in {"startTime", "stopTime"}
  PROVE  /\ Call(op, o, Session(kind, id, p)) \in TimeCall
         /\ Call(op, o, NoReply) \in TimeCall
<1>0. p \in Options
  BY NoOptionsType DEF Kept, TimeOptions
<1>1. Session(kind, id, p) \in SessionMessage
  BY <1>0, SessionIsMessage DEF TimeReply, SessionKind, Reply
<1>2. /\ Call(op, o, Session(kind, id, p)) \in ApiMessage
      /\ Call(op, o, NoReply) \in ApiMessage
  BY <1>1, CallType DEF ApiOp
<1>. QED  BY <1>2 DEF TimeCall, Call, Session

\* A reply that keeps no options, and the one that restores what a session had.
LEMMA KeptOptions ==
  /\ NoOptions \in Kept("started") /\ NoOptions \in Kept("stopped")
  /\ \A o \in TimeOptions : o \in Kept("updated") /\ o \in Options
BY DEF Kept, TimeOptions

(***************************************************************************)
(* The requests                                                            *)
(***************************************************************************)

\* What a start or update asks for is no slower than o, whether or not the
\* engine is taken to run at the highest rate already.
LEMMA TellEngineAsks ==
  ASSUME TypeOK, CallsTime, SpeFast, NEW id \in Id, NEW o \in Options,
         MinTrackingInterval <= o.interval,
         NEW kind \in TimeReply, NEW p \in Kept(kind),
         TellEngine(id, o, Session(kind, id, p), <<>>), UNCHANGED nhz
  PROVE  /\ CallsMade /\ SpeFast' /\ asked'.on = TRUE
         /\ asked'.interval \in Nat /\ asked'.interval <= o.interval
<1>. DEFINE o2 == SpeInterval(nhz, o)
            c == Call("startTime", o2, Session(kind, id, p))
<1>1. /\ o2 \in Options /\ o2.interval <= o.interval
      /\ o2 # o => nhz /\ o2.interval = MinTrackingInterval
  BY SpeIntervalType DEF TypeOK, AdapterType
<1>2. asked \in Asked /\ nhz \in BOOLEAN /\ spe \in BOOLEAN
  BY DEF TypeOK, RequestType, AdapterType, Asked
<1>4. CASE nhz /\ spe
  <2>1. apiQ' = apiQ \o <<>> /\ UNCHANGED <<spe, asked>>
    BY <1>4, Zenon DEF TellEngine
  <2>2. CallsMade
    <3>1. <<>> \in Seq(TimeCall)
      OBVIOUS
    <3>. QED  BY <2>1, <3>1 DEF CallsMade
  <2>3. asked.on /\ asked.interval <= MinTrackingInterval
    BY <1>4 DEF SpeFast
  <2>4. asked'.on = TRUE
    <3>1. asked.on \in BOOLEAN
      BY <1>2 DEF Asked
    <3>. QED  BY <2>1, <2>3, <3>1, Zenon
  <2>5. SpeFast'
    BY <2>1 DEF SpeFast
  <2>. QED  BY <1>2, <2>1, <2>2, <2>3, <2>4, <2>5, TrackingAssumption DEF Asked, Options
<1>5. CASE ~(nhz /\ spe)
  <2>1. /\ apiQ' = Append(apiQ, c) \o <<>>
        /\ spe' = (spe \/ o2 # o)
        /\ asked' = On(o2)
    BY <1>5 DEF TellEngine
  <2>2. c \in TimeCall
    BY <1>1, TimeCallOf
  <2>3. CallsMade
    <3>1. <<>> \in Seq(TimeCall)
      OBVIOUS
    <3>2. <<c>> \o <<>> \in Seq(TimeCall) /\ apiQ' = apiQ \o (<<c>> \o <<>>)
      BY <2>1, <2>2, <3>1, PostBefore DEF CallsTime
    <3>. QED  BY <3>2, Zenon DEF CallsMade
  <2>4. asked'.on = TRUE /\ asked'.interval = o2.interval
    BY <2>1 DEF On
  <2>5. ~spe
    BY <1>5 DEF SpeFast
  <2>6. spe' => o2 # o
    BY <2>1, <2>5, Zenon
  <2>7. SpeFast'
    <3>1. spe' => nhz /\ o2.interval = MinTrackingInterval
      BY <1>1, <2>6
    <3>2. MinTrackingInterval <= MinTrackingInterval
      BY TrackingAssumption
    <3>. QED  BY <2>4, <3>1, <3>2 DEF SpeFast
  <2>. QED  BY <1>1, <2>3, <2>4, <2>7 DEF Options
<1>. QED  BY <1>4, <1>5

\* Nothing changes when no call is made.
LEMMA NoCallAsks ==
  ASSUME CallsTime, SpeFast, NEW id, NEW answer, NoCall(id, answer, <<>>), UNCHANGED nhz
  PROVE  CallsMade /\ SpeFast' /\ UNCHANGED asked
<1>1. apiQ' = apiQ \o <<>> /\ UNCHANGED <<spe, asked>>
  BY DEF NoCall
<1>2. <<>> \in Seq(TimeCall)
  OBVIOUS
<1>. QED  BY <1>1, <1>2 DEF CallsMade, SpeFast

\* The smallest interval of S is no longer than any of S.
LEMMA SmallestServes ==
  ASSUME Sessions(timeS), NEW S \in SUBSET DOMAIN timeS, NEW k, FirstSmallest(S, k)
  PROVE  /\ k \in S /\ timeS[k] \in Options
         /\ \A i \in S : timeS[i] \in Options /\ timeS[k].interval <= timeS[i].interval
<1>1. \A i \in DOMAIN timeS : timeS[i] \in Options
  BY DEF Sessions
<1>2. \A i \in DOMAIN timeS : timeS[i].interval \in Nat
  BY <1>1 DEF Options
<1>. QED  BY <1>1, <1>2 DEF FirstSmallest

\* The last request serves every session.
Enough ==
  DOMAIN timeS # {} =>
    asked.on = TRUE /\ \A i \in DOMAIN timeS : asked.interval <= timeS[i].interval

\* What a start or an update must ask for: a fix that is fast enough for o and
\* for the sessions of S.
Asks(o, S) ==
  /\ asked'.on = TRUE /\ asked'.interval <= o.interval
  /\ \A i \in S : asked'.interval <= timeS[i].interval

LEMMA SessionInterval ==
  ASSUME TypeOK, NEW i \in DOMAIN timeS
  PROVE  timeS[i] \in Options /\ timeS[i].interval \in Nat /\ i \in Id
BY DEF TypeOK, SessionType, Sessions, Options

\* The multiplexing loop over S, for a session that is to run with o.
LEMMA PickAsks ==
  ASSUME TypeOK, CallsTime, SpeFast, NoFaster,
         NEW id \in Id, NEW o \in Options, MinTrackingInterval <= o.interval,
         NEW kind \in TimeReply, NEW q \in Kept(kind),
         NEW S \in SUBSET DOMAIN timeS, NEW k \in S, NEW p \in PowersOf(S),
         FirstSmallest(S, k), UNCHANGED nhz,
         IF o.interval < timeS[k].interval \/ o.power < p
         THEN TellEngine(id,
                [timeS[k] EXCEPT !.interval = IF o.interval < @ THEN o.interval ELSE @,
                                 !.power = IF o.power < p THEN o.power ELSE @],
                Session(kind, id, q), <<>>)
         ELSE NoCall(id, TRUE, <<>>)
  PROVE  CallsMade /\ SpeFast' /\ (Enough => Asks(o, S))
<1>. DEFINE r == [timeS[k] EXCEPT
                    !.interval = IF o.interval < @ THEN o.interval ELSE @,
                    !.power = IF o.power < p THEN o.power ELSE @]
<1>1. Sessions(timeS)
  BY DEF TypeOK, SessionType
<1>2. /\ timeS[k] \in Options
      /\ \A i \in S : timeS[i] \in Options /\ timeS[k].interval <= timeS[i].interval
  BY <1>1, SmallestServes
<1>3. r \in Options
  BY <1>1, PickType
<1>4. r.interval <= o.interval /\ r.interval <= timeS[k].interval
        /\ MinTrackingInterval <= r.interval
  BY <1>2, TrackingAssumption DEF Options, NoFaster, TimeOptions
<1>5. CASE TellEngine(id, r, Session(kind, id, q), <<>>)
  <2>1. /\ CallsMade /\ SpeFast' /\ asked'.on = TRUE
        /\ asked'.interval \in Nat /\ asked'.interval <= r.interval
    BY <1>3, <1>4, <1>5, TellEngineAsks
  <2>. HIDE DEF r
  <2>2. asked'.interval <= o.interval
    BY <1>3, <1>4, <2>1 DEF Options
  <2>3. \A i \in S : asked'.interval <= timeS[i].interval
    BY <1>2, <1>3, <1>4, <2>1 DEF Options
  <2>. QED  BY <2>1, <2>2, <2>3 DEF Asks
<1>6. CASE NoCall(id, TRUE, <<>>) /\ ~(o.interval < timeS[k].interval)
  <2>1. CallsMade /\ SpeFast' /\ UNCHANGED asked
    BY <1>6, NoCallAsks
  <2>2. asked \in Asked
    BY DEF TypeOK, RequestType, Asked
  <2>3. SUFFICES ASSUME Enough PROVE Asks(o, S)
    BY <2>1
  <2>4. asked.on = TRUE /\ \A i \in DOMAIN timeS : asked.interval <= timeS[i].interval
    BY <2>3 DEF Enough
  <2>5. asked.interval <= o.interval
    BY <1>2, <1>6, <2>2, <2>4 DEF Options, Asked
  <2>. QED  BY <2>1, <2>4, <2>5 DEF Asks
<1>. QED  BY <1>5, <1>6

LEMMA StartAsks ==
  ASSUME TypeOK, CallsTime, SpeFast, NoFaster,
         NEW id \in Id, NEW o \in Options, MinTrackingInterval <= o.interval,
         StartMultiplex(id, o), UNCHANGED nhz
  PROVE  CallsMade /\ SpeFast' /\ (Enough => Asks(o, DOMAIN timeS))
<1>1. NoOptions \in Kept("started") /\ "started" \in TimeReply
  BY KeptOptions DEF TimeReply
<1>2. CASE DOMAIN timeS = {}
  <2>1. TellEngine(id, o, Session("started", id, NoOptions), <<>>)
    BY <1>2 DEF StartMultiplex
  <2>2. CallsMade /\ SpeFast' /\ asked'.on = TRUE /\ asked'.interval <= o.interval
    BY <1>1, <2>1, TellEngineAsks
  <2>. QED  BY <1>2, <2>2 DEF Asks
<1>3. CASE DOMAIN timeS # {}
  BY <1>1, <1>3, PickAsks DEF StartMultiplex
<1>. QED  BY <1>2, <1>3

LEMMA UpdateAsks ==
  ASSUME TypeOK, CallsTime, SpeFast, NoFaster,
         NEW id \in DOMAIN timeS, NEW o \in Options, MinTrackingInterval <= o.interval,
         UpdateMultiplex(id, o), UNCHANGED nhz
  PROVE  CallsMade /\ SpeFast' /\ (Enough => Asks(o, DOMAIN timeS \ {id}))
<1>. DEFINE S == DOMAIN timeS \ {id}
<1>1. id \in Id /\ timeS[id] \in Kept("updated") /\ "updated" \in TimeReply
  BY SessionInterval, KeptOptions DEF TimeReply, NoFaster
<1>2. CASE timeS[id].interval = o.interval /\ timeS[id].power = o.power
  <2>1. CallsMade /\ SpeFast' /\ UNCHANGED asked
    BY <1>2, NoCallAsks DEF UpdateMultiplex
  <2>. QED  BY <1>2, <2>1 DEF Asks, Enough
<1>3. CASE ~(timeS[id].interval = o.interval /\ timeS[id].power = o.power)
  <2>1. CASE S = {}
    <3>1. TellEngine(id, o, Session("updated", id, timeS[id]), <<>>)
      BY <1>3, <2>1 DEF UpdateMultiplex
    <3>2. CallsMade /\ SpeFast' /\ asked'.on = TRUE /\ asked'.interval <= o.interval
      BY <1>1, <3>1, TellEngineAsks
    <3>. QED  BY <2>1, <3>2 DEF Asks
  <2>2. CASE S # {}
    BY <1>1, <1>3, <2>2, PickAsks DEF UpdateMultiplex
  <2>. QED  BY <2>1, <2>2
<1>. QED  BY <1>2, <1>3

\* A stop leaves a request that serves the sessions that stay.
LEMMA StopAsks ==
  ASSUME TypeOK, CallsTime, SpeFast, NoFaster,
         NEW id \in DOMAIN timeS, NEW answer,
         StopMultiplex(id, answer, <<>>), UNCHANGED nhz
  PROVE  LET S == DOMAIN timeS \ {id}
         IN /\ CallsMade /\ SpeFast'
            /\ S = {} => spe' = FALSE
            /\ S # {} /\ Enough =>
                 asked'.on = TRUE /\ \A i \in S : asked'.interval <= timeS[i].interval
<1>. DEFINE S == DOMAIN timeS \ {id}
            halt == Call("stopTime", NoOptions, Session("stopped", id, NoOptions))
<1>1. /\ id \in Id /\ NoOptions \in Options /\ {"stopped", "started"} \subseteq TimeReply
      /\ NoOptions \in Kept("started") /\ NoOptions \in Kept("stopped")
  BY SessionInterval, NoOptionsType, KeptOptions DEF TimeReply
<1>2. CASE S = {}
  <2>1. spe' = FALSE /\ apiQ' = Append(apiQ, halt) \o <<>>
    BY <1>2 DEF StopMultiplex
  <2>2. halt \in TimeCall
    BY <1>1, TimeCallOf
  <2>3. CallsMade
    <3>1. <<>> \in Seq(TimeCall)
      OBVIOUS
    <3>2. <<halt>> \o <<>> \in Seq(TimeCall) /\ apiQ' = apiQ \o (<<halt>> \o <<>>)
      BY <2>1, <2>2, <3>1, PostBefore DEF CallsTime
    <3>. QED  BY <3>2, Zenon DEF CallsMade
  <2>4. SpeFast'
    BY <2>1 DEF SpeFast
  <2>. QED  BY <1>2, <2>1, <2>3, <2>4
<1>3. CASE S # {}
  <2>1. PICK k \in S, p \in PowersOf(S) :
           /\ FirstSmallest(S, k)
           /\ \/ TellEngine(id, [timeS[k] EXCEPT !.power = p],
                            Session("started", id, NoOptions), <<>>)
              \/ NoCall(id, answer, <<>>)
    BY <1>3 DEF StopMultiplex
  <2>2. CASE NoCall(id, answer, <<>>)
    <3>1. CallsMade /\ SpeFast' /\ UNCHANGED asked
      BY <2>2, NoCallAsks
    <3>. QED  BY <1>3, <3>1 DEF Enough
  <2>3. CASE TellEngine(id, [timeS[k] EXCEPT !.power = p],
                        Session("started", id, NoOptions), <<>>)
    <3>. DEFINE o == [timeS[k] EXCEPT !.power = p]
    <3>1. Sessions(timeS)
      BY DEF TypeOK, SessionType
    <3>2. /\ timeS[k] \in Options
          /\ \A i \in S : timeS[i] \in Options /\ timeS[k].interval <= timeS[i].interval
      BY <2>1, <3>1, SmallestServes
    <3>3. o \in Options
      BY <1>1, <3>1, PickType
    <3>4. o.interval = timeS[k].interval /\ MinTrackingInterval <= o.interval
      BY <3>2 DEF Options, NoFaster, TimeOptions
    <3>5. /\ CallsMade /\ SpeFast' /\ asked'.on = TRUE
          /\ asked'.interval \in Nat /\ asked'.interval <= o.interval
      BY <1>1, <2>3, <3>3, <3>4, TellEngineAsks
    <3>. HIDE DEF o
    <3>6. \A i \in S : asked'.interval <= timeS[i].interval
      BY <3>2, <3>3, <3>4, <3>5 DEF Options
    <3>. QED  BY <1>3, <3>5, <3>6
  <2>. QED  BY <2>1, <2>2, <2>3
<1>. QED  BY <1>2, <1>3

\* A restart asks for a fix that serves every session, at the highest rate
\* when that is needed from now on, whatever was asked before.
LEMMA RestartAsks ==
  ASSUME TypeOK, CallsTime,
         NEW needed \in BOOLEAN, nhz' = needed,
         NEW before \in Seq(TimeCall), RestartTime(needed, before)
  PROVE  /\ CallsMade /\ SpeFast'
         /\ DOMAIN timeS = {} => spe' = FALSE /\ UNCHANGED asked
         /\ DOMAIN timeS # {} =>
              /\ asked'.on = TRUE
              /\ \A i \in DOMAIN timeS : asked'.interval <= timeS[i].interval
<1>. DEFINE S == DOMAIN timeS
<1>1. CASE S = {}
  <2>1. apiQ' = apiQ \o before /\ spe' = FALSE /\ UNCHANGED asked
    BY <1>1 DEF RestartTime
  <2>. QED  BY <1>1, <2>1 DEF CallsMade, SpeFast
<1>2. CASE S # {}
  <2>1. PICK k \in S, p \in PowersOf(S) :
          /\ FirstSmallest(S, k)
          /\ LET o == [timeS[k] EXCEPT !.power = p]
                 o2 == SpeInterval(needed, o)
             IN /\ apiQ' = Append(apiQ \o before, Call("startTime", o2, NoReply))
                /\ spe' = (o2 # o)
                /\ asked' = On(o2)
    BY <1>2 DEF RestartTime
  <2>. DEFINE o == [timeS[k] EXCEPT !.power = p]
              o2 == SpeInterval(needed, o)
              c == Call("startTime", o2, NoReply)
  <2>2. Sessions(timeS)
    BY DEF TypeOK, SessionType
  <2>3. /\ timeS[k] \in Options
        /\ \A i \in S : timeS[i] \in Options /\ timeS[k].interval <= timeS[i].interval
    BY <2>1, <2>2, SmallestServes
  <2>4. o \in Options /\ o.interval = timeS[k].interval
    BY <2>2, <2>3, PickType, NoOptionsType DEF Options
  <2>5. /\ o2 \in Options /\ o2.interval <= o.interval
        /\ o2 # o => needed /\ o2.interval = MinTrackingInterval
    BY <2>4, SpeIntervalType
  <2>6. asked'.on = TRUE /\ asked'.interval = o2.interval
    BY <2>1 DEF On
  <2>7. CallsMade
    <3>1. c \in TimeCall
      <4>1. c \in ApiMessage
        BY <2>5, CallType DEF ApiOp
      <4>. QED  BY <4>1 DEF TimeCall, Call
    <3>2. Append(before, c) \in Seq(TimeCall)
      BY <3>1, PostMessage
    <3>3. apiQ' = apiQ \o Append(before, c)
      <4>1. before \in Seq(TimeCall) /\ apiQ \in Seq(TimeCall)
        BY DEF CallsTime
      <4>2. apiQ' = Append(apiQ \o before, c)
        BY <2>1
      <4>. HIDE DEF c
      <4>3. Append(apiQ \o before, c) = apiQ \o Append(before, c)
        BY <3>1, <4>1
      <4>. QED  BY <4>2, <4>3
    <3>. QED  BY <3>2, <3>3, Zenon DEF CallsMade
  <2>8. SpeFast'
    <3>1. spe' => o2 # o
      BY <2>1
    <3>2. spe' => needed /\ o2.interval = MinTrackingInterval
      BY <2>5, <3>1, Zenon
    <3>3. MinTrackingInterval <= MinTrackingInterval
      BY TrackingAssumption
    <3>. QED  BY <2>6, <3>2, <3>3 DEF SpeFast
  <2>9. \A i \in S : asked'.interval <= timeS[i].interval
    <3>. HIDE DEF o, o2
    <3>1. o2.interval \in Nat /\ o2.interval <= timeS[k].interval
      BY <2>4, <2>5 DEF Options
    <3>. QED  BY <2>3, <2>6, <3>1 DEF Options
  <2>. QED  BY <1>2, <2>6, <2>7, <2>8, <2>9
<1>. QED  BY <1>1, <1>2

\* When nothing fails, the engine hub is told the same and a fix is asked for
\* exactly while there are sessions.
LEMMA HubTold ==
  ASSUME TypeOK, Serving, NEW id, NEW o
  PROVE  /\ StartMultiplex(id, o) => hub' = TRUE
         /\ id \in DOMAIN timeS /\ UpdateMultiplex(id, o) => hub' = TRUE
         /\ Enough
<1>1. DOMAIN timeS # {} => hub = TRUE /\ asked.on = TRUE
  <2>1. hub \in BOOLEAN /\ asked.on \in BOOLEAN
    BY DEF TypeOK, RequestType
  <2>. QED  BY <2>1, Zenon DEF Serving, Serves
<1>2. StartMultiplex(id, o) => hub' = TRUE \/ (UNCHANGED hub /\ DOMAIN timeS # {})
  BY DEF StartMultiplex, TellEngine, NoCall
<1>3. UpdateMultiplex(id, o) => hub' = TRUE \/ UNCHANGED hub
  BY DEF UpdateMultiplex, TellEngine, NoCall
<1>. QED  BY <1>1, <1>2, <1>3 DEF Enough, Serving, Serves

LEMMA StopServes ==
  ASSUME TypeOK, CallsTime, SpeFast, NoFaster, Serving,
         NEW id \in DOMAIN timeS, NEW answer,
         StopMultiplex(id, answer, <<>>), UNCHANGED nhz
  PROVE  CallsMade /\ SpeFast' /\ Serves(asked', hub', DOMAIN timeS \ {id})
<1>. DEFINE S == DOMAIN timeS \ {id}
<1>1. /\ CallsMade /\ SpeFast'
      /\ S # {} => asked'.on = TRUE /\ \A i \in S : asked'.interval <= timeS[i].interval
  BY StopAsks, HubTold
<1>2. CASE S = {}
  <2>1. hub' = FALSE /\ asked' = Off
    BY <1>2 DEF StopMultiplex
  <2>. QED  BY <1>1, <1>2, <2>1 DEF Serves, Off
<1>3. CASE S # {}
  <2>1. hub' = TRUE \/ UNCHANGED hub
    BY <1>3 DEF StopMultiplex, TellEngine, NoCall
  <2>2. hub' = TRUE
    <3>1. hub \in BOOLEAN /\ DOMAIN timeS # {}
      BY DEF TypeOK, RequestType
    <3>. QED  BY <2>1, <3>1, Zenon DEF Serving, Serves
  <2>. QED  BY <1>1, <1>3, <2>2 DEF Serves
<1>. QED  BY <1>2, <1>3

(***************************************************************************)
(* The steps                                                               *)
(***************************************************************************)

\* The parts of TimeInv that say which session needs what and belongs to whom.
SessionsInv == SpeFast /\ NoFaster /\ Owned /\ Removing /\ Serving

LEMMA SessionsKeep ==
  ASSUME NoDistance, SessionsInv,
         UNCHANGED <<timeS, distS, owner, registered, loop, nhz, spe, hub, asked>>
  PROVE  NoDistance' /\ SessionsInv'
BY DEF NoDistance, SessionsInv, SpeFast, NoFaster, Owned, Removing, Serving, Serves

\* A command that is posted waits behind the others; giving a new id to a
\* client changes the owner of no session.
LEMMA PostKeeps ==
  ASSUME TimeInv, NEW m \in TimeMessage, Post(m), budget'.crashes = 0,
         \A i \in DOMAIN timeS : owner'[i] = owner[i]
  PROVE  TimeInv'
<1>1. MessagesTime'
  BY PostMessage DEF TimeInv, MessagesTime, Post
<1>2. CallsTime' /\ Running'
  BY DEF TimeInv, CallsTime, Running, Post, engineCall
<1>3. NoDistance' /\ SpeFast' /\ NoFaster' /\ Serving'
  BY DEF TimeInv, NoDistance, SpeFast, NoFaster, Serving, Serves, Post, sessionVars, engineCall
<1>4. Owned' /\ Removing'
  BY DEF TimeInv, Owned, Removing, Post, sessionVars
<1>. QED  BY <1>1, <1>2, <1>3, <1>4 DEF TimeInv

LEMMA ClientThreadKeeps == TimeBasedOnly /\ TypeOK /\ TimeInv /\ ClientThread => TimeInv'
<1>. SUFFICES ASSUME TimeBasedOnly, TypeOK, TimeInv, ClientThread PROVE TimeInv'
  OBVIOUS
<1>0. budget \in [updates : Nat, stops : Nat, crashes : Nat, reconfigs : Nat, nhz : Nat]
        /\ budget.crashes = 0
  BY DEF TypeOK, ClientType, TimeInv, Running
<1>1. ASSUME NEW kind \in {"Start", "Update", "Stop"}, NEW id \in Id, NEW o \in Options,
             o.dist = FALSE
      PROVE  Session(kind, id, o) \in TimeMessage
  <2>1. Session(kind, id, o) \in Message
    BY SessionIsMessage, MessageOfSession DEF SessionKind
  <2>. QED  BY <1>1, <2>1 DEF TimeMessage, Session, Reply
<1>2. \A o \in ClientOptions : o \in Options /\ o.dist = FALSE
  BY TrackingAssumption DEF ClientOptions, Options, TimeBasedOnly
<1>3. ASSUME NEW c \in Client, Create(c) \/ Destroy(c) PROVE TimeInv'
  <2>1. About("Add", c) \in TimeMessage /\ About("Remove", c) \in TimeMessage
    BY DEF About, TimeMessage, Message, ClientMessage, Reply
  <2>. QED  BY <1>0, <1>3, <2>1, PostKeeps DEF Create, Destroy
<1>4. ASSUME NEW c \in Client, NEW o \in ClientOptions, StartTracking(c, o) PROVE TimeInv'
  <2>1. PICK id \in Id : /\ owner[id] = Nobody
                         /\ owner' = [owner EXCEPT ![id] = c]
                         /\ Post(Session("Start", id, o))
    BY <1>4 DEF StartTracking
  <2>2. \A i \in DOMAIN timeS : owner[i] # Nobody
    BY TrackingAssumption DEF TimeInv, Owned, TypeOK, SessionType
  <2>3. \A i \in DOMAIN timeS : owner'[i] = owner[i]
    <3>1. owner \in [Id -> Client \cup {Nobody}] /\ DOMAIN timeS \subseteq Id
      BY DEF TypeOK, ClientType, SessionType, Sessions
    <3>. QED  BY <2>1, <2>2, <3>1
  <2>. QED  BY <1>0, <1>1, <1>2, <1>4, <2>1, <2>3, PostKeeps DEF StartTracking
<1>5. ASSUME NEW id \in Id, NEW o \in ClientOptions, UpdateTracking(id, o) PROVE TimeInv'
  BY <1>0, <1>1, <1>2, <1>5, PostKeeps DEF UpdateTracking
<1>6. ASSUME NEW id \in Id, StopTracking(id) PROVE TimeInv'
  BY <1>0, <1>1, <1>6, NoOptionsType, PostKeeps DEF StopTracking, NoOptions
<1>7. CASE UpdateConfig
  <2>1. About("Reconfig", Nobody) \in TimeMessage
    BY DEF About, TimeMessage, Message, EngineMessage, Reply
  <2>. QED  BY <1>0, <1>7, <2>1, PostKeeps DEF UpdateConfig
<1>. QED  BY <1>3, <1>4, <1>5, <1>6, <1>7 DEF ClientThread

\* Of a handler only what it does to the sessions is left to show.
LEMMA HandlerKeeps ==
  ASSUME TimeInv, NEW kind, Take(kind), UNCHANGED pending, CallsMade,
         NoDistance', SessionsInv'
  PROVE  TimeInv'
<1>1. adapterQ' \in Seq(TimeMessage) /\ UNCHANGED <<budget, engine>>
  BY TakeTime DEF TimeInv
<1>2. MessagesTime'
  BY <1>1 DEF TimeInv, MessagesTime
<1>3. CallsTime' /\ Running'
  BY <1>1, RunningKeeps DEF TimeInv
<1>. QED  BY <1>2, <1>3 DEF TimeInv, SessionsInv

\* A handler that neither calls the engine nor changes a session.
LEMMA QuietHandler ==
  ASSUME TimeInv, NEW kind, Take(kind),
         UNCHANGED <<timeS, distS, registered, loop, nhz, hub, spe, asked, apiQ, pending>>
  PROVE  TimeInv'
<1>1. UNCHANGED owner
  BY DEF Take, clientVars
<1>2. NoDistance' /\ SessionsInv'
  BY <1>1, SessionsKeep DEF TimeInv, SessionsInv
<1>3. CallsMade
  BY NoCalls DEF TimeInv
<1>. QED  BY <1>2, <1>3, HandlerKeeps

\* A session starts or is changed to o, and the engine was asked for it.
LEMMA SavedKeeps ==
  ASSUME TypeOK, TimeInv, loop = Idle,
         NEW id \in Id, NEW o \in TimeOptions,
         owner[id] \in registered, timeS' = With(timeS, id, o),
         Asks(o, DOMAIN timeS \ {id}), SpeFast', hub' = TRUE,
         UNCHANGED <<distS, owner, registered, loop, nhz>>
  PROVE  NoDistance' /\ SessionsInv'
<1>1. /\ DOMAIN timeS' = DOMAIN timeS \cup {id}
      /\ timeS'[id] = o
      /\ \A i \in DOMAIN timeS \ {id} : timeS'[i] = timeS[i]
  BY DEF With
<1>2. NoDistance' /\ Owned' /\ Removing'
  BY <1>1 DEF TimeInv, NoDistance, Owned, Removing, Idle
<1>3. NoFaster'
  BY <1>1 DEF TimeInv, NoFaster
<1>4. Serving'
  <2>1. \A i \in DOMAIN timeS' : asked'.interval <= timeS'[i].interval
    BY <1>1 DEF Asks
  <2>2. DOMAIN timeS' # {}
    BY <1>1
  <2>3. asked'.on = TRUE
    BY DEF Asks
  <2>. QED  BY <2>1, <2>2, <2>3 DEF Serving, Serves
<1>. QED  BY <1>2, <1>3, <1>4 DEF SessionsInv

\* The adapter knows more clients.
LEMMA AddClientKeeps == TypeOK /\ TimeInv /\ AddClient => TimeInv'
<1>. SUFFICES ASSUME TypeOK, TimeInv, AddClient PROVE TimeInv'
  OBVIOUS
<1>1. Take("Add") /\ UNCHANGED owner /\ loop = Idle
  BY DEF AddClient, Take, clientVars
<1>2. NoDistance' /\ SpeFast' /\ NoFaster' /\ Serving'
  BY DEF TimeInv, NoDistance, SpeFast, NoFaster, Serving, Serves, AddClient, engineCall
<1>3. Owned' /\ Removing'
  BY <1>1 DEF TimeInv, Owned, Removing, AddClient
<1>4. CallsMade
  BY NoCalls DEF TimeInv, AddClient, engineCall
<1>. QED  BY <1>1, <1>2, <1>3, <1>4, HandlerKeeps DEF AddClient, SessionsInv

\* What the handlers of session commands find at the head of the queue.
LEMMA CommandHead ==
  ASSUME TypeOK, TimeInv, NEW kind \in {"Start", "Update", "Stop"}, Take(kind)
  PROVE  /\ Head1.id \in Id /\ Clamp(Head1.opts) \in Options
         /\ MinTrackingInterval <= Clamp(Head1.opts).interval
         /\ kind # "Stop" => /\ Head1.opts.dist = FALSE /\ Clamp(Head1.opts).dist = FALSE
                            /\ Clamp(Head1.opts) \in TimeOptions
         /\ loop = Idle /\ UNCHANGED owner
<1>1. Head1.id \in Id /\ Head1.opts \in Options
  BY SessionHead DEF SessionKind
<1>2. Head1 \in TimeMessage /\ Head1.kind = kind /\ loop = Idle /\ UNCHANGED owner
  BY TakeTime DEF TimeInv
<1>3. /\ Clamp(Head1.opts) \in Options /\ Clamp(Head1.opts).dist = Head1.opts.dist
      /\ Clamp(Head1.opts).interval >= MinTrackingInterval
  BY <1>1, ClampType
<1>4. MinTrackingInterval <= Clamp(Head1.opts).interval
  BY <1>3, TrackingAssumption DEF Options
<1>. QED  BY <1>1, <1>2, <1>3, <1>4 DEF TimeMessage, TimeOptions

LEMMA StartKeeps == TypeOK /\ TimeInv /\ Start => TimeInv'
<1>. SUFFICES ASSUME TypeOK, TimeInv, Start PROVE TimeInv'
  OBVIOUS
<1>. DEFINE id == Head1.id
            o == Clamp(Head1.opts)
<1>1. Take("Start")
  BY DEF Start
<1>2. /\ id \in Id /\ o \in TimeOptions /\ o \in Options /\ MinTrackingInterval <= o.interval
      /\ Head1.opts.dist = FALSE /\ o.dist = FALSE /\ loop = Idle /\ UNCHANGED owner
  BY <1>1, CommandHead
<1>3. ~MustWait /\ ~IsDistance(o)
  BY <1>2 DEF MustWait, IsDistance
<1>4. CASE UNCHANGED <<sessionVars, due, engineCall, caps, pending, nhz, loop, stopped>>
  BY <1>1, <1>4, QuietHandler DEF sessionVars, engineCall
<1>5. CASE /\ HasCallbacks(owner[id]) /\ Save(id, o) /\ StartMultiplex(id, o)
           /\ UNCHANGED <<registered, caps, pending, nhz, loop, stopped>>
  <2>1. timeS' = With(timeS, id, o) /\ UNCHANGED distS
    BY <1>3, <1>5 DEF Save
  <2>2. owner[id] \in registered
    BY <1>5 DEF HasCallbacks
  <2>3. CallsMade /\ SpeFast' /\ Asks(o, DOMAIN timeS) /\ hub' = TRUE
    <3>1. Enough /\ hub' = TRUE
      BY <1>5, HubTold DEF TimeInv
    <3>. QED  BY <1>2, <1>5, <3>1, StartAsks DEF TimeInv
  <2>4. Asks(o, DOMAIN timeS \ {id})
    BY <2>3 DEF Asks
  <2>5. NoDistance' /\ SessionsInv'
    <3>. HIDE DEF id, o
    <3>. QED  BY <1>2, <1>5, <2>1, <2>2, <2>3, <2>4, SavedKeeps
  <2>. QED  BY <1>1, <1>5, <2>3, <2>5, HandlerKeeps
<1>. QED  BY <1>3, <1>4, <1>5 DEF Start

LEMMA UpdateKeeps == TypeOK /\ TimeInv /\ Update => TimeInv'
<1>. SUFFICES ASSUME TypeOK, TimeInv, Update PROVE TimeInv'
  OBVIOUS
<1>. DEFINE id == Head1.id
            o == Clamp(Head1.opts)
<1>1. Take("Update")
  BY DEF Update
<1>2. /\ id \in Id /\ o \in TimeOptions /\ o \in Options /\ MinTrackingInterval <= o.interval
      /\ Head1.opts.dist = FALSE /\ o.dist = FALSE /\ loop = Idle /\ UNCHANGED owner
  BY <1>1, CommandHead
<1>3. ~MustWait /\ ~IsDistance(o) /\ id \notin DOMAIN distS
  BY <1>2 DEF MustWait, IsDistance, TimeInv, NoDistance
<1>4. UNCHANGED <<registered, caps, pending, nhz, loop, stopped>>
  BY <1>3 DEF Update
<1>5. CASE UNCHANGED <<timeS, distS, engineCall>>
  BY <1>1, <1>4, <1>5, QuietHandler DEF engineCall
<1>6. CASE id \in DOMAIN timeS /\ Save(id, o) /\ UpdateMultiplex(id, o)
  <2>1. timeS' = With(timeS, id, o) /\ UNCHANGED distS
    BY <1>3, <1>6 DEF Save
  <2>2. owner[id] \in registered
    BY <1>6 DEF TimeInv, Owned
  <2>3. CallsMade /\ SpeFast' /\ Asks(o, DOMAIN timeS \ {id}) /\ hub' = TRUE
    <3>1. Enough /\ hub' = TRUE
      BY <1>6, HubTold DEF TimeInv
    <3>. QED  BY <1>2, <1>4, <1>6, <3>1, UpdateAsks DEF TimeInv
  <2>4. NoDistance' /\ SessionsInv'
    <3>. HIDE DEF id, o
    <3>. QED  BY <1>2, <1>4, <2>1, <2>2, <2>3, SavedKeeps
  <2>. QED  BY <1>1, <1>4, <2>3, <2>4, HandlerKeeps
<1>. QED  BY <1>2, <1>3, <1>5, <1>6 DEF Update

\* A session is erased and the engine was asked to serve the others.
LEMMA ErasedKeeps ==
  ASSUME TypeOK, TimeInv, NEW id \in DOMAIN timeS, Erase(id),
         SpeFast', Serves(asked', hub', DOMAIN timeS \ {id}),
         UNCHANGED <<owner, registered>>
  PROVE  /\ DOMAIN timeS' = DOMAIN timeS \ {id} /\ DOMAIN distS' = {}
         /\ SpeFast' /\ NoFaster' /\ Owned' /\ Serving'
<1>1. /\ DOMAIN timeS' = DOMAIN timeS \ {id} /\ UNCHANGED distS
      /\ \A i \in DOMAIN timeS' : timeS'[i] = timeS[i]
  BY DEF Erase, Without
<1>2. Serving'
  BY <1>1 DEF Serving, Serves
<1>. QED  BY <1>1, <1>2 DEF TimeInv, NoDistance, NoFaster, Owned

LEMMA StopKeeps == TypeOK /\ TimeInv /\ Stop => TimeInv'
<1>. SUFFICES ASSUME TypeOK, TimeInv, Stop PROVE TimeInv'
  OBVIOUS
<1>. DEFINE id == Head1.id
<1>1. Take("Stop") /\ UNCHANGED <<registered, caps, pending, nhz, loop>>
  BY DEF Stop
<1>2. loop = Idle /\ UNCHANGED owner
  BY <1>1, CommandHead
<1>3. CASE UNCHANGED <<timeS, distS, engineCall>>
  BY <1>1, <1>3, QuietHandler DEF engineCall
<1>4. CASE id \in DOMAIN timeS /\ StopMultiplex(id, TRUE, <<>>) /\ Erase(id)
  <2>1. CallsMade /\ SpeFast' /\ Serves(asked', hub', DOMAIN timeS \ {id})
    BY <1>1, <1>4, StopServes DEF TimeInv
  <2>2. DOMAIN distS' = {} /\ NoFaster' /\ Owned' /\ Serving'
    BY <1>1, <1>2, <1>4, <2>1, ErasedKeeps
  <2>3. NoDistance' /\ Removing'
    BY <1>1, <1>2, <2>2 DEF NoDistance, Removing, Idle
  <2>. QED  BY <1>1, <2>1, <2>2, <2>3, HandlerKeeps DEF SessionsInv
<1>. QED  BY <1>3, <1>4 DEF Stop, TimeInv, NoDistance

LEMMA RemoveKeeps == TypeOK /\ TimeInv /\ Remove => TimeInv'
<1>. SUFFICES ASSUME TypeOK, TimeInv, Remove PROVE TimeInv'
  OBVIOUS
<1>1. Take("Remove") /\ UNCHANGED owner
  BY DEF Remove, Take, clientVars
<1>2. NoDistance'
  BY DEF Remove, sessionVars, TimeInv, NoDistance, Doing
<1>3. SpeFast' /\ NoFaster' /\ Owned' /\ Serving'
  BY <1>1 DEF Remove, sessionVars, engineCall, TimeInv, SpeFast, NoFaster, Owned, Serving, Serves
<1>4. Removing'
  BY <1>1 DEF Remove, sessionVars, Removing, Doing, SessionsOf
<1>5. CallsMade
  BY NoCalls DEF TimeInv, Remove, engineCall
<1>. QED  BY <1>1, <1>2, <1>3, <1>4, <1>5, HandlerKeeps DEF Remove, SessionsInv

LEMMA EngineUpKeeps == TypeOK /\ TimeInv /\ (EngineUp \/ Reconfig) => TimeInv'
<1>. SUFFICES ASSUME TypeOK, TimeInv, EngineUp \/ Reconfig PROVE TimeInv'
  OBVIOUS
<1>. DEFINE halt == Call("stopTime", NoOptions, NoReply)
<1>1. PICK kind : Take(kind)
  BY DEF EngineUp, Reconfig
<1>2. UNCHANGED <<owner, timeS, distS, registered, pending, nhz>>
  BY <1>1 DEF Take, clientVars, EngineUp, Reconfig, sessionVars
<1>3. PICK before \in {<<>>, <<halt>>} : RestartTime(nhz, before)
  BY DEF EngineUp, Reconfig
<1>4. before \in Seq(TimeCall)
  <2>1. halt \in TimeCall
    <3>1. halt \in ApiMessage
      BY CallType, NoOptionsType DEF ApiOp
    <3>. QED  BY <3>1 DEF TimeCall, Call
  <2>2. <<>> \in Seq(TimeCall) /\ <<halt>> \in Seq(TimeCall)
    BY <2>1
  <2>. QED  BY <2>2, Zenon
<1>5. nhz \in BOOLEAN /\ nhz' = nhz
  BY <1>2 DEF TypeOK, AdapterType
<1>6. /\ CallsMade /\ SpeFast'
      /\ asked'.on <=> DOMAIN timeS # {}
      /\ \A i \in DOMAIN timeS : asked'.interval <= timeS[i].interval
  BY <1>3, <1>4, <1>5, RestartAsks DEF TimeInv, Serving, Serves
<1>7. hub' <=> DOMAIN timeS # {}
  <2>1. hub' = (hub \/ DOMAIN timeS # {})
    BY DEF EngineUp, Reconfig
  <2>2. hub \in BOOLEAN /\ (hub <=> DOMAIN timeS # {})
    BY DEF TypeOK, RequestType, TimeInv, Serving, Serves
  <2>. QED  BY <2>1, <2>2, Zenon
<1>8. Serving' /\ NoFaster' /\ Owned'
  BY <1>2, <1>6, <1>7 DEF TimeInv, Serving, Serves, NoFaster, Owned
<1>9. NoDistance' /\ Removing'
  <2>1. PICK what \in {"restart", "engineUp"} : loop' = Doing(what, {}, Nobody)
    BY DEF EngineUp, Reconfig, RestartDistance, TimeInv, NoDistance
  <2>. QED  BY <1>2, <2>1 DEF TimeInv, NoDistance, Removing, Doing
<1>. QED  BY <1>1, <1>2, <1>6, <1>8, <1>9, HandlerKeeps DEF SessionsInv

LEMMA SetNHzKeeps == TypeOK /\ TimeInv /\ SetNHz => TimeInv'
<1>. SUFFICES ASSUME TypeOK, TimeInv, SetNHz PROVE TimeInv'
  OBVIOUS
<1>1. UNCHANGED <<owner, timeS, distS, registered, pending, hub, adapterQ, engine>>
  BY DEF SetNHz, sessionVars
<1>2. nhz' \in BOOLEAN
  <2>1. nhz' = ~nhz
    BY DEF SetNHz
  <2>. QED  BY <2>1, Zenon
<1>3. /\ CallsMade /\ SpeFast'
      /\ asked'.on <=> DOMAIN timeS # {}
      /\ \A i \in DOMAIN timeS : asked'.interval <= timeS[i].interval
  <2>1. <<>> \in Seq(TimeCall)
    OBVIOUS
  <2>. QED  BY <1>2, <2>1, RestartAsks DEF SetNHz, TimeInv, Serving, Serves
<1>4. Serving' /\ NoFaster' /\ Owned'
  BY <1>1, <1>3 DEF TimeInv, Serving, Serves, NoFaster, Owned
<1>5. NoDistance' /\ Removing'
  <2>1. loop' = Doing("restart", {}, Nobody)
    BY DEF SetNHz, RestartDistance, TimeInv, NoDistance
  <2>. QED  BY <1>1, <2>1 DEF TimeInv, NoDistance, Removing, Doing
<1>6. MessagesTime'
  BY <1>1 DEF TimeInv, MessagesTime
<1>7. CallsTime' /\ Running'
  <2>1. budget'.crashes = budget.crashes
    BY DEF SetNHz, TypeOK, ClientType
  <2>. QED  BY <1>1, <1>3, <2>1, CallsKeep DEF TimeInv, Running
<1>. QED  BY <1>3, <1>4, <1>5, <1>6, <1>7 DEF TimeInv

\* The loops run with every session of the client still before them.
LEMMA LoopKeeps ==
  TypeOK /\ TimeInv /\ (RemoveTimeSession \/ RemoveDistanceSession \/ RestartDistanceSession)
    => TimeInv'
<1>. SUFFICES ASSUME TypeOK, TimeInv,
                     RemoveTimeSession \/ RemoveDistanceSession \/ RestartDistanceSession
              PROVE TimeInv'
  OBVIOUS
<1>1. UNCHANGED <<owner, budget, engine, nhz>>
  BY DEF RemoveTimeSession, RemoveDistanceSession, RestartDistanceSession, clientVars
<1>2. MessagesTime'
  <2>1. \/ UNCHANGED <<adapterQ, pending>>
        \/ adapterQ' = adapterQ \o pending /\ pending' = <<>>
    BY DEF RemoveTimeSession, RemoveDistanceSession, RestartDistanceSession
  <2>2. adapterQ \in Seq(TimeMessage) /\ pending = <<>>
    BY DEF TimeInv, MessagesTime
  <2>3. adapterQ \o pending = adapterQ
    BY <2>2
  <2>. QED  BY <2>1, <2>2, <2>3 DEF MessagesTime
<1>3. CASE RemoveTimeSession
  <2>1. UNCHANGED registered /\ loop.what = "remove"
    BY <1>3 DEF RemoveTimeSession
  <2>2. CASE \E id \in loop.left : Turn(id) /\ StopMultiplex(id, FALSE, <<>>) /\ Erase(id)
    <3>1. PICK id \in loop.left : Turn(id) /\ StopMultiplex(id, FALSE, <<>>) /\ Erase(id)
      BY <2>2
    <3>2. id \in DOMAIN timeS
      BY <2>1, <3>1 DEF TimeInv, Removing
    <3>3. CallsMade /\ SpeFast' /\ Serves(asked', hub', DOMAIN timeS \ {id})
      BY <1>1, <3>1, <3>2, StopServes DEF TimeInv
    <3>4. /\ DOMAIN timeS' = DOMAIN timeS \ {id} /\ DOMAIN distS' = {}
          /\ SpeFast' /\ NoFaster' /\ Owned' /\ Serving'
      BY <1>1, <2>1, <3>1, <3>2, <3>3, ErasedKeeps
    <3>5. loop'.what = "remove" /\ loop'.left = loop.left \ {id} /\ loop'.who = loop.who
      BY <2>1, <3>1 DEF Turn, TypeOK, AdapterType
    <3>6. NoDistance' /\ Removing'
      BY <1>1, <2>1, <3>4, <3>5 DEF TimeInv, NoDistance, Removing
    <3>7. CallsTime' /\ Running'
      BY <1>1, <3>3, RunningKeeps DEF TimeInv
    <3>. QED  BY <1>2, <3>4, <3>6, <3>7 DEF TimeInv
  <2>3. CASE /\ loop.left = {}
             /\ loop' = Doing("removeDist", SessionsOf(loop.who, distS), loop.who)
             /\ UNCHANGED <<timeS, distS, due, engineCall>>
    <3>1. NoDistance' /\ Removing'
      BY <1>1, <2>1, <2>3 DEF TimeInv, NoDistance, Removing, Doing, SessionsOf
    <3>2. SpeFast' /\ NoFaster' /\ Owned' /\ Serving' /\ CallsTime' /\ Running'
      BY <1>1, <2>1, <2>3 DEF TimeInv, SpeFast, NoFaster, Owned, Serving, Serves, CallsTime,
                               Running, engineCall
    <3>. QED  BY <1>2, <3>1, <3>2 DEF TimeInv
  <2>. QED  BY <1>3, <2>2, <2>3 DEF RemoveTimeSession
<1>4. CASE RemoveDistanceSession
  <2>1. /\ loop.what = "removeDist" /\ loop.left = {}
    BY <1>4 DEF RemoveDistanceSession, TimeInv, NoDistance
  <2>2. /\ loop' = Idle /\ registered' = registered \ {loop.who}
        /\ UNCHANGED <<timeS, distS, hub, spe, asked, apiQ>>
    BY <1>4, <2>1 DEF RemoveDistanceSession
  <2>3. Owned'
    BY <1>1, <2>1, <2>2 DEF TimeInv, Owned, Removing
  <2>4. /\ NoDistance' /\ Removing' /\ SpeFast' /\ NoFaster' /\ Serving'
        /\ CallsTime' /\ Running'
    BY <1>1, <2>2 DEF TimeInv, NoDistance, Removing, SpeFast, NoFaster, Serving, Serves,
                      CallsTime, Running, Idle
  <2>. QED  BY <1>2, <2>3, <2>4 DEF TimeInv
<1>5. CASE RestartDistanceSession
  <2>1. loop.left = {}
    BY <1>5 DEF RestartDistanceSession, TimeInv, NoDistance
  <2>2. loop' = Idle /\ UNCHANGED <<timeS, distS, registered, hub, spe, asked, apiQ>>
    BY <1>5, <2>1 DEF RestartDistanceSession, sessionVars
  <2>3. /\ NoDistance' /\ Removing' /\ SpeFast' /\ NoFaster' /\ Owned' /\ Serving'
        /\ CallsTime' /\ Running'
    BY <1>1, <2>2 DEF TimeInv, NoDistance, Removing, SpeFast, NoFaster, Owned, Serving, Serves,
                      CallsTime, Running, Idle
  <2>. QED  BY <1>2, <2>3 DEF TimeInv
<1>. QED  BY <1>3, <1>4, <1>5

\* The outcome of a call is a success, and leaves the sessions as they are.
LEMMA ReplyKeeps ==
  TimeInv /\ (Started \/ Updated \/ Stopped \/ Switched \/ Restarted) => TimeInv'
<1>. SUFFICES ASSUME TimeInv, Started \/ Updated \/ Stopped \/ Switched \/ Restarted
              PROVE TimeInv'
  OBVIOUS
<1>1. PICK kind \in Reply : Finish(kind)
  BY DEF Started, Updated, Stopped, Switched, Restarted, Reply
<1>2. Take(kind)
  BY <1>1 DEF Finish
<1>3. Head1 \in TimeMessage /\ Head1.kind = kind
  BY <1>2, TakeTime DEF TimeInv
<1>4. Head1.ok = TRUE /\ Head1.kind \in TimeReply
  BY <1>1, <1>3 DEF TimeMessage
<1>5. ~Switched /\ ~Restarted
  BY <1>4 DEF Switched, Restarted, Finish, Take, TimeReply
<1>6. UNCHANGED <<timeS, distS, engineCall>>
  <2>1. CASE Started
    BY <1>4, <2>1 DEF Started
  <2>2. CASE Updated
    BY <1>4, <2>2 DEF Updated
  <2>3. CASE Stopped
    BY <1>4, <2>3 DEF Stopped, Finish, Take, TimeReply
  <2>. QED  BY <1>5, <2>1, <2>2, <2>3
<1>. QED  BY <1>1, <1>2, <1>6, QuietHandler DEF Finish, engineCall

\* The LocApi's thread: every call succeeds, the first one opens the engine.
LEMMA ApiStepKeeps == TimeBasedOnly /\ TypeOK /\ TimeInv /\ ApiStep => TimeInv'
<1>. SUFFICES ASSUME TimeBasedOnly, TypeOK, TimeInv, ApiStep PROVE TimeInv'
  OBVIOUS
<1>. DEFINE m == Head(apiQ)
            opens == m.op \in {"open", "ssr"}
<1>1. m \in TimeCall /\ apiQ' \in Seq(TimeCall)
  BY TakeHead DEF ApiStep, TimeInv, CallsTime
<1>2. m \in ApiMessage /\ m.op \in {"open", "ssr", "startTime", "stopTime"}
        /\ (m.reply # NoReply => m.reply.kind \in TimeReply)
  BY <1>1 DEF TimeCall
<1>3. engine \in [up : BOOLEAN, on : BOOLEAN, interval : Nat]
  BY DEF TypeOK, EngineType
<1>4. opens \/ engine.up
  BY DEF TimeInv, Running
<1>5. ApiOutcome(m) \subseteq {TRUE}
  BY <1>4 DEF ApiOutcome, TimeBasedOnly
<1>6. /\ engine' = Apply(m.op, m.opts)
      /\ \/ adapterQ' = Append(adapterQ, About("EngineUp", Nobody))
         \/ adapterQ' = adapterQ
         \/ m.reply # NoReply /\ adapterQ' = Append(adapterQ, [m.reply EXCEPT !.ok = TRUE])
  BY <1>5 DEF ApiStep
<1>7. engine'.up = TRUE
  <2>1. CASE opens
    BY <1>6, <2>1 DEF Apply
  <2>2. CASE ~opens
    <3>1. engine.up = TRUE /\ m.op \in {"startTime", "stopTime"}
      BY <1>2, <1>3, <1>4, <2>2
    <3>. QED  BY <1>3, <1>6, <3>1 DEF Apply
  <2>. QED  BY <2>1, <2>2
<1>8. adapterQ' \in Seq(TimeMessage)
  <2>1. About("EngineUp", Nobody) \in TimeMessage
    BY DEF About, TimeMessage, Message, EngineMessage, Reply
  <2>2. m.reply # NoReply => [m.reply EXCEPT !.ok = TRUE] \in TimeMessage
    <3>1. SUFFICES ASSUME m.reply # NoReply
                   PROVE  [m.reply EXCEPT !.ok = TRUE] \in TimeMessage
      OBVIOUS
    <3>2. m.reply \in SessionMessage /\ m.reply.kind \in TimeReply
      BY <1>2, <3>1 DEF ApiMessage
    <3>. QED  BY <3>2 DEF SessionMessage, Message, TimeMessage, TimeReply
  <2>3. adapterQ \in Seq(TimeMessage)
    BY DEF TimeInv, MessagesTime
  <2>. QED  BY <1>6, <2>1, <2>2, <2>3, PostMessage
<1>9. UNCHANGED <<owner, budget, timeS, distS, registered, hub, spe, asked, pending, nhz, loop>>
  BY DEF ApiStep, clientVars, sessionVars
<1>10. MessagesTime' /\ CallsTime' /\ Running'
  BY <1>1, <1>7, <1>8, <1>9 DEF TimeInv, MessagesTime, CallsTime, Running
<1>11. NoDistance' /\ SessionsInv'
  BY <1>9, SessionsKeep DEF TimeInv, SessionsInv
<1>. QED  BY <1>10, <1>11 DEF TimeInv, SessionsInv

LEMMA TimeInvInit == TimeBasedOnly /\ Init => TimeInv
<1>. SUFFICES ASSUME TimeBasedOnly, Init PROVE TimeInv
  OBVIOUS
<1>1. MessagesTime
  <2>1. <<>> \in Seq(TimeMessage)
    OBVIOUS
  <2>. QED  BY <2>1 DEF Init, MessagesTime
<1>2. CallsTime /\ Running
  <2>. DEFINE c == Call("open", NoOptions, NoReply)
  <2>1. c \in TimeCall /\ c.op = "open"
    <3>1. c \in ApiMessage
      BY NoOptionsType, CallType DEF ApiOp
    <3>. QED  BY <3>1 DEF TimeCall, Call
  <2>. HIDE DEF c
  <2>2. <<c>> \in Seq(TimeCall) /\ <<c>> # <<>> /\ Head(<<c>>) = c
    BY <2>1
  <2>3. apiQ = <<c>> /\ budget.crashes = 0
    BY DEF Init, TimeBasedOnly, c
  <2>. QED  BY <2>1, <2>2, <2>3 DEF CallsTime, Running
<1>3. DOMAIN timeS = {} /\ DOMAIN distS = {} /\ loop = Idle /\ spe = FALSE
  BY DEF Init, EmptyMap
<1>4. Serving
  BY <1>3 DEF Init, Serving, Serves, Off
<1>. QED  BY <1>1, <1>2, <1>3, <1>4
          DEF TimeInv, NoDistance, SpeFast, NoFaster, Owned, Removing, Idle

LEMMA TimeInvStep == TimeBasedOnly /\ TypeInv /\ TimeInv /\ [Next]_vars => TimeInv'
<1>. SUFFICES ASSUME TimeBasedOnly, TypeOK, TimeInv, [Next]_vars PROVE TimeInv'
  BY DEF TypeInv
<1>1. CASE ClientThread
  BY <1>1, ClientThreadKeeps
<1>2. CASE AddClient \/ Remove
  BY <1>2, AddClientKeeps, RemoveKeeps
<1>3. CASE Start \/ Update \/ Stop
  BY <1>3, StartKeeps, UpdateKeeps, StopKeeps
<1>4. CASE EngineUp \/ Reconfig
  BY <1>4, EngineUpKeeps
<1>5. CASE RemoveTimeSession \/ RemoveDistanceSession \/ RestartDistanceSession
  BY <1>5, LoopKeeps
<1>6. CASE Started \/ Updated \/ Stopped \/ Switched \/ Restarted
  BY <1>6, ReplyKeeps
<1>7. CASE SetNHz
  BY <1>7, SetNHzKeeps
<1>8. CASE ApiStep
  BY <1>8, ApiStepKeeps
<1>9. CASE Crash
  <2>1. budget.crashes = 0
    BY DEF TimeInv, Running
  <2>. QED  BY <1>9, <2>1 DEF Crash
<1>10. CASE UNCHANGED vars
  <2>1. NoDistance' /\ SessionsInv'
    BY <1>10, SessionsKeep DEF vars, TimeInv, SessionsInv
  <2>2. MessagesTime' /\ CallsTime' /\ Running'
    BY <1>10 DEF vars, TimeInv, MessagesTime, CallsTime, Running
  <2>. QED  BY <2>1, <2>2 DEF TimeInv, SessionsInv
<1>. QED  BY <1>1, <1>2, <1>3, <1>4, <1>5, <1>6, <1>7, <1>8, <1>9, <1>10
          DEF Next, AdapterThread

LEMMA TimeInvHolds == TimeBasedOnly /\ Spec => []TimeInv
<1>1. CASE TimeBasedOnly
  <2>1. Init => TypeInv /\ TimeInv
    BY <1>1, TypeInvInit, TimeInvInit
  <2>2. TypeInv /\ TimeInv /\ [Next]_vars => TypeInv' /\ TimeInv'
    BY <1>1, TypeInvStep, TimeInvStep
  <2>. QED  BY <2>1, <2>2, PTL DEF Spec
<1>2. CASE ~TimeBasedOnly
  BY <1>2, PTL
<1>. QED  BY <1>1, <1>2

\* Without distances and failures the adapter's last request of the LocApi is a
\* start exactly while there are time based sessions, it is fast enough for
\* each of them, and the engine hub is told the same: whatever the clients
\* start, update, stop and remove, and whenever the NHz requirement changes or
\* a setting has the sessions suspended and restarted.
THEOREM ServesSessions == TimeBasedOnly /\ Spec => []RequestServesSessions
<1>1. TimeInv => RequestServesSessions
  BY DEF TimeInv, Serving, Serves, RequestServesSessions
<1>. QED  BY <1>1, TimeInvHolds, PTL

\* Without distances and failures no time based or distance based session is
\* left of a client that the adapter has removed.
THEOREM NoneOrphaned == TimeBasedOnly /\ Spec => []NoOrphanSession
<1>1. TimeInv => NoOrphanSession
  BY DEF TimeInv, Owned, NoDistance, NoOrphanSession
<1>. QED  BY <1>1, TimeInvHolds, PTL

(***************************************************************************)
(* What the engine runs                                                    *)
(***************************************************************************)

\* Call m leaves the engine running what a says.
Matches(m, a) ==
  /\ m.op = "startTime" => a.on /\ m.opts.interval = a.interval
  /\ m.op # "startTime" => ~a.on

\* The last call that waits is the last request of the adapter; without one the
\* engine runs that request.
EngineFollows ==
  IF apiQ = <<>>
  THEN (engine.on <=> asked.on) /\ (asked.on => engine.interval = asked.interval)
  ELSE Matches(apiQ[Len(apiQ)], asked)

\* A step of the adapter makes no request, or makes the call for its last one.
Made == apiQ' # <<>> /\ Matches(apiQ'[Len(apiQ')], asked')
Requests == UNCHANGED <<apiQ, asked>> \/ Made

LEMMA LastCall ==
  ASSUME NEW q \in Seq(TimeCall), NEW c \in TimeCall
  PROVE  /\ Append(q, c) # <<>> /\ Append(q, c)[Len(Append(q, c))] = c
         /\ Append(q, c) \o <<>> = Append(q, c) /\ q \o <<>> = q
<1>1. Append(q, c) \in Seq(TimeCall)
  OBVIOUS
<1>2. \A r \in Seq(TimeCall) : r \o <<>> = r
  OBVIOUS
<1>3. Len(q) \in Nat /\ Len(Append(q, c)) = Len(q) + 1 /\ Append(q, c)[Len(q) + 1] = c
  BY PostMessage
<1>4. Append(q, c) # <<>>
  BY <1>3
<1>. QED  BY <1>1, <1>2, <1>3, <1>4

\* What is asked and what is called are the same, at the highest rate or not.
LEMMA TellEngineRequests ==
  ASSUME TypeOK, CallsTime, NEW id \in Id, NEW o \in Options, NEW kind \in TimeReply,
         NEW p \in Kept(kind), TellEngine(id, o, Session(kind, id, p), <<>>)
  PROVE  Requests /\ (spe = FALSE => Made)
<1>. DEFINE o2 == SpeInterval(nhz, o)
            c == Call("startTime", o2, Session(kind, id, p))
<1>1. o2 \in Options
  BY SpeIntervalType DEF TypeOK, AdapterType
<1>2. c \in TimeCall /\ c.op = "startTime" /\ c.opts = o2
  BY <1>1, TimeCallOf DEF Call
<1>3. apiQ \in Seq(TimeCall)
  BY DEF CallsTime
<1>4. CASE nhz /\ spe
  <2>1. apiQ' = apiQ \o <<>> /\ UNCHANGED asked
    BY <1>4, Zenon DEF TellEngine
  <2>. QED  BY <1>2, <1>3, <1>4, <2>1, LastCall DEF Requests
<1>5. CASE ~(nhz /\ spe)
  <2>1. apiQ' = Append(apiQ, c) \o <<>> /\ asked' = On(o2)
    BY <1>5 DEF TellEngine
  <2>. HIDE DEF c
  <2>2. apiQ' # <<>> /\ apiQ'[Len(apiQ')] = c
    BY <1>2, <1>3, <2>1, LastCall
  <2>3. Matches(c, asked')
    BY <1>2, <2>1 DEF Matches, On
  <2>. QED  BY <2>2, <2>3 DEF Requests, Made
<1>. QED  BY <1>4, <1>5

LEMMA NoCallRequests ==
  ASSUME CallsTime, NEW id, NEW answer, NoCall(id, answer, <<>>)
  PROVE  Requests
<1>1. apiQ' = apiQ \o <<>> /\ UNCHANGED asked
  BY DEF NoCall
<1>2. apiQ \o <<>> = apiQ
  BY DEF CallsTime
<1>. QED  BY <1>1, <1>2 DEF Requests

\* The option sets the multiplexing makes are options.
LEMMA PickRequests ==
  ASSUME TypeOK, CallsTime, NEW id \in Id, NEW o \in Options, NEW kind \in TimeReply,
         NEW q \in Kept(kind), NEW S \in SUBSET DOMAIN timeS, NEW k \in S, NEW p \in PowersOf(S),
         \/ TellEngine(id,
                [timeS[k] EXCEPT !.interval = IF o.interval < @ THEN o.interval ELSE @,
                                 !.power = IF o.power < p THEN o.power ELSE @],
                Session(kind, id, q), <<>>)
         \/ NoCall(id, TRUE, <<>>)
  PROVE  Requests
<1>. DEFINE r == [timeS[k] EXCEPT
                    !.interval = IF o.interval < @ THEN o.interval ELSE @,
                    !.power = IF o.power < p THEN o.power ELSE @]
<1>1. r \in Options
  BY PickType DEF TypeOK, SessionType
<1>. QED  BY <1>1, TellEngineRequests, NoCallRequests

LEMMA StartRequests ==
  ASSUME TypeOK, CallsTime, NEW id \in Id, NEW o \in Options, StartMultiplex(id, o)
  PROVE  Requests /\ (DOMAIN timeS = {} /\ spe = FALSE => Made)
<1>1. NoOptions \in Kept("started") /\ "started" \in TimeReply
  BY KeptOptions DEF TimeReply
<1>2. CASE DOMAIN timeS = {}
  BY <1>1, <1>2, TellEngineRequests DEF StartMultiplex
<1>3. CASE DOMAIN timeS # {}
  BY <1>1, <1>3, PickRequests DEF StartMultiplex
<1>. QED  BY <1>2, <1>3

LEMMA UpdateRequests ==
  ASSUME TypeOK, CallsTime, NoFaster, NEW id \in DOMAIN timeS, NEW o \in Options,
         UpdateMultiplex(id, o)
  PROVE  Requests
<1>1. id \in Id /\ timeS[id] \in Kept("updated") /\ "updated" \in TimeReply
  BY SessionInterval, KeptOptions DEF TimeReply, NoFaster
<1>2. CASE timeS[id].interval = o.interval /\ timeS[id].power = o.power
  BY <1>2, NoCallRequests DEF UpdateMultiplex
<1>3. CASE /\ ~(timeS[id].interval = o.interval /\ timeS[id].power = o.power)
           /\ DOMAIN timeS \ {id} = {}
  BY <1>1, <1>3, TellEngineRequests DEF UpdateMultiplex
<1>4. CASE /\ ~(timeS[id].interval = o.interval /\ timeS[id].power = o.power)
           /\ DOMAIN timeS \ {id} # {}
  BY <1>1, <1>4, PickRequests DEF UpdateMultiplex
<1>. QED  BY <1>2, <1>3, <1>4

LEMMA StopRequests ==
  ASSUME TypeOK, CallsTime, NEW id \in DOMAIN timeS, NEW answer,
         StopMultiplex(id, answer, <<>>)
  PROVE  Requests
<1>. DEFINE S == DOMAIN timeS \ {id}
            halt == Call("stopTime", NoOptions, Session("stopped", id, NoOptions))
<1>1. /\ id \in Id /\ NoOptions \in Options /\ {"stopped", "started"} \subseteq TimeReply
      /\ NoOptions \in Kept("started") /\ NoOptions \in Kept("stopped")
  BY SessionInterval, NoOptionsType, KeptOptions DEF TimeReply
<1>2. CASE S = {}
  <2>1. asked' = Off /\ apiQ' = Append(apiQ, halt) \o <<>>
    BY <1>2 DEF StopMultiplex
  <2>2. halt \in TimeCall /\ halt.op = "stopTime"
    BY <1>1, TimeCallOf DEF Call
  <2>. HIDE DEF halt
  <2>3. apiQ' # <<>> /\ apiQ'[Len(apiQ')] = halt
    BY <2>1, <2>2, LastCall DEF CallsTime
  <2>. QED  BY <2>1, <2>2, <2>3 DEF Requests, Made, Matches, Off
<1>3. CASE S # {}
  <2>1. PICK k \in S, p \in PowersOf(S) :
           \/ TellEngine(id, [timeS[k] EXCEPT !.power = p],
                         Session("started", id, NoOptions), <<>>)
           \/ NoCall(id, answer, <<>>)
    BY <1>3 DEF StopMultiplex
  <2>2. [timeS[k] EXCEPT !.power = p] \in Options
    BY <1>1, PickType DEF TypeOK, SessionType
  <2>. QED  BY <1>1, <2>1, <2>2, TellEngineRequests, NoCallRequests
<1>. QED  BY <1>2, <1>3

LEMMA RestartRequests ==
  ASSUME TypeOK, CallsTime, NEW needed \in BOOLEAN, NEW before \in Seq(TimeCall),
         before = <<>> \/ DOMAIN timeS # {}, RestartTime(needed, before)
  PROVE  Requests /\ (DOMAIN timeS # {} => Made)
<1>. DEFINE S == DOMAIN timeS
<1>1. CASE S = {}
  <2>1. apiQ' = apiQ \o <<>> /\ UNCHANGED asked
    BY <1>1 DEF RestartTime
  <2>2. apiQ \o <<>> = apiQ
    BY DEF CallsTime
  <2>. QED  BY <1>1, <2>1, <2>2 DEF Requests
<1>2. CASE S # {}
  <2>1. PICK k \in S, p \in PowersOf(S) :
          LET o2 == SpeInterval(needed, [timeS[k] EXCEPT !.power = p])
          IN /\ apiQ' = Append(apiQ \o before, Call("startTime", o2, NoReply))
             /\ asked' = On(o2)
    BY <1>2 DEF RestartTime
  <2>. DEFINE o == [timeS[k] EXCEPT !.power = p]
              o2 == SpeInterval(needed, o)
              c == Call("startTime", o2, NoReply)
  <2>2. timeS[k] \in Options /\ o \in Options
    BY NoOptionsType, SessionInterval, PickType DEF TypeOK, SessionType
  <2>3. o2 \in Options
    BY <2>2, SpeIntervalType
  <2>4. c \in TimeCall /\ c.op = "startTime" /\ c.opts = o2
    <3>1. c \in ApiMessage
      BY <2>3, CallType DEF ApiOp
    <3>. QED  BY <3>1 DEF TimeCall, Call
  <2>5. apiQ \o before \in Seq(TimeCall)
    BY PostMessages DEF CallsTime
  <2>6. apiQ' = Append(apiQ \o before, c) /\ asked' = On(o2)
    BY <2>1
  <2>7. Matches(c, asked')
    BY <2>4, <2>6 DEF Matches, On
  <2>. HIDE DEF c
  <2>8. apiQ' # <<>> /\ apiQ'[Len(apiQ')] = c
    BY <2>4, <2>5, <2>6, LastCall
  <2>. QED  BY <2>7, <2>8 DEF Requests, Made
<1>. QED  BY <1>1, <1>2

\* Every step of the adapter but a handler of an outcome makes the call for what
\* it asks.
LEMMA HandlersRequest ==
  TimeBasedOnly /\ TypeOK /\ TimeInv /\ (AdapterThread \/ SetNHz) => Requests
<1>. SUFFICES ASSUME TimeBasedOnly, TypeOK, TimeInv, AdapterThread \/ SetNHz
              PROVE Requests
  OBVIOUS
<1>0. CallsTime /\ NoFaster /\ DOMAIN distS = {} /\ <<>> \in Seq(TimeCall)
  BY DEF TimeInv, NoDistance
<1>1. CASE UNCHANGED <<apiQ, asked>>
  BY <1>1 DEF Requests
<1>2. CASE Start
  <2>1. Head1.id \in Id /\ Clamp(Head1.opts) \in Options /\ Clamp(Head1.opts).dist = FALSE
    BY <1>2, CommandHead DEF Start
  <2>2. \/ UNCHANGED engineCall
        \/ StartMultiplex(Head1.id, Clamp(Head1.opts))
    BY <1>2, <2>1 DEF Start, Wait, IsDistance
  <2>. QED  BY <1>0, <1>1, <2>1, <2>2, StartRequests DEF engineCall
<1>3. CASE Update
  <2>1. /\ Clamp(Head1.opts) \in Options /\ Clamp(Head1.opts).dist = FALSE
        /\ Head1.opts.dist = FALSE
    BY <1>3, CommandHead DEF Update
  <2>2. \/ UNCHANGED engineCall
        \/ Head1.id \in DOMAIN timeS /\ UpdateMultiplex(Head1.id, Clamp(Head1.opts))
    BY <1>0, <1>3, <2>1 DEF Update, MustWait
  <2>. QED  BY <1>0, <1>1, <2>1, <2>2, UpdateRequests DEF engineCall
<1>4. CASE Stop
  <2>1. \/ UNCHANGED engineCall
        \/ Head1.id \in DOMAIN timeS /\ StopMultiplex(Head1.id, TRUE, <<>>)
    BY <1>0, <1>4 DEF Stop
  <2>. QED  BY <1>0, <1>1, <2>1, StopRequests DEF engineCall
<1>5. CASE EngineUp \/ Reconfig \/ SetNHz
  <2>. DEFINE halt == Call("stopTime", NoOptions, NoReply)
  <2>1. halt \in TimeCall
    <3>1. halt \in ApiMessage
      BY CallType, NoOptionsType DEF ApiOp
    <3>. QED  BY <3>1 DEF TimeCall, Call
  <2>2. <<halt>> \in Seq(TimeCall)
    BY <2>1
  <2>. HIDE DEF halt
  <2>3. CASE EngineUp
    BY <1>0, <2>3, RestartRequests DEF EngineUp, TypeOK, AdapterType
  <2>4. CASE Reconfig
    <3>1. PICK before \in {<<>>, <<halt>>} :
            RestartTime(nhz, before) /\ (before = <<>> \/ DOMAIN timeS # {})
      BY <2>4 DEF Reconfig, halt
    <3>2. before \in Seq(TimeCall)
      BY <1>0, <2>2, <3>1, Zenon
    <3>. QED  BY <1>0, <3>1, <3>2, RestartRequests DEF TypeOK, AdapterType
  <2>5. CASE SetNHz
    <3>1. nhz' \in BOOLEAN /\ RestartTime(nhz', <<>>)
      <4>1. nhz' = ~nhz /\ RestartTime(nhz', <<>>)
        BY <2>5 DEF SetNHz
      <4>. QED  BY <4>1, Zenon
    <3>. QED  BY <1>0, <3>1, RestartRequests
  <2>. QED  BY <1>5, <2>3, <2>4, <2>5
<1>6. CASE RemoveTimeSession
  <2>1. \/ UNCHANGED engineCall
        \/ \E id \in loop.left : StopMultiplex(id, FALSE, <<>>)
    BY <1>6 DEF RemoveTimeSession
  <2>2. loop.left \subseteq DOMAIN timeS
    BY <1>6 DEF RemoveTimeSession, TimeInv, Removing
  <2>. QED  BY <1>0, <1>1, <2>1, <2>2, StopRequests DEF engineCall
<1>7. CASE AddClient \/ Remove \/ RemoveDistanceSession \/ RestartDistanceSession
  <2>1. UNCHANGED <<apiQ, asked>>
    BY <1>7 DEF AddClient, Remove, RemoveDistanceSession, RestartDistanceSession,
                engineCall, TimeInv, NoDistance
  <2>. QED  BY <1>1, <2>1
<1>8. CASE Started \/ Updated \/ Stopped \/ Switched \/ Restarted
  <2>1. PICK kind \in Reply : Take(kind)
    BY <1>8 DEF Started, Updated, Stopped, Switched, Restarted, Finish, Reply
  <2>2. Head1.kind = kind /\ kind \in TimeReply
    BY <2>1, TakeTime DEF TimeInv, TimeMessage
  <2>3. UNCHANGED engineCall
    BY <1>8, <2>1, <2>2 DEF Started, Updated, Stopped, Switched, Restarted, Finish, Take,
                            TimeReply
  <2>. QED  BY <1>1, <2>3 DEF engineCall
<1>. QED  BY <1>2, <1>3, <1>4, <1>5, <1>6, <1>7, <1>8 DEF AdapterThread

LEMMA EngineFollowsStep ==
  TimeBasedOnly /\ TypeOK /\ TimeInv /\ EngineFollows /\ [Next]_vars => EngineFollows'
<1>. SUFFICES ASSUME TimeBasedOnly, TypeOK, TimeInv, EngineFollows, [Next]_vars
              PROVE  EngineFollows'
  OBVIOUS
<1>1. CASE AdapterThread \/ SetNHz
  <2>1. UNCHANGED engine
    BY <1>1 DEF AdapterThread, AddClient, Start, Update, Stop, Remove, EngineUp, Reconfig,
       RemoveTimeSession, RemoveDistanceSession, RestartDistanceSession, Started, Updated,
       Stopped, Switched, Restarted, Finish, Take, SetNHz
  <2>2. Requests
    BY <1>1, HandlersRequest
  <2>. QED  BY <2>1, <2>2 DEF Requests, Made, EngineFollows
<1>2. CASE ClientThread
  <2>1. \E m : Post(m)
    BY <1>2 DEF ClientThread, Create, Destroy, StartTracking, UpdateTracking, StopTracking,
                UpdateConfig
  <2>2. UNCHANGED <<engine, apiQ, asked>>
    BY <2>1 DEF Post, engineCall
  <2>. QED  BY <2>2 DEF EngineFollows
<1>3. CASE ApiStep
  <2>. DEFINE m == Head(apiQ)
  <2>1. /\ apiQ # <<>> /\ apiQ' = Tail(apiQ) /\ UNCHANGED asked
    BY <1>3 DEF ApiStep
  <2>2. /\ apiQ \in Seq(TimeCall) /\ m \in TimeCall /\ m = apiQ[1]
        /\ Len(apiQ) \in Nat /\ Len(apiQ) >= 1 /\ Len(apiQ') = Len(apiQ) - 1
        /\ apiQ' \in Seq(TimeCall)
        /\ \A i \in 1 .. Len(apiQ') : apiQ'[i] = apiQ[i + 1]
    BY <2>1, TakeHead DEF TimeInv, CallsTime
  <2>3. CASE apiQ' # <<>>
    <3>1. Len(apiQ') \in 1 .. Len(apiQ')
      BY <2>2, <2>3
    <3>2. apiQ'[Len(apiQ')] = apiQ[Len(apiQ)]
      BY <2>2, <3>1
    <3>. QED  BY <2>1, <2>3, <3>2 DEF EngineFollows
  <2>4. CASE apiQ' = <<>>
    <3>1. Len(apiQ') = 0
      BY <2>4
    <3>2. Matches(m, asked)
      BY <2>1, <2>2, <3>1 DEF EngineFollows
    <3>3. engine.up \/ m.op = "open"
      BY <2>1 DEF TimeInv, Running
    <3>4. ApiOutcome(m) \subseteq {TRUE}
      BY <3>3 DEF ApiOutcome, TimeBasedOnly
    <3>5. engine' = Apply(m.op, m.opts)
      BY <1>3, <3>4 DEF ApiStep
    <3>6. m.op \in {"open", "ssr", "startTime", "stopTime"} /\ engine \in [up : BOOLEAN, on : BOOLEAN, interval : Nat]
      BY <2>2 DEF TimeCall, TypeOK, EngineType
    <3>. HIDE DEF m
    <3>7. CASE m.op = "startTime"
      <4>1. engine'.on = TRUE /\ engine'.interval = m.opts.interval
        BY <3>5, <3>6, <3>7 DEF Apply
      <4>2. asked.on /\ m.opts.interval = asked.interval
        BY <3>2, <3>7 DEF Matches
      <4>. QED  BY <2>1, <2>4, <4>1, <4>2 DEF EngineFollows
    <3>8. CASE m.op # "startTime"
      <4>1. engine'.on = FALSE
        BY <3>5, <3>6, <3>8 DEF Apply
      <4>2. ~asked.on
        BY <3>2, <3>8 DEF Matches
      <4>. QED  BY <2>1, <2>4, <4>1, <4>2 DEF EngineFollows
    <3>. QED  BY <3>7, <3>8
  <2>. QED  BY <2>3, <2>4
<1>4. CASE Crash
  <2>1. budget.crashes = 0
    BY DEF TimeInv, Running
  <2>. QED  BY <1>4, <2>1 DEF Crash
<1>5. CASE UNCHANGED vars
  BY <1>5 DEF vars, EngineFollows
<1>. QED  BY <1>1, <1>2, <1>3, <1>4, <1>5 DEF Next

LEMMA EngineFollowsInit == Init => EngineFollows
<1>. SUFFICES ASSUME Init PROVE EngineFollows
  OBVIOUS
<1>. DEFINE c == Call("open", NoOptions, NoReply)
<1>1. c.op = "open"
  BY DEF Call
<1>. HIDE DEF c
<1>2. apiQ = <<c>> /\ asked = Off
  BY DEF Init, c
<1>3. apiQ # <<>> /\ apiQ[Len(apiQ)] = c
  BY <1>2
<1>. QED  BY <1>1, <1>2, <1>3 DEF EngineFollows, Matches, Off

\* Without distances and failures the engine runs exactly while there are time
\* based sessions, fast enough for each of them, as soon as the adapter's calls
\* have been made and answered.
THEOREM EngineFollowsTime == TimeBasedOnly /\ Spec => []EngineFollowsSessions
<1>1. CASE TimeBasedOnly
  <2>1. Init => TypeInv /\ TimeInv /\ EngineFollows
    BY <1>1, TypeInvInit, TimeInvInit, EngineFollowsInit
  <2>2. TypeInv /\ TimeInv /\ EngineFollows /\ [Next]_vars
          => TypeInv' /\ TimeInv' /\ EngineFollows'
    BY <1>1, TypeInvStep, TimeInvStep, EngineFollowsStep DEF TypeInv
  <2>3. TimeInv /\ EngineFollows => EngineFollowsSessions
    BY DEF TimeInv, Serving, Serves, NoDistance, EngineFollows, EngineFollowsSessions,
           EngineServesSessions, Settled
  <2>. QED  BY <2>1, <2>2, <2>3, PTL DEF Spec
<1>2. CASE ~TimeBasedOnly
  BY <1>2, PTL
<1>. QED  BY <1>1, <1>2

(***************************************************************************)
(* What the engine runs after a crash                                      *)
(*                                                                         *)
(* A call that reaches an engine that is down fails, and its lambda erases *)
(* the session or restores its options, so the last request may serve      *)
(* nothing any more.  Every failure has an opening of the engine behind    *)
(* it, whose outcome restarts the sessions there are then.  In between     *)
(* nothing is owed to them; after it the request serves them and the       *)
(* engine runs it, as when nothing fails.                                  *)
(***************************************************************************)

\* No distances, no call of a running engine that fails; any number of crashes.
CrashesOnly == TRUE \notin Distance /\ ~EngineMayFail

\* The messages that occur then, and what holds of the adapter's state at any time.
CrashMessage == {m \in Message :
                   /\ m.kind \in {"Start", "Update"} => m.opts.dist = FALSE
                   /\ m.kind \in Reply => m.kind \in TimeReply /\ m.opts \in Kept(m.kind)}
Sound ==
  /\ adapterQ \in Seq(CrashMessage) /\ pending = <<>> /\ CallsTime
  /\ NoDistance /\ SpeFast /\ NoFaster
  /\ loop.what = "remove" => loop.left \subseteq DOMAIN timeS

\* The calls that open the engine, the messages they send, and failed outcomes.
Opening == {m \in ApiMessage : m.op \in {"open", "ssr"}}
Ups == {m \in Message : m.kind = "EngineUp"}
Failed == {m \in Message : m.kind \in Reply /\ m.ok = FALSE}
Opens == ~NoneOf(apiQ, Opening)
Reopening == Opens \/ ~NoneOf(adapterQ, Ups)
\* Behind the last failed outcome comes a message that the engine is up.
Redone == Opens \/ Outcome(adapterQ, Ups \cup Failed, Ups, TRUE)

\* The last call, or the engine, is what was asked last.  The engine is not
\* taken to run at the highest rate for no session.
Follows ==
  IF DOMAIN timeS = {} THEN spe = FALSE
  ELSE IF apiQ = <<>> THEN engine.on = TRUE /\ engine.interval = asked.interval
  ELSE Matches(apiQ[Len(apiQ)], asked)
Served == Enough /\ Follows

CrashInv ==
  /\ Sound /\ Redone
  /\ engine.up = TRUE \/ Opens
  /\ ~Reopening => Served

\* What a step leaves of it: the call is made for what is asked.
LEMMA FollowsOn ==
  ASSUME UNCHANGED engine, Follows, Requests,
         DOMAIN timeS' = {} => spe' = FALSE,
         DOMAIN timeS = {} /\ DOMAIN timeS' # {} => Made
  PROVE  Follows'
<1>1. CASE DOMAIN timeS' = {}
  BY <1>1 DEF Follows
<1>2. CASE DOMAIN timeS' # {} /\ Made
  BY <1>2 DEF Follows, Made
<1>3. CASE DOMAIN timeS' # {} /\ ~Made
  <2>1. DOMAIN timeS # {} /\ UNCHANGED <<apiQ, asked>>
    BY <1>3 DEF Requests
  <2>. QED  BY <1>3, <2>1 DEF Follows
<1>. QED  BY <1>1, <1>2, <1>3

LEMMA ServedStays ==
  ASSUME Served, UNCHANGED <<timeS, spe, asked, apiQ, engine>>
  PROVE  Served'
BY DEF Served, Enough, Follows

\* A message of a session, found at the head of the queue
LEMMA CrashHead ==
  ASSUME TypeOK, Sound, NEW kind, Take(kind)
  PROVE  /\ adapterQ' \in Seq(CrashMessage) /\ adapterQ # <<>> /\ adapterQ' = Tail(adapterQ)
         /\ Head1 = Head(adapterQ) /\ Head1 \in CrashMessage /\ Head1.kind = kind
         /\ loop = Idle /\ UNCHANGED <<phase, owner, budget, engine>>
         /\ kind \in {"Start", "Update", "Stop"} \cup TimeReply =>
              /\ Head1.id \in Id /\ Clamp(Head1.opts) \in Options
              /\ MinTrackingInterval <= Clamp(Head1.opts).interval
         /\ kind \in {"Start", "Update"} =>
              Head1.opts.dist = FALSE /\ Clamp(Head1.opts) \in TimeOptions
<1>1. adapterQ \in Seq(CrashMessage) /\ adapterQ # <<>> /\ adapterQ' = Tail(adapterQ)
        /\ Head1.kind = kind /\ loop = Idle /\ UNCHANGED <<phase, owner, budget, engine>>
  BY DEF Sound, Take, clientVars
<1>2. Head1 \in CrashMessage /\ adapterQ' \in Seq(CrashMessage)
  BY <1>1, TakeHead DEF Head1
<1>3. kind \in {"Start", "Update", "Stop"} \cup TimeReply =>
        Head1.id \in Id /\ Head1.opts \in Options
  BY SessionHead DEF SessionKind, TimeReply, Reply
<1>4. Head1.opts \in Options =>
        /\ Clamp(Head1.opts) \in Options /\ Clamp(Head1.opts).dist = Head1.opts.dist
        /\ MinTrackingInterval <= Clamp(Head1.opts).interval
  BY ClampType, TrackingAssumption DEF Options
<1>5. kind \in {"Start", "Update"} => Head1.opts.dist = FALSE
  BY <1>1, <1>2 DEF CrashMessage
<1>. QED  BY <1>1, <1>2, <1>3, <1>4, <1>5 DEF Head1, TimeOptions

\* Of a handler only what it does to the sessions is left to show.
LEMMA SoundHandler ==
  ASSUME TypeOK, Sound, NEW kind, Take(kind), UNCHANGED <<pending, loop>>, CallsMade,
         DOMAIN distS' = {}, SpeFast', NoFaster'
  PROVE  Sound'
<1>1. adapterQ' \in Seq(CrashMessage) /\ loop = Idle
  BY CrashHead
<1>2. CallsTime'
  BY CallsKeep DEF Sound
<1>. QED  BY <1>1, <1>2 DEF Sound, NoDistance, Idle

\* A handler that neither calls the engine nor changes a session.
LEMMA SoundQuiet ==
  ASSUME TypeOK, Sound, NEW kind, Take(kind),
         UNCHANGED <<timeS, distS, loop, nhz, spe, asked, apiQ, pending>>
  PROVE  Sound' /\ CallsMade /\ (Served => Served')
<1>1. CallsMade /\ UNCHANGED engine
  BY CrashHead, NoCalls DEF Sound
<1>2. DOMAIN distS' = {} /\ SpeFast' /\ NoFaster'
  BY DEF Sound, NoDistance, SpeFast, NoFaster
<1>. QED  BY <1>1, <1>2, SoundHandler, ServedStays

\* A session that is saved with options of a time based one
LEMMA SavedTime ==
  ASSUME NoFaster, DOMAIN distS = {}, NEW id \in Id, NEW o \in TimeOptions, Save(id, o)
  PROVE  /\ NoFaster' /\ UNCHANGED distS /\ timeS' = With(timeS, id, o)
         /\ DOMAIN timeS' = DOMAIN timeS \cup {id}
         /\ timeS'[id] = o /\ \A i \in DOMAIN timeS \ {id} : timeS'[i] = timeS[i]
<1>1. UNCHANGED distS /\ timeS' = With(timeS, id, o)
  BY DEF Save, IsDistance, TimeOptions
<1>2. /\ DOMAIN timeS' = DOMAIN timeS \cup {id}
      /\ timeS'[id] = o /\ \A i \in DOMAIN timeS \ {id} : timeS'[i] = timeS[i]
  BY <1>1 DEF With
<1>. QED  BY <1>1, <1>2 DEF NoFaster

LEMMA ErasedTime ==
  ASSUME NoFaster, DOMAIN distS = {}, NEW id, Erase(id)
  PROVE  /\ NoFaster' /\ DOMAIN distS' = {} /\ DOMAIN timeS' = DOMAIN timeS \ {id}
         /\ \A i \in DOMAIN timeS' : timeS'[i] = timeS[i]
<1>1. /\ DOMAIN timeS' = DOMAIN timeS \ {id} /\ DOMAIN distS' = {}
      /\ \A i \in DOMAIN timeS' : timeS'[i] = timeS[i]
  BY DEF Erase, Without
<1>. QED  BY <1>1 DEF NoFaster

\* The commands
LEMMA StartCrash ==
  TypeOK /\ Sound /\ Start => Sound' /\ CallsMade /\ (Served => Served')
<1>. SUFFICES ASSUME TypeOK, Sound, Start
              PROVE  Sound' /\ CallsMade /\ (Served => Served')
  OBVIOUS
<1>. DEFINE id == Head1.id
            o == Clamp(Head1.opts)
<1>1. Take("Start")
  BY DEF Start
<1>2. /\ id \in Id /\ o \in TimeOptions /\ o \in Options /\ MinTrackingInterval <= o.interval
      /\ Head1.opts.dist = FALSE /\ UNCHANGED engine
  BY <1>1, CrashHead
<1>3. ~MustWait /\ ~IsDistance(o)
  BY <1>2 DEF MustWait, IsDistance, TimeOptions
<1>4. CASE UNCHANGED <<sessionVars, due, engineCall, caps, pending, nhz, loop, stopped>>
  BY <1>1, <1>4, SoundQuiet DEF sessionVars, engineCall
<1>5. CASE /\ Save(id, o) /\ StartMultiplex(id, o)
           /\ UNCHANGED <<registered, caps, pending, nhz, loop, stopped>>
  <2>. HIDE DEF id, o
  <2>1. CallsTime /\ SpeFast /\ NoFaster /\ DOMAIN distS = {}
    BY DEF Sound, NoDistance
  <2>2. /\ NoFaster' /\ UNCHANGED distS /\ DOMAIN timeS' = DOMAIN timeS \cup {id}
        /\ timeS'[id] = o /\ \A i \in DOMAIN timeS \ {id} : timeS'[i] = timeS[i]
    BY <1>2, <1>5, <2>1, SavedTime
  <2>3. CallsMade /\ SpeFast' /\ (Enough => Asks(o, DOMAIN timeS))
    BY <1>2, <1>5, <2>1, StartAsks
  <2>4. Requests /\ (DOMAIN timeS = {} /\ spe = FALSE => Made)
    BY <1>2, <1>5, <2>1, StartRequests
  <2>5. Sound'
    BY <1>1, <1>5, <2>1, <2>2, <2>3, SoundHandler
  <2>6. Enough => Enough'
    BY <2>2, <2>3 DEF Enough, Asks
  <2>7. Follows => Follows'
    BY <1>2, <2>2, <2>4, FollowsOn DEF Follows
  <2>. QED  BY <2>3, <2>5, <2>6, <2>7 DEF Served
<1>. QED  BY <1>3, <1>4, <1>5 DEF Start

LEMMA UpdateCrash ==
  TypeOK /\ Sound /\ Update => Sound' /\ CallsMade /\ (Served => Served')
<1>. SUFFICES ASSUME TypeOK, Sound, Update
              PROVE  Sound' /\ CallsMade /\ (Served => Served')
  OBVIOUS
<1>. DEFINE id == Head1.id
            o == Clamp(Head1.opts)
<1>1. Take("Update")
  BY DEF Update
<1>2. /\ id \in Id /\ o \in TimeOptions /\ o \in Options /\ MinTrackingInterval <= o.interval
      /\ Head1.opts.dist = FALSE /\ UNCHANGED engine
  BY <1>1, CrashHead
<1>3. ~MustWait /\ id \notin DOMAIN distS /\ o.dist = FALSE
  BY <1>2 DEF MustWait, Sound, NoDistance, TimeOptions
<1>4. UNCHANGED <<registered, caps, pending, nhz, loop, stopped>>
  BY <1>3 DEF Update
<1>5. CASE UNCHANGED <<timeS, distS, engineCall>>
  BY <1>1, <1>4, <1>5, SoundQuiet DEF engineCall
<1>6. CASE id \in DOMAIN timeS /\ Save(id, o) /\ UpdateMultiplex(id, o)
  <2>. HIDE DEF id, o
  <2>1. CallsTime /\ SpeFast /\ NoFaster /\ DOMAIN distS = {}
    BY DEF Sound, NoDistance
  <2>2. /\ NoFaster' /\ UNCHANGED distS /\ DOMAIN timeS' = DOMAIN timeS \cup {id}
        /\ timeS'[id] = o /\ \A i \in DOMAIN timeS \ {id} : timeS'[i] = timeS[i]
    BY <1>2, <1>6, <2>1, SavedTime
  <2>3. CallsMade /\ SpeFast' /\ (Enough => Asks(o, DOMAIN timeS \ {id}))
    BY <1>2, <1>4, <1>6, <2>1, UpdateAsks
  <2>4. Requests
    BY <1>2, <1>6, <2>1, UpdateRequests
  <2>5. Sound'
    BY <1>1, <1>4, <2>1, <2>2, <2>3, SoundHandler
  <2>6. Enough => Enough'
    BY <2>2, <2>3 DEF Enough, Asks
  <2>7. Follows => Follows'
    BY <1>2, <1>6, <2>2, <2>4, FollowsOn
  <2>. QED  BY <2>3, <2>5, <2>6, <2>7 DEF Served
<1>. QED  BY <1>2, <1>3, <1>5, <1>6 DEF Update

\* A stop, of the client or of the loop that removes it
LEMMA StoppedServed ==
  ASSUME TypeOK, Sound, NEW id \in DOMAIN timeS, NEW answer,
         StopMultiplex(id, answer, <<>>), Erase(id), UNCHANGED <<nhz, engine>>
  PROVE  /\ CallsMade /\ SpeFast' /\ NoFaster' /\ DOMAIN distS' = {}
         /\ DOMAIN timeS' = DOMAIN timeS \ {id}
         /\ Served => Served'
<1>1. CallsTime /\ SpeFast /\ NoFaster /\ DOMAIN distS = {}
  BY DEF Sound, NoDistance
<1>2. /\ NoFaster' /\ DOMAIN distS' = {} /\ DOMAIN timeS' = DOMAIN timeS \ {id}
      /\ \A i \in DOMAIN timeS' : timeS'[i] = timeS[i]
  BY <1>1, ErasedTime
<1>3. /\ CallsMade /\ SpeFast'
      /\ DOMAIN timeS' = {} => spe' = FALSE
      /\ DOMAIN timeS' # {} /\ Enough =>
           /\ asked'.on = TRUE
           /\ \A i \in DOMAIN timeS' : asked'.interval <= timeS[i].interval
  BY <1>1, <1>2, StopAsks
<1>4. Enough => Enough'
  BY <1>2, <1>3 DEF Enough
<1>5. Requests
  BY <1>1, StopRequests
<1>6. Follows => Follows'
  BY <1>2, <1>3, <1>5, FollowsOn
<1>. QED  BY <1>2, <1>3, <1>4, <1>6 DEF Served

LEMMA StopCrash ==
  TypeOK /\ Sound /\ Stop => Sound' /\ CallsMade /\ (Served => Served')
<1>. SUFFICES ASSUME TypeOK, Sound, Stop
              PROVE  Sound' /\ CallsMade /\ (Served => Served')
  OBVIOUS
<1>1. Take("Stop") /\ UNCHANGED <<registered, caps, pending, nhz, loop>>
  BY DEF Stop
<1>2. UNCHANGED engine
  BY <1>1, CrashHead
<1>3. CASE UNCHANGED <<timeS, distS, engineCall>>
  BY <1>1, <1>3, SoundQuiet DEF engineCall
<1>4. CASE Head1.id \in DOMAIN timeS /\ StopMultiplex(Head1.id, TRUE, <<>>) /\ Erase(Head1.id)
  BY <1>1, <1>2, <1>4, StoppedServed, SoundHandler
<1>. QED  BY <1>3, <1>4 DEF Stop, Sound, NoDistance

\* The restart serves the sessions there are, whatever came before it.
LEMMA RestartedServed ==
  ASSUME TypeOK, Sound, NEW needed \in BOOLEAN, nhz' = needed,
         NEW before \in Seq(TimeCall), before = <<>> \/ DOMAIN timeS # {},
         RestartTime(needed, before), UNCHANGED <<timeS, distS, engine>>
  PROVE  CallsMade /\ SpeFast' /\ NoFaster' /\ Served'
<1>1. CallsTime
  BY DEF Sound
<1>2. /\ CallsMade /\ SpeFast'
      /\ DOMAIN timeS = {} => spe' = FALSE
      /\ DOMAIN timeS # {} =>
           asked'.on = TRUE /\ \A i \in DOMAIN timeS : asked'.interval <= timeS[i].interval
  BY <1>1, RestartAsks
<1>3. DOMAIN timeS # {} => Made
  BY <1>1, RestartRequests
<1>4. NoFaster'
  BY DEF Sound, NoFaster
<1>5. Enough' /\ Follows'
  BY <1>2, <1>3 DEF Enough, Follows, Made
<1>. QED  BY <1>2, <1>4, <1>5 DEF Served

LEMMA RestartCrash ==
  TypeOK /\ Sound /\ (EngineUp \/ Reconfig \/ SetNHz) => Sound' /\ CallsMade /\ Served'
<1>. SUFFICES ASSUME TypeOK, Sound, EngineUp \/ Reconfig \/ SetNHz
              PROVE  Sound' /\ CallsMade /\ Served'
  OBVIOUS
<1>. DEFINE halt == Call("stopTime", NoOptions, NoReply)
<1>1. /\ UNCHANGED <<timeS, distS, pending, engine>>
      /\ \E what \in {"restart", "engineUp"} : loop' = Doing(what, {}, Nobody)
      /\ adapterQ' \in Seq(CrashMessage)
  <2>1. UNCHANGED <<timeS, distS, pending>>
    BY DEF EngineUp, Reconfig, SetNHz, sessionVars
  <2>2. \E what \in {"restart", "engineUp"} : loop' = Doing(what, {}, Nobody)
    BY DEF EngineUp, Reconfig, SetNHz, RestartDistance, Sound, NoDistance
  <2>3. CASE SetNHz
    BY <2>1, <2>2, <2>3 DEF SetNHz, Sound
  <2>4. CASE EngineUp \/ Reconfig
    <3>1. PICK kind : Take(kind)
      BY <2>4 DEF EngineUp, Reconfig
    <3>. QED  BY <2>1, <2>2, <3>1, CrashHead
  <2>. QED  BY <2>3, <2>4
<1>2. PICK needed \in BOOLEAN, before \in {<<>>, <<halt>>} :
        /\ nhz' = needed /\ RestartTime(needed, before)
        /\ before = <<>> \/ DOMAIN timeS # {}
  <2>1. nhz \in BOOLEAN /\ (~nhz) \in BOOLEAN
    BY DEF TypeOK, AdapterType
  <2>2. CASE EngineUp
    BY <2>1, <2>2 DEF EngineUp
  <2>3. CASE Reconfig
    BY <2>1, <2>3 DEF Reconfig
  <2>4. CASE SetNHz
    <3>1. nhz' = (~nhz) /\ RestartTime(nhz', <<>>)
      BY <2>4 DEF SetNHz
    <3>2. nhz' \in BOOLEAN
      BY <2>1, <3>1, Zenon
    <3>. QED  BY <3>1, <3>2
  <2>. QED  BY <2>2, <2>3, <2>4
<1>3. before \in Seq(TimeCall)
  <2>1. halt \in TimeCall
    <3>1. halt \in ApiMessage
      BY CallType, NoOptionsType DEF ApiOp
    <3>. QED  BY <3>1 DEF TimeCall, Call
  <2>2. <<>> \in Seq(TimeCall) /\ <<halt>> \in Seq(TimeCall)
    BY <2>1
  <2>. QED  BY <1>2, <2>2, Zenon
<1>4. CallsMade /\ SpeFast' /\ NoFaster' /\ Served'
  BY <1>1, <1>2, <1>3, RestartedServed
<1>5. CallsTime'
  BY <1>4, CallsKeep DEF Sound
<1>. QED  BY <1>1, <1>4, <1>5 DEF Sound, NoDistance, Doing

\* The loops
LEMMA LoopCrash ==
  ASSUME TypeOK, Sound, RemoveTimeSession \/ RemoveDistanceSession \/ RestartDistanceSession
  PROVE  /\ Sound' /\ CallsMade /\ (Served => Served')
         /\ UNCHANGED <<adapterQ, engine>>
<1>1. UNCHANGED <<engine, nhz>>
  BY DEF RemoveTimeSession, RemoveDistanceSession, RestartDistanceSession
<1>2. UNCHANGED <<adapterQ, pending>>
  <2>1. \/ UNCHANGED <<adapterQ, pending>>
        \/ adapterQ' = adapterQ \o pending /\ pending' = <<>>
    BY DEF RemoveTimeSession, RemoveDistanceSession, RestartDistanceSession
  <2>2. adapterQ \in Seq(CrashMessage) /\ pending = <<>>
    BY DEF Sound
  <2>3. adapterQ \o pending = adapterQ
    BY <2>2
  <2>. QED  BY <2>1, <2>2, <2>3
<1>3. CASE \E id \in loop.left :
             /\ loop.what = "remove"
             /\ Turn(id) /\ StopMultiplex(id, FALSE, <<>>) /\ Erase(id)
  <2>1. PICK id \in loop.left :
          /\ loop.what = "remove"
          /\ Turn(id) /\ StopMultiplex(id, FALSE, <<>>) /\ Erase(id)
    BY <1>3
  <2>2. id \in DOMAIN timeS /\ loop.left \subseteq DOMAIN timeS
    BY <2>1 DEF Sound
  <2>3. /\ CallsMade /\ SpeFast' /\ NoFaster' /\ DOMAIN distS' = {}
        /\ DOMAIN timeS' = DOMAIN timeS \ {id} /\ (Served => Served')
    BY <1>1, <2>1, <2>2, StoppedServed
  <2>4. loop'.what = "remove" /\ loop'.left = loop.left \ {id}
    BY <2>1 DEF Turn, TypeOK, AdapterType
  <2>5. CallsTime'
    BY <2>3, CallsKeep DEF Sound
  <2>6. Sound'
    BY <1>2, <2>2, <2>3, <2>4, <2>5 DEF Sound, NoDistance
  <2>. QED  BY <1>1, <1>2, <2>3, <2>6
<1>4. CASE /\ UNCHANGED <<timeS, distS, spe, asked, apiQ>>
           /\ loop' = Idle \/ loop' = Doing("removeDist", {}, loop.who)
  <2>1. CallsMade /\ CallsTime'
    BY <1>4, NoCalls DEF Sound, CallsTime
  <2>2. Sound'
    BY <1>1, <1>2, <1>4, <2>1 DEF Sound, NoDistance, SpeFast, NoFaster, Idle, Doing
  <2>. QED  BY <1>1, <1>2, <1>4, <2>1, <2>2, ServedStays
<1>5. CASE RemoveTimeSession
  <2>1. SessionsOf(loop.who, distS) = {}
    BY DEF SessionsOf, Sound, NoDistance
  <2>. QED  BY <1>3, <1>4, <1>5, <2>1 DEF RemoveTimeSession, engineCall
<1>6. CASE RemoveDistanceSession \/ RestartDistanceSession
  <2>1. loop.left = {}
    BY <1>6 DEF RemoveDistanceSession, RestartDistanceSession, Sound, NoDistance
  <2>2. loop' = Idle /\ UNCHANGED <<timeS, distS, spe, asked, apiQ>>
    BY <1>6, <2>1 DEF RemoveDistanceSession, RestartDistanceSession, sessionVars
  <2>. QED  BY <1>4, <2>2
<1>. QED  BY <1>5, <1>6

\* A client comes and goes.
LEMMA ClientCrash ==
  TypeOK /\ Sound /\ (AddClient \/ Remove) => Sound' /\ CallsMade /\ (Served => Served')
<1>. SUFFICES ASSUME TypeOK, Sound, AddClient \/ Remove
              PROVE  Sound' /\ CallsMade /\ (Served => Served')
  OBVIOUS
<1>1. CASE AddClient
  BY <1>1, SoundQuiet DEF AddClient, engineCall
<1>2. CASE Remove
  <2>1. /\ Take("Remove") /\ UNCHANGED <<timeS, distS, spe, asked, apiQ, nhz, pending>>
        /\ loop' = Doing("remove", SessionsOf(Head1.who, timeS), Head1.who)
    BY <1>2 DEF Remove, sessionVars, engineCall
  <2>2. adapterQ' \in Seq(CrashMessage) /\ UNCHANGED engine
    BY <2>1, CrashHead
  <2>3. CallsMade /\ CallsTime'
    BY <2>1, NoCalls DEF Sound, CallsTime
  <2>4. Sound'
    BY <2>1, <2>2, <2>3 DEF Sound, NoDistance, SpeFast, NoFaster, Doing, SessionsOf
  <2>. QED  BY <2>1, <2>2, <2>3, <2>4, ServedStays
<1>. QED  BY <1>1, <1>2

\* The outcome of a call: a success leaves the sessions as they are, a failure
\* erases one or restores its options.
LEMMA ReplyCrash ==
  ASSUME TypeOK, Sound, Started \/ Updated \/ Stopped \/ Switched \/ Restarted
  PROVE  /\ Sound' /\ CallsMade
         /\ Head1.kind \in Reply
         /\ Head1.ok # FALSE => (Served => Served')
<1>1. PICK kind \in Reply : Finish(kind)
  BY DEF Started, Updated, Stopped, Switched, Restarted, Reply
<1>2. Take(kind) /\ UNCHANGED <<registered, caps, pending, nhz, loop>>
  BY <1>1 DEF Finish
<1>3. Head1 \in CrashMessage /\ Head1.kind = kind /\ UNCHANGED engine
  BY <1>2, CrashHead
<1>4. kind \in TimeReply /\ Head1.opts \in Kept(kind) /\ Head1.id \in Id
  <2>1. kind \in TimeReply /\ Head1.opts \in Kept(kind)
    BY <1>1, <1>3 DEF CrashMessage
  <2>. QED  BY <1>2, <2>1, CrashHead
<1>5. ~Switched /\ ~Restarted
  BY <1>3, <1>4 DEF Switched, Restarted, Finish, Take, TimeReply
<1>6. UNCHANGED engineCall
  <2>1. CASE Started
    BY <2>1 DEF Started
  <2>2. CASE Updated
    BY <2>2 DEF Updated
  <2>3. CASE Stopped
    BY <2>3 DEF Stopped
  <2>. QED  BY <1>5, <2>1, <2>2, <2>3
<1>7. CASE UNCHANGED <<timeS, distS>>
  BY <1>1, <1>2, <1>3, <1>6, <1>7, SoundQuiet DEF engineCall
<1>8. CASE Head1.ok = FALSE /\ (Erase(Head1.id) \/ (kind = "updated" /\ Save(Head1.id, Head1.opts)))
  <2>1. NoFaster /\ DOMAIN distS = {} /\ SpeFast
    BY DEF Sound, NoDistance
  <2>2. NoFaster' /\ DOMAIN distS' = {}
    <3>1. CASE Erase(Head1.id)
      BY <2>1, <3>1, ErasedTime
    <3>2. CASE kind = "updated" /\ Save(Head1.id, Head1.opts)
      <4>1. Head1.opts \in TimeOptions
        BY <1>4, <3>2 DEF Kept
      <4>. QED  BY <1>4, <2>1, <3>2, <4>1, SavedTime
    <3>. QED  BY <1>8, <3>1, <3>2
  <2>3. SpeFast' /\ CallsMade
    BY <1>2, <1>6, <2>1, NoCalls DEF SpeFast, engineCall, Sound
  <2>. QED  BY <1>1, <1>2, <1>3, <1>8, <2>2, <2>3, SoundHandler
<1>9. CASE Started
  <2>1. Head1.ok \in BOOLEAN
    BY <1>3 DEF CrashMessage, Message, SessionMessage, ClientMessage, EngineMessage
  <2>. QED  BY <1>7, <1>8, <1>9, <2>1 DEF Started
<1>10. CASE Updated
  <2>1. Head1.ok \in BOOLEAN
    BY <1>3 DEF CrashMessage, Message, SessionMessage, ClientMessage, EngineMessage
  <2>2. kind = "updated"
    BY <1>3, <1>10 DEF Updated, Finish, Take
  <2>. QED  BY <1>7, <1>8, <1>10, <2>1, <2>2 DEF Updated
<1>11. CASE Stopped
  <2>1. UNCHANGED <<timeS, distS>>
    BY <1>3, <1>4, <1>11 DEF Stopped, Finish, Take, TimeReply
  <2>. QED  BY <1>7, <2>1
<1>. QED  BY <1>5, <1>9, <1>10, <1>11

(***************************************************************************)
(* Openings and failures in the queues                                     *)
(***************************************************************************)

\* Calls that are added leave an opening where it is.
LEMMA OpensStays ==
  ASSUME CallsTime, CallsMade, Opens
  PROVE  Opens'
<1>1. PICK r \in Seq(TimeCall) : apiQ' = apiQ \o r
  BY DEF CallsMade
<1>2. NoneOf(apiQ \o r, Opening) => NoneOf(apiQ, Opening)
  BY OutcomePosts DEF CallsTime
<1>. QED  BY <1>1, <1>2 DEF Opens, NoneOf

\* Taking a message of another kind takes no message that the engine is up, and
\* behind a failed outcome there still is one.
LEMMA TakeRedone ==
  ASSUME Sound, Redone, CallsMade, adapterQ # <<>>, adapterQ' = Tail(adapterQ)
  PROVE  /\ Redone'
         /\ Head1.kind # "EngineUp" /\ Reopening => Reopening'
         /\ Head1 \in Failed => Reopening'
<1>. DEFINE T == Ups \cup Failed
            tail == Tail(adapterQ)
<1>1. adapterQ \in Seq(CrashMessage) /\ CallsTime
  BY DEF Sound
<1>2. /\ NoneOf(adapterQ, Ups) <=> Head1 \notin Ups /\ NoneOf(tail, Ups)
      /\ NoneOf(adapterQ, T) <=> Head1 \notin T /\ NoneOf(tail, T)
      /\ LastIs(adapterQ, T, Ups)
           <=> LastIs(tail, T, Ups) \/ (NoneOf(tail, T) /\ Head1 \in T /\ Head1 \in Ups)
  BY <1>1, OutcomeTake DEF Head1
<1>3. LastIs(tail, T, Ups) => ~NoneOf(tail, Ups)
  BY DEF LastIs, NoneOf
<1>4. Opens => Opens'
  BY <1>1, OpensStays
<1>5. Head1 \in Failed => Head1 \notin Ups /\ Head1 \in T
  BY DEF Failed, Ups, Reply
<1>6. Redone'
  BY <1>2, <1>4 DEF Redone, Outcome
<1>7. Head1.kind # "EngineUp" /\ Reopening => Reopening'
  BY <1>2, <1>4 DEF Reopening, Ups
<1>8. Head1 \in Failed => Reopening'
  BY <1>2, <1>3, <1>4, <1>5 DEF Redone, Reopening, Outcome
<1>. QED  BY <1>6, <1>7, <1>8

\* A step that leaves the adapter's queue alone and makes calls
LEMMA CallsRedone ==
  ASSUME Sound, Redone, CallsMade, UNCHANGED adapterQ
  PROVE  Redone' /\ (Reopening => Reopening')
<1>1. Opens => Opens'
  BY OpensStays DEF Sound
<1>. QED  BY <1>1 DEF Redone, Reopening, Outcome, NoneOf, LastIs

\* A message that is posted and is no failed outcome
LEMMA PostRedone ==
  ASSUME Sound, Redone, Opens => Opens',
         NEW m \in CrashMessage, m \notin Failed, adapterQ' = Append(adapterQ, m)
  PROVE  Redone' /\ (Reopening => Reopening')
<1>. DEFINE T == Ups \cup Failed
            q == Append(adapterQ, m)
<1>1. /\ NoneOf(q, Ups) <=> NoneOf(adapterQ, Ups) /\ m \notin Ups
      /\ NoneOf(q, T) <=> NoneOf(adapterQ, T) /\ m \notin T
      /\ LastIs(q, T, Ups) <=> (m \in T /\ m \in Ups) \/ (m \notin T /\ LastIs(adapterQ, T, Ups))
  BY OutcomePost DEF Sound
<1>. HIDE DEF q
<1>2. Redone'
  BY <1>1 DEF Redone, Outcome, q
<1>3. Reopening => Reopening'
  BY <1>1 DEF Reopening, q
<1>. QED  BY <1>2, <1>3

(***************************************************************************)
(* The steps, with crashes                                                 *)
(***************************************************************************)

\* The engine is as it was, and the sessions are served if they were.
LEMMA CrashInvKeeps ==
  ASSUME CrashInv, Sound', Redone', CallsMade, UNCHANGED engine,
         Reopening' \/ Served' \/ (~Reopening /\ (Served => Served'))
  PROVE  CrashInv'
<1>1. Opens => Opens'
  BY OpensStays DEF CrashInv, Sound
<1>. QED  BY <1>1 DEF CrashInv

LEMMA AdapterCrash ==
  ASSUME TypeOK, CrashInv, AdapterThread \/ SetNHz
  PROVE  CrashInv'
<1>0. Sound /\ Redone
  BY DEF CrashInv
<1>1. ASSUME NEW kind, Take(kind), Sound', CallsMade,
             kind = "EngineUp" => Served',
             Head1 \in Failed \/ (Served => Served')
      PROVE  CrashInv'
  <2>1. /\ adapterQ # <<>> /\ adapterQ' = Tail(adapterQ) /\ Head1.kind = kind
        /\ UNCHANGED engine
    BY <1>0, <1>1, CrashHead
  <2>2. /\ Redone' /\ (kind # "EngineUp" /\ Reopening => Reopening')
        /\ Head1 \in Failed => Reopening'
    BY <1>0, <1>1, <2>1, TakeRedone
  <2>. QED  BY <1>1, <2>1, <2>2, CrashInvKeeps
<1>2. CASE Start \/ Update \/ Stop
  <2>1. PICK kind \in {"Start", "Update", "Stop"} : Take(kind)
    BY <1>2 DEF Start, Update, Stop
  <2>2. Sound' /\ CallsMade /\ (Served => Served')
    BY <1>0, <1>2, StartCrash, UpdateCrash, StopCrash
  <2>. QED  BY <1>1, <2>1, <2>2
<1>3. CASE AddClient \/ Remove
  <2>1. PICK kind \in {"Add", "Remove"} : Take(kind)
    BY <1>3 DEF AddClient, Remove
  <2>2. Sound' /\ CallsMade /\ (Served => Served')
    BY <1>0, <1>3, ClientCrash
  <2>. QED  BY <1>1, <2>1, <2>2
<1>4. CASE EngineUp \/ Reconfig
  <2>1. PICK kind : Take(kind)
    BY <1>4 DEF EngineUp, Reconfig
  <2>2. Sound' /\ CallsMade /\ Served'
    BY <1>0, <1>4, RestartCrash
  <2>. QED  BY <1>1, <2>1, <2>2
<1>5. CASE SetNHz
  <2>1. Sound' /\ CallsMade /\ Served'
    BY <1>0, <1>5, RestartCrash
  <2>2. UNCHANGED <<adapterQ, engine>>
    BY <1>5 DEF SetNHz
  <2>3. Redone'
    BY <1>0, <2>1, <2>2, CallsRedone
  <2>. QED  BY <2>1, <2>2, <2>3, CrashInvKeeps
<1>6. CASE RemoveTimeSession \/ RemoveDistanceSession \/ RestartDistanceSession
  <2>1. /\ Sound' /\ CallsMade /\ (Served => Served')
        /\ UNCHANGED <<adapterQ, engine>>
    BY <1>0, <1>6, LoopCrash
  <2>2. Redone' /\ (Reopening => Reopening')
    BY <1>0, <2>1, CallsRedone
  <2>. QED  BY <2>1, <2>2, CrashInvKeeps
<1>7. CASE Started \/ Updated \/ Stopped \/ Switched \/ Restarted
  <2>1. PICK kind \in Reply : Take(kind)
    BY <1>7 DEF Started, Updated, Stopped, Switched, Restarted, Finish, Reply
  <2>2. /\ Sound' /\ CallsMade /\ Head1.kind \in Reply
        /\ Head1.ok # FALSE => (Served => Served')
    BY <1>0, <1>7, ReplyCrash
  <2>3. Head1 \in Message
    BY <1>0, <2>1, CrashHead DEF CrashMessage
  <2>4. Head1 \in Failed \/ (Served => Served')
    BY <2>2, <2>3 DEF Failed
  <2>5. kind # "EngineUp"
    BY <2>1 DEF Reply
  <2>. QED  BY <1>1, <2>1, <2>2, <2>4, <2>5
<1>. QED  BY <1>2, <1>3, <1>4, <1>5, <1>6, <1>7 DEF AdapterThread

\* A client posts a command.
LEMMA ClientThreadCrash ==
  ASSUME CrashesOnly, CrashInv, ClientThread
  PROVE  CrashInv'
<1>1. \A o \in ClientOptions : o \in Options /\ o.dist = FALSE
  BY TrackingAssumption DEF ClientOptions, Options, CrashesOnly
<1>2. ASSUME NEW kind \in {"Start", "Update", "Stop"}, NEW id \in Id, NEW o \in Options,
             kind # "Stop" => o.dist = FALSE
      PROVE  Session(kind, id, o) \in CrashMessage \ Failed
  <2>1. Session(kind, id, o) \in Message
    BY SessionIsMessage, MessageOfSession DEF SessionKind
  <2>. QED  BY <1>2, <2>1 DEF CrashMessage, Failed, Session, Reply
<1>3. ASSUME NEW kind \in {"Add", "Remove"}, NEW c \in Client
      PROVE  About(kind, c) \in CrashMessage \ Failed
  BY DEF About, CrashMessage, Failed, Message, ClientMessage, Reply
<1>4. About("Reconfig", Nobody) \in CrashMessage \ Failed
  BY DEF About, CrashMessage, Failed, Message, EngineMessage, Reply
<1>5. PICK m \in CrashMessage \ Failed : Post(m)
  BY <1>1, <1>2, <1>3, <1>4, NoOptionsType
     DEF ClientThread, Create, Destroy, StartTracking, UpdateTracking, StopTracking,
         UpdateConfig
<1>6. /\ adapterQ' = Append(adapterQ, m)
      /\ UNCHANGED <<timeS, distS, loop, nhz, spe, asked, apiQ, pending, engine>>
  BY <1>5 DEF Post, sessionVars, engineCall
<1>7. Sound /\ Redone
  BY DEF CrashInv
<1>8. CallsMade /\ CallsTime'
  BY <1>6, <1>7, NoCalls DEF Sound, CallsTime
<1>9. adapterQ' \in Seq(CrashMessage)
  BY <1>6, <1>7, PostMessage DEF Sound
<1>10. Sound'
  BY <1>6, <1>7, <1>8, <1>9 DEF Sound, NoDistance, SpeFast, NoFaster
<1>11. Redone' /\ (Reopening => Reopening')
  <2>1. Opens => Opens'
    BY <1>6 DEF Opens, NoneOf
  <2>. QED  BY <1>5, <1>6, <1>7, <2>1, PostRedone
<1>. QED  BY <1>6, <1>8, <1>10, <1>11, ServedStays, CrashInvKeeps

\* The LocApi's thread makes the next call of an engine that is up.
LEMMA CallMade ==
  ASSUME TypeOK, Served, CallsTime, apiQ # <<>>, apiQ' = Tail(apiQ),
         UNCHANGED <<timeS, spe, asked>>,
         Head(apiQ).op \in {"startTime", "stopTime"},
         engine' = Apply(Head(apiQ).op, Head(apiQ).opts)
  PROVE  Served'
<1>. DEFINE m == Head(apiQ)
<1>1. /\ m = apiQ[1] /\ Len(apiQ) \in Nat /\ Len(apiQ) >= 1 /\ Len(apiQ') = Len(apiQ) - 1
      /\ apiQ' \in Seq(TimeCall)
      /\ \A i \in 1 .. Len(apiQ') : apiQ'[i] = apiQ[i + 1]
  BY TakeHead DEF CallsTime
<1>2. CASE DOMAIN timeS = {}
  BY <1>2 DEF Served, Follows, Enough
<1>3. CASE DOMAIN timeS # {} /\ apiQ' # <<>>
  <2>1. Len(apiQ') \in 1 .. Len(apiQ')
    BY <1>1, <1>3
  <2>2. apiQ'[Len(apiQ')] = apiQ[Len(apiQ)]
    BY <1>1, <2>1
  <2>. QED  BY <1>3, <2>2 DEF Served, Follows, Enough
<1>4. CASE DOMAIN timeS # {} /\ apiQ' = <<>>
  <2>1. Len(apiQ') = 0
    <3>1. Len(<<>>) = 0
      OBVIOUS
    <3>. QED  BY <1>4, <3>1, Zenon
  <2>2. Matches(m, asked) /\ asked.on = TRUE
    <3>1. Len(apiQ) = 1
      BY <1>1, <2>1
    <3>2. Matches(apiQ[Len(apiQ)], asked) /\ asked.on = TRUE
      BY <1>4, Zenon DEF Served, Follows, Enough
    <3>. QED  BY <1>1, <3>1, <3>2, Zenon
  <2>3. m.op = "startTime" /\ m.opts.interval = asked.interval
    BY <2>2 DEF Matches
  <2>4. engine'.on = TRUE /\ engine'.interval = m.opts.interval
    <3>1. engine \in [up : BOOLEAN, on : BOOLEAN, interval : Nat]
      BY DEF TypeOK, EngineType
    <3>. QED  BY <2>3, <3>1 DEF Apply
  <2>. QED  BY <1>4, <2>3, <2>4 DEF Served, Follows, Enough
<1>. QED  BY <1>2, <1>3, <1>4

\* An opening restarts what there is; a call of an engine that is down fails in
\* front of an opening; any other call succeeds.
LEMMA ApiCrash ==
  ASSUME CrashesOnly, TypeOK, CrashInv, ApiStep
  PROVE  CrashInv'
<1>. DEFINE m == Head(apiQ)
            up == About("EngineUp", Nobody)
<1>1. /\ apiQ # <<>> /\ apiQ' = Tail(apiQ) /\ apiQ \in Seq(TimeCall)
      /\ adapterQ \in Seq(CrashMessage)
      /\ UNCHANGED <<timeS, distS, loop, nhz, spe, asked, pending>>
  BY DEF ApiStep, sessionVars, CrashInv, Sound, CallsTime
<1>2. m \in TimeCall /\ apiQ' \in Seq(TimeCall)
  BY <1>1, TakeHead
<1>3. PICK ok \in ApiOutcome(m) :
        /\ engine' = IF ok THEN Apply(m.op, m.opts) ELSE engine
        /\ adapterQ' =
             IF m.op \in {"open", "ssr"}
             THEN IF ok THEN Append(adapterQ, up) ELSE adapterQ
             ELSE IF m.reply = NoReply THEN adapterQ
             ELSE Append(adapterQ, [m.reply EXCEPT !.ok = ok])
  BY DEF ApiStep
<1>4. /\ m \in ApiMessage /\ m.op \in {"open", "ssr", "startTime", "stopTime"}
      /\ m.reply # NoReply => /\ m.reply.kind \in TimeReply
                              /\ m.reply.opts \in Kept(m.reply.kind)
  BY <1>2 DEF TimeCall
<1>5. engine \in [up : BOOLEAN, on : BOOLEAN, interval : Nat] /\ ok \in BOOLEAN
  BY DEF TypeOK, EngineType, ApiOutcome
<1>. DEFINE reply == [m.reply EXCEPT !.ok = ok]
<1>6. /\ up \in CrashMessage /\ up \in Ups
      /\ m.reply # NoReply => /\ reply \in CrashMessage /\ reply \notin Ups
                              /\ ok = TRUE => reply \notin Failed
  <2>1. up \in CrashMessage /\ up \in Ups
    BY DEF About, CrashMessage, Ups, Message, EngineMessage, Reply
  <2>2. ASSUME m.reply # NoReply
        PROVE  /\ reply \in CrashMessage /\ reply \notin Ups
               /\ ok = TRUE => reply \notin Failed
    <3>1. m.reply \in SessionMessage /\ m.reply.kind \in TimeReply
            /\ m.reply.opts \in Kept(m.reply.kind)
      BY <1>4, <2>2 DEF ApiMessage
    <3>2. /\ reply \in SessionMessage /\ reply.kind = m.reply.kind
          /\ reply.opts = m.reply.opts /\ reply.ok = ok
      BY <1>5, <3>1 DEF SessionMessage
    <3>. HIDE DEF reply
    <3>. QED  BY <3>1, <3>2 DEF CrashMessage, Message, Ups, Failed, TimeReply
  <2>. QED  BY <2>1, <2>2
<1>7. NoneOf(apiQ, Opening) <=> m \notin Opening /\ NoneOf(apiQ', Opening)
  BY <1>1, NoneTake
<1>. HIDE DEF m, up, reply
<1>8. Sound'
  <2>1. adapterQ' \in Seq(CrashMessage)
    <3>1. \/ adapterQ' = adapterQ
          \/ adapterQ' = Append(adapterQ, up)
          \/ m.reply # NoReply /\ adapterQ' = Append(adapterQ, reply)
      BY <1>3 DEF reply
    <3>2. Append(adapterQ, up) \in Seq(CrashMessage)
      BY <1>1, <1>6, PostMessage
    <3>3. m.reply # NoReply => Append(adapterQ, reply) \in Seq(CrashMessage)
      BY <1>1, <1>6, PostMessage
    <3>. QED  BY <1>1, <3>1, <3>2, <3>3, Zenon
  <2>. QED  BY <1>1, <1>2, <2>1 DEF CrashInv, Sound, CallsTime, NoDistance, SpeFast, NoFaster
<1>9. CASE m \in Opening
  <2>1. ok = TRUE
    BY <1>5, <1>9 DEF ApiOutcome, CrashesOnly, Opening
  <2>2. adapterQ' = Append(adapterQ, up) /\ engine'.up = TRUE
    BY <1>3, <1>9, <2>1 DEF Opening, Apply
  <2>. DEFINE q == Append(adapterQ, up)
              T == Ups \cup Failed
  <2>3. /\ NoneOf(q, Ups) <=> NoneOf(adapterQ, Ups) /\ up \notin Ups
        /\ LastIs(q, T, Ups) <=> (up \in T /\ up \in Ups) \/ (up \notin T /\ LastIs(adapterQ, T, Ups))
    <3>1. adapterQ \in Seq(CrashMessage) /\ up \in CrashMessage
      BY <1>1, <1>6
    <3>. HIDE DEF T
    <3>. QED  BY <3>1, OutcomePost
  <2>. HIDE DEF q
  <2>4. Redone' /\ Reopening'
    <3>1. adapterQ' = q
      BY <2>2 DEF q
    <3>. QED  BY <1>6, <2>3, <3>1 DEF Redone, Reopening, Outcome
  <2>. QED  BY <1>8, <2>2, <2>4 DEF CrashInv
<1>10. CASE m \notin Opening /\ engine.up = FALSE
  <2>1. Opens'
    BY <1>7, <1>10 DEF CrashInv, Opens, NoneOf
  <2>. QED  BY <1>8, <2>1 DEF CrashInv, Redone, Reopening
<1>11. CASE m \notin Opening /\ engine.up = TRUE
  <2>1. m.op \in {"startTime", "stopTime"}
    BY <1>4, <1>11 DEF Opening
  <2>2. ok = TRUE
    BY <1>5, <1>11, <2>1 DEF ApiOutcome, CrashesOnly
  <2>3. engine' = Apply(m.op, m.opts) /\ engine'.up = TRUE
    <3>1. engine' = Apply(m.op, m.opts)
      BY <1>3, <2>2
    <3>. QED  BY <1>5, <1>11, <2>1, <3>1 DEF Apply
  <2>4. Opens' <=> Opens
    BY <1>7, <1>11 DEF Opens, NoneOf
  <2>5. Redone' /\ (Reopening => Reopening')
    <3>1. CASE adapterQ' = adapterQ
      BY <2>4, <3>1 DEF CrashInv, Redone, Reopening, Outcome, NoneOf, LastIs
    <3>2. CASE m.reply # NoReply /\ adapterQ' = Append(adapterQ, reply)
      <4>1. Sound /\ Redone
        BY DEF CrashInv
      <4>2. reply \in CrashMessage /\ reply \notin Failed
        BY <1>6, <2>2, <3>2
      <4>. QED  BY <2>4, <3>2, <4>1, <4>2, PostRedone
    <3>. QED  BY <1>3, <2>1, <3>1, <3>2 DEF reply
  <2>6. Served => Served'
    BY <1>1, <2>1, <2>3, CallMade DEF m, CallsTime
  <2>. QED  BY <1>8, <2>3, <2>5, <2>6 DEF CrashInv
<1>. QED  BY <1>5, <1>9, <1>10, <1>11

LEMMA CrashCrash ==
  ASSUME CrashInv, Crash
  PROVE  CrashInv'
<1>. DEFINE c == Call("ssr", NoOptions, NoReply)
<1>1. /\ UNCHANGED <<timeS, distS, loop, nhz, spe, asked, pending, adapterQ>>
      /\ apiQ' = Append(apiQ, c)
  BY DEF Crash, sessionVars
<1>2. c \in TimeCall /\ c \in Opening
  <2>1. c \in ApiMessage
    BY CallType, NoOptionsType DEF ApiOp
  <2>. QED  BY <2>1 DEF TimeCall, Opening, Call
<1>. HIDE DEF c
<1>3. apiQ \in Seq(TimeCall)
  BY DEF CrashInv, Sound, CallsTime
<1>4. apiQ' \in Seq(TimeCall)
  BY <1>1, <1>2, <1>3, PostMessage
<1>5. Opens'
  <2>1. ~NoneOf(Append(apiQ, c), Opening)
    BY <1>2, <1>3, NonePost
  <2>. QED  BY <1>1, <2>1 DEF Opens, NoneOf
<1>6. Sound'
  BY <1>1, <1>4 DEF CrashInv, Sound, CallsTime, NoDistance, SpeFast, NoFaster
<1>. QED  BY <1>5, <1>6 DEF CrashInv, Redone, Reopening

LEMMA CrashInvInit == Init => CrashInv
<1>. SUFFICES ASSUME Init PROVE CrashInv
  OBVIOUS
<1>. DEFINE c == Call("open", NoOptions, NoReply)
<1>1. c \in TimeCall /\ c \in Opening
  <2>1. c \in ApiMessage
    BY CallType, NoOptionsType DEF ApiOp
  <2>. QED  BY <2>1 DEF TimeCall, Opening, Call
<1>2. apiQ = <<c>>
  BY DEF Init
<1>. HIDE DEF c
<1>3. CallsTime /\ Opens
  BY <1>1, <1>2, OutcomeOne DEF CallsTime, Opens
<1>4. adapterQ \in Seq(CrashMessage) /\ pending = <<>>
  BY DEF Init
<1>5. DOMAIN timeS = {} /\ DOMAIN distS = {} /\ loop = Idle /\ spe = FALSE
  BY DEF Init, EmptyMap
<1>6. Sound
  BY <1>3, <1>4, <1>5 DEF Sound, NoDistance, SpeFast, NoFaster, Idle
<1>. QED  BY <1>3, <1>6 DEF CrashInv, Redone, Reopening

LEMMA CrashInvStep == CrashesOnly /\ TypeInv /\ CrashInv /\ [Next]_vars => CrashInv'
<1>. SUFFICES ASSUME CrashesOnly, TypeOK, CrashInv, [Next]_vars PROVE CrashInv'
  BY DEF TypeInv
<1>1. CASE UNCHANGED vars
  <2>1. Sound'
    BY <1>1 DEF vars, CrashInv, Sound, CallsTime, NoDistance, SpeFast, NoFaster
  <2>2. Redone' /\ (Opens' <=> Opens) /\ (Reopening' <=> Reopening)
    BY <1>1 DEF vars, CrashInv, Redone, Reopening, Opens, Outcome, NoneOf, LastIs
  <2>. QED  BY <1>1, <2>1, <2>2, ServedStays DEF vars, CrashInv
<1>. QED  BY <1>1, AdapterCrash, ClientThreadCrash, ApiCrash, CrashCrash DEF Next

\* However often the engine crashes and is reopened, whatever calls fail while
\* it is down, and whatever the clients, the settings and the NHz requirement do
\* meanwhile: once every call has been made and answered the engine runs a fix
\* that is fast enough for each time based session (without distances, and if
\* no call of a running engine fails).
THEOREM EngineServesAfterCrash == CrashesOnly /\ Spec => []EngineServesSessions
<1>1. CASE CrashesOnly
  <2>1. Init => TypeInv /\ CrashInv
    BY TypeInvInit, CrashInvInit
  <2>2. TypeInv /\ CrashInv /\ [Next]_vars => TypeInv' /\ CrashInv'
    BY <1>1, TypeInvStep, CrashInvStep
  <2>3. TypeInv /\ CrashInv => EngineServesSessions
    <3>. SUFFICES ASSUME TypeOK, CrashInv, Settled, DOMAIN timeS # {}
                  PROVE  engine.on /\ \A id \in DOMAIN timeS :
                                        engine.interval <= timeS[id].interval
      BY DEF EngineServesSessions, TypeInv
    <3>1. NoneOf(apiQ, Opening)
      BY DEF Settled, NoneOf
    <3>2. NoneOf(adapterQ, Ups)
      BY DEF Settled, NoneOf, Ups, CrashInv, Sound
    <3>3. Enough /\ Follows
      BY <3>1, <3>2 DEF CrashInv, Reopening, Opens, Served
    <3>. QED  BY <3>3 DEF Enough, Follows, Settled
  <2>. QED  BY <2>1, <2>2, <2>3, PTL DEF Spec
<1>2. CASE ~CrashesOnly
  BY <1>2, PTL
<1>. QED  BY <1>1, <1>2

(***************************************************************************)
(* Stopped sessions                                                        *)
(*                                                                         *)
(* Of any sessions, with failures and crashes: what is needed is that the  *)
(* start of a time based session, which never waits for the capabilities,  *)
(* is handled before whatever ends the session, the stop and the outcome   *)
(* of a distance based one's stop.                                         *)
(***************************************************************************)

PlainStart(m) == m.kind = "Start" /\ ~m.opts.dist
Ends(m) == m.kind \in {"Stop", "stoppedDist"}
Waits(m) == m.kind \in {"Start", "Update"} /\ m.opts.dist

\* The calls whose outcome ends a session do so to one that somebody has.
Harmless(reply) == reply.kind \in (Reply \ {"stoppedDist"}) \cup {"none"}
OwnedCall ==
  {c \in ApiMessage :
     Harmless(c.reply) \/ (c.reply.kind = "stoppedDist" /\ owner[c.reply.id] # Nobody)}
OwnedCalls == apiQ \in Seq(OwnedCall)

\* A plain start waits in front of what ends its session, and none waits once the
\* session was stopped.  An id nobody has been given is not ended.
StartsFirst ==
  /\ \A i, j \in DOMAIN adapterQ :
       /\ PlainStart(adapterQ[i]) /\ Ends(adapterQ[j]) /\ adapterQ[i].id = adapterQ[j].id
       => i <= j
  /\ \A i \in DOMAIN adapterQ : PlainStart(adapterQ[i]) => adapterQ[i].id \notin stopped
  /\ \A i \in DOMAIN adapterQ : Ends(adapterQ[i]) => owner[adapterQ[i].id] # Nobody
  /\ \A id \in stopped : owner[id] # Nobody
  /\ \A i \in DOMAIN pending : Waits(pending[i])

\* What a step of the adapter does to its queue and the stopped sessions
Ended ==
  /\ UNCHANGED owner
  /\ \/ adapterQ' = adapterQ /\ UNCHANGED <<stopped, pending>>
     \/ adapterQ' = adapterQ \o pending /\ pending' = <<>> /\ UNCHANGED stopped
     \/ /\ adapterQ # <<>> /\ adapterQ' = Tail(adapterQ)
        /\ UNCHANGED pending \/ (Waits(Head1) /\ pending' = Append(pending, Head1))
        /\ UNCHANGED stopped \/ (Ends(Head1) /\ stopped' \subseteq stopped \cup {Head1.id})

\* Only these outcomes and starts add a session.
Grows ==
  \A id \in DOMAIN timeS' \cup DOMAIN distS' :
    \/ id \in DOMAIN timeS \cup DOMAIN distS
    \/ /\ adapterQ # <<>> /\ Head1.id = id
       /\ Revives(Head1) \/ PlainStart(Head1)

LEMMA SavedGrows ==
  ASSUME NEW id, NEW o, Save(id, o)
  PROVE  DOMAIN timeS' \cup DOMAIN distS' \subseteq DOMAIN timeS \cup DOMAIN distS \cup {id}
BY DEF Save, With

LEMMA ErasedShrinks ==
  ASSUME NEW id, Erase(id)
  PROVE  DOMAIN timeS' \cup DOMAIN distS' \subseteq DOMAIN timeS \cup DOMAIN distS
BY DEF Erase, Without

LEMMA NoneGrows ==
  DOMAIN timeS' \cup DOMAIN distS' \subseteq DOMAIN timeS \cup DOMAIN distS => Grows
BY DEF Grows

LEMMA HeadGrows ==
  ASSUME adapterQ # <<>>, Revives(Head1) \/ PlainStart(Head1),
         DOMAIN timeS' \cup DOMAIN distS' \subseteq DOMAIN timeS \cup DOMAIN distS \cup {Head1.id}
  PROVE  Grows
BY DEF Grows

\* A start saves the session it starts, an update one that is there, and of the
\* outcomes those that Revives names.
LEMMA HandlersGrow ==
  TypeOK /\ (AdapterThread \/ SetNHz) => Grows
<1>. SUFFICES ASSUME TypeOK, AdapterThread \/ SetNHz PROVE Grows
  OBVIOUS
<1>1. CASE AddClient \/ Remove \/ EngineUp \/ Reconfig \/ SetNHz
  <2>1. UNCHANGED <<timeS, distS>>
    BY <1>1 DEF AddClient, Remove, EngineUp, Reconfig, SetNHz, sessionVars
  <2>. QED  BY <2>1, NoneGrows
<1>2. CASE Start
  <2>1. Take("Start")
    BY <1>2 DEF Start
  <2>2. Head1 \in SessionMessage /\ Head1.kind = "Start" /\ adapterQ # <<>>
    BY <2>1, SessionHead, TakeType DEF SessionKind
  <2>3. Revives(Head1) \/ PlainStart(Head1)
    BY <2>2 DEF Revives, PlainStart
  <2>4. UNCHANGED <<timeS, distS>> \/ Save(Head1.id, Clamp(Head1.opts))
    BY <1>2 DEF Start, Wait, sessionVars
  <2>5. CASE UNCHANGED <<timeS, distS>>
    BY <2>5, NoneGrows
  <2>6. CASE Save(Head1.id, Clamp(Head1.opts))
    BY <2>2, <2>3, <2>6, SavedGrows, HeadGrows
  <2>. QED  BY <2>4, <2>5, <2>6
<1>3. CASE Update
  <2>. DEFINE id == Head1.id
              o == Clamp(Head1.opts)
  <2>1. \/ UNCHANGED <<timeS, distS>>
        \/ Erase(id)
        \/ id \in DOMAIN timeS /\ Save(id, o)
        \/ id \in DOMAIN timeS /\ timeS' = Without(timeS, id) /\ distS' = With(distS, id, o)
        \/ id \in DOMAIN timeS /\ timeS' = With(timeS, id, o) /\ UNCHANGED distS
    BY <1>3 DEF Update, Wait, sessionVars
  <2>2. DOMAIN timeS' \cup DOMAIN distS' \subseteq DOMAIN timeS \cup DOMAIN distS
    <3>1. CASE id \in DOMAIN timeS /\ Save(id, o)
      BY <3>1, SavedGrows
    <3>2. CASE Erase(id)
      BY <3>2, ErasedShrinks
    <3>. QED  BY <2>1, <3>1, <3>2 DEF With, Without
  <2>. QED  BY <2>2, NoneGrows
<1>4. CASE Stop \/ RemoveTimeSession \/ RemoveDistanceSession \/ RestartDistanceSession
  <2>1. UNCHANGED <<timeS, distS>> \/ \E id : Erase(id)
    <3>1. CASE Stop
      BY <3>1 DEF Stop
    <3>2. CASE RemoveTimeSession
      BY <3>2 DEF RemoveTimeSession
    <3>3. CASE RemoveDistanceSession \/ RestartDistanceSession
      BY <3>3 DEF RemoveDistanceSession, RestartDistanceSession, sessionVars
    <3>. QED  BY <1>4, <3>1, <3>2, <3>3
  <2>. QED  BY <2>1, ErasedShrinks, NoneGrows
<1>5. CASE Started \/ Updated \/ Stopped \/ Switched \/ Restarted
  <2>1. PICK kind \in Reply : Finish(kind)
    BY <1>5 DEF Started, Updated, Stopped, Switched, Restarted, Reply
  <2>2. adapterQ # <<>>
    BY <2>1 DEF Finish, Take
  <2>3. \/ UNCHANGED <<timeS, distS>> \/ Erase(Head1.id)
        \/ Save(Head1.id, Head1.opts) /\ Revives(Head1)
    BY <1>5 DEF Started, Updated, Stopped, Switched, Restarted, Finish, Take, Revives
  <2>4. CASE Save(Head1.id, Head1.opts) /\ Revives(Head1)
    BY <2>2, <2>4, SavedGrows, HeadGrows
  <2>. QED  BY <2>3, <2>4, ErasedShrinks, NoneGrows
<1>. QED  BY <1>1, <1>2, <1>3, <1>4, <1>5 DEF AdapterThread

\* A message is handled once, in the order of the queue; those that wait for the
\* capabilities are sent again behind the others.
LEMMA HandlersEnd ==
  TypeOK /\ (AdapterThread \/ SetNHz) => Ended
<1>. SUFFICES ASSUME TypeOK, AdapterThread \/ SetNHz PROVE Ended
  OBVIOUS
<1>1. ASSUME NEW kind, Take(kind)
      PROVE  /\ adapterQ # <<>> /\ adapterQ' = Tail(adapterQ) /\ UNCHANGED owner
             /\ Head1.kind = kind
  BY <1>1 DEF Take, clientVars
<1>2. CASE AddClient \/ Remove \/ EngineUp \/ Reconfig
  <2>1. UNCHANGED <<pending, stopped>> /\ \E kind : Take(kind)
    BY <1>2 DEF AddClient, Remove, EngineUp, Reconfig
  <2>. QED  BY <1>1, <2>1 DEF Ended
<1>3. CASE Start \/ Update
  <2>1. Take("Start") \/ Take("Update")
    BY <1>3 DEF Start, Update
  <2>2. /\ UNCHANGED stopped
        /\ UNCHANGED pending \/ (Head1.opts.dist /\ pending' = Append(pending, Head1))
    BY <1>3 DEF Start, Update, MustWait, Wait
  <2>. QED  BY <1>1, <2>1, <2>2 DEF Ended, Waits
<1>4. CASE Stop
  <2>1. /\ Take("Stop") /\ UNCHANGED pending
        /\ UNCHANGED stopped \/ stopped' \subseteq stopped \cup {Head1.id}
    BY <1>4 DEF Stop
  <2>. QED  BY <1>1, <2>1 DEF Ended, Ends
<1>5. CASE RemoveTimeSession \/ RemoveDistanceSession \/ RestartDistanceSession \/ SetNHz
  <2>1. /\ UNCHANGED <<owner, stopped>>
        /\ \/ UNCHANGED <<adapterQ, pending>>
           \/ adapterQ' = adapterQ \o pending /\ pending' = <<>>
    BY <1>5 DEF RemoveTimeSession, RemoveDistanceSession, RestartDistanceSession, SetNHz,
                clientVars
  <2>. QED  BY <2>1 DEF Ended
<1>6. CASE Started \/ Updated \/ Switched \/ Restarted
  <2>1. UNCHANGED <<pending, stopped>> /\ \E kind : Take(kind)
    BY <1>6 DEF Started, Updated, Switched, Restarted, Finish
  <2>. QED  BY <1>1, <2>1 DEF Ended
<1>7. CASE Stopped
  <2>1. /\ UNCHANGED pending
        /\ \E kind : Take(kind) /\ (\/ UNCHANGED stopped
                                    \/ kind = "stoppedDist" /\ stopped' = stopped \cup {Head1.id})
    BY <1>7 DEF Stopped, Finish
  <2>. QED  BY <1>1, <2>1 DEF Ended, Ends
<1>. QED  BY <1>2, <1>3, <1>4, <1>5, <1>6, <1>7 DEF AdapterThread

\* Only the stop of a distance based session makes a call whose outcome ends one.
LEMMA OtherCall ==
  ASSUME NEW op \in ApiOp, NEW o \in Options, NEW reply \in SessionMessage \cup {NoReply},
         Harmless(reply)
  PROVE  Call(op, o, reply) \in OwnedCall
BY CallType DEF OwnedCall, Call

LEMMA OtherReply ==
  ASSUME NEW kind \in Reply \ {"stoppedDist"}, NEW id \in Id, NEW o \in Options
  PROVE  Session(kind, id, o) \in SessionMessage /\ Harmless(Session(kind, id, o))
BY SessionIsMessage DEF Session, SessionKind, Harmless

LEMMA EmptyReply == Harmless(NoReply)
BY DEF NoReply, Session, Harmless

LEMMA TellEngineOwned ==
  ASSUME OwnedCalls, nhz \in BOOLEAN, NEW id, NEW o \in Options,
         NEW reply \in SessionMessage, Harmless(reply), NEW more \in Seq(OwnedCall),
         TellEngine(id, o, reply, more)
  PROVE  apiQ' \in Seq(OwnedCall)
<1>. DEFINE call == Call("startTime", SpeInterval(nhz, o), reply)
<1>1. call \in OwnedCall
  BY SpeIntervalType, OtherCall DEF ApiOp
<1>2. Append(apiQ, call) \o more \in Seq(OwnedCall)
  BY <1>1, PostMessage, PostMessages DEF OwnedCalls
<1>3. apiQ \o more \in Seq(OwnedCall)
  BY PostMessages DEF OwnedCalls
<1>. QED  BY <1>2, <1>3 DEF TellEngine

LEMMA NoCallOwned ==
  ASSUME OwnedCalls, NEW id, NEW answer, NEW more \in Seq(OwnedCall), NoCall(id, answer, more)
  PROVE  apiQ' \in Seq(OwnedCall)
BY PostMessages DEF NoCall, OwnedCalls

LEMMA MultiplexOwned ==
  ASSUME OwnedCalls, nhz \in BOOLEAN, Sessions(timeS), NEW id \in Id, NEW o \in Options,
         StartMultiplex(id, o) \/ (id \in DOMAIN timeS /\ UpdateMultiplex(id, o))
  PROVE  apiQ' \in Seq(OwnedCall)
<1>1. ASSUME id \in DOMAIN timeS
      PROVE  timeS[id] \in Options
  BY <1>1 DEF Sessions
<1>2. PICK reply \in SessionMessage, S \in SUBSET DOMAIN timeS :
        /\ Harmless(reply)
        /\ \/ NoCall(id, TRUE, <<>>)
           \/ TellEngine(id, o, reply, <<>>)
           \/ \E k \in S, p \in PowersOf(S) :
                TellEngine(id,
                   [timeS[k] EXCEPT !.interval = IF o.interval < @ THEN o.interval ELSE @,
                                    !.power = IF o.power < p THEN o.power ELSE @],
                   reply, <<>>)
  <2>1. CASE StartMultiplex(id, o)
    <3>1. /\ Session("started", id, NoOptions) \in SessionMessage
          /\ Harmless(Session("started", id, NoOptions))
      BY OtherReply, NoOptionsType DEF Reply
    <3>. QED  BY <2>1, <3>1 DEF StartMultiplex
  <2>2. CASE id \in DOMAIN timeS /\ UpdateMultiplex(id, o)
    <3>1. /\ Session("updated", id, timeS[id]) \in SessionMessage
          /\ Harmless(Session("updated", id, timeS[id]))
      BY <1>1, <2>2, OtherReply DEF Reply
    <3>2. DOMAIN timeS \ {id} \in SUBSET DOMAIN timeS
      OBVIOUS
    <3>. QED  BY <2>2, <3>1, <3>2 DEF UpdateMultiplex
  <2>. QED  BY <2>1, <2>2
<1>3. <<>> \in Seq(OwnedCall)
  OBVIOUS
<1>. QED  BY <1>2, <1>3, PickType, TellEngineOwned, NoCallOwned

LEMMA StopMultiplexOwned ==
  ASSUME OwnedCalls, nhz \in BOOLEAN, Sessions(timeS), NEW id \in Id, NEW answer,
         NEW more \in Seq(OwnedCall), StopMultiplex(id, answer, more)
  PROVE  apiQ' \in Seq(OwnedCall)
<1>. DEFINE S == DOMAIN timeS \ {id}
            stop == Call("stopTime", NoOptions, Session("stopped", id, NoOptions))
            reply == Session("started", id, NoOptions)
<1>1. /\ Session("stopped", id, NoOptions) \in SessionMessage
      /\ Harmless(Session("stopped", id, NoOptions))
      /\ reply \in SessionMessage /\ Harmless(reply)
  BY OtherReply, NoOptionsType DEF Reply
<1>2. stop \in OwnedCall
  BY <1>1, NoOptionsType, OtherCall DEF ApiOp
<1>3. CASE S = {}
  <2>1. apiQ' = Append(apiQ, stop) \o more
    BY <1>3 DEF StopMultiplex
  <2>. QED  BY <1>2, <2>1, PostMessage, PostMessages DEF OwnedCalls
<1>4. CASE S # {}
  <2>1. PICK k \in S, p \in PowersOf(S) :
           \/ TellEngine(id, [timeS[k] EXCEPT !.power = p], reply, more)
           \/ NoCall(id, answer, more)
    BY <1>4 DEF StopMultiplex
  <2>2. [timeS[k] EXCEPT !.power = p] \in Options
    BY PickType, NoOptionsType
  <2>. QED  BY <1>1, <2>1, <2>2, TellEngineOwned, NoCallOwned
<1>. QED  BY <1>3, <1>4

LEMMA RestartTimeOwned ==
  ASSUME OwnedCalls, Sessions(timeS), NEW needed \in BOOLEAN,
         NEW before \in Seq(OwnedCall), RestartTime(needed, before)
  PROVE  apiQ' \in Seq(OwnedCall)
<1>. DEFINE S == DOMAIN timeS
<1>1. apiQ \o before \in Seq(OwnedCall)
  BY PostMessages DEF OwnedCalls
<1>2. CASE S = {}
  BY <1>1, <1>2 DEF RestartTime
<1>3. CASE S # {}
  <2>1. PICK k \in S, p \in PowersOf(S) :
          apiQ' = Append(apiQ \o before,
                         Call("startTime", SpeInterval(needed, [timeS[k] EXCEPT !.power = p]), NoReply))
    BY <1>3 DEF RestartTime
  <2>2. SpeInterval(needed, [timeS[k] EXCEPT !.power = p]) \in Options
    BY PickType, NoOptionsType, SpeIntervalType
  <2>3. Call("startTime", SpeInterval(needed, [timeS[k] EXCEPT !.power = p]), NoReply) \in OwnedCall
    BY <2>2, OtherCall, EmptyReply DEF ApiOp
  <2>. QED  BY <1>1, <2>1, <2>3, PostMessage
<1>. QED  BY <1>2, <1>3

\* Every handler's calls are owned: the stop that is handled is one of a session
\* that somebody has.
LEMMA HandlersOwn ==
  ASSUME TypeOK, RestartsSessions, OwnedCalls, StartsFirst, AdapterThread \/ SetNHz
  PROVE  OwnedCalls'
<1>t. /\ nhz \in BOOLEAN /\ Sessions(timeS) /\ Sessions(distS) /\ owner' = owner
      /\ apiQ \in Seq(OwnedCall)
  BY HandlersEnd DEF TypeOK, AdapterType, SessionType, Ended, OwnedCalls
<1>o. OwnedCall' = OwnedCall
  BY <1>t DEF OwnedCall
<1>. SUFFICES apiQ' \in Seq(OwnedCall)
  BY <1>o DEF OwnedCalls
<1>0. <<>> \in Seq(OwnedCall)
  OBVIOUS
<1>1. CASE UNCHANGED apiQ
  BY <1>t, <1>1
<1>2. ASSUME NEW c \in OwnedCall, apiQ' = Append(apiQ, c)
      PROVE  apiQ' \in Seq(OwnedCall)
  BY <1>t, <1>2, PostMessage
<1>3. CASE AddClient \/ Remove \/ Started \/ Updated \/ Stopped
  <2>1. UNCHANGED apiQ
    BY <1>3 DEF AddClient, Remove, Started, Updated, Stopped, engineCall
  <2>. QED  BY <1>1, <2>1
<1>4. CASE Start
  <2>. DEFINE id == Head1.id
              o == Clamp(Head1.opts)
              call == Call("startDist", o, Session("started", id, NoOptions))
  <2>1. id \in Id /\ o \in Options
    BY <1>4, SessionHead, ClampType DEF Start, SessionKind
  <2>2. call \in OwnedCall
    BY <2>1, OtherReply, OtherCall, NoOptionsType DEF Reply, ApiOp
  <2>3. UNCHANGED apiQ \/ apiQ' = Append(apiQ, call) \/ StartMultiplex(id, o)
    BY <1>4 DEF Start, Wait, engineCall
  <2>. QED  BY <1>t, <1>1, <1>2, <2>1, <2>2, <2>3, MultiplexOwned
<1>5. CASE Update
  <2>. DEFINE id == Head1.id
              o == Clamp(Head1.opts)
              call(kind) == Call("stopDist", NoOptions, Session(kind, id, o))
              start == Call("startDist", o, NoReply)
  <2>1. id \in Id /\ o \in Options
    BY <1>5, SessionHead, ClampType DEF Update, SessionKind
  <2>2. call("switch") \in OwnedCall /\ call("restart") \in OwnedCall /\ start \in OwnedCall
    BY <2>1, OtherReply, OtherCall, EmptyReply, NoOptionsType DEF Reply, ApiOp
  <2>3. \/ UNCHANGED apiQ
        \/ apiQ' = Append(apiQ, call("switch")) \/ apiQ' = Append(apiQ, call("restart"))
        \/ StopMultiplex(id, TRUE, <<start>>)
        \/ id \in DOMAIN timeS /\ UpdateMultiplex(id, o)
    BY <1>5 DEF Update, Wait, engineCall
  <2>4. <<start>> \in Seq(OwnedCall)
    BY <2>2
  <2>. QED  BY <1>t, <1>1, <1>2, <2>1, <2>2, <2>3, <2>4, MultiplexOwned, StopMultiplexOwned
<1>6. CASE Stop
  <2>. DEFINE id == Head1.id
              call == Call("stopDist", NoOptions, Session("stoppedDist", id, NoOptions))
  <2>1. Take("Stop")
    BY <1>6 DEF Stop
  <2>2. id \in Id
    BY <2>1, SessionHead DEF SessionKind
  <2>3. owner[id] # Nobody
    <3>1. adapterQ # <<>> /\ adapterQ \in Seq(Message) /\ Head1.kind = "Stop"
      BY <2>1, TakeType DEF TypeOK, AdapterType
    <3>2. 1 \in DOMAIN adapterQ /\ Head1 = adapterQ[1]
      BY <3>1, TakeHead DEF Head1
    <3>. QED  BY <3>1, <3>2 DEF StartsFirst, Ends
  <2>4. call \in ApiMessage
    BY <2>2, SessionIsMessage, CallType, NoOptionsType DEF SessionKind, Reply, ApiOp
  <2>5. call \in OwnedCall
    BY <2>3, <2>4 DEF OwnedCall, Call, Session
  <2>6. UNCHANGED apiQ \/ apiQ' = Append(apiQ, call) \/ StopMultiplex(id, TRUE, <<>>)
    BY <1>6 DEF Stop, engineCall
  <2>. QED  BY <1>t, <1>0, <1>1, <1>2, <2>2, <2>5, <2>6, StopMultiplexOwned
<1>7. CASE EngineUp \/ Reconfig \/ SetNHz
  <2>1. \E needed \in BOOLEAN, before \in {<<>>, <<Call("stopTime", NoOptions, NoReply)>>} :
          RestartTime(needed, before)
    BY <1>t, <1>7 DEF EngineUp, Reconfig, SetNHz
  <2>2. <<Call("stopTime", NoOptions, NoReply)>> \in Seq(OwnedCall)
    BY OtherCall, EmptyReply, NoOptionsType DEF ApiOp
  <2>. QED  BY <1>t, <1>0, <2>1, <2>2, RestartTimeOwned
<1>8. CASE RemoveTimeSession
  <2>1. UNCHANGED apiQ \/ \E id \in loop.left : StopMultiplex(id, FALSE, <<>>)
    BY <1>8 DEF RemoveTimeSession, engineCall
  <2>2. loop.left \subseteq Id
    BY DEF TypeOK, AdapterType
  <2>. QED  BY <1>t, <1>0, <1>1, <2>1, <2>2, StopMultiplexOwned
<1>9. CASE RemoveDistanceSession
  <2>1. \/ UNCHANGED apiQ
        \/ \E id \in loop.left :
             apiQ' = Append(apiQ, Call("stopDist", NoOptions, Session("removedDist", id, NoOptions)))
    BY <1>9 DEF RemoveDistanceSession
  <2>2. \A id \in loop.left :
          Call("stopDist", NoOptions, Session("removedDist", id, NoOptions)) \in OwnedCall
    BY OtherReply, OtherCall, NoOptionsType DEF Reply, ApiOp, TypeOK, AdapterType
  <2>. QED  BY <1>1, <1>2, <2>1, <2>2
<1>10. CASE RestartDistanceSession
  <2>1. \/ UNCHANGED apiQ
        \/ \E id \in loop.left : apiQ' = Append(apiQ, Call("startDist", distS[id], NoReply))
    BY <1>10 DEF RestartDistanceSession
  <2>2. \A id \in loop.left : distS[id] \in Options
    BY <1>t, <1>10 DEF RestartDistanceSession, RestartsSessions, Sessions
  <2>3. \A id \in loop.left : Call("startDist", distS[id], NoReply) \in OwnedCall
    BY <2>2, OtherCall, EmptyReply DEF ApiOp
  <2>. QED  BY <1>1, <1>2, <2>1, <2>3
<1>11. CASE Switched \/ Restarted
  <2>. DEFINE id == Head1.id
              o == Head1.opts
              again == Call("startDist", o, Session("restarted", id, o))
  <2>1. PICK kind \in Reply : Take(kind)
    BY <1>11 DEF Switched, Restarted, Finish, Reply
  <2>2. id \in Id /\ o \in Options
    BY <2>1, SessionHead DEF SessionKind
  <2>3. again \in OwnedCall
    BY <2>2, OtherReply, OtherCall DEF Reply, ApiOp
  <2>4. UNCHANGED apiQ \/ apiQ' = Append(apiQ, again) \/ StartMultiplex(id, o)
    BY <1>11 DEF Switched, Restarted
  <2>. QED  BY <1>t, <1>1, <1>2, <2>2, <2>3, <2>4, MultiplexOwned
<1>. QED  BY <1>3, <1>4, <1>5, <1>6, <1>7, <1>8, <1>9, <1>10, <1>11 DEF AdapterThread

\* Handling the first message, or sending again those that waited, keeps the
\* starts in front.
LEMMA EndedInOrder ==
  ASSUME TypeOK, StartsFirst, Ended
  PROVE  StartsFirst'
<1>1. /\ adapterQ \in Seq(Message) /\ pending \in Seq(Message) /\ UNCHANGED owner
      /\ DOMAIN adapterQ = 1 .. Len(adapterQ) /\ Len(adapterQ) \in Nat
      /\ DOMAIN pending = 1 .. Len(pending) /\ Len(pending) \in Nat
  BY DEF TypeOK, AdapterType, Ended
<1>2. CASE adapterQ' = adapterQ /\ UNCHANGED <<stopped, pending>>
  BY <1>1, <1>2 DEF StartsFirst
<1>3. CASE adapterQ' = adapterQ \o pending /\ pending' = <<>> /\ UNCHANGED stopped
  <2>1. /\ DOMAIN adapterQ' = 1 .. Len(adapterQ) + Len(pending)
        /\ \A i \in DOMAIN adapterQ : adapterQ'[i] = adapterQ[i]
        /\ \A i \in DOMAIN adapterQ' : i \notin DOMAIN adapterQ =>
             i - Len(adapterQ) \in DOMAIN pending /\ adapterQ'[i] = pending[i - Len(adapterQ)]
    BY <1>1, <1>3
  <2>2. \A i \in DOMAIN adapterQ' : i \notin DOMAIN adapterQ =>
          ~PlainStart(adapterQ'[i]) /\ ~Ends(adapterQ'[i])
    BY <2>1 DEF StartsFirst, Waits, PlainStart, Ends
  <2>3. DOMAIN pending' = {}
    BY <1>3
  <2>. QED  BY <1>1, <1>3, <2>1, <2>2, <2>3 DEF StartsFirst
<1>4. CASE /\ adapterQ # <<>> /\ adapterQ' = Tail(adapterQ)
           /\ UNCHANGED pending \/ (Waits(Head1) /\ pending' = Append(pending, Head1))
           /\ UNCHANGED stopped \/ (Ends(Head1) /\ stopped' \subseteq stopped \cup {Head1.id})
  <2>1. /\ 1 \in DOMAIN adapterQ /\ Head1 = adapterQ[1]
        /\ DOMAIN adapterQ' = 1 .. Len(adapterQ) - 1
        /\ \A i \in DOMAIN adapterQ' : i \in Nat /\ i + 1 \in DOMAIN adapterQ
                                      /\ adapterQ'[i] = adapterQ[i + 1]
    BY <1>1, <1>4 DEF Head1
  <2>2. \A i, j \in DOMAIN adapterQ' :
          /\ PlainStart(adapterQ'[i]) /\ Ends(adapterQ'[j]) /\ adapterQ'[i].id = adapterQ'[j].id
          => i <= j
    <3>. SUFFICES ASSUME NEW i \in DOMAIN adapterQ', NEW j \in DOMAIN adapterQ',
                         PlainStart(adapterQ'[i]), Ends(adapterQ'[j]),
                         adapterQ'[i].id = adapterQ'[j].id
                  PROVE  i <= j
      OBVIOUS
    <3>1. i + 1 <= j + 1
      BY <2>1 DEF StartsFirst
    <3>. QED  BY <2>1, <3>1
  <2>3. Ends(Head1) =>
          \A i \in DOMAIN adapterQ' : PlainStart(adapterQ'[i]) => adapterQ'[i].id # Head1.id
    <3>. SUFFICES ASSUME Ends(Head1), NEW i \in DOMAIN adapterQ',
                         PlainStart(adapterQ'[i]), adapterQ'[i].id = Head1.id
                  PROVE  FALSE
      OBVIOUS
    <3>1. i + 1 <= 1
      BY <2>1 DEF StartsFirst
    <3>. QED  BY <2>1, <3>1
  <2>4. \A i \in DOMAIN adapterQ' : PlainStart(adapterQ'[i]) => adapterQ'[i].id \notin stopped'
    <3>1. \A i \in DOMAIN adapterQ' : PlainStart(adapterQ'[i]) => adapterQ'[i].id \notin stopped
      BY <2>1 DEF StartsFirst
    <3>. QED  BY <1>4, <2>3, <3>1
  <2>5. /\ \A i \in DOMAIN adapterQ' : Ends(adapterQ'[i]) => owner'[adapterQ'[i].id] # Nobody
        /\ \A id \in stopped' : owner'[id] # Nobody
    BY <1>1, <1>4, <2>1 DEF StartsFirst
  <2>6. \A i \in DOMAIN pending' : Waits(pending'[i])
    <3>1. CASE UNCHANGED pending
      BY <3>1 DEF StartsFirst
    <3>2. CASE Waits(Head1) /\ pending' = Append(pending, Head1)
      <4>1. Head1 \in Message
        BY <1>1, <1>4, TakeHead DEF Head1
      <4>2. /\ DOMAIN pending' = 1 .. Len(pending) + 1 /\ pending'[Len(pending) + 1] = Head1
            /\ \A i \in 1 .. Len(pending) : pending'[i] = pending[i]
        BY <1>1, <3>2, <4>1
      <4>. QED  BY <1>1, <3>2, <4>2 DEF StartsFirst
    <3>. QED  BY <1>4, <3>1, <3>2
  <2>. QED  BY <2>2, <2>4, <2>5, <2>6 DEF StartsFirst
<1>. QED  BY <1>2, <1>3, <1>4 DEF Ended

\* What is posted waits behind the others; a start is of an id that is new.
LEMMA PostedInOrder ==
  ASSUME TypeOK, StartsFirst, NEW m \in Message, adapterQ' = Append(adapterQ, m),
         UNCHANGED <<stopped, pending>>,
         \A id \in Id : owner[id] # Nobody => owner'[id] = owner[id],
         PlainStart(m) => m.id \in Id /\ owner[m.id] = Nobody,
         Ends(m) => owner'[m.id] # Nobody
  PROVE  StartsFirst'
<1>1. /\ adapterQ \in Seq(Message)
      /\ \A i \in DOMAIN adapterQ : adapterQ[i] \in Message
      /\ DOMAIN adapterQ = 1 .. Len(adapterQ) /\ Len(adapterQ) \in Nat
      /\ DOMAIN adapterQ' = 1 .. Len(adapterQ) + 1
      /\ adapterQ'[Len(adapterQ) + 1] = m
      /\ \A i \in DOMAIN adapterQ : adapterQ'[i] = adapterQ[i]
  BY DEF TypeOK, AdapterType
<1>2. \A i \in DOMAIN adapterQ :
        Ends(adapterQ[i]) => adapterQ[i].id \in Id /\ owner[adapterQ[i].id] # Nobody
  BY <1>1 DEF StartsFirst, Ends, Message, SessionMessage, ClientMessage, EngineMessage
<1>3. \A i \in DOMAIN adapterQ' : i \in DOMAIN adapterQ \/ i = Len(adapterQ) + 1
  BY <1>1
<1>4. ~(PlainStart(m) /\ Ends(m))
  BY DEF PlainStart, Ends
<1>5. \A i, j \in DOMAIN adapterQ' :
        /\ PlainStart(adapterQ'[i]) /\ Ends(adapterQ'[j]) /\ adapterQ'[i].id = adapterQ'[j].id
        => i <= j
  <2>. SUFFICES ASSUME NEW i \in DOMAIN adapterQ', NEW j \in DOMAIN adapterQ',
                       PlainStart(adapterQ'[i]), Ends(adapterQ'[j]),
                       adapterQ'[i].id = adapterQ'[j].id
                PROVE  i <= j
    OBVIOUS
  <2>1. CASE i \in DOMAIN adapterQ /\ j \in DOMAIN adapterQ
    BY <1>1, <2>1 DEF StartsFirst
  <2>2. CASE j = Len(adapterQ) + 1
    BY <1>1, <2>2
  <2>3. CASE i = Len(adapterQ) + 1 /\ j \in DOMAIN adapterQ
    BY <1>1, <1>2, <2>3
  <2>. QED  BY <1>3, <2>1, <2>2, <2>3
<1>6. \A i \in DOMAIN adapterQ' :
        /\ PlainStart(adapterQ'[i]) => adapterQ'[i].id \notin stopped
        /\ Ends(adapterQ'[i]) => owner'[adapterQ'[i].id] # Nobody
  <2>1. \A i \in DOMAIN adapterQ : PlainStart(adapterQ[i]) => adapterQ[i].id \notin stopped
    BY DEF StartsFirst
  <2>2. PlainStart(m) => m.id \notin stopped
    BY DEF StartsFirst
  <2>. QED  BY <1>1, <1>2, <1>3, <2>1, <2>2
<1>7. \A id \in stopped : owner'[id] # Nobody
  BY DEF StartsFirst, TypeOK, SessionType
<1>. QED  BY <1>5, <1>6, <1>7 DEF StartsFirst

\* Calls stay owned when ids are given to clients.
LEMMA OwnedStays ==
  ASSUME TypeOK, OwnedCalls, UNCHANGED apiQ,
         \A id \in Id : owner[id] # Nobody => owner'[id] = owner[id]
  PROVE  OwnedCalls'
<1>1. OwnedCall \subseteq OwnedCall'
  BY DEF OwnedCall, ApiMessage, SessionMessage, NoReply, Session
<1>2. \A i \in DOMAIN apiQ : apiQ[i] \in OwnedCall
  BY DEF OwnedCalls
<1>. QED  BY <1>1, <1>2, TypedQueue DEF OwnedCalls

LEMMA ClientsPost ==
  ASSUME TypeOK, OwnedCalls, StartsFirst, ClientThread
  PROVE  OwnedCalls' /\ StartsFirst'
<1>o. owner \in [Id -> Client \cup {Nobody}]
  BY DEF TypeOK, ClientType
<1>1. ASSUME NEW m, Post(m)
      PROVE  adapterQ' = Append(adapterQ, m) /\ UNCHANGED <<stopped, pending, apiQ>>
  BY <1>1 DEF Post, engineCall
<1>2. \A c \in Client \cup {Nobody} : \A kind \in {"Add", "Remove", "Reconfig"} :
        About(kind, c).kind = kind
  BY DEF About
<1>3. ASSUME NEW c \in Client, Create(c) \/ Destroy(c) PROVE OwnedCalls' /\ StartsFirst'
  <2>1. PICK kind \in {"Add", "Remove"} : Post(About(kind, c)) /\ UNCHANGED owner
    BY <1>3 DEF Create, Destroy
  <2>2. About(kind, c) \in Message
    BY DEF About, Message, ClientMessage
  <2>. QED  BY <1>1, <1>2, <2>1, <2>2, PostedInOrder, OwnedStays DEF PlainStart, Ends
<1>4. ASSUME NEW c \in Client, NEW o \in ClientOptions, StartTracking(c, o)
      PROVE  OwnedCalls' /\ StartsFirst'
  <2>1. PICK id \in Id : /\ owner[id] = Nobody /\ owner' = [owner EXCEPT ![id] = c]
                         /\ Post(Session("Start", id, o))
    BY <1>4 DEF StartTracking
  <2>2. o \in Options
    BY TrackingAssumption DEF ClientOptions, Options
  <2>3. /\ Session("Start", id, o) \in Message
        /\ Session("Start", id, o).kind = "Start" /\ Session("Start", id, o).id = id
    BY <2>2, SessionIsMessage, MessageOfSession DEF SessionKind, Session
  <2>4. \A i \in Id : owner[i] # Nobody => owner'[i] = owner[i]
    BY <1>o, <2>1
  <2>. QED  BY <1>1, <2>1, <2>3, <2>4, PostedInOrder, OwnedStays DEF Ends
<1>5. ASSUME NEW id \in Id, NEW o \in ClientOptions, UpdateTracking(id, o)
      PROVE  OwnedCalls' /\ StartsFirst'
  <2>1. Post(Session("Update", id, o)) /\ UNCHANGED owner
    BY <1>5 DEF UpdateTracking
  <2>2. o \in Options
    BY TrackingAssumption DEF ClientOptions, Options
  <2>3. Session("Update", id, o) \in Message /\ Session("Update", id, o).kind = "Update"
    BY <2>2, SessionIsMessage, MessageOfSession DEF SessionKind, Session
  <2>. QED  BY <1>1, <2>1, <2>3, PostedInOrder, OwnedStays DEF PlainStart, Ends
<1>6. ASSUME NEW id \in Id, StopTracking(id) PROVE OwnedCalls' /\ StartsFirst'
  <2>1. Post(Session("Stop", id, NoOptions)) /\ UNCHANGED owner /\ owner[id] # Nobody
    BY <1>6 DEF StopTracking
  <2>2. /\ Session("Stop", id, NoOptions) \in Message
        /\ Session("Stop", id, NoOptions).kind = "Stop"
        /\ Session("Stop", id, NoOptions).id = id
    BY NoOptionsType, SessionIsMessage, MessageOfSession DEF SessionKind, Session
  <2>. QED  BY <1>1, <2>1, <2>2, PostedInOrder, OwnedStays DEF PlainStart
<1>7. CASE UpdateConfig
  <2>1. Post(About("Reconfig", Nobody)) /\ UNCHANGED owner
    BY <1>7 DEF UpdateConfig
  <2>2. About("Reconfig", Nobody) \in Message
    BY DEF About, Message, EngineMessage
  <2>. QED  BY <1>1, <1>2, <2>1, <2>2, PostedInOrder, OwnedStays DEF PlainStart, Ends
<1>. QED  BY <1>3, <1>4, <1>5, <1>6, <1>7 DEF ClientThread

LEMMA OutcomesPost ==
  ASSUME TypeOK, OwnedCalls, StartsFirst, ApiStep
  PROVE  OwnedCalls' /\ StartsFirst'
<1>. DEFINE reply == Head(apiQ).reply
<1>0. owner' = owner /\ stopped' = stopped /\ pending' = pending
  BY DEF ApiStep, clientVars
<1>1. apiQ # <<>> /\ apiQ' = Tail(apiQ)
  BY DEF ApiStep
<1>2. Head(apiQ) \in OwnedCall /\ Tail(apiQ) \in Seq(OwnedCall)
  BY <1>1, TakeHead DEF OwnedCalls
<1>3. OwnedCall' = OwnedCall
  BY <1>0 DEF OwnedCall
<1>4. OwnedCalls'
  BY <1>1, <1>2, <1>3 DEF OwnedCalls
<1>5. \/ UNCHANGED adapterQ
      \/ adapterQ' = Append(adapterQ, About("EngineUp", Nobody))
      \/ /\ reply # NoReply
         /\ \E ok \in BOOLEAN : adapterQ' = Append(adapterQ, [reply EXCEPT !.ok = ok])
  BY DEF ApiStep, ApiOutcome
<1>6. CASE UNCHANGED adapterQ
  BY <1>0, <1>4, <1>6, EndedInOrder DEF Ended
<1>7. CASE adapterQ' = Append(adapterQ, About("EngineUp", Nobody))
  <2>1. About("EngineUp", Nobody) \in Message /\ About("EngineUp", Nobody).kind = "EngineUp"
    BY DEF About, Message, EngineMessage
  <2>2. ~PlainStart(About("EngineUp", Nobody)) /\ ~Ends(About("EngineUp", Nobody))
    BY <2>1 DEF PlainStart, Ends
  <2>. QED  BY <1>0, <1>4, <1>7, <2>1, <2>2, PostedInOrder
<1>8. ASSUME reply # NoReply, NEW ok \in BOOLEAN, adapterQ' = Append(adapterQ, [reply EXCEPT !.ok = ok])
      PROVE  StartsFirst'
  <2>1. /\ reply \in SessionMessage /\ reply.kind \in Reply
        /\ reply.kind = "stoppedDist" => owner[reply.id] # Nobody
    BY <1>2, <1>8 DEF OwnedCall, ApiMessage, Harmless, SessionMessage, Reply
  <2>2. /\ [reply EXCEPT !.ok = ok] \in Message
        /\ [reply EXCEPT !.ok = ok].kind = reply.kind /\ [reply EXCEPT !.ok = ok].id = reply.id
        /\ [reply EXCEPT !.ok = ok].opts = reply.opts
    BY <2>1 DEF Message, SessionMessage
  <2>3. reply.kind \notin {"Start", "Stop"}
    BY <2>1 DEF Reply
  <2>. QED  BY <1>0, <1>8, <2>1, <2>2, <2>3, PostedInOrder DEF PlainStart, Ends
<1>. QED  BY <1>4, <1>5, <1>6, <1>7, <1>8

\* Every step keeps the starts in front.
LEMMA StartsFirstStep ==
  TypeInv /\ OwnedCalls /\ StartsFirst /\ [Next]_vars => OwnedCalls' /\ StartsFirst'
<1>. SUFFICES ASSUME TypeOK, RestartsSessions, OwnedCalls, StartsFirst, [Next]_vars
              PROVE  OwnedCalls' /\ StartsFirst'
  BY DEF TypeInv
<1>1. CASE AdapterThread \/ SetNHz
  BY <1>1, HandlersOwn, HandlersEnd, EndedInOrder
<1>2. CASE ClientThread
  BY <1>2, ClientsPost
<1>3. CASE ApiStep
  BY <1>3, OutcomesPost
<1>4. CASE Crash
  <2>1. /\ UNCHANGED <<owner, adapterQ, pending, stopped>>
        /\ apiQ' = Append(apiQ, Call("ssr", NoOptions, NoReply))
    BY <1>4 DEF Crash
  <2>2. Call("ssr", NoOptions, NoReply) \in OwnedCall /\ OwnedCall' = OwnedCall
    BY <2>1, OtherCall, EmptyReply, NoOptionsType DEF ApiOp, OwnedCall
  <2>. QED  BY <2>1, <2>2, PostMessage DEF StartsFirst, OwnedCalls
<1>5. CASE UNCHANGED vars
  BY <1>5 DEF vars, StartsFirst, OwnedCalls, OwnedCall
<1>. QED  BY <1>1, <1>2, <1>3, <1>4, <1>5 DEF Next

LEMMA StartsFirstInit == Init => OwnedCalls /\ StartsFirst
<1>. SUFFICES ASSUME Init PROVE OwnedCalls /\ StartsFirst
  OBVIOUS
<1>1. Call("open", NoOptions, NoReply) \in OwnedCall
  BY OtherCall, EmptyReply, NoOptionsType DEF ApiOp
<1>. QED  BY <1>1 DEF Init, OwnedCalls, StartsFirst

\* A stopped session comes back only by the four ways that OnlyLateOutcomesRevive
\* names: of distance based and time based sessions, with updates from one kind to
\* the other, commands that wait for the capabilities, calls that fail, crashes and
\* reconfigurations (the lambdas of updateTracking and
\* updateTrackingOptionsCommand, MsgStartTracking, gps/gnss/GnssAdapter.cpp).
THEOREM StoppedComeBackLate == Spec => OnlyLateOutcomesRevive
<1>. DEFINE Inv == TypeInv /\ OwnedCalls /\ StartsFirst
            Revived == \A id \in stopped :
                         id \in DOMAIN timeS' \cup DOMAIN distS' =>
                           \/ id \in DOMAIN timeS \cup DOMAIN distS
                           \/ adapterQ # <<>> /\ Head1.id = id /\ Revives(Head1)
<1>1. Inv /\ [Next]_vars => Inv'
  BY TypeInvStep, StartsFirstStep
<1>2. Init => Inv
  BY TypeInvInit, StartsFirstInit
<1>3. Inv /\ [Next]_vars => [Revived]_vars
  <2>. SUFFICES ASSUME Inv, Next PROVE Revived
    OBVIOUS
  <2>1. CASE ClientThread \/ ApiStep \/ Crash
    <3>1. UNCHANGED <<timeS, distS>>
      BY <2>1 DEF ClientThread, Create, Destroy, StartTracking, UpdateTracking, StopTracking,
                  UpdateConfig, Post, ApiStep, Crash, sessionVars
    <3>. QED  BY <3>1
  <2>2. CASE AdapterThread \/ SetNHz
    <3>1. Grows
      BY <2>2, HandlersGrow DEF TypeInv
    <3>2. adapterQ # <<>> /\ PlainStart(Head1) => Head1.id \notin stopped
      <4>1. adapterQ # <<>> => 1 \in DOMAIN adapterQ /\ Head1 = adapterQ[1]
        BY TakeHead DEF TypeInv, TypeOK, AdapterType, Head1
      <4>. QED  BY <4>1 DEF StartsFirst
    <3>. QED  BY <3>1, <3>2 DEF Grows
  <2>. QED  BY <2>1, <2>2 DEF Next
<1>. QED  BY <1>1, <1>2, <1>3, PTL DEF Spec, OnlyLateOutcomesRevive

(***************************************************************************)
(* Answers                                                                 *)
(***************************************************************************)

\* Without the NHz requirement, which has a removal answer at once.
NoNHz == nhz = FALSE /\ budget.nhz = 0

\* The commands and outcomes that wait to be handled, and the calls that will
\* have an outcome, for session id: each may be answered once.
Asking(id) ==
  {m \in Message : m.kind \in {"Start", "Update", "Stop"} \cup TimeReply /\ m.id = id}
Calling(id) == {c \in ApiMessage : c.reply # NoReply /\ c.reply.id = id}
Owed(id) == Cardinality(Places(adapterQ, Asking(id))) + Cardinality(Places(apiQ, Calling(id)))

\* Nothing more is reported to c, now or later.
Leaving(c) == loop.what \in {"remove", "removeDist"} /\ loop.who = c
Adding(c) == {m \in Message : m.kind = "Add" /\ m.who = c}
Gone(c) ==
  /\ phase[c] = "destroyed" /\ NoneOf(adapterQ, Adding(c))
  /\ c \notin registered \/ Leaving(c)

\* A client is added before it is removed, and is gone once the removal goes
\* through its sessions.
ClientsInOrder ==
  /\ \A i \in DOMAIN adapterQ :
       /\ adapterQ[i].kind = "Add" => phase[adapterQ[i].who] # "new"
       /\ adapterQ[i].kind = "Remove" => phase[adapterQ[i].who] = "destroyed"
  /\ \A i, j \in DOMAIN adapterQ :
       /\ adapterQ[i].kind = "Add" /\ adapterQ[j].kind = "Remove"
       /\ adapterQ[i].who = adapterQ[j].who
       => i < j
  /\ loop.what \in {"remove", "removeDist"} => loop.who \in Client /\ Gone(loop.who)
  /\ loop.what = "remove" => \A id \in loop.left : owner[id] = loop.who

\* A client waits for as many responses as may come.
AnswersDue ==
  \A id \in Id :
    /\ due[id] >= 0
    /\ owner[id] = Nobody => Owed(id) = 0
    /\ owner[id] # Nobody => Gone(owner[id]) \/ due[id] >= Owed(id)

AnswerInv == NoNHz /\ ClientsInOrder /\ AnswersDue

\* How many answers may come is a number.
LEMMA OwedNumber ==
  ASSUME TypeOK, NEW id \in Id
  PROVE  /\ Owed(id) \in Nat
         /\ Cardinality(Places(adapterQ, Asking(id))) \in Nat
         /\ Cardinality(Places(apiQ, Calling(id))) \in Nat
BY PlacesNumber DEF Owed, TypeOK, AdapterType, RequestType

\* The ways a handler answers a command of session id: a call that will be
\* answered, an answer or none.
CallFor(id) ==
  \E c \in ApiMessage : c.reply # NoReply /\ c.reply.id = id /\ apiQ' = Append(apiQ, c)
OneAnswer(id) ==
  \/ UNCHANGED due /\ CallFor(id)
  \/ UNCHANGED apiQ /\ (UNCHANGED due \/ Report(id))
\* Calls without an outcome
Mute ==
  /\ UNCHANGED due
  /\ \E r \in Seq(ApiMessage) : apiQ' = apiQ \o r /\ \A i \in DOMAIN r : r[i].reply = NoReply

\* A call with an outcome adds one answer to what its session is owed.
LEMMA CallsOwed ==
  ASSUME TypeOK, NEW id, NEW i \in Id, CallFor(id)
  PROVE  Cardinality(Places(apiQ', Calling(i)))
           = Cardinality(Places(apiQ, Calling(i))) + (IF i = id THEN 1 ELSE 0)
<1>1. PICK c \in ApiMessage : c.reply # NoReply /\ c.reply.id = id /\ apiQ' = Append(apiQ, c)
  BY DEF CallFor
<1>2. c \in Calling(i) <=> i = id
  BY <1>1 DEF Calling
<1>3. Cardinality(Places(Append(apiQ, c), Calling(i)))
        = Cardinality(Places(apiQ, Calling(i))) + (IF c \in Calling(i) THEN 1 ELSE 0)
  BY PlacesPosted DEF TypeOK, RequestType
<1>. QED  BY <1>1, <1>2, <1>3

\* Calls without an outcome add none.
LEMMA MuteOwed ==
  ASSUME TypeOK, Mute
  PROVE  \A i \in Id : Places(apiQ', Calling(i)) = Places(apiQ, Calling(i))
<1>. SUFFICES ASSUME NEW i \in Id
              PROVE  Places(apiQ', Calling(i)) = Places(apiQ, Calling(i))
  OBVIOUS
<1>1. PICK r \in Seq(ApiMessage) : apiQ' = apiQ \o r /\ \A k \in DOMAIN r : r[k].reply = NoReply
  BY DEF Mute
<1>2. NoneOf(r, Calling(i))
  BY <1>1 DEF NoneOf, Calling
<1>. QED  BY <1>1, <1>2, PlacesKept DEF TypeOK, RequestType

\* Taking the first message takes its answer from what is owed.
LEMMA TakenOwed ==
  ASSUME TypeOK, adapterQ # <<>>, adapterQ' = Tail(adapterQ), NEW i \in Id
  PROVE  Cardinality(Places(adapterQ', Asking(i)))
           = Cardinality(Places(adapterQ, Asking(i))) - (IF Head1 \in Asking(i) THEN 1 ELSE 0)
<1>1. adapterQ \in Seq(Message) /\ Tail(adapterQ) \in Seq(Message)
  BY TakeHead DEF TypeOK, AdapterType
<1>2. Cardinality(Places(adapterQ, Asking(i)))
        = Cardinality(Places(Tail(adapterQ), Asking(i)))
            + (IF Head(adapterQ) \in Asking(i) THEN 1 ELSE 0)
  BY <1>1, PlacesTaken
<1>3. Cardinality(Places(Tail(adapterQ), Asking(i))) \in Nat
  BY <1>1, PlacesNumber
<1>. QED  BY <1>2, <1>3 DEF Head1

\* What a step may do to what is owed of a session.
Settles ==
  \A i \in Id :
    \/ due'[i] = due[i] /\ Owed(i)' <= Owed(i)
    \/ /\ owner[i] \in registered /\ loop = Idle
       /\ due'[i] = due[i] - 1 /\ Owed(i)' <= Owed(i) - 1
    \/ owner[i] = loop.who /\ loop.what = "remove" /\ due'[i] = due[i]

\* Such a step keeps what is due.
LEMMA SettlesKeep ==
  ASSUME TypeOK, TypeOK', ClientsInOrder, AnswersDue, Settles, UNCHANGED owner,
         \A c \in Client : Gone(c) => Gone(c)'
  PROVE  AnswersDue'
<1>. SUFFICES ASSUME NEW i \in Id
              PROVE  /\ due'[i] >= 0
                     /\ owner[i] = Nobody => Owed(i)' = 0
                     /\ owner[i] # Nobody => Gone(owner[i])' \/ due'[i] >= Owed(i)'
  BY DEF AnswersDue
<1>1. /\ owner \in [Id -> Client \cup {Nobody}] /\ due \in [Id -> Int] /\ due' \in [Id -> Int]
      /\ Nobody \notin registered /\ Nobody \notin Client
  BY TrackingAssumption DEF TypeOK, ClientType, RequestType, SessionType
<1>2. Owed(i) \in Nat
  BY OwedNumber
<1>3. Owed(i)' \in Nat
  BY PlacesNumber DEF Owed, TypeOK, AdapterType, RequestType
<1>4. /\ due[i] >= 0 /\ (owner[i] = Nobody => Owed(i) = 0)
      /\ owner[i] # Nobody => Gone(owner[i]) \/ due[i] >= Owed(i)
  BY DEF AnswersDue
<1>5. CASE due'[i] = due[i] /\ Owed(i)' <= Owed(i)
  BY <1>1, <1>2, <1>3, <1>4, <1>5
<1>6. CASE /\ owner[i] \in registered /\ loop = Idle
           /\ due'[i] = due[i] - 1 /\ Owed(i)' <= Owed(i) - 1
  <2>1. ~Gone(owner[i]) /\ owner[i] # Nobody
    BY <1>1, <1>6 DEF Gone, Leaving, Idle
  <2>. QED  BY <1>1, <1>2, <1>3, <1>4, <1>6, <2>1
<1>7. CASE owner[i] = loop.who /\ loop.what = "remove" /\ due'[i] = due[i]
  <2>1. owner[i] \in Client /\ Gone(owner[i])
    BY <1>7 DEF ClientsInOrder
  <2>. QED  BY <1>1, <1>4, <1>7, <2>1
<1>. QED  BY <1>5, <1>6, <1>7 DEF Settles

\* A handler of a command or an outcome settles it.
LEMMA AnswerSettles ==
  ASSUME TypeOK, adapterQ # <<>>, adapterQ' = Tail(adapterQ), loop = Idle,
         NEW id \in Id, Head1 \in Asking(id), OneAnswer(id)
  PROVE  Settles
<1>. SUFFICES ASSUME NEW i \in Id
              PROVE  \/ due'[i] = due[i] /\ Owed(i)' <= Owed(i)
                     \/ /\ owner[i] \in registered
                        /\ due'[i] = due[i] - 1 /\ Owed(i)' <= Owed(i) - 1
  BY DEF Settles
<1>. DEFINE a == Cardinality(Places(adapterQ, Asking(i)))
            c == Cardinality(Places(apiQ, Calling(i)))
<1>1. a \in Nat /\ c \in Nat
  BY OwedNumber
<1>2. PICK b : b = Cardinality(Places(adapterQ', Asking(i)))
  OBVIOUS
<1>3. PICK d : d = Cardinality(Places(apiQ', Calling(i)))
  OBVIOUS
<1>4. Owed(i) = a + c /\ Owed(i)' = b + d
  BY <1>2, <1>3 DEF Owed
<1>5. Head1 \in Asking(i) <=> i = id
  BY DEF Asking
<1>6. b = a - (IF i = id THEN 1 ELSE 0)
  BY <1>2, <1>5, TakenOwed
<1>. HIDE DEF a, c
<1>7. CASE UNCHANGED due /\ CallFor(id)
  <2>1. d = c + (IF i = id THEN 1 ELSE 0)
    BY <1>3, <1>7, CallsOwed DEF c
  <2>. QED  BY <1>1, <1>4, <1>6, <1>7, <2>1
<1>8. CASE UNCHANGED <<apiQ, due>>
  <2>1. d = c
    BY <1>3, <1>8 DEF c
  <2>. QED  BY <1>1, <1>4, <1>6, <1>8, <2>1
<1>9. CASE UNCHANGED apiQ /\ Report(id) /\ ~UNCHANGED due
  <2>1. d = c
    BY <1>3, <1>9 DEF c
  <2>2. owner[id] \in registered /\ due' = [due EXCEPT ![id] = @ - 1]
    BY <1>9 DEF Report
  <2>3. due \in [Id -> Int]
    BY DEF TypeOK, RequestType
  <2>. QED  BY <1>1, <1>4, <1>6, <2>1, <2>2, <2>3
<1>. QED  BY <1>7, <1>8, <1>9 DEF OneAnswer

\* A handler of any other message settles nothing.
LEMMA MuteSettles ==
  ASSUME TypeOK, Mute,
         adapterQ' = adapterQ \/ (adapterQ # <<>> /\ adapterQ' = Tail(adapterQ))
  PROVE  Settles
<1>. SUFFICES ASSUME NEW i \in Id PROVE due'[i] = due[i] /\ Owed(i)' <= Owed(i)
  BY DEF Settles
<1>1. Owed(i) \in Nat /\ Cardinality(Places(adapterQ, Asking(i))) \in Nat
        /\ Cardinality(Places(apiQ, Calling(i))) \in Nat
  BY OwedNumber
<1>2. Cardinality(Places(adapterQ', Asking(i))) <= Cardinality(Places(adapterQ, Asking(i)))
        /\ Cardinality(Places(adapterQ', Asking(i))) \in Int
  <2>1. CASE adapterQ' = adapterQ
    BY <1>1, <2>1
  <2>2. CASE adapterQ # <<>> /\ adapterQ' = Tail(adapterQ)
    <3>1. Cardinality(Places(adapterQ', Asking(i)))
            = Cardinality(Places(adapterQ, Asking(i))) - (IF Head1 \in Asking(i) THEN 1 ELSE 0)
      BY <2>2, TakenOwed
    <3>. QED  BY <1>1, <3>1
  <2>. QED  BY <2>1, <2>2
<1>3. Places(apiQ', Calling(i)) = Places(apiQ, Calling(i))
  BY MuteOwed
<1>. QED  BY <1>1, <1>2, <1>3 DEF Owed, Mute

\* A call with an outcome is owed an answer.
LEMMA CallOwes ==
  ASSUME CallsTime, NEW id \in Id, NEW kind \in TimeReply, NEW p \in Kept(kind),
         NEW op \in {"startTime", "stopTime"}, NEW o \in Options,
         apiQ' = Append(apiQ, Call(op, o, Session(kind, id, p))) \o <<>>
  PROVE  CallFor(id)
<1>. DEFINE c == Call(op, o, Session(kind, id, p))
<1>1. c \in TimeCall
  BY TimeCallOf
<1>2. c.reply # NoReply /\ c.reply.id = id
  BY DEF Call, Session, NoReply, TimeReply
<1>. HIDE DEF c
<1>3. apiQ' = Append(apiQ, c) \o <<>>
  BY DEF c
<1>4. apiQ' = Append(apiQ, c)
  BY <1>1, <1>3, LastCall DEF CallsTime
<1>. QED  BY <1>1, <1>2, <1>4 DEF CallFor, TimeCall

\* A start or an update of the fix is answered with its outcome, never at once.
LEMMA TellEngineOwes ==
  ASSUME TypeOK, CallsTime, NoNHz, NEW id \in Id, NEW o \in Options, NEW kind \in TimeReply,
         NEW p \in Kept(kind), TellEngine(id, o, Session(kind, id, p), <<>>)
  PROVE  OneAnswer(id) /\ UNCHANGED due
<1>1. SpeInterval(nhz, o) \in Options
  BY SpeIntervalType DEF TypeOK, AdapterType
<1>2. /\ apiQ' = Append(apiQ, Call("startTime", SpeInterval(nhz, o), Session(kind, id, p))) \o <<>>
      /\ UNCHANGED due
  BY DEF TellEngine, NoNHz
<1>3. CallFor(id)
  BY <1>1, <1>2, CallOwes
<1>. QED  BY <1>2, <1>3 DEF OneAnswer

\* Without a call the answer is given at once, or not at all.
LEMMA NoCallOwes ==
  ASSUME CallsTime, NEW id, NEW answer \in BOOLEAN, NoCall(id, answer, <<>>)
  PROVE  OneAnswer(id) /\ (answer \/ UNCHANGED due)
<1>1. apiQ' = apiQ \o <<>>
  BY DEF NoCall
<1>2. apiQ \o <<>> = apiQ
  BY DEF CallsTime
<1>3. (answer /\ Report(id)) \/ (~answer /\ UNCHANGED due)
  BY Zenon DEF NoCall
<1>. QED  BY <1>1, <1>2, <1>3, Zenon DEF OneAnswer

\* The multiplexing calls or answers once.
LEMMA PickOwes ==
  ASSUME TypeOK, CallsTime, NoNHz, NEW id \in Id, NEW o \in Options, NEW kind \in TimeReply,
         NEW q \in Kept(kind), NEW S \in SUBSET DOMAIN timeS, NEW k \in S, NEW p \in PowersOf(S),
         \/ TellEngine(id,
                [timeS[k] EXCEPT !.interval = IF o.interval < @ THEN o.interval ELSE @,
                                 !.power = IF o.power < p THEN o.power ELSE @],
                Session(kind, id, q), <<>>)
         \/ NoCall(id, TRUE, <<>>)
  PROVE  OneAnswer(id)
<1>. DEFINE r == [timeS[k] EXCEPT
                    !.interval = IF o.interval < @ THEN o.interval ELSE @,
                    !.power = IF o.power < p THEN o.power ELSE @]
<1>1. r \in Options
  BY PickType DEF TypeOK, SessionType
<1>. QED  BY <1>1, TellEngineOwes, NoCallOwes

\* So each of the multiplexing functions answers once.
LEMMA StartOwes ==
  ASSUME TypeOK, CallsTime, NoNHz, NEW id \in Id, NEW o \in Options, StartMultiplex(id, o)
  PROVE  OneAnswer(id)
<1>1. NoOptions \in Kept("started") /\ "started" \in TimeReply
  BY KeptOptions DEF TimeReply
<1>2. CASE DOMAIN timeS = {}
  BY <1>1, <1>2, TellEngineOwes DEF StartMultiplex
<1>3. CASE DOMAIN timeS # {}
  BY <1>1, <1>3, PickOwes DEF StartMultiplex
<1>. QED  BY <1>2, <1>3

\* The same for an update
LEMMA UpdateOwes ==
  ASSUME TypeOK, CallsTime, NoNHz, NoFaster, NEW id \in DOMAIN timeS, NEW o \in Options,
         UpdateMultiplex(id, o)
  PROVE  OneAnswer(id)
<1>1. id \in Id /\ timeS[id] \in Kept("updated") /\ "updated" \in TimeReply
  BY SessionInterval, KeptOptions DEF TimeReply, NoFaster
<1>2. CASE timeS[id].interval = o.interval /\ timeS[id].power = o.power
  BY <1>2, NoCallOwes DEF UpdateMultiplex
<1>3. CASE /\ ~(timeS[id].interval = o.interval /\ timeS[id].power = o.power)
           /\ DOMAIN timeS \ {id} = {}
  BY <1>1, <1>3, TellEngineOwes DEF UpdateMultiplex
<1>4. CASE /\ ~(timeS[id].interval = o.interval /\ timeS[id].power = o.power)
           /\ DOMAIN timeS \ {id} # {}
  BY <1>1, <1>4, PickOwes DEF UpdateMultiplex
<1>. QED  BY <1>2, <1>3, <1>4

\* A removal does not answer.
LEMMA StopOwes ==
  ASSUME TypeOK, CallsTime, NoNHz, NEW id \in DOMAIN timeS, NEW answer \in BOOLEAN,
         StopMultiplex(id, answer, <<>>)
  PROVE  OneAnswer(id) /\ (answer \/ UNCHANGED due)
<1>. DEFINE S == DOMAIN timeS \ {id}
            halt == Call("stopTime", NoOptions, Session("stopped", id, NoOptions))
<1>1. /\ id \in Id /\ NoOptions \in Options /\ {"stopped", "started"} \subseteq TimeReply
      /\ NoOptions \in Kept("started") /\ NoOptions \in Kept("stopped")
  BY SessionInterval, NoOptionsType, KeptOptions DEF TimeReply
<1>2. CASE S = {}
  <2>1. UNCHANGED due /\ apiQ' = Append(apiQ, halt) \o <<>>
    BY <1>2 DEF StopMultiplex
  <2>2. CallFor(id)
    BY <1>1, <2>1, CallOwes
  <2>. QED  BY <2>1, <2>2 DEF OneAnswer
<1>3. CASE S # {}
  <2>1. PICK k \in S, p \in PowersOf(S) :
           \/ TellEngine(id, [timeS[k] EXCEPT !.power = p],
                         Session("started", id, NoOptions), <<>>)
           \/ NoCall(id, answer, <<>>)
    BY <1>3 DEF StopMultiplex
  <2>2. [timeS[k] EXCEPT !.power = p] \in Options
    BY <1>1, PickType DEF TypeOK, SessionType
  <2>3. CASE NoCall(id, answer, <<>>)
    BY <2>3, NoCallOwes, Zenon
  <2>4. CASE TellEngine(id, [timeS[k] EXCEPT !.power = p],
                        Session("started", id, NoOptions), <<>>)
    <3>1. OneAnswer(id) /\ UNCHANGED due
      BY <1>1, <2>2, <2>4, TellEngineOwes
    <3>. QED  BY <3>1, Zenon
  <2>. QED  BY <2>1, <2>3, <2>4, Zenon
<1>. QED  BY <1>2, <1>3, Zenon

\* Nor does a restart.
LEMMA RestartOwes ==
  ASSUME TypeOK, NEW needed \in BOOLEAN, NEW before \in Seq(ApiMessage),
         \A i \in DOMAIN before : before[i].reply = NoReply,
         RestartTime(needed, before), UNCHANGED due
  PROVE  Mute
<1>. DEFINE S == DOMAIN timeS
<1>1. CASE S = {}
  <2>1. apiQ' = apiQ \o before
    BY <1>1 DEF RestartTime
  <2>. QED  BY <2>1 DEF Mute
<1>2. CASE S # {}
  <2>1. PICK k \in S, p \in PowersOf(S) :
          apiQ' = Append(apiQ \o before,
            Call("startTime", SpeInterval(needed, [timeS[k] EXCEPT !.power = p]), NoReply))
    BY <1>2 DEF RestartTime
  <2>. DEFINE o2 == SpeInterval(needed, [timeS[k] EXCEPT !.power = p])
              c == Call("startTime", o2, NoReply)
  <2>2. o2 \in Options
    BY NoOptionsType, SessionInterval, PickType, SpeIntervalType DEF TypeOK, SessionType
  <2>3. c \in ApiMessage /\ c.reply = NoReply
    BY <2>2, CallType DEF ApiOp, Call
  <2>. HIDE DEF c
  <2>4. /\ Append(before, c) \in Seq(ApiMessage)
        /\ apiQ' = apiQ \o Append(before, c)
    <3>1. apiQ' = Append(apiQ \o before, c)
      BY <2>1 DEF c
    <3>2. apiQ \in Seq(ApiMessage)
      BY DEF TypeOK, RequestType
    <3>3. PICK d \in ApiMessage : d = c
      BY <2>3
    <3>4. PICK q \in Seq(ApiMessage) : q = apiQ
      BY <3>2
    <3>5. /\ Append(before, d) \in Seq(ApiMessage)
          /\ Append(q \o before, d) = q \o Append(before, d)
      OBVIOUS
    <3>. QED  BY <3>1, <3>3, <3>4, <3>5
  <2>5. \A i \in DOMAIN Append(before, c) : Append(before, c)[i].reply = NoReply
    <3>1. /\ DOMAIN before = 1 .. Len(before) /\ Len(before) \in Nat
          /\ DOMAIN Append(before, c) = 1 .. Len(before) + 1
          /\ Append(before, c)[Len(before) + 1] = c
          /\ \A i \in 1 .. Len(before) : Append(before, c)[i] = before[i]
      BY <2>3
    <3>2. \A i \in 1 .. Len(before) + 1 : i \in 1 .. Len(before) \/ i = Len(before) + 1
      BY <3>1
    <3>. QED  BY <2>3, <3>1, <3>2
  <2>. QED  BY <2>4, <2>5 DEF Mute
<1>. QED  BY <1>1, <1>2

\* A handler that makes no call and answers nothing
LEMMA QuietMute ==
  ASSUME TypeOK, UNCHANGED <<due, apiQ>>
  PROVE  Mute
<1>1. <<>> \in Seq(ApiMessage) /\ apiQ \o <<>> = apiQ /\ DOMAIN <<>> = {}
  BY DEF TypeOK, RequestType
<1>. QED  BY <1>1 DEF Mute

\* Every step of the adapter answers what it takes, at most once; while a client
\* is removed nothing is reported to it.
LEMMA HandlersSettle ==
  TypeOK /\ TimeInv /\ NoNHz /\ ClientsInOrder /\ AdapterThread => Settles
<1>. SUFFICES ASSUME TypeOK, TimeInv, NoNHz, ClientsInOrder, AdapterThread PROVE Settles
  OBVIOUS
<1>0. CallsTime /\ DOMAIN distS = {} /\ pending = <<>> /\ adapterQ \in Seq(TimeMessage)
  BY DEF TimeInv, NoDistance, MessagesTime
<1>1. ASSUME NEW kind \in {"Start", "Update", "Stop"} \cup TimeReply, Take(kind),
             OneAnswer(Head1.id)
      PROVE  Settles
  <2>1. adapterQ # <<>> /\ adapterQ' = Tail(adapterQ) /\ loop = Idle /\ Head1.kind = kind
    BY <1>1 DEF Take
  <2>2. Head1 \in Message /\ Head1 \in SessionMessage
    BY <2>1, HeadType DEF TypeOK, SessionKind, TimeReply, Reply
  <2>3. Head1.id \in Id /\ Head1 \in Asking(Head1.id)
    BY <1>1, <2>1, <2>2 DEF SessionMessage, Asking
  <2>. QED  BY <1>1, <2>1, <2>3, AnswerSettles
<1>2. CASE Start
  <2>1. /\ Take("Start") /\ Head1.id \in Id /\ Clamp(Head1.opts) \in Options
        /\ Head1.opts.dist = FALSE /\ Clamp(Head1.opts).dist = FALSE
    BY <1>2, CommandHead DEF Start
  <2>2. \/ UNCHANGED <<due, apiQ>>
        \/ StartMultiplex(Head1.id, Clamp(Head1.opts))
    BY <1>2, <2>1 DEF Start, MustWait, IsDistance, engineCall
  <2>3. OneAnswer(Head1.id)
    <3>1. CASE UNCHANGED <<due, apiQ>>
      BY <3>1 DEF OneAnswer
    <3>. QED  BY <1>0, <2>1, <2>2, <3>1, StartOwes
  <2>. QED  BY <1>1, <2>1, <2>3
<1>3. CASE Update
  <2>1. /\ Take("Update") /\ Head1.id \in Id /\ Clamp(Head1.opts) \in Options
        /\ Head1.opts.dist = FALSE /\ Clamp(Head1.opts).dist = FALSE
    BY <1>3, CommandHead DEF Update
  <2>2. \/ UNCHANGED apiQ /\ Report(Head1.id)
        \/ Head1.id \in DOMAIN timeS /\ UpdateMultiplex(Head1.id, Clamp(Head1.opts))
    BY <1>0, <1>3, <2>1 DEF Update, MustWait, engineCall
  <2>3. OneAnswer(Head1.id)
    <3>1. CASE UNCHANGED apiQ /\ Report(Head1.id)
      BY <3>1 DEF OneAnswer
    <3>. QED  BY <1>0, <2>1, <2>2, <3>1, UpdateOwes DEF TimeInv
  <2>. QED  BY <1>1, <2>1, <2>3
<1>4. CASE Stop
  <2>1. Take("Stop")
    BY <1>4 DEF Stop
  <2>2. \/ UNCHANGED apiQ /\ Report(Head1.id)
        \/ Head1.id \in DOMAIN timeS /\ StopMultiplex(Head1.id, TRUE, <<>>)
    BY <1>0, <1>4 DEF Stop, engineCall
  <2>3. OneAnswer(Head1.id)
    <3>1. CASE UNCHANGED apiQ /\ Report(Head1.id)
      BY <3>1 DEF OneAnswer
    <3>. QED  BY <1>0, <2>1, <2>2, <3>1, StopOwes
  <2>. QED  BY <1>1, <2>1, <2>3
<1>5. CASE Started \/ Updated \/ Stopped \/ Switched \/ Restarted
  <2>1. PICK kind \in Reply : Take(kind)
    BY <1>5 DEF Started, Updated, Stopped, Switched, Restarted, Finish, Reply
  <2>2. Head1.kind = kind /\ kind \in TimeReply
    BY <2>1, TakeTime DEF TimeInv, TimeMessage
  <2>3. UNCHANGED apiQ /\ Report(Head1.id)
    BY <1>5, <2>1, <2>2 DEF Started, Updated, Stopped, Switched, Restarted, Finish, Take,
                            TimeReply, engineCall
  <2>. QED  BY <1>1, <2>1, <2>2, <2>3 DEF OneAnswer
<1>6. CASE AddClient \/ Remove
  <2>1. UNCHANGED <<due, apiQ>> /\ adapterQ # <<>> /\ adapterQ' = Tail(adapterQ)
    BY <1>6 DEF AddClient, Remove, Take, engineCall
  <2>. QED  BY <2>1, QuietMute, MuteSettles
<1>7. CASE EngineUp \/ Reconfig
  <2>. DEFINE halt == Call("stopTime", NoOptions, NoReply)
  <2>1. halt \in ApiMessage /\ halt.reply = NoReply
    BY CallType, NoOptionsType DEF ApiOp, Call
  <2>. HIDE DEF halt
  <2>2. PICK before \in {<<>>, <<halt>>} : RestartTime(nhz, before)
    BY <1>7 DEF EngineUp, Reconfig, halt
  <2>3. /\ <<>> \in Seq(ApiMessage) /\ DOMAIN <<>> = {}
        /\ <<halt>> \in Seq(ApiMessage) /\ \A i \in DOMAIN <<halt>> : <<halt>>[i] = halt
    BY <2>1
  <2>4. before \in Seq(ApiMessage) /\ \A i \in DOMAIN before : before[i].reply = NoReply
    <3>1. CASE before = <<>>
      BY <2>3, <3>1
    <3>2. CASE before = <<halt>>
      BY <2>1, <2>3, <3>2
    <3>. QED  BY <2>2, <3>1, <3>2
  <2>5. UNCHANGED due /\ adapterQ # <<>> /\ adapterQ' = Tail(adapterQ)
    BY <1>7 DEF EngineUp, Reconfig, Take
  <2>6. Mute
    BY <2>2, <2>4, <2>5, RestartOwes DEF TypeOK, AdapterType
  <2>. QED  BY <2>5, <2>6, MuteSettles
<1>8. CASE RemoveTimeSession
  <2>1. UNCHANGED adapterQ /\ loop.what = "remove"
    BY <1>8 DEF RemoveTimeSession
  <2>2. CASE UNCHANGED <<due, engineCall>>
    BY <2>1, <2>2, QuietMute, MuteSettles DEF engineCall
  <2>3. ASSUME NEW id \in loop.left, StopMultiplex(id, FALSE, <<>>) PROVE Settles
    <3>1. id \in DOMAIN timeS /\ id \in Id /\ owner[id] = loop.who
      BY <2>1, SessionInterval DEF TimeInv, Removing, ClientsInOrder
    <3>2. OneAnswer(id) /\ UNCHANGED due
      BY <1>0, <2>3, <3>1, StopOwes
    <3>3. ASSUME NEW i \in Id, i # id PROVE Owed(i)' = Owed(i)
      <4>1. CASE CallFor(id)
        <5>1. Cardinality(Places(apiQ', Calling(i))) = Cardinality(Places(apiQ, Calling(i))) + 0
          BY <3>3, <4>1, CallsOwed
        <5>2. Cardinality(Places(apiQ, Calling(i))) \in Nat
          BY OwedNumber
        <5>. QED  BY <2>1, <5>1, <5>2 DEF Owed
      <4>2. CASE UNCHANGED apiQ
        BY <2>1, <4>2 DEF Owed
      <4>. QED  BY <3>2, <4>1, <4>2 DEF OneAnswer
    <3>4. \A i \in Id : Owed(i) \in Nat
      BY OwedNumber
    <3>. QED  BY <2>1, <3>1, <3>2, <3>3, <3>4 DEF Settles
  <2>. QED  BY <1>8, <2>2, <2>3 DEF RemoveTimeSession
<1>9. CASE RemoveDistanceSession \/ RestartDistanceSession
  <2>1. loop.left = {}
    BY <1>9 DEF RemoveDistanceSession, RestartDistanceSession, TimeInv, NoDistance
  <2>2. UNCHANGED <<due, apiQ>>
    BY <1>9, <2>1 DEF RemoveDistanceSession, RestartDistanceSession
  <2>3. adapterQ' = adapterQ
    <3>1. \/ UNCHANGED adapterQ
          \/ adapterQ' = adapterQ \o pending
      BY <1>9 DEF RemoveDistanceSession, RestartDistanceSession
    <3>2. adapterQ \o <<>> = adapterQ
      BY <1>0
    <3>. QED  BY <1>0, <3>1, <3>2
  <2>. QED  BY <2>2, <2>3, QuietMute, MuteSettles
<1>. QED  BY <1>2, <1>3, <1>4, <1>5, <1>6, <1>7, <1>8, <1>9 DEF AdapterThread

\* The outcome that is posted takes the place of the call.
LEMMA ApiStepSettles ==
  TypeOK /\ TimeInv /\ ApiStep => Settles
<1>. SUFFICES ASSUME TypeOK, TimeInv, ApiStep,
                     NEW i \in Id
              PROVE  due'[i] = due[i] /\ Owed(i)' <= Owed(i)
  BY DEF Settles
<1>. DEFINE a == Cardinality(Places(adapterQ, Asking(i)))
            c == Cardinality(Places(apiQ, Calling(i)))
<1>1. a \in Nat /\ c \in Nat /\ Owed(i) = a + c
  BY OwedNumber DEF Owed
<1>2. PICK b : b = Cardinality(Places(adapterQ', Asking(i)))
  OBVIOUS
<1>3. PICK d : d = Cardinality(Places(apiQ', Calling(i)))
  OBVIOUS
<1>4. Owed(i)' = b + d
  BY <1>2, <1>3 DEF Owed
<1>5. PICK m : m = Head(apiQ)
  OBVIOUS
<1>6. m \in TimeCall /\ m \in ApiMessage /\ apiQ # <<>> /\ apiQ' = Tail(apiQ) /\ UNCHANGED due
  BY <1>5, TakeHead DEF ApiStep, TimeInv, CallsTime, TimeCall
<1>7. d \in Nat /\ c = d + (IF m \in Calling(i) THEN 1 ELSE 0)
  <2>1. /\ apiQ \in Seq(ApiMessage) /\ Tail(apiQ) \in Seq(ApiMessage)
    BY <1>6, TakeHead DEF TypeOK, RequestType
  <2>2. Cardinality(Places(Tail(apiQ), Calling(i))) \in Nat
    BY <2>1, PlacesNumber
  <2>3. Cardinality(Places(apiQ, Calling(i)))
          = Cardinality(Places(Tail(apiQ), Calling(i)))
              + (IF Head(apiQ) \in Calling(i) THEN 1 ELSE 0)
    BY <1>6, <2>1, PlacesTaken
  <2>. QED  BY <1>3, <1>5, <1>6, <2>2, <2>3
<1>. HIDE DEF a, c
<1>8. \/ UNCHANGED adapterQ
      \/ adapterQ' = Append(adapterQ, About("EngineUp", Nobody))
      \/ /\ m.reply # NoReply
         /\ \E ok \in BOOLEAN : adapterQ' = Append(adapterQ, [m.reply EXCEPT !.ok = ok])
  BY <1>5 DEF ApiStep, ApiOutcome
<1>9. ASSUME NEW x \in Message, adapterQ' = Append(adapterQ, x)
      PROVE  b = a + (IF x \in Asking(i) THEN 1 ELSE 0)
  <2>1. adapterQ \in Seq(Message)
    BY DEF TypeOK, AdapterType
  <2>2. Cardinality(Places(Append(adapterQ, x), Asking(i)))
          = Cardinality(Places(adapterQ, Asking(i))) + (IF x \in Asking(i) THEN 1 ELSE 0)
    BY <2>1, PlacesPosted
  <2>. QED  BY <1>2, <1>9, <2>2 DEF a
<1>10. CASE UNCHANGED adapterQ
  <2>1. b = a
    BY <1>2, <1>10 DEF a
  <2>. QED  BY <1>1, <1>4, <1>6, <1>7, <2>1
<1>11. CASE adapterQ' = Append(adapterQ, About("EngineUp", Nobody))
  <2>1. About("EngineUp", Nobody) \in Message /\ About("EngineUp", Nobody) \notin Asking(i)
    BY DEF About, Message, EngineMessage, Asking, TimeReply
  <2>2. b = a
    BY <1>1, <1>9, <1>11, <2>1
  <2>. QED  BY <1>1, <1>4, <1>6, <1>7, <2>2
<1>12. ASSUME m.reply # NoReply, NEW ok \in BOOLEAN,
              adapterQ' = Append(adapterQ, [m.reply EXCEPT !.ok = ok])
       PROVE  due'[i] = due[i] /\ Owed(i)' <= Owed(i)
  <2>1. PICK x : x = [m.reply EXCEPT !.ok = ok]
    OBVIOUS
  <2>2. m.reply \in SessionMessage
    BY <1>6, <1>12 DEF ApiMessage
  <2>3. x \in Message /\ x.id = m.reply.id
    BY <2>1, <2>2 DEF Message, SessionMessage
  <2>4. x \in Asking(i) => m \in Calling(i)
    BY <1>6, <1>12, <2>3 DEF Asking, Calling
  <2>5. b = a + (IF x \in Asking(i) THEN 1 ELSE 0)
    BY <1>9, <1>12, <2>1, <2>3
  <2>. QED  BY <1>1, <1>4, <1>6, <1>7, <2>4, <2>5
<1>. QED  BY <1>8, <1>10, <1>11, <1>12

\* Adding and removing of clients: what a step does to the queue, the lives of the
\* clients, and the loop.
Lives ==
  /\ \A c \in Client : /\ phase[c] # "new" => phase'[c] # "new"
                       /\ phase[c] = "destroyed" => phase'[c] = "destroyed"
  /\ \A id \in Id : owner[id] # Nobody => owner'[id] = owner[id]
  /\ \/ UNCHANGED adapterQ
     \/ adapterQ # <<>> /\ adapterQ' = Tail(adapterQ)
     \/ \E m \in Message :
          /\ adapterQ' = Append(adapterQ, m) /\ UNCHANGED <<registered, loop>>
          /\ m.kind = "Add" => phase[m.who] = "new" /\ phase'[m.who] = "alive"
          /\ m.kind = "Remove" => phase'[m.who] = "destroyed"
  /\ \/ UNCHANGED <<registered, loop>>
     \/ /\ adapterQ # <<>> /\ Head1.kind = "Add" /\ adapterQ' = Tail(adapterQ)
        /\ registered' = registered \cup {Head1.who} /\ UNCHANGED loop
     \/ /\ adapterQ # <<>> /\ Head1.kind = "Remove" /\ adapterQ' = Tail(adapterQ)
        /\ loop' = Doing("remove", SessionsOf(Head1.who, timeS), Head1.who)
        /\ loop = Idle /\ UNCHANGED <<registered, owner>>
     \/ /\ loop.what = "remove" /\ loop'.who = loop.who /\ UNCHANGED registered
        /\ \/ loop'.what = "removeDist"
           \/ loop'.what = "remove" /\ loop'.left \subseteq loop.left
     \/ loop.what = "removeDist" /\ loop' = Idle /\ registered' = registered \ {loop.who}
     \/ /\ loop.what \notin {"remove", "removeDist"}
        /\ loop'.what \notin {"remove", "removeDist"} /\ UNCHANGED registered

\* What the adapter does
LEMMA AdapterLives ==
  TypeOK /\ TimeInv /\ AdapterThread => Lives
<1>. SUFFICES ASSUME TypeOK, TimeInv, AdapterThread PROVE Lives
  OBVIOUS
<1>0. DOMAIN distS = {} /\ pending = <<>> /\ adapterQ \in Seq(TimeMessage)
  BY DEF TimeInv, NoDistance, MessagesTime
<1>1. UNCHANGED <<phase, owner>>
  BY DEF AdapterThread, AddClient, Start, Update, Stop, Remove, EngineUp, Reconfig,
     RemoveTimeSession, RemoveDistanceSession, RestartDistanceSession, Started, Updated,
     Stopped, Switched, Restarted, Finish, Take, clientVars
<1>2. ASSUME NEW kind, Take(kind)
      PROVE  adapterQ # <<>> /\ adapterQ' = Tail(adapterQ) /\ Head1.kind = kind /\ loop = Idle
  BY <1>2 DEF Take
<1>3. CASE AddClient
  <2>1. Take("Add") /\ registered' = registered \cup {Head1.who} /\ UNCHANGED loop
    BY <1>3 DEF AddClient
  <2>. QED  BY <1>1, <1>2, <2>1 DEF Lives
<1>4. CASE Remove
  <2>1. /\ Take("Remove") /\ UNCHANGED registered
        /\ loop' = Doing("remove", SessionsOf(Head1.who, timeS), Head1.who)
    BY <1>4 DEF Remove, sessionVars
  <2>. QED  BY <1>1, <1>2, <2>1 DEF Lives
<1>5. CASE EngineUp \/ Reconfig
  <2>1. /\ \E kind : Take(kind)
        /\ UNCHANGED registered
        /\ \E what \in {"engineUp", "restart"} : loop' = Doing(what, DOMAIN distS, Nobody)
    BY <1>5 DEF EngineUp, Reconfig, sessionVars, RestartDistance
  <2>2. loop.what \notin {"remove", "removeDist"} /\ loop'.what \notin {"remove", "removeDist"}
    BY <1>2, <2>1 DEF Idle, Doing
  <2>. QED  BY <1>1, <1>2, <2>1, <2>2 DEF Lives
<1>6. CASE Start \/ Update \/ Stop \/ Started \/ Updated \/ Stopped \/ Switched \/ Restarted
  <2>1. \E kind : Take(kind)
    BY <1>6 DEF Start, Update, Stop, Started, Updated, Stopped, Switched, Restarted, Finish
  <2>2. UNCHANGED <<registered, loop>>
    BY <1>6 DEF Start, Update, Stop, Started, Updated, Stopped, Switched, Restarted, Finish,
                Wait, sessionVars
  <2>. QED  BY <1>1, <1>2, <2>1, <2>2 DEF Lives
<1>7. CASE RemoveTimeSession
  <2>1. UNCHANGED <<adapterQ, registered>> /\ loop.what = "remove"
    BY <1>7 DEF RemoveTimeSession
  <2>2. /\ loop'.who = loop.who
        /\ loop'.what = "removeDist" \/ (loop'.what = "remove" /\ loop'.left \subseteq loop.left)
    <3>1. CASE loop' = Doing("removeDist", SessionsOf(loop.who, distS), loop.who)
      BY <3>1 DEF Doing
    <3>2. ASSUME NEW id \in loop.left, Turn(id)
          PROVE  /\ loop'.who = loop.who
                 /\ loop'.what = "remove" /\ loop'.left \subseteq loop.left
      <4>1. loop \in LoopRange
        BY DEF TypeOK, AdapterType, LoopRange
      <4>2. loop' = [loop EXCEPT !.left = @ \ {id}]
        BY <3>2 DEF Turn
      <4>. QED  BY <2>1, <4>1, <4>2 DEF LoopRange
    <3>. QED  BY <1>7, <3>1, <3>2 DEF RemoveTimeSession
  <2>. QED  BY <1>1, <2>1, <2>2 DEF Lives
<1>8. CASE RemoveDistanceSession
  <2>1. loop.left = {} /\ loop.what = "removeDist"
    BY <1>8 DEF RemoveDistanceSession, TimeInv, NoDistance
  <2>2. UNCHANGED adapterQ /\ loop' = Idle /\ registered' = registered \ {loop.who}
    BY <1>8, <2>1 DEF RemoveDistanceSession
  <2>. QED  BY <1>1, <2>1, <2>2 DEF Lives
<1>9. CASE RestartDistanceSession
  <2>1. loop.left = {} /\ loop.what \in {"restart", "engineUp"}
    BY <1>9 DEF RestartDistanceSession, TimeInv, NoDistance
  <2>2. loop' = Idle /\ UNCHANGED registered
    BY <1>9, <2>1 DEF RestartDistanceSession, sessionVars
  <2>3. adapterQ' = adapterQ
    <3>1. \/ UNCHANGED adapterQ
          \/ adapterQ' = adapterQ \o pending
      BY <1>9 DEF RestartDistanceSession
    <3>2. adapterQ \o <<>> = adapterQ
      BY <1>0
    <3>. QED  BY <1>0, <3>1, <3>2
  <2>4. loop.what \notin {"remove", "removeDist"} /\ loop'.what \notin {"remove", "removeDist"}
    BY <2>1, <2>2 DEF Idle
  <2>. QED  BY <1>1, <2>2, <2>3, <2>4 DEF Lives
<1>. QED  BY <1>3, <1>4, <1>5, <1>6, <1>7, <1>8, <1>9 DEF AdapterThread

\* Who is gone stays gone.
LEMMA GoneStays ==
  ASSUME TypeOK, ClientsInOrder, Lives, NEW c \in Client, Gone(c)
  PROVE  Gone(c)'
<1>1. phase[c] = "destroyed" /\ NoneOf(adapterQ, Adding(c)) /\ (c \notin registered \/ Leaving(c))
  BY DEF Gone
<1>2. phase'[c] = "destroyed"
  BY <1>1 DEF Lives
<1>3. adapterQ \in Seq(Message)
  BY DEF TypeOK, AdapterType
<1>4. NoneOf(adapterQ', Adding(c))
  <2>1. CASE UNCHANGED adapterQ
    BY <1>1, <2>1
  <2>2. CASE adapterQ # <<>> /\ adapterQ' = Tail(adapterQ)
    BY <1>1, <1>3, <2>2, OutcomeTake
  <2>3. ASSUME NEW m \in Message, adapterQ' = Append(adapterQ, m),
               m.kind = "Add" => phase[m.who] = "new"
        PROVE  NoneOf(adapterQ', Adding(c))
    <3>1. m \notin Adding(c)
      BY <1>1, <2>3 DEF Adding
    <3>2. /\ DOMAIN adapterQ' = 1 .. Len(adapterQ) + 1 /\ DOMAIN adapterQ = 1 .. Len(adapterQ)
          /\ Len(adapterQ) \in Nat /\ adapterQ'[Len(adapterQ) + 1] = m
          /\ \A i \in 1 .. Len(adapterQ) : adapterQ'[i] = adapterQ[i]
      BY <1>3, <2>3
    <3>. QED  BY <1>1, <3>1, <3>2 DEF NoneOf
  <2>. QED  BY <2>1, <2>2, <2>3 DEF Lives
<1>5. c \notin registered' \/ Leaving(c)'
  <2>1. CASE UNCHANGED <<registered, loop>>
    BY <1>1, <2>1 DEF Leaving
  <2>2. CASE /\ adapterQ # <<>> /\ Head1.kind = "Add"
             /\ registered' = registered \cup {Head1.who} /\ UNCHANGED loop
    <3>1. Head1 \in Message /\ Head1 = adapterQ[1] /\ 1 \in DOMAIN adapterQ
      BY <1>3, <2>2, TakeHead DEF Head1
    <3>2. Head1.who # c
      BY <1>1, <2>2, <3>1 DEF NoneOf, Adding
    <3>. QED  BY <1>1, <2>2, <3>2 DEF Leaving
  <2>3. CASE loop = Idle /\ UNCHANGED registered
    BY <1>1, <2>3 DEF Leaving, Idle
  <2>4. CASE /\ loop.what = "remove" /\ loop'.who = loop.who /\ UNCHANGED registered
             /\ \/ loop'.what = "removeDist"
                \/ loop'.what = "remove" /\ loop'.left \subseteq loop.left
    BY <1>1, <2>4 DEF Leaving
  <2>5. CASE loop.what = "removeDist" /\ loop' = Idle /\ registered' = registered \ {loop.who}
    BY <1>1, <2>5 DEF Leaving
  <2>6. CASE loop.what \notin {"remove", "removeDist"} /\ UNCHANGED registered
    BY <1>1, <2>6 DEF Leaving
  <2>. QED  BY <2>1, <2>2, <2>3, <2>4, <2>5, <2>6 DEF Lives
<1>. QED  BY <1>2, <1>4, <1>5 DEF Gone

\* Every step keeps the adding and the removal of a client in their order.
LEMMA ClientsKeepOrder ==
  ASSUME TypeOK, ClientsInOrder, Lives
  PROVE  ClientsInOrder'
<1>1. /\ adapterQ \in Seq(Message)
      /\ DOMAIN adapterQ = 1 .. Len(adapterQ) /\ Len(adapterQ) \in Nat
      /\ \A i \in DOMAIN adapterQ : adapterQ[i] \in Message
  BY DEF TypeOK, AdapterType
<1>2. \A m \in Message : m.kind \in {"Add", "Remove"} => m.who \in Client
  BY DEF Message, SessionMessage, ClientMessage, EngineMessage, Reply
<1>3. /\ \A i \in DOMAIN adapterQ :
           /\ adapterQ[i].kind = "Add" => phase[adapterQ[i].who] # "new"
           /\ adapterQ[i].kind = "Remove" => phase[adapterQ[i].who] = "destroyed"
      /\ \A i, j \in DOMAIN adapterQ :
           /\ adapterQ[i].kind = "Add" /\ adapterQ[j].kind = "Remove"
           /\ adapterQ[i].who = adapterQ[j].who
           => i < j
  BY DEF ClientsInOrder
<1>4. \A c \in Client : /\ phase[c] # "new" => phase'[c] # "new"
                        /\ phase[c] = "destroyed" => phase'[c] = "destroyed"
  BY DEF Lives
<1>5. \A i \in DOMAIN adapterQ :
        /\ adapterQ[i].kind = "Add" => phase'[adapterQ[i].who] # "new"
        /\ adapterQ[i].kind = "Remove" => phase'[adapterQ[i].who] = "destroyed"
  BY <1>1, <1>2, <1>3, <1>4
<1>6. /\ \A i \in DOMAIN adapterQ' :
           /\ adapterQ'[i].kind = "Add" => phase'[adapterQ'[i].who] # "new"
           /\ adapterQ'[i].kind = "Remove" => phase'[adapterQ'[i].who] = "destroyed"
      /\ \A i, j \in DOMAIN adapterQ' :
           /\ adapterQ'[i].kind = "Add" /\ adapterQ'[j].kind = "Remove"
           /\ adapterQ'[i].who = adapterQ'[j].who
           => i < j
  <2>1. CASE UNCHANGED adapterQ
    BY <1>3, <1>5, <2>1
  <2>2. CASE adapterQ # <<>> /\ adapterQ' = Tail(adapterQ)
    <3>1. /\ DOMAIN adapterQ' = 1 .. Len(adapterQ) - 1
          /\ \A i \in DOMAIN adapterQ' : i \in Nat /\ i + 1 \in DOMAIN adapterQ
                                        /\ adapterQ'[i] = adapterQ[i + 1]
      BY <1>1, <2>2
    <3>2. ASSUME NEW i \in DOMAIN adapterQ', NEW j \in DOMAIN adapterQ',
                 adapterQ'[i].kind = "Add", adapterQ'[j].kind = "Remove",
                 adapterQ'[i].who = adapterQ'[j].who
          PROVE  i < j
      <4>1. i + 1 < j + 1
        BY <1>3, <3>1, <3>2
      <4>. QED  BY <3>1, <4>1
    <3>. QED  BY <1>5, <3>1, <3>2
  <2>3. ASSUME NEW m \in Message, adapterQ' = Append(adapterQ, m),
               m.kind = "Add" => phase[m.who] = "new" /\ phase'[m.who] = "alive",
               m.kind = "Remove" => phase'[m.who] = "destroyed"
        PROVE  <1>6!:
    <3>1. /\ DOMAIN adapterQ' = 1 .. Len(adapterQ) + 1 /\ adapterQ'[Len(adapterQ) + 1] = m
          /\ \A i \in DOMAIN adapterQ : adapterQ'[i] = adapterQ[i]
          /\ \A i \in DOMAIN adapterQ' : i \in DOMAIN adapterQ \/ i = Len(adapterQ) + 1
      BY <1>1, <2>3
    <3>2. ASSUME NEW i \in DOMAIN adapterQ', NEW j \in DOMAIN adapterQ',
                 adapterQ'[i].kind = "Add", adapterQ'[j].kind = "Remove",
                 adapterQ'[i].who = adapterQ'[j].who
          PROVE  i < j
      <4>1. CASE i \in DOMAIN adapterQ /\ j \in DOMAIN adapterQ
        BY <1>3, <3>1, <3>2, <4>1
      <4>2. CASE i \in DOMAIN adapterQ /\ j = Len(adapterQ) + 1
        BY <1>1, <4>2
      <4>3. CASE i = Len(adapterQ) + 1 /\ j \in DOMAIN adapterQ
        <5>1. phase[m.who] = "destroyed" /\ m.kind = "Add"
          BY <1>3, <3>1, <3>2, <4>3
        <5>. QED  BY <2>3, <5>1
      <4>4. CASE i = Len(adapterQ) + 1 /\ j = Len(adapterQ) + 1
        BY <3>2, <4>4
      <4>. QED  BY <3>1, <4>1, <4>2, <4>3, <4>4
    <3>3. \A i \in DOMAIN adapterQ' :
            /\ adapterQ'[i].kind = "Add" => phase'[adapterQ'[i].who] # "new"
            /\ adapterQ'[i].kind = "Remove" => phase'[adapterQ'[i].who] = "destroyed"
      BY <1>5, <2>3, <3>1
    <3>. QED  BY <3>2, <3>3
  <2>. QED  BY <2>1, <2>2, <2>3 DEF Lives
<1>7. /\ loop.what \in {"remove", "removeDist"} => loop.who \in Client /\ Gone(loop.who)
      /\ loop.what = "remove" => \A id \in loop.left : owner[id] = loop.who
  BY DEF ClientsInOrder
<1>8. Nobody \notin Client /\ loop \in LoopRange /\ \A id \in Id : owner[id] # Nobody => owner'[id] = owner[id]
  BY TrackingAssumption DEF Lives, TypeOK, AdapterType, LoopRange
<1>9. /\ loop'.what \in {"remove", "removeDist"} => loop'.who \in Client /\ Gone(loop.who)'
      /\ loop'.what = "remove" => \A id \in loop'.left : owner'[id] = loop'.who
  <2>1. ASSUME loop.what \in {"remove", "removeDist"}, loop'.who = loop.who,
               loop'.what = "remove" => loop.what = "remove" /\ loop'.left \subseteq loop.left
        PROVE  <1>9!:
    <3>1. loop.who \in Client /\ Gone(loop.who)
      BY <1>7, <2>1
    <3>2. PICK c \in Client : c = loop.who
      BY <3>1
    <3>3. Gone(c)'
      BY <3>1, <3>2, GoneStays
    <3>4. loop'.what = "remove" => \A id \in loop'.left : owner'[id] = loop'.who
      BY <1>7, <1>8, <2>1, <3>1 DEF LoopRange
    <3>5. Gone(loop.who)'
      BY <2>1, <3>2, <3>3 DEF Gone, Leaving, Adding
    <3>. QED  BY <2>1, <3>1, <3>4, <3>5
  <2>2. CASE UNCHANGED <<registered, loop>>
    <3>1. CASE loop.what \in {"remove", "removeDist"}
      BY <2>1, <2>2, <3>1
    <3>. QED  BY <2>2, <3>1
  <2>3. CASE UNCHANGED loop
    <3>1. CASE loop.what \in {"remove", "removeDist"}
      BY <2>1, <2>3, <3>1
    <3>. QED  BY <2>3, <3>1
  <2>4. CASE /\ adapterQ # <<>> /\ Head1.kind = "Remove" /\ adapterQ' = Tail(adapterQ)
             /\ loop' = Doing("remove", SessionsOf(Head1.who, timeS), Head1.who)
             /\ UNCHANGED <<registered, owner>>
    <3>1. Head1 = adapterQ[1] /\ 1 \in DOMAIN adapterQ /\ Head1 \in Message
      BY <1>1, <2>4, TakeHead DEF Head1
    <3>2. Head1.who \in Client /\ phase'[Head1.who] = "destroyed"
      BY <1>2, <1>5, <2>4, <3>1
    <3>3. /\ loop'.what = "remove" /\ loop'.who = Head1.who
          /\ loop'.left = SessionsOf(Head1.who, timeS)
      BY <2>4 DEF Doing
    <3>4. NoneOf(adapterQ', Adding(loop'.who))
      <4>. SUFFICES ASSUME NEW i \in DOMAIN adapterQ', adapterQ'[i] \in Adding(Head1.who)
                    PROVE  FALSE
        BY <3>3 DEF NoneOf
      <4>1. i \in Nat /\ i + 1 \in DOMAIN adapterQ /\ adapterQ'[i] = adapterQ[i + 1] /\ i >= 1
        BY <1>1, <2>4
      <4>2. i + 1 < 1
        BY <1>3, <2>4, <3>1, <4>1 DEF Adding
      <4>. QED  BY <4>1, <4>2
    <3>5. Gone(loop.who)'
      BY <3>2, <3>3, <3>4 DEF Gone, Leaving, Adding
    <3>. QED  BY <2>4, <3>2, <3>3, <3>5 DEF SessionsOf
  <2>5. CASE /\ loop.what = "remove" /\ loop'.who = loop.who
             /\ \/ loop'.what = "removeDist"
                \/ loop'.what = "remove" /\ loop'.left \subseteq loop.left
    BY <2>1, <2>5
  <2>6. CASE loop' = Idle
    BY <2>6 DEF Idle
  <2>7. CASE loop'.what \notin {"remove", "removeDist"}
    BY <2>7
  <2>. QED  BY <2>2, <2>3, <2>4, <2>5, <2>6, <2>7 DEF Lives
<1>. QED  BY <1>6, <1>9 DEF ClientsInOrder

\* A command that is posted has one answer due.
LEMMA PostedDue ==
  ASSUME TypeOK, TypeOK', AnswersDue, NEW m \in Message, adapterQ' = Append(adapterQ, m),
         UNCHANGED apiQ, \A c \in Client : Gone(c) => Gone(c)',
         \A i \in Id :
           \/ m \notin Asking(i) /\ due'[i] = due[i] /\ owner'[i] = owner[i]
           \/ /\ m \in Asking(i) /\ due'[i] = due[i] + 1
              /\ owner'[i] = owner[i] /\ owner[i] # Nobody
           \/ m \in Asking(i) /\ owner[i] = Nobody /\ due'[i] = 1 /\ owner'[i] # Nobody
  PROVE  AnswersDue'
<1>. SUFFICES ASSUME NEW i \in Id
              PROVE  /\ due'[i] >= 0
                     /\ owner'[i] = Nobody => Owed(i)' = 0
                     /\ owner'[i] # Nobody => Gone(owner[i])' \/ due'[i] >= Owed(i)'
  BY DEF AnswersDue
<1>1. /\ owner \in [Id -> Client \cup {Nobody}] /\ owner' \in [Id -> Client \cup {Nobody}]
      /\ due \in [Id -> Int] /\ due' \in [Id -> Int] /\ Nobody \notin Client
  BY TrackingAssumption DEF TypeOK, ClientType, RequestType
<1>2. Owed(i) \in Nat
  BY OwedNumber
<1>3. /\ due[i] >= 0 /\ (owner[i] = Nobody => Owed(i) = 0)
      /\ owner[i] # Nobody => Gone(owner[i]) \/ due[i] >= Owed(i)
  BY DEF AnswersDue
<1>4. Owed(i)' = Owed(i) + (IF m \in Asking(i) THEN 1 ELSE 0)
  <2>1. adapterQ \in Seq(Message)
    BY DEF TypeOK, AdapterType
  <2>2. Cardinality(Places(Append(adapterQ, m), Asking(i)))
          = Cardinality(Places(adapterQ, Asking(i))) + (IF m \in Asking(i) THEN 1 ELSE 0)
    BY <2>1, PlacesPosted
  <2>3. /\ Cardinality(Places(adapterQ, Asking(i))) \in Nat
        /\ Cardinality(Places(apiQ, Calling(i))) \in Nat
    BY OwedNumber
  <2>4. PICK a : a = Cardinality(Places(adapterQ', Asking(i)))
    OBVIOUS
  <2>5. a = Cardinality(Places(adapterQ, Asking(i))) + (IF m \in Asking(i) THEN 1 ELSE 0)
    BY <2>2, <2>4
  <2>6. Owed(i)' = a + Cardinality(Places(apiQ, Calling(i)))
    BY <2>4 DEF Owed
  <2>. QED  BY <2>3, <2>5, <2>6 DEF Owed
<1>5. CASE m \notin Asking(i) /\ due'[i] = due[i] /\ owner'[i] = owner[i]
  <2>1. owner[i] # Nobody /\ Gone(owner[i]) => Gone(owner[i])'
    <3>1. ASSUME NEW c \in Client, c = owner[i], Gone(c) PROVE Gone(owner[i])'
      <4>1. Gone(c)'
        BY <3>1
      <4>. QED  BY <1>5, <3>1, <4>1 DEF Gone, Leaving, Adding
    <3>. QED  BY <1>1, <3>1
  <2>. QED  BY <1>2, <1>3, <1>4, <1>5, <2>1
<1>6. CASE /\ m \in Asking(i) /\ due'[i] = due[i] + 1
           /\ owner'[i] = owner[i] /\ owner[i] # Nobody
  <2>1. Gone(owner[i]) => Gone(owner[i])'
    <3>1. ASSUME NEW c \in Client, c = owner[i], Gone(c) PROVE Gone(owner[i])'
      <4>1. Gone(c)'
        BY <3>1
      <4>. QED  BY <1>6, <3>1, <4>1 DEF Gone, Leaving, Adding
    <3>. QED  BY <1>1, <1>6, <3>1
  <2>2. due[i] \in Int
    BY <1>1
  <2>. QED  BY <1>2, <1>3, <1>4, <1>6, <2>1, <2>2
<1>7. CASE m \in Asking(i) /\ owner[i] = Nobody /\ due'[i] = 1 /\ owner'[i] # Nobody
  BY <1>2, <1>3, <1>4, <1>7
<1>. QED  BY <1>5, <1>6, <1>7

\* What the client threads do
LEMMA ClientLives ==
  TypeOK /\ ClientThread => Lives
<1>. SUFFICES ASSUME TypeOK, ClientThread PROVE Lives
  OBVIOUS
<1>1. /\ phase \in [Client -> {"new", "alive", "destroyed"}]
      /\ owner \in [Id -> Client \cup {Nobody}]
  BY DEF TypeOK, ClientType
<1>2. ASSUME NEW m \in Message, Post(m), UNCHANGED <<phase, owner>>,
             m.kind \notin {"Add", "Remove"}
      PROVE  Lives
  <2>1. adapterQ' = Append(adapterQ, m) /\ UNCHANGED <<registered, loop>>
    BY <1>2 DEF Post, sessionVars
  <2>. QED  BY <1>2, <2>1 DEF Lives
<1>3. ASSUME NEW c \in Client, Create(c) PROVE Lives
  <2>1. /\ About("Add", c) \in Message /\ About("Add", c).kind = "Add"
        /\ About("Add", c).who = c
    BY DEF About, Message, ClientMessage
  <2>2. /\ adapterQ' = Append(adapterQ, About("Add", c)) /\ UNCHANGED <<registered, loop, owner>>
        /\ phase[c] = "new" /\ phase' = [phase EXCEPT ![c] = "alive"]
    BY <1>3 DEF Create, Post, sessionVars
  <2>. QED  BY <1>1, <2>1, <2>2 DEF Lives
<1>4. ASSUME NEW c \in Client, Destroy(c) PROVE Lives
  <2>1. /\ About("Remove", c) \in Message /\ About("Remove", c).kind = "Remove"
        /\ About("Remove", c).who = c
    BY DEF About, Message, ClientMessage
  <2>2. /\ adapterQ' = Append(adapterQ, About("Remove", c)) /\ UNCHANGED <<registered, loop, owner>>
        /\ phase[c] = "alive" /\ phase' = [phase EXCEPT ![c] = "destroyed"]
    BY <1>4 DEF Destroy, Post, sessionVars
  <2>. QED  BY <1>1, <2>1, <2>2 DEF Lives
<1>5. ASSUME NEW c \in Client, NEW o \in ClientOptions, StartTracking(c, o) PROVE Lives
  <2>1. PICK id \in Id : /\ owner[id] = Nobody /\ owner' = [owner EXCEPT ![id] = c]
                         /\ Post(Session("Start", id, o)) /\ UNCHANGED phase
    BY <1>5 DEF StartTracking
  <2>2. Session("Start", id, o) \in Message /\ Session("Start", id, o).kind = "Start"
    <3>1. o \in Options
      BY TrackingAssumption DEF ClientOptions, Options
    <3>. QED  BY <3>1, SessionIsMessage, MessageOfSession DEF SessionKind, Session
  <2>3. adapterQ' = Append(adapterQ, Session("Start", id, o)) /\ UNCHANGED <<registered, loop>>
    BY <2>1 DEF Post, sessionVars
  <2>4. \A i \in Id : owner[i] # Nobody => owner'[i] = owner[i]
    BY <1>1, <2>1
  <2>. QED  BY <2>1, <2>2, <2>3, <2>4 DEF Lives
<1>6. ASSUME NEW id \in Id, NEW o \in ClientOptions, UpdateTracking(id, o) PROVE Lives
  <2>1. Session("Update", id, o) \in Message /\ Session("Update", id, o).kind = "Update"
    <3>1. o \in Options
      BY TrackingAssumption DEF ClientOptions, Options
    <3>. QED  BY <3>1, SessionIsMessage, MessageOfSession DEF SessionKind, Session
  <2>. QED  BY <1>2, <1>6, <2>1 DEF UpdateTracking
<1>7. ASSUME NEW id \in Id, StopTracking(id) PROVE Lives
  <2>1. Session("Stop", id, NoOptions) \in Message /\ Session("Stop", id, NoOptions).kind = "Stop"
    BY NoOptionsType, SessionIsMessage, MessageOfSession DEF SessionKind, Session
  <2>. QED  BY <1>2, <1>7, <2>1 DEF StopTracking
<1>8. CASE UpdateConfig
  <2>1. About("Reconfig", Nobody) \in Message /\ About("Reconfig", Nobody).kind = "Reconfig"
    BY DEF About, Message, EngineMessage
  <2>. QED  BY <1>2, <1>8, <2>1 DEF UpdateConfig
<1>. QED  BY <1>3, <1>4, <1>5, <1>6, <1>7, <1>8 DEF ClientThread

\* What the LocApi thread does
LEMMA ApiLives ==
  TypeOK /\ TimeInv /\ ApiStep => Lives
<1>. SUFFICES ASSUME TypeOK, TimeInv, ApiStep PROVE Lives
  OBVIOUS
<1>1. UNCHANGED <<phase, owner, registered, loop>>
  BY DEF ApiStep, clientVars, sessionVars
<1>2. \/ UNCHANGED adapterQ
      \/ \E m \in Message : adapterQ' = Append(adapterQ, m) /\ m.kind \notin {"Add", "Remove"}
  <2>1. Head(apiQ) \in TimeCall
    BY TakeHead DEF ApiStep, TimeInv, CallsTime
  <2>2. \/ UNCHANGED adapterQ
        \/ adapterQ' = Append(adapterQ, About("EngineUp", Nobody))
        \/ /\ Head(apiQ).reply # NoReply
           /\ \E ok \in BOOLEAN : adapterQ' = Append(adapterQ, [Head(apiQ).reply EXCEPT !.ok = ok])
    BY DEF ApiStep, ApiOutcome
  <2>3. About("EngineUp", Nobody) \in Message /\ About("EngineUp", Nobody).kind = "EngineUp"
    BY DEF About, Message, EngineMessage
  <2>4. ASSUME Head(apiQ).reply # NoReply, NEW ok \in BOOLEAN
        PROVE  /\ [Head(apiQ).reply EXCEPT !.ok = ok] \in Message
               /\ [Head(apiQ).reply EXCEPT !.ok = ok].kind \in TimeReply
    <3>1. Head(apiQ).reply \in SessionMessage /\ Head(apiQ).reply.kind \in TimeReply
      BY <2>1, <2>4 DEF TimeCall, ApiMessage
    <3>. QED  BY <3>1 DEF Message, SessionMessage
  <2>. QED  BY <2>2, <2>3, <2>4 DEF TimeReply
<1>. QED  BY <1>1, <1>2 DEF Lives

\* Posts keep what is due.
LEMMA ClientsAsk ==
  ASSUME TypeOK, TypeOK', AnswersDue, \A c \in Client : Gone(c) => Gone(c)', ClientThread
  PROVE  AnswersDue'
<1>0. /\ owner \in [Id -> Client \cup {Nobody}] /\ due \in [Id -> Int] /\ Nobody \notin Client
  BY TrackingAssumption DEF TypeOK, ClientType, RequestType
<1>1. ASSUME NEW m \in Message, Post(m), UNCHANGED <<owner, due>>,
             m.kind \notin {"Start", "Update", "Stop"} \cup TimeReply
      PROVE  AnswersDue'
  <2>1. adapterQ' = Append(adapterQ, m) /\ UNCHANGED apiQ
    BY <1>1 DEF Post, engineCall
  <2>2. \A i \in Id : m \notin Asking(i)
    BY <1>1 DEF Asking
  <2>. QED  BY <1>1, <2>1, <2>2, PostedDue
<1>2. ASSUME NEW id \in Id, NEW kind \in {"Start", "Update", "Stop"}, NEW o \in Options,
             Post(Session(kind, id, o)), \A i \in Id \ {id} : due'[i] = due[i] /\ owner'[i] = owner[i],
             \/ due'[id] = due[id] + 1 /\ owner'[id] = owner[id] /\ owner[id] # Nobody
             \/ owner[id] = Nobody /\ due'[id] = 1 /\ owner'[id] # Nobody
      PROVE  AnswersDue'
  <2>1. PICK m \in Message : m = Session(kind, id, o)
    BY SessionIsMessage, MessageOfSession DEF SessionKind
  <2>2. adapterQ' = Append(adapterQ, m) /\ UNCHANGED apiQ
    BY <1>2, <2>1 DEF Post, engineCall
  <2>3. \A i \in Id : m \in Asking(i) <=> i = id
    BY <2>1 DEF Asking, Session
  <2>. QED  BY <1>2, <2>2, <2>3, PostedDue
<1>3. ASSUME NEW c \in Client, Create(c) \/ Destroy(c) PROVE AnswersDue'
  <2>1. PICK kind \in {"Add", "Remove"} : Post(About(kind, c)) /\ UNCHANGED <<owner, due>>
    BY <1>3 DEF Create, Destroy
  <2>2. About(kind, c) \in Message /\ About(kind, c).kind = kind
    BY DEF About, Message, ClientMessage
  <2>. QED  BY <1>1, <2>1, <2>2 DEF TimeReply
<1>4. ASSUME NEW c \in Client, NEW o \in ClientOptions, StartTracking(c, o) PROVE AnswersDue'
  <2>1. PICK id \in Id : /\ owner[id] = Nobody /\ owner' = [owner EXCEPT ![id] = c]
                         /\ due' = [due EXCEPT ![id] = 1]
                         /\ Post(Session("Start", id, o))
    BY <1>4 DEF StartTracking
  <2>2. o \in Options
    BY TrackingAssumption DEF ClientOptions, Options
  <2>. QED  BY <1>0, <1>2, <2>1, <2>2
<1>5. ASSUME NEW id \in Id, NEW o \in ClientOptions, UpdateTracking(id, o) PROVE AnswersDue'
  <2>1. /\ owner[id] # Nobody /\ UNCHANGED owner /\ due' = [due EXCEPT ![id] = @ + 1]
        /\ Post(Session("Update", id, o))
    BY <1>5 DEF UpdateTracking
  <2>2. o \in Options
    BY TrackingAssumption DEF ClientOptions, Options
  <2>. QED  BY <1>0, <1>2, <2>1, <2>2
<1>6. ASSUME NEW id \in Id, StopTracking(id) PROVE AnswersDue'
  <2>1. /\ owner[id] # Nobody /\ UNCHANGED owner /\ due' = [due EXCEPT ![id] = @ + 1]
        /\ Post(Session("Stop", id, NoOptions))
    BY <1>6 DEF StopTracking
  <2>. QED  BY <1>0, <1>2, <2>1, NoOptionsType
<1>7. CASE UpdateConfig
  <2>1. About("Reconfig", Nobody) \in Message /\ About("Reconfig", Nobody).kind = "Reconfig"
    BY DEF About, Message, EngineMessage
  <2>. QED  BY <1>1, <1>7, <2>1 DEF UpdateConfig, TimeReply
<1>. QED  BY <1>3, <1>4, <1>5, <1>6, <1>7 DEF ClientThread

\* Every step keeps the invariant.
LEMMA AnswerInvStep ==
  TypeOK /\ TypeOK' /\ TimeInv /\ AnswerInv /\ [Next]_vars => AnswerInv'
<1>. SUFFICES ASSUME TypeOK, TypeOK', TimeInv, AnswerInv, [Next]_vars PROVE AnswerInv'
  OBVIOUS
<1>0. NoNHz /\ ClientsInOrder /\ AnswersDue
  BY DEF AnswerInv
<1>b. budget \in [updates : Nat, stops : Nat, crashes : Nat, reconfigs : Nat, nhz : Nat]
  BY DEF TypeOK, ClientType
<1>1. CASE AdapterThread
  <2>1. UNCHANGED <<owner, nhz, budget>>
    BY <1>1 DEF AdapterThread, AddClient, Start, Update, Stop, Remove, EngineUp, Reconfig,
       RemoveTimeSession, RemoveDistanceSession, RestartDistanceSession, Started, Updated,
       Stopped, Switched, Restarted, Finish, Take, Wait, clientVars
  <2>2. Lives /\ Settles
    BY <1>0, <1>1, AdapterLives, HandlersSettle
  <2>3. ClientsInOrder' /\ \A c \in Client : Gone(c) => Gone(c)'
    BY <1>0, <2>2, ClientsKeepOrder, GoneStays
  <2>4. AnswersDue'
    BY <1>0, <2>1, <2>2, <2>3, SettlesKeep
  <2>. QED  BY <1>0, <2>1, <2>3, <2>4 DEF AnswerInv, NoNHz
<1>2. CASE ClientThread
  <2>1. UNCHANGED nhz
    BY <1>2 DEF ClientThread, Create, Destroy, StartTracking, UpdateTracking, StopTracking,
                UpdateConfig, Post
  <2>2. budget'.nhz = budget.nhz
    BY <1>2, <1>b DEF ClientThread, Create, Destroy, StartTracking, UpdateTracking,
                      StopTracking, UpdateConfig
  <2>3. Lives
    BY <1>2, ClientLives
  <2>4. ClientsInOrder' /\ \A c \in Client : Gone(c) => Gone(c)'
    BY <1>0, <2>3, ClientsKeepOrder, GoneStays
  <2>5. AnswersDue'
    BY <1>0, <1>2, <2>4, ClientsAsk
  <2>. QED  BY <1>0, <2>1, <2>2, <2>4, <2>5 DEF AnswerInv, NoNHz
<1>3. CASE ApiStep
  <2>1. UNCHANGED <<owner, nhz, budget>>
    BY <1>3 DEF ApiStep, clientVars
  <2>2. Lives /\ Settles
    BY <1>3, ApiLives, ApiStepSettles
  <2>3. ClientsInOrder' /\ \A c \in Client : Gone(c) => Gone(c)'
    BY <1>0, <2>2, ClientsKeepOrder, GoneStays
  <2>4. AnswersDue'
    BY <1>0, <2>1, <2>2, <2>3, SettlesKeep
  <2>. QED  BY <1>0, <2>1, <2>3, <2>4 DEF AnswerInv, NoNHz
<1>4. CASE SetNHz
  BY <1>0, <1>4 DEF SetNHz, NoNHz
<1>5. CASE Crash
  BY <1>5 DEF Crash, TimeInv, Running
<1>6. CASE UNCHANGED vars
  <2>1. UNCHANGED <<adapterQ, apiQ, phase, registered, loop, owner, due, nhz, budget>>
    BY <1>6 DEF vars
  <2>. QED  BY <1>0, <2>1 DEF AnswerInv, NoNHz, ClientsInOrder, AnswersDue, Gone, Leaving,
                              Adding, Owed, Places, Asking, Calling
<1>. QED  BY <1>1, <1>2, <1>3, <1>4, <1>5, <1>6 DEF Next

\* It holds at the start.
LEMMA AnswerInvInit ==
  MaxNHz = 0 /\ Init => AnswerInv
<1>. SUFFICES ASSUME MaxNHz = 0, Init PROVE AnswerInv
  OBVIOUS
<1>1. NoNHz
  BY DEF Init, NoNHz
<1>2. ClientsInOrder
  BY DEF Init, ClientsInOrder, Idle
<1>3. AnswersDue
  <2>. SUFFICES ASSUME NEW i \in Id PROVE due[i] = 0 /\ owner[i] = Nobody /\ Owed(i) = 0
    BY DEF AnswersDue
  <2>1. Places(adapterQ, Asking(i)) = {}
    BY DEF Init, Places
  <2>2. Places(apiQ, Calling(i)) = {}
    <3>1. PICK c : c = Call("open", NoOptions, NoReply)
      OBVIOUS
    <3>2. apiQ = <<c>> /\ c.reply = NoReply
      BY <3>1 DEF Init, Call
    <3>. QED  BY <3>2 DEF Places, Calling
  <2>3. Cardinality({}) = 0
    BY FS_EmptySet
  <2>4. Owed(i) = 0
    BY <2>1, <2>2, <2>3 DEF Owed
  <2>5. due[i] = 0 /\ owner[i] = Nobody
    BY DEF Init
  <2>. QED  BY <2>4, <2>5
<1>. QED  BY <1>1, <1>2, <1>3 DEF AnswerInv

\* Without distances, failures and the NHz requirement no session gets more
\* responses than it has commands, however they, the outcomes of the engine's
\* calls and the removal of its client interleave.
THEOREM ResponsesAreAskedFor ==
  TimeBasedOnly /\ MaxNHz = 0 /\ Spec => []NoUnsolicitedResponse
<1>1. CASE TimeBasedOnly /\ MaxNHz = 0
  <2>1. Init => TypeInv /\ TimeInv /\ AnswerInv
    BY <1>1, TypeInvInit, TimeInvInit, AnswerInvInit
  <2>2. TypeInv /\ TimeInv /\ AnswerInv /\ [Next]_vars => TypeInv' /\ TimeInv' /\ AnswerInv'
    BY <1>1, TypeInvStep, TimeInvStep, AnswerInvStep DEF TypeInv
  <2>3. AnswerInv => NoUnsolicitedResponse
    BY DEF AnswerInv, AnswersDue, NoUnsolicitedResponse
  <2>. QED  BY <2>1, <2>2, <2>3, PTL DEF Spec
<1>2. CASE ~(TimeBasedOnly /\ MaxNHz = 0)
  BY <1>2, PTL
<1>. QED  BY <1>1, <1>2
=============================================================================
