------------------------- MODULE GnssAdapter_proofs -------------------------
(* Proofs about the tracking sessions of GnssTracking, for any clients,     *)
(* number of sessions and options.                                          *)
EXTENDS MCGnssAdapter, QueueLemmas

(***************************************************************************)
(* Type correctness: the helpers                                           *)
(***************************************************************************)

Asked == [on : BOOLEAN, interval : Nat, power : Nat]
LoopRange == [what : {"none", "remove", "removeDist", "restart", "engineUp"},
              left : SUBSET Id, who : Client \cup {Nobody}]
SessionKind == {"Start", "Update", "Stop"} \cup Reply

LEMMA HeadType ==
  ASSUME AdapterType, adapterQ # <<>>
  PROVE  /\ Tail(adapterQ) \in Seq(Message)
         /\ Head1 \in Message
         /\ Head1.kind \in SessionKind => Head1 \in SessionMessage
         /\ Head1.kind \in {"Add", "Remove"} => Head1.who \in Client
<1>1. Head1 \in Message /\ Tail(adapterQ) \in Seq(Message)
  BY TakeHead DEF AdapterType, Head1
<1>2. Head1.kind \in SessionKind => Head1 \in SessionMessage
  BY <1>1 DEF Message, ClientMessage, EngineMessage, SessionKind, Reply
<1>3. Head1.kind \in {"Add", "Remove"} => Head1.who \in Client
  BY <1>1 DEF Message, SessionMessage, ClientMessage, EngineMessage, Reply
<1>. QED  BY <1>1, <1>2, <1>3

LEMMA PostType ==
  ASSUME AdapterType, NEW m \in Message
  PROVE  Append(adapterQ, m) \in Seq(Message)
BY PostMessage DEF AdapterType

LEMMA MessageOfSession ==
  ASSUME NEW m \in SessionMessage
  PROVE  m \in Message /\ m.id \in Id /\ m.opts \in Options /\ m.kind \in SessionKind
BY DEF Message, SessionMessage, SessionKind

LEMMA SessionIsMessage ==
  ASSUME NEW kind \in SessionKind, NEW id \in Id, NEW o \in Options
  PROVE  Session(kind, id, o) \in SessionMessage
BY DEF Session, SessionMessage, SessionKind

LEMMA NoOptionsType == NoOptions \in Options
BY DEF NoOptions, Options, INVALID

LEMMA ClampType ==
  ASSUME NEW o \in Options
  PROVE  Clamp(o) \in Options /\ Clamp(o).dist = o.dist
           /\ Clamp(o).interval >= MinTrackingInterval
BY TrackingAssumption DEF Clamp, Options

LEMMA SpeIntervalType ==
  ASSUME NEW needed \in BOOLEAN, NEW o \in Options
  PROVE  /\ SpeInterval(needed, o) \in Options
         /\ SpeInterval(needed, o).dist = o.dist
         /\ SpeInterval(needed, o).interval <= o.interval
         /\ SpeInterval(needed, o) # o =>
              needed /\ SpeInterval(needed, o).interval = MinTrackingInterval
BY TrackingAssumption DEF SpeInterval, Options

LEMMA CallType ==
  ASSUME NEW op \in ApiOp, NEW o \in Options, NEW reply \in SessionMessage \cup {NoReply}
  PROVE  Call(op, o, reply) \in ApiMessage
BY DEF Call, ApiMessage

LEMMA ReportType ==
  ASSUME due \in [Id -> Int], NEW id \in Id, Report(id)
  PROVE  due' \in [Id -> Int]
BY DEF Report

LEMMA SaveType ==
  ASSUME Sessions(timeS), Sessions(distS), NEW id \in Id, NEW o \in Options, Save(id, o)
  PROVE  Sessions(timeS)' /\ Sessions(distS)'
BY DEF Save, With, Sessions

LEMMA EraseType ==
  ASSUME Sessions(timeS), Sessions(distS), NEW id \in Id, Erase(id)
  PROVE  Sessions(timeS)' /\ Sessions(distS)'
BY DEF Erase, Without, Sessions

LEMMA TellEngineType ==
  ASSUME RequestType, nhz \in BOOLEAN, NEW id \in Id, NEW o \in Options,
         NEW reply \in SessionMessage, NEW more \in Seq(ApiMessage),
         TellEngine(id, o, reply, more)
  PROVE  RequestType'
<1>. DEFINE o2 == SpeInterval(nhz, o)
<1>1. o2 \in Options /\ Call("startTime", o2, reply) \in ApiMessage
  BY SpeIntervalType, CallType DEF ApiOp
<1>2. apiQ' \in Seq(ApiMessage)
  <2>1. Append(apiQ, Call("startTime", o2, reply)) \in Seq(ApiMessage)
    BY <1>1, PostMessage DEF RequestType
  <2>2. apiQ \o more \in Seq(ApiMessage)
    BY PostMessages DEF RequestType
  <2>3. Append(apiQ, Call("startTime", o2, reply)) \o more \in Seq(ApiMessage)
    BY <2>1, PostMessages
  <2>. QED  BY <2>2, <2>3 DEF TellEngine
<1>3. due' \in [Id -> Int]
  BY ReportType DEF TellEngine, RequestType
<1>4. asked' \in Asked
  <2>1. asked' = asked \/ asked' = On(o2)
    BY Zenon DEF TellEngine
  <2>2. On(o2) \in Asked
    BY <1>1 DEF On, Options, Asked
  <2>. QED  BY <2>1, <2>2 DEF RequestType, Asked
<1>5. hub' \in BOOLEAN /\ spe' \in BOOLEAN
  <2>1. CASE nhz /\ spe
    BY <2>1, Zenon DEF TellEngine, RequestType
  <2>2. CASE ~(nhz /\ spe)
    <3>1. hub' = TRUE /\ spe' = (spe \/ o2 # o)
      BY <2>2 DEF TellEngine
    <3>2. (spe \/ o2 # o) \in BOOLEAN
      BY Zenon DEF RequestType
    <3>. QED  BY <3>1, <3>2, Zenon
  <2>. QED  BY <2>1, <2>2
<1>. QED  BY <1>2, <1>3, <1>4, <1>5 DEF RequestType, Asked

LEMMA NoCallType ==
  ASSUME RequestType, NEW id \in Id, NEW answer, NEW more \in Seq(ApiMessage),
         NoCall(id, answer, more)
  PROVE  RequestType'
<1>1. apiQ' \in Seq(ApiMessage)
  BY PostMessages DEF NoCall, RequestType
<1>2. due' \in [Id -> Int]
  BY ReportType DEF NoCall, RequestType
<1>. QED  BY <1>1, <1>2 DEF NoCall, RequestType

\* What the multiplexing loops pick is the interval and power of sessions.
LEMMA PickType ==
  ASSUME Sessions(timeS), NEW S \in SUBSET DOMAIN timeS,
         NEW k \in S, NEW p \in PowersOf(S), NEW o \in Options
  PROVE  /\ timeS[k] \in Options /\ p \in Nat /\ k \in Id
         /\ [timeS[k] EXCEPT !.power = p] \in Options
         /\ [timeS[k] EXCEPT !.interval = IF o.interval < @ THEN o.interval ELSE @,
                             !.power = IF o.power < p THEN o.power ELSE @] \in Options
BY DEF Sessions, PowersOf, Options

LEMMA NoMoreType == <<>> \in Seq(ApiMessage)
OBVIOUS

LEMMA StartMultiplexType ==
  ASSUME RequestType, nhz \in BOOLEAN, Sessions(timeS), NEW id \in Id, NEW o \in Options,
         StartMultiplex(id, o)
  PROVE  RequestType'
<1>. DEFINE S == DOMAIN timeS
            reply == Session("started", id, NoOptions)
<1>1. reply \in SessionMessage
  BY SessionIsMessage, NoOptionsType DEF SessionKind, Reply
<1>2. CASE S = {}
  <2>1. TellEngine(id, o, reply, <<>>)
    BY <1>2 DEF StartMultiplex
  <2>. QED  BY <1>1, <2>1, NoMoreType, TellEngineType
<1>3. CASE S # {}
  <2>1. PICK k \in S, p \in PowersOf(S) :
           \/ TellEngine(id,
                 [timeS[k] EXCEPT !.interval = IF o.interval < @ THEN o.interval ELSE @,
                                  !.power = IF o.power < p THEN o.power ELSE @],
                 reply, <<>>)
           \/ NoCall(id, TRUE, <<>>)
    BY <1>3 DEF StartMultiplex
  <2>. QED  BY <1>1, <2>1, PickType, NoMoreType, TellEngineType, NoCallType
<1>. QED  BY <1>2, <1>3

LEMMA UpdateMultiplexType ==
  ASSUME RequestType, nhz \in BOOLEAN, Sessions(timeS), NEW id \in DOMAIN timeS,
         NEW o \in Options, UpdateMultiplex(id, o)
  PROVE  RequestType'
<1>. DEFINE S == DOMAIN timeS \ {id}
            reply == Session("updated", id, timeS[id])
<1>1. reply \in SessionMessage /\ id \in Id /\ S \in SUBSET DOMAIN timeS
  BY SessionIsMessage DEF SessionKind, Reply, Sessions
<1>2. CASE NoCall(id, TRUE, <<>>)
  BY <1>1, <1>2, NoMoreType, NoCallType
<1>3. CASE TellEngine(id, o, reply, <<>>)
  BY <1>1, <1>3, NoMoreType, TellEngineType
<1>4. CASE \E k \in S, p \in PowersOf(S) :
             \/ TellEngine(id,
                   [timeS[k] EXCEPT !.interval = IF o.interval < @ THEN o.interval ELSE @,
                                    !.power = IF o.power < p THEN o.power ELSE @],
                   reply, <<>>)
             \/ NoCall(id, TRUE, <<>>)
  BY <1>1, <1>4, PickType, NoMoreType, TellEngineType, NoCallType
<1>. QED  BY <1>2, <1>3, <1>4 DEF UpdateMultiplex

LEMMA StopMultiplexType ==
  ASSUME RequestType, nhz \in BOOLEAN, Sessions(timeS), NEW id \in Id,
         NEW answer, NEW more \in Seq(ApiMessage), StopMultiplex(id, answer, more)
  PROVE  RequestType'
<1>. DEFINE S == DOMAIN timeS \ {id}
            stop == Call("stopTime", NoOptions, Session("stopped", id, NoOptions))
            reply == Session("started", id, NoOptions)
<1>1. Session("stopped", id, NoOptions) \in SessionMessage /\ reply \in SessionMessage
  BY SessionIsMessage, NoOptionsType DEF SessionKind, Reply
<1>2. stop \in ApiMessage
  BY <1>1, NoOptionsType, CallType DEF ApiOp
<1>3. CASE S = {}
  <2>1. /\ hub' = FALSE /\ spe' = FALSE /\ asked' = Off /\ UNCHANGED due
        /\ apiQ' = Append(apiQ, stop) \o more
    BY <1>3 DEF StopMultiplex
  <2>2. Append(apiQ, stop) \in Seq(ApiMessage)
    BY <1>2, PostMessage DEF RequestType
  <2>3. apiQ' \in Seq(ApiMessage)
    BY <2>1, <2>2, PostMessages
  <2>. QED  BY <2>1, <2>3 DEF RequestType, Off, INVALID
<1>4. CASE S # {}
  <2>1. PICK k \in S, p \in PowersOf(S) :
           \/ TellEngine(id, [timeS[k] EXCEPT !.power = p], reply, more)
           \/ NoCall(id, answer, more)
    BY <1>4 DEF StopMultiplex
  <2>2. [timeS[k] EXCEPT !.power = p] \in Options
    BY PickType, NoOptionsType
  <2>. QED  BY <1>1, <2>1, <2>2, TellEngineType, NoCallType
<1>. QED  BY <1>3, <1>4

LEMMA RestartTimeType ==
  ASSUME apiQ \in Seq(ApiMessage), Sessions(timeS), NEW needed \in BOOLEAN,
         NEW before \in Seq(ApiMessage),
         spe \in BOOLEAN, asked \in Asked, RestartTime(needed, before)
  PROVE  apiQ' \in Seq(ApiMessage) /\ spe' \in BOOLEAN /\ asked' \in Asked
<1>. DEFINE S == DOMAIN timeS
<1>1. apiQ \o before \in Seq(ApiMessage)
  BY PostMessages
<1>2. CASE S = {}
  BY <1>1, <1>2 DEF RestartTime
<1>3. CASE S # {}
  <2>1. PICK k \in S, p \in PowersOf(S) :
          LET o == [timeS[k] EXCEPT !.power = p]
              o2 == SpeInterval(needed, o)
          IN /\ apiQ' = Append(apiQ \o before, Call("startTime", o2, NoReply))
             /\ spe' = (o2 # o)
             /\ asked' = On(o2)
    BY <1>3 DEF RestartTime
  <2>. DEFINE o == [timeS[k] EXCEPT !.power = p]
              o2 == SpeInterval(needed, o)
  <2>2. o \in Options
    BY PickType, NoOptionsType
  <2>3. o2 \in Options
    BY <2>2, SpeIntervalType
  <2>4. Call("startTime", o2, NoReply) \in ApiMessage
    BY <2>3, CallType DEF ApiOp
  <2>5. spe' \in BOOLEAN
    BY <2>1, Zenon
  <2>. QED  BY <1>1, <2>1, <2>3, <2>4, <2>5, PostMessage DEF On, Asked, Options
<1>. QED  BY <1>2, <1>3

\* A restart's loop only looks up sessions that are in the map: no handler
\* runs before it ends, so none can erase them.
RestartsSessions ==
  loop.what \in {"restart", "engineUp"} => loop.left \subseteq DOMAIN distS
TypeInv == TypeOK /\ RestartsSessions

(***************************************************************************)
(* Type correctness: the steps                                             *)
(***************************************************************************)

LEMMA InitType == Init => TypeOK
<1>. SUFFICES ASSUME Init PROVE TypeOK
  OBVIOUS
<1>1. Call("open", NoOptions, NoReply) \in ApiMessage
  BY CallType, NoOptionsType DEF ApiOp
<1>2. apiQ \in Seq(ApiMessage)
  BY <1>1, PostMessage DEF Init
<1>3. Sessions(EmptyMap)
  BY DEF Sessions, EmptyMap
<1>4. ClientType
  BY TrackingAssumption DEF Init, ClientType
<1>5. AdapterType
  <2>1. <<>> \in Seq(Message)
    OBVIOUS
  <2>2. loop = Idle /\ Idle \in LoopRange
    BY DEF Init, Idle, LoopRange
  <2>. QED  BY <2>1, <2>2 DEF Init, AdapterType, LoopRange
<1>6. SessionType /\ EngineType
  BY <1>3 DEF Init, SessionType, EngineType
<1>7. RequestType
  <2>1. asked = Off /\ Off \in Asked
    BY DEF Init, Off, INVALID, Asked
  <2>2. due \in [Id -> Int]
    BY DEF Init
  <2>. QED  BY <1>2, <2>1, <2>2 DEF Init, RequestType, Asked
<1>. QED  BY <1>4, <1>5, <1>6, <1>7 DEF TypeOK

LEMMA PostKeepsType ==
  ASSUME TypeOK, NEW m \in Message, Post(m)
  PROVE  AdapterType' /\ SessionType' /\ EngineType' /\ (due' \in [Id -> Int] => RequestType')
<1>1. adapterQ' \in Seq(Message)
  BY PostType DEF Post, TypeOK
<1>. QED  BY <1>1 DEF Post, TypeOK, AdapterType, SessionType, RequestType, EngineType,
                      sessionVars, engineCall, Sessions

LEMMA ClientThreadType == TypeOK /\ ClientThread => TypeOK'
<1>. SUFFICES ASSUME TypeOK, ClientThread PROVE TypeOK'
  OBVIOUS
<1>0. ClientType /\ due \in [Id -> Int]
  BY DEF TypeOK, RequestType
<1>1. ASSUME NEW c \in Client, Create(c) \/ Destroy(c) PROVE TypeOK'
  <2>1. About("Add", c) \in Message /\ About("Remove", c) \in Message
    BY DEF About, Message, ClientMessage
  <2>2. ClientType' /\ due' \in [Id -> Int]
    BY <1>0, <1>1 DEF Create, Destroy, ClientType
  <2>. QED  BY <1>1, <2>1, <2>2, PostKeepsType DEF TypeOK, Create, Destroy
<1>2. ASSUME NEW c \in Client, NEW o \in ClientOptions, StartTracking(c, o) PROVE TypeOK'
  <2>1. PICK id \in Id : /\ owner' = [owner EXCEPT ![id] = c]
                         /\ due' = [due EXCEPT ![id] = 1]
                         /\ Post(Session("Start", id, o))
    BY <1>2 DEF StartTracking
  <2>2. o \in Options
    BY TrackingAssumption DEF ClientOptions, Options
  <2>3. Session("Start", id, o) \in Message
    BY <2>2, SessionIsMessage, MessageOfSession DEF SessionKind
  <2>4. ClientType' /\ due' \in [Id -> Int]
    BY <1>0, <1>2, <2>1 DEF StartTracking, ClientType
  <2>. QED  BY <2>1, <2>3, <2>4, PostKeepsType DEF TypeOK
<1>3. ASSUME NEW id \in Id, NEW o \in ClientOptions, UpdateTracking(id, o) PROVE TypeOK'
  <2>1. o \in Options
    BY TrackingAssumption DEF ClientOptions, Options
  <2>2. Session("Update", id, o) \in Message
    BY <2>1, SessionIsMessage, MessageOfSession DEF SessionKind
  <2>3. ClientType' /\ due' \in [Id -> Int]
    BY <1>0, <1>3 DEF UpdateTracking, ClientType
  <2>. QED  BY <1>3, <2>2, <2>3, PostKeepsType DEF TypeOK, UpdateTracking
<1>4. ASSUME NEW id \in Id, StopTracking(id) PROVE TypeOK'
  <2>1. Session("Stop", id, NoOptions) \in Message
    BY NoOptionsType, SessionIsMessage, MessageOfSession DEF SessionKind
  <2>2. ClientType' /\ due' \in [Id -> Int]
    BY <1>0, <1>4 DEF StopTracking, ClientType
  <2>. QED  BY <1>4, <2>1, <2>2, PostKeepsType DEF TypeOK, StopTracking
<1>5. CASE UpdateConfig
  <2>1. About("Reconfig", Nobody) \in Message
    BY DEF About, Message, EngineMessage
  <2>2. ClientType' /\ due' \in [Id -> Int]
    BY <1>0, <1>5 DEF UpdateConfig, ClientType
  <2>. QED  BY <1>5, <2>1, <2>2, PostKeepsType DEF TypeOK, UpdateConfig
<1>. QED  BY <1>1, <1>2, <1>3, <1>4, <1>5 DEF ClientThread

\* Taking a message leaves the clients, the engine and the queue's type alone.
LEMMA TakeType ==
  ASSUME TypeOK, NEW kind, Take(kind)
  PROVE  ClientType' /\ EngineType' /\ adapterQ' \in Seq(Message) /\ Head1.kind = kind
           /\ adapterQ # <<>>
BY HeadType DEF Take, TypeOK, ClientType, EngineType, clientVars

LEMMA SessionHead ==
  ASSUME TypeOK, NEW kind \in SessionKind, Take(kind)
  PROVE  /\ Head1 \in SessionMessage /\ Head1 \in Message
         /\ Head1.id \in Id /\ Head1.opts \in Options
BY TakeType, HeadType, MessageOfSession DEF TypeOK

LEMMA WaitType ==
  ASSUME TypeOK, Head1 \in Message, adapterQ' \in Seq(Message), Wait
  PROVE  AdapterType' /\ SessionType' /\ RequestType'
<1>1. pending' \in Seq(Message)
  BY PostMessage DEF Wait, TypeOK, AdapterType
<1>. QED  BY <1>1 DEF Wait, TypeOK, AdapterType, SessionType, RequestType, sessionVars,
                      engineCall, Sessions

LEMMA StartType == TypeOK /\ Start => TypeOK'
<1>. SUFFICES ASSUME TypeOK, Start PROVE TypeOK'
  OBVIOUS
<1>. DEFINE id == Head1.id
            o == Clamp(Head1.opts)
            call == Call("startDist", o, Session("started", id, NoOptions))
<1>1. Take("Start") /\ ClientType' /\ EngineType' /\ adapterQ' \in Seq(Message)
  BY TakeType DEF Start
<1>2. Head1 \in Message /\ id \in Id /\ Head1.opts \in Options
  BY <1>1, SessionHead DEF SessionKind
<1>3. o \in Options
  BY <1>2, ClampType
<1>4. CASE Wait
  BY <1>1, <1>2, <1>4, WaitType DEF TypeOK
<1>5. CASE UNCHANGED <<sessionVars, due, engineCall, caps, pending, nhz, loop, stopped>>
  BY <1>1, <1>5 DEF TypeOK, AdapterType, SessionType, RequestType, sessionVars, engineCall,
                    Sessions
<1>6. CASE /\ Save(id, o)
           /\ \/ /\ apiQ' = Append(apiQ, call)
                 /\ UNCHANGED <<hub, spe, asked, due>>
              \/ StartMultiplex(id, o)
           /\ UNCHANGED <<registered, caps, pending, nhz, loop, stopped>>
  <2>1. SessionType'
    BY <1>2, <1>3, <1>6, SaveType DEF TypeOK, SessionType
  <2>2. AdapterType'
    BY <1>1, <1>6 DEF TypeOK, AdapterType
  <2>3. RequestType'
    <3>1. CASE StartMultiplex(id, o)
      BY <1>2, <1>3, <3>1, StartMultiplexType DEF TypeOK, AdapterType, SessionType
    <3>2. CASE apiQ' = Append(apiQ, call) /\ UNCHANGED <<hub, spe, asked, due>>
      <4>1. call \in ApiMessage
        BY <1>2, <1>3, NoOptionsType, SessionIsMessage, CallType DEF ApiOp, SessionKind, Reply
      <4>2. apiQ' \in Seq(ApiMessage)
        BY <3>2, <4>1, PostMessage DEF TypeOK, RequestType
      <4>. QED  BY <3>2, <4>2 DEF TypeOK, RequestType
    <3>. QED  BY <1>6, <3>1, <3>2
  <2>. QED  BY <1>1, <2>1, <2>2, <2>3 DEF TypeOK
<1>. QED  BY <1>4, <1>5, <1>6 DEF Start

LEMMA UpdateType == TypeOK /\ Update => TypeOK'
<1>. SUFFICES ASSUME TypeOK, Update PROVE TypeOK'
  OBVIOUS
<1>. DEFINE id == Head1.id
            o == Clamp(Head1.opts)
            stop(kind) == Call("stopDist", NoOptions, Session(kind, id, o))
            go == Call("startDist", o, NoReply)
<1>1. Take("Update") /\ ClientType' /\ EngineType' /\ adapterQ' \in Seq(Message)
  BY TakeType DEF Update
<1>2. Head1 \in Message /\ id \in Id /\ Head1.opts \in Options
  BY <1>1, SessionHead DEF SessionKind
<1>3. o \in Options
  BY <1>2, ClampType
<1>4. CASE Wait
  BY <1>1, <1>2, <1>4, WaitType DEF TypeOK
<1>. DEFINE Kept == UNCHANGED <<registered, caps, pending, nhz, loop, stopped>>
<1>5. ASSUME Kept, Sessions(timeS)', Sessions(distS)', RequestType' PROVE TypeOK'
  BY <1>1, <1>5 DEF TypeOK, AdapterType, SessionType
<1>6. CASE Kept /\ Report(id) /\ UNCHANGED <<timeS, distS, engineCall>>
  <2>1. due' \in [Id -> Int]
    BY <1>2, <1>6, ReportType DEF TypeOK, RequestType
  <2>2. RequestType'
    BY <1>6, <2>1 DEF TypeOK, RequestType, engineCall
  <2>. QED  BY <1>5, <1>6, <2>2 DEF TypeOK, SessionType, Sessions
<1>7. CASE /\ Kept /\ StopMultiplex(id, TRUE, <<go>>)
           /\ \/ timeS' = Without(timeS, id) /\ distS' = With(distS, id, o)
              \/ timeS' = With(timeS, id, o) /\ UNCHANGED distS
  <2>1. <<go>> \in Seq(ApiMessage)
    BY <1>3, CallType DEF ApiOp
  <2>2. RequestType'
    BY <1>2, <1>7, <2>1, StopMultiplexType DEF TypeOK, AdapterType, SessionType
  <2>3. Sessions(timeS)' /\ Sessions(distS)'
    BY <1>2, <1>3, <1>7 DEF TypeOK, SessionType, Sessions, With, Without
  <2>. QED  BY <1>5, <1>7, <2>2, <2>3
<1>8. CASE /\ Kept /\ (Erase(id) \/ UNCHANGED <<timeS, distS>>)
           /\ \E kind \in {"switch", "restart"} : apiQ' = Append(apiQ, stop(kind))
           /\ UNCHANGED <<hub, spe, asked, due>>
  <2>1. \A kind \in {"switch", "restart"} : stop(kind) \in ApiMessage
    BY <1>2, <1>3, NoOptionsType, SessionIsMessage, CallType DEF ApiOp, SessionKind, Reply
  <2>2. apiQ' \in Seq(ApiMessage)
    BY <1>8, <2>1, PostMessage DEF TypeOK, RequestType
  <2>3. RequestType'
    BY <1>8, <2>2 DEF TypeOK, RequestType
  <2>4. CASE Erase(id)
    BY <1>2, <1>5, <1>8, <2>3, <2>4, EraseType DEF TypeOK, SessionType
  <2>5. CASE UNCHANGED <<timeS, distS>>
    BY <1>5, <1>8, <2>3, <2>5 DEF TypeOK, SessionType, Sessions
  <2>. QED  BY <1>8, <2>4, <2>5
<1>9. CASE Kept /\ Save(id, o) /\ id \in DOMAIN timeS /\ UpdateMultiplex(id, o)
  <2>1. Sessions(timeS)' /\ Sessions(distS)'
    BY <1>2, <1>3, <1>9, SaveType DEF TypeOK, SessionType
  <2>2. RequestType'
    BY <1>3, <1>9, UpdateMultiplexType DEF TypeOK, AdapterType, SessionType
  <2>. QED  BY <1>5, <1>9, <2>1, <2>2
<1>. QED  BY <1>4, <1>6, <1>7, <1>8, <1>9 DEF Update

LEMMA StopType == TypeOK /\ Stop => TypeOK'
<1>. SUFFICES ASSUME TypeOK, Stop PROVE TypeOK'
  OBVIOUS
<1>. DEFINE id == Head1.id
            stop == Call("stopDist", NoOptions, Session("stoppedDist", id, NoOptions))
<1>1. Take("Stop") /\ ClientType' /\ EngineType' /\ adapterQ' \in Seq(Message)
  BY TakeType DEF Stop
<1>2. id \in Id
  BY <1>1, SessionHead DEF SessionKind
<1>3. AdapterType'
  BY <1>1 DEF Stop, TypeOK, AdapterType
<1>4. CASE StopMultiplex(id, TRUE, <<>>) /\ Erase(id) /\ stopped' = stopped \cup {id}
  <2>1. RequestType'
    BY <1>2, <1>4, NoMoreType, StopMultiplexType DEF TypeOK, AdapterType, SessionType
  <2>2. Sessions(timeS)' /\ Sessions(distS)'
    BY <1>2, <1>4, EraseType DEF TypeOK, SessionType
  <2>3. SessionType'
    BY <1>2, <1>4, <2>2 DEF TypeOK, SessionType, Stop
  <2>. QED  BY <1>1, <1>3, <2>1, <2>3 DEF TypeOK
<1>5. CASE apiQ' = Append(apiQ, stop) /\ UNCHANGED <<timeS, distS, hub, spe, asked, due, stopped>>
  <2>1. stop \in ApiMessage
    BY <1>2, NoOptionsType, SessionIsMessage, CallType DEF ApiOp, SessionKind, Reply
  <2>2. apiQ' \in Seq(ApiMessage)
    BY <1>5, <2>1, PostMessage DEF TypeOK, RequestType
  <2>. QED  BY <1>1, <1>3, <1>5, <2>2 DEF TypeOK, RequestType, SessionType, Stop, Sessions
<1>6. CASE Report(id) /\ stopped' = stopped \cup {id} /\ UNCHANGED <<timeS, distS, engineCall>>
  <2>1. due' \in [Id -> Int]
    BY <1>2, <1>6, ReportType DEF TypeOK, RequestType
  <2>. QED  BY <1>1, <1>2, <1>3, <1>6, <2>1
            DEF TypeOK, RequestType, SessionType, Stop, Sessions, engineCall
<1>. QED  BY <1>4, <1>5, <1>6 DEF Stop

LEMMA EngineUpType == TypeOK /\ (EngineUp \/ Reconfig) => TypeOK'
<1>. SUFFICES ASSUME TypeOK, EngineUp \/ Reconfig PROVE TypeOK'
  OBVIOUS
<1>. DEFINE halt == Call("stopTime", NoOptions, NoReply)
<1>1. ClientType' /\ EngineType' /\ adapterQ' \in Seq(Message)
  BY TakeType DEF EngineUp, Reconfig
<1>2. halt \in ApiMessage
  BY NoOptionsType, CallType DEF ApiOp
<1>3. PICK before \in {<<>>, <<halt>>} : RestartTime(nhz, before)
  BY DEF EngineUp, Reconfig
<1>4. before \in Seq(ApiMessage)
  <2>1. <<halt>> \in Seq(ApiMessage)
    BY <1>2
  <2>. QED  BY <2>1, NoMoreType, Zenon
<1>5. apiQ' \in Seq(ApiMessage) /\ spe' \in BOOLEAN /\ asked' \in Asked
  BY <1>3, <1>4, RestartTimeType DEF TypeOK, AdapterType, SessionType, RequestType, Asked
<1>6. hub' \in BOOLEAN
  <2>1. hub' = (hub \/ DOMAIN timeS # {})
    BY DEF EngineUp, Reconfig
  <2>. QED  BY <2>1, Zenon
<1>7. RequestType'
  BY <1>5, <1>6 DEF EngineUp, Reconfig, TypeOK, RequestType, Asked
<1>8. AdapterType'
  <2>1. \E what \in {"restart", "engineUp"} : loop' = Doing(what, DOMAIN distS, Nobody)
    BY DEF EngineUp, Reconfig, RestartDistance
  <2>2. DOMAIN distS \in SUBSET Id
    BY DEF TypeOK, SessionType, Sessions
  <2>3. loop' \in LoopRange
    BY <2>1, <2>2 DEF Doing, LoopRange
  <2>4. caps' \in BOOLEAN /\ nhz' \in BOOLEAN /\ pending' \in Seq(Message)
    BY DEF EngineUp, Reconfig, TypeOK, AdapterType
  <2>. QED  BY <1>1, <2>3, <2>4 DEF AdapterType, LoopRange
<1>9. SessionType'
  BY DEF EngineUp, Reconfig, sessionVars, TypeOK, SessionType, Sessions
<1>. QED  BY <1>1, <1>7, <1>8, <1>9 DEF TypeOK

LEMMA SetNHzType == TypeOK /\ SetNHz => TypeOK'
<1>. SUFFICES ASSUME TypeOK, SetNHz PROVE TypeOK'
  OBVIOUS
<1>1. nhz' \in BOOLEAN
  <2>1. nhz' = ~nhz
    BY DEF SetNHz
  <2>. QED  BY <2>1, Zenon
<1>2. apiQ' \in Seq(ApiMessage) /\ spe' \in BOOLEAN /\ asked' \in Asked
  BY <1>1, NoMoreType, RestartTimeType DEF SetNHz, TypeOK, SessionType, RequestType, Asked
<1>3. ClientType' /\ EngineType' /\ SessionType'
  BY DEF SetNHz, TypeOK, ClientType, EngineType, SessionType, sessionVars, Sessions
<1>4. AdapterType'
  BY <1>1 DEF SetNHz, RestartDistance, Doing, TypeOK, AdapterType, SessionType, Sessions
<1>5. RequestType'
  BY <1>2 DEF SetNHz, TypeOK, RequestType, Asked
<1>. QED  BY <1>3, <1>4, <1>5 DEF TypeOK

LEMMA LoopType ==
  TypeInv /\ (RemoveTimeSession \/ RemoveDistanceSession \/ RestartDistanceSession) => TypeOK'
<1>. SUFFICES ASSUME TypeOK, RestartsSessions,
                     RemoveTimeSession \/ RemoveDistanceSession \/ RestartDistanceSession
              PROVE TypeOK'
  BY DEF TypeInv
<1>1. ClientType' /\ EngineType'
  BY DEF RemoveTimeSession, RemoveDistanceSession, RestartDistanceSession, clientVars,
         TypeOK, ClientType, EngineType
<1>2. ASSUME NEW id \in loop.left PROVE id \in Id
  BY <1>2 DEF TypeOK, AdapterType
<1>3. AdapterType'
  <2>1. adapterQ' \in Seq(Message) /\ pending' \in Seq(Message)
    <3>1. adapterQ \o pending \in Seq(Message)
      BY PostMessages DEF TypeOK, AdapterType
    <3>2. \/ UNCHANGED <<adapterQ, pending>>
          \/ adapterQ' = adapterQ \o pending /\ pending' = <<>>
      BY DEF RemoveTimeSession, RemoveDistanceSession, RestartDistanceSession
    <3>3. CASE UNCHANGED <<adapterQ, pending>>
      BY <3>3 DEF TypeOK, AdapterType
    <3>4. CASE adapterQ' = adapterQ \o pending /\ pending' = <<>>
      <4>1. <<>> \in Seq(Message)
        OBVIOUS
      <4>. QED  BY <3>1, <3>4, <4>1
    <3>. QED  BY <3>2, <3>3, <3>4
  <2>2. \/ loop' = [loop EXCEPT !.left = loop'.left] /\ loop'.left \subseteq loop.left
        \/ loop' = Idle
        \/ loop' = Doing("removeDist", SessionsOf(loop.who, distS), loop.who)
    <3>1. \/ \E id \in loop.left : Turn(id)
          \/ loop' = Idle
          \/ loop' = Doing("removeDist", SessionsOf(loop.who, distS), loop.who)
      BY DEF RemoveTimeSession, RemoveDistanceSession, RestartDistanceSession
    <3>2. ASSUME NEW id \in loop.left, Turn(id)
          PROVE  loop' = [loop EXCEPT !.left = loop'.left] /\ loop'.left \subseteq loop.left
      BY <3>2 DEF Turn, TypeOK, AdapterType
    <3>. QED  BY <3>1, <3>2
  <2>3. SessionsOf(loop.who, distS) \in SUBSET Id
    BY DEF SessionsOf, TypeOK, SessionType, Sessions
  <2>4. loop \in LoopRange
    BY DEF TypeOK, AdapterType, LoopRange
  <2>5. loop' \in LoopRange
    <3>1. CASE loop' = [loop EXCEPT !.left = loop'.left] /\ loop'.left \subseteq loop.left
      BY <2>4, <3>1 DEF LoopRange
    <3>2. CASE loop' = Idle
      BY <3>2 DEF LoopRange, Idle
    <3>3. CASE loop' = Doing("removeDist", SessionsOf(loop.who, distS), loop.who)
      BY <2>3, <2>4, <3>3 DEF LoopRange, Doing
    <3>. QED  BY <2>2, <3>1, <3>2, <3>3
  <2>. QED  BY <2>1, <2>5 DEF TypeOK, AdapterType, LoopRange, RemoveTimeSession,
                              RemoveDistanceSession, RestartDistanceSession
<1>4. CASE RemoveTimeSession
  <2>1. CASE \E id \in loop.left : StopMultiplex(id, FALSE, <<>>) /\ Erase(id)
    <3>1. RequestType'
      BY <1>2, <2>1, NoMoreType, StopMultiplexType DEF TypeOK, AdapterType, SessionType
    <3>2. SessionType'
      BY <1>2, <1>4, <2>1, EraseType DEF RemoveTimeSession, TypeOK, SessionType
    <3>. QED  BY <1>1, <1>3, <3>1, <3>2 DEF TypeOK
  <2>2. CASE UNCHANGED <<timeS, distS, due, engineCall>>
    BY <1>1, <1>3, <1>4, <2>2 DEF RemoveTimeSession, TypeOK, SessionType, RequestType, Sessions,
                                  engineCall
  <2>. QED  BY <1>4, <2>1, <2>2 DEF RemoveTimeSession
<1>5. CASE RemoveDistanceSession
  <2>1. SessionType'
    BY <1>5 DEF RemoveDistanceSession, TypeOK, SessionType, Sessions
  <2>2. apiQ' \in Seq(ApiMessage)
    <3>1. ASSUME NEW id \in loop.left
          PROVE  Append(apiQ, Call("stopDist", NoOptions, Session("removedDist", id, NoOptions)))
                   \in Seq(ApiMessage)
      BY <1>2, NoOptionsType, SessionIsMessage, CallType, PostMessage
         DEF ApiOp, SessionKind, Reply, TypeOK, RequestType
    <3>. QED  BY <1>5, <3>1 DEF RemoveDistanceSession, TypeOK, RequestType
  <2>. QED  BY <1>1, <1>3, <1>5, <2>1, <2>2 DEF RemoveDistanceSession, TypeOK, RequestType
<1>6. CASE RestartDistanceSession
  <2>1. SessionType'
    BY <1>6 DEF RestartDistanceSession, TypeOK, SessionType, Sessions, sessionVars
  <2>2. apiQ' \in Seq(ApiMessage)
    <3>1. CASE UNCHANGED apiQ
      BY <3>1 DEF TypeOK, RequestType
    <3>2. ASSUME NEW id \in loop.left,
                 apiQ' = Append(apiQ, Call("startDist", distS[id], NoReply))
          PROVE  apiQ' \in Seq(ApiMessage)
      <4>1. distS[id] \in Options
        BY <1>6 DEF RestartDistanceSession, RestartsSessions, TypeOK, SessionType, Sessions
      <4>2. Call("startDist", distS[id], NoReply) \in ApiMessage
        BY <4>1, CallType DEF ApiOp
      <4>. QED  BY <3>2, <4>2, PostMessage DEF TypeOK, RequestType
    <3>. QED  BY <1>6, <3>1, <3>2 DEF RestartDistanceSession
  <2>. QED  BY <1>1, <1>3, <1>6, <2>1, <2>2 DEF RestartDistanceSession, TypeOK, RequestType
<1>. QED  BY <1>4, <1>5, <1>6

LEMMA ReplyType ==
  TypeOK /\ (Started \/ Updated \/ Stopped \/ Switched \/ Restarted) => TypeOK'
<1>. SUFFICES ASSUME TypeOK, Started \/ Updated \/ Stopped \/ Switched \/ Restarted
              PROVE TypeOK'
  OBVIOUS
<1>. DEFINE id == Head1.id
            o == Head1.opts
            again == Call("startDist", o, Session("restarted", id, o))
<1>1. PICK kind \in Reply : Finish(kind)
  BY DEF Started, Updated, Stopped, Switched, Restarted, Reply
<1>2. ClientType' /\ EngineType' /\ AdapterType'
  BY <1>1, TakeType DEF Finish, TypeOK, AdapterType
<1>3. id \in Id /\ o \in Options
  BY <1>1, SessionHead DEF Finish, SessionKind
<1>4. Sessions(timeS)' /\ Sessions(distS)'
  <2>1. \/ UNCHANGED <<timeS, distS>> \/ Erase(id) \/ Save(id, o)
    BY DEF Started, Updated, Stopped, Switched, Restarted
  <2>2. CASE UNCHANGED <<timeS, distS>>
    BY <2>2 DEF TypeOK, SessionType, Sessions
  <2>. QED  BY <1>3, <2>1, <2>2, SaveType, EraseType DEF TypeOK, SessionType
<1>5. SessionType'
  BY <1>1, <1>3, <1>4 DEF Finish, Started, Updated, Stopped, Switched, Restarted, TypeOK,
                          SessionType
<1>6. CASE StartMultiplex(id, o)
  <2>1. RequestType'
    BY <1>3, <1>6, StartMultiplexType DEF TypeOK, AdapterType, SessionType
  <2>. QED  BY <1>2, <1>5, <2>1 DEF TypeOK
<1>7. CASE (Report(id) \/ UNCHANGED due) /\ UNCHANGED engineCall
  <2>1. due' \in [Id -> Int]
    BY <1>3, <1>7, ReportType DEF TypeOK, RequestType
  <2>. QED  BY <1>2, <1>5, <1>7, <2>1 DEF TypeOK, RequestType, engineCall
<1>8. CASE Finish("restart") /\ Restarted
  <2>1. again \in ApiMessage
    BY <1>3, SessionIsMessage, CallType DEF ApiOp, SessionKind, Reply
  <2>2. UNCHANGED <<hub, spe, asked, due>> /\ (apiQ' = Append(apiQ, again) \/ apiQ' = apiQ)
    BY <1>8, TakeType DEF Restarted, Finish
  <2>3. apiQ' \in Seq(ApiMessage)
    BY <2>1, <2>2, PostMessage DEF TypeOK, RequestType
  <2>. QED  BY <1>2, <1>5, <2>2, <2>3 DEF TypeOK, RequestType
<1>. QED  BY <1>6, <1>7, <1>8 DEF Started, Updated, Stopped, Switched, Restarted, engineCall

LEMMA EngineStepType == TypeOK /\ (ApiStep \/ Crash) => TypeOK'
<1>. SUFFICES ASSUME TypeOK, ApiStep \/ Crash PROVE TypeOK'
  OBVIOUS
<1>. DEFINE m == Head(apiQ)
            ssr == Call("ssr", NoOptions, NoReply)
<1>1. SessionType'
  BY DEF ApiStep, Crash, sessionVars, TypeOK, SessionType, Sessions
<1>2. CASE ApiStep
  <2>1. m \in ApiMessage /\ Tail(apiQ) \in Seq(ApiMessage)
    BY <1>2, TakeHead DEF ApiStep, TypeOK, RequestType
  <2>2. PICK ok \in BOOLEAN :
           /\ engine' = IF ok THEN Apply(m.op, m.opts) ELSE engine
           /\ \/ adapterQ' = adapterQ
              \/ adapterQ' = Append(adapterQ, About("EngineUp", Nobody))
              \/ /\ m.reply # NoReply
                 /\ adapterQ' = Append(adapterQ, [m.reply EXCEPT !.ok = ok])
    BY <1>2 DEF ApiStep, ApiOutcome
  <2>3. engine' \in [up : BOOLEAN, on : BOOLEAN, interval : Nat]
    BY <2>1, <2>2 DEF Apply, ApiMessage, Options, TypeOK, EngineType
  <2>4. About("EngineUp", Nobody) \in Message
    BY DEF About, Message, EngineMessage
  <2>5. m.reply # NoReply => [m.reply EXCEPT !.ok = ok] \in Message
    BY <2>1 DEF ApiMessage, SessionMessage, Message
  <2>6. adapterQ' \in Seq(Message)
    <3>1. Append(adapterQ, About("EngineUp", Nobody)) \in Seq(Message)
      BY <2>4, PostType DEF TypeOK
    <3>2. m.reply # NoReply => Append(adapterQ, [m.reply EXCEPT !.ok = ok]) \in Seq(Message)
      BY <2>5, PostType DEF TypeOK
    <3>. QED  BY <2>2, <3>1, <3>2 DEF TypeOK, AdapterType
  <2>7. ClientType' /\ AdapterType'
    BY <1>2, <2>6 DEF ApiStep, clientVars, TypeOK, ClientType, AdapterType
  <2>8. RequestType' /\ EngineType'
    BY <1>2, <2>1, <2>3 DEF ApiStep, TypeOK, RequestType, EngineType
  <2>. QED  BY <1>1, <2>7, <2>8 DEF TypeOK
<1>3. CASE Crash
  <2>1. Append(apiQ, ssr) \in Seq(ApiMessage)
    BY NoOptionsType, CallType, PostMessage DEF ApiOp, TypeOK, RequestType
  <2>2. ClientType'
    <3>1. budget.crashes \in Nat /\ budget.crashes - 1 \in Nat
      BY <1>3 DEF Crash, TypeOK, ClientType
    <3>. QED  BY <1>3, <3>1 DEF Crash, TypeOK, ClientType
  <2>3. AdapterType' /\ RequestType'
    BY <1>3, <2>1 DEF Crash, TypeOK, AdapterType, RequestType
  <2>4. EngineType'
    BY <1>3 DEF Crash, TypeOK, EngineType
  <2>. QED  BY <1>1, <2>2, <2>3, <2>4 DEF TypeOK
<1>. QED  BY <1>2, <1>3

LEMMA MessageStepType == TypeOK /\ (AddClient \/ Remove) => TypeOK'
<1>. SUFFICES ASSUME TypeOK, AddClient \/ Remove PROVE TypeOK'
  OBVIOUS
<1>1. /\ ClientType' /\ EngineType' /\ adapterQ' \in Seq(Message)
      /\ Head1.kind \in {"Add", "Remove"} /\ adapterQ # <<>>
  BY TakeType DEF AddClient, Remove
<1>2. Head1.who \in Client
  BY <1>1, HeadType DEF TypeOK
<1>3. RequestType'
  BY DEF AddClient, Remove, engineCall, TypeOK, RequestType
<1>4. SessionType'
  BY <1>2 DEF AddClient, Remove, sessionVars, TypeOK, SessionType, Sessions
<1>5. loop' \in LoopRange
  <2>1. SessionsOf(Head1.who, timeS) \in SUBSET Id
    BY DEF SessionsOf, TypeOK, SessionType, Sessions
  <2>2. loop \in LoopRange
    BY DEF TypeOK, AdapterType, LoopRange
  <2>. QED  BY <1>2, <2>1, <2>2 DEF AddClient, Remove, Doing, LoopRange
<1>6. AdapterType'
  BY <1>1, <1>5 DEF AddClient, Remove, TypeOK, AdapterType, LoopRange
<1>. QED  BY <1>1, <1>3, <1>4, <1>6 DEF TypeOK

LEMMA RestartsStep == TypeInv /\ [Next]_vars => RestartsSessions'
<1>. SUFFICES ASSUME TypeInv, [Next]_vars PROVE RestartsSessions'
  OBVIOUS
<1>1. CASE UNCHANGED <<loop, distS>>
  BY <1>1 DEF TypeInv, RestartsSessions
<1>2. CASE loop' = Idle \/ \E who, S : loop' = Doing("remove", S, who) \/ loop' = Doing("removeDist", S, who)
  BY <1>2 DEF RestartsSessions, Idle, Doing
<1>3. CASE \E what : RestartDistance(what) /\ UNCHANGED distS
  BY <1>3 DEF RestartsSessions, RestartDistance, Doing
<1>4. CASE loop = Idle /\ UNCHANGED loop
  BY <1>4 DEF RestartsSessions, Idle
<1>5. CASE \E id : Turn(id) /\ (loop.what \in {"remove", "removeDist"} \/ UNCHANGED distS)
  BY <1>5 DEF TypeInv, TypeOK, AdapterType, RestartsSessions, Turn
<1>6. ClientThread \/ ApiStep \/ Crash => UNCHANGED <<loop, distS>>
  BY DEF ClientThread, Create, Destroy, StartTracking, UpdateTracking, StopTracking,
         UpdateConfig, Post, ApiStep, Crash, sessionVars
<1>7. AddClient \/ Started \/ Updated \/ Stopped \/ Switched \/ Restarted
        => loop = Idle /\ UNCHANGED loop
  BY DEF AddClient, Started, Updated, Stopped, Switched, Restarted, Finish, Take
<1>8. Start \/ Update \/ Stop => loop = Idle /\ UNCHANGED loop
  BY DEF Start, Update, Stop, Take, Wait
<1>9. EngineUp \/ Reconfig \/ SetNHz => \E what : RestartDistance(what) /\ UNCHANGED distS
  BY DEF EngineUp, Reconfig, SetNHz, sessionVars
<1>. QED  BY <1>1, <1>2, <1>3, <1>4, <1>5, <1>6, <1>7, <1>8, <1>9
          DEF Next, AdapterThread, Remove, RemoveTimeSession, RemoveDistanceSession,
              RestartDistanceSession, sessionVars, vars

LEMMA TypeInvInit == Init => TypeInv
BY InitType DEF Init, TypeInv, RestartsSessions, Idle

LEMMA TypeInvStep == TypeInv /\ [Next]_vars => TypeInv'
<1>. SUFFICES ASSUME TypeInv, [Next]_vars PROVE TypeOK'
  BY RestartsStep DEF TypeInv
<1>1. CASE ClientThread
  BY <1>1, ClientThreadType DEF TypeInv
<1>2. CASE AddClient \/ Remove
  BY <1>2, MessageStepType DEF TypeInv
<1>3. CASE Start
  BY <1>3, StartType DEF TypeInv
<1>4. CASE Update
  BY <1>4, UpdateType DEF TypeInv
<1>5. CASE Stop
  BY <1>5, StopType DEF TypeInv
<1>6. CASE EngineUp \/ Reconfig
  BY <1>6, EngineUpType DEF TypeInv
<1>7. CASE RemoveTimeSession \/ RemoveDistanceSession \/ RestartDistanceSession
  BY <1>7, LoopType
<1>8. CASE Started \/ Updated \/ Stopped \/ Switched \/ Restarted
  BY <1>8, ReplyType DEF TypeInv
<1>9. CASE SetNHz
  BY <1>9, SetNHzType DEF TypeInv
<1>10. CASE ApiStep \/ Crash
  BY <1>10, EngineStepType DEF TypeInv
<1>11. CASE UNCHANGED vars
  BY <1>11 DEF vars, TypeInv, TypeOK, ClientType, AdapterType, SessionType, RequestType,
               EngineType, Sessions
<1>. QED  BY <1>1, <1>2, <1>3, <1>4, <1>5, <1>6, <1>7, <1>8, <1>9, <1>10, <1>11
          DEF Next, AdapterThread

\* Every message the threads send each other names a session, a client or
\* neither as its handler expects, and the session maps stay maps from ids to
\* options, for any clients, options and bounds.
THEOREM TypeCorrect == Spec => []TypeOK
<1>1. TypeInv => TypeOK
  BY DEF TypeInv
<1>. QED  BY <1>1, TypeInvInit, TypeInvStep, PTL DEF Spec

(***************************************************************************)
(* The control session: what the modem is told last                        *)
(*                                                                         *)
(* A client's commands, the adapter's messages and the calls of the modem  *)
(* are three queues one behind the other.  The invariant says of every     *)
(* setting that the last message that sets it, or the setting in force     *)
(* when none waits, is the one the queue in front of it calls for: what    *)
(* the last command asked, the adapter will hold; what the adapter holds,  *)
(* the modem will.                                                         *)
(***************************************************************************)

ControlSpec == ControlInit /\ [][ControlNext]_controlVars

\* What is given or not, in a set of at most one
Opt(S) == {{}} \cup {{x} : x \in S}

\* The messages of the adapter and the calls of the modem
ConfigMsg == [what : {"config"}, lock : Opt(Locks), ids : Opt(SUBSET Constellation)]
WaitingMsg == ConfigMsg \cup [what : {"svType"}, type : SvType] \cup [what : {"svReset"}]
ControlMsg ==
  WaitingMsg \cup [what : {"enable", "disable"}, id : 1 .. MaxControl]
    \cup [what : {"nfw"}, allowed : BOOLEAN] \cup [what : {"engineUp"}]
Blacklists == [Constellation -> {"none", "some", "all"}]
ModemCall ==
  [call : {"lock"}, lock : Locks]
    \cup [call : {"config"}, lock : Opt(Locks), ids : Opt(SUBSET Constellation)]
    \cup [call : {"black"}, black : Blacklists]
    \cup [call : {"enable"}, types : SUBSET Constellation]
    \cup [call : {"reset"}]

\* The types, by the thread that owns the state
ClientTypes ==
  /\ framework \in {"P", "Q"} /\ mEnabled \in BOOLEAN /\ nfwAllowed \in BOOLEAN
  /\ controlCommands \in 0 .. MaxControl /\ controlSession \in 0 .. controlCommands
  /\ askedLocks \subseteq Locks
AdapterTypes ==
  /\ mSupportNfwControl \in BOOLEAN /\ mAfwControlId \in 0 .. MaxControl
  /\ GPS_LOCK \in Locks /\ mGnssSvTypeConfig \in SvType
  /\ controlKnown \in BOOLEAN
  /\ controlKnown => controlPending = <<>>
EngineTypes ==
  /\ svTypeLast \in BOOLEAN /\ mBlacklistedSvIds \subseteq Constellation
  /\ modem \in [up : BOOLEAN, crashes : 0 .. MaxControlCrashes, lock : Locks,
                enabled : SUBSET Constellation, black : Blacklists]
QueueTypes ==
  /\ controlMsgs \in Seq(ControlMsg) /\ controlPending \in Seq(WaitingMsg)
  /\ controlCalls \in Seq(ModemCall)
ControlTypes == ClientTypes /\ AdapterTypes /\ EngineTypes /\ QueueTypes

\* The messages that set the user's switch, the framework's permission, the lock;
\* the locks nobody asked for
SwitchMsg == {m \in ControlMsg : m.what \in {"enable", "disable"}}
EnableMsg == {m \in ControlMsg : m.what = "enable"}
NfwMsg == {m \in ControlMsg : m.what = "nfw"}
AllowMsg == {m \in ControlMsg : m.what = "nfw" /\ m.allowed}
EngineUpMsg == {m \in ControlMsg : m.what = "engineUp"}
LockMsg == {m \in ConfigMsg : m.lock # {}}
Unasked(locks) == {m \in LockMsg : ~(m.lock \subseteq locks)}

\* The framework of Android Q controls the lock by permissions, that of P by
\* configurations: once one has named a lock, a configuration waits or came.
Versions ==
  /\ framework = "Q" => mSupportNfwControl /\ askedLocks = {}
  /\ framework = "P" => ~nfwAllowed /\ NoneOf(controlMsgs, NfwMsg)
  /\ NoneOf(controlMsgs, Unasked(askedLocks))
  /\ NoneOf(controlPending, Unasked(askedLocks))
  /\ mSupportNfwControl /\ askedLocks # {} =>
       ~NoneOf(controlMsgs, LockMsg) \/ ~NoneOf(controlPending, LockMsg)
\* The last enable or disable on the way is the user's.
Enabling ==
  /\ mEnabled => controlSession > 0
  /\ Outcome(controlMsgs, SwitchMsg, EnableMsg, mAfwControlId # 0) <=> mEnabled
\* The last permission on the way is the framework's.
Allowing ==
  mSupportNfwControl =>
    (Outcome(controlMsgs, NfwMsg, AllowMsg, "NI" \notin GPS_LOCK) <=> nfwAllowed)
\* The adapter's own lock agrees with its session.
OwnLock ==
  /\ mSupportNfwControl => ("MO" \in GPS_LOCK <=> mAfwControlId = 0)
  /\ ~mSupportNfwControl => \E l \in askedLocks : GPS_LOCK = l \cup {"MO"}

\* No restart of the modem still waits to be handled.
UpToDate == modem.up /\ NoneOf(controlMsgs, EngineUpMsg)

\* The last call that sets the lock sets the one the adapter would send now.
LockCalls == {c \in ModemCall : c.call = "lock" \/ (c.call = "config" /\ c.lock # {})}
Locking(l) ==
  {c \in ModemCall : \/ c.call = "lock" /\ c.lock = l
                     \/ c.call = "config" /\ c.lock = {l}}
LockSent ==
  UpToDate =>
    Outcome(controlCalls, LockCalls, Locking(LockOnRestart), modem.lock = LockOnRestart)

\* The same of every constellation; what the modem has enabled that it should not
\* can never be, for nothing is disabled but by a reset.
EnableCallsOf(c) == {m \in ModemCall : m.call = "enable" /\ c \in m.types}
Switching(c) == EnableCallsOf(c) \cup {m \in ModemCall : m.call = "reset"}
EnabledSent ==
  \A c \in Constellation :
    /\ Outcome(controlCalls, Switching(c), EnableCallsOf(c), c \in modem.enabled)
         => c \in mGnssSvTypeConfig.enabled
    /\ UpToDate /\ c \in mGnssSvTypeConfig.enabled =>
         Outcome(controlCalls, Switching(c), EnableCallsOf(c), c \in modem.enabled)
    /\ ~modem.up => c \notin modem.enabled

\* The same of the constellations that are blacklisted as a whole.
AllBlack(black) == {c \in Constellation : black[c] = "all"}
BlackCalls == {c \in ModemCall : c.call = "black" \/ (c.call = "config" /\ c.ids # {})}
Blacking(types) ==
  {c \in ModemCall : c.call = "black" => AllBlack(c.black) = types}
BlackSent ==
  Outcome(controlCalls, BlackCalls, Blacking(mGnssSvTypeConfig.black),
          UpToDate /\ svTypeLast => AllBlack(modem.black) = mGnssSvTypeConfig.black)

ControlInv == ControlTypes /\ Versions /\ Enabling /\ Allowing /\ OwnLock
               /\ LockSent /\ EnabledSent /\ BlackSent

\* At the start nothing is queued and the adapter and the modem agree.
LEMMA InitControl == ControlInit => ControlInv
<1> SUFFICES ASSUME ControlInit PROVE ControlInv
  OBVIOUS
<1>1. <<>> \in Seq(ControlMsg) /\ <<>> \in Seq(WaitingMsg) /\ <<>> \in Seq(ModemCall)
  OBVIOUS
<1>2. Blacklist({}, {}) \in Blacklists /\ AllBlack(Blacklist({}, {})) = {}
  BY DEF Blacklist, Blacklists, AllBlack
<1>3. NoSvType \in SvType
  BY DEF NoSvType, SvType
<1>4. ControlTypes
  <2>1. ClientTypes
    <3>1. 0 \in 0 .. MaxControl /\ 0 \in 0 .. 0
      BY ControlAssumption
    <3>2. framework \in {"P", "Q"} /\ mEnabled \in BOOLEAN /\ nfwAllowed \in BOOLEAN
            /\ askedLocks \subseteq Locks
      BY DEF ControlInit
    <3> QED  BY <3>1, <3>2 DEF ControlInit, ClientTypes
  <2>2. AdapterTypes
    <3>1. 0 \in 0 .. MaxControl /\ Lock \in Locks
      BY ControlAssumption DEF Locks
    <3> QED  BY <1>3, <3>1 DEF ControlInit, AdapterTypes
  <2>3. EngineTypes
    BY <1>2, ControlAssumption DEF ControlInit, EngineTypes, Locks
  <2>4. QueueTypes
    BY <1>1 DEF ControlInit, QueueTypes
  <2> QED  BY <2>1, <2>2, <2>3, <2>4 DEF ControlTypes
<1>5. \A T : NoneOf(controlMsgs, T) /\ NoneOf(controlPending, T) /\ NoneOf(controlCalls, T)
  BY EmptyOutcome DEF ControlInit
<1>6. \A T, P : ~LastIs(controlMsgs, T, P) /\ ~LastIs(controlCalls, T, P)
  BY EmptyOutcome DEF ControlInit
<1>7. Versions
  BY <1>5 DEF ControlInit, Versions
<1>8. Enabling /\ Allowing /\ OwnLock
  BY <1>5, <1>6 DEF ControlInit, Enabling, Allowing, OwnLock, Outcome, Lock
<1>9. ~UpToDate
  BY DEF ControlInit, UpToDate
<1>10. LockSent /\ EnabledSent /\ BlackSent
  BY <1>5, <1>6, <1>9 DEF LockSent, EnabledSent, BlackSent, Outcome, ControlInit
<1> QED  BY <1>4, <1>7, <1>8, <1>10 DEF ControlInv

\* What the types make of a message and of a call
LEMMA ControlHead ==
  ASSUME ControlTypes, controlMsgs # <<>>
  PROVE  /\ Head(controlMsgs) \in ControlMsg
         /\ Tail(controlMsgs) \in Seq(ControlMsg)
         /\ Head(controlMsgs).what \in {"config", "svType", "svReset"}
              => Head(controlMsgs) \in WaitingMsg
         /\ Head(controlMsgs).what = "config" => Head(controlMsgs) \in ConfigMsg
         /\ Head(controlMsgs).what = "svType" => Head(controlMsgs).type \in SvType
         /\ Head(controlMsgs).what \in {"enable", "disable"}
              => Head(controlMsgs).id \in 1 .. MaxControl
         /\ Head(controlMsgs).what = "nfw" => Head(controlMsgs).allowed \in BOOLEAN
<1>1. Head(controlMsgs) \in ControlMsg /\ Tail(controlMsgs) \in Seq(ControlMsg)
  BY DEF ControlTypes, QueueTypes
<1> QED
  BY <1>1 DEF ControlMsg, WaitingMsg, ConfigMsg

\* The first call of the modem is one of its calls.
LEMMA CallHead ==
  ASSUME ControlTypes, controlCalls # <<>>
  PROVE  /\ Head(controlCalls) \in ModemCall
         /\ Tail(controlCalls) \in Seq(ModemCall)
         /\ Head(controlCalls).call = "lock" => Head(controlCalls).lock \in Locks
         /\ Head(controlCalls).call = "config" =>
              /\ Head(controlCalls).lock \in Opt(Locks)
              /\ Head(controlCalls).ids \in Opt(SUBSET Constellation)
         /\ Head(controlCalls).call = "black" => Head(controlCalls).black \in Blacklists
         /\ Head(controlCalls).call = "enable" =>
              Head(controlCalls).types \subseteq Constellation
<1>1. Head(controlCalls) \in ModemCall /\ Tail(controlCalls) \in Seq(ModemCall)
  BY DEF ControlTypes, QueueTypes
<1> QED
  BY <1>1 DEF ModemCall

\* A lock or a list that is given is the one that CHOOSE finds.
LEMMA GivenType ==
  ASSUME NEW S, NEW opt \in Opt(S), opt # {}
  PROVE  (CHOOSE x \in opt : TRUE) \in S /\ opt = {CHOOSE x \in opt : TRUE}
<1>1. PICK y \in S : opt = {y}
  BY DEF Opt
<1>2. \E x \in opt : TRUE
  BY <1>1
<1>3. (CHOOSE x \in opt : TRUE) \in opt
  BY <1>2
<1> QED  BY <1>1, <1>3

\* Whichever list of ids the racing threads leave, it is one of satellites.
LEMMA ReadSvIdsType ==
  ASSUME ControlTypes
  PROVE  ReadSvIds \subseteq SUBSET Constellation /\ ReadSvIds # {}
<1>1. controlCalls # <<>> /\ Head(controlCalls).call = "config"
        => Head(controlCalls).ids \subseteq SUBSET Constellation
  BY CallHead DEF Opt
<1> QED
  BY <1>1 DEF ReadSvIds, ControlTypes, EngineTypes

\* The constellations a blacklist names as a whole are the disabled ones.
LEMMA BlacklistType ==
  ASSUME NEW ids \in SUBSET Constellation, NEW types \in SUBSET Constellation
  PROVE  /\ Blacklist(ids, types) \in Blacklists
         /\ AllBlack(Blacklist(ids, types)) = types
         /\ BlackCall(ids, types) \in ModemCall
<1>1. Blacklist(ids, types) \in Blacklists
  BY DEF Blacklist, Blacklists
<1>2. AllBlack(Blacklist(ids, types)) = types
  BY DEF Blacklist, AllBlack
<1> QED
  BY <1>1, <1>2 DEF BlackCall, ModemCall

\* What the adapter sends after a restart is a lock.
LEMMA LockOnRestartType ==
  ASSUME ControlTypes
  PROVE  LockOnRestart \in Locks
BY DEF LockOnRestart, ControlTypes, AdapterTypes, Locks

-----------------------------------------------------------------------------
\* The engine's part of the invariant does not look at what only the framework
\* and the adapter's other messages change.
LEMMA SentUnchanged ==
  ASSUME LockSent, EnabledSent, BlackSent, UpToDate' => UpToDate,
         UNCHANGED <<controlCalls, modem, svTypeLast, mGnssSvTypeConfig>>,
         UpToDate' => LockOnRestart' = LockOnRestart
  PROVE  LockSent' /\ EnabledSent' /\ BlackSent'
<1>1. LockSent'
  BY DEF LockSent, Outcome, LastIs, NoneOf, LockCalls, Locking
<1>2. EnabledSent'
  BY DEF EnabledSent, Outcome, LastIs, NoneOf, EnableCallsOf, Switching
<1>3. BlackSent'
  BY DEF BlackSent, Outcome, LastIs, NoneOf, BlackCalls, Blacking, AllBlack
<1> QED  BY <1>1, <1>2, <1>3

\* What every call of the framework leaves, which posts m
CommandPosts(m) ==
  /\ AdapterTypes' /\ EngineTypes' /\ QueueTypes'
  /\ controlCommands' = controlCommands + 1 /\ controlCommands' \in 1 .. MaxControl
  /\ UNCHANGED <<framework, GPS_LOCK, mAfwControlId, mSupportNfwControl, controlPending>>
  /\ LockSent' /\ EnabledSent' /\ BlackSent'
  /\ \A T, P :
       /\ NoneOf(controlMsgs', T) <=> NoneOf(controlMsgs, T) /\ m \notin T
       /\ LastIs(controlMsgs', T, P)
            <=> (m \in T /\ m \in P) \/ (m \notin T /\ LastIs(controlMsgs, T, P))

\* A posted command, whatever it is, leaves the rest of the state as it was.
LEMMA CommandSends ==
  ASSUME ControlInv, NEW m \in ControlMsg, m.what # "engineUp", ControlCall(m)
  PROVE  CommandPosts(m)
<1>t. ClientTypes /\ AdapterTypes /\ EngineTypes /\ QueueTypes
  BY DEF ControlInv, ControlTypes
<1>u. UNCHANGED <<framework, controlAdapter, controlEngine, controlWait, controlCalls>>
        /\ controlMsgs' = Append(controlMsgs, m)
  BY DEF ControlCall
<1>1. AdapterTypes' /\ EngineTypes'
  BY <1>t, <1>u DEF AdapterTypes, EngineTypes, controlAdapter, controlEngine, controlWait
<1>2. QueueTypes'
  BY <1>t, <1>u, PostMessage DEF QueueTypes, controlWait
<1>3. controlCommands' = controlCommands + 1 /\ controlCommands' \in 1 .. MaxControl
  BY <1>t, ControlAssumption DEF ControlCall, ClientTypes
<1>4. \A T, P :
        /\ NoneOf(controlMsgs', T) <=> NoneOf(controlMsgs, T) /\ m \notin T
        /\ LastIs(controlMsgs', T, P)
             <=> (m \in T /\ m \in P) \/ (m \notin T /\ LastIs(controlMsgs, T, P))
  BY <1>t, <1>u, OutcomePost DEF QueueTypes
<1>5. UpToDate' => UpToDate
  BY <1>4, <1>u DEF UpToDate, controlEngine
<1>6. LockOnRestart' = LockOnRestart
  BY <1>u DEF LockOnRestart, controlAdapter
<1>7. LockSent' /\ EnabledSent' /\ BlackSent'
  BY <1>u, <1>5, <1>6, SentUnchanged DEF ControlInv, controlAdapter, controlEngine
<1> QED
  BY <1>u, <1>1, <1>2, <1>3, <1>4, <1>7 DEF CommandPosts, controlAdapter, controlWait

\* LocationControlAPI enable.
LEMMA EnableSent == ControlInv /\ LocAPIEnable => ControlInv'
<1> SUFFICES ASSUME ControlInv, LocAPIEnable PROVE ControlInv'
  OBVIOUS
<1> DEFINE m == [what |-> "enable", id |-> controlCommands + 1]
<1>t. ClientTypes
  BY DEF ControlInv, ControlTypes
<1>0. /\ ~mEnabled /\ mEnabled' = TRUE /\ controlSession' = controlCommands + 1
      /\ ControlCall(m) /\ UNCHANGED <<mConfig, nfwAllowed, askedLocks>>
  BY DEF LocAPIEnable
<1>1. m \in ControlMsg /\ m.what = "enable"
  BY <1>0, <1>t, ControlAssumption DEF ControlCall, ControlMsg, ClientTypes
<1>2. m \in SwitchMsg /\ m \in EnableMsg /\ m \notin NfwMsg
      /\ \A a : m \notin Unasked(a)
  BY <1>1 DEF SwitchMsg, EnableMsg, NfwMsg, Unasked, LockMsg, ConfigMsg
<1>3. m \notin LockMsg
  BY <1>1 DEF LockMsg, ConfigMsg
<1> HIDE DEF m
<1>4. CommandPosts(m)
  BY <1>0, <1>1, CommandSends
<1>5. ClientTypes'
  BY <1>0, <1>4, <1>t DEF ClientTypes, CommandPosts
<1>6. Versions'
  BY <1>0, <1>2, <1>3, <1>4 DEF ControlInv, Versions, CommandPosts
<1>7. Enabling'
  BY <1>0, <1>2, <1>4, <1>t DEF ControlInv, Enabling, Outcome, ClientTypes, CommandPosts
<1>8. Allowing' /\ OwnLock'
  BY <1>0, <1>2, <1>4 DEF ControlInv, Allowing, OwnLock, Outcome, CommandPosts
<1> QED
  BY <1>4, <1>5, <1>6, <1>7, <1>8 DEF ControlInv, ControlTypes, CommandPosts

\* LocationControlAPI disable.
LEMMA DisableSent == ControlInv /\ LocAPIDisable => ControlInv'
<1> SUFFICES ASSUME ControlInv, LocAPIDisable PROVE ControlInv'
  OBVIOUS
<1> DEFINE m == [what |-> "disable", id |-> controlSession]
<1>t. ClientTypes
  BY DEF ControlInv, ControlTypes
<1>0. /\ mEnabled /\ mEnabled' = FALSE /\ controlSession > 0
      /\ ControlCall(m) /\ UNCHANGED <<controlSession, mConfig, nfwAllowed, askedLocks>>
  BY DEF LocAPIDisable
<1>1. m \in ControlMsg /\ m.what = "disable"
  BY <1>0, <1>t, ControlAssumption DEF ControlCall, ControlMsg, ClientTypes
<1>2. m \in SwitchMsg /\ m \notin EnableMsg /\ m \notin NfwMsg
      /\ \A a : m \notin Unasked(a)
  BY <1>1 DEF SwitchMsg, EnableMsg, NfwMsg, Unasked, LockMsg, ConfigMsg
<1>3. m \notin LockMsg
  BY <1>1 DEF LockMsg, ConfigMsg
<1> HIDE DEF m
<1>4. CommandPosts(m)
  BY <1>0, <1>1, CommandSends
<1>5. ClientTypes'
  <2>1. mEnabled' \in BOOLEAN /\ nfwAllowed' \in BOOLEAN /\ framework' \in {"P", "Q"}
          /\ askedLocks' \subseteq Locks
    BY <1>0, <1>4, <1>t DEF ClientTypes, CommandPosts
  <2>2. controlCommands' \in 0 .. MaxControl /\ controlSession' \in 0 .. controlCommands'
    BY <1>0, <1>4, <1>t DEF ClientTypes, CommandPosts
  <2> QED  BY <2>1, <2>2 DEF ClientTypes
<1>6. Versions'
  BY <1>0, <1>2, <1>3, <1>4 DEF ControlInv, Versions, CommandPosts
<1>7. Enabling'
  BY <1>0, <1>2, <1>4, <1>t DEF ControlInv, Enabling, Outcome, ClientTypes, CommandPosts
<1>8. Allowing' /\ OwnLock'
  BY <1>0, <1>2, <1>4 DEF ControlInv, Allowing, OwnLock, Outcome, CommandPosts
<1> QED
  BY <1>4, <1>5, <1>6, <1>7, <1>8 DEF ControlInv, ControlTypes, CommandPosts

\* The framework grants or revokes non framework access.
LEMMA NfwSent ==
  ASSUME ControlInv, NEW b \in BOOLEAN, NfwControlCommand(b)
  PROVE  ControlInv'
<1> DEFINE m == [what |-> "nfw", allowed |-> b]
<1>t. ClientTypes
  BY DEF ControlInv, ControlTypes
<1>0. /\ framework = "Q" /\ mSupportNfwControl /\ nfwAllowed' = b
      /\ ControlCall(m) /\ UNCHANGED <<mEnabled, controlSession, mConfig, askedLocks>>
  BY DEF NfwControlCommand
<1>1. m \in ControlMsg /\ m.what = "nfw" /\ m.allowed = b
  BY DEF ControlMsg
<1>2. m \notin SwitchMsg /\ m \in NfwMsg /\ (m \in AllowMsg <=> b)
      /\ \A a : m \notin Unasked(a)
  BY <1>1 DEF SwitchMsg, NfwMsg, AllowMsg, Unasked, LockMsg, ConfigMsg
<1>3. m \notin LockMsg
  BY <1>1 DEF LockMsg, ConfigMsg
<1> HIDE DEF m
<1>4. CommandPosts(m)
  BY <1>0, <1>1, CommandSends
<1>5. ClientTypes'
  <2>1. nfwAllowed' \in BOOLEAN
    BY <1>0, Zenon
  <2>2. mEnabled' \in BOOLEAN /\ framework' \in {"P", "Q"} /\ askedLocks' \subseteq Locks
    BY <1>0, <1>4, <1>t DEF ClientTypes, CommandPosts
  <2>3. controlCommands' \in 0 .. MaxControl /\ controlSession' \in 0 .. controlCommands'
    BY <1>0, <1>4, <1>t DEF ClientTypes, CommandPosts
  <2> QED  BY <2>1, <2>2, <2>3 DEF ClientTypes
<1>6. Versions'
  BY <1>0, <1>2, <1>3, <1>4 DEF ControlInv, Versions, CommandPosts
<1>7. Enabling'
  BY <1>0, <1>2, <1>4, <1>t DEF ControlInv, Enabling, Outcome, CommandPosts
<1>8. Allowing'
  BY <1>0, <1>2, <1>4 DEF ControlInv, Allowing, Outcome, CommandPosts
<1>9. OwnLock'
  BY <1>0, <1>2, <1>4 DEF ControlInv, OwnLock, CommandPosts
<1> QED
  BY <1>4, <1>5, <1>6, <1>7, <1>8, <1>9 DEF ControlInv, ControlTypes, CommandPosts

\* A new configuration is posted.
LEMMA ConfigSent ==
  ASSUME ControlInv, NEW lock \in Opt(FrameworkLock), NEW ids \in Opt(SUBSET Constellation),
         LocAPIGnssUpdateConfig(lock, ids)
  PROVE  ControlInv'
<1> DEFINE m == [what |-> "config", lock |-> lock, ids |-> ids]
<1>t. ClientTypes
  BY DEF ControlInv, ControlTypes
<1>0. /\ lock # {} => framework = "P"
      /\ askedLocks' = askedLocks \cup lock
      /\ ControlCall(m) /\ UNCHANGED <<mEnabled, controlSession, nfwAllowed>>
  BY DEF LocAPIGnssUpdateConfig
<1>l. lock \in Opt(Locks)
  BY ControlAssumption DEF Opt
<1>1. m \in ControlMsg /\ m.what = "config" /\ m.lock = lock /\ m \in ConfigMsg
  BY <1>l DEF ControlMsg, WaitingMsg, ConfigMsg
<1>2. m \notin SwitchMsg /\ m \notin NfwMsg /\ m \notin Unasked(askedLocks')
      /\ (m \in LockMsg <=> lock # {})
  BY <1>0, <1>1 DEF SwitchMsg, NfwMsg, Unasked, LockMsg
<1>3. Unasked(askedLocks') \subseteq Unasked(askedLocks)
  BY <1>0 DEF Unasked
<1> HIDE DEF m
<1>4. CommandPosts(m)
  BY <1>0, <1>1, CommandSends
<1>5. ClientTypes'
  <2>1. askedLocks' \subseteq Locks
    BY <1>0, <1>l, <1>t DEF ClientTypes, Opt
  <2>2. mEnabled' \in BOOLEAN /\ nfwAllowed' \in BOOLEAN /\ framework' \in {"P", "Q"}
    BY <1>0, <1>4, <1>t DEF ClientTypes, CommandPosts
  <2>3. controlCommands' \in 0 .. MaxControl /\ controlSession' \in 0 .. controlCommands'
    BY <1>0, <1>4, <1>t DEF ClientTypes, CommandPosts
  <2> QED  BY <2>1, <2>2, <2>3 DEF ClientTypes
<1>6. Versions'
  <2>1. NoneOf(controlMsgs, Unasked(askedLocks')) /\ NoneOf(controlPending', Unasked(askedLocks'))
    BY <1>3, <1>4 DEF ControlInv, Versions, NoneOf, CommandPosts
  <2>2. NoneOf(controlMsgs', Unasked(askedLocks'))
    BY <2>1, <1>2, <1>4 DEF CommandPosts
  <2>3. framework' = "Q" => mSupportNfwControl' /\ askedLocks' = {}
    BY <1>0, <1>4 DEF ControlInv, Versions, CommandPosts
  <2>4. framework' = "P" => ~nfwAllowed' /\ NoneOf(controlMsgs', NfwMsg)
    BY <1>0, <1>2, <1>4 DEF ControlInv, Versions, CommandPosts
  <2>5. mSupportNfwControl' /\ askedLocks' # {} =>
          ~NoneOf(controlMsgs', LockMsg) \/ ~NoneOf(controlPending', LockMsg)
    BY <1>0, <1>2, <1>4 DEF ControlInv, Versions, CommandPosts
  <2> QED  BY <2>1, <2>2, <2>3, <2>4, <2>5 DEF Versions
<1>7. Enabling'
  BY <1>0, <1>2, <1>4, <1>t DEF ControlInv, Enabling, Outcome, CommandPosts
<1>8. Allowing'
  BY <1>0, <1>2, <1>4 DEF ControlInv, Allowing, Outcome, CommandPosts
<1>9. OwnLock'
  BY <1>0, <1>2, <1>4 DEF ControlInv, OwnLock, CommandPosts
<1> QED
  BY <1>4, <1>5, <1>6, <1>7, <1>8, <1>9 DEF ControlInv, ControlTypes, CommandPosts

\* A configuration of the constellations, or its reset, is posted.
LEMMA SvTypeSent ==
  ASSUME ControlInv, NEW m \in WaitingMsg, m.what \in {"svType", "svReset"},
         SvTypeCommand(m)
  PROVE  ControlInv'
<1>t. ClientTypes
  BY DEF ControlInv, ControlTypes
<1>0. ControlCall(m) /\ UNCHANGED <<mEnabled, controlSession, mConfig, nfwAllowed, askedLocks>>
  BY DEF SvTypeCommand
<1>1. m \in ControlMsg
  BY DEF ControlMsg
<1>2. m \notin SwitchMsg /\ m \notin NfwMsg /\ \A a : m \notin Unasked(a)
  BY DEF SwitchMsg, NfwMsg, Unasked, LockMsg, ConfigMsg
<1>3. m \notin LockMsg
  BY DEF LockMsg, ConfigMsg
<1>4. CommandPosts(m)
  BY <1>0, <1>1, CommandSends
<1>5. ClientTypes'
  BY <1>0, <1>4, <1>t DEF ClientTypes, CommandPosts
<1>6. Versions'
  BY <1>0, <1>2, <1>3, <1>4 DEF ControlInv, Versions, CommandPosts
<1>7. Enabling'
  BY <1>0, <1>2, <1>4, <1>t DEF ControlInv, Enabling, Outcome, CommandPosts
<1>8. Allowing'
  BY <1>0, <1>2, <1>4 DEF ControlInv, Allowing, Outcome, CommandPosts
<1>9. OwnLock'
  BY <1>0, <1>2, <1>4 DEF ControlInv, OwnLock, CommandPosts
<1> QED
  BY <1>4, <1>5, <1>6, <1>7, <1>8, <1>9 DEF ControlInv, ControlTypes, CommandPosts

\* Every command of a client preserves the invariant.
LEMMA CommandKeeps == ControlInv /\ ControlCommand => ControlInv'
<1> SUFFICES ASSUME ControlInv, ControlCommand PROVE ControlInv'
  OBVIOUS
<1>1. CASE LocAPIEnable
  BY <1>1, EnableSent
<1>2. CASE LocAPIDisable
  BY <1>2, DisableSent
<1>3. ASSUME NEW l \in FrameworkLock, LocAPIGnssUpdateConfig({l}, {}) PROVE ControlInv'
  <2>1. {l} \in Opt(FrameworkLock) /\ {} \in Opt(SUBSET Constellation)
    BY DEF Opt
  <2> QED  BY <1>3, <2>1, ConfigSent
<1>4. ASSUME NEW s \in SUBSET Constellation, LocAPIGnssUpdateConfig({}, {s}) PROVE ControlInv'
  <2>1. {} \in Opt(FrameworkLock) /\ {s} \in Opt(SUBSET Constellation)
    BY DEF Opt
  <2> QED  BY <1>4, <2>1, ConfigSent
<1>5. ASSUME NEW b \in BOOLEAN, NfwControlCommand(b) PROVE ControlInv'
  BY <1>5, NfwSent
<1>6. ASSUME NEW t \in SvType, SvTypeCommand([what |-> "svType", type |-> t]) PROVE ControlInv'
  <2>1. [what |-> "svType", type |-> t] \in WaitingMsg
    BY DEF WaitingMsg
  <2> QED  BY <1>6, <2>1, SvTypeSent
<1>7. CASE SvTypeCommand([what |-> "svReset"])
  <2>1. [what |-> "svReset"] \in WaitingMsg
    BY DEF WaitingMsg
  <2> QED  BY <1>7, <2>1, SvTypeSent
<1> QED
  BY <1>1, <1>2, <1>3, <1>4, <1>5, <1>6, <1>7 DEF ControlCommand
-----------------------------------------------------------------------------
\* What a handler posts to the engine decides, or what was posted before it.
LEMMA CallsSent ==
  ASSUME ControlInv, NEW r \in Seq(ModemCall), controlCalls' = controlCalls \o r,
         UNCHANGED <<modem, svTypeLast>>,
         \/ LastIs(r, LockCalls, Locking(LockOnRestart'))
         \/ /\ NoneOf(r, LockCalls) /\ LockOnRestart' = LockOnRestart
            /\ UpToDate' => UpToDate,
         \/ LastIs(r, BlackCalls, Blacking(mGnssSvTypeConfig'.black))
         \/ /\ NoneOf(r, BlackCalls) /\ UNCHANGED mGnssSvTypeConfig
            /\ UpToDate' => UpToDate,
         \A c \in Constellation :
           \/ LastIs(r, Switching(c), EnableCallsOf(c)) /\ c \in mGnssSvTypeConfig'.enabled
           \/ /\ ~NoneOf(r, Switching(c)) /\ ~LastIs(r, Switching(c), EnableCallsOf(c))
              /\ c \notin mGnssSvTypeConfig'.enabled
           \/ /\ NoneOf(r, Switching(c))
              /\ c \in mGnssSvTypeConfig.enabled <=> c \in mGnssSvTypeConfig'.enabled
              /\ UpToDate' /\ c \in mGnssSvTypeConfig'.enabled => UpToDate
  PROVE  LockSent' /\ EnabledSent' /\ BlackSent' /\ controlCalls' \in Seq(ModemCall)
<1>1. controlCalls \in Seq(ModemCall) /\ controlCalls' \in Seq(ModemCall)
  BY DEF ControlInv, ControlTypes, QueueTypes
<1>2. \A T, P :
        /\ NoneOf(controlCalls', T) <=> NoneOf(controlCalls, T) /\ NoneOf(r, T)
        /\ LastIs(controlCalls', T, P)
             <=> LastIs(r, T, P) \/ (NoneOf(r, T) /\ LastIs(controlCalls, T, P))
  BY <1>1, OutcomePosts
<1>3. LockSent'
  <2>1. CASE LastIs(r, LockCalls, Locking(LockOnRestart'))
    <3>1. LastIs(controlCalls', LockCalls, Locking(LockOnRestart'))
      BY <1>2, <2>1
    <3> QED  BY <3>1 DEF LockSent, Outcome, LockCalls, Locking
  <2>2. CASE /\ NoneOf(r, LockCalls) /\ LockOnRestart' = LockOnRestart
             /\ UpToDate' => UpToDate
    <3>1. UpToDate =>
            \/ LastIs(controlCalls, LockCalls, Locking(LockOnRestart))
            \/ NoneOf(controlCalls, LockCalls) /\ modem.lock = LockOnRestart
      BY DEF ControlInv, LockSent, Outcome
    <3>2. UpToDate =>
            \/ LastIs(controlCalls', LockCalls, Locking(LockOnRestart))
            \/ NoneOf(controlCalls', LockCalls) /\ modem.lock = LockOnRestart
      BY <1>2, <2>2, <3>1
    <3> QED  BY <2>2, <3>2 DEF LockSent, Outcome, LockCalls, Locking
  <2> QED  BY <2>1, <2>2
<1>4. BlackSent'
  <2>1. CASE LastIs(r, BlackCalls, Blacking(mGnssSvTypeConfig'.black))
    <3>1. LastIs(controlCalls', BlackCalls, Blacking(mGnssSvTypeConfig'.black))
      BY <1>2, <2>1
    <3> QED  BY <3>1 DEF BlackSent, Outcome, BlackCalls, Blacking, AllBlack
  <2>2. CASE /\ NoneOf(r, BlackCalls) /\ UNCHANGED mGnssSvTypeConfig
             /\ UpToDate' => UpToDate
    <3>1. \/ LastIs(controlCalls, BlackCalls, Blacking(mGnssSvTypeConfig.black))
          \/ /\ NoneOf(controlCalls, BlackCalls)
             /\ UpToDate /\ svTypeLast => AllBlack(modem.black) = mGnssSvTypeConfig.black
      BY DEF ControlInv, BlackSent, Outcome
    <3>2. \/ LastIs(controlCalls', BlackCalls, Blacking(mGnssSvTypeConfig.black))
          \/ /\ NoneOf(controlCalls', BlackCalls)
             /\ UpToDate /\ svTypeLast => AllBlack(modem.black) = mGnssSvTypeConfig.black
      BY <1>2, <2>2, <3>1
    <3> QED  BY <2>2, <3>2 DEF BlackSent, Outcome, BlackCalls, Blacking, AllBlack
  <2> QED  BY <2>1, <2>2
<1>5. EnabledSent'
  <2> SUFFICES ASSUME NEW c \in Constellation
      PROVE  /\ Outcome(controlCalls', Switching(c), EnableCallsOf(c), c \in modem'.enabled)
                  => c \in mGnssSvTypeConfig'.enabled
             /\ UpToDate' /\ c \in mGnssSvTypeConfig'.enabled =>
                  Outcome(controlCalls', Switching(c), EnableCallsOf(c), c \in modem'.enabled)
             /\ ~modem'.up => c \notin modem'.enabled
    BY DEF EnabledSent, Switching, EnableCallsOf
  <2>1. /\ NoneOf(controlCalls', Switching(c))
             <=> NoneOf(controlCalls, Switching(c)) /\ NoneOf(r, Switching(c))
        /\ LastIs(controlCalls', Switching(c), EnableCallsOf(c))
             <=> \/ LastIs(r, Switching(c), EnableCallsOf(c))
                 \/ /\ NoneOf(r, Switching(c))
                    /\ LastIs(controlCalls, Switching(c), EnableCallsOf(c))
    BY <1>2
  <2>2. LastIs(r, Switching(c), EnableCallsOf(c)) => ~NoneOf(r, Switching(c))
    BY DEF LastIs, NoneOf
  <2>3. /\ Outcome(controlCalls, Switching(c), EnableCallsOf(c), c \in modem.enabled)
             => c \in mGnssSvTypeConfig.enabled
        /\ UpToDate /\ c \in mGnssSvTypeConfig.enabled =>
             Outcome(controlCalls, Switching(c), EnableCallsOf(c), c \in modem.enabled)
        /\ ~modem.up => c \notin modem.enabled
    BY DEF ControlInv, EnabledSent
  <2> QED  BY <2>1, <2>2, <2>3 DEF Outcome
<1> QED  BY <1>1, <1>3, <1>4, <1>5

\* A call of one kind says nothing of the others.
LEMMA OneCall ==
  ASSUME NEW m \in ModemCall, NEW l \in Locks, NEW types
  PROVE  /\ <<m>> \in Seq(ModemCall)
         /\ m.call = "lock" /\ m.lock = l => LastIs(<<m>>, LockCalls, Locking(l))
         /\ m.call = "config" /\ m.lock = {l} => LastIs(<<m>>, LockCalls, Locking(l))
         /\ m.call = "config" /\ m.lock = {} => NoneOf(<<m>>, LockCalls)
         /\ m.call \in {"black", "enable", "reset"} => NoneOf(<<m>>, LockCalls)
         /\ m.call \in {"lock", "enable", "reset"} => NoneOf(<<m>>, BlackCalls)
         /\ m.call = "config" /\ m.ids = {} => NoneOf(<<m>>, BlackCalls)
         /\ m.call = "config" /\ m.ids # {} => LastIs(<<m>>, BlackCalls, Blacking(types))
         /\ m.call = "black" /\ AllBlack(m.black) = types
              => LastIs(<<m>>, BlackCalls, Blacking(types))
         /\ m.call \in {"lock", "config", "black"}
              => \A c : NoneOf(<<m>>, Switching(c))
         /\ m.call = "reset"
              => \A c : /\ ~NoneOf(<<m>>, Switching(c))
                        /\ ~LastIs(<<m>>, Switching(c), EnableCallsOf(c))
<1>1. \A T, P : /\ NoneOf(<<m>>, T) <=> m \notin T
                /\ LastIs(<<m>>, T, P) <=> m \in T /\ m \in P
  BY OutcomeOne
<1>2. <<m>> \in Seq(ModemCall)
  OBVIOUS
<1>3. /\ m.call = "lock" /\ m.lock = l => m \in LockCalls /\ m \in Locking(l)
      /\ m.call = "config" /\ m.lock = {l} => m \in LockCalls /\ m \in Locking(l)
      /\ m.call = "config" /\ m.lock = {} => m \notin LockCalls
      /\ m.call \in {"black", "enable", "reset"} => m \notin LockCalls
  BY DEF LockCalls, Locking
<1>4. /\ m.call \in {"lock", "enable", "reset"} => m \notin BlackCalls
      /\ m.call = "config" /\ m.ids = {} => m \notin BlackCalls
      /\ m.call = "config" /\ m.ids # {} => m \in BlackCalls /\ m \in Blacking(types)
      /\ m.call = "black" /\ AllBlack(m.black) = types
           => m \in BlackCalls /\ m \in Blacking(types)
  BY DEF BlackCalls, Blacking
<1>5. /\ m.call \in {"lock", "config", "black"} => \A c : m \notin Switching(c)
      /\ m.call = "reset" => \A c : m \in Switching(c) /\ m \notin EnableCallsOf(c)
  BY DEF Switching, EnableCallsOf
<1> QED
  BY <1>1, <1>2, <1>3, <1>4, <1>5

\* The calls that follow a configuration enable the constellations it enables and
\* touch neither the lock nor the blacklist.
LEMMA EnableCallsSet ==
  ASSUME NEW t \in SvType
  PROVE  /\ EnableCalls(t) \in Seq(ModemCall)
         /\ NoneOf(EnableCalls(t), LockCalls) /\ NoneOf(EnableCalls(t), BlackCalls)
         /\ \A c \in Constellation :
              IF c \in t.enabled
              THEN LastIs(EnableCalls(t), Switching(c), EnableCallsOf(c))
              ELSE NoneOf(EnableCalls(t), Switching(c))
<1>1. CASE t.enabled = {}
  <2>1. EnableCalls(t) = <<>>
    BY <1>1 DEF EnableCalls
  <2> QED  BY <1>1, <2>1, EmptyOutcome
<1>2. CASE t.enabled # {}
  <2> DEFINE m == [call |-> "enable", types |-> t.enabled]
  <2>1. EnableCalls(t) = <<m>>
    BY <1>2 DEF EnableCalls
  <2>2. m \in ModemCall
    BY DEF ModemCall, SvType
  <2>3. m \notin LockCalls /\ m \notin BlackCalls
    BY <2>2 DEF LockCalls, BlackCalls
  <2>4. \A c : /\ m \in EnableCallsOf(c) <=> c \in t.enabled
               /\ m \in Switching(c) <=> c \in t.enabled
    BY <2>2 DEF Switching, EnableCallsOf
  <2>5. <<m>> \in Seq(ModemCall)
    BY <2>2
  <2> HIDE DEF m
  <2>6. \A T, P : /\ NoneOf(<<m>>, T) <=> m \notin T
                  /\ LastIs(<<m>>, T, P) <=> m \in T /\ m \in P
    BY OutcomeOne
  <2> QED  BY <2>1, <2>3, <2>4, <2>5, <2>6
<1> QED  BY <1>1, <1>2
-----------------------------------------------------------------------------
\* What every handler leaves: its message m is gone and decides nothing that a
\* later one decides.
HandlerTook(m) ==
  /\ ClientTypes' /\ EngineTypes' /\ controlMsgs' \in Seq(ControlMsg)
  /\ UNCHANGED <<framework, mEnabled, controlSession, nfwAllowed, askedLocks,
                 modem, svTypeLast>>
  /\ UpToDate' <=> UpToDate
  /\ \A T, P :
       /\ NoneOf(controlMsgs, T) <=> m \notin T /\ NoneOf(controlMsgs', T)
       /\ LastIs(controlMsgs, T, P)
            <=> \/ LastIs(controlMsgs', T, P)
                \/ NoneOf(controlMsgs', T) /\ m \in T /\ m \in P

\* A handler takes the first message away.
LEMMA HandlerTakes ==
  ASSUME ControlInv, controlMsgs # <<>>, controlMsgs' = Tail(controlMsgs),
         Head(controlMsgs).what # "engineUp",
         UNCHANGED <<framework, controlClient, controlEngine>>
  PROVE  HandlerTook(Head(controlMsgs))
<1>1. controlMsgs' \in Seq(ControlMsg)
  BY ControlHead DEF ControlInv
<1>2. ClientTypes' /\ EngineTypes'
  BY DEF ControlInv, ControlTypes, ClientTypes, EngineTypes, controlClient, controlEngine
<1>3. \A T, P :
        /\ NoneOf(controlMsgs, T)
             <=> Head(controlMsgs) \notin T /\ NoneOf(controlMsgs', T)
        /\ LastIs(controlMsgs, T, P)
             <=> \/ LastIs(controlMsgs', T, P)
                 \/ /\ NoneOf(controlMsgs', T)
                    /\ Head(controlMsgs) \in T /\ Head(controlMsgs) \in P
  BY OutcomeTake DEF ControlInv, ControlTypes, QueueTypes
<1>4. UpToDate' <=> UpToDate
  <2>1. Head(controlMsgs) \notin EngineUpMsg
    BY DEF EngineUpMsg
  <2>2. NoneOf(controlMsgs', EngineUpMsg) <=> NoneOf(controlMsgs, EngineUpMsg)
    BY <1>3, <2>1
  <2> QED  BY <2>2 DEF UpToDate, controlEngine, EngineUpMsg, ControlMsg, WaitingMsg, ConfigMsg
<1> QED  BY <1>1, <1>2, <1>3, <1>4 DEF HandlerTook, controlClient, controlEngine

\* A handler of the lock posts the lock the adapter has now.
LEMMA LockPosted ==
  ASSUME ControlInv, NEW l \in Locks, l = LockOnRestart', Calls(<<LockCall(l)>>),
         UNCHANGED <<modem, svTypeLast, mGnssSvTypeConfig>>, UpToDate' => UpToDate
  PROVE  LockSent' /\ EnabledSent' /\ BlackSent' /\ controlCalls' \in Seq(ModemCall)
<1> DEFINE m == LockCall(l)
<1>1. m \in ModemCall /\ m.call = "lock" /\ m.lock = l
  BY DEF LockCall, ModemCall
<1>2. controlCalls' = controlCalls \o <<m>>
  BY DEF Calls
<1> HIDE DEF m
<1>3. /\ <<m>> \in Seq(ModemCall)
      /\ LastIs(<<m>>, LockCalls, Locking(l)) /\ NoneOf(<<m>>, BlackCalls)
      /\ \A c : NoneOf(<<m>>, Switching(c))
  BY <1>1, OneCall
<1> QED
  BY <1>2, <1>3, CallsSent

\* MsgEnableGnss gives the lock back and tells the modem.
LEMMA EnableHandled == ControlInv /\ MsgEnableGnss => ControlInv'
<1> SUFFICES ASSUME ControlInv, MsgEnableGnss PROVE ControlInv'
  OBVIOUS
<1>t. ClientTypes /\ AdapterTypes /\ EngineTypes /\ QueueTypes
  BY DEF ControlInv, ControlTypes
<1> DEFINE h == Head(controlMsgs)
<1>0. /\ controlMsgs # <<>> /\ h.what = "enable" /\ controlMsgs' = Tail(controlMsgs)
      /\ UNCHANGED <<framework, controlClient, controlEngine>>
      /\ mAfwControlId = 0 /\ mAfwControlId' = h.id
      /\ \/ /\ mSupportNfwControl
            /\ GPS_LOCK' = GPS_LOCK \cap {"NI"} /\ Calls(<<LockCall(GPS_LOCK')>>)
         \/ ~mSupportNfwControl /\ UNCHANGED GPS_LOCK /\ Calls(<<LockCall({})>>)
      /\ UNCHANGED <<mSupportNfwControl, mGnssSvTypeConfig, controlWait>>
  BY DEF MsgEnableGnss, ControlTakes
<1>1. h \in ControlMsg /\ h.id \in 1 .. MaxControl
  BY <1>0, ControlHead DEF ControlInv
<1>2. h \in SwitchMsg /\ h \in EnableMsg /\ h \notin NfwMsg
        /\ (\A a : h \notin Unasked(a)) /\ h \notin LockMsg
  BY <1>0, <1>1 DEF SwitchMsg, EnableMsg, NfwMsg, Unasked, LockMsg, ConfigMsg
<1>h. HandlerTook(h)
  BY <1>0, HandlerTakes
<1> HIDE DEF h
<1>4. mAfwControlId' # 0 /\ mAfwControlId' \in 0 .. MaxControl
  BY <1>0, <1>1, ControlAssumption
<1>5. GPS_LOCK' \in Locks /\ {} \in Locks
  BY <1>0, <1>t DEF AdapterTypes, Locks, Lock
<1>6. AdapterTypes'
  BY <1>0, <1>4, <1>5, <1>t DEF AdapterTypes, controlWait
<1>7. LockSent' /\ EnabledSent' /\ BlackSent' /\ controlCalls' \in Seq(ModemCall)
  <2>1. CASE mSupportNfwControl
    <3>1. LockOnRestart' = GPS_LOCK'
      BY <1>0, <2>1 DEF LockOnRestart
    <3> QED  BY <1>0, <1>5, <1>h, <2>1, <3>1, LockPosted DEF HandlerTook
  <2>2. CASE ~mSupportNfwControl
    <3>1. LockOnRestart' = {}
      BY <1>0, <1>4, <2>2 DEF LockOnRestart
    <3> QED  BY <1>0, <1>5, <1>h, <2>2, <3>1, LockPosted DEF HandlerTook
  <2> QED  BY <2>1, <2>2
<1>8. Versions'
  BY <1>0, <1>2, <1>h DEF ControlInv, Versions, controlWait, HandlerTook
<1>9. Enabling'
  BY <1>0, <1>2, <1>h, <1>4 DEF ControlInv, Enabling, Outcome, HandlerTook
<1>10. Allowing'
  BY <1>0, <1>2, <1>h DEF ControlInv, Allowing, Outcome, HandlerTook
<1>11. OwnLock'
  BY <1>0, <1>4, <1>h DEF ControlInv, OwnLock, HandlerTook
<1> QED
  BY <1>t, <1>h, <1>0, <1>6, <1>7, <1>8, <1>9, <1>10, <1>11
     DEF ControlInv, ControlTypes, QueueTypes, controlWait, HandlerTook

\* MsgDisableGnss takes the lock and tells the modem.
LEMMA DisableHandled == ControlInv /\ MsgDisableGnss => ControlInv'
<1> SUFFICES ASSUME ControlInv, MsgDisableGnss PROVE ControlInv'
  OBVIOUS
<1>t. ClientTypes /\ AdapterTypes /\ EngineTypes /\ QueueTypes
  BY DEF ControlInv, ControlTypes
<1> DEFINE h == Head(controlMsgs)
<1>0. /\ controlMsgs # <<>> /\ h.what = "disable" /\ controlMsgs' = Tail(controlMsgs)
      /\ UNCHANGED <<framework, controlClient, controlEngine>>
      /\ mAfwControlId = h.id /\ mAfwControlId' = 0
      /\ GPS_LOCK' = GPS_LOCK \cup IF mSupportNfwControl THEN {"MO"} ELSE {}
      /\ Calls(<<LockCall(GPS_LOCK')>>)
      /\ UNCHANGED <<mSupportNfwControl, mGnssSvTypeConfig, controlWait>>
  BY DEF MsgDisableGnss, ControlTakes
<1>1. h \in ControlMsg
  BY <1>0, ControlHead DEF ControlInv
<1>2. h \in SwitchMsg /\ h \notin EnableMsg /\ h \notin NfwMsg
        /\ (\A a : h \notin Unasked(a)) /\ h \notin LockMsg
  BY <1>0, <1>1 DEF SwitchMsg, EnableMsg, NfwMsg, Unasked, LockMsg, ConfigMsg
<1>h. HandlerTook(h)
  BY <1>0, HandlerTakes
<1> HIDE DEF h
<1>4. 0 \in 0 .. MaxControl
  BY ControlAssumption
<1>5. GPS_LOCK' \in Locks
  BY <1>0, <1>t DEF AdapterTypes, Locks, Lock
<1>6. AdapterTypes'
  BY <1>0, <1>4, <1>5, <1>t DEF AdapterTypes, controlWait
<1>7. LockSent' /\ EnabledSent' /\ BlackSent' /\ controlCalls' \in Seq(ModemCall)
  <2>1. LockOnRestart' = GPS_LOCK'
    BY <1>0 DEF LockOnRestart
  <2> QED  BY <1>0, <1>5, <1>h, <2>1, LockPosted DEF HandlerTook
<1>8. Versions'
  BY <1>0, <1>2, <1>h DEF ControlInv, Versions, controlWait, HandlerTook
<1>9. Enabling'
  BY <1>0, <1>2, <1>h DEF ControlInv, Enabling, Outcome, HandlerTook
<1>10. Allowing'
  BY <1>0, <1>2, <1>h DEF ControlInv, Allowing, Outcome, HandlerTook
<1>11. OwnLock'
  BY <1>0, <1>h DEF ControlInv, OwnLock, HandlerTook
<1> QED
  BY <1>t, <1>h, <1>0, <1>6, <1>7, <1>8, <1>9, <1>10, <1>11
     DEF ControlInv, ControlTypes, QueueTypes, controlWait, HandlerTook

\* MsgControlNfwLocationAccess changes the lock on NI only.
LEMMA NfwHandled == ControlInv /\ MsgControlNfwLocationAccess => ControlInv'
<1> SUFFICES ASSUME ControlInv, MsgControlNfwLocationAccess PROVE ControlInv'
  OBVIOUS
<1>t. ClientTypes /\ AdapterTypes /\ EngineTypes /\ QueueTypes
  BY DEF ControlInv, ControlTypes
<1> DEFINE h == Head(controlMsgs)
<1>0. /\ controlMsgs # <<>> /\ h.what = "nfw" /\ controlMsgs' = Tail(controlMsgs)
      /\ UNCHANGED <<framework, controlClient, controlEngine>>
      /\ GPS_LOCK' = IF h.allowed THEN GPS_LOCK \ {"NI"} ELSE GPS_LOCK \cup {"NI"}
      /\ Calls(<<LockCall(GPS_LOCK')>>)
      /\ UNCHANGED <<mAfwControlId, mSupportNfwControl, mGnssSvTypeConfig, controlWait>>
  BY DEF MsgControlNfwLocationAccess, ControlTakes
<1>1. h \in ControlMsg
  BY <1>0, ControlHead DEF ControlInv
<1>2. h \notin SwitchMsg /\ h \in NfwMsg /\ (h \in AllowMsg <=> h.allowed)
        /\ (\A a : h \notin Unasked(a)) /\ h \notin LockMsg
  BY <1>0, <1>1 DEF SwitchMsg, AllowMsg, NfwMsg, Unasked, LockMsg, ConfigMsg
<1>h. HandlerTook(h)
  BY <1>0, HandlerTakes
<1> HIDE DEF h
<1>4. mSupportNfwControl
  <2>1. ~NoneOf(controlMsgs, NfwMsg)
    BY <1>2, <1>h DEF HandlerTook
  <2> QED  BY <2>1, <1>t DEF ControlInv, Versions, ClientTypes
<1>5. GPS_LOCK' \in Locks
  BY <1>0, <1>t DEF AdapterTypes, Locks, Lock
<1>6. AdapterTypes'
  BY <1>0, <1>5, <1>t DEF AdapterTypes, controlWait
<1>7. LockSent' /\ EnabledSent' /\ BlackSent' /\ controlCalls' \in Seq(ModemCall)
  <2>1. LockOnRestart' = GPS_LOCK'
    BY <1>0, <1>4 DEF LockOnRestart
  <2> QED  BY <1>0, <1>5, <1>h, <2>1, LockPosted DEF HandlerTook
<1>8. Versions'
  BY <1>0, <1>2, <1>h DEF ControlInv, Versions, controlWait, HandlerTook
<1>9. Enabling'
  BY <1>0, <1>2, <1>h DEF ControlInv, Enabling, Outcome, HandlerTook
<1>10. Allowing'
  BY <1>0, <1>2, <1>h DEF ControlInv, Allowing, Outcome, HandlerTook
<1>11. OwnLock'
  BY <1>0, <1>4, <1>h DEF ControlInv, OwnLock, HandlerTook
<1> QED
  BY <1>t, <1>h, <1>0, <1>6, <1>7, <1>8, <1>9, <1>10, <1>11
     DEF ControlInv, ControlTypes, QueueTypes, controlWait, HandlerTook

\* A configuration that names a lock ends the framework's control of it.
LEMMA ConfigHandled == ControlInv /\ MsgGnssUpdateConfig => ControlInv'
<1> SUFFICES ASSUME ControlInv, MsgGnssUpdateConfig PROVE ControlInv'
  OBVIOUS
<1>t. ClientTypes /\ AdapterTypes /\ EngineTypes /\ QueueTypes
  BY DEF ControlInv, ControlTypes
<1> DEFINE h == Head(controlMsgs)
           ConfigCall(lock) == [call |-> "config", lock |-> lock, ids |-> h.ids]
<1>0. /\ controlMsgs # <<>> /\ h.what = "config" /\ controlMsgs' = Tail(controlMsgs)
      /\ UNCHANGED <<framework, controlClient, controlEngine>>
      /\ controlKnown /\ UNCHANGED controlWait
      /\ UNCHANGED <<mAfwControlId, mGnssSvTypeConfig>>
      /\ \/ h.lock = {} /\ Calls(<<ConfigCall({})>>) /\ UNCHANGED <<GPS_LOCK, mSupportNfwControl>>
         \/ \E l \in h.lock :
              /\ GPS_LOCK' = l \cup {"MO"} /\ mSupportNfwControl' = FALSE
              /\ \/ mAfwControlId = 0 /\ Calls(<<ConfigCall({GPS_LOCK'})>>)
                 \/ mAfwControlId # 0 /\ mSupportNfwControl /\ Calls(<<ConfigCall({{}})>>)
                 \/ mAfwControlId # 0 /\ ~mSupportNfwControl /\ Calls(<<ConfigCall({})>>)
  BY DEF MsgGnssUpdateConfig, ControlHandles, ControlTakes
<1>1. h \in ConfigMsg /\ h \in ControlMsg
  BY <1>0, ControlHead DEF ControlInv
<1>2. h \notin SwitchMsg /\ h \notin NfwMsg /\ (h \in LockMsg <=> h.lock # {})
      /\ (h \in Unasked(askedLocks) <=> ~(h.lock \subseteq askedLocks))
  BY <1>0, <1>1 DEF SwitchMsg, NfwMsg, Unasked, LockMsg, ConfigMsg
<1>h. HandlerTook(h)
  BY <1>0, HandlerTakes
<1>4. h.lock \subseteq askedLocks /\ h.lock \in Opt(Locks) /\ h.ids \in Opt(SUBSET Constellation)
  <2>1. h \notin Unasked(askedLocks)
    BY <1>h DEF ControlInv, Versions, HandlerTook
  <2> QED  BY <1>1, <1>2, <2>1 DEF ConfigMsg
<1>5. \A k \in Opt(Locks) : ConfigCall(k) \in ModemCall
  BY <1>4 DEF ModemCall
<1>6. \A k \in Opt(Locks) : ConfigCall(k).call = "config" /\ ConfigCall(k).lock = k /\ ConfigCall(k).ids = h.ids
  OBVIOUS
<1> HIDE DEF h, Call
\* Whatever the lock, what the call does to the other things is the same.
<1>7. ASSUME NEW k \in Opt(Locks), Calls(<<ConfigCall(k)>>),
             \/ k = {LockOnRestart'} /\ LockOnRestart' \in Locks
             \/ k = {} /\ LockOnRestart' = LockOnRestart
      PROVE  LockSent' /\ EnabledSent' /\ BlackSent' /\ controlCalls' \in Seq(ModemCall)
  <2> DEFINE m == ConfigCall(k)
             types == mGnssSvTypeConfig'.black
  <2>1. m \in ModemCall /\ m.call = "config" /\ m.lock = k /\ m.ids = h.ids
    BY <1>5, <1>6
  <2>2. controlCalls' = controlCalls \o <<m>>
    BY <1>7 DEF Calls
  <2> HIDE DEF m, types
  <2>a. {} \in Locks
    BY DEF Locks
  <2>3. /\ <<m>> \in Seq(ModemCall)
        /\ m.lock = {} => NoneOf(<<m>>, LockCalls)
        /\ m.ids = {} => NoneOf(<<m>>, BlackCalls)
        /\ m.ids # {} => LastIs(<<m>>, BlackCalls, Blacking(types))
        /\ \A c : NoneOf(<<m>>, Switching(c))
    BY <2>1, <2>a, OneCall
  <2>4. k = {LockOnRestart'} /\ LockOnRestart' \in Locks
          => LastIs(<<m>>, LockCalls, Locking(LockOnRestart'))
    BY <2>1, OneCall
  <2>5. \/ LastIs(<<m>>, LockCalls, Locking(LockOnRestart'))
        \/ NoneOf(<<m>>, LockCalls) /\ LockOnRestart' = LockOnRestart
    BY <1>7, <2>1, <2>3, <2>4
  <2>6. \/ LastIs(<<m>>, BlackCalls, Blacking(mGnssSvTypeConfig'.black))
        \/ NoneOf(<<m>>, BlackCalls) /\ UNCHANGED mGnssSvTypeConfig
    BY <1>0, <2>1, <2>3 DEF types
  <2> QED  BY <1>0, <1>h, <2>2, <2>3, <2>5, <2>6, CallsSent DEF HandlerTook
<1>8. CASE h.lock = {} /\ Calls(<<ConfigCall({})>>) /\ UNCHANGED <<GPS_LOCK, mSupportNfwControl>>
  <2>1. LockOnRestart' = LockOnRestart
    BY <1>0, <1>8 DEF LockOnRestart
  <2>2. {} \in Opt(Locks)
    BY DEF Opt
  <2>3. LockSent' /\ EnabledSent' /\ BlackSent' /\ controlCalls' \in Seq(ModemCall)
    BY <1>7, <1>8, <2>1, <2>2
  <2>4. AdapterTypes'
    BY <1>0, <1>8, <1>t DEF AdapterTypes, controlWait
  <2>5. Versions'
    BY <1>0, <1>2, <1>8, <1>h DEF ControlInv, Versions, controlWait, HandlerTook
  <2>6. Enabling'
    BY <1>0, <1>2, <1>h DEF ControlInv, Enabling, Outcome, HandlerTook
  <2>7. Allowing'
    BY <1>0, <1>2, <1>8, <1>h DEF ControlInv, Allowing, Outcome, HandlerTook
  <2>8. OwnLock'
    BY <1>0, <1>8, <1>h DEF ControlInv, OwnLock, HandlerTook
  <2> QED
    BY <1>t, <1>h, <1>0, <2>3, <2>4, <2>5, <2>6, <2>7, <2>8
       DEF ControlInv, ControlTypes, QueueTypes, controlWait, HandlerTook
<1>9. ASSUME NEW l \in h.lock, GPS_LOCK' = l \cup {"MO"}, mSupportNfwControl' = FALSE,
             \/ mAfwControlId = 0 /\ Calls(<<ConfigCall({GPS_LOCK'})>>)
             \/ mAfwControlId # 0 /\ mSupportNfwControl /\ Calls(<<ConfigCall({{}})>>)
             \/ mAfwControlId # 0 /\ ~mSupportNfwControl /\ Calls(<<ConfigCall({})>>)
      PROVE  ControlInv'
  <2>1. l \in askedLocks /\ l \in Locks /\ GPS_LOCK' \in Locks /\ {} \in Locks
    BY <1>4, <1>9, <1>t DEF ClientTypes, Locks, Lock
  <2>2. framework = "P"
    BY <2>1, <1>t DEF ControlInv, Versions, ClientTypes
  <2>3. LockSent' /\ EnabledSent' /\ BlackSent' /\ controlCalls' \in Seq(ModemCall)
    <3>1. {} \in Opt(Locks) /\ \A x \in Locks : {x} \in Opt(Locks)
      BY DEF Opt
    <3>2. CASE mAfwControlId = 0 /\ Calls(<<ConfigCall({GPS_LOCK'})>>)
      <4>1. LockOnRestart' = GPS_LOCK'
        BY <1>0, <3>2 DEF LockOnRestart
      <4> QED  BY <1>7, <2>1, <3>1, <3>2, <4>1
    <3>3. CASE mAfwControlId # 0 /\ mSupportNfwControl /\ Calls(<<ConfigCall({{}})>>)
      <4>1. LockOnRestart' = {}
        BY <1>0, <1>9, <3>3 DEF LockOnRestart
      <4> QED  BY <1>7, <2>1, <3>1, <3>3, <4>1
    <3>4. CASE mAfwControlId # 0 /\ ~mSupportNfwControl /\ Calls(<<ConfigCall({})>>)
      <4>1. LockOnRestart' = {} /\ LockOnRestart = {}
        BY <1>0, <1>9, <3>4 DEF LockOnRestart
      <4> QED  BY <1>7, <3>1, <3>4, <4>1
    <3> QED  BY <1>9, <3>2, <3>3, <3>4
  <2>4. AdapterTypes'
    BY <1>0, <1>9, <2>1, <1>t DEF AdapterTypes, controlWait
  <2>5. Versions'
    <3>1. NoneOf(controlMsgs', Unasked(askedLocks)) /\ NoneOf(controlPending, Unasked(askedLocks))
      BY <1>h DEF ControlInv, Versions, HandlerTook
    <3>2. ~nfwAllowed /\ NoneOf(controlMsgs', NfwMsg)
      BY <1>h, <2>2 DEF ControlInv, Versions, HandlerTook
    <3> QED  BY <1>0, <1>9, <1>h, <2>2, <3>1, <3>2 DEF Versions, controlWait, HandlerTook
  <2>6. Enabling'
    BY <1>0, <1>2, <1>h DEF ControlInv, Enabling, Outcome, HandlerTook
  <2>7. Allowing'
    BY <1>9 DEF Allowing
  <2>8. OwnLock'
    BY <1>9, <1>h, <2>1 DEF OwnLock, HandlerTook
  <2> QED
    BY <1>t, <1>h, <1>0, <2>3, <2>4, <2>5, <2>6, <2>7, <2>8
       DEF ControlInv, ControlTypes, QueueTypes, controlWait, HandlerTook
<1> QED
  BY <1>0, <1>8, <1>9

\* A configuration that waits for the engine keeps its place in the order.
LEMMA WaitKeeps == ControlInv /\ ControlWaits => ControlInv'
<1> SUFFICES ASSUME ControlInv, ControlWaits PROVE ControlInv'
  OBVIOUS
<1>t. ClientTypes /\ AdapterTypes /\ EngineTypes /\ QueueTypes
  BY DEF ControlInv, ControlTypes
<1> DEFINE h == Head(controlMsgs)
<1>0. /\ controlMsgs # <<>> /\ h.what \in {"config", "svType", "svReset"}
      /\ controlMsgs' = Tail(controlMsgs)
      /\ UNCHANGED <<framework, controlClient, controlEngine>>
      /\ ~controlKnown /\ UNCHANGED controlKnown
      /\ controlPending' = Append(controlPending, h)
      /\ UNCHANGED <<controlAdapter, controlCalls>>
  BY DEF ControlWaits, ControlTakes
<1>1. h \in WaitingMsg /\ h \in ControlMsg
  BY <1>0, ControlHead DEF ControlInv
<1>2. h \notin SwitchMsg /\ h \notin NfwMsg
  BY <1>0 DEF SwitchMsg, NfwMsg
<1>h. HandlerTook(h)
  BY <1>0, HandlerTakes
<1> HIDE DEF h
<1>4. /\ controlPending' \in Seq(WaitingMsg)
      /\ \A T : NoneOf(controlPending', T) <=> NoneOf(controlPending, T) /\ h \notin T
  BY <1>0, <1>1, <1>t, PostMessage, NonePost DEF QueueTypes
<1>5. AdapterTypes'
  BY <1>0, <1>t DEF AdapterTypes, controlAdapter
<1>6. LockSent' /\ EnabledSent' /\ BlackSent'
  <2>1. LockOnRestart' = LockOnRestart
    BY <1>0 DEF LockOnRestart, controlAdapter
  <2> QED
    BY <1>0, <1>h, <2>1, SentUnchanged DEF ControlInv, controlAdapter, HandlerTook
<1>7. Versions'
  BY <1>0, <1>h, <1>4 DEF ControlInv, Versions, controlAdapter, HandlerTook
<1>8. Enabling'
  BY <1>0, <1>2, <1>h DEF ControlInv, Enabling, Outcome, controlAdapter, HandlerTook
<1>9. Allowing'
  BY <1>0, <1>2, <1>h DEF ControlInv, Allowing, Outcome, controlAdapter, HandlerTook
<1>10. OwnLock'
  BY <1>0, <1>h DEF ControlInv, OwnLock, controlAdapter, HandlerTook
<1> QED
  BY <1>t, <1>h, <1>0, <1>4, <1>5, <1>6, <1>7, <1>8, <1>9, <1>10
     DEF ControlInv, ControlTypes, QueueTypes, HandlerTook

\* A handler of the constellations leaves the lock and what it depends on.
LEMMA SvHandled ==
  ASSUME ControlInv, NEW what \in {"svType", "svReset"}, ControlHandles(what),
         UNCHANGED <<GPS_LOCK, mAfwControlId, mSupportNfwControl>>,
         mGnssSvTypeConfig' \in SvType, controlCalls' \in Seq(ModemCall)
  PROVE  /\ ControlTypes' /\ Versions' /\ Enabling' /\ Allowing' /\ OwnLock'
         /\ LockOnRestart' = LockOnRestart /\ (UpToDate' <=> UpToDate)
<1>t. ClientTypes /\ AdapterTypes /\ EngineTypes /\ QueueTypes
  BY DEF ControlInv, ControlTypes
<1> DEFINE h == Head(controlMsgs)
<1>0. /\ controlMsgs # <<>> /\ h.what = what /\ controlMsgs' = Tail(controlMsgs)
      /\ UNCHANGED <<framework, controlClient, controlEngine>>
      /\ controlKnown /\ UNCHANGED controlWait
  BY DEF ControlHandles, ControlTakes
<1>2. h \notin SwitchMsg /\ h \notin NfwMsg /\ h \notin LockMsg
  BY <1>0 DEF SwitchMsg, NfwMsg, LockMsg, ConfigMsg
<1>h. HandlerTook(h)
  BY <1>0, HandlerTakes
<1> HIDE DEF h
<1>5. AdapterTypes'
  BY <1>0, <1>t DEF AdapterTypes, controlWait
<1>6. LockOnRestart' = LockOnRestart
  BY DEF LockOnRestart
<1>7. Versions'
  BY <1>0, <1>2, <1>h DEF ControlInv, Versions, controlWait, HandlerTook
<1>8. Enabling'
  BY <1>0, <1>2, <1>h DEF ControlInv, Enabling, Outcome, HandlerTook
<1>9. Allowing'
  BY <1>0, <1>2, <1>h DEF ControlInv, Allowing, Outcome, HandlerTook
<1>10. OwnLock'
  BY <1>0, <1>h DEF ControlInv, OwnLock, HandlerTook
<1>11. QueueTypes'
  BY <1>t, <1>0, <1>h DEF QueueTypes, controlWait, HandlerTook
<1> QED
  BY <1>h, <1>5, <1>6, <1>7, <1>8, <1>9, <1>10, <1>11 DEF ControlTypes, HandlerTook

\* A configuration of constellations becomes what the modem is told last.
LEMMA SvTypeHandled == ControlInv /\ MsgGnssUpdateSvTypeConfig => ControlInv'
<1> SUFFICES ASSUME ControlInv, MsgGnssUpdateSvTypeConfig PROVE ControlInv'
  OBVIOUS
<1>t. ControlTypes /\ AdapterTypes
  BY DEF ControlInv, ControlTypes
<1>n. PICK new : new = Head(controlMsgs).type
  OBVIOUS
<1>r. PICK reset :
        reset = IF EnabledRemoved(mGnssSvTypeConfig, new) # {} THEN <<ResetCall>> ELSE <<>>
  OBVIOUS
<1>0. PICK ids \in ReadSvIds :
        /\ ControlHandles("svType") /\ mGnssSvTypeConfig' = new
        /\ controlCalls' = controlCalls \o (reset \o <<BlackCall(ids, new.black)>> \o EnableCalls(new))
        /\ UNCHANGED <<GPS_LOCK, mAfwControlId, mSupportNfwControl>>
  BY <1>n, <1>r DEF MsgGnssUpdateSvTypeConfig, Calls, SetSvTypeConfig
<1>1. new \in SvType /\ ids \in SUBSET Constellation
  BY <1>n, <1>0, <1>t, ControlHead, ReadSvIdsType DEF ControlHandles, ControlTakes
<1>2. new.black \subseteq Constellation /\ new.enabled \subseteq Constellation
  BY <1>1 DEF SvType
<1> DEFINE B == BlackCall(ids, new.black)
           E == EnableCalls(new)
           r == reset \o <<B>> \o E
           removed == EnabledRemoved(mGnssSvTypeConfig, new) # {}
<1>3. B \in ModemCall /\ B.call = "black" /\ AllBlack(B.black) = new.black
  BY <1>1, <1>2, BlacklistType DEF BlackCall
<1>4. ResetCall \in ModemCall /\ ResetCall.call = "reset"
  BY DEF ResetCall, ModemCall
<1>5. /\ E \in Seq(ModemCall) /\ NoneOf(E, LockCalls) /\ NoneOf(E, BlackCalls)
      /\ \A c \in Constellation : IF c \in new.enabled
                                  THEN LastIs(E, Switching(c), EnableCallsOf(c))
                                  ELSE NoneOf(E, Switching(c))
  BY <1>1, EnableCallsSet
<1>6. removed <=> \E c \in mGnssSvTypeConfig.enabled : c \notin new.enabled
  BY DEF EnabledRemoved
<1>7. mGnssSvTypeConfig.enabled \subseteq Constellation
  BY <1>t DEF AdapterTypes, SvType
<1>8. {} \in Locks
  BY DEF Locks
<1>9. /\ <<B>> \in Seq(ModemCall) /\ NoneOf(<<B>>, LockCalls)
      /\ LastIs(<<B>>, BlackCalls, Blacking(new.black))
      /\ \A c : NoneOf(<<B>>, Switching(c))
  BY <1>3, <1>8, OneCall
<1>10. /\ reset \in Seq(ModemCall) /\ NoneOf(reset, LockCalls) /\ NoneOf(reset, BlackCalls)
       /\ ~removed => reset = <<>>
       /\ \A c : IF removed THEN /\ ~NoneOf(reset, Switching(c))
                                 /\ ~LastIs(reset, Switching(c), EnableCallsOf(c))
                 ELSE NoneOf(reset, Switching(c))
  <2>1. CASE removed
    <3>1. reset = <<ResetCall>>
      BY <1>r, <2>1
    <3> QED  BY <1>4, <1>8, <2>1, <3>1, OneCall
  <2>2. CASE ~removed
    <3>1. reset = <<>>
      BY <1>r, <2>2
    <3> QED  BY <2>2, <3>1, EmptyOutcome
  <2> QED  BY <2>1, <2>2
<1> DEFINE q == reset \o <<B>>
<1>11. /\ q \in Seq(ModemCall)
       /\ \A T, P : /\ NoneOf(q, T) <=> NoneOf(reset, T) /\ NoneOf(<<B>>, T)
                    /\ LastIs(q, T, P) <=> LastIs(<<B>>, T, P) \/ (NoneOf(<<B>>, T) /\ LastIs(reset, T, P))
  <2> HIDE DEF B, removed
  <2>1. q \in Seq(ModemCall)
    BY <1>9, <1>10, PostMessages
  <2>2. \A T, P : /\ NoneOf(reset \o <<B>>, T) <=> NoneOf(reset, T) /\ NoneOf(<<B>>, T)
                  /\ LastIs(reset \o <<B>>, T, P)
                       <=> LastIs(<<B>>, T, P) \/ (NoneOf(<<B>>, T) /\ LastIs(reset, T, P))
    BY <1>9, <1>10, OutcomePosts
  <2> QED  BY <2>1, <2>2
<1>12. /\ q \o E \in Seq(ModemCall)
       /\ \A T, P : /\ NoneOf(q \o E, T) <=> NoneOf(q, T) /\ NoneOf(E, T)
                    /\ LastIs(q \o E, T, P) <=> LastIs(E, T, P) \/ (NoneOf(E, T) /\ LastIs(q, T, P))
  <2> HIDE DEF q, E, B
  <2> QED  BY <1>5, <1>11, OutcomePosts, PostMessages
<1>13. controlCalls' = controlCalls \o (q \o E)
  BY <1>0
<1> HIDE DEF q, E, B, removed, r
<1>14. controlCalls' \in Seq(ModemCall)
  BY <1>12, <1>13, <1>t, PostMessages DEF ControlTypes, QueueTypes
<1>15. /\ ControlTypes' /\ Versions' /\ Enabling' /\ Allowing' /\ OwnLock'
       /\ LockOnRestart' = LockOnRestart /\ (UpToDate' <=> UpToDate)
  BY <1>0, <1>1, <1>14, SvHandled
<1>16. UNCHANGED <<modem, svTypeLast>>
  BY <1>0 DEF ControlHandles, ControlTakes, controlEngine
<1>17. NoneOf(q \o E, LockCalls)
  BY <1>5, <1>9, <1>10, <1>11, <1>12
<1>18. LastIs(q \o E, BlackCalls, Blacking(new.black))
  BY <1>5, <1>9, <1>11, <1>12
<1>19. ASSUME NEW c \in Constellation
       PROVE  \/ LastIs(q \o E, Switching(c), EnableCallsOf(c)) /\ c \in new.enabled
              \/ /\ ~NoneOf(q \o E, Switching(c)) /\ ~LastIs(q \o E, Switching(c), EnableCallsOf(c))
                 /\ c \notin new.enabled
              \/ /\ NoneOf(q \o E, Switching(c))
                 /\ c \in mGnssSvTypeConfig.enabled <=> c \in new.enabled
  <2>1. CASE c \in new.enabled
    BY <1>5, <1>12, <2>1
  <2>2. CASE c \notin new.enabled
    <3>1. NoneOf(E, Switching(c))
      BY <1>5, <2>2
    <3>2. ~LastIs(E, Switching(c), EnableCallsOf(c))
      BY <3>1 DEF LastIs, NoneOf
    <3>3. NoneOf(<<B>>, Switching(c)) /\ ~LastIs(<<B>>, Switching(c), EnableCallsOf(c))
      BY <1>9 DEF LastIs, NoneOf
    <3> QED  BY <1>6, <1>10, <1>11, <1>12, <2>2, <3>1, <3>2, <3>3
  <2> QED  BY <2>1, <2>2
<1>20. LockSent' /\ EnabledSent' /\ BlackSent'
  BY <1>0, <1>12, <1>13, <1>15, <1>16, <1>17, <1>18, <1>19, CallsSent
<1> QED
  BY <1>15, <1>20 DEF ControlInv

\* A reset ends all enabling and blacklisting.
LEMMA SvResetHandled == ControlInv /\ MsgGnssResetSvTypeConfig => ControlInv'
<1> SUFFICES ASSUME ControlInv, MsgGnssResetSvTypeConfig PROVE ControlInv'
  OBVIOUS
<1>t. ControlTypes
  BY DEF ControlInv
<1>0. PICK ids \in ReadSvIds :
        /\ ControlHandles("svReset") /\ mGnssSvTypeConfig' = NoSvType
        /\ controlCalls' = controlCalls \o <<BlackCall(ids, {}), ResetCall>>
        /\ UNCHANGED <<GPS_LOCK, mAfwControlId, mSupportNfwControl>>
  BY DEF MsgGnssResetSvTypeConfig, Calls, SetSvTypeConfig
<1>1. ids \in SUBSET Constellation /\ {} \in SUBSET Constellation /\ {} \in Locks
  BY <1>t, ReadSvIdsType DEF Locks
<1> DEFINE B == BlackCall(ids, {})
           R == ResetCall
<1>2. B \in ModemCall /\ B.call = "black" /\ AllBlack(B.black) = {}
  BY <1>1, BlacklistType DEF BlackCall
<1>3. R \in ModemCall /\ R.call = "reset"
  BY DEF ResetCall, ModemCall
<1>4. NoSvType \in SvType /\ NoSvType.black = {} /\ NoSvType.enabled = {}
  BY DEF NoSvType, SvType
<1>5. controlCalls' = controlCalls \o <<B, R>>
  BY <1>0
<1> HIDE DEF B, R
<1>6. <<B, R>> = <<B>> \o <<R>> /\ <<B, R>> \in Seq(ModemCall)
  BY <1>2, <1>3, PairPosts
<1>7. /\ <<B>> \in Seq(ModemCall) /\ NoneOf(<<B>>, LockCalls)
      /\ LastIs(<<B>>, BlackCalls, Blacking({}))
      /\ \A c : NoneOf(<<B>>, Switching(c))
  BY <1>1, <1>2, OneCall
<1>8. /\ <<R>> \in Seq(ModemCall) /\ NoneOf(<<R>>, LockCalls) /\ NoneOf(<<R>>, BlackCalls)
      /\ \A c : ~NoneOf(<<R>>, Switching(c)) /\ ~LastIs(<<R>>, Switching(c), EnableCallsOf(c))
  BY <1>1, <1>3, OneCall
<1>9. \A T, P :
        /\ NoneOf(<<B, R>>, T) <=> NoneOf(<<B>>, T) /\ NoneOf(<<R>>, T)
        /\ LastIs(<<B, R>>, T, P) <=> LastIs(<<R>>, T, P) \/ (NoneOf(<<R>>, T) /\ LastIs(<<B>>, T, P))
  BY <1>6, <1>7, <1>8, OutcomePosts
<1>10. controlCalls' \in Seq(ModemCall)
  BY <1>5, <1>6, <1>t, PostMessages DEF ControlTypes, QueueTypes
<1>11. /\ ControlTypes' /\ Versions' /\ Enabling' /\ Allowing' /\ OwnLock'
       /\ LockOnRestart' = LockOnRestart /\ (UpToDate' <=> UpToDate)
  BY <1>0, <1>4, <1>10, SvHandled
<1>12. UNCHANGED <<modem, svTypeLast>>
  BY <1>0 DEF ControlHandles, ControlTakes, controlEngine
<1>13. NoneOf(<<B, R>>, LockCalls) /\ LastIs(<<B, R>>, BlackCalls, Blacking({}))
  BY <1>7, <1>8, <1>9
<1>14. \A c : /\ ~NoneOf(<<B, R>>, Switching(c))
              /\ ~LastIs(<<B, R>>, Switching(c), EnableCallsOf(c))
  BY <1>8, <1>9
<1>15. LockSent' /\ EnabledSent' /\ BlackSent'
  BY <1>0, <1>4, <1>5, <1>6, <1>11, <1>12, <1>13, <1>14, CallsSent
<1> QED
  BY <1>11, <1>15 DEF ControlInv

\* The four calls of a restart, in their order
LEMMA RestartCalls ==
  ASSUME ControlTypes, NEW s \in ReadSvIds, NEW t \in ReadSvIds, NEW u \in ReadSvIds,
         NEW r, r = <<SetConfigCall(s), BlackCall(t, {}),
                      BlackCall(u, mGnssSvTypeConfig.black)>>
                      \o EnableCalls(mGnssSvTypeConfig)
  PROVE  /\ r \in Seq(ModemCall)
         /\ LastIs(r, LockCalls, Locking(LockOnRestart))
         /\ LastIs(r, BlackCalls, Blacking(mGnssSvTypeConfig.black))
         /\ \A c \in Constellation :
              IF c \in mGnssSvTypeConfig.enabled
              THEN LastIs(r, Switching(c), EnableCallsOf(c))
              ELSE NoneOf(r, Switching(c))
<1>1. /\ {s, t, u} \subseteq SUBSET Constellation /\ {} \in SUBSET Constellation
      /\ mGnssSvTypeConfig.black \in SUBSET Constellation /\ LockOnRestart \in Locks
      /\ mGnssSvTypeConfig \in SvType
  BY ReadSvIdsType, LockOnRestartType DEF ControlTypes, AdapterTypes, SvType
<1> DEFINE A == SetConfigCall(s)
           B == BlackCall(t, {})
           C == BlackCall(u, mGnssSvTypeConfig.black)
           E == EnableCalls(mGnssSvTypeConfig)
<1>2. A \in ModemCall /\ A.call = "config" /\ A.lock = {LockOnRestart} /\ A.ids # {}
  BY <1>1 DEF SetConfigCall, ModemCall, Opt
<1>3. B \in ModemCall /\ B.call = "black" /\ AllBlack(B.black) = {}
  BY <1>1, BlacklistType DEF BlackCall
<1>4. C \in ModemCall /\ C.call = "black" /\ AllBlack(C.black) = mGnssSvTypeConfig.black
  BY <1>1, BlacklistType DEF BlackCall
<1>5. /\ E \in Seq(ModemCall) /\ NoneOf(E, LockCalls) /\ NoneOf(E, BlackCalls)
      /\ \A c \in Constellation : IF c \in mGnssSvTypeConfig.enabled
                                  THEN LastIs(E, Switching(c), EnableCallsOf(c))
                                  ELSE NoneOf(E, Switching(c))
  BY <1>1, EnableCallsSet
<1>6. r = <<A, B, C>> \o E
  OBVIOUS
<1> HIDE DEF A, B, C, E
<1>7. /\ <<A>> \in Seq(ModemCall) /\ LastIs(<<A>>, LockCalls, Locking(LockOnRestart))
      /\ \A c : NoneOf(<<A>>, Switching(c))
  BY <1>1, <1>2, OneCall
<1>8. /\ <<B>> \in Seq(ModemCall) /\ NoneOf(<<B>>, LockCalls)
      /\ \A c : NoneOf(<<B>>, Switching(c))
  BY <1>1, <1>3, OneCall
<1>9. /\ <<C>> \in Seq(ModemCall) /\ NoneOf(<<C>>, LockCalls)
      /\ LastIs(<<C>>, BlackCalls, Blacking(mGnssSvTypeConfig.black))
      /\ \A c : NoneOf(<<C>>, Switching(c))
  BY <1>1, <1>4, OneCall
<1>10. <<B, C>> = <<B>> \o <<C>> /\ <<B, C>> \in Seq(ModemCall)
  BY <1>3, <1>4, PairPosts
<1>a. <<A, B, C>> = <<A>> \o <<B, C>>
  <2>1. A \in ModemCall /\ B \in ModemCall /\ C \in ModemCall
    BY <1>2, <1>3, <1>4
  <2> QED  BY <2>1, TriplePosts, Zenon
<1>b. PICK bc \in Seq(ModemCall) : bc = <<B>> \o <<C>> /\ bc = <<B, C>>
  BY <1>10
<1>c. PICK abc \in Seq(ModemCall) : abc = <<A>> \o bc /\ abc = <<A, B, C>>
  <2>1. <<A>> \o bc \in Seq(ModemCall)
    BY <1>7, PostMessages
  <2> QED  BY <1>a, <1>b, <2>1
<1>11. \A T, P :
         /\ NoneOf(bc, T) <=> NoneOf(<<B>>, T) /\ NoneOf(<<C>>, T)
         /\ LastIs(bc, T, P)
              <=> LastIs(<<C>>, T, P) \/ (NoneOf(<<C>>, T) /\ LastIs(<<B>>, T, P))
  <2>1. \A T, P :
         /\ NoneOf(<<B>> \o <<C>>, T) <=> NoneOf(<<B>>, T) /\ NoneOf(<<C>>, T)
         /\ LastIs(<<B>> \o <<C>>, T, P)
              <=> LastIs(<<C>>, T, P) \/ (NoneOf(<<C>>, T) /\ LastIs(<<B>>, T, P))
    BY <1>8, <1>9, OutcomePosts
  <2> QED  BY <1>b, <2>1
<1>12. \A T, P :
         /\ NoneOf(abc, T) <=> NoneOf(<<A>>, T) /\ NoneOf(bc, T)
         /\ LastIs(abc, T, P)
              <=> LastIs(bc, T, P) \/ (NoneOf(bc, T) /\ LastIs(<<A>>, T, P))
  <2>1. \A T, P :
         /\ NoneOf(<<A>> \o bc, T) <=> NoneOf(<<A>>, T) /\ NoneOf(bc, T)
         /\ LastIs(<<A>> \o bc, T, P)
              <=> LastIs(bc, T, P) \/ (NoneOf(bc, T) /\ LastIs(<<A>>, T, P))
    BY <1>7, OutcomePosts
  <2> QED  BY <1>c, <2>1
<1>13. /\ r \in Seq(ModemCall)
       /\ \A T, P :
            /\ NoneOf(r, T) <=> NoneOf(abc, T) /\ NoneOf(E, T)
            /\ LastIs(r, T, P)
                 <=> LastIs(E, T, P) \/ (NoneOf(E, T) /\ LastIs(abc, T, P))
  <2>1. r = abc \o E
    BY <1>6, <1>c
  <2>2. /\ abc \o E \in Seq(ModemCall)
        /\ \A T, P :
             /\ NoneOf(abc \o E, T) <=> NoneOf(abc, T) /\ NoneOf(E, T)
             /\ LastIs(abc \o E, T, P)
                  <=> LastIs(E, T, P) \/ (NoneOf(E, T) /\ LastIs(abc, T, P))
    BY <1>5, OutcomePosts, PostMessages
  <2> QED  BY <2>1, <2>2
<1>14. LastIs(r, LockCalls, Locking(LockOnRestart))
  BY <1>5, <1>7, <1>8, <1>9, <1>11, <1>12, <1>13
<1>15. LastIs(r, BlackCalls, Blacking(mGnssSvTypeConfig.black))
  BY <1>5, <1>9, <1>11, <1>12, <1>13
<1>16. \A c \in Constellation : NoneOf(abc, Switching(c))
  BY <1>7, <1>8, <1>9, <1>11, <1>12
<1> QED
  BY <1>5, <1>13, <1>14, <1>15, <1>16

\* After a restart the adapter sends everything again.
LEMMA EngineUpHandled == ControlInv /\ MsgControlEngineUp => ControlInv'
<1> SUFFICES ASSUME ControlInv, MsgControlEngineUp PROVE ControlInv'
  OBVIOUS
<1>t. ControlTypes /\ ClientTypes /\ AdapterTypes /\ EngineTypes /\ QueueTypes
  BY DEF ControlInv, ControlTypes
<1> DEFINE h == Head(controlMsgs)
<1>0. /\ controlMsgs # <<>> /\ h.what = "engineUp"
      /\ controlMsgs' = Tail(controlMsgs) \o controlPending
      /\ controlKnown' = TRUE /\ controlPending' = <<>>
      /\ UNCHANGED <<framework, controlClient, controlAdapter, controlEngine>>
  BY DEF MsgControlEngineUp
<1>1. PICK s \in ReadSvIds, t \in ReadSvIds, u \in ReadSvIds :
        controlCalls' = controlCalls \o
          (<<SetConfigCall(s), BlackCall(t, {}), BlackCall(u, mGnssSvTypeConfig.black)>>
             \o EnableCalls(mGnssSvTypeConfig))
  BY DEF MsgControlEngineUp, Calls
<1>2. PICK r : r = <<SetConfigCall(s), BlackCall(t, {}),
                     BlackCall(u, mGnssSvTypeConfig.black)>>
                     \o EnableCalls(mGnssSvTypeConfig)
  OBVIOUS
<1>3. /\ r \in Seq(ModemCall)
      /\ LastIs(r, LockCalls, Locking(LockOnRestart))
      /\ LastIs(r, BlackCalls, Blacking(mGnssSvTypeConfig.black))
      /\ \A c \in Constellation :
           IF c \in mGnssSvTypeConfig.enabled
           THEN LastIs(r, Switching(c), EnableCallsOf(c))
           ELSE NoneOf(r, Switching(c))
  BY <1>t, <1>2, RestartCalls
<1>4. h \in ControlMsg /\ Tail(controlMsgs) \in Seq(ControlMsg)
  BY <1>0, <1>t, ControlHead
<1>5. h \notin SwitchMsg /\ h \notin NfwMsg /\ h \notin LockMsg
  BY <1>0 DEF SwitchMsg, NfwMsg, LockMsg, ConfigMsg
<1>6. controlPending \in Seq(ControlMsg)
  BY <1>t DEF QueueTypes, ControlMsg
<1>7. NoneOf(controlPending, SwitchMsg) /\ NoneOf(controlPending, NfwMsg)
  <2>1. \A m \in WaitingMsg : m \notin SwitchMsg /\ m \notin NfwMsg
    BY DEF WaitingMsg, ConfigMsg, SwitchMsg, NfwMsg
  <2>2. \A i \in DOMAIN controlPending : controlPending[i] \in WaitingMsg
    BY <1>t DEF QueueTypes
  <2> QED  BY <2>1, <2>2 DEF NoneOf
<1>8. \A T, P : /\ NoneOf(controlMsgs, T) <=> h \notin T /\ NoneOf(Tail(controlMsgs), T)
                /\ LastIs(controlMsgs, T, P)
                     <=> \/ LastIs(Tail(controlMsgs), T, P)
                         \/ NoneOf(Tail(controlMsgs), T) /\ h \in T /\ h \in P
  BY <1>0, <1>t, OutcomeTake DEF QueueTypes
<1>9. /\ controlMsgs' \in Seq(ControlMsg)
      /\ \A T, P :
           /\ NoneOf(controlMsgs', T) <=> NoneOf(Tail(controlMsgs), T) /\ NoneOf(controlPending, T)
           /\ LastIs(controlMsgs', T, P)
                <=> \/ LastIs(controlPending, T, P)
                    \/ NoneOf(controlPending, T) /\ LastIs(Tail(controlMsgs), T, P)
  BY <1>0, <1>4, <1>6, OutcomePosts, PostMessages
<1> HIDE DEF h
<1>10. /\ UNCHANGED <<framework, mEnabled, controlSession, nfwAllowed, askedLocks, modem,
                      svTypeLast, GPS_LOCK, mAfwControlId, mSupportNfwControl,
                      mGnssSvTypeConfig>>
       /\ LockOnRestart' = LockOnRestart
  BY <1>0 DEF controlClient, controlAdapter, controlEngine, LockOnRestart
<1>11. ClientTypes' /\ EngineTypes'
  BY <1>0, <1>t DEF ClientTypes, EngineTypes, controlClient, controlEngine
<1>12. AdapterTypes'
  BY <1>0, <1>t DEF AdapterTypes, controlAdapter
<1>13. controlCalls' = controlCalls \o r
  BY <1>1, <1>2
<1>14. LockSent' /\ EnabledSent' /\ BlackSent' /\ controlCalls' \in Seq(ModemCall)
  BY <1>3, <1>10, <1>13, CallsSent
<1>15. QueueTypes'
  <2>1. <<>> \in Seq(WaitingMsg)
    OBVIOUS
  <2> QED  BY <1>0, <1>9, <1>14, <2>1 DEF QueueTypes
<1>16. \A T : NoneOf(controlPending', T)
  BY <1>0, EmptyOutcome
<1>17. Versions'
  <2>1. NoneOf(controlMsgs', Unasked(askedLocks)) /\ NoneOf(controlPending', Unasked(askedLocks))
    BY <1>8, <1>9, <1>16 DEF ControlInv, Versions
  <2>2. framework = "P" => ~nfwAllowed /\ NoneOf(controlMsgs', NfwMsg)
    BY <1>7, <1>8, <1>9 DEF ControlInv, Versions
  <2>3. mSupportNfwControl /\ askedLocks # {} => ~NoneOf(controlMsgs', LockMsg)
    BY <1>5, <1>8, <1>9 DEF ControlInv, Versions
  <2>4. framework = "Q" => mSupportNfwControl /\ askedLocks = {}
    BY DEF ControlInv, Versions
  <2> QED  BY <1>10, <2>1, <2>2, <2>3, <2>4 DEF Versions
<1>18. \A P : ~LastIs(controlPending, SwitchMsg, P) /\ ~LastIs(controlPending, NfwMsg, P)
  BY <1>7 DEF NoneOf, LastIs
<1>19. Enabling'
  BY <1>5, <1>7, <1>8, <1>9, <1>10, <1>18 DEF ControlInv, Enabling, Outcome
<1>20. Allowing'
  BY <1>5, <1>7, <1>8, <1>9, <1>10, <1>18 DEF ControlInv, Allowing, Outcome
<1>21. OwnLock'
  BY <1>10 DEF ControlInv, OwnLock
<1> QED
  BY <1>11, <1>12, <1>14, <1>15, <1>17, <1>19, <1>20, <1>21 DEF ControlInv, ControlTypes
-----------------------------------------------------------------------------
\* What the engine does with a call is what the outcome of the calls says.
LEMMA CallTaken ==
  ASSUME ControlInv, NEW h, h = Head(controlCalls),
         controlCalls # <<>>, controlCalls' = Tail(controlCalls),
         UNCHANGED <<controlAdapter, controlMsgs>>, modem'.up = modem.up,
         modem.up => IF h \in LockCalls
                     THEN \A l : h \in Locking(l) => modem'.lock = l
                     ELSE modem'.lock = modem.lock,
         \A c \in Constellation :
           c \in modem'.enabled
             <=> IF modem.up THEN h \in EnableCallsOf(c) \/ (h \notin Switching(c) /\ c \in modem.enabled)
                 ELSE c \in modem.enabled,
         modem.up => IF h \in BlackCalls
                     THEN svTypeLast' => h.call = "black" /\ modem'.black = h.black
                     ELSE svTypeLast' = svTypeLast /\ modem'.black = modem.black
  PROVE  LockSent' /\ EnabledSent' /\ BlackSent'
<1>1. \A T, P : /\ NoneOf(controlCalls, T) <=> h \notin T /\ NoneOf(controlCalls', T)
                /\ LastIs(controlCalls, T, P)
                     <=> \/ LastIs(controlCalls', T, P)
                         \/ NoneOf(controlCalls', T) /\ h \in T /\ h \in P
  BY OutcomeTake DEF ControlInv, ControlTypes, QueueTypes
<1>2. UpToDate' <=> UpToDate
  BY DEF UpToDate, EngineUpMsg
<1>3. LockOnRestart' = LockOnRestart /\ mGnssSvTypeConfig' = mGnssSvTypeConfig
  BY DEF LockOnRestart, controlAdapter
<1>4. LockSent'
  <2>1. UpToDate =>
          \/ LastIs(controlCalls, LockCalls, Locking(LockOnRestart))
          \/ NoneOf(controlCalls, LockCalls) /\ modem.lock = LockOnRestart
    BY DEF ControlInv, LockSent, Outcome
  <2>2. UpToDate => modem.up
    BY DEF UpToDate
  <2>3. UpToDate =>
          \/ LastIs(controlCalls', LockCalls, Locking(LockOnRestart))
          \/ NoneOf(controlCalls', LockCalls) /\ modem'.lock = LockOnRestart
    BY <1>1, <2>1, <2>2
  <2> QED  BY <1>2, <1>3, <2>3 DEF LockSent, Outcome, LockCalls, Locking
<1>5. BlackSent'
  <2>1. \/ LastIs(controlCalls, BlackCalls, Blacking(mGnssSvTypeConfig.black))
        \/ /\ NoneOf(controlCalls, BlackCalls)
           /\ UpToDate /\ svTypeLast => AllBlack(modem.black) = mGnssSvTypeConfig.black
    BY DEF ControlInv, BlackSent, Outcome
  <2>2. UpToDate => modem.up
    BY DEF UpToDate
  <2>3. h \in Blacking(mGnssSvTypeConfig.black) /\ h.call = "black"
          => AllBlack(h.black) = mGnssSvTypeConfig.black
    BY DEF Blacking
  <2>4. \/ LastIs(controlCalls', BlackCalls, Blacking(mGnssSvTypeConfig.black))
        \/ /\ NoneOf(controlCalls', BlackCalls)
           /\ UpToDate /\ svTypeLast' => AllBlack(modem'.black) = mGnssSvTypeConfig.black
    BY <1>1, <2>1, <2>2, <2>3
  <2> QED  BY <1>2, <1>3, <2>4 DEF BlackSent, Outcome, BlackCalls, Blacking, AllBlack
<1>6. EnabledSent'
  <2> SUFFICES ASSUME NEW c \in Constellation
      PROVE  /\ Outcome(controlCalls', Switching(c), EnableCallsOf(c), c \in modem'.enabled)
                  => c \in mGnssSvTypeConfig'.enabled
             /\ UpToDate' /\ c \in mGnssSvTypeConfig'.enabled =>
                  Outcome(controlCalls', Switching(c), EnableCallsOf(c), c \in modem'.enabled)
             /\ ~modem'.up => c \notin modem'.enabled
    BY DEF EnabledSent, Switching, EnableCallsOf
  <2>1. /\ NoneOf(controlCalls, Switching(c))
             <=> h \notin Switching(c) /\ NoneOf(controlCalls', Switching(c))
        /\ LastIs(controlCalls, Switching(c), EnableCallsOf(c))
             <=> \/ LastIs(controlCalls', Switching(c), EnableCallsOf(c))
                 \/ /\ NoneOf(controlCalls', Switching(c))
                    /\ h \in Switching(c) /\ h \in EnableCallsOf(c)
    BY <1>1
  <2>2. /\ LastIs(controlCalls', Switching(c), EnableCallsOf(c))
             => ~NoneOf(controlCalls', Switching(c))
        /\ h \in EnableCallsOf(c) => h \in Switching(c)
    BY DEF LastIs, NoneOf, Switching
  <2>3. /\ Outcome(controlCalls, Switching(c), EnableCallsOf(c), c \in modem.enabled)
             => c \in mGnssSvTypeConfig.enabled
        /\ UpToDate /\ c \in mGnssSvTypeConfig.enabled =>
             Outcome(controlCalls, Switching(c), EnableCallsOf(c), c \in modem.enabled)
        /\ ~modem.up => c \notin modem.enabled
    BY DEF ControlInv, EnabledSent
  <2>4. UpToDate => modem.up
    BY DEF UpToDate
  <2> QED  BY <1>2, <1>3, <2>1, <2>2, <2>3, <2>4 DEF Outcome
<1> QED  BY <1>4, <1>5, <1>6

\* Only the engine and its calls change.
LEMMA ModemTypes ==
  ASSUME ControlInv, UNCHANGED <<framework, controlClient, controlAdapter, controlWait>>,
         UNCHANGED controlMsgs, controlCalls' \in Seq(ModemCall), EngineTypes'
  PROVE  ControlTypes' /\ Versions' /\ Enabling' /\ Allowing' /\ OwnLock'
<1>t. ClientTypes /\ AdapterTypes /\ EngineTypes /\ QueueTypes
  BY DEF ControlInv, ControlTypes
<1>1. ClientTypes'
  BY <1>t DEF ClientTypes, controlClient
<1>2. AdapterTypes'
  BY <1>t DEF AdapterTypes, controlAdapter, controlWait
<1>3. QueueTypes'
  BY <1>t DEF QueueTypes, controlWait
<1>4. Versions' /\ OwnLock'
  BY DEF ControlInv, Versions, OwnLock, NoneOf, NfwMsg, Unasked, LockMsg, controlClient,
         controlAdapter, controlWait
<1>5. Enabling'
  BY DEF ControlInv, Enabling, Outcome, LastIs, NoneOf, SwitchMsg, EnableMsg,
         controlClient, controlAdapter
<1>6. Allowing'
  BY DEF ControlInv, Allowing, Outcome, LastIs, NoneOf, NfwMsg, AllowMsg,
         controlClient, controlAdapter
<1> QED  BY <1>1, <1>2, <1>3, <1>4, <1>5, <1>6, <1>t DEF ControlTypes

\* The modem takes a lock.
LEMMA SetLockTaken == ControlInv /\ ModemSetLock => ControlInv'
<1> SUFFICES ASSUME ControlInv, ModemSetLock PROVE ControlInv'
  OBVIOUS
<1>t. ControlTypes /\ EngineTypes
  BY DEF ControlInv, ControlTypes
<1>h. PICK h : h = Head(controlCalls)
  OBVIOUS
<1>0. /\ controlCalls # <<>> /\ h.call = "lock" /\ controlCalls' = Tail(controlCalls)
      /\ UNCHANGED <<framework, controlClient, controlAdapter, controlWait, controlMsgs>>
      /\ modem' = IF modem.up THEN [modem EXCEPT !.lock = h.lock] ELSE modem
      /\ UNCHANGED <<mBlacklistedSvIds, svTypeLast>>
  BY <1>h DEF ModemSetLock, ModemTakes, ModemBecomes
<1>1. h \in ModemCall /\ controlCalls' \in Seq(ModemCall) /\ h.lock \in Locks
  BY <1>h, <1>0, <1>t, CallHead
<1>2. h \in LockCalls /\ (\A l : h \in Locking(l) => h.lock = l) /\ h \notin BlackCalls
      /\ \A c : h \notin Switching(c) /\ h \notin EnableCallsOf(c)
  BY <1>0, <1>1 DEF LockCalls, Locking, BlackCalls, Switching, EnableCallsOf
<1>3. EngineTypes'
  BY <1>0, <1>1, <1>t DEF EngineTypes
<1>4. /\ modem'.up = modem.up /\ modem'.black = modem.black
      /\ modem'.enabled = modem.enabled
      /\ modem.up => modem'.lock = h.lock
  BY <1>0, <1>t DEF EngineTypes
<1>5. LockSent' /\ EnabledSent' /\ BlackSent'
  BY <1>h, <1>0, <1>2, <1>4, CallTaken
<1> QED
  BY <1>0, <1>1, <1>3, <1>5, ModemTypes DEF ControlInv

\* The modem takes a blacklist.
LEMMA BlackTaken == ControlInv /\ ModemSetBlacklist => ControlInv'
<1> SUFFICES ASSUME ControlInv, ModemSetBlacklist PROVE ControlInv'
  OBVIOUS
<1>t. ControlTypes /\ EngineTypes
  BY DEF ControlInv, ControlTypes
<1>h. PICK h : h = Head(controlCalls)
  OBVIOUS
<1>0. /\ controlCalls # <<>> /\ h.call = "black" /\ controlCalls' = Tail(controlCalls)
      /\ UNCHANGED <<framework, controlClient, controlAdapter, controlWait, controlMsgs>>
      /\ modem' = IF modem.up THEN [modem EXCEPT !.black = h.black] ELSE modem
      /\ svTypeLast' = TRUE /\ UNCHANGED mBlacklistedSvIds
  BY <1>h DEF ModemSetBlacklist, ModemTakes, ModemBecomes
<1>1. h \in ModemCall /\ controlCalls' \in Seq(ModemCall) /\ h.black \in Blacklists
  BY <1>h, <1>0, <1>t, CallHead
<1>2. h \notin LockCalls /\ h \in BlackCalls
      /\ \A c : h \notin Switching(c) /\ h \notin EnableCallsOf(c)
  BY <1>0, <1>1 DEF LockCalls, BlackCalls, Switching, EnableCallsOf
<1>3. EngineTypes'
  BY <1>0, <1>1, <1>t DEF EngineTypes
<1>4. /\ modem'.up = modem.up /\ modem'.lock = modem.lock
      /\ modem'.enabled = modem.enabled
      /\ modem.up => modem'.black = h.black
  BY <1>0, <1>t DEF EngineTypes
<1>5. LockSent' /\ EnabledSent' /\ BlackSent'
  BY <1>h, <1>0, <1>2, <1>4, CallTaken
<1> QED
  BY <1>0, <1>1, <1>3, <1>5, ModemTypes DEF ControlInv

\* The modem takes enabled constellations, or their reset.
LEMMA ConstellationsTaken == ControlInv /\ ModemSetConstellations => ControlInv'
<1> SUFFICES ASSUME ControlInv, ModemSetConstellations PROVE ControlInv'
  OBVIOUS
<1>t. ControlTypes /\ EngineTypes
  BY DEF ControlInv, ControlTypes
<1>h. PICK h : h = Head(controlCalls)
  OBVIOUS
<1>0. /\ controlCalls # <<>> /\ controlCalls' = Tail(controlCalls)
      /\ UNCHANGED <<framework, controlClient, controlAdapter, controlWait, controlMsgs>>
      /\ \/ /\ h.call = "enable"
            /\ modem' = IF modem.up THEN [modem EXCEPT !.enabled = @ \cup h.types] ELSE modem
         \/ /\ h.call = "reset"
            /\ modem' = IF modem.up THEN [modem EXCEPT !.enabled = {}] ELSE modem
      /\ UNCHANGED <<mBlacklistedSvIds, svTypeLast>>
  BY <1>h DEF ModemSetConstellations, ModemTakes, ModemBecomes
<1>1. /\ h \in ModemCall /\ controlCalls' \in Seq(ModemCall)
      /\ h.call = "enable" => h.types \subseteq Constellation
  BY <1>h, <1>0, <1>t, CallHead
<1>2. h \notin LockCalls /\ h \notin BlackCalls
  BY <1>0, <1>1 DEF LockCalls, BlackCalls
<1>3. EngineTypes'
  <2>1. CASE modem' = modem
    BY <2>1, <1>0, <1>t DEF EngineTypes
  <2>2. CASE h.call = "enable" /\ modem' = [modem EXCEPT !.enabled = @ \cup h.types]
    <3>1. modem.enabled \cup h.types \in SUBSET Constellation
      BY <1>1, <2>2, <1>t DEF EngineTypes
    <3>2. modem' = [modem EXCEPT !.enabled = modem.enabled \cup h.types]
      BY <2>2
    <3> QED  BY <1>0, <1>t, <3>1, <3>2 DEF EngineTypes
  <2>3. CASE modem' = [modem EXCEPT !.enabled = {}]
    BY <2>3, <1>0, <1>t DEF EngineTypes
  <2> QED  BY <1>0, <2>1, <2>2, <2>3
<1>4. /\ modem'.up = modem.up /\ modem'.lock = modem.lock /\ modem'.black = modem.black
      /\ modem'.enabled = IF ~modem.up THEN modem.enabled
                          ELSE IF h.call = "enable" THEN modem.enabled \cup h.types ELSE {}
  BY <1>0, <1>t DEF EngineTypes
<1>5. ASSUME NEW c \in Constellation
      PROVE  /\ h \in EnableCallsOf(c) <=> h.call = "enable" /\ c \in h.types
             /\ h \in Switching(c) <=> h.call = "reset" \/ (h.call = "enable" /\ c \in h.types)
  <2>1. h \in ModemCall
    BY <1>1
  <2> QED  BY <2>1 DEF Switching, EnableCallsOf
<1>6. \A c \in Constellation :
        c \in modem'.enabled
          <=> IF modem.up THEN h \in EnableCallsOf(c) \/ (h \notin Switching(c) /\ c \in modem.enabled)
              ELSE c \in modem.enabled
  BY <1>0, <1>4, <1>5
<1>7. LockSent' /\ EnabledSent' /\ BlackSent'
  BY <1>h, <1>0, <1>2, <1>4, <1>6, CallTaken
<1>8. UNCHANGED <<framework, controlClient, controlAdapter, controlWait, controlMsgs>>
  BY <1>0
<1>9. controlCalls' \in Seq(ModemCall)
  BY <1>1
<1>10. ControlTypes' /\ Versions' /\ Enabling' /\ Allowing' /\ OwnLock'
  BY <1>3, <1>8, <1>9, ModemTypes
<1> QED
  BY <1>7, <1>10 DEF ControlInv

\* The modem takes a configuration.
LEMMA ConfigTaken == ControlInv /\ ModemUpdateConfig => ControlInv'
<1> SUFFICES ASSUME ControlInv, ModemUpdateConfig PROVE ControlInv'
  OBVIOUS
<1>t. ControlTypes /\ EngineTypes
  BY DEF ControlInv, ControlTypes
<1>h. PICK h : h = Head(controlCalls)
  OBVIOUS
<1>i. PICK ids : ids = IF h.ids = {} THEN mBlacklistedSvIds ELSE CHOOSE x \in h.ids : TRUE
  OBVIOUS
<1>l. PICK lock : lock = IF h.lock = {} THEN modem.lock ELSE CHOOSE x \in h.lock : TRUE
  OBVIOUS
<1>b. PICK black : black = IF h.ids = {} THEN modem.black ELSE Blacklist(ids, {})
  OBVIOUS
<1>0. /\ controlCalls # <<>> /\ h.call = "config" /\ controlCalls' = Tail(controlCalls)
      /\ UNCHANGED <<framework, controlClient, controlAdapter, controlWait, controlMsgs>>
      /\ mBlacklistedSvIds' = ids
      /\ modem' = IF modem.up THEN [modem EXCEPT !.lock = lock, !.black = black] ELSE modem
      /\ svTypeLast' = (svTypeLast /\ h.ids = {})
  BY <1>h, <1>i, <1>l, <1>b DEF ModemUpdateConfig, ModemTakes, ModemBecomes
<1>1. h \in ModemCall /\ controlCalls' \in Seq(ModemCall)
      /\ h.lock \in Opt(Locks) /\ h.ids \in Opt(SUBSET Constellation)
  BY <1>h, <1>0, <1>t, CallHead
<1>2. /\ lock \in Locks
      /\ h.lock # {} => h.lock = {lock}
  <2>1. CASE h.lock = {}
    BY <2>1, <1>l, <1>t DEF EngineTypes
  <2>2. CASE h.lock # {}
    <3>1. (CHOOSE x \in h.lock : TRUE) \in Locks /\ h.lock = {CHOOSE x \in h.lock : TRUE}
      <4>1. h.lock \in Opt(Locks)
        BY <1>1
      <4> QED  BY <4>1, <2>2, GivenType
    <3> QED  BY <2>2, <3>1, <1>l
  <2> QED  BY <2>1, <2>2
<1>3. ids \in SUBSET Constellation
  <2>1. CASE h.ids = {}
    BY <2>1, <1>i, <1>t DEF EngineTypes
  <2>2. CASE h.ids # {}
    <3>1. (CHOOSE x \in h.ids : TRUE) \in SUBSET Constellation
      <4>1. PICK S, opt : S = SUBSET Constellation /\ opt = h.ids
        OBVIOUS
      <4>2. opt \in Opt(S) /\ opt # {}
        BY <1>1, <2>2, <4>1
      <4>3. (CHOOSE x \in opt : TRUE) \in S
        BY <4>2, GivenType
      <4> QED  BY <4>1, <4>3
    <3> QED  BY <2>2, <3>1, <1>i
  <2> QED  BY <2>1, <2>2
<1>4. black \in Blacklists
  BY <1>3, <1>b, <1>t, BlacklistType DEF EngineTypes
<1>5. EngineTypes'
  <2>1. svTypeLast' \in BOOLEAN
    BY <1>0, <1>t DEF EngineTypes
  <2>2. modem' \in [up : BOOLEAN, crashes : 0 .. MaxControlCrashes, lock : Locks,
                    enabled : SUBSET Constellation, black : Blacklists]
    <3>1. /\ modem \in [up : BOOLEAN, crashes : 0 .. MaxControlCrashes, lock : Locks,
                        enabled : SUBSET Constellation, black : Blacklists]
          /\ lock \in Locks /\ black \in Blacklists
      BY <1>2, <1>4, <1>t DEF EngineTypes
    <3>2. modem' = modem \/ modem' = [modem EXCEPT !.lock = lock, !.black = black]
      BY <1>0
    <3> QED  BY <3>1, <3>2
  <2> QED  BY <1>0, <1>3, <2>1, <2>2 DEF EngineTypes
<1>6. /\ modem'.up = modem.up /\ modem'.enabled = modem.enabled
      /\ modem.up => modem'.lock = lock /\ modem'.black = black
  BY <1>0, <1>t DEF EngineTypes
<1>7. /\ h \in LockCalls <=> h.lock # {}
      /\ \A l : h \in Locking(l) => h.lock = {l}
      /\ h \in BlackCalls <=> h.ids # {}
      /\ \A c : h \notin Switching(c) /\ h \notin EnableCallsOf(c)
  BY <1>0, <1>1 DEF LockCalls, Locking, BlackCalls, Switching, EnableCallsOf
<1>8. modem.up => IF h \in LockCalls THEN \A l : h \in Locking(l) => modem'.lock = l
                  ELSE modem'.lock = modem.lock
  BY <1>2, <1>6, <1>7, <1>l
<1>9. modem.up => IF h \in BlackCalls
                  THEN svTypeLast' => h.call = "black" /\ modem'.black = h.black
                  ELSE svTypeLast' = svTypeLast /\ modem'.black = modem.black
  BY <1>0, <1>6, <1>7, <1>b, <1>t DEF EngineTypes
<1>10. LockSent' /\ EnabledSent' /\ BlackSent'
  BY <1>h, <1>0, <1>6, <1>7, <1>8, <1>9, CallTaken
<1> QED
  BY <1>0, <1>1, <1>5, <1>10, ModemTypes DEF ControlInv

\* A crash takes the constellations and the blacklist out of the modem; the calls
\* on the way to it stay.
LEMMA CrashKeeps == ControlInv /\ ModemCrashes => ControlInv'
<1> SUFFICES ASSUME ControlInv, ModemCrashes PROVE ControlInv'
  OBVIOUS
<1>t. ControlTypes /\ EngineTypes /\ QueueTypes
  BY DEF ControlInv, ControlTypes
<1>0. /\ modem.up /\ modem.crashes < MaxControlCrashes
      /\ modem' = [modem EXCEPT !.up = FALSE, !.crashes = @ + 1, !.enabled = {},
                                !.black = Blacklist({}, {})]
      /\ UNCHANGED <<framework, controlClient, controlAdapter, controlWait, controlMsgs,
                     controlCalls, mBlacklistedSvIds, svTypeLast>>
  BY DEF ModemCrashes
<1>1. Blacklist({}, {}) \in Blacklists
  BY BlacklistType
<1>a. modem.crashes + 1 \in 0 .. MaxControlCrashes /\ {} \in SUBSET Constellation
      /\ modem.lock \in Locks
  BY <1>0, <1>t, ControlAssumption DEF EngineTypes
<1>b. modem \in [up : BOOLEAN, crashes : 0 .. MaxControlCrashes, lock : Locks,
                 enabled : SUBSET Constellation, black : Blacklists]
  BY <1>t DEF EngineTypes
<1>c. modem' = [up |-> FALSE, crashes |-> modem.crashes + 1, lock |-> modem.lock,
                enabled |-> {}, black |-> Blacklist({}, {})]
  BY <1>0, <1>b
<1>d. modem' \in [up : BOOLEAN, crashes : 0 .. MaxControlCrashes, lock : Locks,
                  enabled : SUBSET Constellation, black : Blacklists]
  BY <1>1, <1>a, <1>c
<1>2. EngineTypes'
  BY <1>0, <1>d, <1>t DEF EngineTypes
<1>3. ~modem'.up /\ modem'.enabled = {}
  BY <1>c
<1>4. ~UpToDate'
  BY <1>3 DEF UpToDate
<1>5. LockSent'
  BY <1>4 DEF LockSent
<1>6. BlackSent'
  <2>1. \/ LastIs(controlCalls, BlackCalls, Blacking(mGnssSvTypeConfig.black))
        \/ NoneOf(controlCalls, BlackCalls)
    BY DEF ControlInv, BlackSent, Outcome
  <2>2. controlCalls' = controlCalls /\ mGnssSvTypeConfig' = mGnssSvTypeConfig
    BY <1>0 DEF controlAdapter
  <2> QED  BY <1>4, <2>1, <2>2 DEF BlackSent, Outcome, BlackCalls, Blacking, AllBlack
<1>7. EnabledSent'
  <2> SUFFICES ASSUME NEW c \in Constellation
      PROVE  LastIs(controlCalls', Switching(c), EnableCallsOf(c))
                  => c \in mGnssSvTypeConfig'.enabled
    BY <1>3, <1>4 DEF EnabledSent, Switching, EnableCallsOf, Outcome
  <2>1. LastIs(controlCalls, Switching(c), EnableCallsOf(c)) => c \in mGnssSvTypeConfig.enabled
    BY DEF ControlInv, EnabledSent, Outcome
  <2> QED  BY <1>0, <2>1 DEF controlAdapter
<1> QED
  BY <1>0, <1>2, <1>5, <1>6, <1>7, <1>t, ModemTypes DEF ControlInv, QueueTypes

\* The adapter is told that the modem is up.
LEMMA ComesUpKeeps == ControlInv /\ ModemComesUp => ControlInv'
<1> SUFFICES ASSUME ControlInv, ModemComesUp PROVE ControlInv'
  OBVIOUS
<1>t. ControlTypes /\ ClientTypes /\ AdapterTypes /\ EngineTypes /\ QueueTypes
  BY DEF ControlInv, ControlTypes
<1>m. PICK m : m = [what |-> "engineUp"]
  OBVIOUS
<1>0. /\ ~modem.up /\ modem' = [modem EXCEPT !.up = TRUE]
      /\ controlMsgs' = Append(controlMsgs, m)
      /\ UNCHANGED <<framework, controlClient, controlAdapter, controlWait, controlCalls,
                     mBlacklistedSvIds, svTypeLast>>
  BY <1>m DEF ModemComesUp
<1>1. m \in ControlMsg /\ m \in EngineUpMsg /\ m \notin SwitchMsg /\ m \notin NfwMsg
      /\ m \notin LockMsg
  BY <1>m DEF ControlMsg, EngineUpMsg, SwitchMsg, NfwMsg, LockMsg, ConfigMsg
<1>2. /\ controlMsgs' \in Seq(ControlMsg)
      /\ \A T, P :
           /\ NoneOf(controlMsgs', T) <=> NoneOf(controlMsgs, T) /\ m \notin T
           /\ LastIs(controlMsgs', T, P)
                <=> (m \in T /\ m \in P) \/ (m \notin T /\ LastIs(controlMsgs, T, P))
  BY <1>0, <1>1, <1>t, PostMessage, OutcomePost DEF QueueTypes
<1>3. EngineTypes' /\ modem'.up /\ modem'.enabled = modem.enabled
  BY <1>0, <1>t DEF EngineTypes
<1>4. ~NoneOf(controlMsgs', EngineUpMsg)
  BY <1>1, <1>2
<1>5. ~UpToDate'
  BY <1>4 DEF UpToDate, EngineUpMsg, ControlMsg, WaitingMsg, ConfigMsg
<1>6. ClientTypes'
  BY <1>0, <1>t DEF ClientTypes, controlClient
<1>7. AdapterTypes'
  BY <1>0, <1>t DEF AdapterTypes, controlAdapter, controlWait
<1>8. QueueTypes'
  BY <1>0, <1>2, <1>t DEF QueueTypes, controlWait
<1>9. Versions'
  <2>1. \A a : m \notin Unasked(a)
    BY <1>1 DEF Unasked
  <2> QED
    BY <1>0, <1>1, <1>2, <2>1 DEF ControlInv, Versions, controlClient, controlAdapter, controlWait
<1>10. Enabling'
  BY <1>0, <1>1, <1>2 DEF ControlInv, Enabling, Outcome, controlClient, controlAdapter
<1>11. Allowing'
  BY <1>0, <1>1, <1>2 DEF ControlInv, Allowing, Outcome, controlClient, controlAdapter
<1>12. OwnLock'
  BY <1>0 DEF ControlInv, OwnLock, controlClient, controlAdapter
<1>13. LockSent'
  BY <1>5 DEF LockSent
<1>14. BlackSent'
  <2>1. \/ LastIs(controlCalls, BlackCalls, Blacking(mGnssSvTypeConfig.black))
        \/ NoneOf(controlCalls, BlackCalls)
    BY DEF ControlInv, BlackSent, Outcome
  <2>2. controlCalls' = controlCalls /\ mGnssSvTypeConfig' = mGnssSvTypeConfig
    BY <1>0 DEF controlAdapter
  <2> QED  BY <1>5, <2>1, <2>2 DEF BlackSent, Outcome, BlackCalls, Blacking, AllBlack
<1>15. EnabledSent'
  <2> SUFFICES ASSUME NEW c \in Constellation
      PROVE  Outcome(controlCalls', Switching(c), EnableCallsOf(c), c \in modem.enabled)
                  => c \in mGnssSvTypeConfig'.enabled
    BY <1>3, <1>5 DEF EnabledSent, Switching, EnableCallsOf, Outcome
  <2>1. Outcome(controlCalls, Switching(c), EnableCallsOf(c), c \in modem.enabled)
          => c \in mGnssSvTypeConfig.enabled
    BY DEF ControlInv, EnabledSent
  <2> QED  BY <1>0, <2>1 DEF controlAdapter
<1> QED
  BY <1>3, <1>6, <1>7, <1>8, <1>9, <1>10, <1>11, <1>12, <1>13, <1>14, <1>15
     DEF ControlInv, ControlTypes

\* Stuttering.
LEMMA ControlStutters == ControlInv /\ UNCHANGED controlVars => ControlInv'
<1> SUFFICES ASSUME ControlInv, UNCHANGED controlVars PROVE ControlInv'
  OBVIOUS
<1>0. /\ UNCHANGED <<framework, controlClient, controlAdapter, controlWait>>
      /\ UNCHANGED <<controlMsgs, controlCalls, controlEngine>>
  BY DEF controlVars
<1>1. EngineTypes' /\ controlCalls' \in Seq(ModemCall)
  BY <1>0 DEF ControlInv, ControlTypes, EngineTypes, QueueTypes, controlEngine
<1>2. UpToDate' => UpToDate
  BY <1>0 DEF UpToDate, controlEngine
<1>3. LockOnRestart' = LockOnRestart
  BY <1>0 DEF LockOnRestart, controlAdapter
<1>4. LockSent' /\ EnabledSent' /\ BlackSent'
  BY <1>0, <1>2, <1>3, SentUnchanged DEF ControlInv, controlEngine, controlAdapter
<1> QED
  BY <1>0, <1>1, <1>4, ModemTypes DEF ControlInv

\* The invariant is inductive.
LEMMA ControlStep == ControlInv /\ [ControlNext]_controlVars => ControlInv'
<1> SUFFICES ASSUME ControlInv, [ControlNext]_controlVars PROVE ControlInv'
  OBVIOUS
<1>1. CASE ControlCommand
  BY <1>1, CommandKeeps
<1>2. CASE ControlHandlesMsg
  BY <1>2, WaitKeeps, EnableHandled, DisableHandled, NfwHandled, ConfigHandled,
     SvTypeHandled, SvResetHandled, EngineUpHandled DEF ControlHandlesMsg
<1>3. CASE ModemStep
  BY <1>3, SetLockTaken, ConfigTaken, BlackTaken, ConstellationsTaken, CrashKeeps,
     ComesUpKeeps DEF ModemStep
<1>4. CASE UNCHANGED controlVars
  BY <1>4, ControlStutters
<1> QED
  BY <1>1, <1>2, <1>3, <1>4 DEF ControlNext

\* The invariant implies what the runs check.
LEMMA ControlInvMeans ==
  ControlInv => ControlTypeOK /\ EngineLockFollowsUser /\ ConstellationsServed
<1> SUFFICES ASSUME ControlInv
             PROVE  ControlTypeOK /\ EngineLockFollowsUser /\ ConstellationsServed
  OBVIOUS
<1>t. ClientTypes /\ AdapterTypes /\ EngineTypes /\ QueueTypes
  BY DEF ControlInv, ControlTypes
<1>1. ControlTypeOK
  <2>1. controlSession \in 0 .. MaxControl
    BY <1>t, ControlAssumption DEF ClientTypes
  <2>2. \A b \in {mEnabled, nfwAllowed, mSupportNfwControl, controlKnown, svTypeLast} :
          b \in BOOLEAN
    <3>1. /\ mEnabled \in BOOLEAN /\ nfwAllowed \in BOOLEAN /\ mSupportNfwControl \in BOOLEAN
          /\ controlKnown \in BOOLEAN /\ svTypeLast \in BOOLEAN
      BY <1>t DEF ClientTypes, AdapterTypes, EngineTypes
    <3> QED  BY <3>1, Zenon
  <2>3. /\ framework \in {"P", "Q"} /\ GPS_LOCK \in Locks /\ askedLocks \subseteq Locks
        /\ {controlSession, mAfwControlId} \subseteq 0 .. MaxControl
        /\ mBlacklistedSvIds \subseteq Constellation /\ mGnssSvTypeConfig \in SvType
    BY <1>t, <2>1 DEF ClientTypes, AdapterTypes, EngineTypes
  <2> QED
    BY <1>t, <2>2, <2>3 DEF ControlTypeOK, EngineTypes, Blacklists
<1> SUFFICES ASSUME ControlSettled
             PROVE  /\ modem.lock \in LocksWanted
                    /\ modem.enabled = mGnssSvTypeConfig.enabled
                    /\ svTypeLast => AllBlack(modem.black) = mGnssSvTypeConfig.black
  BY <1>1 DEF EngineLockFollowsUser, ConstellationsServed, AllBlack
<1>2. /\ modem.up /\ controlKnown /\ controlMsgs = <<>> /\ controlCalls = <<>>
      /\ controlPending = <<>>
  BY <1>t DEF ControlSettled, AdapterTypes
<1>3. \A T, P : /\ NoneOf(controlMsgs, T) /\ ~LastIs(controlMsgs, T, P)
                /\ NoneOf(controlCalls, T) /\ ~LastIs(controlCalls, T, P)
                /\ NoneOf(controlPending, T)
  BY <1>2, EmptyOutcome
<1>4. UpToDate
  BY <1>2, <1>3 DEF UpToDate
<1>5. modem.lock = LockOnRestart
  BY <1>3, <1>4 DEF ControlInv, LockSent, Outcome
<1>6. mAfwControlId # 0 <=> mEnabled
  BY <1>3 DEF ControlInv, Enabling, Outcome
<1>7. mSupportNfwControl => ("NI" \notin GPS_LOCK <=> nfwAllowed) /\ askedLocks = {}
  BY <1>3 DEF ControlInv, Allowing, Outcome, Versions
<1>8. LockOnRestart \in LocksWanted
  <2>1. CASE mSupportNfwControl
    <3>1. LockOnRestart = GPS_LOCK /\ GPS_LOCK \subseteq {"MO", "NI"}
      BY <2>1, <1>t DEF LockOnRestart, AdapterTypes, Locks, Lock
    <3>2. /\ "MO" \in GPS_LOCK <=> ~mEnabled
          /\ "NI" \in GPS_LOCK <=> ~nfwAllowed
      BY <2>1, <1>6, <1>7 DEF ControlInv, OwnLock
    <3>3. GPS_LOCK = (IF mEnabled THEN {} ELSE {"MO"}) \cup (IF nfwAllowed THEN {} ELSE {"NI"})
      BY <3>1, <3>2
    <3> QED  BY <2>1, <1>7, <3>1, <3>3 DEF LocksWanted
  <2>2. CASE ~mSupportNfwControl
    <3>1. PICK l \in askedLocks : GPS_LOCK = l \cup {"MO"}
      BY <2>2 DEF ControlInv, OwnLock
    <3>2. LockOnRestart = IF mEnabled THEN {} ELSE GPS_LOCK
      BY <2>2, <1>6 DEF LockOnRestart
    <3> QED  BY <3>1, <3>2 DEF LocksWanted
  <2> QED  BY <2>1, <2>2
<1>9. modem.enabled = mGnssSvTypeConfig.enabled
  <2>1. \A c \in Constellation : c \in modem.enabled <=> c \in mGnssSvTypeConfig.enabled
    BY <1>3, <1>4 DEF ControlInv, EnabledSent, Outcome
  <2>2. modem.enabled \subseteq Constellation /\ mGnssSvTypeConfig.enabled \subseteq Constellation
    BY <1>t DEF EngineTypes, AdapterTypes, SvType
  <2> QED  BY <2>1, <2>2
<1>10. svTypeLast => AllBlack(modem.black) = mGnssSvTypeConfig.black
  BY <1>3, <1>4 DEF ControlInv, BlackSent, Outcome
<1> QED
  BY <1>5, <1>8, <1>9, <1>10

\* The control session, its queues and the modem's settings keep their types.
THEOREM ControlTypeCorrect == ControlSpec => []ControlTypeOK
<1>1. ControlInit => ControlInv
  BY InitControl
<1>2. ControlInv /\ [ControlNext]_controlVars => ControlInv'
  BY ControlStep
<1>3. ControlInv => ControlTypeOK
  BY ControlInvMeans
<1> QED
  BY <1>1, <1>2, <1>3, PTL DEF ControlSpec

\* Once every message is handled, the lock in the modem is the one that the
\* user's switch, the framework's permission and the last configuration call for
\* (EngineLockFollowsUser): whatever the order of the calls, of their handling and
\* of the modem's crashes.
THEOREM LockFollowsUser == ControlSpec => []EngineLockFollowsUser
<1>1. ControlInit => ControlInv
  BY InitControl
<1>2. ControlInv /\ [ControlNext]_controlVars => ControlInv'
  BY ControlStep
<1>3. ControlInv => EngineLockFollowsUser
  BY ControlInvMeans
<1> QED
  BY <1>1, <1>2, <1>3, PTL DEF ControlSpec

\* Once every message is handled, the modem has the constellations and the
\* blacklist that the adapter believes it has (ConstellationsServed), crashes of the
\* modem included.
THEOREM ConstellationsFollow == ControlSpec => []ConstellationsServed
<1>1. ControlInit => ControlInv
  BY InitControl
<1>2. ControlInv /\ [ControlNext]_controlVars => ControlInv'
  BY ControlStep
<1>3. ControlInv => ConstellationsServed
  BY ControlInvMeans
<1> QED
  BY <1>1, <1>2, <1>3, PTL DEF ControlSpec

(***************************************************************************)
(* Both parts                                                              *)
(***************************************************************************)

\* Whichever part of the adapter runs, the state of both keeps its type.
THEOREM AdapterTypeCorrect == AdapterSpec => []AdapterTypeOK
<1> DEFINE Inv == TypeInv /\ ControlInv
<1>1. AdapterInit => Inv
  BY TypeInvInit, InitControl DEF AdapterInit
<1>2. Inv /\ [AdapterNext]_<<running, vars, controlVars>> => Inv'
  <2> SUFFICES ASSUME Inv, [AdapterNext]_<<running, vars, controlVars>> PROVE Inv'
    OBVIOUS
  <2>1. [Next]_vars /\ [ControlNext]_controlVars
    BY DEF AdapterNext, TrackingRuns, ControlRuns
  <2> QED  BY <2>1, TypeInvStep, ControlStep
<1>3. Inv => AdapterTypeOK
  BY ControlInvMeans DEF TypeInv, AdapterTypeOK
<1> QED
  BY <1>1, <1>2, <1>3, PTL DEF AdapterSpec
=============================================================================
