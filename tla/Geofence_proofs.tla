--------------------------- MODULE Geofence_proofs ----------------------------
(***************************************************************************)
(* Proofs about geofences: once everything under way has been handled, the *)
(* engine watches the fences that clients know, and a fence that is removed *)
(* stays so, for any number of clients, commands, refused calls and crashes. *)
(***************************************************************************)
EXTENDS Geofence, QueueLemmas

(***************************************************************************)
(* Geofences                                                               *)
(***************************************************************************)

GeofenceSpec == GeofenceInit /\ [][GeofenceNext]_gfVars

GfKey == [client : GfClient, id : 1..MaxFences]
GfOp == {"add", "remove", "pause", "resume", "modify"}
FencesWith(opts) == [key : GfKey, options : opts, paused : BOOLEAN]
GfFence == FencesWith(GfOption)
AnyHwId == {0} \cup HwId

\* The calls with what their answers will be made from
ToAnswer(what, ops, fences) ==
  [what : {what}, op : ops, fence : fences, hwId : AnyHwId, ok : {TRUE}]
Items == [what : {"item"}, op : GfOp, fence : GfFence, hwId : {0}, ok : {TRUE}]
Asked == {c \in [op : GfOp, hwId : AnyHwId, then : ToAnswer("answer", GfOp, GfFence)] :
            c.op = c.then.op /\ (c.op = "add" <=> c.hwId = 0)}
Restoring == [op : {"add"}, hwId : {0}, then : ToAnswer("restored", {"add"}, GfFence)]
Pausing == [op : {"pause"}, hwId : HwId, then : ToAnswer("ignored", {"add"}, GfFence)]
Clearing == [op : {"remove"}, hwId : HwId, then : ToAnswer("cleared", {"remove"}, FencesWith({0}))]
GfCalls == [op : {"queue"}, hwId : {0}, then : Items]
             \cup Asked \cup Restoring \cup Pausing \cup Clearing

\* The messages; the answer to a call that did something names a hwId.
Answers(what, ops, fences) ==
  {m \in [what : {what}, op : ops, fence : fences, hwId : AnyHwId, ok : BOOLEAN] :
     m.ok => m.hwId \in HwId}
GfUpMsg == [what : {"engineUp"}]
Goodbyes == [what : {"removeClient"}, client : GfClient]
GfCommands == [what : {"command"}, op : GfOp, fences : Seq(GfFence)]
Replies == Answers("answer", GfOp, GfFence) \cup Answers("restored", {"add"}, GfFence)
             \cup Answers("ignored", {"add"}, GfFence)
             \cup Answers("cleared", {"remove"}, FencesWith({0}))
GfMsgs == GfCommands \cup Goodbyes \cup GfUpMsg \cup Items \cup Replies

FencesIn(f) == f \in [DOMAIN f -> GfFence] /\ DOMAIN f \subseteq HwId
GfTyped ==
  /\ FencesIn(mGeofences) /\ FencesIn(engineFences)
  /\ mGeofenceIds \in [DOMAIN mGeofenceIds -> HwId]
  /\ DOMAIN mGeofenceIds \subseteq GfKey /\ IsFiniteSet(DOMAIN mGeofenceIds)
  /\ gfMsgs \in Seq(GfMsgs) /\ gfCalls \in Seq(GfCalls)
  /\ hwIds \in AnyHwId /\ gfIds \in 0..MaxFences /\ gfClients \subseteq GfClient
  /\ engineUp \in BOOLEAN /\ gfRemoved \subseteq GfKey
  /\ ~engineUp => engineFences = <<>>

\* A hwId is that of one fence for ever.
OwnerInMaps(owner) ==
  /\ \A h \in DOMAIN mGeofences : mGeofences[h].key = owner[h] /\ h <= hwIds
  /\ \A h \in DOMAIN engineFences : engineFences[h].key = owner[h] /\ h <= hwIds
  /\ \A k \in DOMAIN mGeofenceIds : owner[mGeofenceIds[k]] = k /\ mGeofenceIds[k] <= hwIds
OwnedMsgs(owner, n) ==
  {m \in GfMsgs : m \in Replies /\ m.hwId # 0 => m.fence.key = owner[m.hwId] /\ m.hwId <= n}
OwnedCalls(owner, n) ==
  {c \in GfCalls : c.hwId # 0 => c.then.fence.key = owner[c.hwId] /\ c.hwId <= n}
OwnerInQueues(owner) ==
  gfMsgs \in Seq(OwnedMsgs(owner, hwIds)) /\ gfCalls \in Seq(OwnedCalls(owner, hwIds))
OwnerIs(owner) == OwnerInMaps(owner) /\ OwnerInQueues(owner)

\* What will end up as a geofence with key k, or is one, is at one place.
Adds(k) == {m \in GfMsgs : /\ m.what \in {"item", "answer", "restored"} /\ m.op = "add"
                           /\ m.ok /\ m.fence.key = k}
AddCommands(k) == {m \in GfMsgs : /\ m.what = "command" /\ m.op = "add"
                                  /\ \E i \in DOMAIN m.fences : m.fences[i].key = k}
AddCalls(k) == {c \in GfCalls : /\ c.then.op = "add" /\ c.op \in {"queue", "add"}
                                /\ c.then.fence.key = k}
Saved(k) == {h \in DOMAIN mGeofences : mGeofences[h].key = k}
Adding(k) == Adds(k) \cup AddCommands(k)
InMsgs(k) == Cardinality(Places(gfMsgs, Adding(k)))
InCalls(k) == Cardinality(Places(gfCalls, AddCalls(k)))
Times(k) == InMsgs(k) + InCalls(k) + Cardinality(Saved(k))
Gone(k) == k.id > gfIds \/ (k \in gfRemoved /\ k.client \in gfClients)
Proper(clients) ==
  {m \in GfMsgs :
     /\ m.what = "command" /\ m.op = "add" =>
          \A a, b \in DOMAIN m.fences : m.fences[a].key = m.fences[b].key => a = b
     /\ m.what = "removeClient" => m.client \notin clients}
Single ==
  /\ \A k \in GfKey : Times(k) <= 1 /\ (Gone(k) => Times(k) = 0)
  /\ gfMsgs \in Seq(Proper(gfClients))
  /\ \A k \in gfRemoved : k.client \in gfClients => k.id <= gfIds

\* The answers that give a fence the hwId h, and the rest about h
Found(h) == {m \in Replies : m.what \in {"answer", "restored"} /\ m.op = "add" /\ m.ok /\ m.hwId = h}
About(h) == {m \in Replies : m.hwId = h}
Removal(h) == {m \in Replies : m.what = "answer" /\ m.op = "remove" /\ m.ok /\ m.hwId = h}
RemovalOf(k, h) == {m \in Removal(h) : m.fence.key = k}
Cleared(h) == {m \in Replies : m.what = "cleared" /\ m.hwId = h}
CallsAbout(h) == {c \in GfCalls : c.hwId = h}
ClearCalls(h) == {c \in Clearing : c.hwId = h}
RemoveCalls(k, h) == {c \in Asked : c.op = "remove" /\ c.hwId = h /\ c.then.fence.key = k}
Optioned(o) == {m \in Replies : m.fence.options = o}

\* A fence the engine has added is there until the adapter hears of it, unless the
\* engine crashes, and nothing else is about it.
FoundAt(h) ==
  /\ h \in DOMAIN engineFences
       <=> engineUp /\ LastIs(gfMsgs, Found(h) \cup GfUpMsg, Found(h))
  /\ h \in DOMAIN engineFences => NoneOf(gfMsgs, Found(h) \ Optioned(engineFences[h].options))
  /\ Cardinality(Places(gfMsgs, About(h))) = 1
  /\ NoneOf(gfCalls, CallsAbout(h))
FoundThere == \A h \in HwId : ~NoneOf(gfMsgs, Found(h)) => FoundAt(h)

\* The two maps agree, and with the engine unless it has been restarted.
IdsLead ==
  /\ \A k \in DOMAIN mGeofenceIds : mGeofenceIds[k] \in DOMAIN mGeofences
  /\ engineUp /\ NoneOf(gfMsgs, GfUpMsg) =>
       \A k \in DOMAIN mGeofenceIds :
          \/ mGeofenceIds[k] \in DOMAIN engineFences
          \/ ~NoneOf(gfMsgs, Removal(mGeofenceIds[k]))
  /\ \A h \in DOMAIN mGeofences : h \in DOMAIN engineFences => NoneOf(gfMsgs, GfUpMsg)
ClearedUnknown ==
  \A k \in DOMAIN mGeofenceIds :
    /\ NoneOf(gfMsgs, Cleared(mGeofenceIds[k]))
    /\ NoneOf(gfCalls, ClearCalls(mGeofenceIds[k]))

\* A fence that is removed on command is one the adapter knows, until it hears of it.
KnownAs(k, h) == k \in DOMAIN mGeofenceIds /\ mGeofenceIds[k] = h
RemovalKnown ==
  /\ \A h \in HwId : ~NoneOf(gfMsgs, Removal(h)) =>
       h \notin DOMAIN engineFences /\ Cardinality(Places(gfMsgs, Removal(h))) = 1
  /\ \A k \in GfKey, h \in HwId : k.client \in gfClients =>
       /\ ~NoneOf(gfMsgs, RemovalOf(k, h)) =>
            KnownAs(k, h) /\ Before(gfMsgs, RemovalOf(k, h), GfUpMsg)
       /\ ~NoneOf(gfCalls, RemoveCalls(k, h)) /\ h \in DOMAIN engineFences => KnownAs(k, h)

\* The options and the pause of a fence in the engine are those the adapter has
\* or will have.
Set(ops, h) == {m \in Replies : m.what = "answer" /\ m.op \in ops /\ m.ok /\ m.hwId = h}
Agrees(h) ==
  h \in DOMAIN engineFences =>
    /\ Outcome(gfMsgs, Set({"pause", "resume"}, h), Set({"pause"}, h), mGeofences[h].paused)
         => engineFences[h].paused
    /\ \A o \in GfOption :
         Outcome(gfMsgs, Set({"modify"}, h), Optioned(o), mGeofences[h].options = o)
           => engineFences[h].options = o
FencesAgree == \A h \in DOMAIN mGeofences : Agrees(h)

\* Without a client there are no geofences.
GfInv ==
  /\ GfTyped
  /\ GfKey # {} => /\ \E owner \in [HwId -> GfKey] : OwnerIs(owner)
                   /\ Single /\ FoundThere /\ IdsLead /\ ClearedUnknown
                   /\ RemovalKnown /\ FencesAgree

\* A hwId is a positive number.
LEMMA HwIdFacts ==
  /\ HwId \subseteq Nat /\ 0 \notin HwId /\ IsFiniteSet(HwId)
  /\ \A h \in HwId : h \in Int /\ h # 0 /\ h \in AnyHwId
  /\ AnyHwId \subseteq Nat
<1>1. MaxFences * (MaxGfCrashes + 1) \in Nat
  BY GeofenceAssumption
<1>2. PICK n \in Nat : n = MaxFences * (MaxGfCrashes + 1)
  BY <1>1
<1>3. HwId = 1..n
  BY <1>2 DEF HwId
<1> QED
  BY <1>3, FS_Interval DEF AnyHwId

\* What a message is.
LEMMA GfMsgIs ==
  ASSUME NEW m \in GfMsgs
  PROVE  /\ m.what = "command" => /\ m \in GfCommands /\ m.op \in GfOp
                                  /\ m.fences \in Seq(GfFence)
         /\ m.what = "removeClient" => m \in Goodbyes /\ m.client \in GfClient
         /\ m.what = "engineUp" => m \in GfUpMsg
         /\ m.what = "item" => m \in Items
         /\ m.what \in {"answer", "restored", "ignored", "cleared"} <=> m \in Replies
         /\ m.what \in {"command", "removeClient", "engineUp", "item", "answer", "restored",
                        "ignored", "cleared"}
BY DEF GfMsgs, GfCommands, Goodbyes, GfUpMsg, Items, Replies, Answers

\* What is in an item, in an answer of the engine, and in a call.
LEMMA ItemIs ==
  ASSUME NEW m \in Items
  PROVE  /\ m.what = "item" /\ m.op \in GfOp /\ m.fence \in GfFence /\ m.fence.key \in GfKey
         /\ m.hwId = 0 /\ m.ok /\ m \in GfMsgs
BY DEF Items, GfMsgs, GfFence, FencesWith

LEMMA ReplyIs ==
  ASSUME NEW m \in Replies
  PROVE  /\ m.what \in {"answer", "restored", "ignored", "cleared"}
         /\ m.op \in GfOp /\ m.hwId \in AnyHwId /\ m.ok \in BOOLEAN
         /\ m.fence.key \in GfKey
         /\ m.ok => m.hwId \in HwId
         /\ m.what # "cleared" => m.fence \in GfFence /\ m.fence.options \in GfOption
         /\ m.what \in {"restored", "ignored"} => m.op = "add"
         /\ m.what = "cleared" => m.op = "remove"
         /\ m \in GfMsgs
<1>1. m \in GfMsgs
  BY DEF GfMsgs
<1>2. CASE m.what = "cleared"
  BY <1>1, <1>2 DEF Replies, Answers, FencesWith, GfOp, AnyHwId
<1>3. CASE m.what = "answer"
  BY <1>1, <1>3 DEF Replies, Answers, FencesWith, GfFence, GfOp, AnyHwId
<1>4. CASE m.what \in {"restored", "ignored"}
  BY <1>1, <1>4 DEF Replies, Answers, FencesWith, GfFence, GfOp, AnyHwId
<1> QED
  BY <1>2, <1>3, <1>4 DEF Replies, Answers

\* What a call is.
LEMMA GfCallIs ==
  ASSUME NEW c \in GfCalls
  PROVE  /\ c.op \in GfOp \cup {"queue"} /\ c.hwId \in AnyHwId
         /\ c.then.fence.key \in GfKey
         /\ c.op = "queue" <=> c.then \in Items
         /\ c.op = "queue" <=> c.then.what = "item"
         /\ c.op \in {"queue", "add"} <=> c.hwId = 0
         /\ c.op = "add" <=> /\ c.then.op = "add" /\ c.then.what \in {"answer", "restored"}
         /\ c \in Asked <=> c.then.what = "answer"
         /\ c \in Asked => c.op = c.then.op
         /\ c \in Clearing <=> c.then.what = "cleared"
         /\ c.then.what \in {"item", "answer", "restored", "ignored", "cleared"}
         /\ c \in Clearing => c.op = "remove"
         /\ c.op = "remove" => c \in Asked \/ c \in Clearing
         /\ c.then.what # "cleared" => c.then.fence \in GfFence /\ c.then.fence.options \in GfOption
<1> USE HwIdFacts
<1>1. CASE c \in [op : {"queue"}, hwId : {0}, then : Items]
  BY <1>1 DEF Items, AnyHwId, GfFence, FencesWith, GfOp, Asked, Clearing, ToAnswer
<1>2. CASE c \in Asked
  BY <1>2 DEF Items, AnyHwId, GfFence, FencesWith, GfOp, Asked, Clearing, ToAnswer
<1>3. CASE c \in Restoring
  BY <1>3 DEF Items, AnyHwId, GfFence, FencesWith, GfOp, Asked, Clearing, ToAnswer, Restoring
<1>4. CASE c \in Pausing
  BY <1>4 DEF Items, AnyHwId, GfFence, FencesWith, GfOp, Asked, Clearing, ToAnswer, Pausing
<1>5. CASE c \in Clearing
  BY <1>5 DEF Items, AnyHwId, GfFence, FencesWith, GfOp, Asked, Clearing, ToAnswer
<1> QED
  BY <1>1, <1>2, <1>3, <1>4, <1>5 DEF GfCalls

AnswerOf(c, ok, h) == [c.then EXCEPT !.ok = ok, !.hwId = h]
\* The answer to a call.
LEMMA AnswerIs ==
  ASSUME NEW c \in GfCalls, NEW ok \in BOOLEAN, NEW h \in AnyHwId, ok => h \in HwId,
         c.op # "queue"
  PROVE  LET m == AnswerOf(c, ok, h)
         IN  /\ m \in Replies /\ m.ok = ok /\ m.hwId = h /\ m.fence = c.then.fence
             /\ m.what = c.then.what /\ m.op = c.then.op
<1> DEFINE m == [c.then EXCEPT !.ok = ok, !.hwId = h]
<1> USE HwIdFacts DEF AnswerOf
<1>2. CASE c \in Asked
  <2>1. c.then \in ToAnswer("answer", GfOp, GfFence)
    BY <1>2 DEF Asked
  <2>2. m \in Answers("answer", GfOp, GfFence)
    BY <2>1 DEF ToAnswer, Answers
  <2> QED
    BY <2>1, <2>2 DEF ToAnswer, Replies
<1>3. CASE c \in Restoring
  <2>1. c.then \in ToAnswer("restored", {"add"}, GfFence)
    BY <1>3 DEF Restoring
  <2>2. m \in Answers("restored", {"add"}, GfFence)
    BY <2>1 DEF ToAnswer, Answers
  <2> QED
    BY <2>1, <2>2 DEF ToAnswer, Replies
<1>4. CASE c \in Pausing
  <2>1. c.then \in ToAnswer("ignored", {"add"}, GfFence)
    BY <1>4 DEF Pausing
  <2>2. m \in Answers("ignored", {"add"}, GfFence)
    BY <2>1 DEF ToAnswer, Answers
  <2> QED
    BY <2>1, <2>2 DEF ToAnswer, Replies
<1>5. CASE c \in Clearing
  <2>1. c.then \in ToAnswer("cleared", {"remove"}, FencesWith({0}))
    BY <1>5 DEF Clearing
  <2>2. m \in Answers("cleared", {"remove"}, FencesWith({0}))
    BY <2>1 DEF ToAnswer, Answers
  <2> QED
    BY <2>1, <2>2 DEF ToAnswer, Replies
<1>6. c \notin [op : {"queue"}, hwId : {0}, then : Items]
  OBVIOUS
<1> QED
  BY <1>2, <1>3, <1>4, <1>5, <1>6 DEF GfCalls

\* What comes back from the queue.
LEMMA QueuedIs ==
  ASSUME NEW c \in GfCalls, c.op = "queue"
  PROVE  [c.then EXCEPT !.ok = TRUE, !.hwId = 0] = c.then /\ c.then \in Items
<1>1. c.then \in Items
  BY GfCallIs
<1> QED
  BY <1>1 DEF Items

(* What the adapter does with a message m, making the calls r *)
Took(m) ==
  /\ gfMsgs # <<>> /\ m = Head(gfMsgs) /\ gfMsgs' = Tail(gfMsgs)
  /\ UNCHANGED <<gfIds, gfClients, engineFences, hwIds, engineUp>>
Made(r) == r \in Seq(GfCalls) /\ gfCalls' = gfCalls \o r
Replied(m) == m \in Replies /\ m.ok /\ m.what # "ignored"

\* Only a command or an item to add calls the engine to add, once for each fence.
Passed(m, r) ==
  m \in Proper(gfClients) =>
    \A k \in GfKey : Cardinality(Places(r, AddCalls(k))) <= IF m \in Adding(k) THEN 1 ELSE 0
PassesOn(m, r) ==
  /\ Took(m) /\ Made(r) /\ UNCHANGED <<gfMaps, gfRemoved>>
  /\ ~Replied(m) /\ m.what \notin {"removeClient", "engineUp"}
  /\ \A i \in DOMAIN r : \/ r[i].hwId = 0
                         \/ r[i] \in Asked /\ KnownAs(r[i].then.fence.key, r[i].hwId)
  /\ Passed(m, r)
Saves(m, r, h) ==
  /\ Took(m) /\ Made(r) /\ UNCHANGED gfRemoved
  /\ h \in HwId /\ m \in Found(h) /\ SaveItem(m.fence, h)
  /\ \A i \in DOMAIN r : r[i] \in Pausing /\ r[i].hwId = h /\ r[i].then.fence.key = m.fence.key
Removes(m, h) ==
  /\ Took(m) /\ UNCHANGED gfCalls /\ gfRemoved' = gfRemoved \cup {m.fence.key}
  /\ h \in HwId /\ m \in Removal(h) /\ RemoveItem(h)
NewItem(m, old) ==
  CASE m.op = "pause" -> [old EXCEPT !.paused = TRUE]
    [] m.op = "resume" -> [old EXCEPT !.paused = FALSE]
    [] m.op = "modify" -> [old EXCEPT !.options = m.fence.options]
Changes(m, h) ==
  /\ Took(m) /\ UNCHANGED <<gfCalls, gfRemoved>>
  /\ h \in HwId /\ m \in Set({"pause", "resume", "modify"}, h)
  /\ ChangeItem(h, NewItem(m, mGeofences[h]))
FencesOf(m) == {k \in DOMAIN mGeofenceIds : k.client = m.client}
Farewell(m, r) ==
  /\ Took(m) /\ Made(r) /\ UNCHANGED <<mGeofences, gfRemoved>> /\ m \in Goodbyes
  /\ mGeofenceIds' = Restrict(mGeofenceIds, DOMAIN mGeofenceIds \ FencesOf(m))
  /\ \A i \in DOMAIN r : /\ r[i] \in Clearing
                         /\ r[i].then.fence.key \in FencesOf(m)
                         /\ r[i].hwId = mGeofenceIds[r[i].then.fence.key]
Forgets(m, h) ==
  /\ Took(m) /\ UNCHANGED <<mGeofenceIds, gfCalls, gfRemoved>>
  /\ h \in HwId /\ m \in Cleared(h) /\ mGeofences' = Without(mGeofences, h)
StartsOver(m, r) ==
  /\ Took(m) /\ Made(r) /\ UNCHANGED gfRemoved /\ m \in GfUpMsg /\ ClearMaps
  /\ \E old \in [DOMAIN r -> DOMAIN mGeofences] :
       /\ \A i, j \in DOMAIN r : old[i] = old[j] => i = j
       /\ \A i \in DOMAIN r : r[i] \in Restoring /\ r[i].then.fence = mGeofences[old[i]]

\* Every step of the adapter is one of these.
AdapterDoes(m, r) ==
  \/ PassesOn(m, r) \/ Farewell(m, r) \/ StartsOver(m, r)
  \/ \E h \in HwId : Saves(m, r, h) \/ Removes(m, h) \/ Changes(m, h) \/ Forgets(m, h)

\* A handler takes the first message and leaves the engine alone.
LEMMA TakesIs ==
  ASSUME GfTyped, NEW what, GfTakes(what)
  PROVE  \E m \in GfMsgs : Took(m) /\ m.what = what /\ m = Head(gfMsgs)
<1>1. gfMsgs # <<>> /\ gfMsgs \in Seq(GfMsgs)
  BY DEF GfTakes, GfTyped
<1>2. Head(gfMsgs) \in GfMsgs
  BY <1>1, TakeHead
<1> QED
  BY <1>1, <1>2 DEF GfTakes, Took, gfEngine

\* Most handlers make no call;
LEMMA NoCalls ==
  ASSUME GfTyped, UNCHANGED gfCalls
  PROVE  Made(<<>>)
<1>1. gfCalls \in Seq(GfCalls)
  BY DEF GfTyped
<1>2. gfCalls \o <<>> = gfCalls
  BY <1>1
<1> QED
  BY <1>2 DEF Made

LEMMA NonePassed ==
  ASSUME NEW m
  PROVE  Passed(m, <<>>)
<1>1. ASSUME NEW k \in GfKey PROVE Cardinality(Places(<<>>, AddCalls(k))) = 0
  <2>1. Places(<<>>, AddCalls(k)) = {}
    BY DEF Places
  <2> QED
    BY <2>1, FS_EmptySet
<1> QED
  BY <1>1 DEF Passed

\* Calls of which at most one adds k
LEMMA OnePassed ==
  ASSUME NEW m \in GfMsgs, NEW r \in Seq(GfCalls),
         \A k \in GfKey : \A i \in Places(r, AddCalls(k)) :
            /\ m \in Adding(k)
            /\ m \in Proper(gfClients) => \A j \in Places(r, AddCalls(k)) : i = j
  PROVE  Passed(m, r)
<1>1. ASSUME m \in Proper(gfClients), NEW k \in GfKey
      PROVE  Cardinality(Places(r, AddCalls(k))) <= IF m \in Adding(k) THEN 1 ELSE 0
  <2>1. PICK P : P = Places(r, AddCalls(k))
    OBVIOUS
  <2>2. CASE P = {}
    <3>1. Cardinality(P) = 0
      BY <2>2, FS_EmptySet
    <3> QED
      BY <2>1, <3>1
  <2>3. ASSUME NEW i \in P PROVE m \in Adding(k) /\ Cardinality(P) = 1
    <3>1. m \in Adding(k) /\ P = {i}
      BY <1>1, <2>1, <2>3
    <3> QED
      BY <3>1, FS_Singleton
  <2> QED
    BY <2>1, <2>2, <2>3
<1> QED
  BY <1>1 DEF Passed

\* some make one.
LEMMA OneCall ==
  ASSUME GfTyped, NEW c \in GfCalls, gfCalls' = Append(gfCalls, c)
  PROVE  Made(<<c>>) /\ DOMAIN <<c>> = {1} /\ <<c>>[1] = c
<1>1. gfCalls \in Seq(GfCalls)
  BY DEF GfTyped
<1>2. gfCalls \o <<c>> = Append(gfCalls, c) /\ <<c>> \in Seq(GfCalls)
  BY <1>1, PostBefore
<1> QED
  BY <1>2 DEF Made

\* A command queues its items, and an item makes its call of the engine.
LEMMA CommandDoes ==
  ASSUME GfTyped, GfCommand
  PROVE  \E m \in GfMsgs, r \in Seq(GfCalls) :
           /\ PassesOn(m, r) /\ m \in GfCommands /\ DOMAIN r = DOMAIN m.fences
           /\ \A i \in DOMAIN r : /\ r[i].op = "queue" /\ r[i].then.op = m.op
                                  /\ r[i].then.fence = m.fences[i]
<1>1. PICK m \in GfMsgs : Took(m) /\ m.what = "command" /\ m = Head(gfMsgs)
  BY TakesIs DEF GfCommand
<1>2. m \in GfCommands /\ m.op \in GfOp /\ m.fences \in Seq(GfFence) /\ m \notin Replies
  BY <1>1, GfMsgIs
<1> DEFINE s == [i \in DOMAIN m.fences |-> GfCall("queue", 0, GfMsg("item", m.op, m.fences[i]))]
<1>3. \A f \in GfFence : LET c == GfCall("queue", 0, GfMsg("item", m.op, f)) IN
        /\ c \in GfCalls /\ c.hwId = 0 /\ c.op = "queue" /\ c.then.op = m.op
        /\ c.then.fence = f
  BY <1>2 DEF GfCall, GfMsg, GfCalls, Items
<1>4. s \in Seq(GfCalls)
  <2>1. DOMAIN m.fences = 1..Len(m.fences) /\ Len(m.fences) \in Nat
        /\ \A i \in DOMAIN m.fences : m.fences[i] \in GfFence
    BY <1>2
  <2> QED
    BY <1>3, <2>1
<1>5. DOMAIN s = DOMAIN m.fences /\ \A i \in DOMAIN s : s[i] = GfCall("queue", 0, GfMsg("item", m.op, m.fences[i]))
  OBVIOUS
<1>6. gfCalls' = gfCalls \o s /\ UNCHANGED <<gfMaps, gfRemoved>>
  BY <1>1 DEF GfCommand
<1>7. PICK r \in Seq(GfCalls) : r = s
  BY <1>4
<1> HIDE DEF s
<1>8. \A i \in DOMAIN r : /\ r[i].hwId = 0 /\ r[i].op = "queue" /\ r[i].then.op = m.op
                          /\ r[i].then.fence = m.fences[i]
  <2>1. \A i \in DOMAIN m.fences : m.fences[i] \in GfFence
    BY <1>2
  <2> QED
    BY <1>3, <1>5, <1>7, <2>1
<1>p. Passed(m, r)
  <2>1. ASSUME NEW k \in GfKey, NEW i \in Places(r, AddCalls(k))
        PROVE  i \in DOMAIN m.fences /\ m.fences[i].key = k /\ m.op = "add"
    BY <1>5, <1>7, <1>8, <2>1 DEF Places, AddCalls
  <2>2. ASSUME NEW k \in GfKey, NEW i \in Places(r, AddCalls(k))
        PROVE  /\ m \in Adding(k)
               /\ m \in Proper(gfClients) => \A j \in Places(r, AddCalls(k)) : i = j
    <3>1. m \in Adding(k)
      BY <1>1, <2>1 DEF Adding, AddCommands
    <3>2. ASSUME m \in Proper(gfClients), NEW j \in Places(r, AddCalls(k)) PROVE i = j
      <4>1. m.what = "command" /\ m.op = "add" /\ i \in DOMAIN m.fences /\ j \in DOMAIN m.fences
            /\ m.fences[i].key = m.fences[j].key
        BY <1>1, <2>1
      <4> QED
        BY <3>2, <4>1 DEF Proper
    <3> QED
      BY <3>1, <3>2
  <2> QED
    BY <2>2, OnePassed
<1>9. PassesOn(m, r)
  BY <1>1, <1>2, <1>6, <1>7, <1>8, <1>p DEF PassesOn, Made, Replied
<1> QED
  BY <1>2, <1>5, <1>7, <1>8, <1>9

LEMMA ItemDoes ==
  ASSUME GfTyped, GfItem
  PROVE  \E m \in GfMsgs, r \in Seq(GfCalls) :
           /\ PassesOn(m, r) /\ m \in Items
           /\ \/ r = <<>>
              \/ \E c \in GfCalls : /\ r = <<c>> /\ c.op = m.op /\ c.then.op = m.op
                                    /\ c.then.fence = m.fence
<1>1. PICK m \in GfMsgs : Took(m) /\ m.what = "item" /\ m = Head(gfMsgs)
  BY TakesIs DEF GfItem
<1>2. m \in Items /\ m.op \in GfOp /\ m.fence \in GfFence /\ m \notin Replies
  BY <1>1, GfMsgIs, ItemIs
<1>3. [m EXCEPT !.what = "answer"] \in ToAnswer("answer", GfOp, GfFence)
      /\ [m EXCEPT !.what = "answer"].op = m.op /\ [m EXCEPT !.what = "answer"].fence = m.fence
  BY <1>2 DEF Items, ToAnswer, AnyHwId
<1> DEFINE ask(h) == GfCall(m.op, h, [m EXCEPT !.what = "answer"])
<1>4. ASSUME NEW h \in AnyHwId, m.op = "add" <=> h = 0
      PROVE  /\ ask(h) \in GfCalls /\ ask(h) \in Asked /\ ask(h).hwId = h
             /\ ask(h).op = m.op /\ ask(h).then.op = m.op /\ ask(h).then.fence = m.fence
  <2>1. ask(h) \in Asked
    BY <1>2, <1>3, <1>4 DEF GfCall, Asked
  <2> QED
    BY <1>2, <1>3, <1>4, <2>1 DEF GfCall, GfCalls
<1>5. UNCHANGED <<gfMaps, gfRemoved>>
  BY DEF GfItem
<1>6. \/ m.op = "add" /\ gfCalls' = Append(gfCalls, ask(0))
      \/ /\ m.op # "add" /\ m.fence.key \in DOMAIN mGeofenceIds
         /\ gfCalls' = Append(gfCalls, ask(mGeofenceIds[m.fence.key]))
      \/ m.op # "add" /\ UNCHANGED gfCalls
  BY <1>1 DEF GfItem
<1> HIDE DEF ask
<1>7. CASE UNCHANGED gfCalls
  <2>1. PassesOn(m, <<>>)
    BY <1>1, <1>2, <1>5, <1>7, NoCalls, NonePassed DEF PassesOn, Replied
  <2>2. <<>> \in Seq(GfCalls)
    OBVIOUS
  <2> QED
    BY <1>2, <2>1, <2>2
<1>8. ASSUME NEW c \in GfCalls, gfCalls' = Append(gfCalls, c),
             c.hwId = 0 \/ (c \in Asked /\ KnownAs(c.then.fence.key, c.hwId)),
             c.op = m.op, c.then.op = m.op, c.then.fence = m.fence
      PROVE  \E r \in Seq(GfCalls) :
               /\ PassesOn(m, r)
               /\ \E d \in GfCalls : /\ r = <<d>> /\ d.op = m.op /\ d.then.op = m.op
                                     /\ d.then.fence = m.fence
  <2>1. Made(<<c>>) /\ DOMAIN <<c>> = {1} /\ <<c>>[1] = c
    BY <1>8, OneCall
  <2>2. PICK r : r = <<c>>
    OBVIOUS
  <2>3. r \in Seq(GfCalls) /\ DOMAIN r = {1} /\ r[1] = c
    BY <2>1, <2>2 DEF Made
  <2>4. Passed(m, r)
    <3>1. ASSUME NEW k \in GfKey, NEW i \in Places(r, AddCalls(k))
          PROVE  /\ m \in Adding(k)
                 /\ m \in Proper(gfClients) => \A j \in Places(r, AddCalls(k)) : i = j
      <4>1. c \in AddCalls(k)
        BY <2>3, <3>1 DEF Places
      <4>2. m \in Adding(k)
        BY <1>1, <1>2, <1>8, <4>1, ItemIs DEF Adding, Adds, AddCalls
      <4>3. i = 1 /\ \A j \in Places(r, AddCalls(k)) : j = 1
        BY <2>3, <3>1 DEF Places
      <4> QED
        BY <4>2, <4>3
    <3> QED
      BY <2>3, <3>1, OnePassed
  <2>5. PassesOn(m, r)
    BY <1>1, <1>2, <1>5, <1>8, <2>1, <2>2, <2>4 DEF PassesOn, Replied
  <2> QED
    BY <1>8, <2>2, <2>3, <2>5
<1>9. CASE m.op = "add" /\ gfCalls' = Append(gfCalls, ask(0))
  <2>1. 0 \in AnyHwId
    BY DEF AnyHwId
  <2> QED
    BY <1>2, <1>4, <1>8, <1>9, <2>1
<1>10. CASE /\ m.op # "add" /\ m.fence.key \in DOMAIN mGeofenceIds
            /\ gfCalls' = Append(gfCalls, ask(mGeofenceIds[m.fence.key]))
  <2>1. PICK h \in HwId : h = mGeofenceIds[m.fence.key]
    BY <1>10 DEF GfTyped
  <2>2. h \in AnyHwId /\ h # 0
    BY HwIdFacts, <2>1
  <2>3. KnownAs(m.fence.key, h)
    BY <1>10, <2>1 DEF KnownAs
  <2> QED
    BY <1>2, <1>4, <1>8, <1>10, <2>1, <2>2, <2>3
<1> QED
  BY <1>2, <1>6, <1>7, <1>9, <1>10

\* The walk through a map is a sequence of its keys, each at one place.
LEMMA FenceWalk ==
  ASSUME NEW S, IsFiniteSet(S), NEW rank \in [S -> Int]
  PROVE  /\ Ascending(S, rank) \in Seq(S)
         /\ \A x \in S : \E i \in DOMAIN Ascending(S, rank) : Ascending(S, rank)[i] = x
         /\ \A i, j \in DOMAIN Ascending(S, rank) :
              Ascending(S, rank)[i] = Ascending(S, rank)[j] => i = j
<1>1. PICK s : s = Ascending(S, rank)
  OBVIOUS
<1>2. s \in [1..Cardinality(S) -> S] /\ IsInjective(s)
  <2>1. Ascending(S, rank) \in [1..Cardinality(S) -> S] /\ IsInjective(Ascending(S, rank))
    BY OrderExists DEF Ascending
  <2> QED
    BY <1>1, <2>1
<1> QED
  BY <1>1, <1>2, EachOnce

\* An answer is passed on or changes the maps; one that failed changes nothing.
LEMMA NothingMade ==
  ASSUME GfTyped, NEW m \in GfMsgs, Took(m), UNCHANGED <<gfCalls, gfMaps, gfRemoved>>,
         ~Replied(m), m.what \notin {"removeClient", "engineUp"}
  PROVE  PassesOn(m, <<>>)
BY NoCalls, NonePassed DEF PassesOn

LEMMA AnswerDoes ==
  ASSUME GfTyped, GfAnswer
  PROVE  \E m \in GfMsgs, r \in Seq(GfCalls) : AdapterDoes(m, r)
<1>1. PICK m \in GfMsgs : Took(m) /\ m.what = "answer" /\ m = Head(gfMsgs)
  BY TakesIs DEF GfAnswer
<1>2. m \in Replies
  BY <1>1, GfMsgIs
<1>3. m.op \in GfOp /\ m.hwId \in AnyHwId /\ m.ok \in BOOLEAN /\ (m.ok => m.hwId \in HwId)
  BY <1>2, ReplyIs
<1>4. UNCHANGED gfCalls
  BY DEF GfAnswer
<1>5. \/ ~m.ok /\ UNCHANGED gfMaps
      \/ m.ok /\ m.op = "add" /\ SaveItem(m.fence, m.hwId)
      \/ m.ok /\ m.op = "remove" /\ RemoveItem(m.hwId)
      \/ /\ m.ok /\ m.op \in {"pause", "resume", "modify"}
         /\ ChangeItem(m.hwId, NewItem(m, mGeofences[m.hwId]))
  <2>1. \/ ~m.ok /\ UNCHANGED gfMaps
        \/ m.ok /\ m.op = "add" /\ SaveItem(m.fence, m.hwId)
        \/ m.ok /\ m.op = "remove" /\ RemoveItem(m.hwId)
        \/ m.ok /\ m.op = "pause" /\ ChangeItem(m.hwId, [mGeofences[m.hwId] EXCEPT !.paused = TRUE])
        \/ m.ok /\ m.op = "resume" /\ ChangeItem(m.hwId, [mGeofences[m.hwId] EXCEPT !.paused = FALSE])
        \/ /\ m.ok /\ m.op = "modify"
           /\ ChangeItem(m.hwId, [mGeofences[m.hwId] EXCEPT !.options = m.fence.options])
    BY <1>1 DEF GfAnswer
  <2>2. /\ m.op = "pause" => NewItem(m, mGeofences[m.hwId]) = [mGeofences[m.hwId] EXCEPT !.paused = TRUE]
        /\ m.op = "resume" => NewItem(m, mGeofences[m.hwId]) = [mGeofences[m.hwId] EXCEPT !.paused = FALSE]
        /\ m.op = "modify" =>
             NewItem(m, mGeofences[m.hwId]) = [mGeofences[m.hwId] EXCEPT !.options = m.fence.options]
    BY DEF NewItem
  <2> QED
    BY <2>1, <2>2
<1>6. gfRemoved' = IF m.ok /\ m.op = "remove" THEN gfRemoved \cup {m.fence.key} ELSE gfRemoved
  BY <1>1 DEF GfAnswer
<1>7. Made(<<>>) /\ <<>> \in Seq(GfCalls)
  BY <1>4, NoCalls
<1>8. AdapterDoes(m, <<>>)
  <2>1. CASE ~m.ok /\ UNCHANGED gfMaps
    <3>1. PassesOn(m, <<>>)
      BY <1>1, <1>4, <1>6, <2>1, NothingMade DEF Replied
    <3> QED
      BY <3>1 DEF AdapterDoes
  <2>2. CASE m.ok /\ m.op = "add" /\ SaveItem(m.fence, m.hwId)
    <3>1. Saves(m, <<>>, m.hwId)
      BY <1>1, <1>2, <1>3, <1>6, <1>7, <2>2 DEF Saves, Found
    <3> QED
      BY <1>3, <2>2, <3>1 DEF AdapterDoes
  <2>3. CASE m.ok /\ m.op = "remove" /\ RemoveItem(m.hwId)
    <3>1. Removes(m, m.hwId)
      BY <1>1, <1>2, <1>3, <1>4, <1>6, <2>3 DEF Removes, Removal
    <3> QED
      BY <1>3, <2>3, <3>1 DEF AdapterDoes
  <2>4. CASE /\ m.ok /\ m.op \in {"pause", "resume", "modify"}
             /\ ChangeItem(m.hwId, NewItem(m, mGeofences[m.hwId]))
    <3>1. Changes(m, m.hwId)
      BY <1>1, <1>2, <1>3, <1>4, <1>6, <2>4 DEF Changes, Set
    <3> QED
      BY <1>3, <2>4, <3>1 DEF AdapterDoes
  <2> QED
    BY <1>5, <2>1, <2>2, <2>3, <2>4
<1> QED
  BY <1>7, <1>8

LEMMA DoesNoCall ==
  ASSUME NEW m \in GfMsgs, AdapterDoes(m, <<>>)
  PROVE  \E n \in GfMsgs, r \in Seq(GfCalls) : AdapterDoes(n, r)
<1>1. <<>> \in Seq(GfCalls)
  OBVIOUS
<1> QED
  BY <1>1

\* The fence of a client that is gone is forgotten, the answer to a second pause is dropped,
LEMMA ClearedDoes ==
  ASSUME GfTyped, GfCleared
  PROVE  \E m \in GfMsgs, r \in Seq(GfCalls) : AdapterDoes(m, r)
<1>1. PICK m \in GfMsgs : Took(m) /\ m.what = "cleared" /\ m = Head(gfMsgs)
  BY TakesIs DEF GfCleared
<1>2. m \in Replies
  BY <1>1, GfMsgIs
<1>3. m.ok \in BOOLEAN /\ (m.ok => m.hwId \in HwId)
  BY <1>2, ReplyIs
<1>4. UNCHANGED <<mGeofenceIds, gfCalls, gfRemoved>>
      /\ mGeofences' = IF m.ok THEN Without(mGeofences, m.hwId) ELSE mGeofences
  BY <1>1 DEF GfCleared
<1>5. CASE m.ok
  <2>1. Forgets(m, m.hwId)
    BY <1>1, <1>2, <1>3, <1>4, <1>5 DEF Forgets, Cleared
  <2> QED
    BY <1>3, <1>5, <2>1, DoesNoCall DEF AdapterDoes
<1>6. CASE ~m.ok
  <2>1. PassesOn(m, <<>>)
    BY <1>1, <1>4, <1>6, NothingMade DEF Replied, gfMaps
  <2> QED
    BY <2>1, DoesNoCall DEF AdapterDoes
<1> QED
  BY <1>5, <1>6

LEMMA IgnoredDoes ==
  ASSUME GfTyped, GfIgnored
  PROVE  \E m \in GfMsgs, r \in Seq(GfCalls) : AdapterDoes(m, r)
<1>1. PICK m \in GfMsgs : Took(m) /\ m.what = "ignored" /\ m = Head(gfMsgs)
  BY TakesIs DEF GfIgnored
<1>2. PassesOn(m, <<>>)
  BY <1>1, NothingMade DEF GfIgnored, Replied
<1> QED
  BY <1>2, DoesNoCall DEF AdapterDoes

\* a fence that was added again is saved, and paused again,
LEMMA RestoredDoes ==
  ASSUME GfTyped, GfRestored
  PROVE  \E m \in GfMsgs, r \in Seq(GfCalls) : AdapterDoes(m, r)
<1>1. PICK m \in GfMsgs : Took(m) /\ m.what = "restored" /\ m = Head(gfMsgs)
  BY TakesIs DEF GfRestored
<1>2. m \in Answers("restored", {"add"}, GfFence) /\ m \in Replies
  BY <1>1, GfMsgIs DEF Replies, Answers
<1>3. m.ok \in BOOLEAN /\ (m.ok => m.hwId \in HwId) /\ m.op = "add"
  BY <1>1, <1>2, ReplyIs
<1>4. UNCHANGED gfRemoved
  BY DEF GfRestored
<1>5. CASE ~m.ok /\ UNCHANGED <<gfMaps, gfCalls>>
  <2>1. PassesOn(m, <<>>)
    BY <1>1, <1>4, <1>5, NothingMade DEF Replied
  <2> QED
    BY <2>1, DoesNoCall DEF AdapterDoes
<1> DEFINE c == GfCall("pause", m.hwId, [m EXCEPT !.what = "ignored"])
<1>6. CASE /\ m.ok /\ SaveItem(m.fence, m.hwId)
           /\ gfCalls' = IF m.fence.paused THEN Append(gfCalls, c) ELSE gfCalls
  <2>1. m.hwId \in HwId /\ m \in Found(m.hwId)
    BY <1>1, <1>2, <1>3, <1>6 DEF Found
  <2>2. c \in Pausing /\ c.hwId = m.hwId /\ c.then.fence.key = m.fence.key
    <3>1. /\ [m EXCEPT !.what = "ignored"] \in ToAnswer("ignored", {"add"}, GfFence)
          /\ [m EXCEPT !.what = "ignored"].fence = m.fence
      BY <1>2, <1>6 DEF Answers, ToAnswer
    <3> QED
      BY <2>1, <3>1 DEF GfCall, Pausing
  <2>3. c \in GfCalls
    BY <2>2 DEF GfCalls
  <2>4. PICK d \in GfCalls : d = c
    BY <2>3
  <2> HIDE DEF c
  <2>5. CASE m.fence.paused
    <3>1. Made(<<d>>) /\ DOMAIN <<d>> = {1} /\ <<d>>[1] = d
      BY <1>6, <2>4, <2>5, OneCall
    <3>2. Saves(m, <<d>>, m.hwId)
      BY <1>1, <1>4, <1>6, <2>1, <2>2, <2>4, <3>1 DEF Saves
    <3>3. AdapterDoes(m, <<d>>)
      BY <2>1, <3>2 DEF AdapterDoes
    <3> QED
      BY <3>1, <3>3 DEF Made
  <2>6. CASE ~m.fence.paused
    <3>1. Made(<<>>)
      BY <1>6, <2>6, NoCalls
    <3>2. Saves(m, <<>>, m.hwId)
      BY <1>1, <1>4, <1>6, <2>1, <3>1 DEF Saves
    <3>3. AdapterDoes(m, <<>>)
      BY <2>1, <3>2 DEF AdapterDoes
    <3> QED
      BY <3>1, <3>3 DEF Made
  <2> QED
    BY <2>5, <2>6
<1>7. \/ ~m.ok /\ UNCHANGED <<gfMaps, gfCalls>>
      \/ /\ m.ok /\ SaveItem(m.fence, m.hwId)
         /\ gfCalls' = IF m.fence.paused THEN Append(gfCalls, c) ELSE gfCalls
  BY <1>1 DEF GfRestored
<1> HIDE DEF c
<1> QED
  BY <1>5, <1>6, <1>7

\* the fences of a client that goes are removed,
LEMMA RemoveClientDoes ==
  ASSUME GfTyped, GfRemoveClient
  PROVE  \E m \in GfMsgs, r \in Seq(GfCalls) : AdapterDoes(m, r)
<1>1. PICK m \in GfMsgs : Took(m) /\ m.what = "removeClient" /\ m = Head(gfMsgs)
  BY TakesIs DEF GfRemoveClient
<1>2. m \in Goodbyes
  BY <1>1, GfMsgIs
<1>3. PICK S : S = FencesOf(m)
  OBVIOUS
<1>4. PICK keys : keys = ById(S)
  OBVIOUS
<1>5. S \subseteq DOMAIN mGeofenceIds /\ S \subseteq GfKey /\ IsFiniteSet(S)
  BY <1>3, FS_Subset DEF FencesOf, GfTyped
<1>6. [k \in S |-> k.id] \in [S -> Int]
  BY <1>5, GeofenceAssumption DEF GfKey
<1>7. keys \in Seq(S)
  BY <1>4, <1>5, <1>6, FenceWalk DEF ById
<1> DEFINE call(k) == GfCall("remove", mGeofenceIds[k], GfMsg("cleared", "remove", Fence(k, 0, FALSE)))
           s == [i \in DOMAIN keys |-> call(keys[i])]
<1>8. ASSUME NEW k \in S
      PROVE  call(k) \in GfCalls /\ call(k) \in Clearing /\ call(k).then.fence.key = k
             /\ call(k).hwId = mGeofenceIds[k]
  <2>1. PICK h \in HwId : h = mGeofenceIds[k]
    BY <1>5 DEF GfTyped
  <2>2. GfMsg("cleared", "remove", Fence(k, 0, FALSE)) \in ToAnswer("cleared", {"remove"}, FencesWith({0}))
        /\ GfMsg("cleared", "remove", Fence(k, 0, FALSE)).fence.key = k
    BY <1>5 DEF GfMsg, Fence, ToAnswer, FencesWith, AnyHwId
  <2>3. call(k) \in Clearing
    BY <2>1, <2>2 DEF GfCall, Clearing
  <2> QED
    BY <2>2, <2>3 DEF GfCall, GfCalls
<1>9. s \in Seq(GfCalls) /\ DOMAIN s = DOMAIN keys /\ \A i \in DOMAIN s : s[i] = call(keys[i]) /\ keys[i] \in S
  <2>1. DOMAIN keys = 1..Len(keys) /\ Len(keys) \in Nat /\ \A i \in DOMAIN keys : keys[i] \in S
    BY <1>7
  <2> HIDE DEF call
  <2> QED
    BY <1>8, <2>1
<1>10. gfCalls' = gfCalls \o s
       /\ mGeofenceIds' = Restrict(mGeofenceIds, DOMAIN mGeofenceIds \ S)
       /\ UNCHANGED <<mGeofences, gfRemoved>>
  BY <1>1, <1>3, <1>4 DEF GfRemoveClient, FencesOf
<1>11. PICK r \in Seq(GfCalls) : r = s
  BY <1>9
<1> HIDE DEF s, call
<1>12. \A i \in DOMAIN r : /\ r[i] \in Clearing /\ r[i].then.fence.key \in S
                           /\ r[i].hwId = mGeofenceIds[r[i].then.fence.key]
  BY <1>8, <1>9, <1>11
<1>13. Farewell(m, r)
  BY <1>1, <1>2, <1>3, <1>10, <1>11, <1>12 DEF Farewell, Made
<1> QED
  BY <1>11, <1>13 DEF AdapterDoes

\* and all fences are added again when the engine has come up.
LEMMA EngineUpDoes ==
  ASSUME GfTyped, GfEngineUp
  PROVE  \E m \in GfMsgs, r \in Seq(GfCalls) : AdapterDoes(m, r)
<1>1. PICK m \in GfMsgs : Took(m) /\ m.what = "engineUp" /\ m = Head(gfMsgs)
  BY TakesIs DEF GfEngineUp
<1>2. m \in GfUpMsg
  BY <1>1, GfMsgIs
<1>3. PICK S : S = DOMAIN mGeofences
  OBVIOUS
<1>4. PICK old : old = Ascending(S, [h \in S |-> h])
  OBVIOUS
<1>5. S \subseteq HwId /\ IsFiniteSet(S) /\ [h \in S |-> h] \in [S -> Int]
  BY <1>3, HwIdFacts, FS_Subset DEF GfTyped, FencesIn
<1>6. old \in Seq(S) /\ \A i, j \in DOMAIN old : old[i] = old[j] => i = j
  BY <1>4, <1>5, FenceWalk
<1> DEFINE call(h) == GfCall("add", 0, GfMsg("restored", "add", mGeofences[h]))
           s == [i \in DOMAIN old |-> call(old[i])]
<1>7. ASSUME NEW h \in S
      PROVE  call(h) \in GfCalls /\ call(h) \in Restoring /\ call(h).then.fence = mGeofences[h]
  <2>1. mGeofences[h] \in GfFence
    BY <1>3 DEF GfTyped, FencesIn
  <2>2. GfMsg("restored", "add", mGeofences[h]) \in ToAnswer("restored", {"add"}, GfFence)
    BY <2>1 DEF GfMsg, ToAnswer, AnyHwId
  <2>3. call(h) \in Restoring
    BY <2>2 DEF GfCall, Restoring
  <2> QED
    BY <2>3 DEF GfCall, GfCalls, GfMsg
<1>8. s \in Seq(GfCalls) /\ DOMAIN s = DOMAIN old /\ \A i \in DOMAIN s : s[i] = call(old[i]) /\ old[i] \in S
  <2>1. DOMAIN old = 1..Len(old) /\ Len(old) \in Nat /\ \A i \in DOMAIN old : old[i] \in S
    BY <1>6
  <2> HIDE DEF call
  <2> QED
    BY <1>7, <2>1
<1>9. gfCalls' = gfCalls \o s /\ ClearMaps /\ UNCHANGED gfRemoved
  BY <1>1, <1>3, <1>4 DEF GfEngineUp
<1>10. PICK r \in Seq(GfCalls) : r = s
  BY <1>8
<1> HIDE DEF s, call
<1>11. \A i \in DOMAIN r : r[i] \in Restoring /\ r[i].then.fence = mGeofences[old[i]]
  BY <1>7, <1>8, <1>10
<1>12. old \in [DOMAIN r -> DOMAIN mGeofences]
  BY <1>3, <1>6, <1>8, <1>10
<1>13. StartsOver(m, r)
  BY <1>1, <1>2, <1>6, <1>8, <1>9, <1>10, <1>11, <1>12 DEF StartsOver, Made
<1> QED
  BY <1>10, <1>13 DEF AdapterDoes

\* So every step of the adapter is one of those above.
LEMMA AdapterStepDoes ==
  ASSUME GfTyped, GeofenceAdapterStep
  PROVE  \E m \in GfMsgs, r \in Seq(GfCalls) : AdapterDoes(m, r)
<1>1. CASE GfCommand \/ GfItem
  BY <1>1, CommandDoes, ItemDoes DEF AdapterDoes
<1> QED
  BY <1>1, AnswerDoes, ClearedDoes, IgnoredDoes, RestoredDoes, RemoveClientDoes, EngineUpDoes
  DEF GeofenceAdapterStep

(* What the engine does with a call c, answering m *)
Handled(c, m) ==
  /\ gfCalls # <<>> /\ c = Head(gfCalls) /\ gfCalls' = Tail(gfCalls)
  /\ gfMsgs' = Append(gfMsgs, m)
  /\ UNCHANGED <<gfMaps, gfIds, gfClients, engineUp, gfRemoved>>
AnswerTo(c, m, h) ==
  /\ m \in Replies /\ m.hwId = h /\ m.fence = c.then.fence
  /\ m.what = c.then.what /\ m.op = c.then.op
LetsPass(c, m) ==
  /\ Handled(c, m) /\ UNCHANGED <<engineFences, hwIds>>
  /\ \/ c.op = "queue" /\ m = c.then /\ m \in Items
     \/ c.op # "queue" /\ AnswerTo(c, m, c.hwId) /\ ~m.ok
EngineAdds(c, m, h) ==
  /\ Handled(c, m) /\ engineUp /\ c.op = "add" /\ AnswerTo(c, m, h) /\ m.ok
  /\ h = hwIds + 1 /\ hwIds' = h /\ engineFences' = With(engineFences, h, c.then.fence)
EngineChanges(c, m, h) ==
  /\ Handled(c, m) /\ engineUp /\ AnswerTo(c, m, h) /\ m.ok
  /\ h = c.hwId /\ h \in DOMAIN engineFences /\ UNCHANGED hwIds
  /\ \/ c.op = "remove" /\ engineFences' = Without(engineFences, h)
     \/ /\ c.op \in {"pause", "resume"}
        /\ engineFences' = [engineFences EXCEPT ![h].paused = c.op = "pause"]
     \/ /\ c.op = "modify" /\ c \in Asked
        /\ engineFences' = [engineFences EXCEPT ![h].options = c.then.fence.options]
EngineDid(c, m) ==
  LetsPass(c, m) \/ \E h \in HwId : EngineAdds(c, m, h) \/ EngineChanges(c, m, h)

\* So is every step in which the engine handles a call.
LEMMA EngineHandlesDoes ==
  ASSUME GfTyped, EngineHandles
  PROVE  \E c \in GfCalls, m \in GfMsgs : EngineDid(c, m)
<1>1. gfCalls # <<>> /\ gfCalls \in Seq(GfCalls)
  BY DEF EngineHandles, GfTyped
<1>2. PICK c \in GfCalls : c = Head(gfCalls)
  BY <1>1, TakeHead
<1>3. /\ gfCalls' = Tail(gfCalls)
      /\ UNCHANGED <<gfMaps, gfIds, gfClients, engineUp, gfRemoved>>
  BY DEF EngineHandles
<1> DEFINE Ans(ok, h) == AnswerOf(c, ok, h)
<1>4. \/ /\ c.op = "queue" /\ gfMsgs' = Append(gfMsgs, Ans(TRUE, 0)) /\ UNCHANGED <<engineFences, hwIds>>
      \/ /\ c.op # "queue" /\ engineUp
         /\ \E h \in HwId : EngineDoes(c, h) /\ gfMsgs' = Append(gfMsgs, Ans(TRUE, h))
      \/ /\ c.op # "queue" /\ gfMsgs' = Append(gfMsgs, Ans(FALSE, c.hwId))
         /\ UNCHANGED <<engineFences, hwIds>>
  BY <1>2 DEF EngineHandles, AnswerOf
<1>5. c.hwId \in AnyHwId
  BY GfCallIs
<1> HIDE DEF Ans
<1>6. CASE /\ c.op = "queue" /\ gfMsgs' = Append(gfMsgs, Ans(TRUE, 0))
           /\ UNCHANGED <<engineFences, hwIds>>
  <2>1. Ans(TRUE, 0) = c.then /\ c.then \in Items
    BY <1>6, QueuedIs DEF Ans, AnswerOf
  <2>2. PICK m \in GfMsgs : m = c.then
    BY <2>1, ItemIs
  <2>3. LetsPass(c, m)
    BY <1>1, <1>2, <1>3, <1>6, <2>1, <2>2 DEF LetsPass, Handled
  <2> QED
    BY <2>3 DEF EngineDid
<1>7. CASE /\ c.op # "queue" /\ gfMsgs' = Append(gfMsgs, Ans(FALSE, c.hwId))
           /\ UNCHANGED <<engineFences, hwIds>>
  <2>1. AnswerTo(c, Ans(FALSE, c.hwId), c.hwId) /\ ~Ans(FALSE, c.hwId).ok
    <3>1. FALSE \in BOOLEAN
      OBVIOUS
    <3>2. /\ Ans(FALSE, c.hwId) \in Replies /\ Ans(FALSE, c.hwId).ok = FALSE
          /\ Ans(FALSE, c.hwId).hwId = c.hwId /\ Ans(FALSE, c.hwId).fence = c.then.fence
          /\ Ans(FALSE, c.hwId).what = c.then.what /\ Ans(FALSE, c.hwId).op = c.then.op
      BY <1>5, <1>7, <3>1, AnswerIs DEF Ans
    <3> QED
      BY <3>2 DEF AnswerTo
  <2>2. PICK m \in GfMsgs : m = Ans(FALSE, c.hwId)
    BY <2>1, ReplyIs DEF AnswerTo
  <2>3. LetsPass(c, m)
    BY <1>1, <1>2, <1>3, <1>7, <2>1, <2>2 DEF LetsPass, Handled
  <2> QED
    BY <2>3 DEF EngineDid
<1>8. ASSUME NEW h \in HwId, c.op # "queue", engineUp, EngineDoes(c, h),
             gfMsgs' = Append(gfMsgs, Ans(TRUE, h))
      PROVE  \E m \in GfMsgs : EngineDid(c, m)
  <2>1. AnswerTo(c, Ans(TRUE, h), h) /\ Ans(TRUE, h).ok
    <3>1. h \in AnyHwId /\ TRUE \in BOOLEAN
      BY HwIdFacts
    <3>2. /\ Ans(TRUE, h) \in Replies /\ Ans(TRUE, h).ok = TRUE /\ Ans(TRUE, h).hwId = h
          /\ Ans(TRUE, h).fence = c.then.fence /\ Ans(TRUE, h).what = c.then.what
          /\ Ans(TRUE, h).op = c.then.op
      BY <1>8, <3>1, AnswerIs DEF Ans
    <3> QED
      BY <3>2 DEF AnswerTo
  <2>2. PICK m \in GfMsgs : m = Ans(TRUE, h)
    BY <2>1, ReplyIs DEF AnswerTo
  <2>3. Handled(c, m) /\ AnswerTo(c, m, h) /\ m.ok
    BY <1>1, <1>2, <1>3, <1>8, <2>1, <2>2 DEF Handled
  <2>4. CASE /\ c.op = "add" /\ h = hwIds + 1 /\ hwIds' = h
             /\ engineFences' = With(engineFences, h, c.then.fence)
    <3>1. EngineAdds(c, m, h)
      BY <1>8, <2>3, <2>4 DEF EngineAdds
    <3> QED
      BY <3>1 DEF EngineDid
  <2>5. CASE /\ h = c.hwId /\ h \in DOMAIN engineFences /\ UNCHANGED hwIds
             /\ \/ c.op = "remove" /\ engineFences' = Without(engineFences, h)
                \/ /\ c.op \in {"pause", "resume"}
                   /\ engineFences' = [engineFences EXCEPT ![h].paused = c.op = "pause"]
                \/ /\ c.op = "modify"
                   /\ engineFences' = [engineFences EXCEPT ![h].options = c.then.fence.options]
    <3>1. c.op = "modify" => c \in Asked
      BY DEF GfCalls, Restoring, Pausing, Clearing
    <3>2. EngineChanges(c, m, h)
      BY <1>8, <2>3, <2>5, <3>1 DEF EngineChanges
    <3> QED
      BY <3>2 DEF EngineDid
  <2> QED
    BY <1>8, <2>4, <2>5 DEF EngineDoes
<1> QED
  BY <1>4, <1>6, <1>7, <1>8

\* The state other than the queues and maps
LEMMA FenceSaved ==
  ASSUME NEW f, FencesIn(f), NEW h \in HwId, NEW g \in GfFence
  PROVE  /\ FencesIn(With(f, h, g)) /\ DOMAIN With(f, h, g) = DOMAIN f \cup {h}
         /\ With(f, h, g)[h] = g /\ \A x \in DOMAIN f : x # h => With(f, h, g)[x] = f[x]
BY DEF With, FencesIn

\* Forgetting or changing a fence leaves the others as they are.
LEMMA FenceLeft ==
  ASSUME NEW f, FencesIn(f), NEW h
  PROVE  /\ FencesIn(Without(f, h)) /\ DOMAIN Without(f, h) = DOMAIN f \ {h}
         /\ \A x \in DOMAIN f : x # h => Without(f, h)[x] = f[x]
BY DEF Without, Restrict, FencesIn

LEMMA FenceChanged ==
  ASSUME NEW f, FencesIn(f), NEW h \in DOMAIN f, NEW g \in GfFence
  PROVE  /\ FencesIn([f EXCEPT ![h] = g]) /\ DOMAIN [f EXCEPT ![h] = g] = DOMAIN f
         /\ [f EXCEPT ![h] = g][h] = g /\ \A x \in DOMAIN f : x # h => [f EXCEPT ![h] = g][x] = f[x]
BY DEF FencesIn

\* What the engine's change makes of the fence
LEMMA EngineFenceChanged ==
  ASSUME GfTyped, NEW c \in GfCalls, NEW m, NEW h \in HwId, EngineChanges(c, m, h), c.op # "remove"
  PROVE  \E g \in GfFence :
           /\ engineFences' = [engineFences EXCEPT ![h] = g] /\ g.key = engineFences[h].key
           /\ c.op = "modify" => g.options = c.then.fence.options /\ g.paused = engineFences[h].paused
           /\ c.op \in {"pause", "resume"} => g.options = engineFences[h].options
                                              /\ g.paused = (c.op = "pause")
<1>1. h \in DOMAIN engineFences /\ engineFences[h] \in GfFence
  BY DEF EngineChanges, GfTyped, FencesIn
<1>2. PICK e \in GfFence : e = engineFences[h]
  BY <1>1
<1>3. CASE c.op \in {"pause", "resume"}
  <2>1. PICK b \in BOOLEAN : b = (c.op = "pause")
    OBVIOUS
  <2>2. engineFences' = [engineFences EXCEPT ![h].paused = b]
    BY <1>3, <2>1 DEF EngineChanges
  <2>3. [engineFences EXCEPT ![h].paused = b] = [engineFences EXCEPT ![h] = [e EXCEPT !.paused = b]]
    BY <1>2
  <2>4. [e EXCEPT !.paused = b] \in GfFence /\ [e EXCEPT !.paused = b].key = e.key
        /\ [e EXCEPT !.paused = b].options = e.options /\ [e EXCEPT !.paused = b].paused = b
    BY <1>2 DEF GfFence, FencesWith
  <2> QED
    BY <1>2, <1>3, <2>1, <2>2, <2>3, <2>4
<1>4. CASE c.op = "modify"
  <2>1. PICK o \in GfOption : o = c.then.fence.options
    BY <1>4, GfCallIs DEF EngineChanges
  <2>2. engineFences' = [engineFences EXCEPT ![h].options = o]
    BY <1>4, <2>1 DEF EngineChanges
  <2>3. [engineFences EXCEPT ![h].options = o] = [engineFences EXCEPT ![h] = [e EXCEPT !.options = o]]
    BY <1>2
  <2>4. [e EXCEPT !.options = o] \in GfFence /\ [e EXCEPT !.options = o].key = e.key
        /\ [e EXCEPT !.options = o].options = o /\ [e EXCEPT !.options = o].paused = e.paused
    BY <1>2 DEF GfFence, FencesWith
  <2> QED
    BY <1>2, <1>4, <2>1, <2>2, <2>3, <2>4
<1> QED
  BY <1>3, <1>4 DEF EngineChanges

\* The engine keeps the types.
LEMMA EngineDidTypes ==
  ASSUME GfTyped, NEW c \in GfCalls, NEW m \in GfMsgs, EngineDid(c, m)
  PROVE  GfTyped'
<1>1. gfMsgs' \in Seq(GfMsgs) /\ gfCalls' \in Seq(GfCalls)
  <2>1. Handled(c, m)
    BY DEF EngineDid, LetsPass, EngineAdds, EngineChanges
  <2> QED
    BY <2>1, PostMessage, TakeHead DEF Handled, GfTyped
<1>2. UNCHANGED <<gfMaps, gfIds, gfClients, engineUp, gfRemoved>>
  BY DEF EngineDid, LetsPass, EngineAdds, EngineChanges, Handled
<1>3. FencesIn(engineFences') /\ hwIds' \in AnyHwId /\ (~engineUp' => engineFences' = <<>>)
  <2>1. CASE LetsPass(c, m)
    BY <1>2, <2>1 DEF LetsPass, GfTyped
  <2>2. ASSUME NEW h \in HwId, EngineAdds(c, m, h) PROVE <1>3!:
    <3>1. c.then.fence \in GfFence
      BY <2>2, GfCallIs DEF EngineAdds
    <3>2. FencesIn(engineFences')
      BY <2>2, <3>1, FenceSaved DEF EngineAdds, GfTyped
    <3> QED
      BY <1>2, <2>2, <3>2, HwIdFacts DEF EngineAdds
  <2>3. ASSUME NEW h \in HwId, EngineChanges(c, m, h) PROVE <1>3!:
    <3>1. FencesIn(engineFences')
      <4>1. CASE c.op = "remove"
        <5>1. engineFences' = Without(engineFences, h) /\ FencesIn(engineFences)
          BY <2>3, <4>1 DEF EngineChanges, GfTyped
        <5> QED
          BY <5>1, FenceLeft
      <4>2. CASE c.op # "remove"
        <5>1. PICK g \in GfFence : engineFences' = [engineFences EXCEPT ![h] = g]
          BY <2>3, <4>2, EngineFenceChanged
        <5> QED
          BY <2>3, <5>1, FenceChanged DEF EngineChanges, GfTyped
      <4> QED
        BY <4>1, <4>2
    <3> QED
      BY <1>2, <2>3, <3>1 DEF EngineChanges, GfTyped
  <2> QED
    BY <2>1, <2>2, <2>3 DEF EngineDid
<1> QED
  BY <1>1, <1>2, <1>3 DEF GfTyped, gfMaps

\* Saving an id, and forgetting several.
LEMMA IdSaved ==
  ASSUME GfTyped, NEW h \in HwId, NEW k \in GfKey, mGeofenceIds' = With(mGeofenceIds, k, h)
  PROVE  /\ mGeofenceIds' \in [DOMAIN mGeofenceIds' -> HwId]
         /\ DOMAIN mGeofenceIds' = DOMAIN mGeofenceIds \cup {k}
         /\ DOMAIN mGeofenceIds' \subseteq GfKey /\ IsFiniteSet(DOMAIN mGeofenceIds')
         /\ mGeofenceIds'[k] = h
         /\ \A x \in DOMAIN mGeofenceIds : x # k => mGeofenceIds'[x] = mGeofenceIds[x]
<1>1. DOMAIN mGeofenceIds' = DOMAIN mGeofenceIds \cup {k}
  BY DEF With
<1>2. IsFiniteSet(DOMAIN mGeofenceIds \cup {k})
  BY FS_AddElement DEF GfTyped
<1> QED
  BY <1>1, <1>2 DEF With, GfTyped

LEMMA IdsLeft ==
  ASSUME GfTyped, NEW K, K \subseteq DOMAIN mGeofenceIds, mGeofenceIds' = Restrict(mGeofenceIds, K)
  PROVE  /\ mGeofenceIds' \in [DOMAIN mGeofenceIds' -> HwId]
         /\ DOMAIN mGeofenceIds' = K
         /\ DOMAIN mGeofenceIds' \subseteq GfKey /\ IsFiniteSet(DOMAIN mGeofenceIds')
         /\ \A x \in K : mGeofenceIds'[x] = mGeofenceIds[x]
<1>1. DOMAIN mGeofenceIds' = K
  BY DEF Restrict
<1>2. IsFiniteSet(K)
  BY FS_Subset DEF GfTyped
<1> QED
  BY <1>1, <1>2 DEF Restrict, GfTyped

\* What is saved, and what a change of an item makes of it
LEMMA SavedItem ==
  ASSUME NEW h, NEW m \in Found(h), NEW f, f = [m.fence EXCEPT !.paused = FALSE]
  PROVE  f \in GfFence /\ f.key = m.fence.key /\ f.options = m.fence.options /\ ~f.paused
         /\ f.key \in GfKey
<1>1. m.fence \in GfFence
  BY ReplyIs DEF Found
<1> QED
  BY <1>1 DEF GfFence, FencesWith

\* What a pause, a resume or a change of the options leaves of a fence.
LEMMA ChangedItem ==
  ASSUME GfTyped, NEW h \in DOMAIN mGeofences, NEW m \in Set({"pause", "resume", "modify"}, h)
  PROVE  LET g == NewItem(m, mGeofences[h]) IN
         /\ g \in GfFence /\ g.key = mGeofences[h].key
         /\ m.op = "modify" => g.options = m.fence.options /\ g.paused = mGeofences[h].paused
         /\ m.op \in {"pause", "resume"} => g.options = mGeofences[h].options
                                            /\ g.paused = (m.op = "pause")
<1>1. PICK e \in GfFence : e = mGeofences[h]
  BY DEF GfTyped, FencesIn
<1>2. m.fence.options \in GfOption
  BY ReplyIs DEF Set
<1>3. CASE m.op = "pause"
  BY <1>1, <1>3 DEF NewItem, GfFence, FencesWith
<1>4. CASE m.op = "resume"
  BY <1>1, <1>4 DEF NewItem, GfFence, FencesWith
<1>5. CASE m.op = "modify"
  BY <1>1, <1>2, <1>5 DEF NewItem, GfFence, FencesWith
<1> QED
  BY <1>3, <1>4, <1>5 DEF Set

\* The adapter keeps the types, step by step.
LEMMA TookTypes ==
  ASSUME GfTyped, NEW m \in GfMsgs, Took(m),
         FencesIn(mGeofences'), mGeofenceIds' \in [DOMAIN mGeofenceIds' -> HwId],
         DOMAIN mGeofenceIds' \subseteq GfKey, IsFiniteSet(DOMAIN mGeofenceIds'),
         gfCalls' \in Seq(GfCalls), gfRemoved' \subseteq GfKey
  PROVE  GfTyped'
<1>1. gfMsgs' \in Seq(GfMsgs)
  BY TakeHead DEF Took, GfTyped
<1> QED
  BY <1>1 DEF Took, GfTyped

LEMMA MadeTypes ==
  ASSUME GfTyped, NEW r, Made(r)
  PROVE  gfCalls' \in Seq(GfCalls)
BY PostMessages DEF GfTyped, Made

\* The maps after each step of the adapter
LEMMA PassesOnTypes ==
  ASSUME GfTyped, NEW m \in GfMsgs, NEW r, PassesOn(m, r)
  PROVE  GfTyped'
<1>1. gfCalls' \in Seq(GfCalls)
  BY MadeTypes DEF PassesOn
<1>2. mGeofences' = mGeofences /\ mGeofenceIds' = mGeofenceIds /\ gfRemoved' = gfRemoved /\ Took(m)
  BY DEF PassesOn, gfMaps
<1> QED
  BY <1>1, <1>2, TookTypes DEF GfTyped

SavedMaps(m, h) ==
  /\ DOMAIN mGeofences' = DOMAIN mGeofences \cup {h}
  /\ mGeofences'[h].key = m.fence.key /\ mGeofences'[h].options = m.fence.options
  /\ ~mGeofences'[h].paused
  /\ \A x \in DOMAIN mGeofences : x # h => mGeofences'[x] = mGeofences[x]
  /\ DOMAIN mGeofenceIds' = DOMAIN mGeofenceIds \cup {m.fence.key}
  /\ mGeofenceIds'[m.fence.key] = h
  /\ \A x \in DOMAIN mGeofenceIds : x # m.fence.key => mGeofenceIds'[x] = mGeofenceIds[x]

LEMMA SavesTypes ==
  ASSUME GfTyped, NEW m \in GfMsgs, NEW r, NEW h \in HwId, Saves(m, r, h)
  PROVE  GfTyped' /\ m.fence.key \in GfKey /\ SavedMaps(m, h)
<1>1. PICK f : f = [m.fence EXCEPT !.paused = FALSE]
  OBVIOUS
<1>2. m \in Found(h) /\ Took(m) /\ Made(r) /\ gfRemoved' = gfRemoved
      /\ mGeofences' = With(mGeofences, h, f) /\ mGeofenceIds' = With(mGeofenceIds, m.fence.key, h)
  BY <1>1 DEF Saves, SaveItem
<1>3. f \in GfFence /\ f.key = m.fence.key /\ f.options = m.fence.options /\ ~f.paused
      /\ m.fence.key \in GfKey
  BY <1>1, <1>2, SavedItem
<1>4. FencesIn(mGeofences)
  BY DEF GfTyped
<1>5. /\ FencesIn(mGeofences') /\ DOMAIN mGeofences' = DOMAIN mGeofences \cup {h}
      /\ mGeofences'[h] = f /\ \A x \in DOMAIN mGeofences : x # h => mGeofences'[x] = mGeofences[x]
  <2>1. PICK g : g = With(mGeofences, h, f)
    OBVIOUS
  <2>2. /\ FencesIn(g) /\ DOMAIN g = DOMAIN mGeofences \cup {h}
        /\ g[h] = f /\ \A x \in DOMAIN mGeofences : x # h => g[x] = mGeofences[x]
    <3>1. f \in GfFence
      BY <1>3
    <3> QED
      BY <3>1, <1>4, <2>1, FenceSaved
  <2> QED
    BY <1>2, <2>1, <2>2
<1>6. /\ mGeofenceIds' \in [DOMAIN mGeofenceIds' -> HwId]
      /\ DOMAIN mGeofenceIds' = DOMAIN mGeofenceIds \cup {m.fence.key}
      /\ DOMAIN mGeofenceIds' \subseteq GfKey /\ IsFiniteSet(DOMAIN mGeofenceIds')
      /\ mGeofenceIds'[m.fence.key] = h
      /\ \A x \in DOMAIN mGeofenceIds : x # m.fence.key => mGeofenceIds'[x] = mGeofenceIds[x]
  BY <1>2, <1>3, IdSaved
<1>7. gfCalls' \in Seq(GfCalls)
  BY <1>2, MadeTypes
<1>8. gfRemoved' \subseteq GfKey
  BY <1>2 DEF GfTyped
<1>9. GfTyped'
  BY <1>2, <1>5, <1>6, <1>7, <1>8, TookTypes
<1> QED
  BY <1>3, <1>5, <1>6, <1>9 DEF SavedMaps

LEMMA RemovesTypes ==
  ASSUME GfTyped, NEW m \in GfMsgs, NEW h \in HwId, Removes(m, h)
  PROVE  /\ GfTyped'
         /\ m.fence.key \in GfKey
         /\ \/ UNCHANGED gfMaps /\ ~(h \in DOMAIN mGeofences /\ mGeofences[h].key \in DOMAIN mGeofenceIds)
            \/ /\ h \in DOMAIN mGeofences /\ mGeofences[h].key \in DOMAIN mGeofenceIds
               /\ DOMAIN mGeofences' = DOMAIN mGeofences \ {h}
               /\ \A x \in DOMAIN mGeofences : x # h => mGeofences'[x] = mGeofences[x]
               /\ DOMAIN mGeofenceIds' = DOMAIN mGeofenceIds \ {mGeofences[h].key}
               /\ \A x \in DOMAIN mGeofenceIds' : mGeofenceIds'[x] = mGeofenceIds[x]
<1>1. m \in Removal(h) /\ Took(m) /\ RemoveItem(h) /\ gfCalls' = gfCalls
      /\ gfRemoved' = gfRemoved \cup {m.fence.key}
  BY DEF Removes
<1>2. m.fence.key \in GfKey
  BY <1>1, ReplyIs DEF Removal
<1>3. gfRemoved' \subseteq GfKey /\ gfCalls' \in Seq(GfCalls)
  BY <1>1, <1>2 DEF GfTyped
<1>4. CASE h \in DOMAIN mGeofences /\ mGeofences[h].key \in DOMAIN mGeofenceIds
  <2>1. PICK k : k = mGeofences[h].key
    OBVIOUS
  <2>2. mGeofences' = Without(mGeofences, h) /\ mGeofenceIds' = Without(mGeofenceIds, k)
        /\ FencesIn(mGeofences)
    BY <1>1, <1>4, <2>1 DEF RemoveItem, GfTyped
  <2>3. /\ FencesIn(mGeofences') /\ DOMAIN mGeofences' = DOMAIN mGeofences \ {h}
        /\ \A x \in DOMAIN mGeofences : x # h => mGeofences'[x] = mGeofences[x]
    BY <2>2, FenceLeft
  <2>4. /\ mGeofenceIds' \in [DOMAIN mGeofenceIds' -> HwId]
        /\ DOMAIN mGeofenceIds' = DOMAIN mGeofenceIds \ {k}
        /\ DOMAIN mGeofenceIds' \subseteq GfKey /\ IsFiniteSet(DOMAIN mGeofenceIds')
        /\ \A x \in DOMAIN mGeofenceIds \ {k} : mGeofenceIds'[x] = mGeofenceIds[x]
    <3>1. DOMAIN mGeofenceIds \ {k} \subseteq DOMAIN mGeofenceIds
      OBVIOUS
    <3>2. mGeofenceIds' = Restrict(mGeofenceIds, DOMAIN mGeofenceIds \ {k})
      BY <2>2 DEF Without
    <3> QED
      BY <3>1, <3>2, IdsLeft
  <2>5. GfTyped'
    BY <1>1, <1>3, <2>3, <2>4, TookTypes
  <2> QED
    BY <1>2, <1>4, <2>1, <2>3, <2>4, <2>5
<1>5. CASE ~(h \in DOMAIN mGeofences /\ mGeofences[h].key \in DOMAIN mGeofenceIds)
  <2>1. mGeofences' = mGeofences /\ mGeofenceIds' = mGeofenceIds
    BY <1>1, <1>5 DEF RemoveItem, gfMaps
  <2>2. GfTyped'
    BY <1>1, <1>3, <2>1, TookTypes DEF GfTyped
  <2> QED
    BY <1>2, <1>5, <2>1, <2>2 DEF gfMaps
<1> QED
  BY <1>4, <1>5

LEMMA ChangesTypes ==
  ASSUME GfTyped, NEW m \in GfMsgs, NEW h \in HwId, Changes(m, h)
  PROVE  /\ GfTyped' /\ UNCHANGED mGeofenceIds
         /\ DOMAIN mGeofences' = DOMAIN mGeofences
         /\ \A x \in DOMAIN mGeofences : /\ x # h => mGeofences'[x] = mGeofences[x]
                                         /\ mGeofences'[x].key = mGeofences[x].key
         /\ h \in DOMAIN mGeofences => mGeofences'[h] = NewItem(m, mGeofences[h])
<1>1. m \in Set({"pause", "resume", "modify"}, h) /\ Took(m) /\ gfCalls' = gfCalls
      /\ gfRemoved' = gfRemoved /\ mGeofenceIds' = mGeofenceIds
  BY DEF Changes, ChangeItem
<1>2. CASE h \in DOMAIN mGeofences
  <2>1. PICK g : g = NewItem(m, mGeofences[h])
    OBVIOUS
  <2>2. g \in GfFence /\ g.key = mGeofences[h].key
    BY <1>1, <1>2, <2>1, ChangedItem
  <2>3. mGeofences' = [mGeofences EXCEPT ![h] = g] /\ FencesIn(mGeofences)
    BY <1>2, <2>1 DEF Changes, ChangeItem, GfTyped
  <2>4. /\ FencesIn(mGeofences') /\ DOMAIN mGeofences' = DOMAIN mGeofences
        /\ mGeofences'[h] = g /\ \A x \in DOMAIN mGeofences : x # h => mGeofences'[x] = mGeofences[x]
    BY <1>2, <2>2, <2>3, FenceChanged
  <2>5. GfTyped'
    BY <1>1, <2>4, TookTypes DEF GfTyped
  <2> QED
    BY <1>1, <2>1, <2>2, <2>4, <2>5
<1>3. CASE h \notin DOMAIN mGeofences
  <2>1. mGeofences' = mGeofences
    BY <1>3 DEF Changes, ChangeItem
  <2>2. GfTyped'
    BY <1>1, <2>1, TookTypes DEF GfTyped
  <2> QED
    BY <1>1, <1>3, <2>1, <2>2
<1> QED
  BY <1>2, <1>3

LEMMA FarewellTypes ==
  ASSUME GfTyped, NEW m \in GfMsgs, NEW r, Farewell(m, r)
  PROVE  /\ GfTyped' /\ UNCHANGED mGeofences
         /\ DOMAIN mGeofenceIds' = DOMAIN mGeofenceIds \ FencesOf(m)
         /\ \A k \in DOMAIN mGeofenceIds' : mGeofenceIds'[k] = mGeofenceIds[k]
<1>1. Took(m) /\ Made(r) /\ mGeofences' = mGeofences /\ gfRemoved' = gfRemoved
      /\ mGeofenceIds' = Restrict(mGeofenceIds, DOMAIN mGeofenceIds \ FencesOf(m))
  BY DEF Farewell
<1>2. /\ mGeofenceIds' \in [DOMAIN mGeofenceIds' -> HwId]
      /\ DOMAIN mGeofenceIds' = DOMAIN mGeofenceIds \ FencesOf(m)
      /\ DOMAIN mGeofenceIds' \subseteq GfKey /\ IsFiniteSet(DOMAIN mGeofenceIds')
      /\ \A x \in DOMAIN mGeofenceIds \ FencesOf(m) : mGeofenceIds'[x] = mGeofenceIds[x]
  <2>1. DOMAIN mGeofenceIds \ FencesOf(m) \subseteq DOMAIN mGeofenceIds
    OBVIOUS
  <2> QED
    BY <1>1, <2>1, IdsLeft
<1>3. gfCalls' \in Seq(GfCalls)
  BY <1>1, MadeTypes
<1>4. GfTyped'
  BY <1>1, <1>2, <1>3, TookTypes DEF GfTyped
<1> QED
  BY <1>1, <1>2, <1>4

LEMMA ForgetsTypes ==
  ASSUME GfTyped, NEW m \in GfMsgs, NEW h \in HwId, Forgets(m, h)
  PROVE  /\ GfTyped' /\ UNCHANGED mGeofenceIds
         /\ DOMAIN mGeofences' = DOMAIN mGeofences \ {h}
         /\ \A x \in DOMAIN mGeofences' : mGeofences'[x] = mGeofences[x]
<1>1. Took(m) /\ mGeofences' = Without(mGeofences, h) /\ gfRemoved' = gfRemoved
      /\ mGeofenceIds' = mGeofenceIds /\ gfCalls' = gfCalls
  BY DEF Forgets
<1>2. FencesIn(mGeofences)
  BY DEF GfTyped
<1>3. /\ FencesIn(mGeofences') /\ DOMAIN mGeofences' = DOMAIN mGeofences \ {h}
      /\ \A x \in DOMAIN mGeofences : x # h => mGeofences'[x] = mGeofences[x]
  BY <1>1, <1>2, FenceLeft
<1>4. GfTyped'
  BY <1>1, <1>3, TookTypes DEF GfTyped
<1> QED
  BY <1>1, <1>3, <1>4

LEMMA StartsOverTypes ==
  ASSUME GfTyped, NEW m \in GfMsgs, NEW r, StartsOver(m, r)
  PROVE  GfTyped' /\ DOMAIN mGeofences' = {} /\ DOMAIN mGeofenceIds' = {}
<1>1. Took(m) /\ Made(r) /\ mGeofences' = <<>> /\ mGeofenceIds' = <<>> /\ gfRemoved' = gfRemoved
  BY DEF StartsOver, ClearMaps
<1>2. DOMAIN mGeofences' = {} /\ DOMAIN mGeofenceIds' = {} /\ IsFiniteSet({})
  BY <1>1, FS_EmptySet
<1>3. FencesIn(mGeofences') /\ mGeofenceIds' \in [DOMAIN mGeofenceIds' -> HwId]
  BY <1>1, <1>2 DEF FencesIn
<1>4. gfCalls' \in Seq(GfCalls)
  BY <1>1, MadeTypes
<1>5. GfTyped'
  BY <1>1, <1>2, <1>3, <1>4, TookTypes DEF GfTyped
<1> QED
  BY <1>2, <1>5

LEMMA AdapterTypes ==
  ASSUME GfTyped, NEW m \in GfMsgs, NEW r \in Seq(GfCalls), AdapterDoes(m, r)
  PROVE  GfTyped'
BY PassesOnTypes, SavesTypes, RemovesTypes, ChangesTypes, FarewellTypes, ForgetsTypes,
   StartsOverTypes DEF AdapterDoes

\* What clients post
Posts(m) ==
  /\ gfMsgs' = Append(gfMsgs, m)
  /\ UNCHANGED <<gfMaps, gfCalls, engineFences, hwIds, engineUp, gfRemoved>>
ClientPosts(m) ==
  /\ Posts(m)
  /\ \/ /\ m \in GfCommands /\ UNCHANGED gfClients /\ gfIds' \in gfIds..MaxFences
        /\ IF m.op = "add"
           THEN /\ \A i \in DOMAIN m.fences : /\ m.fences[i].key.id > gfIds
                                              /\ m.fences[i].key.id <= gfIds'
                /\ \A i, j \in DOMAIN m.fences : m.fences[i].key = m.fences[j].key => i = j
           ELSE UNCHANGED gfIds
     \/ /\ m \in Goodbyes /\ UNCHANGED gfIds /\ gfClients' = gfClients \ {m.client}

\* A command on the fences ids of a client is posted.
CommandPosted(m, op, n, ids) ==
  /\ Posts(m) /\ UNCHANGED gfClients /\ m \in GfCommands /\ m.op = op
  /\ DOMAIN m.fences = 1..n /\ \A i \in 1..n : m.fences[i].key.id = ids[i]
  /\ \A i, j \in 1..n : m.fences[i].key = m.fences[j].key => ids[i] = ids[j]

\* A command of a client is a message on the adapter's queue, and so is its farewell.
LEMMA CommandPosts ==
  ASSUME GfTyped, NEW c \in GfClient, NEW n \in Nat, NEW ids \in [1..n -> 1..MaxFences],
         NEW op \in GfOp, NEW o \in GfOption, GeofenceCommand(c, op, ids, o)
  PROVE  \E m \in GfMsgs : CommandPosted(m, op, n, ids)
<1> DEFINE s == [i \in DOMAIN ids |-> Fence(Key(c, ids[i]), o, FALSE)]
<1>1. \A x \in 1..MaxFences : /\ Fence(Key(c, x), o, FALSE) \in GfFence
                              /\ Fence(Key(c, x), o, FALSE).key.id = x
  BY DEF Fence, Key, GfFence, FencesWith, GfKey
<1>2. s \in Seq(GfFence) /\ DOMAIN s = 1..n /\ \A i \in 1..n : s[i].key.id = ids[i]
  <2>1. DOMAIN ids = 1..n /\ \A i \in 1..n : ids[i] \in 1..MaxFences
    OBVIOUS
  <2>2. DOMAIN s = 1..n /\ \A i \in 1..n : s[i] = Fence(Key(c, ids[i]), o, FALSE)
    BY <2>1
  <2>3. \A i \in 1..n : s[i] \in GfFence /\ s[i].key.id = ids[i]
    BY <1>1, <2>1, <2>2
  <2>4. s \in [1..n -> GfFence]
    BY <2>2, <2>3
  <2>5. s \in Seq(GfFence)
    <3> HIDE DEF s
    <3> QED
      BY <2>4
  <2> QED
    BY <2>2, <2>3, <2>5
<1>3. PICK fences \in Seq(GfFence) : fences = s
  BY <1>2
<1>4. gfMsgs' = Append(gfMsgs, [what |-> "command", op |-> op, fences |-> fences])
      /\ UNCHANGED <<gfMaps, gfClients, gfCalls, gfEngine, gfRemoved>>
  BY <1>3 DEF GeofenceCommand
<1> HIDE DEF s
<1>5. PICK m \in GfCommands : m = [what |-> "command", op |-> op, fences |-> fences]
  BY <1>3 DEF GfCommands
<1>6. m.op = op /\ m.fences = fences /\ m \in GfMsgs
  BY <1>5 DEF GfMsgs
<1>7. Posts(m) /\ UNCHANGED gfClients
  BY <1>4, <1>5 DEF Posts, gfEngine
<1>8. \A i, j \in 1..n : fences[i].key = fences[j].key => ids[i] = ids[j]
  BY <1>2, <1>3
<1>9. CommandPosted(m, op, n, ids)
  BY <1>2, <1>3, <1>5, <1>6, <1>7, <1>8 DEF CommandPosted
<1> QED
  BY <1>6, <1>9

LEMMA ClientDoes ==
  ASSUME GfTyped, GeofenceNext, ~GeofenceAdapterStep, ~GeofenceEngineStep
  PROVE  \E m \in GfMsgs : ClientPosts(m)
<1> USE GeofenceAssumption
<1>0. gfIds \in Nat /\ gfIds <= MaxFences
  BY DEF GfTyped
<1>1. ASSUME NEW c \in GfClient, NEW o \in GfOption, NEW n \in 1..MaxGfItems, AddGeofences(c, n, o)
      PROVE  \E m \in GfMsgs : ClientPosts(m)
  <2> DEFINE s == [i \in 1..n |-> gfIds + i]
  <2>1. s \in [1..n -> 1..MaxFences] /\ (\A i, j \in 1..n : s[i] = s[j] => i = j)
        /\ \A i \in 1..n : s[i] > gfIds /\ s[i] <= gfIds + n
    BY <1>0, <1>1 DEF AddGeofences
  <2>2. PICK ids \in [1..n -> 1..MaxFences] : ids = s
    BY <2>1
  <2>3. GeofenceCommand(c, "add", ids, o) /\ gfIds' = gfIds + n /\ gfIds + n <= MaxFences
    BY <1>1, <2>2 DEF AddGeofences
  <2>4. (\A i, j \in 1..n : ids[i] = ids[j] => i = j) /\ \A i \in 1..n : ids[i] > gfIds /\ ids[i] <= gfIds'
    BY <2>1, <2>2, <2>3
  <2> HIDE DEF s
  <2>5. n \in Nat /\ "add" \in GfOp
    BY DEF GfOp
  <2>6. PICK m \in GfMsgs : CommandPosted(m, "add", n, ids)
    BY <2>3, <2>5, CommandPosts
  <2>7. gfIds' \in gfIds..MaxFences
    BY <1>0, <2>3
  <2>8. ClientPosts(m)
    <3>1. /\ Posts(m) /\ UNCHANGED gfClients /\ m \in GfCommands /\ m.op = "add"
          /\ DOMAIN m.fences = 1..n /\ \A i \in 1..n : m.fences[i].key.id = ids[i]
      BY <2>6 DEF CommandPosted
    <3>2. \A i \in DOMAIN m.fences : m.fences[i].key.id > gfIds /\ m.fences[i].key.id <= gfIds'
      BY <2>4, <3>1
    <3>3. \A i, j \in DOMAIN m.fences : m.fences[i].key = m.fences[j].key => i = j
      <4>1. ASSUME NEW i \in 1..n, NEW j \in 1..n, m.fences[i].key = m.fences[j].key PROVE i = j
        <5>1. ids[i] = ids[j]
          BY <2>6, <4>1 DEF CommandPosted
        <5> QED
          BY <2>4, <5>1
      <4> QED
        BY <3>1, <4>1
    <3> QED
      BY <2>7, <3>1, <3>2, <3>3 DEF ClientPosts
  <2> QED
    BY <2>8
<1>2. ASSUME NEW c \in GfClient, NEW o \in GfOption, NEW n \in 1..MaxGfItems,
             NEW ids \in [1..n -> 1..gfIds], NEW op \in {"remove", "pause", "resume", "modify"},
             OnGeofences(c, op, ids, o)
      PROVE  \E m \in GfMsgs : ClientPosts(m)
  <2>1. ids \in [1..n -> 1..MaxFences] /\ n \in Nat /\ op \in GfOp /\ op # "add"
    BY <1>0 DEF GfOp
  <2>2. GeofenceCommand(c, op, ids, o) /\ gfIds' = gfIds
    BY <1>2 DEF OnGeofences
  <2>3. PICK m \in GfMsgs : CommandPosted(m, op, n, ids)
    BY <2>1, <2>2, CommandPosts
  <2>4. gfIds' \in gfIds..MaxFences
    BY <1>0, <2>2
  <2>5. ClientPosts(m)
    BY <2>1, <2>2, <2>3, <2>4 DEF CommandPosted, ClientPosts
  <2> QED
    BY <2>5
<1>3. ASSUME NEW c \in GfClient, GeofenceClientGoes(c)
      PROVE  \E m \in GfMsgs : ClientPosts(m)
  <2>1. PICK m \in Goodbyes : m = [what |-> "removeClient", client |-> c]
    BY DEF Goodbyes
  <2>2. m \in GfMsgs /\ m.client = c
    BY <2>1 DEF GfMsgs
  <2>3. ClientPosts(m)
    BY <1>3, <2>1, <2>2 DEF GeofenceClientGoes, ClientPosts, Posts, gfEngine
  <2> QED
    BY <2>2, <2>3
<1> QED
  BY <1>1, <1>2, <1>3 DEF GeofenceNext

LEMMA ClientTypes ==
  ASSUME GfTyped, NEW m \in GfMsgs, ClientPosts(m)
  PROVE  GfTyped'
<1>1. gfMsgs' \in Seq(GfMsgs)
  BY PostMessage DEF ClientPosts, Posts, GfTyped
<1>2. gfIds' \in 0..MaxFences /\ gfClients' \subseteq GfClient
  BY GeofenceAssumption DEF ClientPosts, GfTyped
<1>3. UNCHANGED <<gfMaps, gfCalls, engineFences, hwIds, engineUp, gfRemoved>>
  BY DEF ClientPosts, Posts
<1> QED
  BY <1>1, <1>2, <1>3 DEF GfTyped, gfMaps

\* A crash and the restart of the engine keep the types.
LEMMA CrashTypes ==
  ASSUME GfTyped, EngineCrashes
  PROVE  GfTyped'
<1>1. FencesIn(engineFences') /\ engineFences' = <<>> /\ engineUp' = FALSE
  BY DEF EngineCrashes, FencesIn
<1>2. UNCHANGED <<mGeofences, mGeofenceIds, gfIds, gfClients, gfMsgs, gfCalls, hwIds, gfRemoved>>
  BY DEF EngineCrashes, gfMaps
<1> QED
  BY <1>1, <1>2 DEF GfTyped

LEMMA ComesUpTypes ==
  ASSUME GfTyped, EngineComesUp
  PROVE  GfTyped' /\ \E m \in GfUpMsg : m \in GfMsgs /\ gfMsgs' = Append(gfMsgs, m)
<1>1. PICK m \in GfUpMsg : m = [what |-> "engineUp"]
  BY DEF GfUpMsg
<1>2. m \in GfMsgs /\ gfMsgs' = Append(gfMsgs, m)
  BY <1>1 DEF GfMsgs, EngineComesUp
<1>3. gfMsgs' \in Seq(GfMsgs)
  BY <1>2, PostMessage DEF GfTyped
<1>4. UNCHANGED <<mGeofences, mGeofenceIds, gfIds, gfClients, gfCalls, engineFences, hwIds, gfRemoved>>
      /\ engineUp' = TRUE
  BY DEF EngineComesUp, gfMaps
<1>5. GfTyped'
  BY <1>3, <1>4 DEF GfTyped
<1> QED
  BY <1>2, <1>5

\* Every step of the component is one of these.
LEMMA GeofenceSteps ==
  ASSUME GfTyped, GeofenceNext
  PROVE  \/ \E m \in GfMsgs : ClientPosts(m)
         \/ \E m \in GfMsgs, r \in Seq(GfCalls) : AdapterDoes(m, r)
         \/ \E c \in GfCalls, m \in GfMsgs : EngineDid(c, m)
         \/ EngineCrashes \/ EngineComesUp
BY ClientDoes, AdapterStepDoes, EngineHandlesDoes DEF GeofenceNext, GeofenceEngineStep

-----------------------------------------------------------------------------
(* a hwId is that of one fence for ever *)

\* What is known of the owners of hwIds stays true as more are given out.
LEMMA OwnersGrow ==
  ASSUME NEW o1 \in [HwId -> GfKey], NEW o2 \in [HwId -> GfKey], NEW n \in Nat, NEW l \in Nat,
         n <= l, \A x \in HwId : x <= n => o1[x] = o2[x]
  PROVE  /\ OwnedMsgs(o1, n) \subseteq OwnedMsgs(o2, l)
         /\ OwnedCalls(o1, n) \subseteq OwnedCalls(o2, l)
<1>1. ASSUME NEW m \in OwnedMsgs(o1, n) PROVE m \in OwnedMsgs(o2, l)
  <2>1. SUFFICES ASSUME m \in Replies, m.hwId # 0
                 PROVE  m.fence.key = o2[m.hwId] /\ m.hwId <= l
    BY <1>1 DEF OwnedMsgs
  <2>2. m.fence.key = o1[m.hwId] /\ m.hwId <= n
    BY <1>1, <2>1 DEF OwnedMsgs
  <2>3. m.hwId \in HwId
    BY <2>1, ReplyIs DEF AnyHwId
  <2>4. m.hwId \in Nat
    BY <2>3, HwIdFacts
  <2> QED
    BY <2>2, <2>3, <2>4
<1>2. ASSUME NEW c \in OwnedCalls(o1, n) PROVE c \in OwnedCalls(o2, l)
  <2>1. SUFFICES ASSUME c.hwId # 0
                 PROVE  c.then.fence.key = o2[c.hwId] /\ c.hwId <= l
    BY <1>2 DEF OwnedCalls
  <2>2. c.then.fence.key = o1[c.hwId] /\ c.hwId <= n /\ c \in GfCalls
    BY <1>2, <2>1 DEF OwnedCalls
  <2>3. c.hwId \in HwId
    BY <2>1, <2>2, GfCallIs DEF AnyHwId
  <2>4. c.hwId \in Nat
    BY <2>3, HwIdFacts
  <2> QED
    BY <2>2, <2>3, <2>4
<1> QED
  BY <1>1, <1>2

\* An owner of the hwIds stays one when the adapter handles a message.
LEMMA OwnerTook ==
  ASSUME GfTyped, NEW owner \in [HwId -> GfKey], OwnerIs(owner), NEW m, NEW r, Took(m), Made(r),
         \A i \in DOMAIN r : r[i] \in OwnedCalls(owner, hwIds), OwnerInMaps(owner)'
  PROVE  OwnerIs(owner)'
<1>1. gfMsgs \in Seq(OwnedMsgs(owner, hwIds)) /\ gfCalls \in Seq(OwnedCalls(owner, hwIds))
  BY DEF OwnerIs, OwnerInQueues
<1>2. Tail(gfMsgs) \in Seq(OwnedMsgs(owner, hwIds))
  BY <1>1, TakeHead DEF Took
<1>3. r \in Seq(OwnedCalls(owner, hwIds))
  <2>1. r \in Seq(GfCalls)
    BY DEF Made
  <2> QED
    BY <2>1, TypedQueue
<1>4. gfCalls \o r \in Seq(OwnedCalls(owner, hwIds))
  BY <1>1, <1>3, PostMessages
<1>5. gfMsgs' = Tail(gfMsgs) /\ gfCalls' = gfCalls \o r /\ hwIds' = hwIds
  BY DEF Took, Made
<1> QED
  BY <1>2, <1>4, <1>5 DEF OwnerIs, OwnerInQueues

LEMMA OwnerTookAlone ==
  ASSUME GfTyped, NEW owner \in [HwId -> GfKey], OwnerIs(owner), NEW m, Took(m), UNCHANGED gfCalls,
         OwnerInMaps(owner)'
  PROVE  OwnerIs(owner)'
<1>1. Made(<<>>) /\ DOMAIN <<>> = {}
  BY NoCalls
<1> QED
  BY <1>1, OwnerTook

LEMMA HeadOwned ==
  ASSUME GfTyped, NEW owner \in [HwId -> GfKey], OwnerIs(owner), NEW m, Took(m),
         NEW h \in HwId, m \in Replies, m.hwId = h
  PROVE  m.fence.key = owner[h] /\ h <= hwIds /\ h \in Nat
<1>1. m \in OwnedMsgs(owner, hwIds)
  BY TakeHead DEF OwnerIs, OwnerInQueues, Took
<1> QED
  BY <1>1, HwIdFacts DEF OwnedMsgs

LEMMA PassesOnOwner ==
  ASSUME GfTyped, NEW owner \in [HwId -> GfKey], OwnerIs(owner), NEW m \in GfMsgs, NEW r, PassesOn(m, r)
  PROVE  OwnerIs(owner)'
<1>1. Took(m) /\ Made(r) /\ OwnerInMaps(owner)'
  BY DEF PassesOn, OwnerIs, OwnerInMaps, gfMaps, Took
<1>2. ASSUME NEW i \in DOMAIN r PROVE r[i] \in OwnedCalls(owner, hwIds)
  <2>1. r[i] \in GfCalls
    BY <1>1 DEF Made
  <2>2. CASE r[i].hwId = 0
    BY <2>1, <2>2 DEF OwnedCalls
  <2>3. CASE r[i].hwId # 0
    <3>1. KnownAs(r[i].then.fence.key, r[i].hwId)
      BY <2>3 DEF PassesOn
    <3> QED
      BY <2>1, <3>1 DEF OwnedCalls, KnownAs, OwnerIs, OwnerInMaps
  <2> QED
    BY <2>2, <2>3
<1> QED
  BY <1>1, <1>2, OwnerTook

LEMMA SavesOwner ==
  ASSUME GfTyped, NEW owner \in [HwId -> GfKey], OwnerIs(owner), NEW m \in GfMsgs, NEW r,
         NEW h \in HwId, Saves(m, r, h)
  PROVE  OwnerIs(owner)'
<1>1. Took(m) /\ Made(r) /\ m \in Replies /\ m.hwId = h /\ hwIds' = hwIds /\ engineFences' = engineFences
  BY DEF Saves, Found, Took
<1>2. m.fence.key = owner[h] /\ h <= hwIds
  BY <1>1, HeadOwned
<1>3. OwnerInMaps(owner)'
  <2>1. SavedMaps(m, h)
    BY SavesTypes
  <2>2. OwnerInMaps(owner)
    BY DEF OwnerIs
  <2>3. \A x \in DOMAIN mGeofences' : mGeofences'[x].key = owner[x] /\ x <= hwIds
    BY <1>2, <2>1, <2>2 DEF OwnerInMaps, SavedMaps
  <2>4. \A k \in DOMAIN mGeofenceIds' : owner[mGeofenceIds'[k]] = k /\ mGeofenceIds'[k] <= hwIds
    BY <1>2, <2>1, <2>2 DEF OwnerInMaps, SavedMaps
  <2> QED
    BY <1>1, <2>2, <2>3, <2>4 DEF OwnerInMaps
<1>4. ASSUME NEW i \in DOMAIN r PROVE r[i] \in OwnedCalls(owner, hwIds)
  <2>1. r[i] \in GfCalls /\ r[i].hwId = h /\ r[i].then.fence.key = m.fence.key
    BY <1>1 DEF Made, Saves
  <2> QED
    BY <1>2, <2>1 DEF OwnedCalls
<1> QED
  BY <1>1, <1>3, <1>4, OwnerTook

LEMMA FarewellOwner ==
  ASSUME GfTyped, NEW owner \in [HwId -> GfKey], OwnerIs(owner), NEW m \in GfMsgs, NEW r, Farewell(m, r)
  PROVE  OwnerIs(owner)'
<1>1. Took(m) /\ Made(r) /\ hwIds' = hwIds /\ engineFences' = engineFences
  BY DEF Farewell, Took
<1>2. OwnerInMaps(owner)'
  <2>1. /\ mGeofences' = mGeofences /\ DOMAIN mGeofenceIds' = DOMAIN mGeofenceIds \ FencesOf(m)
        /\ \A k \in DOMAIN mGeofenceIds' : mGeofenceIds'[k] = mGeofenceIds[k]
    BY FarewellTypes
  <2> QED
    BY <1>1, <2>1 DEF OwnerInMaps, OwnerIs
<1>3. ASSUME NEW i \in DOMAIN r PROVE r[i] \in OwnedCalls(owner, hwIds)
  <2>1. r[i] \in GfCalls /\ r[i].then.fence.key \in DOMAIN mGeofenceIds
        /\ r[i].hwId = mGeofenceIds[r[i].then.fence.key]
    BY <1>1 DEF Made, Farewell, FencesOf
  <2> QED
    BY <2>1 DEF OwnedCalls, OwnerIs, OwnerInMaps
<1> QED
  BY <1>1, <1>2, <1>3, OwnerTook

LEMMA StartsOverOwner ==
  ASSUME GfTyped, NEW owner \in [HwId -> GfKey], OwnerIs(owner), NEW m \in GfMsgs, NEW r, StartsOver(m, r)
  PROVE  OwnerIs(owner)'
<1>1. Took(m) /\ Made(r) /\ hwIds' = hwIds /\ engineFences' = engineFences
  BY DEF StartsOver, Took
<1>2. OwnerInMaps(owner)'
  BY <1>1, StartsOverTypes DEF OwnerInMaps, OwnerIs
<1>3. ASSUME NEW i \in DOMAIN r PROVE r[i] \in OwnedCalls(owner, hwIds)
  <2>1. r[i] \in GfCalls /\ r[i] \in Restoring
    BY <1>1 DEF Made, StartsOver
  <2> QED
    BY <2>1 DEF OwnedCalls, Restoring
<1> QED
  BY <1>1, <1>2, <1>3, OwnerTook

LEMMA AdapterOwner ==
  ASSUME GfTyped, NEW owner \in [HwId -> GfKey], OwnerIs(owner), NEW m \in GfMsgs,
         NEW r \in Seq(GfCalls), AdapterDoes(m, r)
  PROVE  OwnerIs(owner)'
<1>1. ASSUME NEW h \in HwId, Removes(m, h) PROVE OwnerIs(owner)'
  <2>1. Took(m) /\ UNCHANGED gfCalls /\ hwIds' = hwIds /\ engineFences' = engineFences
    BY <1>1 DEF Removes, Took
  <2>2. /\ DOMAIN mGeofences' \subseteq DOMAIN mGeofences
        /\ \A x \in DOMAIN mGeofences' : mGeofences'[x] = mGeofences[x]
        /\ DOMAIN mGeofenceIds' \subseteq DOMAIN mGeofenceIds
        /\ \A x \in DOMAIN mGeofenceIds' : mGeofenceIds'[x] = mGeofenceIds[x]
    BY <1>1, RemovesTypes DEF gfMaps
  <2>3. OwnerInMaps(owner)'
    BY <2>1, <2>2 DEF OwnerInMaps, OwnerIs
  <2> QED
    BY <2>1, <2>3, OwnerTookAlone
<1>2. ASSUME NEW h \in HwId, Changes(m, h) PROVE OwnerIs(owner)'
  <2>1. Took(m) /\ UNCHANGED gfCalls /\ hwIds' = hwIds /\ engineFences' = engineFences
    BY <1>2 DEF Changes, Took
  <2>2. /\ mGeofenceIds' = mGeofenceIds /\ DOMAIN mGeofences' = DOMAIN mGeofences
        /\ \A x \in DOMAIN mGeofences : mGeofences'[x].key = mGeofences[x].key
    BY <1>2, ChangesTypes
  <2>3. OwnerInMaps(owner)'
    BY <2>1, <2>2 DEF OwnerInMaps, OwnerIs
  <2> QED
    BY <2>1, <2>3, OwnerTookAlone
<1>3. ASSUME NEW h \in HwId, Forgets(m, h) PROVE OwnerIs(owner)'
  <2>1. Took(m) /\ UNCHANGED gfCalls /\ hwIds' = hwIds /\ engineFences' = engineFences
    BY <1>3 DEF Forgets, Took
  <2>2. /\ mGeofenceIds' = mGeofenceIds /\ DOMAIN mGeofences' = DOMAIN mGeofences \ {h}
        /\ \A x \in DOMAIN mGeofences' : mGeofences'[x] = mGeofences[x]
    BY <1>3, ForgetsTypes
  <2>3. OwnerInMaps(owner)'
    BY <2>1, <2>2 DEF OwnerInMaps, OwnerIs
  <2> QED
    BY <2>1, <2>3, OwnerTookAlone
<1> QED
  BY <1>1, <1>2, <1>3, PassesOnOwner, SavesOwner, FarewellOwner, StartsOverOwner DEF AdapterDoes

\* When the engine gives out a hwId, the fence it adds is its owner.
LEMMA EngineOwner ==
  ASSUME GfTyped, NEW owner \in [HwId -> GfKey], OwnerIs(owner), NEW c \in GfCalls,
         NEW m \in GfMsgs, EngineDid(c, m)
  PROVE  \E o \in [HwId -> GfKey] : OwnerIs(o)'
<1>1. /\ gfMsgs \in Seq(OwnedMsgs(owner, hwIds)) /\ gfCalls \in Seq(OwnedCalls(owner, hwIds))
      /\ OwnerInMaps(owner) /\ hwIds \in Nat
  BY HwIdFacts DEF OwnerIs, OwnerInQueues, GfTyped
<1>2. Handled(c, m) /\ gfCalls' = Tail(gfCalls) /\ gfMsgs' = Append(gfMsgs, m)
      /\ mGeofences' = mGeofences /\ mGeofenceIds' = mGeofenceIds
  BY DEF EngineDid, LetsPass, EngineAdds, EngineChanges, Handled, gfMaps
<1>3. c \in OwnedCalls(owner, hwIds) /\ Tail(gfCalls) \in Seq(OwnedCalls(owner, hwIds))
  BY <1>1, <1>2, TakeHead DEF Handled
<1>4. CASE LetsPass(c, m)
  <2>1. m \in OwnedMsgs(owner, hwIds)
    <3>1. CASE m \in Items
      BY <3>1, ItemIs DEF OwnedMsgs
    <3>2. CASE AnswerTo(c, m, c.hwId)
      BY <1>3, <3>2 DEF OwnedMsgs, OwnedCalls, AnswerTo
    <3> QED
      BY <1>4, <3>1, <3>2 DEF LetsPass
  <2>2. Append(gfMsgs, m) \in Seq(OwnedMsgs(owner, hwIds))
    BY <1>1, <2>1, PostMessage
  <2>3. hwIds' = hwIds /\ engineFences' = engineFences
    BY <1>4 DEF LetsPass
  <2>4. OwnerIs(owner)'
    BY <1>1, <1>2, <1>3, <2>2, <2>3 DEF OwnerIs, OwnerInQueues, OwnerInMaps
  <2> QED
    BY <2>4
<1>5. ASSUME NEW h \in HwId, EngineChanges(c, m, h) PROVE OwnerIs(owner)'
  <2>1. m \in Replies /\ m.hwId = h /\ m.fence = c.then.fence /\ h = c.hwId /\ h \in DOMAIN engineFences
        /\ hwIds' = hwIds
    BY <1>5 DEF EngineChanges, AnswerTo
  <2>2. m \in OwnedMsgs(owner, hwIds)
    BY <1>3, <2>1 DEF OwnedMsgs, OwnedCalls
  <2>3. Append(gfMsgs, m) \in Seq(OwnedMsgs(owner, hwIds))
    BY <1>1, <2>2, PostMessage
  <2>4. /\ DOMAIN engineFences' \subseteq DOMAIN engineFences
        /\ \A x \in DOMAIN engineFences' : engineFences'[x].key = engineFences[x].key
    <3>1. FencesIn(engineFences)
      BY DEF GfTyped
    <3>2. CASE c.op = "remove"
      <4>1. engineFences' = Without(engineFences, h)
        BY <1>5, <3>2 DEF EngineChanges
      <4>2. PICK f : f = Without(engineFences, h)
        OBVIOUS
      <4>3. DOMAIN f = DOMAIN engineFences \ {h} /\ \A x \in DOMAIN engineFences : x # h => f[x] = engineFences[x]
        BY <3>1, <4>2, FenceLeft
      <4> QED
        BY <4>1, <4>2, <4>3
    <3>3. CASE c.op # "remove"
      <4>1. PICK g \in GfFence : engineFences' = [engineFences EXCEPT ![h] = g] /\ g.key = engineFences[h].key
        BY <1>5, <3>3, EngineFenceChanged
      <4>2. /\ DOMAIN engineFences' = DOMAIN engineFences /\ engineFences'[h] = g
            /\ \A x \in DOMAIN engineFences : x # h => engineFences'[x] = engineFences[x]
        BY <2>1, <3>1, <4>1, FenceChanged
      <4> QED
        BY <4>1, <4>2
    <3> QED
      BY <3>2, <3>3
  <2> QED
    BY <1>1, <1>2, <1>3, <2>1, <2>3, <2>4 DEF OwnerIs, OwnerInQueues, OwnerInMaps
<1>6. ASSUME NEW h \in HwId, EngineAdds(c, m, h) PROVE \E o \in [HwId -> GfKey] : OwnerIs(o)'
  <2>1. /\ m \in Replies /\ m.hwId = h /\ m.fence = c.then.fence /\ h = hwIds + 1 /\ hwIds' = h
        /\ engineFences' = With(engineFences, h, c.then.fence) /\ c.op = "add"
    BY <1>6 DEF EngineAdds, AnswerTo
  <2>2. c.then.fence \in GfFence /\ c.then.fence.key \in GfKey
    BY <2>1, GfCallIs
  <2>3. PICK k \in GfKey : k = c.then.fence.key
    BY <2>2
  <2>4. PICK o \in [HwId -> GfKey] : o = [owner EXCEPT ![h] = k]
    OBVIOUS
  <2>5. o[h] = k /\ \A x \in HwId : x # h => o[x] = owner[x]
    BY <2>4
  <2>6. \A x \in HwId : x \in Nat /\ (x <= hwIds => o[x] = owner[x] /\ x <= h)
    BY <1>1, <2>1, <2>5, HwIdFacts
  <2>7. OwnedMsgs(owner, hwIds) \subseteq OwnedMsgs(o, h) /\ OwnedCalls(owner, hwIds) \subseteq OwnedCalls(o, h)
    <3>1. h \in Nat /\ hwIds <= h /\ \A x \in HwId : x <= hwIds => owner[x] = o[x]
      BY <1>1, <2>1, <2>6
    <3> QED
      BY <1>1, <3>1, OwnersGrow
  <2>8. gfMsgs \in Seq(OwnedMsgs(o, h)) /\ Tail(gfCalls) \in Seq(OwnedCalls(o, h))
    BY <1>1, <1>3, <2>7, WiderType
  <2>9. m \in OwnedMsgs(o, h)
    <3>1. h \in Nat /\ h <= h
      BY <1>1, <2>1
    <3> QED
      BY <2>1, <2>3, <2>5, <3>1 DEF OwnedMsgs
  <2>10. Append(gfMsgs, m) \in Seq(OwnedMsgs(o, h))
    BY <2>8, <2>9, PostMessage
  <2>11. FencesIn(engineFences) /\ FencesIn(mGeofences) /\ mGeofenceIds \in [DOMAIN mGeofenceIds -> HwId]
    BY DEF GfTyped
  <2>12. /\ DOMAIN engineFences' = DOMAIN engineFences \cup {h} /\ engineFences'[h] = c.then.fence
         /\ \A x \in DOMAIN engineFences : x # h => engineFences'[x] = engineFences[x]
    <3>1. PICK g : g = With(engineFences, h, c.then.fence)
      OBVIOUS
    <3>2. /\ DOMAIN g = DOMAIN engineFences \cup {h} /\ g[h] = c.then.fence
          /\ \A x \in DOMAIN engineFences : x # h => g[x] = engineFences[x]
      BY <2>2, <2>11, <3>1, FenceSaved
    <3> QED
      BY <2>1, <3>1, <3>2
  <2>13. \A x \in DOMAIN mGeofences : mGeofences[x].key = o[x] /\ x <= h
    BY <1>1, <2>6, <2>11 DEF OwnerInMaps, FencesIn
  <2>14. \A x \in DOMAIN engineFences : engineFences[x].key = o[x] /\ x <= h /\ x # h
    <3>1. \A x \in DOMAIN engineFences : x \in HwId /\ engineFences[x].key = owner[x] /\ x <= hwIds
      BY <1>1, <2>11 DEF OwnerInMaps, FencesIn
    <3>2. \A x \in Nat : x <= hwIds => x # h
      BY <1>1, <2>1
    <3> QED
      BY <2>6, <3>1, <3>2
  <2>15. \A x \in DOMAIN engineFences' : engineFences'[x].key = o[x] /\ x <= h
    <3>1. h \in Nat /\ h <= h
      BY <1>1, <2>1
    <3> QED
      BY <2>3, <2>5, <2>12, <2>14, <3>1
  <2>16. \A x \in DOMAIN mGeofenceIds : o[mGeofenceIds[x]] = x /\ mGeofenceIds[x] <= h
    BY <1>1, <2>6, <2>11 DEF OwnerInMaps
  <2>17. OwnerIs(o)'
    BY <1>2, <2>1, <2>8, <2>10, <2>13, <2>15, <2>16 DEF OwnerIs, OwnerInQueues, OwnerInMaps
  <2> QED
    BY <2>17
<1> QED
  BY <1>4, <1>5, <1>6 DEF EngineDid

LEMMA GfOwnerKept ==
  ASSUME GfTyped, NEW owner \in [HwId -> GfKey], OwnerIs(owner), GeofenceNext
  PROVE  \E o \in [HwId -> GfKey] : OwnerIs(o)'
<1>1. ASSUME NEW m \in GfMsgs, ClientPosts(m) PROVE OwnerIs(owner)'
  <2>1. m \notin Replies
    BY <1>1, ReplyIs DEF ClientPosts, GfCommands, Goodbyes
  <2>2. m \in OwnedMsgs(owner, hwIds)
    BY <2>1 DEF OwnedMsgs
  <2>3. UNCHANGED <<gfMaps, gfCalls, engineFences, hwIds>> /\ gfMsgs' = Append(gfMsgs, m)
    BY <1>1 DEF ClientPosts, Posts
  <2>4. Append(gfMsgs, m) \in Seq(OwnedMsgs(owner, hwIds))
    BY <2>2, PostMessage DEF OwnerIs, OwnerInQueues
  <2> QED
    BY <2>3, <2>4 DEF OwnerIs, OwnerInQueues, OwnerInMaps, gfMaps
<1>2. CASE EngineCrashes
  <2>1. UNCHANGED <<mGeofences, mGeofenceIds, gfMsgs, gfCalls, hwIds>> /\ DOMAIN engineFences' = {}
    BY <1>2 DEF EngineCrashes, gfMaps
  <2>2. OwnerIs(owner)'
    BY <2>1 DEF OwnerIs, OwnerInQueues, OwnerInMaps
  <2> QED
    BY <2>2
<1>3. CASE EngineComesUp
  <2>1. UNCHANGED <<mGeofences, mGeofenceIds, gfCalls, hwIds, engineFences>>
    BY <1>3 DEF EngineComesUp, gfMaps
  <2>2. PICK m \in GfUpMsg : m \in GfMsgs /\ gfMsgs' = Append(gfMsgs, m)
    BY <1>3, ComesUpTypes
  <2>3. m \in OwnedMsgs(owner, hwIds)
    BY <2>2, ReplyIs DEF OwnedMsgs, GfUpMsg
  <2>4. Append(gfMsgs, m) \in Seq(OwnedMsgs(owner, hwIds))
    BY <2>3, PostMessage DEF OwnerIs, OwnerInQueues
  <2>5. OwnerIs(owner)'
    BY <2>1, <2>2, <2>4 DEF OwnerIs, OwnerInQueues, OwnerInMaps
  <2> QED
    BY <2>5
<1> QED
  BY <1>1, <1>2, <1>3, AdapterOwner, EngineOwner, GeofenceSteps

-----------------------------------------------------------------------------
(* a fence is at one place *)

\* The places of a fence can be counted.
LEMMA TimesNat ==
  ASSUME GfTyped, NEW k \in GfKey
  PROVE  /\ InMsgs(k) \in Nat /\ InCalls(k) \in Nat
         /\ IsFiniteSet(Saved(k)) /\ Cardinality(Saved(k)) \in Nat
         /\ Times(k) = InMsgs(k) + InCalls(k) + Cardinality(Saved(k))
<1>1. InMsgs(k) \in Nat /\ InCalls(k) \in Nat
  BY PlacesNumber DEF InMsgs, InCalls, GfTyped
<1>2. Saved(k) \subseteq HwId
  BY DEF Saved, GfTyped, FencesIn
<1> QED
  BY <1>1, <1>2, HwIdFacts, FS_Subset, FS_CardinalityType DEF Times

LEMMA TimesNatNext ==
  ASSUME GfTyped', NEW k \in GfKey
  PROVE  /\ InMsgs(k)' \in Nat /\ InCalls(k)' \in Nat
         /\ IsFiniteSet(Saved(k)') /\ Cardinality(Saved(k)') \in Nat
         /\ Times(k)' = InMsgs(k)' + InCalls(k)' + Cardinality(Saved(k)')
<1>1. InMsgs(k)' \in Nat /\ InCalls(k)' \in Nat
  BY PlacesNumber DEF InMsgs, InCalls, GfTyped
<1>2. Saved(k)' \subseteq HwId
  BY DEF Saved, GfTyped, FencesIn
<1> QED
  BY <1>1, <1>2, HwIdFacts, FS_Subset, FS_CardinalityType DEF Times

\* What a handled message takes from the places of a fence, and its calls add.
LEMMA TimesTook ==
  ASSUME GfTyped, NEW m \in GfMsgs, Took(m), NEW r, Made(r), NEW k \in GfKey
  PROVE  /\ InMsgs(k) = InMsgs(k)' + (IF m \in Adding(k) THEN 1 ELSE 0)
         /\ InCalls(k)' = InCalls(k) + Cardinality(Places(r, AddCalls(k)))
         /\ Cardinality(Places(r, AddCalls(k))) \in Nat
<1>1. gfMsgs \in Seq(GfMsgs) /\ gfMsgs # <<>> /\ m = Head(gfMsgs) /\ gfMsgs' = Tail(gfMsgs)
  BY DEF Took, GfTyped
<1>2. PICK T : T = Adding(k)
  OBVIOUS
<1>3. Cardinality(Places(gfMsgs, T)) = Cardinality(Places(Tail(gfMsgs), T)) + (IF Head(gfMsgs) \in T THEN 1 ELSE 0)
  BY <1>1, PlacesTaken
<1>4. InMsgs(k) = Cardinality(Places(gfMsgs, T)) /\ InMsgs(k)' = Cardinality(Places(gfMsgs', T))
  BY <1>2 DEF InMsgs
<1>5. gfCalls \in Seq(GfCalls) /\ r \in Seq(GfCalls) /\ gfCalls' = gfCalls \o r
  BY DEF Made, GfTyped
<1>6. PICK U : U = AddCalls(k)
  OBVIOUS
<1>7. Cardinality(Places(gfCalls \o r, U)) = Cardinality(Places(gfCalls, U)) + Cardinality(Places(r, U))
  BY <1>5, PlacesPosts
<1>8. InCalls(k) = Cardinality(Places(gfCalls, U)) /\ InCalls(k)' = Cardinality(Places(gfCalls', U))
  BY <1>6 DEF InCalls
<1>9. Cardinality(Places(r, U)) \in Nat
  BY <1>5, PlacesNumber
<1> QED
  BY <1>1, <1>2, <1>3, <1>4, <1>5, <1>6, <1>7, <1>8, <1>9

LEMMA TimesTookAlone ==
  ASSUME GfTyped, NEW m \in GfMsgs, Took(m), NEW r, Made(r), NEW k \in GfKey,
         \A i \in DOMAIN r : r[i] \notin AddCalls(k)
  PROVE  /\ InMsgs(k) = InMsgs(k)' + (IF m \in Adding(k) THEN 1 ELSE 0)
         /\ InCalls(k)' = InCalls(k)
<1>1. Places(r, AddCalls(k)) = {}
  BY DEF Places
<1>2. Cardinality(Places(r, AddCalls(k))) = 0
  BY <1>1, FS_EmptySet
<1>3. InCalls(k) \in Nat
  BY TimesNat
<1> QED
  BY <1>2, <1>3, TimesTook

\* What keeps a fence at one place
LEMMA SingleStays ==
  ASSUME GfTyped, GfTyped', Single, gfMsgs' \in Seq(Proper(gfClients)'),
         \A k \in GfKey : Times(k)' <= Times(k), UNCHANGED <<gfIds, gfClients, gfRemoved>>
  PROVE  Single'
<1>1. ASSUME NEW k \in GfKey PROVE Times(k)' <= 1 /\ (Gone(k)' => Times(k)' = 0)
  <2>1. Times(k) \in Nat
    <3>1. /\ InMsgs(k) \in Nat /\ InCalls(k) \in Nat /\ Cardinality(Saved(k)) \in Nat
          /\ Times(k) = InMsgs(k) + InCalls(k) + Cardinality(Saved(k))
      BY TimesNat
    <3> QED
      BY <3>1
  <2>2. Times(k)' \in Nat
    <3>1. /\ InMsgs(k)' \in Nat /\ InCalls(k)' \in Nat /\ Cardinality(Saved(k)') \in Nat
          /\ Times(k)' = InMsgs(k)' + InCalls(k)' + Cardinality(Saved(k)')
      BY TimesNatNext
    <3> QED
      BY <3>1
  <2>3. Gone(k)' => Gone(k)
    BY DEF Gone
  <2>4. Times(k) <= 1 /\ (Gone(k) => Times(k) = 0) /\ Times(k)' <= Times(k)
    BY DEF Single
  <2> QED
    BY <2>1, <2>2, <2>3, <2>4
<1>2. \A k \in gfRemoved' : k.client \in gfClients' => k.id <= gfIds'
  BY DEF Single
<1> QED
  BY <1>1, <1>2 DEF Single
LEMMA ProperTook ==
  ASSUME GfTyped, Single, NEW m, Took(m)
  PROVE  gfMsgs' \in Seq(Proper(gfClients)') /\ m \in Proper(gfClients)
<1>1. gfMsgs \in Seq(Proper(gfClients)) /\ gfMsgs # <<>> /\ m = Head(gfMsgs) /\ gfMsgs' = Tail(gfMsgs)
      /\ gfClients' = gfClients
  BY DEF Single, Took
<1>2. Tail(gfMsgs) \in Seq(Proper(gfClients)) /\ Head(gfMsgs) \in Proper(gfClients)
  BY <1>1, TakeHead
<1>3. Proper(gfClients)' = Proper(gfClients)
  BY <1>1 DEF Proper
<1> QED
  BY <1>1, <1>2, <1>3

\* A step of the adapter on fences that are already there
LEMMA SavedLess ==
  ASSUME GfTyped, GfTyped', Single, NEW m \in GfMsgs, Took(m), NEW r, Made(r), UNCHANGED gfRemoved,
         \A k \in GfKey : /\ Saved(k)' \subseteq Saved(k)
                          /\ \A i \in DOMAIN r : r[i] \notin AddCalls(k)
  PROVE  Single'
<1>1. ASSUME NEW k \in GfKey PROVE Times(k)' <= Times(k)
  <2>1. Cardinality(Saved(k)') <= Cardinality(Saved(k))
    <3>1. IsFiniteSet(Saved(k)) /\ Saved(k)' \subseteq Saved(k)
      BY TimesNat
    <3> QED
      BY <3>1, FS_Subset
  <2>2. /\ InMsgs(k) = InMsgs(k)' + (IF m \in Adding(k) THEN 1 ELSE 0)
        /\ InCalls(k)' = InCalls(k)
    BY TimesTookAlone
  <2>3. /\ InMsgs(k) \in Nat /\ InCalls(k) \in Nat /\ Cardinality(Saved(k)) \in Nat
        /\ Times(k) = InMsgs(k) + InCalls(k) + Cardinality(Saved(k))
    BY TimesNat
  <2>4. /\ InMsgs(k)' \in Nat /\ InCalls(k)' \in Nat /\ Cardinality(Saved(k)') \in Nat
        /\ Times(k)' = InMsgs(k)' + InCalls(k)' + Cardinality(Saved(k)')
    BY TimesNatNext
  <2> QED
    BY <2>1, <2>2, <2>3, <2>4
<1>2. UNCHANGED <<gfIds, gfClients, gfRemoved>>
  BY DEF Took
<1> QED
  BY <1>1, <1>2, ProperTook, SingleStays

\* A command and its items hand a fence on from place to place.
LEMMA PassesOnSingle ==
  ASSUME GfTyped, GfTyped', Single, NEW m \in GfMsgs, NEW r, PassesOn(m, r)
  PROVE  Single'
<1>0. Took(m) /\ Made(r) /\ Passed(m, r) /\ UNCHANGED <<mGeofences, gfRemoved, gfIds, gfClients>>
  BY DEF PassesOn, gfMaps, Took
<1>p. m \in Proper(gfClients)
  BY <1>0, ProperTook
<1>1. ASSUME NEW k \in GfKey PROVE Times(k)' <= Times(k)
  <2>1. Saved(k)' = Saved(k)
    BY <1>0 DEF Saved
  <2>2. /\ InMsgs(k) = InMsgs(k)' + (IF m \in Adding(k) THEN 1 ELSE 0)
        /\ InCalls(k)' = InCalls(k) + Cardinality(Places(r, AddCalls(k)))
        /\ Cardinality(Places(r, AddCalls(k))) \in Nat
    BY <1>0, TimesTook
  <2>3. /\ InMsgs(k) \in Nat /\ InCalls(k) \in Nat /\ Cardinality(Saved(k)) \in Nat
        /\ Times(k) = InMsgs(k) + InCalls(k) + Cardinality(Saved(k))
    BY TimesNat
  <2>4. /\ InMsgs(k)' \in Nat /\ InCalls(k)' \in Nat /\ Cardinality(Saved(k)') \in Nat
        /\ Times(k)' = InMsgs(k)' + InCalls(k)' + Cardinality(Saved(k)')
    BY TimesNatNext
  <2>5. Cardinality(Places(r, AddCalls(k))) <= IF m \in Adding(k) THEN 1 ELSE 0
    BY <1>0, <1>p DEF Passed
  <2> QED
    BY <2>1, <2>2, <2>3, <2>4, <2>5
<1> QED
  BY <1>0, <1>1, ProperTook, SingleStays

\* A fence that is saved was in the answer.
LEMMA SavesSingle ==
  ASSUME GfTyped, GfTyped', Single, NEW m \in GfMsgs, NEW r, NEW h \in HwId, Saves(m, r, h)
  PROVE  Single'
<1>0. Took(m) /\ Made(r) /\ m \in Found(h) /\ UNCHANGED <<gfRemoved, gfIds, gfClients>>
  BY DEF Saves, Took
<1>1. ASSUME NEW k \in GfKey PROVE Times(k)' <= Times(k)
  <2>1. \A i \in DOMAIN r : r[i] \notin AddCalls(k)
    BY DEF Saves, Pausing, AddCalls
  <2>2. /\ InMsgs(k) = InMsgs(k)' + (IF m \in Adding(k) THEN 1 ELSE 0)
        /\ InCalls(k)' = InCalls(k)
    BY <1>0, <2>1, TimesTookAlone
  <2>3. /\ InMsgs(k) \in Nat /\ InCalls(k) \in Nat /\ Cardinality(Saved(k)) \in Nat
        /\ IsFiniteSet(Saved(k)) /\ Times(k) = InMsgs(k) + InCalls(k) + Cardinality(Saved(k))
    BY TimesNat
  <2>4. /\ InMsgs(k)' \in Nat /\ InCalls(k)' \in Nat /\ Cardinality(Saved(k)') \in Nat
        /\ Times(k)' = InMsgs(k)' + InCalls(k)' + Cardinality(Saved(k)')
    BY TimesNatNext
  <2>5. SavedMaps(m, h)
    BY SavesTypes
  <2>6. CASE k = m.fence.key
    <3>1. m \in Adding(k)
      BY <1>0, <2>6, ReplyIs DEF Adding, Adds, Found
    <3>2. Times(k) <= 1
      BY DEF Single
    <3>3. Cardinality(Saved(k)) = 0
      BY <2>2, <2>3, <2>4, <3>1, <3>2
    <3>4. Saved(k) = {}
      BY <2>3, <3>3, FS_EmptySet
    <3>5. Saved(k)' \subseteq {h}
      BY <2>5, <3>4 DEF Saved, SavedMaps
    <3>6. Cardinality(Saved(k)') <= 1
      <4>1. IsFiniteSet({h}) /\ Cardinality({h}) = 1
        BY FS_Singleton
      <4>2. PICK S : S = Saved(k)'
        OBVIOUS
      <4>3. S \in SUBSET {h}
        BY <3>5, <4>2
      <4>4. Cardinality(S) <= Cardinality({h})
        BY <4>1, <4>3, FS_Subset
      <4> QED
        BY <4>1, <4>2, <4>4
    <3> QED
      BY <2>2, <2>3, <2>4, <3>1, <3>6
  <2>7. CASE k # m.fence.key
    <3>1. Saved(k)' \subseteq Saved(k)
      BY <2>5, <2>7 DEF Saved, SavedMaps
    <3>2. Cardinality(Saved(k)') <= Cardinality(Saved(k))
      BY <2>3, <3>1, FS_Subset
    <3> QED
      BY <2>2, <2>3, <2>4, <3>2
  <2> QED
    BY <2>6, <2>7
<1> QED
  BY <1>0, <1>1, ProperTook, SingleStays

\* A fence that is added again was saved.
LEMMA StartsOverSingle ==
  ASSUME GfTyped, GfTyped', Single, NEW m \in GfMsgs, NEW r, StartsOver(m, r)
  PROVE  Single'
<1>0. Took(m) /\ Made(r) /\ UNCHANGED <<gfRemoved, gfIds, gfClients>>
  BY DEF StartsOver, Took
<1>1. ASSUME NEW k \in GfKey PROVE Times(k)' <= Times(k)
  <2>1. Saved(k)' = {}
    BY StartsOverTypes DEF Saved
  <2>2. /\ InMsgs(k) = InMsgs(k)' + (IF m \in Adding(k) THEN 1 ELSE 0)
        /\ InCalls(k)' = InCalls(k) + Cardinality(Places(r, AddCalls(k)))
        /\ Cardinality(Places(r, AddCalls(k))) \in Nat
    BY <1>0, TimesTook
  <2>3. /\ InMsgs(k) \in Nat /\ InCalls(k) \in Nat /\ Cardinality(Saved(k)) \in Nat
        /\ IsFiniteSet(Saved(k)) /\ Times(k) = InMsgs(k) + InCalls(k) + Cardinality(Saved(k))
    BY TimesNat
  <2>4. /\ InMsgs(k)' \in Nat /\ InCalls(k)' \in Nat
        /\ Times(k)' = InMsgs(k)' + InCalls(k)' + Cardinality(Saved(k)')
    BY TimesNatNext
  <2>5. PICK P : P = Places(r, AddCalls(k))
    OBVIOUS
  <2>6. PICK old \in [DOMAIN r -> DOMAIN mGeofences] :
          /\ \A i, j \in DOMAIN r : old[i] = old[j] => i = j
          /\ \A i \in DOMAIN r : r[i] \in Restoring /\ r[i].then.fence = mGeofences[old[i]]
    BY DEF StartsOver
  <2>7. \A i \in P : i \in DOMAIN r /\ old[i] \in Saved(k)
    BY <2>5, <2>6 DEF Places, AddCalls, Saved
  <2> DEFINE f == [i \in P |-> old[i]]
  <2>8. f \in Injection(P, Saved(k))
    BY <2>6, <2>7 DEF Injection, IsInjective
  <2>9. Cardinality(P) <= Cardinality(Saved(k))
    <3> HIDE DEF f
    <3> QED
      BY <2>3, <2>8, FS_Injection
  <2>10. Cardinality(Saved(k)') = 0
    BY <2>1, FS_EmptySet
  <2> QED
    BY <2>2, <2>3, <2>4, <2>5, <2>9, <2>10
<1> QED
  BY <1>0, <1>1, ProperTook, SingleStays

\* A fence that is removed on command is at no place.
LEMMA RemovesSingle ==
  ASSUME GfTyped, GfTyped', Single, RemovalKnown, IdsLead,
         NEW owner \in [HwId -> GfKey], OwnerIs(owner),
         NEW m \in GfMsgs, NEW h \in HwId, Removes(m, h)
  PROVE  Single'
<1>0. Took(m) /\ Made(<<>>) /\ m \in Removal(h) /\ UNCHANGED <<gfIds, gfClients>>
      /\ gfRemoved' = gfRemoved \cup {m.fence.key}
  BY NoCalls DEF Removes, Took
<1>1. PICK x \in GfKey : x = m.fence.key
  BY RemovesTypes
<1>2. ASSUME NEW k \in GfKey
      PROVE  /\ InMsgs(k) = InMsgs(k)' /\ InCalls(k)' = InCalls(k) /\ Saved(k)' \subseteq Saved(k)
  <2>1. m \notin Adding(k)
    BY <1>0, ReplyIs DEF Adding, Adds, AddCommands, Removal
  <2>2. /\ InMsgs(k) = InMsgs(k)' + (IF m \in Adding(k) THEN 1 ELSE 0)
        /\ InCalls(k)' = InCalls(k)
    <3>1. PICK r : r = <<>>
      OBVIOUS
    <3>2. Made(r) /\ \A i \in DOMAIN r : r[i] \notin AddCalls(k)
      BY <1>0, <3>1
    <3> QED
      BY <1>0, <3>2, TimesTookAlone
  <2>3. InMsgs(k)' \in Nat
    BY TimesNatNext
  <2>4. DOMAIN mGeofences' \subseteq DOMAIN mGeofences
        /\ \A y \in DOMAIN mGeofences' : mGeofences'[y] = mGeofences[y]
    BY RemovesTypes DEF gfMaps
  <2> QED
    BY <2>1, <2>2, <2>3, <2>4 DEF Saved
<1>3. ASSUME NEW k \in GfKey PROVE Times(k)' <= Times(k) /\ Times(k)' \in Nat /\ Times(k) \in Nat
  <2>1. /\ InMsgs(k) \in Nat /\ InCalls(k) \in Nat /\ Cardinality(Saved(k)) \in Nat
        /\ IsFiniteSet(Saved(k)) /\ Times(k) = InMsgs(k) + InCalls(k) + Cardinality(Saved(k))
    BY TimesNat
  <2>2. /\ Cardinality(Saved(k)') \in Nat
        /\ Times(k)' = InMsgs(k)' + InCalls(k)' + Cardinality(Saved(k)')
    BY TimesNatNext
  <2>3. Cardinality(Saved(k)') <= Cardinality(Saved(k))
    BY <1>2, <2>1, FS_Subset
  <2> QED
    BY <1>2, <2>1, <2>2, <2>3
<1>4. ASSUME x.client \in gfClients PROVE Times(x) = 1 /\ Times(x)' = 0
  <2>1. ~NoneOf(gfMsgs, RemovalOf(x, h))
    <3>1. m \in RemovalOf(x, h)
      BY <1>0, <1>1 DEF RemovalOf
    <3>2. gfMsgs \in Seq(GfMsgs) /\ gfMsgs # <<>> /\ Head(gfMsgs) \in RemovalOf(x, h)
      BY <1>0, <3>1 DEF Took, GfTyped
    <3> QED
      BY <3>2, NoneTake
  <2>2. x \in DOMAIN mGeofenceIds /\ mGeofenceIds[x] = h
    BY <1>4, <2>1 DEF RemovalKnown, KnownAs
  <2>3. h \in DOMAIN mGeofences /\ mGeofences[h].key = x
    BY <2>2 DEF IdsLead, OwnerIs, OwnerInMaps
  <2>4. DOMAIN mGeofences' = DOMAIN mGeofences \ {h}
        /\ \A y \in DOMAIN mGeofences : y # h => mGeofences'[y] = mGeofences[y]
    BY <2>2, <2>3, RemovesTypes
  <2>5. /\ InMsgs(x) \in Nat /\ InCalls(x) \in Nat /\ Cardinality(Saved(x)) \in Nat
        /\ IsFiniteSet(Saved(x)) /\ Times(x) = InMsgs(x) + InCalls(x) + Cardinality(Saved(x))
    BY TimesNat
  <2>6. Times(x)' = InMsgs(x)' + InCalls(x)' + Cardinality(Saved(x)')
    BY TimesNatNext
  <2>7. Saved(x)' = Saved(x) \ {h} /\ h \in Saved(x)
    BY <2>3, <2>4 DEF Saved
  <2>8. Cardinality(Saved(x) \ {h}) = Cardinality(Saved(x)) - 1
    BY <2>5, <2>7, FS_RemoveElement
  <2>9. Times(x) <= 1
    BY DEF Single
  <2>10. Cardinality(Saved(x)') = Cardinality(Saved(x)) - 1 /\ Cardinality(Saved(x)') \in Nat
    BY <2>7, <2>8, TimesNatNext
  <2>11. InMsgs(x) = InMsgs(x)' /\ InCalls(x)' = InCalls(x)
    BY <1>2
  <2>12. PICK a \in Nat, b \in Nat, c \in Nat :
           a = InMsgs(x) /\ b = InCalls(x) /\ c = Cardinality(Saved(x))
    BY <2>5
  <2>13. a + b + c <= 1 /\ c - 1 \in Nat /\ Times(x) = a + b + c /\ Times(x)' = a + b + (c - 1)
    BY <2>5, <2>6, <2>9, <2>10, <2>11, <2>12
  <2> QED
    BY <2>13
<1>5. ASSUME NEW k \in GfKey PROVE Times(k)' <= 1 /\ (Gone(k)' => Times(k)' = 0)
  <2>1. Times(k) <= 1 /\ (Gone(k) => Times(k) = 0)
    BY DEF Single
  <2>2. Gone(k)' => Gone(k) \/ (k = x /\ x.client \in gfClients)
    BY <1>0, <1>1 DEF Gone
  <2> QED
    BY <1>3, <1>4, <2>1, <2>2
<1>6. ASSUME x.client \in gfClients PROVE x.id <= gfIds
  <2>1. ~Gone(x)
    BY <1>4, <1>6 DEF Single
  <2>2. x.id \in Nat /\ gfIds \in Nat
    BY GeofenceAssumption DEF GfKey, GfTyped
  <2> QED
    BY <2>1, <2>2 DEF Gone
<1>7. \A k \in gfRemoved' : k.client \in gfClients' => k.id <= gfIds'
  BY <1>0, <1>1, <1>6 DEF Single
<1>8. gfMsgs' \in Seq(Proper(gfClients)')
  BY <1>0, ProperTook
<1> QED
  BY <1>5, <1>7, <1>8 DEF Single

LEMMA AdapterSingle ==
  ASSUME GfTyped, GfTyped', Single, RemovalKnown, IdsLead,
         NEW owner \in [HwId -> GfKey], OwnerIs(owner),
         NEW m \in GfMsgs, NEW r \in Seq(GfCalls), AdapterDoes(m, r)
  PROVE  Single'
<1>1. ASSUME NEW h \in HwId, Changes(m, h) PROVE Single'
  <2>1. Took(m) /\ Made(<<>>) /\ UNCHANGED gfRemoved
    BY <1>1, NoCalls DEF Changes
  <2>2. DOMAIN mGeofences' = DOMAIN mGeofences
        /\ \A y \in DOMAIN mGeofences : mGeofences'[y].key = mGeofences[y].key
    BY <1>1, ChangesTypes
  <2>3. \A k \in GfKey : Saved(k)' \subseteq Saved(k) /\ \A i \in DOMAIN <<>> : <<>>[i] \notin AddCalls(k)
    BY <2>2 DEF Saved
  <2> QED
    BY <2>1, <2>3, SavedLess
<1>2. ASSUME NEW h \in HwId, Forgets(m, h) PROVE Single'
  <2>1. Took(m) /\ Made(<<>>) /\ UNCHANGED gfRemoved
    BY <1>2, NoCalls DEF Forgets
  <2>2. DOMAIN mGeofences' = DOMAIN mGeofences \ {h}
        /\ \A y \in DOMAIN mGeofences' : mGeofences'[y] = mGeofences[y]
    BY <1>2, ForgetsTypes
  <2>3. \A k \in GfKey : Saved(k)' \subseteq Saved(k) /\ \A i \in DOMAIN <<>> : <<>>[i] \notin AddCalls(k)
    BY <2>2 DEF Saved
  <2> QED
    BY <2>1, <2>3, SavedLess
<1>3. ASSUME Farewell(m, r) PROVE Single'
  <2>1. Took(m) /\ Made(r) /\ UNCHANGED gfRemoved /\ mGeofences' = mGeofences
    BY <1>3 DEF Farewell
  <2>2. \A k \in GfKey : Saved(k)' \subseteq Saved(k) /\ \A i \in DOMAIN r : r[i] \notin AddCalls(k)
    BY <1>3, <2>1 DEF Saved, Farewell, Clearing, AddCalls
  <2> QED
    BY <2>1, <2>2, SavedLess
<1> QED
  BY <1>1, <1>2, <1>3, PassesOnSingle, SavesSingle, StartsOverSingle, RemovesSingle DEF AdapterDoes

\* The engine's answer takes the place of the call.
LEMMA EngineSingle ==
  ASSUME GfTyped, GfTyped', Single, NEW c \in GfCalls, NEW m \in GfMsgs, EngineDid(c, m)
  PROVE  Single'
<1>0. /\ Handled(c, m) /\ gfCalls # <<>> /\ c = Head(gfCalls) /\ gfCalls' = Tail(gfCalls)
      /\ gfMsgs' = Append(gfMsgs, m)
      /\ UNCHANGED <<mGeofences, gfIds, gfClients, gfRemoved>>
      /\ gfCalls \in Seq(GfCalls) /\ gfMsgs \in Seq(GfMsgs)
  BY DEF EngineDid, LetsPass, EngineAdds, EngineChanges, Handled, gfMaps, GfTyped
<1>1. m \in Items \/ m \in Replies
  BY DEF EngineDid, LetsPass, EngineAdds, EngineChanges, AnswerTo
<1>2. ASSUME NEW k \in GfKey, m \in Adding(k) PROVE c \in AddCalls(k)
  <2>1. m \in Adds(k)
    BY <1>1, <1>2, ItemIs, ReplyIs DEF Adding, AddCommands
  <2>2. m.op = "add" /\ m.ok /\ m.fence.key = k /\ m.what \in {"item", "answer", "restored"}
    BY <2>1 DEF Adds
  <2>3. CASE LetsPass(c, m)
    BY <2>2, <2>3 DEF LetsPass, AddCalls
  <2>4. ASSUME NEW h \in HwId, EngineAdds(c, m, h) PROVE c \in AddCalls(k)
    BY <2>2, <2>4 DEF EngineAdds, AnswerTo, AddCalls
  <2>5. ASSUME NEW h \in HwId, EngineChanges(c, m, h) PROVE FALSE
    <3>1. (c.then.op = "add" /\ c.then.what \in {"answer", "restored"}) \/ c.then.what = "item"
      BY <2>2, <2>5 DEF EngineChanges, AnswerTo
    <3>2. c.hwId = h /\ h # 0 /\ c.then.what # "item"
      BY <1>1, <2>5, HwIdFacts, ReplyIs DEF EngineChanges, AnswerTo
    <3>3. c.op = "add"
      BY <3>1, <3>2, GfCallIs
    <3>4. c.hwId = 0
      BY <3>3, GfCallIs
    <3> QED
      BY <3>2, <3>4
  <2> QED
    BY <2>3, <2>4, <2>5 DEF EngineDid
<1>3. ASSUME NEW k \in GfKey PROVE Times(k)' <= Times(k)
  <2>1. Saved(k)' = Saved(k)
    BY <1>0 DEF Saved
  <2>2. /\ InMsgs(k) \in Nat /\ InCalls(k) \in Nat /\ Cardinality(Saved(k)) \in Nat
        /\ Times(k) = InMsgs(k) + InCalls(k) + Cardinality(Saved(k))
    BY TimesNat
  <2>3. /\ InMsgs(k)' \in Nat /\ InCalls(k)' \in Nat
        /\ Times(k)' = InMsgs(k)' + InCalls(k)' + Cardinality(Saved(k)')
    BY TimesNatNext
  <2>4. PICK T : T = Adding(k)
    OBVIOUS
  <2>5. Cardinality(Places(Append(gfMsgs, m), T)) = Cardinality(Places(gfMsgs, T)) + (IF m \in T THEN 1 ELSE 0)
    BY <1>0, PlacesPosted
  <2>6. InMsgs(k)' = InMsgs(k) + (IF m \in Adding(k) THEN 1 ELSE 0)
    BY <1>0, <2>4, <2>5 DEF InMsgs
  <2>7. PICK U : U = AddCalls(k)
    OBVIOUS
  <2>8. Cardinality(Places(gfCalls, U)) = Cardinality(Places(Tail(gfCalls), U)) + (IF Head(gfCalls) \in U THEN 1 ELSE 0)
    BY <1>0, PlacesTaken
  <2>9. InCalls(k) = InCalls(k)' + (IF c \in AddCalls(k) THEN 1 ELSE 0)
    BY <1>0, <2>7, <2>8 DEF InCalls
  <2> QED
    BY <1>2, <2>1, <2>2, <2>3, <2>6, <2>9
<1>4. gfMsgs' \in Seq(Proper(gfClients)')
  <2>1. m \in Proper(gfClients)
    BY <1>1, ItemIs, ReplyIs DEF Proper
  <2>2. Append(gfMsgs, m) \in Seq(Proper(gfClients))
    BY <2>1, PostMessage DEF Single
  <2>3. Proper(gfClients)' = Proper(gfClients)
    BY <1>0 DEF Proper
  <2> QED
    BY <1>0, <2>2, <2>3
<1> QED
  BY <1>0, <1>3, <1>4, SingleStays

\* An id that a client is given is a new one.
LEMMA ClientSingle ==
  ASSUME GfTyped, GfTyped', Single, NEW m \in GfMsgs, ClientPosts(m)
  PROVE  Single'
<1>0. /\ gfMsgs' = Append(gfMsgs, m) /\ gfMsgs \in Seq(GfMsgs)
      /\ UNCHANGED <<mGeofences, gfCalls, gfRemoved>> /\ gfClients' \subseteq gfClients
      /\ gfIds \in Nat /\ gfIds' \in Nat /\ gfIds <= gfIds'
  BY GeofenceAssumption DEF ClientPosts, Posts, GfTyped, gfMaps
<1>1. ASSUME NEW k \in GfKey, m \in Adding(k) PROVE k.id > gfIds /\ k.id <= gfIds'
  <2>1. m \in AddCommands(k)
    BY <1>1 DEF Adding, Adds, ClientPosts, GfCommands, Goodbyes
  <2>2. m.what = "command" /\ m.op = "add" /\ \E i \in DOMAIN m.fences : m.fences[i].key = k
    BY <2>1 DEF AddCommands
  <2> QED
    BY <2>2 DEF ClientPosts, Goodbyes
<1>2. ASSUME NEW k \in GfKey
      PROVE  /\ Times(k) \in Nat /\ Times(k)' = Times(k) + (IF m \in Adding(k) THEN 1 ELSE 0)
  <2>1. Saved(k)' = Saved(k) /\ InCalls(k)' = InCalls(k)
    BY <1>0 DEF Saved, InCalls
  <2>2. /\ InMsgs(k) \in Nat /\ InCalls(k) \in Nat /\ Cardinality(Saved(k)) \in Nat
        /\ Times(k) = InMsgs(k) + InCalls(k) + Cardinality(Saved(k))
    BY TimesNat
  <2>3. /\ InMsgs(k)' \in Nat
        /\ Times(k)' = InMsgs(k)' + InCalls(k)' + Cardinality(Saved(k)')
    BY TimesNatNext
  <2>4. PICK T : T = Adding(k)
    OBVIOUS
  <2>5. Cardinality(Places(Append(gfMsgs, m), T)) = Cardinality(Places(gfMsgs, T)) + (IF m \in T THEN 1 ELSE 0)
    BY <1>0, PlacesPosted
  <2>6. InMsgs(k)' = InMsgs(k) + (IF m \in Adding(k) THEN 1 ELSE 0)
    BY <1>0, <2>4, <2>5 DEF InMsgs
  <2> QED
    BY <2>1, <2>2, <2>3, <2>6
<1>3. ASSUME NEW k \in GfKey PROVE Times(k)' <= 1 /\ (Gone(k)' => Times(k)' = 0)
  <2>1. k.id \in Nat
    BY GeofenceAssumption DEF GfKey
  <2>2. Times(k) <= 1 /\ (Gone(k) => Times(k) = 0)
    BY DEF Single
  <2>3. Gone(k)' => Gone(k)
    BY <1>0, <2>1 DEF Gone
  <2>4. CASE m \in Adding(k)
    <3>1. k.id > gfIds /\ k.id <= gfIds'
      BY <1>1, <2>4
    <3>2. Times(k) = 0
      BY <2>2, <3>1 DEF Gone
    <3>3. ~(k \in gfRemoved /\ k.client \in gfClients)
      <4>1. k \in gfRemoved /\ k.client \in gfClients => k.id <= gfIds
        BY DEF Single
      <4> QED
        BY <1>0, <2>1, <3>1, <4>1
    <3>4. ~Gone(k)'
      BY <1>0, <2>1, <3>1, <3>3 DEF Gone
    <3> QED
      BY <1>2, <2>4, <3>2, <3>4
  <2>5. CASE m \notin Adding(k)
    BY <1>2, <2>2, <2>3, <2>5
  <2> QED
    BY <2>4, <2>5
<1>4. gfMsgs' \in Seq(Proper(gfClients)')
  <2>1. Proper(gfClients) \subseteq Proper(gfClients)'
    BY <1>0 DEF Proper
  <2>2. m \in Proper(gfClients)'
    <3>1. CASE m \in GfCommands
      BY <3>1 DEF ClientPosts, Proper, GfCommands, Goodbyes
    <3>2. CASE m \in Goodbyes
      BY <3>2 DEF ClientPosts, Proper, GfCommands, Goodbyes
    <3> QED
      BY <3>1, <3>2 DEF ClientPosts
  <2>3. gfMsgs \in Seq(Proper(gfClients)')
    BY <2>1, WiderType DEF Single
  <2>4. Append(gfMsgs, m) \in Seq(Proper(gfClients)')
    BY <2>2, <2>3, PostMessage
  <2> QED
    BY <1>0, <2>4
<1>5. \A k \in gfRemoved' : k.client \in gfClients' => k.id <= gfIds'
  <2>1. ASSUME NEW k \in gfRemoved, k.client \in gfClients PROVE k.id <= gfIds'
    <3>1. k.id <= gfIds /\ k \in GfKey
      BY <2>1 DEF Single, GfTyped
    <3>2. k.id \in Nat
      BY <3>1, GeofenceAssumption DEF GfKey
    <3> QED
      BY <1>0, <3>1, <3>2
  <2> QED
    BY <1>0, <2>1
<1> QED
  BY <1>3, <1>4, <1>5 DEF Single

\* So a fence is never at two places, and one that is removed is at none.
LEMMA GfSingleKept ==
  ASSUME GfTyped, GfTyped', Single, RemovalKnown, IdsLead,
         NEW owner \in [HwId -> GfKey], OwnerIs(owner), GeofenceNext
  PROVE  Single'
<1>1. CASE EngineCrashes
  <2>1. UNCHANGED <<mGeofences, gfMsgs, gfCalls, gfIds, gfClients, gfRemoved>>
    BY <1>1 DEF EngineCrashes, gfMaps
  <2> QED
    BY <2>1 DEF Single, Times, InMsgs, InCalls, Saved, Gone, Proper
<1>2. CASE EngineComesUp
  <2>1. UNCHANGED <<mGeofences, gfCalls, gfIds, gfClients, gfRemoved>>
    BY <1>2 DEF EngineComesUp, gfMaps
  <2>2. PICK m \in GfUpMsg : m \in GfMsgs /\ gfMsgs' = Append(gfMsgs, m)
    BY <1>2, ComesUpTypes
  <2>3. ASSUME NEW k \in GfKey PROVE Times(k)' <= Times(k)
    <3>1. PICK T : T = Adding(k)
      OBVIOUS
    <3>2. m \notin T
      BY <2>2, <3>1 DEF GfUpMsg, Adding, Adds, AddCommands
    <3>3. Cardinality(Places(Append(gfMsgs, m), T)) = Cardinality(Places(gfMsgs, T)) + (IF m \in T THEN 1 ELSE 0)
      BY <2>2, PlacesPosted DEF GfTyped
    <3>4. InMsgs(k) \in Nat /\ InCalls(k) \in Nat /\ Cardinality(Saved(k)) \in Nat
      BY TimesNat
    <3>5. InMsgs(k)' = InMsgs(k)
      BY <2>2, <3>1, <3>2, <3>3, <3>4 DEF InMsgs
    <3>6. InCalls(k)' = InCalls(k) /\ Saved(k)' = Saved(k)
      BY <2>1 DEF InCalls, Saved
    <3> QED
      BY <3>4, <3>5, <3>6 DEF Times
  <2>4. m \in Proper(gfClients)
    BY <2>2 DEF Proper, GfUpMsg
  <2>5. Append(gfMsgs, m) \in Seq(Proper(gfClients))
    BY <2>4, PostMessage DEF Single
  <2>6. Proper(gfClients)' = Proper(gfClients)
    BY <2>1 DEF Proper
  <2> QED
    BY <2>1, <2>2, <2>3, <2>5, <2>6, SingleStays
<1> QED
  BY <1>1, <1>2, AdapterSingle, EngineSingle, ClientSingle, GeofenceSteps

-----------------------------------------------------------------------------
(* a fence the engine has added is there *)

\* What is about a hwId is an answer of the engine.
LEMMA AboutFacts ==
  ASSUME NEW h \in HwId
  PROVE  /\ Found(h) \subseteq About(h) /\ Found(h) \subseteq Replies /\ About(h) \subseteq Replies
         /\ \A m \in Replies : m \notin GfUpMsg /\ m \notin GfCommands /\ m \notin Goodbyes
                               /\ m \notin Items
         /\ \A m \in About(h) : m.hwId = h
BY ReplyIs DEF Found, About, GfUpMsg, GfCommands, Goodbyes, Items

\* A fence whose answer is under way is not one the adapter knows yet.
LEMMA TokenAlone ==
  ASSUME GfTyped, Single, IdsLead, NEW owner \in [HwId -> GfKey], OwnerIs(owner),
         NEW h \in HwId, ~NoneOf(gfMsgs, Found(h))
  PROVE  /\ h \notin DOMAIN mGeofences
         /\ \A k \in DOMAIN mGeofenceIds : mGeofenceIds[k] # h
         /\ h <= hwIds /\ InMsgs(owner[h]) = 1 /\ InCalls(owner[h]) = 0 /\ Saved(owner[h]) = {}
<1>1. PICK i \in DOMAIN gfMsgs : gfMsgs[i] \in Found(h)
  BY DEF NoneOf
<1>2. gfMsgs[i] \in OwnedMsgs(owner, hwIds)
  BY MessageType DEF OwnerIs, OwnerInQueues
<1>3. PICK m \in OwnedMsgs(owner, hwIds) : m = gfMsgs[i]
  BY <1>2
<1>4. m.fence.key = owner[h] /\ h <= hwIds /\ m \in Found(h)
  BY <1>1, <1>3, HwIdFacts DEF OwnedMsgs, Found
<1>5. PICK k \in GfKey : k = owner[h]
  OBVIOUS
<1>6. m \in Adding(k)
  BY <1>4, <1>5, ReplyIs DEF Adding, Adds, Found
<1>7. ~NoneOf(gfMsgs, Adding(k))
  BY <1>1, <1>3, <1>6 DEF NoneOf
<1>8. InMsgs(k) # 0
  <2>1. PICK T : T = Adding(k)
    OBVIOUS
  <2>2. Cardinality(Places(gfMsgs, T)) = 0 <=> NoneOf(gfMsgs, T)
    BY PlacesNone DEF GfTyped
  <2> QED
    BY <1>7, <2>1, <2>2 DEF InMsgs
<1>9. /\ InMsgs(k) \in Nat /\ InCalls(k) \in Nat /\ Cardinality(Saved(k)) \in Nat
      /\ IsFiniteSet(Saved(k)) /\ Times(k) = InMsgs(k) + InCalls(k) + Cardinality(Saved(k))
  BY TimesNat
<1>10. Times(k) <= 1
  BY DEF Single
<1>11. Cardinality(Saved(k)) = 0 /\ InMsgs(k) = 1 /\ InCalls(k) = 0
  BY <1>8, <1>9, <1>10
<1>12. Saved(k) = {}
  BY <1>9, <1>11, FS_EmptySet
<1>13. h \notin DOMAIN mGeofences
  BY <1>5, <1>12 DEF Saved, OwnerIs, OwnerInMaps
<1>14. \A x \in DOMAIN mGeofenceIds : mGeofenceIds[x] # h
  BY <1>13 DEF IdsLead
<1> QED
  BY <1>4, <1>5, <1>11, <1>12, <1>13, <1>14

\* A fence on its way to the adapter is not disturbed by what the adapter handles before it,
LEMMA AdapterFound ==
  ASSUME GfTyped, FoundThere, NEW m \in GfMsgs, Took(m), NEW r, Made(r),
         \A h \in HwId : ~NoneOf(gfMsgs', Found(h)) => NoneOf(r, CallsAbout(h)) \/ m \in About(h)
  PROVE  FoundThere'
<1>1. gfMsgs \in Seq(GfMsgs) /\ gfMsgs # <<>> /\ m = Head(gfMsgs) /\ gfMsgs' = Tail(gfMsgs)
      /\ gfCalls \in Seq(GfCalls) /\ r \in Seq(GfCalls) /\ gfCalls' = gfCalls \o r
      /\ engineFences' = engineFences /\ engineUp' = engineUp
  BY DEF Took, Made, GfTyped
<1>2. ASSUME NEW h \in HwId, ~NoneOf(gfMsgs', Found(h)) PROVE FoundAt(h)'
  <2>1. PICK F : F = Found(h)
    OBVIOUS
  <2>2. PICK A : A = About(h)
    OBVIOUS
  <2>3. PICK W : W = F \cup GfUpMsg
    OBVIOUS
  <2>4. PICK C : C = CallsAbout(h)
    OBVIOUS
  <2>t. PICK t \in Seq(GfMsgs) : t = Tail(gfMsgs)
    BY <1>1, TakeHead
  <2>5. ~NoneOf(t, F) /\ ~NoneOf(gfMsgs, F)
    BY <1>1, <1>2, <2>1, <2>t, NoneTake
  <2>6. FoundAt(h)
    BY <2>1, <2>5 DEF FoundThere
  <2>7. ~NoneOf(t, W)
    BY <2>3, <2>5 DEF NoneOf
  <2>8. LastIs(gfMsgs, W, F) <=> LastIs(t, W, F)
    BY <1>1, <2>t, <2>7, OutcomeTake
  <2>9. Cardinality(Places(gfMsgs, A)) = Cardinality(Places(t, A)) + (IF m \in A THEN 1 ELSE 0)
    BY <1>1, <2>t, PlacesTaken
  <2>10. Cardinality(Places(t, A)) \in Nat /\ (Cardinality(Places(t, A)) = 0 <=> NoneOf(t, A))
    BY PlacesNone, PlacesNumber
  <2>11. ~NoneOf(t, A)
    BY <2>1, <2>2, <2>5, AboutFacts DEF NoneOf
  <2>12. Cardinality(Places(gfMsgs, A)) = 1
    BY <2>2, <2>6 DEF FoundAt
  <2>13. Cardinality(Places(t, A)) = 1 /\ m \notin A
    BY <2>9, <2>10, <2>11, <2>12
  <2>14. NoneOf(r, C) /\ NoneOf(gfCalls, C)
    BY <1>2, <2>2, <2>4, <2>6, <2>13 DEF FoundAt
  <2>15. NoneOf(gfCalls \o r, C)
    BY <1>1, <2>14, OutcomePosts
  <2>16. ASSUME h \in DOMAIN engineFences
         PROVE  NoneOf(t, F \ Optioned(engineFences[h].options))
    <3>1. PICK X : X = F \ Optioned(engineFences[h].options)
      OBVIOUS
    <3>2. NoneOf(gfMsgs, X)
      BY <2>1, <2>6, <2>16, <3>1 DEF FoundAt
    <3>3. NoneOf(t, X)
      BY <1>1, <2>t, <3>2, NoneTake
    <3> QED
      BY <3>1, <3>3
  <2>17. h \in DOMAIN engineFences <=> engineUp /\ LastIs(t, W, F)
    BY <2>1, <2>3, <2>6, <2>8 DEF FoundAt
  <2> QED
    BY <1>1, <2>1, <2>2, <2>3, <2>4, <2>t, <2>13, <2>15, <2>16, <2>17 DEF FoundAt
<1> QED
  BY <1>2 DEF FoundThere

\* What is posted about other fences
LEMMA OthersFound ==
  ASSUME GfTyped, NEW m \in GfMsgs, gfMsgs' = Append(gfMsgs, m), NEW h \in HwId,
         m \notin About(h), m \notin GfUpMsg, FoundAt(h), UNCHANGED engineUp,
         h \in DOMAIN engineFences' <=> h \in DOMAIN engineFences,
         h \in DOMAIN engineFences => engineFences'[h].options = engineFences[h].options,
         NoneOf(gfCalls', CallsAbout(h))
  PROVE  FoundAt(h)'
<1>1. gfMsgs \in Seq(GfMsgs)
  BY DEF GfTyped
<1>2. PICK F : F = Found(h)
  OBVIOUS
<1>3. PICK A : A = About(h)
  OBVIOUS
<1>4. PICK W : W = F \cup GfUpMsg
  OBVIOUS
<1>5. m \notin F /\ m \notin W /\ m \notin A
  BY <1>2, <1>3, <1>4, AboutFacts
<1>6. LastIs(Append(gfMsgs, m), W, F) <=> LastIs(gfMsgs, W, F)
  BY <1>1, <1>5, OutcomePost
<1>7. Cardinality(Places(Append(gfMsgs, m), A)) = Cardinality(Places(gfMsgs, A)) + (IF m \in A THEN 1 ELSE 0)
  BY <1>1, PlacesPosted
<1>8. Cardinality(Places(gfMsgs, A)) = 1
  BY <1>3 DEF FoundAt
<1>9. ASSUME h \in DOMAIN engineFences
      PROVE  NoneOf(Append(gfMsgs, m), F \ Optioned(engineFences[h].options))
  <2>1. PICK X : X = F \ Optioned(engineFences[h].options)
    OBVIOUS
  <2>2. NoneOf(gfMsgs, X) /\ m \notin X
    BY <1>2, <1>5, <1>9, <2>1 DEF FoundAt
  <2>3. NoneOf(Append(gfMsgs, m), X)
    BY <1>1, <2>2, NonePost
  <2> QED
    BY <2>1, <2>3
<1>10. h \in DOMAIN engineFences <=> engineUp /\ LastIs(Append(gfMsgs, m), W, F)
  BY <1>2, <1>4, <1>6 DEF FoundAt
<1>11. Cardinality(Places(Append(gfMsgs, m), A)) = 1
  BY <1>5, <1>7, <1>8
<1> QED
  BY <1>2, <1>3, <1>4, <1>9, <1>10, <1>11 DEF FoundAt

LEMMA AdapterFoundThere ==
  ASSUME GfTyped, Single, IdsLead, FoundThere, NEW owner \in [HwId -> GfKey], OwnerIs(owner),
         NEW m \in GfMsgs, NEW r \in Seq(GfCalls), AdapterDoes(m, r)
  PROVE  FoundThere'
<1>1. ASSUME NEW h \in HwId, Took(m), ~NoneOf(gfMsgs', Found(h))
      PROVE  \A k \in DOMAIN mGeofenceIds : mGeofenceIds[k] # h
  <2>1. ~NoneOf(gfMsgs, Found(h))
    <3>1. PICK F : F = Found(h)
      OBVIOUS
    <3>2. gfMsgs \in Seq(GfMsgs) /\ gfMsgs # <<>> /\ gfMsgs' = Tail(gfMsgs)
      BY <1>1 DEF Took, GfTyped
    <3> QED
      BY <1>1, <3>1, <3>2, OutcomeTake
  <2> QED
    BY <2>1, TokenAlone
<1>2. CASE PassesOn(m, r)
  <2>1. Took(m) /\ Made(r)
    BY <1>2 DEF PassesOn
  <2>2. ASSUME NEW h \in HwId, ~NoneOf(gfMsgs', Found(h)), NEW i \in DOMAIN r
        PROVE  r[i] \notin CallsAbout(h)
    <3>1. r[i].hwId = 0 \/ KnownAs(r[i].then.fence.key, r[i].hwId)
      BY <1>2 DEF PassesOn
    <3> QED
      BY <1>1, <2>1, <2>2, <3>1, HwIdFacts DEF CallsAbout, KnownAs
  <2> QED
    BY <2>1, <2>2, AdapterFound DEF NoneOf
<1>3. ASSUME NEW h2 \in HwId, Saves(m, r, h2) PROVE FoundThere'
  <2>1. Took(m) /\ Made(r) /\ m \in Found(h2)
    BY <1>3 DEF Saves
  <2>2. ASSUME NEW h \in HwId PROVE NoneOf(r, CallsAbout(h)) \/ m \in About(h)
    <3>1. CASE h = h2
      BY <2>1, <3>1, AboutFacts
    <3>2. CASE h # h2
      BY <1>3, <3>2 DEF Saves, NoneOf, CallsAbout
    <3> QED
      BY <3>1, <3>2
  <2> QED
    BY <2>1, <2>2, AdapterFound
<1>4. CASE Farewell(m, r)
  <2>1. Took(m) /\ Made(r)
    BY <1>4 DEF Farewell
  <2>2. ASSUME NEW h \in HwId, ~NoneOf(gfMsgs', Found(h)), NEW i \in DOMAIN r
        PROVE  r[i] \notin CallsAbout(h)
    BY <1>1, <1>4, <2>1, <2>2 DEF CallsAbout, Farewell, FencesOf
  <2> QED
    BY <2>1, <2>2, AdapterFound DEF NoneOf
<1>5. CASE StartsOver(m, r)
  <2>1. Took(m) /\ Made(r)
    BY <1>5 DEF StartsOver
  <2>2. ASSUME NEW h \in HwId, NEW i \in DOMAIN r
        PROVE  r[i] \notin CallsAbout(h)
    BY <1>5, HwIdFacts DEF CallsAbout, StartsOver, Restoring
  <2> QED
    BY <2>1, <2>2, AdapterFound DEF NoneOf
<1>6. CASE \E h \in HwId : Removes(m, h) \/ Changes(m, h) \/ Forgets(m, h)
  <2>1. Took(m) /\ UNCHANGED gfCalls
    BY <1>6 DEF Removes, Changes, Forgets
  <2>2. PICK s : s = <<>>
    OBVIOUS
  <2>3. Made(s) /\ \A h \in HwId : NoneOf(s, CallsAbout(h))
    BY <2>1, <2>2, NoCalls DEF NoneOf
  <2> QED
    BY <2>1, <2>3, AdapterFound
<1> QED
  BY <1>2, <1>3, <1>4, <1>5, <1>6 DEF AdapterDoes

\* The engine adds a fence with a new hwId, which nothing else is about.
LEMMA AddedFound ==
  ASSUME GfTyped, NEW owner \in [HwId -> GfKey], OwnerIs(owner),
         NEW c \in GfCalls, NEW m \in GfMsgs, NEW h \in HwId, EngineAdds(c, m, h)
  PROVE  FoundAt(h)' /\ NoneOf(gfMsgs, About(h))
         /\ NoneOf(gfCalls', CallsAbout(h))
<1>1. /\ gfCalls # <<>> /\ gfCalls' = Tail(gfCalls) /\ gfMsgs' = Append(gfMsgs, m)
      /\ engineUp' = engineUp /\ engineUp
      /\ c.op = "add" /\ m \in Replies /\ m.hwId = h /\ m.fence = c.then.fence /\ m.what = c.then.what
      /\ m.op = c.then.op /\ m.ok /\ h = hwIds + 1 /\ engineFences' = With(engineFences, h, c.then.fence)
      /\ gfMsgs \in Seq(GfMsgs) /\ gfCalls \in Seq(GfCalls) /\ hwIds \in Nat
  BY HwIdFacts DEF EngineAdds, Handled, AnswerTo, GfTyped
<1>2. m \in Found(h) /\ m \in About(h)
  <2>1. c.then.op = "add" /\ c.then.what \in {"answer", "restored"}
    BY <1>1, GfCallIs
  <2> QED
    BY <1>1, <2>1 DEF Found, About
<1>3. NoneOf(gfMsgs, About(h))
  <2>1. ASSUME NEW i \in DOMAIN gfMsgs PROVE gfMsgs[i] \notin About(h)
    <3>1. gfMsgs[i] \in OwnedMsgs(owner, hwIds)
      BY MessageType DEF OwnerIs, OwnerInQueues
    <3>2. \A x \in OwnedMsgs(owner, hwIds) : x \in About(h) => h <= hwIds
      BY HwIdFacts DEF OwnedMsgs, About
    <3> QED
      BY <1>1, <3>1, <3>2
  <2> QED
    BY <2>1 DEF NoneOf
<1>4. NoneOf(gfCalls, CallsAbout(h))
  <2>1. ASSUME NEW i \in DOMAIN gfCalls PROVE gfCalls[i] \notin CallsAbout(h)
    <3>1. gfCalls[i] \in OwnedCalls(owner, hwIds)
      BY MessageType DEF OwnerIs, OwnerInQueues
    <3>2. \A x \in OwnedCalls(owner, hwIds) : x \in CallsAbout(h) => h <= hwIds
      BY HwIdFacts DEF OwnedCalls, CallsAbout
    <3> QED
      BY <1>1, <3>1, <3>2
  <2> QED
    BY <2>1 DEF NoneOf
<1>5. NoneOf(gfCalls', CallsAbout(h))
  <2>1. PICK C : C = CallsAbout(h)
    OBVIOUS
  <2> QED
    BY <1>1, <1>4, <2>1, NoneTake
<1>6. PICK F : F = Found(h)
  OBVIOUS
<1>7. PICK A : A = About(h)
  OBVIOUS
<1>8. PICK W : W = F \cup GfUpMsg
  OBVIOUS
<1>9. LastIs(Append(gfMsgs, m), W, F)
  BY <1>1, <1>2, <1>6, <1>8, OutcomePost
<1>10. Cardinality(Places(Append(gfMsgs, m), A)) = 1
  <2>1. Cardinality(Places(gfMsgs, A)) = 0
    BY <1>1, <1>3, <1>7, PlacesNone
  <2>2. Cardinality(Places(Append(gfMsgs, m), A)) = Cardinality(Places(gfMsgs, A)) + (IF m \in A THEN 1 ELSE 0)
    BY <1>1, PlacesPosted
  <2> QED
    BY <1>2, <1>7, <2>1, <2>2
<1>11. h \in DOMAIN engineFences' /\ engineFences'[h] = c.then.fence
  BY <1>1 DEF With
<1>12. NoneOf(Append(gfMsgs, m), F \ Optioned(engineFences'[h].options))
  <2>1. PICK X : X = F \ Optioned(engineFences'[h].options)
    OBVIOUS
  <2>2. X \subseteq About(h) /\ m \notin X
    BY <1>1, <1>6, <1>11, <2>1, AboutFacts DEF Optioned
  <2>3. NoneOf(gfMsgs, X)
    BY <1>3, <2>2 DEF NoneOf
  <2>4. NoneOf(Append(gfMsgs, m), X)
    BY <1>1, <2>2, <2>3, NonePost
  <2> QED
    BY <2>1, <2>4
<1>13. FoundAt(h)'
  BY <1>1, <1>5, <1>6, <1>7, <1>8, <1>9, <1>10, <1>11, <1>12 DEF FoundAt
<1> QED
  BY <1>3, <1>5, <1>13

\* What the engine does to other fences than h
LEMMA EngineOthers ==
  ASSUME GfTyped, NEW c \in GfCalls, NEW m \in GfMsgs, EngineDid(c, m), NEW h \in HwId
  PROVE  \/ /\ h \in DOMAIN engineFences' <=> h \in DOMAIN engineFences
            /\ h \in DOMAIN engineFences => engineFences'[h] = engineFences[h]
         \/ EngineAdds(c, m, h) \/ (EngineChanges(c, m, h) /\ c.hwId = h)
<1>1. FencesIn(engineFences)
  BY DEF GfTyped
<1>2. CASE LetsPass(c, m)
  BY <1>2 DEF LetsPass
<1>3. ASSUME NEW g \in HwId, EngineAdds(c, m, g), g # h
      PROVE  /\ h \in DOMAIN engineFences' <=> h \in DOMAIN engineFences
             /\ h \in DOMAIN engineFences => engineFences'[h] = engineFences[h]
  BY <1>3 DEF EngineAdds, With
<1>4. ASSUME NEW g \in HwId, EngineChanges(c, m, g), g # h
      PROVE  /\ h \in DOMAIN engineFences' <=> h \in DOMAIN engineFences
             /\ h \in DOMAIN engineFences => engineFences'[h] = engineFences[h]
  <2>1. CASE c.op = "remove"
    <3>1. engineFences' = Without(engineFences, g)
      BY <1>4, <2>1 DEF EngineChanges
    <3> QED
      BY <1>4, <3>1 DEF Without, Restrict
  <2>2. CASE c.op # "remove"
    <3>1. PICK f \in GfFence : engineFences' = [engineFences EXCEPT ![g] = f]
      BY <1>4, <2>2, EngineFenceChanged
    <3> QED
      BY <1>1, <1>4, <3>1 DEF FencesIn
  <2> QED
    BY <2>1, <2>2
<1>5. ASSUME EngineChanges(c, m, h) PROVE c.hwId = h
  BY <1>5 DEF EngineChanges
<1> QED
  BY <1>2, <1>3, <1>4, <1>5 DEF EngineDid

\* nor by what the engine does,
LEMMA EngineFound ==
  ASSUME GfTyped, FoundThere, NEW owner \in [HwId -> GfKey], OwnerIs(owner),
         NEW c \in GfCalls, NEW m \in GfMsgs, EngineDid(c, m)
  PROVE  FoundThere'
<1>1. ASSUME NEW h \in HwId, ~NoneOf(gfMsgs', Found(h)) PROVE FoundAt(h)'
  <2>1. /\ gfCalls # <<>> /\ c = Head(gfCalls) /\ gfCalls' = Tail(gfCalls)
        /\ gfMsgs' = Append(gfMsgs, m) /\ engineUp' = engineUp
        /\ gfMsgs \in Seq(GfMsgs) /\ gfCalls \in Seq(GfCalls)
    BY DEF EngineDid, LetsPass, EngineAdds, EngineChanges, Handled, GfTyped
  <2>2. CASE EngineAdds(c, m, h)
    BY <2>2, AddedFound
  <2>3. CASE ~EngineAdds(c, m, h)
    <3>1. m \notin Found(h)
      <4>1. SUFFICES ASSUME m \in Found(h) PROVE FALSE
        OBVIOUS
      <4>2. m \in Replies /\ m.ok /\ m.hwId = h /\ m.op = "add" /\ m.what \in {"answer", "restored"}
        BY <4>1 DEF Found
      <4>3. ~LetsPass(c, m)
        BY <4>2, ItemIs DEF LetsPass
      <4>4. PICK g \in HwId : EngineAdds(c, m, g) \/ EngineChanges(c, m, g)
        BY <4>3 DEF EngineDid
      <4>5. EngineChanges(c, m, h)
        BY <2>3, <4>2, <4>4 DEF EngineAdds, EngineChanges, AnswerTo
      <4>6. c.hwId = h /\ c.then.op = "add" /\ c.then.what \in {"answer", "restored"}
        BY <4>2, <4>5 DEF EngineChanges, AnswerTo
      <4>7. c.op = "add"
        BY <4>6, GfCallIs
      <4>8. c.hwId = 0
        BY <4>7, GfCallIs
      <4> QED
        BY <4>6, <4>8, HwIdFacts
    <3>2. ~NoneOf(gfMsgs, Found(h))
      <4>1. PICK F : F = Found(h)
        OBVIOUS
      <4> QED
        BY <1>1, <2>1, <3>1, <4>1, OutcomePost
    <3>3. FoundAt(h)
      BY <3>2 DEF FoundThere
    <3>4. c.hwId # h /\ NoneOf(gfCalls', CallsAbout(h))
      <4>1. PICK C : C = CallsAbout(h)
        OBVIOUS
      <4>2. NoneOf(gfCalls, C)
        BY <3>3, <4>1 DEF FoundAt
      <4>3. c \notin C /\ NoneOf(Tail(gfCalls), C)
        BY <2>1, <4>2, NoneTake
      <4> QED
        BY <2>1, <4>1, <4>3 DEF CallsAbout
    <3>5. m \notin About(h) /\ m \notin GfUpMsg
      <4>1. m \in About(h) => m \in Replies /\ m.hwId = h
        BY DEF About
      <4>2. CASE LetsPass(c, m)
        BY <3>4, <4>1, <4>2, ItemIs, AboutFacts DEF LetsPass, AnswerTo, GfUpMsg
      <4>3. ASSUME NEW g \in HwId, EngineAdds(c, m, g) PROVE <3>5!:
        BY <2>3, <4>1, <4>3, AboutFacts DEF EngineAdds, AnswerTo
      <4>4. ASSUME NEW g \in HwId, EngineChanges(c, m, g) PROVE <3>5!:
        BY <3>4, <4>1, <4>4, AboutFacts DEF EngineChanges, AnswerTo
      <4> QED
        BY <4>2, <4>3, <4>4 DEF EngineDid
    <3>6. /\ h \in DOMAIN engineFences' <=> h \in DOMAIN engineFences
          /\ h \in DOMAIN engineFences => engineFences'[h].options = engineFences[h].options
      BY <2>3, <3>4, EngineOthers
    <3> QED
      BY <2>1, <3>3, <3>4, <3>5, <3>6, OthersFound
  <2> QED
    BY <2>2, <2>3
<1> QED
  BY <1>1 DEF FoundThere

\* nor by anything else.
LEMMA GfFoundKept ==
  ASSUME GfTyped, Single, IdsLead, FoundThere, NEW owner \in [HwId -> GfKey], OwnerIs(owner),
         GeofenceNext
  PROVE  FoundThere'
<1>0. gfMsgs \in Seq(GfMsgs)
  BY DEF GfTyped
<1>1. ASSUME NEW m \in GfMsgs, gfMsgs' = Append(gfMsgs, m), m \notin Replies,
             NEW h \in HwId, ~NoneOf(gfMsgs', Found(h))
      PROVE  FoundAt(h) /\ m \notin About(h) /\ m \notin Found(h)
  <2>1. m \notin About(h) /\ m \notin Found(h)
    BY <1>1, AboutFacts
  <2>2. PICK F : F = Found(h)
    OBVIOUS
  <2>3. ~NoneOf(gfMsgs, F)
    BY <1>0, <1>1, <2>1, <2>2, NonePost
  <2> QED
    BY <2>1, <2>2, <2>3 DEF FoundThere
<1>2. ASSUME NEW m \in GfMsgs, ClientPosts(m) PROVE FoundThere'
  <2>1. gfMsgs' = Append(gfMsgs, m) /\ UNCHANGED <<gfCalls, engineFences, engineUp>>
    BY <1>2 DEF ClientPosts, Posts
  <2>2. m \notin Replies /\ m \notin GfUpMsg
    BY <1>2, ReplyIs DEF ClientPosts, GfCommands, Goodbyes, GfUpMsg
  <2>3. ASSUME NEW h \in HwId, ~NoneOf(gfMsgs', Found(h)) PROVE FoundAt(h)'
    <3>1. FoundAt(h) /\ m \notin About(h)
      BY <1>1, <2>1, <2>2, <2>3
    <3>2. NoneOf(gfCalls', CallsAbout(h))
      BY <2>1, <3>1 DEF FoundAt
    <3> QED
      BY <2>1, <2>2, <3>1, <3>2, OthersFound
  <2> QED
    BY <2>3 DEF FoundThere
<1>3. CASE EngineCrashes
  <2>1. UNCHANGED <<gfMsgs, gfCalls>> /\ engineUp' = FALSE /\ engineFences' = <<>>
    BY <1>3 DEF EngineCrashes
  <2>2. DOMAIN engineFences' = {}
    BY <2>1
  <2>3. ASSUME NEW h \in HwId, ~NoneOf(gfMsgs', Found(h)) PROVE FoundAt(h)'
    <3>1. FoundAt(h)
      BY <2>1, <2>3 DEF FoundThere
    <3> QED
      BY <2>1, <2>2, <3>1 DEF FoundAt
  <2> QED
    BY <2>3 DEF FoundThere
<1>4. CASE EngineComesUp
  <2>1. UNCHANGED <<gfCalls, engineFences>> /\ ~engineUp
    BY <1>4 DEF EngineComesUp
  <2>2. PICK m \in GfUpMsg : m \in GfMsgs /\ gfMsgs' = Append(gfMsgs, m)
    BY <1>4, ComesUpTypes
  <2>3. DOMAIN engineFences' = {}
    BY <2>1 DEF GfTyped
  <2>4. ASSUME NEW h \in HwId, ~NoneOf(gfMsgs', Found(h)) PROVE FoundAt(h)'
    <3>1. m \notin Replies
      BY <2>2, ReplyIs DEF GfUpMsg
    <3>2. FoundAt(h) /\ m \notin About(h) /\ m \notin Found(h)
      BY <1>1, <2>2, <2>4, <3>1
    <3>3. PICK F : F = Found(h)
      OBVIOUS
    <3>4. PICK A : A = About(h)
      OBVIOUS
    <3>5. PICK W : W = F \cup GfUpMsg
      OBVIOUS
    <3>6. ~LastIs(Append(gfMsgs, m), W, F)
      BY <1>0, <2>2, <3>2, <3>3, <3>5, OutcomePost
    <3>7. Cardinality(Places(Append(gfMsgs, m), A)) = Cardinality(Places(gfMsgs, A)) + (IF m \in A THEN 1 ELSE 0)
      BY <1>0, <2>2, PlacesPosted
    <3>8. Cardinality(Places(gfMsgs, A)) = 1
      BY <3>2, <3>4 DEF FoundAt
    <3>9. Cardinality(Places(Append(gfMsgs, m), A)) = 1
      BY <3>2, <3>4, <3>7, <3>8
    <3> QED
      BY <2>1, <2>2, <2>3, <3>2, <3>3, <3>4, <3>5, <3>6, <3>9 DEF FoundAt
  <2> QED
    BY <2>4 DEF FoundThere
<1> QED
  BY <1>2, <1>3, <1>4, AdapterFoundThere, EngineFound, GeofenceSteps

-----------------------------------------------------------------------------
(* the maps lead to the engine *)

\* What the queues hold when the first message is taken
LEMMA TailIs ==
  ASSUME GfTyped, NEW m, Took(m), NEW T
  PROVE  /\ NoneOf(gfMsgs, T) <=> m \notin T /\ NoneOf(gfMsgs', T)
         /\ NoneOf(gfMsgs', T) <=> NoneOf(Tail(gfMsgs), T)
BY NoneTake DEF Took, GfTyped

\* What they hold when more is posted
LEMMA MoreCalls ==
  ASSUME GfTyped, NEW r, Made(r), NEW T
  PROVE  NoneOf(gfCalls', T) <=> NoneOf(gfCalls, T) /\ NoneOf(r, T)
BY OutcomePosts DEF Made, GfTyped

LEMMA MorePosted ==
  ASSUME GfTyped, NEW m \in GfMsgs, gfMsgs' = Append(gfMsgs, m), NEW T
  PROVE  NoneOf(gfMsgs', T) <=> NoneOf(gfMsgs, T) /\ m \notin T
BY NonePost DEF GfTyped

LEMMA FewerCalls ==
  ASSUME GfTyped, NEW c \in GfCalls, NEW m \in GfMsgs, EngineDid(c, m), NEW T
  PROVE  /\ NoneOf(gfCalls, T) <=> c \notin T /\ NoneOf(gfCalls', T)
         /\ gfMsgs' = Append(gfMsgs, m)
<1>1. /\ gfCalls # <<>> /\ c = Head(gfCalls) /\ gfCalls' = Tail(gfCalls)
      /\ gfMsgs' = Append(gfMsgs, m)
      /\ gfCalls \in Seq(GfCalls)
  BY DEF EngineDid, LetsPass, EngineAdds, EngineChanges, Handled, GfTyped
<1> QED
  BY <1>1, NoneTake

\* A fence is saved when nothing else is about it, and is in the engine unless
\* the engine has been restarted.
LEMMA SavedThere ==
  ASSUME GfTyped, FoundThere, NEW m \in GfMsgs, Took(m), NEW h \in HwId, m \in Found(h)
  PROVE  /\ NoneOf(gfMsgs', About(h)) /\ NoneOf(gfCalls, CallsAbout(h))
         /\ h \in DOMAIN engineFences <=> engineUp /\ NoneOf(gfMsgs', GfUpMsg)
         /\ h \in DOMAIN engineFences => m.fence.options = engineFences[h].options
<1>1. gfMsgs \in Seq(GfMsgs) /\ gfMsgs # <<>> /\ m = Head(gfMsgs) /\ gfMsgs' = Tail(gfMsgs)
  BY DEF Took, GfTyped
<1>2. PICK F : F = Found(h)
  OBVIOUS
<1>3. PICK A : A = About(h)
  OBVIOUS
<1>4. PICK W : W = F \cup GfUpMsg
  OBVIOUS
<1>5. ~NoneOf(gfMsgs, F)
  BY <1>2, TailIs
<1>6. FoundAt(h)
  BY <1>2, <1>5 DEF FoundThere
<1>t. PICK t \in Seq(GfMsgs) : t = Tail(gfMsgs)
  BY <1>1, TakeHead
<1>7. Cardinality(Places(gfMsgs, A)) = Cardinality(Places(t, A)) + (IF m \in A THEN 1 ELSE 0)
  BY <1>1, <1>t, PlacesTaken
<1>8. Cardinality(Places(t, A)) \in Nat /\ (Cardinality(Places(t, A)) = 0 <=> NoneOf(t, A))
  BY PlacesNone, PlacesNumber
<1>9. m \in A /\ m \in F /\ F \subseteq A
  BY <1>2, <1>3, AboutFacts
<1>10. NoneOf(t, A)
  <2>1. Cardinality(Places(gfMsgs, A)) = 1
    BY <1>3, <1>6 DEF FoundAt
  <2> QED
    BY <1>7, <1>8, <1>9, <2>1
<1>11. NoneOf(t, F)
  BY <1>9, <1>10 DEF NoneOf
<1>12. LastIs(gfMsgs, W, F) <=> LastIs(t, W, F) \/ (NoneOf(t, W) /\ m \in W /\ m \in F)
  BY <1>1, <1>t, OutcomeTake
<1>13. ~LastIs(t, W, F)
  BY <1>11 DEF LastIs, NoneOf
<1>14. NoneOf(t, W) <=> NoneOf(t, GfUpMsg)
  BY <1>4, <1>11 DEF NoneOf
<1>15. h \in DOMAIN engineFences <=> engineUp /\ LastIs(gfMsgs, W, F)
  BY <1>2, <1>4, <1>6 DEF FoundAt
<1>16. ASSUME h \in DOMAIN engineFences PROVE m.fence.options = engineFences[h].options
  <2>1. PICK X : X = F \ Optioned(engineFences[h].options)
    OBVIOUS
  <2>2. NoneOf(gfMsgs, X)
    BY <1>2, <1>6, <1>16, <2>1 DEF FoundAt
  <2>3. m \notin X
    BY <2>2, TailIs
  <2> QED
    BY <1>9, <2>1, <2>3 DEF Optioned
<1>17. NoneOf(gfCalls, CallsAbout(h))
  BY <1>6 DEF FoundAt
<1> QED
  BY <1>1, <1>t, <1>3, <1>4, <1>9, <1>10, <1>12, <1>13, <1>14, <1>15, <1>16, <1>17

\* The maps lead to the engine after a message if every id that is new does.
LEMMA TookLead ==
  ASSUME GfTyped, IdsLead, NEW m \in GfMsgs, Took(m), m \notin GfUpMsg,
         \A k \in DOMAIN mGeofenceIds' : mGeofenceIds'[k] \in DOMAIN mGeofences',
         \A k \in DOMAIN mGeofenceIds' :
            \/ /\ k \in DOMAIN mGeofenceIds /\ mGeofenceIds'[k] = mGeofenceIds[k]
               /\ m \notin Removal(mGeofenceIds[k])
            \/ engineUp /\ NoneOf(gfMsgs', GfUpMsg) => mGeofenceIds'[k] \in DOMAIN engineFences,
         \A h \in DOMAIN mGeofences' :
            h \in DOMAIN mGeofences \/ (h \in DOMAIN engineFences => NoneOf(gfMsgs', GfUpMsg))
  PROVE  IdsLead'
<1>1. engineUp' = engineUp /\ engineFences' = engineFences
  BY DEF Took
<1>2. NoneOf(gfMsgs, GfUpMsg) <=> NoneOf(gfMsgs', GfUpMsg)
  BY TailIs
<1>3. ASSUME engineUp', NoneOf(gfMsgs', GfUpMsg), NEW k \in DOMAIN mGeofenceIds'
      PROVE  mGeofenceIds'[k] \in DOMAIN engineFences' \/ ~NoneOf(gfMsgs', Removal(mGeofenceIds'[k]))
  <2>1. CASE /\ k \in DOMAIN mGeofenceIds /\ mGeofenceIds'[k] = mGeofenceIds[k]
             /\ m \notin Removal(mGeofenceIds[k])
    <3>1. PICK R : R = Removal(mGeofenceIds[k])
      OBVIOUS
    <3>2. mGeofenceIds[k] \in DOMAIN engineFences \/ ~NoneOf(gfMsgs, R)
      BY <1>1, <1>2, <1>3, <2>1, <3>1 DEF IdsLead
    <3>3. ~NoneOf(gfMsgs, R) => ~NoneOf(gfMsgs', R)
      BY <2>1, <3>1, TailIs
    <3> QED
      BY <1>1, <2>1, <3>1, <3>2, <3>3
  <2>2. CASE engineUp /\ NoneOf(gfMsgs', GfUpMsg) => mGeofenceIds'[k] \in DOMAIN engineFences
    BY <1>1, <1>3, <2>2
  <2> QED
    BY <2>1, <2>2
<1>4. ASSUME NEW h \in DOMAIN mGeofences', h \in DOMAIN engineFences'
      PROVE  NoneOf(gfMsgs', GfUpMsg)
  BY <1>1, <1>2, <1>4 DEF IdsLead
<1> QED
  BY <1>3, <1>4 DEF IdsLead

LEMMA RemovalFacts ==
  ASSUME NEW h, NEW m \in Removal(h)
  PROVE  m \in Replies /\ m.ok /\ m.what = "answer" /\ m.op = "remove" /\ m.hwId = h
         /\ m \notin GfUpMsg
BY ReplyIs DEF Removal, GfUpMsg

LEMMA AdapterLead ==
  ASSUME GfTyped, FoundThere, IdsLead, ClearedUnknown, NEW owner \in [HwId -> GfKey], OwnerIs(owner),
         NEW m \in GfMsgs, NEW r \in Seq(GfCalls), AdapterDoes(m, r)
  PROVE  IdsLead'
<1>0. /\ \A k \in DOMAIN mGeofenceIds : mGeofenceIds[k] \in DOMAIN mGeofences
      /\ \A k \in DOMAIN mGeofenceIds : k = owner[mGeofenceIds[k]]
      /\ \A h \in DOMAIN mGeofences : mGeofences[h].key = owner[h]
  BY DEF IdsLead, OwnerIs, OwnerInMaps
<1>1. CASE PassesOn(m, r)
  <2>1. Took(m) /\ m \notin GfUpMsg /\ mGeofences' = mGeofences /\ mGeofenceIds' = mGeofenceIds
    BY <1>1 DEF PassesOn, GfUpMsg, gfMaps
  <2>2. \A h : m \notin Removal(h)
    BY <1>1, RemovalFacts DEF PassesOn, Replied
  <2> QED
    BY <1>0, <2>1, <2>2, TookLead
<1>2. ASSUME NEW h \in HwId, Saves(m, r, h) PROVE IdsLead'
  <2>1. Took(m) /\ m \in Found(h)
    BY <1>2 DEF Saves
  <2>2. SavedMaps(m, h)
    BY <1>2, SavesTypes
  <2>3. m \notin GfUpMsg /\ \A g : m \notin Removal(g)
    BY <2>1, AboutFacts, RemovalFacts DEF Found
  <2>4. h \in DOMAIN engineFences <=> engineUp /\ NoneOf(gfMsgs', GfUpMsg)
    BY <2>1, SavedThere
  <2>5. \A k \in DOMAIN mGeofenceIds' : mGeofenceIds'[k] \in DOMAIN mGeofences'
    BY <1>0, <2>2 DEF SavedMaps
  <2>6. ASSUME NEW k \in DOMAIN mGeofenceIds'
        PROVE  \/ /\ k \in DOMAIN mGeofenceIds /\ mGeofenceIds'[k] = mGeofenceIds[k]
                  /\ m \notin Removal(mGeofenceIds[k])
               \/ engineUp /\ NoneOf(gfMsgs', GfUpMsg) => mGeofenceIds'[k] \in DOMAIN engineFences
    BY <2>2, <2>3, <2>4 DEF SavedMaps
  <2>7. \A x \in DOMAIN mGeofences' :
          x \in DOMAIN mGeofences \/ (x \in DOMAIN engineFences => NoneOf(gfMsgs', GfUpMsg))
    BY <2>2, <2>4 DEF SavedMaps
  <2> QED
    BY <2>1, <2>3, <2>5, <2>6, <2>7, TookLead
<1>3. ASSUME NEW h \in HwId, Removes(m, h) PROVE IdsLead'
  <2>1. Took(m) /\ m \in Removal(h)
    BY <1>3 DEF Removes
  <2>2. m \notin GfUpMsg /\ m.hwId = h
    BY <2>1, RemovalFacts
  <2>3. /\ DOMAIN mGeofences' \subseteq DOMAIN mGeofences
        /\ DOMAIN mGeofences \ {h} \subseteq DOMAIN mGeofences'
        /\ DOMAIN mGeofenceIds' \subseteq DOMAIN mGeofenceIds
        /\ \A k \in DOMAIN mGeofenceIds' : mGeofenceIds'[k] = mGeofenceIds[k]
    BY <1>3, RemovesTypes DEF gfMaps
  <2>4. ASSUME NEW k \in DOMAIN mGeofenceIds' PROVE mGeofenceIds[k] # h
    <3>1. SUFFICES ASSUME mGeofenceIds[k] = h PROVE FALSE
      OBVIOUS
    <3>2. k \in DOMAIN mGeofenceIds /\ h \in DOMAIN mGeofences /\ mGeofences[h].key = k
      BY <1>0, <2>3, <3>1
    <3>3. DOMAIN mGeofenceIds' = DOMAIN mGeofenceIds \ {mGeofences[h].key}
      BY <1>3, <3>2, RemovesTypes
    <3> QED
      BY <3>2, <3>3
  <2>5. \A k \in DOMAIN mGeofenceIds' : mGeofenceIds'[k] \in DOMAIN mGeofences'
    BY <1>0, <2>3, <2>4
  <2>6. \A k \in DOMAIN mGeofenceIds' :
          /\ k \in DOMAIN mGeofenceIds /\ mGeofenceIds'[k] = mGeofenceIds[k]
          /\ m \notin Removal(mGeofenceIds[k])
    BY <2>2, <2>3, <2>4, RemovalFacts
  <2> QED
    BY <2>1, <2>2, <2>3, <2>5, <2>6, TookLead
<1>4. ASSUME NEW h \in HwId, Changes(m, h) PROVE IdsLead'
  <2>1. Took(m) /\ m \in Set({"pause", "resume", "modify"}, h)
    BY <1>4 DEF Changes
  <2>2. m \notin GfUpMsg /\ \A g : m \notin Removal(g)
    BY <2>1, AboutFacts, RemovalFacts DEF Set
  <2>3. mGeofenceIds' = mGeofenceIds /\ DOMAIN mGeofences' = DOMAIN mGeofences
    BY <1>4, ChangesTypes
  <2> QED
    BY <1>0, <2>1, <2>2, <2>3, TookLead
<1>5. ASSUME NEW h \in HwId, Forgets(m, h) PROVE IdsLead'
  <2>1. Took(m) /\ m \in Cleared(h)
    BY <1>5 DEF Forgets
  <2>2. m \notin GfUpMsg /\ \A g : m \notin Removal(g)
    BY <2>1, AboutFacts, RemovalFacts DEF Cleared
  <2>3. mGeofenceIds' = mGeofenceIds /\ DOMAIN mGeofences' = DOMAIN mGeofences \ {h}
    BY <1>5, ForgetsTypes
  <2>4. ASSUME NEW k \in DOMAIN mGeofenceIds PROVE mGeofenceIds[k] # h
    <3>1. PICK C : C = Cleared(mGeofenceIds[k])
      OBVIOUS
    <3>2. NoneOf(gfMsgs, C)
      BY <3>1 DEF ClearedUnknown
    <3>3. m \notin C
      BY <2>1, <3>2, TailIs
    <3> QED
      BY <2>1, <3>1, <3>3
  <2>5. \A k \in DOMAIN mGeofenceIds' : mGeofenceIds'[k] \in DOMAIN mGeofences'
    BY <1>0, <2>3, <2>4
  <2> QED
    BY <2>1, <2>2, <2>3, <2>5, TookLead
<1>6. CASE Farewell(m, r)
  <2>1. Took(m) /\ m \in Goodbyes
    BY <1>6 DEF Farewell
  <2>2. m \notin GfUpMsg /\ \A g : m \notin Removal(g)
    BY <2>1, AboutFacts, RemovalFacts DEF Goodbyes, GfUpMsg, Removal
  <2>3. /\ mGeofences' = mGeofences /\ DOMAIN mGeofenceIds' \subseteq DOMAIN mGeofenceIds
        /\ \A k \in DOMAIN mGeofenceIds' : mGeofenceIds'[k] = mGeofenceIds[k]
    BY <1>6, FarewellTypes
  <2> QED
    BY <1>0, <2>1, <2>2, <2>3, TookLead
<1>7. CASE StartsOver(m, r)
  BY <1>7, StartsOverTypes DEF IdsLead
<1> QED
  BY <1>1, <1>2, <1>3, <1>4, <1>5, <1>6, <1>7 DEF AdapterDoes

\* When the engine removes a fence, it is answering.
LEMMA EngineRemoves ==
  ASSUME GfTyped, NEW c \in GfCalls, NEW m \in GfMsgs, NEW h \in HwId, EngineChanges(c, m, h)
  PROVE  /\ c.op = "remove" => c \in ClearCalls(h) \/ (c \in Asked /\ m \in Removal(h))
         /\ c.op # "remove" => h \in DOMAIN engineFences'
         /\ h \in DOMAIN engineFences
<1>1. c.hwId = h /\ m \in Replies /\ m.hwId = h /\ m.ok /\ m.what = c.then.what /\ m.op = c.then.op
      /\ h \in DOMAIN engineFences
  BY DEF EngineChanges, AnswerTo
<1>2. ASSUME c.op = "remove" PROVE c \in ClearCalls(h) \/ (c \in Asked /\ m \in Removal(h))
  <2>1. CASE c \in Asked
    <3>1. m.what = "answer" /\ m.op = "remove"
      BY <1>1, <1>2, <2>1, GfCallIs
    <3> QED
      BY <1>1, <2>1, <3>1 DEF Removal
  <2>2. CASE c \in Clearing
    BY <1>1, <2>2 DEF ClearCalls
  <2> QED
    BY <1>2, <2>1, <2>2, GfCallIs
<1>3. ASSUME c.op # "remove" PROVE h \in DOMAIN engineFences'
  <2>1. PICK g \in GfFence : engineFences' = [engineFences EXCEPT ![h] = g]
    BY <1>3, EngineFenceChanged
  <2> QED
    BY <1>1, <2>1
<1> QED
  BY <1>1, <1>2, <1>3

\* The engine lets go of a known fence only when it answers a removal of it.
LEMMA EngineLead ==
  ASSUME GfTyped, IdsLead, ClearedUnknown, NEW owner \in [HwId -> GfKey], OwnerIs(owner),
         NEW c \in GfCalls, NEW m \in GfMsgs, EngineDid(c, m)
  PROVE  IdsLead'
<1>1. gfMsgs' = Append(gfMsgs, m) /\ mGeofences' = mGeofences /\ mGeofenceIds' = mGeofenceIds
      /\ engineUp' = engineUp
  BY DEF EngineDid, LetsPass, EngineAdds, EngineChanges, Handled, gfMaps
<1>2. m \notin GfUpMsg
  <2>1. m \in Items \/ m \in Replies
    BY DEF EngineDid, LetsPass, EngineAdds, EngineChanges, AnswerTo
  <2> QED
    BY <2>1, ItemIs, ReplyIs DEF GfUpMsg
<1>3. NoneOf(gfMsgs', GfUpMsg) <=> NoneOf(gfMsgs, GfUpMsg)
  BY <1>1, <1>2, MorePosted
<1>4. ASSUME engineUp', NoneOf(gfMsgs', GfUpMsg), NEW k \in DOMAIN mGeofenceIds
      PROVE  mGeofenceIds[k] \in DOMAIN engineFences' \/ ~NoneOf(gfMsgs', Removal(mGeofenceIds[k]))
  <2>1. PICK h \in HwId : h = mGeofenceIds[k]
    BY DEF GfTyped
  <2>2. PICK R : R = Removal(h)
    OBVIOUS
  <2>3. h \in DOMAIN engineFences \/ ~NoneOf(gfMsgs, R)
    BY <1>1, <1>3, <1>4, <2>1, <2>2 DEF IdsLead
  <2>4. NoneOf(gfMsgs', R) <=> NoneOf(gfMsgs, R) /\ m \notin R
    BY <1>1, MorePosted
  <2>5. ASSUME h \in DOMAIN engineFences PROVE h \in DOMAIN engineFences' \/ m \in R
    <3>1. CASE EngineChanges(c, m, h)
      <4>1. c \notin ClearCalls(h)
        <5>1. PICK C : C = ClearCalls(h)
          OBVIOUS
        <5>2. NoneOf(gfCalls, C)
          BY <2>1, <5>1 DEF ClearedUnknown
        <5> QED
          BY <5>1, <5>2, FewerCalls
      <4> QED
        BY <2>2, <3>1, <4>1, EngineRemoves
    <3>2. CASE EngineAdds(c, m, h)
      BY <2>5, <3>2 DEF EngineAdds, With
    <3> QED
      BY <2>5, <3>1, <3>2, EngineOthers
  <2> QED
    BY <2>1, <2>2, <2>3, <2>4, <2>5
<1>5. ASSUME NEW h \in DOMAIN mGeofences, h \in DOMAIN engineFences'
      PROVE  NoneOf(gfMsgs', GfUpMsg)
  <2>1. h \in HwId /\ h <= hwIds /\ hwIds \in Nat
    BY HwIdFacts DEF GfTyped, FencesIn, OwnerIs, OwnerInMaps
  <2>2. ~EngineAdds(c, m, h)
    BY <2>1 DEF EngineAdds
  <2>3. h \in DOMAIN engineFences
    BY <1>5, <2>1, <2>2, EngineOthers, EngineRemoves
  <2> QED
    BY <1>3, <2>3 DEF IdsLead
<1>6. \A k \in DOMAIN mGeofenceIds : mGeofenceIds[k] \in DOMAIN mGeofences
  BY DEF IdsLead
<1> QED
  BY <1>1, <1>4, <1>5, <1>6 DEF IdsLead

LEMMA GfLeadKept ==
  ASSUME GfTyped, FoundThere, IdsLead, ClearedUnknown, NEW owner \in [HwId -> GfKey], OwnerIs(owner),
         GeofenceNext
  PROVE  IdsLead'
<1>1. ASSUME NEW m \in GfMsgs, ClientPosts(m) PROVE IdsLead'
  <2>1. gfMsgs' = Append(gfMsgs, m) /\ mGeofences' = mGeofences /\ mGeofenceIds' = mGeofenceIds
        /\ engineUp' = engineUp /\ engineFences' = engineFences
    BY <1>1 DEF ClientPosts, Posts, gfMaps
  <2>2. m \notin GfUpMsg
    BY <1>1 DEF ClientPosts, GfCommands, Goodbyes, GfUpMsg
  <2>3. NoneOf(gfMsgs', GfUpMsg) <=> NoneOf(gfMsgs, GfUpMsg)
    BY <2>1, <2>2, MorePosted
  <2>4. ASSUME NEW h, ~NoneOf(gfMsgs, Removal(h)) PROVE ~NoneOf(gfMsgs', Removal(h))
    BY <2>1, <2>4, MorePosted
  <2> QED
    BY <2>1, <2>3, <2>4 DEF IdsLead
<1>2. CASE EngineCrashes
  <2>1. UNCHANGED <<gfMsgs, mGeofences, mGeofenceIds>> /\ engineUp' = FALSE /\ DOMAIN engineFences' = {}
    BY <1>2 DEF EngineCrashes, gfMaps
  <2> QED
    BY <2>1 DEF IdsLead
<1>3. CASE EngineComesUp
  <2>1. UNCHANGED <<mGeofences, mGeofenceIds, engineFences>> /\ ~engineUp
    BY <1>3 DEF EngineComesUp, gfMaps
  <2>2. PICK m \in GfUpMsg : m \in GfMsgs /\ gfMsgs' = Append(gfMsgs, m)
    BY <1>3, ComesUpTypes
  <2>3. DOMAIN engineFences' = {} /\ ~NoneOf(gfMsgs', GfUpMsg)
    BY <2>1, <2>2, MorePosted DEF GfTyped
  <2> QED
    BY <2>1, <2>3 DEF IdsLead
<1> QED
  BY <1>1, <1>2, <1>3, AdapterLead, EngineLead, GeofenceSteps

LEMMA ClearedFacts ==
  ASSUME NEW h \in HwId
  PROVE  /\ Cleared(h) \subseteq About(h) /\ ClearCalls(h) \subseteq CallsAbout(h)
         /\ \A m \in Cleared(h) : m \in Replies /\ m.what = "cleared" /\ m.hwId = h
         /\ \A c \in ClearCalls(h) : c \in GfCalls /\ c.op = "remove" /\ c.then.what = "cleared"
                                     /\ c.hwId = h /\ c \notin Asked
<1>1. \A c \in Clearing : c \in GfCalls
  BY DEF GfCalls
<1>2. \A c \in Clearing : c.then.what = "cleared" /\ c.op = "remove"
  BY DEF Clearing, ToAnswer
<1>3. \A c \in Asked : c.then.what = "answer"
  BY DEF Asked, ToAnswer
<1> QED
  BY <1>1, <1>2, <1>3 DEF Cleared, About, ClearCalls, CallsAbout

\* What is cleared is none of the fences a client has an id of.
LEMMA TookCleared ==
  ASSUME GfTyped, ClearedUnknown, NEW m, Took(m), NEW r, Made(r),
         \A k \in DOMAIN mGeofenceIds' :
            /\ \/ k \in DOMAIN mGeofenceIds /\ mGeofenceIds'[k] = mGeofenceIds[k]
               \/ /\ NoneOf(gfMsgs', Cleared(mGeofenceIds'[k]))
                  /\ NoneOf(gfCalls, ClearCalls(mGeofenceIds'[k]))
            /\ NoneOf(r, ClearCalls(mGeofenceIds'[k]))
  PROVE  ClearedUnknown'
<1>1. ASSUME NEW k \in DOMAIN mGeofenceIds'
      PROVE  NoneOf(gfMsgs', Cleared(mGeofenceIds'[k])) /\ NoneOf(gfCalls', ClearCalls(mGeofenceIds'[k]))
  <2>1. PICK C : C = Cleared(mGeofenceIds'[k])
    OBVIOUS
  <2>2. PICK D : D = ClearCalls(mGeofenceIds'[k])
    OBVIOUS
  <2>3. (NoneOf(gfMsgs, C) => NoneOf(gfMsgs', C)) /\ (NoneOf(gfCalls', D) <=> NoneOf(gfCalls, D) /\ NoneOf(r, D))
    BY TailIs, MoreCalls
  <2>4. NoneOf(r, D)
    BY <2>2
  <2>5. CASE k \in DOMAIN mGeofenceIds /\ mGeofenceIds'[k] = mGeofenceIds[k]
    <3>1. NoneOf(gfMsgs, C) /\ NoneOf(gfCalls, D)
      BY <2>1, <2>2, <2>5 DEF ClearedUnknown
    <3> QED
      BY <2>1, <2>2, <2>3, <2>4, <3>1
  <2>6. CASE /\ NoneOf(gfMsgs', Cleared(mGeofenceIds'[k]))
             /\ NoneOf(gfCalls, ClearCalls(mGeofenceIds'[k]))
    BY <2>1, <2>2, <2>3, <2>4, <2>6
  <2> QED
    BY <2>5, <2>6
<1> QED
  BY <1>1 DEF ClearedUnknown

LEMMA AdapterCleared ==
  ASSUME GfTyped, FoundThere, ClearedUnknown, NEW owner \in [HwId -> GfKey], OwnerIs(owner),
         NEW m \in GfMsgs, NEW r \in Seq(GfCalls), AdapterDoes(m, r)
  PROVE  ClearedUnknown'
<1>0. \A k \in DOMAIN mGeofenceIds : mGeofenceIds[k] \in HwId /\ k = owner[mGeofenceIds[k]]
  BY DEF OwnerIs, OwnerInMaps, GfTyped
<1>1. CASE PassesOn(m, r)
  <2>1. Took(m) /\ Made(r) /\ mGeofenceIds' = mGeofenceIds
    BY <1>1 DEF PassesOn, gfMaps
  <2>2. ASSUME NEW h \in HwId PROVE NoneOf(r, ClearCalls(h))
    <3>1. ASSUME NEW i \in DOMAIN r PROVE r[i] \notin ClearCalls(h)
      BY <1>1, ClearedFacts, HwIdFacts DEF PassesOn
    <3> QED
      BY <3>1 DEF NoneOf
  <2> QED
    BY <1>0, <2>1, <2>2, TookCleared
<1>2. ASSUME NEW h \in HwId, Saves(m, r, h) PROVE ClearedUnknown'
  <2>1. Took(m) /\ Made(r) /\ m \in Found(h)
    BY <1>2 DEF Saves
  <2>2. SavedMaps(m, h)
    BY <1>2, SavesTypes
  <2>3. NoneOf(gfMsgs', Cleared(h)) /\ NoneOf(gfCalls, ClearCalls(h))
    <3>1. NoneOf(gfMsgs', About(h)) /\ NoneOf(gfCalls, CallsAbout(h))
      BY <2>1, SavedThere
    <3> QED
      BY <3>1, ClearedFacts DEF NoneOf
  <2>4. ASSUME NEW g \in HwId PROVE NoneOf(r, ClearCalls(g))
    <3>1. ASSUME NEW i \in DOMAIN r PROVE r[i] \notin ClearCalls(g)
      BY <1>2, ClearedFacts DEF Saves, Pausing
    <3> QED
      BY <3>1 DEF NoneOf
  <2>5. \A k \in DOMAIN mGeofenceIds' : mGeofenceIds'[k] \in HwId
    BY <1>0, <2>2 DEF SavedMaps
  <2>6. ASSUME NEW k \in DOMAIN mGeofenceIds'
        PROVE  \/ k \in DOMAIN mGeofenceIds /\ mGeofenceIds'[k] = mGeofenceIds[k]
               \/ mGeofenceIds'[k] = h
    BY <2>2 DEF SavedMaps
  <2> QED
    BY <2>1, <2>3, <2>4, <2>5, <2>6, TookCleared
<1>3. CASE Farewell(m, r)
  <2>1. Took(m) /\ Made(r)
    BY <1>3 DEF Farewell
  <2>2. /\ DOMAIN mGeofenceIds' = DOMAIN mGeofenceIds \ FencesOf(m)
        /\ \A k \in DOMAIN mGeofenceIds' : mGeofenceIds'[k] = mGeofenceIds[k]
    BY <1>3, FarewellTypes
  <2>3. ASSUME NEW k \in DOMAIN mGeofenceIds' PROVE NoneOf(r, ClearCalls(mGeofenceIds'[k]))
    <3>0. mGeofenceIds[k] \in HwId /\ mGeofenceIds'[k] = mGeofenceIds[k] /\ k \notin FencesOf(m)
          /\ k = owner[mGeofenceIds[k]]
      BY <1>0, <2>2
    <3>1. ASSUME NEW i \in DOMAIN r PROVE r[i] \notin ClearCalls(mGeofenceIds[k])
      <4>1. PICK x : x = r[i].then.fence.key
        OBVIOUS
      <4>2. x \in FencesOf(m) /\ r[i].hwId = mGeofenceIds[x] /\ x \in DOMAIN mGeofenceIds
        BY <1>3, <4>1 DEF Farewell, FencesOf
      <4>3. mGeofenceIds[x] # mGeofenceIds[k]
        BY <1>0, <3>0, <4>2
      <4> QED
        BY <3>0, <4>2, <4>3, ClearedFacts
    <3> QED
      BY <3>0, <3>1 DEF NoneOf
  <2> QED
    BY <2>1, <2>2, <2>3, TookCleared
<1>4. CASE StartsOver(m, r)
  BY <1>4, StartsOverTypes DEF ClearedUnknown
<1>5. ASSUME NEW h \in HwId, Removes(m, h) \/ Changes(m, h) \/ Forgets(m, h) PROVE ClearedUnknown'
  <2>1. Took(m) /\ UNCHANGED gfCalls
    BY <1>5 DEF Removes, Changes, Forgets
  <2>2. PICK s : s = <<>>
    OBVIOUS
  <2>3. Made(s) /\ \A g : NoneOf(s, ClearCalls(g))
    BY <2>1, <2>2, NoCalls DEF NoneOf
  <2>4. /\ DOMAIN mGeofenceIds' \subseteq DOMAIN mGeofenceIds
        /\ \A k \in DOMAIN mGeofenceIds' : mGeofenceIds'[k] = mGeofenceIds[k]
    BY <1>5, RemovesTypes, ChangesTypes, ForgetsTypes DEF gfMaps
  <2> QED
    BY <2>1, <2>3, <2>4, TookCleared
<1> QED
  BY <1>1, <1>2, <1>3, <1>4, <1>5 DEF AdapterDoes

LEMMA EngineCleared ==
  ASSUME GfTyped, ClearedUnknown, NEW c \in GfCalls, NEW m \in GfMsgs, EngineDid(c, m)
  PROVE  ClearedUnknown'
<1>1. gfMsgs' = Append(gfMsgs, m) /\ mGeofenceIds' = mGeofenceIds
  BY DEF EngineDid, LetsPass, EngineAdds, EngineChanges, Handled, gfMaps
<1>2. ASSUME NEW k \in DOMAIN mGeofenceIds
      PROVE  NoneOf(gfMsgs', Cleared(mGeofenceIds[k])) /\ NoneOf(gfCalls', ClearCalls(mGeofenceIds[k]))
  <2>1. PICK h \in HwId : h = mGeofenceIds[k]
    BY DEF GfTyped
  <2>2. PICK C : C = Cleared(h)
    OBVIOUS
  <2>3. PICK D : D = ClearCalls(h)
    OBVIOUS
  <2>4. NoneOf(gfMsgs, C) /\ NoneOf(gfCalls, D)
    BY <2>1, <2>2, <2>3 DEF ClearedUnknown
  <2>5. c \notin D /\ NoneOf(gfCalls', D)
    BY <2>4, FewerCalls
  <2>6. m \notin C
    <3>1. SUFFICES ASSUME m \in C PROVE FALSE
      OBVIOUS
    <3>2. m \in Replies /\ m.what = "cleared" /\ m.hwId = h
      BY <2>2, <3>1, ClearedFacts
    <3>3. c.then.what = "cleared" /\ (m.hwId = c.hwId \/ c.op = "add")
      BY <3>2, ItemIs DEF EngineDid, LetsPass, EngineAdds, EngineChanges, AnswerTo
    <3>4. c \in Clearing /\ c.op = "remove"
      BY <3>3, GfCallIs
    <3>5. c \in D
      BY <2>3, <3>2, <3>3, <3>4 DEF ClearCalls
    <3> QED
      BY <2>5, <3>5
  <2> QED
    BY <1>1, <2>1, <2>2, <2>3, <2>4, <2>5, <2>6, MorePosted
<1> QED
  BY <1>1, <1>2 DEF ClearedUnknown

\* So what is cleared for a client that is gone was never found again.
LEMMA GfClearedKept ==
  ASSUME GfTyped, FoundThere, ClearedUnknown, NEW owner \in [HwId -> GfKey], OwnerIs(owner), GeofenceNext
  PROVE  ClearedUnknown'
<1>1. ASSUME NEW m \in GfMsgs, gfMsgs' = Append(gfMsgs, m), m \notin Replies,
             UNCHANGED <<mGeofenceIds, gfCalls>>
      PROVE  ClearedUnknown'
  <2>1. ASSUME NEW k \in DOMAIN mGeofenceIds PROVE NoneOf(gfMsgs', Cleared(mGeofenceIds[k]))
    <3>1. PICK C : C = Cleared(mGeofenceIds[k])
      OBVIOUS
    <3>2. NoneOf(gfMsgs, C) /\ m \notin C
      BY <1>1, <3>1 DEF ClearedUnknown, Cleared
    <3> QED
      BY <1>1, <3>1, <3>2, MorePosted
  <2> QED
    BY <1>1, <2>1 DEF ClearedUnknown
<1>2. ASSUME NEW m \in GfMsgs, ClientPosts(m) PROVE ClearedUnknown'
  <2>1. m \notin Replies
    BY <1>2, ReplyIs DEF ClientPosts, GfCommands, Goodbyes
  <2> QED
    BY <1>1, <1>2, <2>1 DEF ClientPosts, Posts, gfMaps
<1>3. CASE EngineCrashes
  BY <1>3 DEF EngineCrashes, ClearedUnknown, gfMaps
<1>4. CASE EngineComesUp
  <2>1. PICK m \in GfUpMsg : m \in GfMsgs /\ gfMsgs' = Append(gfMsgs, m)
    BY <1>4, ComesUpTypes
  <2>2. m \notin Replies
    BY <2>1, ReplyIs DEF GfUpMsg
  <2> QED
    BY <1>1, <1>4, <2>1, <2>2 DEF EngineComesUp, gfMaps
<1> QED
  BY <1>2, <1>3, <1>4, AdapterCleared, EngineCleared, GeofenceSteps

-----------------------------------------------------------------------------
(* what is removed is known until the adapter hears of it *)

\* What is known of a fence that a client has an id of
LEMMA KnownFacts ==
  ASSUME GfTyped, IdsLead, NEW owner \in [HwId -> GfKey], OwnerIs(owner),
         NEW k \in GfKey, NEW h \in HwId, KnownAs(k, h)
  PROVE  /\ k \in DOMAIN mGeofenceIds /\ mGeofenceIds[k] = h /\ owner[h] = k
         /\ h \in DOMAIN mGeofences /\ mGeofences[h].key = k /\ h \in Saved(k)
BY DEF KnownAs, IdsLead, OwnerIs, OwnerInMaps, Saved

\* The adapter knows a fence until it has heard that it is removed, or starts over.
LEMMA AdapterKnows ==
  ASSUME GfTyped, Single, FoundThere, IdsLead, RemovalKnown,
         NEW owner \in [HwId -> GfKey], OwnerIs(owner),
         NEW m \in GfMsgs, NEW r \in Seq(GfCalls), AdapterDoes(m, r),
         NEW k \in GfKey, NEW h \in HwId, k.client \in gfClients, KnownAs(k, h),
         \/ h \in DOMAIN engineFences
         \/ ~NoneOf(gfMsgs', RemovalOf(k, h)) /\ Before(gfMsgs, RemovalOf(k, h), GfUpMsg)
  PROVE  KnownAs(k, h)'
<1>0. /\ k \in DOMAIN mGeofenceIds /\ mGeofenceIds[k] = h /\ owner[h] = k
      /\ h \in DOMAIN mGeofences /\ mGeofences[h].key = k /\ h \in Saved(k)
  BY KnownFacts
<1>1. CASE PassesOn(m, r)
  BY <1>1 DEF PassesOn, gfMaps, KnownAs
<1>2. ASSUME NEW g \in HwId, Saves(m, r, g) PROVE KnownAs(k, h)'
  <2>1. Took(m) /\ m \in Found(g) /\ m.hwId = g /\ m \in Replies
    BY <1>2 DEF Saves, Found
  <2>2. ~NoneOf(gfMsgs, Found(g))
    <3>1. PICK F : F = Found(g)
      OBVIOUS
    <3> QED
      BY <2>1, <3>1, TailIs
  <2>3. Saved(owner[g]) = {}
    BY <2>2, TokenAlone
  <2>4. m.fence.key = owner[g]
    BY <2>1, HeadOwned
  <2>5. k # m.fence.key
    BY <1>0, <2>3, <2>4
  <2>6. SavedMaps(m, g)
    BY <1>2, SavesTypes
  <2> QED
    BY <1>0, <2>5, <2>6 DEF SavedMaps, KnownAs
<1>3. ASSUME NEW g \in HwId, Removes(m, g) PROVE KnownAs(k, h)'
  <2>1. Took(m) /\ m \in Removal(g) /\ m \in Replies /\ m.hwId = g
    BY <1>3, RemovalFacts DEF Removes
  <2>2. m.fence.key = owner[g]
    BY <2>1, HeadOwned
  <2>3. CASE owner[g] = k
    <3>1. m \in RemovalOf(k, g)
      BY <2>1, <2>2, <2>3 DEF RemovalOf
    <3>2. ~NoneOf(gfMsgs, RemovalOf(k, g)) /\ ~NoneOf(gfMsgs, Removal(g))
      BY <2>1, <3>1, TailIs
    <3>3. KnownAs(k, g) /\ g \notin DOMAIN engineFences /\ Cardinality(Places(gfMsgs, Removal(g))) = 1
      BY <3>2 DEF RemovalKnown
    <3>4. g = h
      BY <1>0, <3>3 DEF KnownAs
    <3>5. NoneOf(gfMsgs', Removal(h))
      <4>1. PICK R : R = Removal(h)
        OBVIOUS
      <4>2. gfMsgs \in Seq(GfMsgs) /\ gfMsgs # <<>> /\ m = Head(gfMsgs) /\ gfMsgs' = Tail(gfMsgs)
        BY <2>1 DEF Took, GfTyped
      <4>3. PICK t \in Seq(GfMsgs) : t = Tail(gfMsgs)
        BY <4>2, TakeHead
      <4>4. Cardinality(Places(gfMsgs, R)) = Cardinality(Places(t, R)) + (IF m \in R THEN 1 ELSE 0)
        BY <4>2, <4>3, PlacesTaken
      <4>5. Cardinality(Places(t, R)) \in Nat /\ (Cardinality(Places(t, R)) = 0 <=> NoneOf(t, R))
        BY PlacesNone, PlacesNumber
      <4>6. Cardinality(Places(gfMsgs, R)) = 1 /\ m \in R
        BY <2>1, <3>3, <3>4, <4>1
      <4>7. NoneOf(t, R)
        BY <4>4, <4>5, <4>6
      <4> QED
        BY <4>1, <4>2, <4>3, <4>7
    <3>6. NoneOf(gfMsgs', RemovalOf(k, h))
      BY <3>5 DEF NoneOf, RemovalOf
    <3> QED
      BY <3>3, <3>4, <3>6
  <2>4. CASE owner[g] # k
    <3>1. \/ UNCHANGED gfMaps
          \/ /\ g \in DOMAIN mGeofences
             /\ DOMAIN mGeofenceIds' = DOMAIN mGeofenceIds \ {mGeofences[g].key}
             /\ \A x \in DOMAIN mGeofenceIds' : mGeofenceIds'[x] = mGeofenceIds[x]
      BY <1>3, RemovesTypes
    <3>2. \A x \in DOMAIN mGeofences : mGeofences[x].key = owner[x]
      BY DEF OwnerIs, OwnerInMaps
    <3> QED
      BY <1>0, <2>4, <3>1, <3>2 DEF gfMaps, KnownAs
  <2> QED
    BY <2>3, <2>4
<1>4. ASSUME NEW g \in HwId, Changes(m, g) \/ Forgets(m, g) PROVE KnownAs(k, h)'
  BY <1>0, <1>4, ChangesTypes, ForgetsTypes DEF KnownAs
<1>5. CASE Farewell(m, r)
  <2>1. Took(m) /\ m \in Goodbyes
    BY <1>5 DEF Farewell
  <2>2. m \in Proper(gfClients)
    BY <2>1, ProperTook
  <2>3. m.client \notin gfClients
    BY <2>1, <2>2 DEF Proper, Goodbyes
  <2>4. k \notin FencesOf(m)
    BY <2>3 DEF FencesOf
  <2> QED
    BY <1>0, <1>5, <2>4, FarewellTypes DEF KnownAs
<1>6. CASE StartsOver(m, r)
  <2>1. Took(m) /\ m \in GfUpMsg
    BY <1>6 DEF StartsOver
  <2>2. ~NoneOf(gfMsgs, GfUpMsg)
    BY <2>1, TailIs
  <2>3. h \notin DOMAIN engineFences
    BY <1>0, <2>2 DEF IdsLead
  <2>4. PICK S : S = RemovalOf(k, h)
    OBVIOUS
  <2>5. ~NoneOf(gfMsgs', S) /\ Before(gfMsgs, S, GfUpMsg)
    BY <2>3, <2>4
  <2>6. NoneOf(gfMsgs, S)
    BY <2>1, <2>5, BeforeTake DEF Took, GfTyped
  <2>7. NoneOf(gfMsgs', S)
    BY <2>1, <2>6, TailIs
  <2> QED
    BY <2>5, <2>7
<1> QED
  BY <1>1, <1>2, <1>3, <1>4, <1>5, <1>6 DEF AdapterDoes

\* A removal is asked for by a client that knows the fence.
LEMMA AdapterAsks ==
  ASSUME GfTyped, NEW m \in GfMsgs, NEW r \in Seq(GfCalls), AdapterDoes(m, r),
         NEW k \in GfKey, NEW h \in HwId, ~NoneOf(gfCalls', RemoveCalls(k, h))
  PROVE  ~NoneOf(gfCalls, RemoveCalls(k, h)) \/ KnownAs(k, h)
<1>1. PICK C : C = RemoveCalls(k, h)
  OBVIOUS
<1>2. \A c \in C : c \in Asked /\ c.hwId = h /\ h # 0 /\ c.then.fence.key = k
                   /\ c \notin Pausing /\ c \notin Clearing /\ c \notin Restoring
  BY <1>1, HwIdFacts DEF RemoveCalls, Asked, Pausing, Clearing, Restoring, ToAnswer
<1>3. CASE \E g \in HwId : Removes(m, g) \/ Changes(m, g) \/ Forgets(m, g)
  BY <1>3 DEF Removes, Changes, Forgets
<1>4. CASE PassesOn(m, r)
  <2>1. NoneOf(gfCalls', C) <=> NoneOf(gfCalls, C) /\ NoneOf(r, C)
    BY <1>4, MoreCalls DEF PassesOn
  <2>2. ASSUME NEW i \in DOMAIN r, r[i] \in C PROVE KnownAs(k, h)
    BY <1>2, <1>4, <2>2 DEF PassesOn
  <2> QED
    BY <1>1, <2>1, <2>2 DEF NoneOf
<1>5. ASSUME Made(r), \A i \in DOMAIN r : r[i] \in Pausing \/ r[i] \in Clearing \/ r[i] \in Restoring
      PROVE  ~NoneOf(gfCalls, RemoveCalls(k, h))
  <2>1. NoneOf(gfCalls', C) <=> NoneOf(gfCalls, C) /\ NoneOf(r, C)
    BY <1>5, MoreCalls
  <2>2. NoneOf(r, C)
    BY <1>2, <1>5 DEF NoneOf
  <2> QED
    BY <1>1, <2>1, <2>2
<1> QED
  BY <1>3, <1>4, <1>5 DEF AdapterDoes, Saves, Farewell, StartsOver

LEMMA AdapterRemoval ==
  ASSUME GfTyped, Single, FoundThere, IdsLead, RemovalKnown,
         NEW owner \in [HwId -> GfKey], OwnerIs(owner),
         NEW m \in GfMsgs, NEW r \in Seq(GfCalls), AdapterDoes(m, r)
  PROVE  RemovalKnown'
<1>0. Took(m) /\ engineFences' = engineFences /\ gfClients' = gfClients
      /\ gfMsgs \in Seq(GfMsgs) /\ gfMsgs # <<>> /\ gfMsgs' = Tail(gfMsgs)
  BY DEF AdapterDoes, PassesOn, Saves, Removes, Changes, Farewell, Forgets, StartsOver, Took, GfTyped
<1>1. ASSUME NEW h \in HwId, ~NoneOf(gfMsgs', Removal(h))
      PROVE  h \notin DOMAIN engineFences' /\ Cardinality(Places(gfMsgs', Removal(h))) = 1
  <2>1. PICK R : R = Removal(h)
    OBVIOUS
  <2>2. ~NoneOf(gfMsgs, R)
    BY <1>0, <1>1, <2>1, TailIs
  <2>3. h \notin DOMAIN engineFences /\ Cardinality(Places(gfMsgs, R)) = 1
    BY <2>1, <2>2 DEF RemovalKnown
  <2>4. PICK t \in Seq(GfMsgs) : t = Tail(gfMsgs)
    BY <1>0, TakeHead
  <2>5. Cardinality(Places(gfMsgs, R)) = Cardinality(Places(t, R)) + (IF Head(gfMsgs) \in R THEN 1 ELSE 0)
    BY <1>0, <2>4, PlacesTaken
  <2>6. Cardinality(Places(t, R)) \in Nat /\ (Cardinality(Places(t, R)) = 0 <=> NoneOf(t, R))
    BY PlacesNone, PlacesNumber
  <2>7. Cardinality(Places(t, R)) = 1
    BY <1>0, <1>1, <2>1, <2>3, <2>4, <2>5, <2>6
  <2> QED
    BY <1>0, <2>1, <2>3, <2>4, <2>7
<1>2. ASSUME NEW k \in GfKey, NEW h \in HwId, k.client \in gfClients, ~NoneOf(gfMsgs', RemovalOf(k, h))
      PROVE  KnownAs(k, h)' /\ Before(gfMsgs', RemovalOf(k, h), GfUpMsg)
  <2>1. PICK R : R = RemovalOf(k, h)
    OBVIOUS
  <2>2. ~NoneOf(gfMsgs, R)
    BY <1>0, <1>2, <2>1, TailIs
  <2>3. KnownAs(k, h) /\ Before(gfMsgs, R, GfUpMsg)
    BY <1>2, <2>1, <2>2 DEF RemovalKnown
  <2>4. Before(Tail(gfMsgs), R, GfUpMsg)
    BY <1>0, <2>3, BeforeTake
  <2>5. KnownAs(k, h)'
    BY <1>2, <2>1, <2>3, AdapterKnows
  <2> QED
    BY <1>0, <2>1, <2>4, <2>5
<1>3. ASSUME NEW k \in GfKey, NEW h \in HwId, k.client \in gfClients,
             ~NoneOf(gfCalls', RemoveCalls(k, h)), h \in DOMAIN engineFences
      PROVE  KnownAs(k, h)'
  <2>1. KnownAs(k, h)
    BY <1>3, AdapterAsks DEF RemovalKnown
  <2> QED
    BY <1>3, <2>1, AdapterKnows
<1> QED
  BY <1>0, <1>1, <1>2, <1>3 DEF RemovalKnown

\* An answer that a fence is removed is of a call for it.
LEMMA EngineAnswersRemoval ==
  ASSUME GfTyped, NEW c \in GfCalls, NEW m \in GfMsgs, EngineDid(c, m),
         NEW h \in HwId, m \in Removal(h)
  PROVE  /\ EngineChanges(c, m, h) /\ c.op = "remove" /\ c \in Asked /\ c.hwId = h
         /\ m.fence = c.then.fence /\ h \in DOMAIN engineFences /\ h \notin DOMAIN engineFences'
<1>1. m \in Replies /\ m.ok /\ m.what = "answer" /\ m.op = "remove" /\ m.hwId = h
  BY RemovalFacts
<1>2. ~LetsPass(c, m)
  BY <1>1, AboutFacts, ItemIs DEF LetsPass
<1>3. PICK g \in HwId : EngineAdds(c, m, g) \/ EngineChanges(c, m, g)
  BY <1>2 DEF EngineDid
<1>4. c.then.what = "answer" /\ c.then.op = "remove" /\ m.fence = c.then.fence /\ g = h
  BY <1>1, <1>3 DEF EngineAdds, EngineChanges, AnswerTo
<1>5. c \in Asked
  BY <1>4, GfCallIs
<1>6. c.op = "remove"
  BY <1>4, <1>5, GfCallIs
<1>7. EngineChanges(c, m, h)
  BY <1>3, <1>4, <1>6 DEF EngineAdds
<1>8. c.hwId = h /\ h \in DOMAIN engineFences /\ engineFences' = Without(engineFences, h)
  BY <1>6, <1>7 DEF EngineChanges
<1> QED
  BY <1>4, <1>5, <1>6, <1>7, <1>8 DEF Without, Restrict

LEMMA EngineRemoval ==
  ASSUME GfTyped, IdsLead, RemovalKnown, NEW owner \in [HwId -> GfKey], OwnerIs(owner),
         NEW c \in GfCalls, NEW m \in GfMsgs, EngineDid(c, m)
  PROVE  RemovalKnown'
<1>0. gfMsgs \in Seq(GfMsgs) /\ gfMsgs' = Append(gfMsgs, m) /\ mGeofenceIds' = mGeofenceIds
      /\ gfClients' = gfClients
  BY DEF EngineDid, LetsPass, EngineAdds, EngineChanges, Handled, gfMaps, GfTyped
<1>1. m \notin GfUpMsg
  <2>1. m \in Items \/ m \in Replies
    BY DEF EngineDid, LetsPass, EngineAdds, EngineChanges, AnswerTo
  <2> QED
    BY <2>1, ItemIs, ReplyIs DEF GfUpMsg
<1>2. ASSUME NEW h \in HwId, ~NoneOf(gfMsgs, About(h))
      PROVE  ~EngineAdds(c, m, h)
  BY <1>2, AddedFound
<1>3. ASSUME NEW h \in HwId, ~NoneOf(gfMsgs', Removal(h))
      PROVE  h \notin DOMAIN engineFences' /\ Cardinality(Places(gfMsgs', Removal(h))) = 1
  <2>1. PICK R : R = Removal(h)
    OBVIOUS
  <2>2. Cardinality(Places(Append(gfMsgs, m), R)) = Cardinality(Places(gfMsgs, R)) + (IF m \in R THEN 1 ELSE 0)
    BY <1>0, PlacesPosted
  <2>3. NoneOf(gfMsgs', R) <=> NoneOf(gfMsgs, R) /\ m \notin R
    BY <1>0, MorePosted
  <2>4. ~NoneOf(gfMsgs, R) => h \notin DOMAIN engineFences /\ Cardinality(Places(gfMsgs, R)) = 1
    BY <2>1 DEF RemovalKnown
  <2>5. CASE m \in R
    <3>1. h \in DOMAIN engineFences /\ h \notin DOMAIN engineFences'
      BY <2>1, <2>5, EngineAnswersRemoval
    <3>2. NoneOf(gfMsgs, R)
      BY <2>4, <3>1
    <3>3. Cardinality(Places(gfMsgs, R)) = 0
      BY <1>0, <3>2, PlacesNone
    <3> QED
      BY <1>0, <2>1, <2>2, <2>5, <3>1, <3>3
  <2>6. CASE m \notin R
    <3>1. ~NoneOf(gfMsgs, R)
      BY <1>3, <2>1, <2>3, <2>6
    <3>2. h \notin DOMAIN engineFences /\ Cardinality(Places(gfMsgs, R)) = 1
      BY <2>4, <3>1
    <3>3. ~NoneOf(gfMsgs, About(h))
      BY <2>1, <3>1, RemovalFacts DEF NoneOf, About
    <3>4. h \notin DOMAIN engineFences'
      BY <1>2, <3>2, <3>3, EngineOthers, EngineRemoves
    <3> QED
      BY <1>0, <2>1, <2>2, <2>6, <3>2, <3>4
  <2> QED
    BY <2>5, <2>6
<1>4. ASSUME NEW k \in GfKey, NEW h \in HwId, k.client \in gfClients, ~NoneOf(gfMsgs', RemovalOf(k, h))
      PROVE  KnownAs(k, h) /\ Before(gfMsgs', RemovalOf(k, h), GfUpMsg)
  <2>1. PICK R : R = RemovalOf(k, h)
    OBVIOUS
  <2>2. NoneOf(gfMsgs', R) <=> NoneOf(gfMsgs, R) /\ m \notin R
    BY <1>0, MorePosted
  <2>3. ~NoneOf(gfMsgs, R) => KnownAs(k, h) /\ Before(gfMsgs, R, GfUpMsg)
    BY <1>4, <2>1 DEF RemovalKnown
  <2>4. Before(gfMsgs, R, GfUpMsg)
    BY <2>3 DEF NoneOf, Before
  <2>5. CASE m \in R
    <3>1. m \in Removal(h) /\ m.fence.key = k
      BY <2>1, <2>5 DEF RemovalOf
    <3>2. c \in RemoveCalls(k, h) /\ h \in DOMAIN engineFences
      BY <3>1, EngineAnswersRemoval DEF RemoveCalls
    <3>3. ~NoneOf(gfCalls, RemoveCalls(k, h))
      <4>1. PICK C : C = RemoveCalls(k, h)
        OBVIOUS
      <4> QED
        BY <3>2, <4>1, FewerCalls
    <3>4. KnownAs(k, h)
      BY <1>4, <3>2, <3>3 DEF RemovalKnown
    <3>5. NoneOf(gfMsgs, GfUpMsg)
      BY <3>2, <3>4, KnownFacts DEF IdsLead
    <3>6. Before(Append(gfMsgs, m), R, GfUpMsg)
      BY <1>0, <1>1, <2>4, <3>5, BeforePost
    <3> QED
      BY <1>0, <2>1, <3>4, <3>6
  <2>6. CASE m \notin R
    <3>1. Before(Append(gfMsgs, m), R, GfUpMsg)
      BY <1>0, <2>4, <2>6, BeforePost
    <3> QED
      BY <1>0, <1>4, <2>1, <2>2, <2>3, <2>6, <3>1
  <2> QED
    BY <2>5, <2>6
<1>5. ASSUME NEW k \in GfKey, NEW h \in HwId, k.client \in gfClients,
             ~NoneOf(gfCalls', RemoveCalls(k, h)), h \in DOMAIN engineFences'
      PROVE  KnownAs(k, h)
  <2>1. PICK C : C = RemoveCalls(k, h)
    OBVIOUS
  <2>2. ~NoneOf(gfCalls, C)
    BY <1>5, <2>1, FewerCalls
  <2>3. ~EngineAdds(c, m, h)
    <3>1. ~NoneOf(gfCalls', CallsAbout(h))
      BY <1>5 DEF NoneOf, RemoveCalls, CallsAbout, GfCalls
    <3> QED
      BY <3>1, AddedFound
  <2>4. h \in DOMAIN engineFences
    BY <1>5, <2>3, EngineOthers, EngineRemoves
  <2> QED
    BY <1>5, <2>1, <2>2, <2>4 DEF RemovalKnown
<1>6. \A k, h : KnownAs(k, h)' <=> KnownAs(k, h)
  BY <1>0 DEF KnownAs
<1> QED
  BY <1>0, <1>3, <1>4, <1>5, <1>6 DEF RemovalKnown

\* So what a client removes is still known when the adapter hears of it.
LEMMA GfRemovalKept ==
  ASSUME GfTyped, Single, FoundThere, IdsLead, RemovalKnown,
         NEW owner \in [HwId -> GfKey], OwnerIs(owner), GeofenceNext
  PROVE  RemovalKnown'
<1>0. gfMsgs \in Seq(GfMsgs)
  BY DEF GfTyped
<1>1. ASSUME NEW m \in GfMsgs, gfMsgs' = Append(gfMsgs, m), m \notin Replies,
             UNCHANGED <<mGeofenceIds, gfCalls>>, gfClients' \subseteq gfClients,
             DOMAIN engineFences' \subseteq DOMAIN engineFences
      PROVE  RemovalKnown'
  <2>1. ASSUME NEW h \in HwId, ~NoneOf(gfMsgs', Removal(h))
        PROVE  h \notin DOMAIN engineFences' /\ Cardinality(Places(gfMsgs', Removal(h))) = 1
    <3>1. PICK R : R = Removal(h)
      OBVIOUS
    <3>2. m \notin R
      BY <1>1, <3>1, RemovalFacts
    <3>3. ~NoneOf(gfMsgs, R)
      BY <1>1, <2>1, <3>1, <3>2, MorePosted
    <3>4. Cardinality(Places(Append(gfMsgs, m), R)) = Cardinality(Places(gfMsgs, R)) + (IF m \in R THEN 1 ELSE 0)
      BY <1>0, PlacesPosted
    <3>5. h \notin DOMAIN engineFences /\ Cardinality(Places(gfMsgs, R)) = 1
      BY <3>1, <3>3 DEF RemovalKnown
    <3> QED
      BY <1>1, <3>1, <3>2, <3>4, <3>5
  <2>2. ASSUME NEW k \in GfKey, NEW h \in HwId, k.client \in gfClients, ~NoneOf(gfMsgs', RemovalOf(k, h))
        PROVE  KnownAs(k, h) /\ Before(gfMsgs', RemovalOf(k, h), GfUpMsg)
    <3>1. PICK R : R = RemovalOf(k, h)
      OBVIOUS
    <3>2. m \notin R
      BY <1>1, <3>1, RemovalFacts DEF RemovalOf
    <3>3. ~NoneOf(gfMsgs, R)
      BY <1>1, <2>2, <3>1, <3>2, MorePosted
    <3>4. KnownAs(k, h) /\ Before(gfMsgs, R, GfUpMsg)
      BY <2>2, <3>1, <3>3 DEF RemovalKnown
    <3>5. Before(Append(gfMsgs, m), R, GfUpMsg)
      BY <1>0, <3>2, <3>4, BeforePost
    <3> QED
      BY <1>1, <3>1, <3>4, <3>5
  <2>3. \A k, h : KnownAs(k, h)' <=> KnownAs(k, h)
    BY <1>1 DEF KnownAs
  <2>4. ASSUME NEW k \in GfKey, NEW h \in HwId, k.client \in gfClients,
               ~NoneOf(gfCalls', RemoveCalls(k, h)), h \in DOMAIN engineFences'
        PROVE  KnownAs(k, h)
    BY <1>1, <2>4 DEF RemovalKnown
  <2> QED
    BY <1>1, <2>1, <2>2, <2>3, <2>4 DEF RemovalKnown
<1>2. ASSUME NEW m \in GfMsgs, ClientPosts(m) PROVE RemovalKnown'
  <2>1. m \notin Replies
    BY <1>2, ReplyIs DEF ClientPosts, GfCommands, Goodbyes
  <2>2. gfClients' \subseteq gfClients
    BY <1>2 DEF ClientPosts
  <2> QED
    BY <1>1, <1>2, <2>1, <2>2 DEF ClientPosts, Posts, gfMaps
<1>3. CASE EngineCrashes
  <2>1. UNCHANGED <<gfMsgs, gfCalls, gfClients, mGeofenceIds>> /\ DOMAIN engineFences' = {}
    BY <1>3 DEF EngineCrashes, gfMaps
  <2> QED
    BY <2>1 DEF RemovalKnown, KnownAs
<1>4. CASE EngineComesUp
  <2>1. PICK m \in GfUpMsg : m \in GfMsgs /\ gfMsgs' = Append(gfMsgs, m)
    BY <1>4, ComesUpTypes
  <2>2. m \notin Replies
    BY <2>1, ReplyIs DEF GfUpMsg
  <2> QED
    BY <1>1, <1>4, <2>1, <2>2 DEF EngineComesUp, gfMaps
<1> QED
  BY <1>2, <1>3, <1>4, AdapterRemoval, EngineRemoval, GeofenceSteps

-----------------------------------------------------------------------------
(* what the adapter has of a fence, or will have, is what the engine has *)

\* What the queue sets when the first message is taken or another is posted
LEMMA OutcomeTaken ==
  ASSUME GfTyped, NEW m, Took(m), NEW T, NEW P, NEW now, NEW then,
         then => IF m \in T THEN m \in P ELSE now,
         Outcome(gfMsgs', T, P, then)
  PROVE  Outcome(gfMsgs, T, P, now)
<1>1. /\ NoneOf(gfMsgs, T) <=> m \notin T /\ NoneOf(gfMsgs', T)
      /\ LastIs(gfMsgs, T, P) <=> LastIs(gfMsgs', T, P) \/ (NoneOf(gfMsgs', T) /\ m \in T /\ m \in P)
  BY OutcomeTake DEF Took, GfTyped
<1> QED
  BY <1>1, Zenon DEF Outcome

LEMMA OutcomePosted ==
  ASSUME GfTyped, NEW m \in GfMsgs, gfMsgs' = Append(gfMsgs, m), NEW T, NEW P, NEW now,
         Outcome(gfMsgs', T, P, now)
  PROVE  IF m \in T THEN m \in P ELSE Outcome(gfMsgs, T, P, now)
<1>1. /\ NoneOf(gfMsgs', T) <=> NoneOf(gfMsgs, T) /\ m \notin T
      /\ LastIs(gfMsgs', T, P) <=> (m \in T /\ m \in P) \/ (m \notin T /\ LastIs(gfMsgs, T, P))
  BY OutcomePost DEF GfTyped
<1> QED
  BY <1>1, Zenon DEF Outcome

\* A fence agrees with the engine after a message if the message did to it what
\* it announced,
LEMMA TookAgrees ==
  ASSUME GfTyped, NEW m \in GfMsgs, Took(m), NEW h, Agrees(h),
         mGeofences'[h].paused
           => IF m \in Set({"pause", "resume"}, h) THEN m \in Set({"pause"}, h)
              ELSE mGeofences[h].paused,
         \A o \in GfOption : mGeofences'[h].options = o
           => IF m \in Set({"modify"}, h) THEN m \in Optioned(o) ELSE mGeofences[h].options = o
  PROVE  Agrees(h)'
<1>1. engineFences' = engineFences
  BY DEF Took
<1>2. PICK T : T = Set({"pause", "resume"}, h)
  OBVIOUS
<1>3. PICK P : P = Set({"pause"}, h)
  OBVIOUS
<1>4. PICK M : M = Set({"modify"}, h)
  OBVIOUS
<1>5. ASSUME Outcome(gfMsgs', T, P, mGeofences'[h].paused)
      PROVE  Outcome(gfMsgs, T, P, mGeofences[h].paused)
  BY <1>2, <1>3, <1>5, OutcomeTaken, Zenon
<1>6. ASSUME NEW o \in GfOption, NEW O, O = Optioned(o),
             Outcome(gfMsgs', M, O, mGeofences'[h].options = o)
      PROVE  Outcome(gfMsgs, M, O, mGeofences[h].options = o)
  BY <1>4, <1>6, OutcomeTaken, Zenon
<1> QED
  BY <1>1, <1>2, <1>3, <1>4, <1>5, <1>6, Zenon DEF Agrees, Set, Optioned

\* and after the engine's work if the engine did what the answer says.
LEMMA PostAgrees ==
  ASSUME GfTyped, NEW m \in GfMsgs, gfMsgs' = Append(gfMsgs, m), UNCHANGED mGeofences,
         NEW h, Agrees(h), h \in DOMAIN engineFences' => h \in DOMAIN engineFences,
         (IF m \in Set({"pause", "resume"}, h) THEN m \in Set({"pause"}, h)
          ELSE engineFences[h].paused) => engineFences'[h].paused,
         \A o \in GfOption :
           (IF m \in Set({"modify"}, h) THEN m \in Optioned(o) ELSE engineFences[h].options = o)
             => engineFences'[h].options = o
  PROVE  Agrees(h)'
<1>2. PICK T : T = Set({"pause", "resume"}, h)
  OBVIOUS
<1>3. PICK P : P = Set({"pause"}, h)
  OBVIOUS
<1>4. PICK M : M = Set({"modify"}, h)
  OBVIOUS
<1>5. ASSUME Outcome(gfMsgs', T, P, mGeofences[h].paused)
      PROVE  IF m \in T THEN m \in P ELSE Outcome(gfMsgs, T, P, mGeofences[h].paused)
  BY <1>5, OutcomePosted, Zenon
<1>6. ASSUME NEW o \in GfOption, NEW O, O = Optioned(o),
             Outcome(gfMsgs', M, O, mGeofences[h].options = o)
      PROVE  IF m \in M THEN m \in O ELSE Outcome(gfMsgs, M, O, mGeofences[h].options = o)
  BY <1>6, OutcomePosted, Zenon
<1> QED
  BY <1>2, <1>3, <1>4, <1>5, <1>6, Zenon DEF Agrees, Set, Optioned

\* A message that is not the answer to a change of h leaves what is said of h.
LEMMA TookOthers ==
  ASSUME GfTyped, FencesAgree, NEW m \in GfMsgs, Took(m), NEW h \in DOMAIN mGeofences,
         mGeofences'[h] = mGeofences[h], m \notin Set({"pause", "resume", "modify"}, h)
  PROVE  Agrees(h)'
<1>1. m \notin Set({"pause", "resume"}, h) /\ m \notin Set({"modify"}, h)
  BY DEF Set
<1>2. Agrees(h)
  BY DEF FencesAgree
<1> QED
  BY <1>1, <1>2, TookAgrees

LEMMA AdapterAgrees ==
  ASSUME GfTyped, FoundThere, FencesAgree,
         NEW m \in GfMsgs, NEW r \in Seq(GfCalls), AdapterDoes(m, r)
  PROVE  FencesAgree'
<1>0. DOMAIN mGeofences \subseteq HwId /\ \A h : h \in HwId => h \in AnyHwId
  BY HwIdFacts DEF GfTyped, FencesIn
<1>1. ASSUME Took(m),
             \A h \in DOMAIN mGeofences' :
                /\ h \in DOMAIN mGeofences /\ mGeofences'[h] = mGeofences[h]
                /\ m \notin Set({"pause", "resume", "modify"}, h)
      PROVE  FencesAgree'
  BY <1>1, TookOthers DEF FencesAgree
<1>2. CASE PassesOn(m, r)
  <2>1. \A h : m \notin Set({"pause", "resume", "modify"}, h)
    BY <1>2 DEF PassesOn, Replied, Set
  <2> QED
    BY <1>1, <1>2, <2>1 DEF PassesOn, gfMaps
<1>3. CASE Farewell(m, r)
  <2>1. m \notin Replies
    BY <1>3, ReplyIs DEF Farewell, Goodbyes
  <2> QED
    BY <1>1, <1>3, <2>1 DEF Farewell, Set
<1>4. CASE StartsOver(m, r)
  BY <1>4, StartsOverTypes DEF FencesAgree
<1>5. ASSUME NEW g \in HwId, Saves(m, r, g) PROVE FencesAgree'
  <2>1. Took(m) /\ m \in Found(g) /\ SavedMaps(m, g)
    BY <1>5, SavesTypes DEF Saves
  <2>2. \A h : m \notin Set({"pause", "resume", "modify"}, h)
    BY <2>1 DEF Found, Set
  <2>3. ASSUME NEW h \in DOMAIN mGeofences', h # g PROVE Agrees(h)'
    BY <2>1, <2>2, <2>3, TookOthers DEF SavedMaps
  <2>4. Agrees(g)'
    <3>1. NoneOf(gfMsgs', About(g)) /\ (g \in DOMAIN engineFences => m.fence.options = engineFences[g].options)
      BY <2>1, SavedThere
    <3>2. engineFences' = engineFences /\ ~mGeofences'[g].paused /\ mGeofences'[g].options = m.fence.options
      BY <2>1 DEF Took, SavedMaps
    <3>3. ASSUME NEW T, NEW P, NEW now, T \subseteq About(g), Outcome(gfMsgs', T, P, now)
          PROVE  now
      BY <3>1, <3>3, Zenon DEF Outcome, NoneOf, LastIs
    <3>4. \A ops : Set(ops, g) \subseteq About(g)
      BY DEF Set, About
    <3>5. PICK T : T = Set({"pause", "resume"}, g)'
      OBVIOUS
    <3>6. PICK P : P = Set({"pause"}, g)'
      OBVIOUS
    <3>7. PICK M : M = Set({"modify"}, g)'
      OBVIOUS
    <3>8. T \subseteq About(g) /\ M \subseteq About(g)
      BY <3>4, <3>5, <3>7 DEF Set
    <3>9. ASSUME Outcome(gfMsgs', T, P, mGeofences'[g].paused) PROVE mGeofences'[g].paused
      BY <3>1, <3>8, <3>9, Zenon DEF Outcome, NoneOf, LastIs
    <3>10. ASSUME NEW o \in GfOption, NEW O, Outcome(gfMsgs', M, O, mGeofences'[g].options = o)
           PROVE  mGeofences'[g].options = o
      BY <3>3, <3>8, <3>10, Zenon
    <3> QED
      BY <3>1, <3>2, <3>5, <3>6, <3>7, <3>9, <3>10, Zenon DEF Agrees
  <2> QED
    BY <2>3, <2>4 DEF FencesAgree
<1>6. ASSUME NEW g \in HwId, Removes(m, g) PROVE FencesAgree'
  <2>1. Took(m) /\ m \in Removal(g)
    BY <1>6 DEF Removes
  <2>2. \A h : m \notin Set({"pause", "resume", "modify"}, h)
    BY <2>1 DEF Removal, Set
  <2> QED
    BY <1>1, <1>6, <2>1, <2>2, RemovesTypes DEF gfMaps
<1>7. ASSUME NEW g \in HwId, Forgets(m, g) PROVE FencesAgree'
  <2>1. Took(m) /\ m \in Cleared(g)
    BY <1>7 DEF Forgets
  <2>2. \A h : m \notin Set({"pause", "resume", "modify"}, h)
    BY <2>1 DEF Cleared, Set
  <2> QED
    BY <1>1, <1>7, <2>1, <2>2, ForgetsTypes
<1>8. ASSUME NEW g \in HwId, Changes(m, g) PROVE FencesAgree'
  <2>1. Took(m) /\ m \in Set({"pause", "resume", "modify"}, g)
    BY <1>8 DEF Changes
  <2>2. /\ DOMAIN mGeofences' = DOMAIN mGeofences
        /\ \A x \in DOMAIN mGeofences : x # g => mGeofences'[x] = mGeofences[x]
        /\ g \in DOMAIN mGeofences => mGeofences'[g] = NewItem(m, mGeofences[g])
    BY <1>8, ChangesTypes
  <2>3. ASSUME NEW h \in DOMAIN mGeofences, h # g PROVE Agrees(h)'
    <3>1. m \notin Set({"pause", "resume", "modify"}, h)
      BY <2>1, <2>3 DEF Set
    <3> QED
      BY <2>1, <2>2, <2>3, <3>1, TookOthers
  <2>4. ASSUME g \in DOMAIN mGeofences PROVE Agrees(g)'
    <3>1. PICK f : f = NewItem(m, mGeofences[g])
      OBVIOUS
    <3>2. /\ m.op = "modify" => f.options = m.fence.options /\ f.paused = mGeofences[g].paused
          /\ m.op \in {"pause", "resume"} => f.options = mGeofences[g].options
                                             /\ f.paused = (m.op = "pause")
      BY <2>1, <2>4, <3>1, ChangedItem
    <3>3. mGeofences'[g] = f /\ Agrees(g)
      BY <2>2, <2>4, <3>1 DEF FencesAgree
    <3>4. /\ m.op = "modify" => m \in Set({"modify"}, g) /\ m \notin Set({"pause", "resume"}, g)
          /\ m.op \in {"pause", "resume"} => m \notin Set({"modify"}, g) /\ m \in Set({"pause", "resume"}, g)
          /\ m.op = "pause" => m \in Set({"pause"}, g)
          /\ m.op \in {"pause", "resume", "modify"} /\ m \in Replies
      BY <2>1 DEF Set
    <3>5. f.paused => IF m \in Set({"pause", "resume"}, g) THEN m \in Set({"pause"}, g)
                      ELSE mGeofences[g].paused
      BY <3>2, <3>4, Zenon
    <3>6. \A o \in GfOption : f.options = o
            => IF m \in Set({"modify"}, g) THEN m \in Optioned(o) ELSE mGeofences[g].options = o
      <4>1. \A o : m.fence.options = o => m \in Optioned(o)
        BY <3>4 DEF Optioned
      <4> QED
        BY <3>2, <3>4, <4>1, Zenon
    <3>7. /\ mGeofences'[g].paused => IF m \in Set({"pause", "resume"}, g) THEN m \in Set({"pause"}, g)
                      ELSE mGeofences[g].paused
          /\ \A o \in GfOption : mGeofences'[g].options = o
            => IF m \in Set({"modify"}, g) THEN m \in Optioned(o) ELSE mGeofences[g].options = o
      BY <3>3, <3>5, <3>6, Zenon
    <3> QED
      BY <2>1, <3>3, <3>7, TookAgrees
  <2> QED
    BY <2>2, <2>3, <2>4 DEF FencesAgree
<1> QED
  BY <1>2, <1>3, <1>4, <1>5, <1>6, <1>7, <1>8 DEF AdapterDoes

\* The engine sets what its answer says; a fence that is paused again is paused
\* without the adapter knowing.
LEMMA EngineAgrees ==
  ASSUME GfTyped, FencesAgree, NEW owner \in [HwId -> GfKey], OwnerIs(owner),
         NEW c \in GfCalls, NEW m \in GfMsgs, EngineDid(c, m)
  PROVE  FencesAgree'
<1>0. gfMsgs' = Append(gfMsgs, m) /\ mGeofences' = mGeofences
  BY DEF EngineDid, LetsPass, EngineAdds, EngineChanges, Handled, gfMaps
<1>1. SUFFICES ASSUME NEW h \in DOMAIN mGeofences PROVE Agrees(h)'
  BY <1>0 DEF FencesAgree
<1>2. h \in HwId /\ h <= hwIds /\ hwIds \in Nat /\ h \in Nat /\ Agrees(h)
  BY HwIdFacts DEF GfTyped, FencesIn, OwnerIs, OwnerInMaps, FencesAgree
<1>3. ~EngineAdds(c, m, h)
  BY <1>2 DEF EngineAdds
<1>4. CASE EngineChanges(c, m, h)
  <2>1. m \in Replies /\ m.ok /\ m.hwId = h /\ m.fence = c.then.fence /\ m.what = c.then.what
        /\ m.op = c.then.op /\ h \in DOMAIN engineFences
    BY <1>4 DEF EngineChanges, AnswerTo
  <2>2. CASE c.op = "remove"
    <3>1. h \notin DOMAIN engineFences'
      BY <1>4, <2>2 DEF EngineChanges, Without, Restrict
    <3> QED
      BY <3>1 DEF Agrees
  <2>3. CASE c.op # "remove"
    <3>1. PICK g \in GfFence :
           /\ engineFences' = [engineFences EXCEPT ![h] = g]
           /\ c.op = "modify" => g.options = c.then.fence.options /\ g.paused = engineFences[h].paused
           /\ c.op \in {"pause", "resume"} => g.options = engineFences[h].options
                                              /\ g.paused = (c.op = "pause")
      BY <1>2, <1>4, <2>3, EngineFenceChanged
    <3>2. engineFences'[h] = g
      BY <2>1, <3>1
    <3>3. c.op = "pause" \/ c.op = "resume" \/ (c.op = "modify" /\ c \in Asked)
      BY <1>4, <2>3 DEF EngineChanges
    <3>4. /\ c \in Asked => m.what = "answer" /\ m.op = c.op
          /\ c \notin Asked => m.what # "answer" /\ c.op = "pause"
      <4>1. c \in Asked => m.what = "answer" /\ m.op = c.op
        BY <2>1, GfCallIs
      <4>2. ASSUME c \notin Asked PROVE m.what # "answer"
        BY <2>1, <4>2, GfCallIs
      <4>3. ASSUME c \notin Asked PROVE c.op = "pause"
        BY <3>3, <4>3 DEF GfCalls, Restoring, Pausing, Clearing
      <4> QED
        BY <4>1, <4>2, <4>3
    <3>5. /\ c \notin Asked => m \notin Set({"pause", "resume"}, h) /\ m \notin Set({"modify"}, h)
          /\ c \in Asked /\ c.op = "modify" =>
               m \in Set({"modify"}, h) /\ m \notin Set({"pause", "resume"}, h)
          /\ c \in Asked /\ c.op = "pause" =>
               m \notin Set({"modify"}, h) /\ m \in Set({"pause", "resume"}, h) /\ m \in Set({"pause"}, h)
          /\ c \in Asked /\ c.op = "resume" =>
               m \notin Set({"modify"}, h) /\ m \in Set({"pause", "resume"}, h) /\ m \notin Set({"pause"}, h)
      BY <2>1, <3>4 DEF Set
    <3>6. (IF m \in Set({"pause", "resume"}, h) THEN m \in Set({"pause"}, h)
           ELSE engineFences[h].paused) => g.paused
      BY <3>1, <3>3, <3>4, <3>5, Zenon
    <3>7. \A o \in GfOption :
            (IF m \in Set({"modify"}, h) THEN m \in Optioned(o) ELSE engineFences[h].options = o)
              => g.options = o
      <4>1. \A o : m \in Optioned(o) => c.then.fence.options = o
        BY <2>1 DEF Optioned
      <4> QED
        BY <3>1, <3>3, <3>4, <3>5, <4>1, Zenon
    <3>8. /\ (IF m \in Set({"pause", "resume"}, h) THEN m \in Set({"pause"}, h)
           ELSE engineFences[h].paused) => engineFences'[h].paused
          /\ \A o \in GfOption :
            (IF m \in Set({"modify"}, h) THEN m \in Optioned(o) ELSE engineFences[h].options = o)
              => engineFences'[h].options = o
      BY <3>2, <3>6, <3>7, Zenon
    <3> QED
      BY <1>0, <1>2, <2>1, <3>8, PostAgrees
  <2> QED
    BY <2>2, <2>3
<1>5. CASE ~EngineChanges(c, m, h)
  <2>1. /\ h \in DOMAIN engineFences' <=> h \in DOMAIN engineFences
        /\ h \in DOMAIN engineFences => engineFences'[h] = engineFences[h]
    BY <1>2, <1>3, <1>5, EngineOthers
  <2>2. \A ops : m \notin Set(ops, h)
    <3>1. SUFFICES ASSUME m \in Replies, m.ok, m.hwId = h PROVE FALSE
      BY DEF Set
    <3>2. ~LetsPass(c, m)
      BY <3>1, AboutFacts, ItemIs, <1>2 DEF LetsPass
    <3>3. PICK g \in HwId : EngineAdds(c, m, g) \/ EngineChanges(c, m, g)
      BY <3>2 DEF EngineDid
    <3>4. g = h
      BY <3>1, <3>3 DEF EngineAdds, EngineChanges, AnswerTo
    <3> QED
      BY <1>3, <1>5, <3>3, <3>4
  <2>3. CASE h \in DOMAIN engineFences
    <3>1. engineFences'[h] = engineFences[h]
      BY <2>1, <2>3
    <3>2. m \notin Set({"pause", "resume"}, h) /\ m \notin Set({"modify"}, h)
      BY <2>2
    <3>3. /\ (IF m \in Set({"pause", "resume"}, h) THEN m \in Set({"pause"}, h)
           ELSE engineFences[h].paused) => engineFences'[h].paused
          /\ \A o \in GfOption :
            (IF m \in Set({"modify"}, h) THEN m \in Optioned(o) ELSE engineFences[h].options = o)
              => engineFences'[h].options = o
      BY <3>1, <3>2, Zenon
    <3> QED
      BY <1>0, <1>2, <2>1, <3>3, PostAgrees
  <2> QED
    BY <2>1, <2>3 DEF Agrees
<1> QED
  BY <1>4, <1>5

\* What the adapter has or will have of a fence is what the engine watches.
LEMMA GfAgreeKept ==
  ASSUME GfTyped, FoundThere, FencesAgree, NEW owner \in [HwId -> GfKey], OwnerIs(owner), GeofenceNext
  PROVE  FencesAgree'
<1>1. ASSUME NEW m \in GfMsgs, gfMsgs' = Append(gfMsgs, m), m \notin Replies,
             UNCHANGED <<mGeofences, engineFences>>
      PROVE  FencesAgree'
  <2>1. ASSUME NEW h \in DOMAIN mGeofences PROVE Agrees(h)'
    <3>1. m \notin Set({"pause", "resume"}, h) /\ m \notin Set({"modify"}, h)
      BY <1>1 DEF Set
    <3>2. /\ (IF m \in Set({"pause", "resume"}, h) THEN m \in Set({"pause"}, h)
           ELSE engineFences[h].paused) => engineFences'[h].paused
          /\ \A o \in GfOption :
            (IF m \in Set({"modify"}, h) THEN m \in Optioned(o) ELSE engineFences[h].options = o)
              => engineFences'[h].options = o
      BY <1>1, <3>1, Zenon
    <3>3. Agrees(h)
      BY DEF FencesAgree
    <3> QED
      BY <1>1, <3>2, <3>3, PostAgrees
  <2> QED
    BY <1>1, <2>1 DEF FencesAgree
<1>2. ASSUME NEW m \in GfMsgs, ClientPosts(m) PROVE FencesAgree'
  <2>1. m \notin Replies
    BY <1>2, ReplyIs DEF ClientPosts, GfCommands, Goodbyes
  <2> QED
    BY <1>1, <1>2, <2>1 DEF ClientPosts, Posts, gfMaps
<1>3. CASE EngineCrashes
  BY <1>3 DEF EngineCrashes, FencesAgree, Agrees, gfMaps
<1>4. CASE EngineComesUp
  <2>1. PICK m \in GfUpMsg : m \in GfMsgs /\ gfMsgs' = Append(gfMsgs, m)
    BY <1>4, ComesUpTypes
  <2>2. m \notin Replies
    BY <2>1, ReplyIs DEF GfUpMsg
  <2> QED
    BY <1>1, <1>4, <2>1, <2>2 DEF EngineComesUp, gfMaps
<1> QED
  BY <1>2, <1>3, <1>4, AdapterAgrees, EngineAgrees, GeofenceSteps

-----------------------------------------------------------------------------
(* the theorems *)

\* The types are kept by every step.
LEMMA GfTypedKept ==
  ASSUME GfTyped, GeofenceNext
  PROVE  GfTyped'
BY AdapterTypes, EngineDidTypes, ClientTypes, CrashTypes, ComesUpTypes, GeofenceSteps

\* A step in which nothing happens changes nothing of this.
LEMMA GfStays ==
  ASSUME UNCHANGED gfVars
  PROVE  /\ GfTyped => GfTyped'
         /\ \A owner : OwnerIs(owner) => OwnerIs(owner)'
         /\ Single => Single'
         /\ FoundThere => FoundThere'
         /\ IdsLead => IdsLead'
         /\ ClearedUnknown => ClearedUnknown'
         /\ RemovalKnown => RemovalKnown'
         /\ FencesAgree => FencesAgree'
<1>1. UNCHANGED <<mGeofences, mGeofenceIds, gfIds, gfClients, gfMsgs, gfCalls, engineFences,
                  hwIds, engineUp, gfRemoved>>
  BY DEF gfVars, gfMaps, gfEngine
<1>2. GfTyped => GfTyped'
  BY <1>1 DEF GfTyped, FencesIn
<1>3. \A owner : OwnerIs(owner) => OwnerIs(owner)'
  BY <1>1 DEF OwnerIs, OwnerInMaps, OwnerInQueues
<1>4. Single => Single'
  BY <1>1 DEF Single, Times, InMsgs, InCalls, Saved, Gone
<1>5. FoundThere => FoundThere'
  BY <1>1 DEF FoundThere, FoundAt
<1>6. IdsLead => IdsLead'
  BY <1>1 DEF IdsLead
<1>7. ClearedUnknown => ClearedUnknown'
  BY <1>1 DEF ClearedUnknown
<1>8. RemovalKnown => RemovalKnown'
  BY <1>1 DEF RemovalKnown, KnownAs
<1>9. FencesAgree => FencesAgree'
  BY <1>1 DEF FencesAgree, Agrees
<1> QED
  BY <1>2, <1>3, <1>4, <1>5, <1>6, <1>7, <1>8, <1>9

\* The invariant holds when nothing has been asked for,
LEMMA GfInitInv ==
  GeofenceInit => GfInv
<1> SUFFICES ASSUME GeofenceInit PROVE GfInv
  OBVIOUS
<1>1. /\ mGeofences = <<>> /\ mGeofenceIds = <<>> /\ gfIds = 0 /\ gfClients = GfClient
      /\ gfMsgs = <<>> /\ gfCalls = <<>> /\ engineFences = <<>> /\ hwIds = 0 /\ engineUp = TRUE
      /\ gfRemoved = {}
  BY DEF GeofenceInit
<1>2. \A S : <<>> \in Seq(S)
  OBVIOUS
<1>3. DOMAIN <<>> = {} /\ \A S : <<>> \in [DOMAIN <<>> -> S]
  OBVIOUS
<1>4. GfTyped
  <2>1. 0 \in 0..MaxFences
    BY GeofenceAssumption
  <2>2. IsFiniteSet(DOMAIN mGeofenceIds)
    BY <1>1, <1>3, FS_EmptySet
  <2>3. FencesIn(<<>>)
    BY <1>3 DEF FencesIn
  <2> QED
    BY <1>1, <1>2, <1>3, <2>1, <2>2, <2>3 DEF GfTyped, AnyHwId
<1>5. \A T : NoneOf(gfMsgs, T) /\ NoneOf(gfCalls, T)
  BY <1>1, EmptyOutcome
<1>6. ASSUME GfKey # {} PROVE \E owner \in [HwId -> GfKey] : OwnerIs(owner)
  <2>1. PICK k \in GfKey : TRUE
    BY <1>6
  <2>2. PICK owner \in [HwId -> GfKey] : owner = [h \in HwId |-> k]
    BY <2>1
  <2>3. OwnerIs(owner)
    BY <1>1, <1>2, <1>3 DEF OwnerIs, OwnerInMaps, OwnerInQueues
  <2> QED
    BY <2>3
<1>7. Single
  <2>1. ASSUME NEW k \in GfKey PROVE Times(k) = 0
    <3>1. \A T : Places(gfMsgs, T) = {} /\ Places(gfCalls, T) = {}
      BY <1>1, <1>3 DEF Places
    <3>2. Saved(k) = {}
      BY <1>1, <1>3 DEF Saved
    <3> QED
      BY <3>1, <3>2, FS_EmptySet DEF Times, InMsgs, InCalls
  <2> QED
    BY <1>1, <1>2, <2>1 DEF Single
<1>8. FoundThere /\ IdsLead /\ ClearedUnknown /\ RemovalKnown /\ FencesAgree
  BY <1>1, <1>3, <1>5 DEF FoundThere, IdsLead, ClearedUnknown, RemovalKnown, FencesAgree
<1> QED
  BY <1>4, <1>6, <1>7, <1>8 DEF GfInv

\* is kept by every step,
LEMMA GfInvStep ==
  ASSUME GfInv, [GeofenceNext]_gfVars
  PROVE  GfInv'
<1>1. CASE UNCHANGED gfVars
  BY <1>1, GfStays DEF GfInv
<1>2. CASE GeofenceNext
  <2>1. GfTyped /\ GfTyped'
    BY <1>2, GfTypedKept DEF GfInv
  <2>2. CASE GfKey = {}
    BY <2>1, <2>2 DEF GfInv
  <2>3. CASE GfKey # {}
    <3>1. Single /\ FoundThere /\ IdsLead /\ ClearedUnknown /\ RemovalKnown /\ FencesAgree
      BY <2>3 DEF GfInv
    <3>2. PICK owner \in [HwId -> GfKey] : OwnerIs(owner)
      BY <2>3 DEF GfInv
    <3>3. \E o \in [HwId -> GfKey] : OwnerIs(o)'
      BY <1>2, <2>1, <3>2, GfOwnerKept
    <3>4. Single'
      BY <1>2, <2>1, <3>1, <3>2, GfSingleKept
    <3>5. FoundThere'
      BY <1>2, <2>1, <3>1, <3>2, GfFoundKept
    <3>6. IdsLead'
      BY <1>2, <2>1, <3>1, <3>2, GfLeadKept
    <3>7. ClearedUnknown'
      BY <1>2, <2>1, <3>1, <3>2, GfClearedKept
    <3>8. RemovalKnown'
      BY <1>2, <2>1, <3>1, <3>2, GfRemovalKept
    <3>9. FencesAgree'
      BY <1>2, <2>1, <3>1, <3>2, GfAgreeKept
    <3> QED
      BY <2>1, <2>3, <3>3, <3>4, <3>5, <3>6, <3>7, <3>8, <3>9 DEF GfInv
  <2> QED
    BY <2>2, <2>3
<1> QED
  BY <1>1, <1>2

\* and says what is to be proved.
LEMMA GfInvTypes ==
  ASSUME GfInv
  PROVE  GeofenceTypeOK
<1>1. GfTyped
  BY DEF GfInv
<1>2. ASSUME NEW f, FencesIn(f)
      PROVE  /\ DOMAIN f \subseteq HwId
             /\ \A h \in DOMAIN f : f[h].key \in GfKey /\ f[h].options \in GfOption /\ f[h].paused \in BOOLEAN
  BY <1>2 DEF FencesIn, GfFence, FencesWith
<1> QED
  BY <1>1, <1>2 DEF GfTyped, GeofenceTypeOK, GfKey

\* Without keys there is no fence.
LEMMA NoKeys ==
  ASSUME GfTyped, GfKey = {}
  PROVE  DOMAIN mGeofenceIds = {} /\ DOMAIN mGeofences = {} /\ gfRemoved = {}
<1>1. GfFence = {}
  BY DEF GfFence, FencesWith
<1> QED
  BY <1>1 DEF GfTyped, FencesIn

LEMMA GfInvRemoved ==
  ASSUME GfInv
  PROVE  RemovedStaysRemoved
<1>1. GfTyped
  BY DEF GfInv
<1>2. CASE GfKey = {}
  BY <1>1, <1>2, NoKeys DEF RemovedStaysRemoved
<1>3. CASE GfKey # {}
  <2>1. Single /\ IdsLead
    BY <1>3 DEF GfInv
  <2>2. PICK owner \in [HwId -> GfKey] : OwnerIs(owner)
    BY <1>3 DEF GfInv
  <2>3. ASSUME NEW k \in gfRemoved, k.client \in gfClients
        PROVE  k \notin DOMAIN mGeofenceIds /\ \A h \in DOMAIN mGeofences : mGeofences[h].key # k
    <3>1. k \in GfKey
      BY <1>1 DEF GfTyped
    <3>2. Times(k) = 0
      BY <2>1, <2>3, <3>1 DEF Single, Gone
    <3>3. Cardinality(Saved(k)) = 0 /\ IsFiniteSet(Saved(k))
      BY <1>1, <3>1, <3>2, TimesNat
    <3>4. Saved(k) = {}
      BY <3>3, FS_EmptySet
    <3>5. ASSUME k \in DOMAIN mGeofenceIds PROVE FALSE
      <4>1. mGeofenceIds[k] \in HwId /\ KnownAs(k, mGeofenceIds[k])
        BY <1>1, <3>5 DEF GfTyped, KnownAs
      <4> QED
        BY <1>1, <2>1, <2>2, <3>1, <3>4, <4>1, KnownFacts
    <3> QED
      BY <3>4, <3>5 DEF Saved
  <2> QED
    BY <2>3 DEF RemovedStaysRemoved
<1> QED
  BY <1>2, <1>3

LEMMA GfInvServed ==
  ASSUME GfInv
  PROVE  GeofencesServed
<1>1. GfTyped
  BY DEF GfInv
<1>2. CASE GfKey = {}
  BY <1>1, <1>2, NoKeys DEF GeofencesServed
<1>3. CASE GfKey # {}
  <2>1. IdsLead /\ FencesAgree
    BY <1>3 DEF GfInv
  <2>2. PICK owner \in [HwId -> GfKey] : OwnerIs(owner)
    BY <1>3 DEF GfInv
  <2>3. SUFFICES ASSUME gfMsgs = <<>>, engineUp, NEW k \in DOMAIN mGeofenceIds, NEW h, h = mGeofenceIds[k]
        PROVE  /\ h \in DOMAIN mGeofences /\ mGeofences[h].key = k
               /\ h \in DOMAIN engineFences /\ engineFences[h].key = k
               /\ engineFences[h].options = mGeofences[h].options
               /\ mGeofences[h].paused => engineFences[h].paused
    BY DEF GeofencesServed
  <2>4. \A T : NoneOf(gfMsgs, T)
    BY <2>3, EmptyOutcome
  <2>5. k \in GfKey /\ h \in HwId /\ KnownAs(k, h)
    BY <1>1, <2>3 DEF GfTyped, KnownAs
  <2>6. h \in DOMAIN mGeofences /\ mGeofences[h].key = k /\ owner[h] = k
    BY <1>1, <2>1, <2>2, <2>5, KnownFacts
  <2>7. h \in DOMAIN engineFences
    BY <2>1, <2>3, <2>4 DEF IdsLead
  <2>8. engineFences[h].key = k
    BY <2>2, <2>6, <2>7 DEF OwnerIs, OwnerInMaps
  <2>9. mGeofences[h] \in GfFence /\ mGeofences[h].options \in GfOption
    BY <1>1, <2>6 DEF GfTyped, FencesIn, GfFence, FencesWith
  <2>10. Agrees(h)
    BY <2>1, <2>6 DEF FencesAgree
  <2>12. mGeofences[h].paused => engineFences[h].paused
    BY <2>4, <2>7, <2>10, Zenon DEF Agrees, Outcome
  <2>13. engineFences[h].options = mGeofences[h].options
    BY <2>4, <2>7, <2>9, <2>10, Zenon DEF Agrees, Outcome
  <2> QED
    BY <2>6, <2>7, <2>8, <2>12, <2>13
<1> QED
  BY <1>2, <1>3

\* It holds in every state of every behaviour.
LEMMA GeofenceInvariant == GeofenceSpec => []GfInv
<1>1. GfInv /\ [GeofenceNext]_gfVars => GfInv'
  BY GfInvStep
<1> QED
  BY <1>1, GfInitInv, PTL DEF GeofenceSpec

\* Both maps and the engine hold fences of known clients under hwIds that were given
\* out (GeofenceAdapter.h, mGeofences and mGeofenceIds).
THEOREM GeofenceTypeCorrect == GeofenceSpec => []GeofenceTypeOK
BY GeofenceInvariant, GfInvTypes, PTL

\* A client that was told that its geofence is removed never hears of it again,
\* however removals race with restartGeofences and whatever calls fail
\* (GeofenceAdapter.cpp).
THEOREM RemovedStayUnknown == GeofenceSpec => []RemovedStaysRemoved
BY GeofenceInvariant, GfInvRemoved, PTL

\* Once everything under way has been handled, each fence a client knows is watched by
\* the engine with its options, and paused if the adapter takes it for paused; whatever
\* calls fail and however commands interleave with a crash and restartGeofences
\* (GeofenceAdapter.cpp).
THEOREM EngineWatches == GeofenceSpec => []GeofencesServed
BY GeofenceInvariant, GfInvServed, PTL
=============================================================================
