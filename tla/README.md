# Location stack of the msm8937 device tree: TLA+ models and proofs

The repository is an Android device tree. Its program is `gps/`, Qualcomm's
location HAL (70 000 lines of C++); the rest is configuration and a few small
services. These modules model the control of that HAL: which messages its
threads send each other, what each handler changes, and what can happen in
between.

## 1. Inventory

All paths are below `src/gps/` unless they start with another directory.

| component | state it keeps | operations | talks to |
|---|---|---|---|
| `GnssAdapter` tracking (`gnss/GnssAdapter.cpp`) | time based and distance based session maps, `mNHzNeeded`, `mSPEAlreadyRunningAtHighestInterval`, `mPendingMsgs` | start, update, stop, client removal, engine up, suspend and restart | LocApi by `LocApiMsg`, clients by callbacks, engine hub |
| `LocAdapterBase` | `mClientData`, capabilities known, session id counter | add and remove client, masks | base of all adapters |
| `LocApiBase`, `SynergyLocApi` | set of adapters, event mask, the engine's handle | open, close, start and stop fix, SSR | engine (SLL interface), adapters by `LocApiResponse` |
| `Agps` | state, subscribers, type of one machine for SUPL | request, release, granted, denied, released | modem (QMI thread), framework (binder threads) |
| `MsgTask`, `msg_q`, `LocThread` | FIFO of messages, one thread | send, receive, unblock, destroy | every adapter and the LocApi |
| `LocTimer`, `LocHeap` | heap of timers, timerfd, epoll thread | start, stop, expire | ODCPI, Xtra, adapters |
| NI sessions (`GnssAdapter`) | two sessions with a response thread each | notify, respond, time out | clients, LocApi |
| ODCPI (`GnssAdapter`) | request active, timer | request start and stop, expire, SSR | framework callback |
| control and configuration (`GnssAdapter`, `location_gnss.cpp`) | configuration, GPS lock, SV types | enable, disable, update, read | LocApi, clients by collective responses |
| reports, NMEA, DGNSS, power (`GnssAdapter`) | caches of the last reports | report to each client | clients |
| `LocationAPI` | `gData`: clients, interfaces, clients being destroyed | create, destroy, post calls | three adapters |
| `LocationAPIClientBase` | request queues, session id map | start, stop, responses | `LocationAPI`, HIDL clients |
| `GeofenceAdapter`, `BatchingAdapter` | ids and hardware ids; sessions, trips | add, remove, pause, restart; start, stop, flush | LocApi |
| `SystemStatusOsObserver`, `SystemStatus` | subscriptions by client and by data item; the last reports, the table of networks | subscribe, unsubscribe, notify, reset of networks | data items, GnssAdapter |
| `XtraSystemStatusObserver`, `LocIpc` | last status sent, delayed resend | update, start, IPC messages | xtra daemon |
| HIDL 1.0, 1.1, 2.0, 2.1 (`android/`) | client objects, callbacks, death recipients | the framework's interfaces | `LocationAPIClientBase` |
| `gnsspps` | last pulse under a lock | initialise, thread, read | kernel PPS device |
| battery listener, `doze/`, `light/`, `recovery/` | small | callbacks, sysfs | framework |
| utilities (`loc_cfg`, `loc_nmea`, `LogBuffer`, `SkipList`, `LocUnorderedSetMap`) | containers, parsers | | |

What is hard, and what makes each part correct:

* **Tracking.** The engine runs one session, while many clients start, update
  and stop theirs. An adapter handler decides from the maps as they are, and
  the call it makes is carried out and answered later. Correct means: the
  engine's session serves every client's, also after a failure or a crash of
  the engine; nothing runs for nobody; every command is answered exactly once.
* **Agps.** One state machine shares one data call among handles; requests,
  releases, answers and losses cross each other on three threads. Correct
  means: each request is answered once, what the modem was told matches the
  state, and the call is up while it is believed to be and down otherwise.
* **MsgTask.** Correct means a bounded loss-free FIFO up to the point where it
  is unblocked. Messages after that point are neither processed nor freed.
* **LocTimer.** A timer expires once, and not after a stop that succeeded.
* **NI, ODCPI.** An answer and a timeout race; one of them has to win, once.
* **LocationAPI, LocationAPIClientBase.** A destroyed client is called back
  once, after all adapters let go of it; a response reaches its own request.
* **Control and configuration.** Two versions of the framework mean different
  things by the GPS lock, and the adapter learns which one it has as it goes.
  Correct means that the engine ends up with the lock and the constellations
  that were asked for, whatever came first and whatever was lost in a crash.
* **Data items, XTRA.** Two maps mirror each other and the subscriptions at the
  framework; a daemon that comes and goes ends up with the current status.
* **LogBuffer.** The lists of the levels stay threaded through the main list.
* **Geofence, batching.** Sessions survive an engine restart under new hardware
  ids; a stale id must not resolve to another fence.

`PROJECT.json` lists each component with its status, and each hazard with the
line where it bites and the property that covers it, or the reason why none does.

## 2. Plan

| step | module | what it models | composed with |
|---|---|---|---|
| done | `GnssTracking` | tracking sessions, LocApi thread, engine | |
| done | `Agps`, `AtlService` | AGPS state machine; what it promises | `Agps` implements `AtlService` |
| done | `MsgQueue`, `FifoChannel` | `msg_q`, `MsgTask` and `LocThread` with lock, condition and unblock; what they promise | `MsgQueue` implements `FifoChannel`, on which every queue of the other modules relies |
| done | `LocTimer`, `LocHeap` | timers on three kinds of threads; the tree they are kept in | `LocTimer` uses what `LocHeap` checks: `pop` gives a highest element, `remove` the object asked for |
| done | `NiSession`, `Odcpi` | response thread and timeout; requests and their timer | `Odcpi` uses what `LocTimer` checks: a timer that runs expires |
| done | `LocationApi` | the life of a client over several adapters | |
| done | `Geofence`, `Batching`, `SessionKeys` | their maps over engine restarts | |
| done | `DataItems` | observer of the system, XTRA and its daemon | |
| done | `LogBuffer` | the log in memory | |
| done | `GnssControl` | control session, GPS lock, constellations | in one run with `GnssTracking`, the other half of `GnssAdapter` |
| done | `ClientRequests` | request queues and session maps of `LocationAPIClientBase` | |
| done | `NetworkInfo` | the table of networks of `SystemStatus` | |
| done | `EventMasks` | the events every adapter wants and the engine reports | |
| left | `TrackingService` | abstract promise to a tracking client | implemented by `GnssTracking` |
| left | DGNSS, the rest of `SystemStatus` | the start and stop of CDFW; caches of reports | |

Proofs, in the order they are worth having: type correctness of each module and of
their compositions (done); the refinements `Agps` to `AtlService` and `MsgQueue` to
`FifoChannel` (done); the adapter's own control: lock and constellations (done);
sessions and the engine without distances and failures: `RequestServesSessions`,
`NoOrphanSession`, `EngineFollowsSessions`, `NoUnsolicitedResponse`
(done); `OnlyLateOutcomesRevive` of all sessions (done); the services, one invariant each: `AcquiredMeansCallUp`,
`ActiveTimerExpires`, `NiAnsweredOnce`, `EngineReportsWhatIsNeeded`,
`NoDanglingDelegate`, `SoonestTimerArmed`, `SubscribedAtFramework`,
`XtraDaemonCurrent`, `HandlesFollowNetworks`, `DeletedClientUnknown`,
`RequestsMatchAnswers`, `AutoReportRegistered`, `BatchingServed`,
`RemovedStaysRemoved`, `GeofencesServed`, `LogLevelsThreaded`, `HeapServesHighest`;
`EngineServesSessions` with crashes; all of it of the composition `MCComponents` (done).
Left: tracking with distances, or with calls that a running engine
fails. Section 6 says what stands in the way.

## 3. Modules and the code

Three things recur. A queue (`adapterQ`, `gfMsgs`, `controlMsgs`...) is the
`MsgTask` of the adapter and a handler, `proc()` of one message or one lambda of a
`LocApiResponse`, is one action. A second queue (`apiQ`, `gfCalls`,
`controlCalls`...) is the `MsgTask` of the LocApi: `LocApiMsg`s on their way to the
engine. The engine is behind the vendor's SLL interface and outside of the
repository; it is modelled by how `SynergyLocApi` and the adapters use it.

### GnssTracking

`adapterQ` and `apiQ` are the queues of the adapter's and the LocApi's
`MsgTask`. An element of `adapterQ` is one `LocMsg` posted by a client thread
(`Start`, `Update`, `Stop`, `Add`, `Remove`), by the engine (`EngineUp`,
`Reconfig`), or the lambda of a `LocApiResponse`, named for the call it
finishes. An element of `apiQ` is one `LocApiMsg` with the response it carries.

| TLA+ | code |
|---|---|
| `Create`, `Destroy`, `StartTracking`, `UpdateTracking`, `StopTracking` | the calls of `LocationAPI`, each one post |
| `AddClient`, `Start`, `Update`, `Stop`, `Remove` | `proc()` of the messages |
| `StartMultiplex`, `UpdateMultiplex`, `StopMultiplex` | `startTimeBasedTrackingMultiplex` and its siblings |
| `TellEngine` | `startTimeBasedTracking`, `updateTracking`, with the NHz check |
| `EngineUp`, `Reconfig`, `SetNHz`, `RestartTime`, `RestartDistanceSession` | `handleEngineUpEvent`, `suspendSessions` with `restartSessions`, `checkAndRestartSPESession` |
| `Started`, `Updated`, `Stopped`, `Switched`, `Restarted` | the lambdas |
| `ApiStep` | a `LocApiMsg` on the LocApi thread with its effect on the engine, or `LocOpenMsg`, `LocSsrMsg` |
| `Crash` | the engine goes down: `handleEngineDownEvent` |
| `asked`, `stopped`, `due` | history: the last time based request, carried out stops, commands less responses |

A handler that loops over sessions (client removal, restart) is one action per
turn; the adapter thread does nothing else in between, but the LocApi thread and
the clients may. The restart of time based sessions and the first turn of the
other loop belong to one action, since nothing can tell them apart.

The data kept of `TrackingOptions` are the interval, the power mode and whether
a distance is asked for. Left out, because no property depends on them: position
mode, time between measurements and the fall-back from M4 to M2, NMEA, DGNSS,
power reports and event masks (`EventMasks` has those). `updateCallbacks` is in
`LocationApi`. The engine
hub is a flag, `hub`.

### Agps and AtlService

`adapterQ` is the adapter's queue, `fwQ` the calls of `statusV4Cb` that the
framework has not acted on. `RequestATL`, `ReleaseATL` and `ReportATL` are
`AgpsManager`'s entry points; `Subscribe`, `Unsubscribe`, `Granted`, `Released`
and `Denied` are the state machine's handlers. `MakeCall` and `EndCall` are the
framework, with `GnssAdapter::dataConnOpenCommand` and its siblings, which post
the result. A bad APN name is refused on the framework's own thread, so `MakeCall`
runs `Released` at once in that case. `told[h]` is what the modem last heard of
handle `h`, the state variable of `AtlService`.

`requestATL` creates subscribers that do not wait for the call to close, hence
none is ever inactive and the RELEASING state is never entered: that part of the
machine is unreachable and left out. `handleModemSSR` has no caller. The
machines are taken to be created and the framework's callback registered.

### GnssControl

The user enables and disables location through `LocationAPIControlClient`
(`LocAPIEnable`, `LocAPIDisable`), which remembers that it is enabled and the last
configuration. `framework` is the version of Android: Q calls
`enableNfwLocationAccess` (`NfwControlCommand`), P sends the lock in a
configuration. `MsgEnableGnss`, `MsgDisableGnss`, `MsgControlNfwLocationAccess`,
`MsgGnssUpdateConfig`, `MsgGnssUpdateSvTypeConfig`, `MsgGnssResetSvTypeConfig` and
`MsgControlEngineUp` are the `proc()`s; `SetConfigCall` is `setConfig`. On the
LocApi thread `ModemUpdateConfig` is `gnssUpdateConfig`, which assigns
`mBlacklistedSvIds` there; since the adapter reads it without a lock, `ReadSvIds`
gives it the old value, the new one or, in the middle, an empty list.
`mGnssSvIdConfig` always changes with `mBlacklistedSvIds` and is not kept apart.
The lock of the engine survives a crash and all else does not. Of a configuration
only the lock and the satellites are kept: the other items are passed to the
engine and nothing reads them back. Answers are left out, see the hazards for
their order.

### MsgQueue and FifoChannel

`msgList` is the linked list, `reader` the thread (waiting, woken, handling,
leaving), `stopper` whoever deletes the task. A step is what a thread does while it
holds the mutex of the queue: `SendMsg` with its signal, `Receive`,
`ReceiveAfterWait`, `StopInterrupt` (`msg_q_unblock`). A wait may end without a
signal. The thread and the stopper share the runnable; the last to let go of it
frees the queue (`queueFreed`). `FifoChannel` has only what was accepted, what was
handled and whether the channel is open.

### LocTimer and LocHeap

`StartTimer` and `StopTimer` are the client's calls under the timer's lock;
`PollWakes`, `PollDisarms`, `PollRemoves`, `PollReports` are the steps of the thread
that polls the timerfd; `TaskPush`, `TaskRemove`, `TaskExpire` and their successors
are the messages on the `MsgTask` of the container. `delegates` are the objects
that are allocated, so that a second deletion or a use after one is a state. The
heap is a set of which the timer sees a soonest element: `LocHeap` is the tree
itself, and checks that push, pop and remove amount to this. The tree is a function
from ways (`<<"left", "right">>` is the right child of the left child of the top) to
the data and the size of the node there. The containers keep their places in the
code, too, where only data are swapped. What the code does from call to call of a
recursion is along the way to the one node that is attached or detached: `PushNode`
says which data are `carried` to each node on it, `PopNode` that the data on it
move up. `Free` and the leaf of `PopNode` leave exactly one such way, the one the
code takes.

### NiSession and Odcpi

`NiSession` has the two sessions' fields, and for each request its thread
(`niThread`) and the number of answers to the modem. The adapter looks at
`rawRequest` and `reqID` without the lock, so its steps interleave with those of the
thread. `Odcpi` has the flag of the `OdcpiTimer`, the `LocTimer` it wraps, and
`firing`, the moment in which the timer's thread has stopped it and not yet posted
`odcpiTimerExpireEvent`. `unasked` is history: the modem waits for a request that
the framework was not asked for.

### LocationApi

`interfaces` are the adapters that are loaded, `mClientData[a]` the clients that
adapter `a` knows, `waitAdapterMask[c]` the adapters from which client `c` waits for
an answer. `CreateInstance`, `UpdateCallbacks`, `GiveUpHandle` and `DestroyApi` hold `gDataMutex`;
`DestroyApi` is the second half of `LocationAPIClientBase::destroy()`, which first
gives up its handle. `AdapterHandles` is `addClientCommand` or
`removeClientCommand` with `onRemoveClientCompleteCb`.

### Geofence and Batching

Both keep maps from session keys (`SessionKeys`) and restart what they hold when
the engine has come up. In `Geofence` each item of a command makes a trip to the
LocApi thread and back before its own call (`addToCallQueue`), and the answer finds
the fence by the `hwId` or the key, as the lambda does. In `Batching` the sets
`mBatchingSessions` and `mTripSessions` and the registration of `BATCH_FULL` are
changed by `StartSession`, `StopRoutine`, `StopTrip` and the lambdas, in the order
of the code: some count the sessions before, some after the maps change. The
loops over keys, which the code's maps keep in the order of their ids, go through
`ById`; the loop of `stopClientSessions`, of which each stop sees the trips that the
last has left, is a recursive function (`StopSessions`).

### DataItems and LogBuffer

`DataItems` has the observer's two maps, its cache, what the framework is subscribed
to, and XTRA's copy (`xtra`) of what it sends to the daemon (`daemon`), the throttle
included. A daemon that is down loses what it is sent. XTRA never leaves its items;
the engine hub, which is handed the interface, subscribes to others and to one of the
same, requests them or leaves them, so that items lose their last observer. What
`trimOrRemove` then reads from the entry it has erased is undefined: `KeysRead` is that
item, any other or none. The history `outOfStep` collects the items of which the
framework is wrongly subscribed or not for that reason, or because `requestData` took
them over without subscribing to them, until they are left or subscribed to again.
`LogBuffer` has the list of nodes, the lists of the
levels threaded through it, and a difference of times modulo `TimeModulus`, the
width of the integer. `gps.conf` may set the capacity of a level to 0; `append` then
removes its own line and looks at the front of an empty level, the end of the list.

### ClientRequests and NetworkInfo

`ClientRequests` is one of the three HIDL clients (`hidl`) above one adapter:
`mRequestQueues` with the session each belongs to, the `BiDict` as `forward` and
`backward`, and `commands`, what the adapter has not answered. `StartTracking` to
`OnGeofence` are the calls of `LocationAPIClientBase`, `OnResponse` and
`OnCollectiveResponse` its two callbacks, `QueueOf` is `getRequestBySession`. The
adapter answers in any order or, as `GnssTracking` shows, not at all
(`unanswered`). A request and the command it was pushed for are the same record, with
a number (`no`), so that it shows which answer takes which request; `outOfOrder` are
the queues where an answer overtook another or is missing, `mislaid` counts the
answers for a batching session that the client has forgotten. `NetworkInfo` has the cached items of `SystemStatus`, each with the
table of handles and the mask of types: `Collate` is `collate`, `SetItem` is
`setIteminReport`, and `NotifyNetwork` the message that `notify` posts. `ResetItem`
is one turn of `resetNetworkInfo`, which the framework's thread runs against the
`MsgTask`. `netUp`, `netMissed` and `netFirst` are history: what the events say.

### EventMasks

`mEvtMask[a]` is the mask of each of the three adapters as a set of named events,
`maskClients` the callbacks in their `mClientData`, `needs` what `GnssAdapter`
remembers of AGPS, ODCPI and the configuration. `ClientsMask` stands for the three
`updateClientsEventMask`, `UpdateEvtMask` is `updateEvtMask`, and `OpenEngine` the
two messages of the LocApi thread that open the engine, which may fail. The
property compares the callbacks and registrations with what the engine was opened
with. It leaves out the NHz measurements: `updateNHzRequirementCb` turns them off
when they are asked for a second time (`GnssAdapter.cpp:6207`), as `UpdateNHz` does.

## 4. Runs

| run | shows | states |
|---|---|---|
| `tracking_time` | time based sessions: request and engine serve the sessions, nothing runs for nobody, one response per command; and the control session: the lock and the constellations, with a crash | 1 600 000 |
| `tracking_crash` | two clients and a crash at any moment, or the NHz flag and a reconfiguration while sessions of one run; only a late failure brings a stopped session back | 3 100 000 |
| `tracking_distance` | both kinds of session, waiting commands, every command answered | 213 000 |
| `agps` | the AGPS machine keeps the promise of `AtlService`, answers every request, and releases the type it requested | 441 000 |
| `components` | twelve other components | 303 000 |
| `data` | subscriptions mirror each other and the framework's; the XTRA daemon is current | 9 100 000 |
| `tracking_failed_update` | violation: an update that fails brings a stopped session back | |
| `tracking_power` | violation: not the smallest power mode | |
| `agps_idle_call` | violation: a data call nobody holds | |
| `batching_trip` | violation: BATCH_FULL stays registered after the last trip | |
| `network_types` | violation: no type of network is told while one is up | |
| `requests_geofence` | violation: an answer takes the request of another fence's command | |

**One run for many components.** The parts of `MCComponents` share no state, and
neither do the two of `MCGnssAdapter`. A behaviour in which several of them step
says nothing that those of each part do not say, so the variable `running` picks one
part at the start, and the others stay as they are initially. The states are the sum
of those of the parts, and a property of one part is checked on all its behaviours.

**Bounds: tracking.** `MaxId` counts sessions: two are needed to multiplex and three for
the choice of the next smallest after one leaves; intervals and power modes need
two values each for "smaller" to matter, and `tracking_time` has both. One crash
is enough to meet every kind of message on its way. `MaxQueue = 1` bounds what a
client may *post*: the queue itself grows as far as responses and engine events
take it, so that the races between outcomes and commands are all there, while two
client commands are never both waiting. A handler only adds to the LocApi's
queue and reads nothing of the engine, so without crashes two waiting commands
with an outcome behind them have the same effect as the second one posted after
the first was handled, before the outcome. `MaxUpdates`, `MaxStops`,
`MaxReconfigs`, `MaxNHz` count events. The constraint `CrashOrChange` keeps a
crash and changes of the NHz flag or the configuration to different behaviours:
both end in the same restart of all sessions. In `agps` a third request on two handles
is what brings an answer of an older call to a newer subscriber.

**Bounds: control.** Three calls (`MaxControl`) and one crash: enabling, a second
setting (the network's permission, a first or second lock of Android P) and
disabling, or one of them on either side of the crash. The two values of
`FrameworkLock` differ in NI, the one bit of the lock that the adapter does not
force. One constellation is disabled, enabled, reset; each is handled bit by bit.

**Bounds: components.**

| part | bound | why it is enough |
|---|---|---|
| queue | 3 messages | two in the list and one at the reader; order needs two |
| timer | 2 clients, delays 1 and 2, 2 starts in all, 2 ticks | two timers in either order, or one that is stopped and started again, while either expires |
| odcpi | 4 events | a request, a stop or restart, and a second request during the timer |
| ni | 2 requests for 2 sessions | the second request comes to the first one's session, or to the other |
| api | 2 clients, 2 adapters, 1 further call | one adapter is loaded for the second client while the first is destroyed |
| geofence | 1 client, 1 fence, 3 commands, 1 crash | add, then two that race with each other and with the restart |
| batching | 2 sessions, 2 commands, 1 crash | a start that fails beside another session, a session that stops or changes around a crash |
| heap | 4 objects of 2 ranks | trees of height three, equal ranks |
| network | 3 networks, one of another type, a table of 2, a cache of 2, 4 events | the table overflows, the oldest item is dropped, a slot in the middle is filled |
| requests | 4 calls, 2 fences, 2 NI numbers | a second session while commands of the first are unanswered, and one that takes its answer |
| masks | 2 clients, 4 events | an adapter, two clients or a client and a registration, and a change, a crash or a failed open |
| log | 2 levels, times 0 and 1 modulo 4, 2 lines per level | the difference wraps, and either bound discards |

The run `data` has 4 events: what subscribes, leaves, changes twice or restarts the
daemon; two values, so that an item changes from one to another; one list for the
hub, with an item of its own and one that it shares with XTRA: leaving it erases the
entry of the one and keeps that of the other, and what is read may be either. With
9 million states it takes longest, so it is not in `components`. With 2 commands `batching` does not reach a
session that stops or changes while another stays; only `BatchFullStaysRegistered`
covers that, for any number of commands. That a timer does not expire early is not
checked: what the kernel's clock does is outside. `geofence` and `batching` are small
because the theorems are about any size. `tracking_power` does without power
mode 0 (INVALID), which the code takes for "not set yet".

`batching_trip` has 3 commands, for a second session that is stopped after the
trip; with them the run has 1.9 million states, which is why `components` has 2.
`network_types` has a table of 3 and no death of the framework, which tells that a
network is up before it tells that it is gone (`RegularSpec`).

Each run keeps to the part of the system where the property is true and says so by
its constants or in the property. Calls that fail with the engine up
(`EngineMayFail`) are in one run of tracking only, `tracking_failed_update`, where
`StopIsFinal` fails for them; in the others calls fail in a crash (`tracking_crash`)
or not at all. So `tracking_crash` has the failed outcome of an update that
comes after the session's stop, and `OnlyLateOutcomesRevive` says that nothing but
such outcomes brings a session back; `NoUnsolicitedResponse` is not checked with
failed calls.
In `Geofence` and `Batching` the engine may refuse any call, and the properties
that need otherwise say so (`batchRefused`). `tracking_time` and `tracking_crash`
are without distance based sessions: those share the engine's single fix, and
stopping one stops it for the others. `agps` has an emergency PDN, which is the
default; a SUPL_ES request then changes the type of a SUPL call that is up, and
`ReleaseNamesRequest` says that nothing else does. `AutoReportRegistered` and `BatchingServed` are about
sessions other than trips, for which they fail. `ConstellationsServed` holds until a
blacklist of satellites follows, which overwrites that of the constellations.
`EngineFollowsSessions`, that the engine also stops with the last session, fails
after a crash: a start that waits in the LocApi thread fails, and erases its session,
after the restart has asked for it. `RequestsMatchAnswers` compares the requests with
the very commands they belong to while the answers to a queue come in order, and
only their number otherwise; it leaves out a tracking session whose number the user's
answer to a network request also had. `XtraDaemonCurrent` allows the daemon not to know
the throttle, which the answer to its request leaves out. `SubscribedAtFramework`
leaves out the items of `outOfStep`. `HandlesFollowNetworks` leaves out what
came while the table was full.

The deadlock check is off except in `agps`: elsewhere the bounds let the system
stop, or everything has ended (the task deleted, the clients destroyed).

**Fairness.** Always weak, and never of clients, the modem, the network or crashes.

* `GnssTracking`: of the adapter thread and the LocApi thread; each is a loop that
  blocks only on an empty queue. `Agps`: of the adapter thread and the framework,
  which answers each status callback.
* `QueueFairness`: of the reader, whose handlers return, and of a stopper that has
  begun. Nobody has to send or to stop.
* `TimerFairness`: of the clock and of the container's two threads.
* `OdcpiFairness`: of the adapter thread and of the timer, which expires if it runs:
  that is `TimerEnds`, checked in the same run.
* `NiFairness`: of the adapter and of each response thread, whose wait has a
  deadline.
* `LocationApiFairness`: of each adapter's thread and of a `destroy()` that has begun.

## 5. Findings

Each is a run with `expect: violation`; `PROJECT.json` quotes the lines.

1. A start chooses the power mode of the session with the smallest interval, not
   the smallest power mode, which is what its comment says and stop does
   (`tracking_power`).
2. An update is undone when the engine fails it, also when the session was stopped
   meanwhile: it is in the map again (`tracking_failed_update`).
3. Request, release, request: the late close of the first data call ends the
   second subscription, and the second data call is then granted to nobody
   (`agps_idle_call`).
4. The last trip counts twice when the adapter looks whether a session still needs
   BATCH_FULL, so that the event stays registered after it (`batching_trip`).
5. When one of several networks of a type goes, the mask of types keeps that type
   alone; when the last of them goes it is empty, while a network of another type
   is up (`network_types`).
6. Answers to commands on fences take the oldest request, whichever fences they are
   about; one on an unknown fence overtakes one that waits for the engine
   (`requests_geofence`).

Other disagreements met while modelling are hazards of `PROJECT.json`, and the
properties there say how they leave them out. A distance based start received before
the engine is open is kept aside, its stop is answered ID_UNKNOWN, and when the engine
opens the start is carried out. A start by a client without a tracking callback gets
no response (`MuteClient`). A data call with a bad APN name is reported as closed,
which the pending state ignores. The key of an entry is read after the entry was
erased, and an item that was only requested is never subscribed to (`outOfStep`). An
answer for a batching session that the client has forgotten leaves its request in the
queue (`mislaid`). `updateSubscription`, which nobody calls, takes the observer out of
the items it keeps.

## 6. Proofs

All theorems hold for every value of the constants, and none bounds a number of
clients, sessions, messages or events other than by the model's own guards. What a
theorem assumes beyond the specification is in its statement. The proof modules of
the components that `components` runs define a specification of their own
(`QueueSpec`, `TimerSpec`, `NiSpec`, `MaskSpec`...), of the component by itself
and without fairness; what is true of it is true of the run, in which the other
parts stand still. Likewise `ControlSpec` for the control half of `GnssAdapter`.

Most of the invariants say something about queues: what a message that waits will
do when it is handled. `QueueLemmas` has what they share: what `Append`, `Tail`,
`Head` and concatenation keep of a queue's element type; `Outcome`, which is what
the receiver will hold once a queue is handled, given what it holds now: the
last message that sets it decides; `Before`, that the messages of one kind wait
before those of another; `Places`, the places of a queue where a message of a set waits, whose number goes up by one when one is posted and down when it is
taken; and `LeastNat`, the least element of a set of numbers, which takes the place of
induction where a proof needs it: `WalkExists`, that a loop of n steps has a result
after each of them, is proved with it, and makes the loop of
`stopClientSessions` and the order of `ById` something to reason about; and
`OrderExists` and `EachOnce`, that the elements of a finite set of numbers can be
listed in ascending order, each once, which is what the loops over a map do.

**Tracking and control** (`GnssAdapter_proofs`, `TimeTracking_proofs`)

* `TypeCorrect`: `Spec => []TypeOK`. `TypeOK` alone is not inductive: a turn of the
  restart loop looks up a distance based session, so the invariant also has
  `RestartsSessions`: the sessions a restart still has to visit are in the map. It
  holds because the adapter thread does nothing else until the loop ends.
  `ControlTypeCorrect` is the same of the control half, `AdapterTypeCorrect` of both as
  the runs compose them (`AdapterTypeOK`).
* `LockFollowsUser` and `ConstellationsFollow`: `EngineLockFollowsUser` and
  `ConstellationsServed`, with crashes. Three queues lie between the user and the
  engine, and each has a part of `ControlInv`, stated with `Outcome`: the last
  enable or disable that waits at the adapter is the user's (`Enabling`), the last
  permission the framework's (`Allowing`); the adapter's own lock agrees with its
  control session (`OwnLock`); and the last call on its way to the modem that sets
  the lock, enables a constellation or blacklists one sets what the adapter would
  send now, unless a restart of the modem is still to be handled (`LockSent`,
  `EnabledSent`, `BlackSent`). `Versions` tells the frameworks of Android P and Q
  apart, which use the lock in different ways.
* `ServesSessions` and `NoneOrphaned`: `RequestServesSessions` and
  `NoOrphanSession`, under `TimeBasedOnly`: no client asks for a distance, no call
  on a running engine fails and it does not crash. Failures break
  `RequestServesSessions`: a failed start erases its session after the engine was
  asked for it. Distances are left out to keep the invariant small; with them
  `tracking_distance` checks the property on its instance. The NHz requirement,
  reconfigurations, updates and the number of clients, sessions, intervals and
  power modes are unrestricted. The inductive invariant `TimeInv` says that only
  messages and calls without distances or failures are queued and that the engine
  is opened before the first call (`MessagesTime`, `CallsTime`, `NoDistance`);
  that the adapter takes the engine to run at the highest rate only if it last
  asked for that rate and nobody can want a higher one (`SpeFast`, `NoFaster`),
  which is why a start may skip the call; that sessions belong to known clients
  and the loop that removes a client still has all of its sessions before it
  (`Owned`, `Removing`); and the property itself (`Serving`). A lemma for each
  multiplexing helper says what it asks for (`PickAsks`, `StartAsks`,
  `UpdateAsks`, `StopServes`, `RestartServes`), one for each group of actions that
  it keeps `TimeInv`.
* `EngineFollowsTime`: `EngineFollowsSessions`, under `TimeBasedOnly`. What connects
  the adapter's last request with the engine is `EngineFollows`: the last call that
  waits is that request, and without one the engine runs it. No step may make a
  call without recording it as the last request (`Requests`).
* `EngineServesAfterCrash`: `EngineServesSessions` with any number of crashes
  (`CrashesOnly`). A call that reaches an engine that is down fails, and its lambda
  erases the session or restores its options: the last request may then serve
  nothing, and neither `TimeInv` nor `EngineFollows` survives. What does: behind
  every failure comes an opening of the engine, as a call or as a message
  (`Redone`), and until the outcome of the last one is handled (`Reopening`)
  nothing is owed to the sessions. Restarting them makes up for whatever came
  before, including that no session leaves the adapter with the belief that the
  engine runs at the highest rate. From then on the last request is enough for all
  of them, and is the last call or what the engine runs (`Served`).
* `StoppedComeBackLate`: `OnlyLateOutcomesRevive`, with distances, failures, crashes
  and all. `StopIsFinal` itself is false
  (`tracking_failed_update`), so the theorem names the messages that save a session
  without looking whether it is there (`Revives`). What is left to show is that the
  start of a time based session is none of them: it waits in front of what ends the
  session, and none waits once a stop was carried out (`StartsFirst`), since an
  outcome that ends a session is about one that a client was given (`OwnedCalls`).
* `ResponsesAreAskedFor`: `NoUnsolicitedResponse`, under `TimeBasedOnly` and without the
  NHz requirement, which has the removal of a client's session answered although
  nobody asked. `AnswersDue` compares the responses a client waits for with the
  number of places, in two queues, from which one may still come (`Owed`), unless
  the client is gone; `ClientsInOrder` says when that is. A handler of a command
  settles as many as it takes (`Settles`).

**Assistance data** (`Agps_proofs`)

* `TypeCorrect` and `StatusCorrect`. `StatusMatchesState` needs to know
  that a queued request is about a handle that is not a subscriber and is not
  behind another message for the same handle (`RequestsLast`); `IInv` is the
  conjunction of the three. That follows from what the modem does with handles.
* `Implements`: `Spec => AnsweredOnce`, i.e. each step maps to one of
  `AtlService` or to a stutter, with `status <- told`, under `IInv`.
* `CallIsUp`: `AcquiredMeansCallUp`. `EndsAreTold`: once the call is down its end is
  queued, and behind each "opened" that is.
* `TypeKept`: `ReleaseNamesRequest`, with and without an emergency PDN. `TypesJoined`: the
  machine's type and the one that was asked for are among those that have joined
  since the list was empty, and without such a PDN there is only one.

**Queue and timers** (`CoreUtils_proofs`)

* `QueueImplementsChannel`: `QueueIsFifo`, each step under the lock
  is a step of `FifoChannel` or a stutter. Besides types the invariant has `InOrder`:
  until the queue is freed, what was accepted is what was handled followed by the
  list; and `QueueFlags`: the thread leaves only an unblocked queue, and the queue is
  freed only after the thread has left and the stopper has let go, which is why
  nothing is handled afterwards.
* `NoneDangles` and `SoonestAlwaysArmed`: `NoDanglingDelegate` and
  `SoonestTimerArmed`, for any clients, timers and delays. `TimerInv`: who refers to a
  delegate, the heap, the task or a message, refers to one that is not deleted
  (`References`); the removal is the last message about its delegate
  (`QueueInOrder`); a client refers to a delegate of its own which nothing removes yet
  (`TimersOwned`); the task holds one while it handles an expiration (`TaskHolds`).
  The races of a client that stops its timer while it expires are its cases.
* `LogTypeCorrect` and `LevelsStayThreaded`: `LogTypeOK` and `LogLevelsThreaded`. Besides
  them the invariant has `OnceInList`, that no node is in the list twice, so that
  erasing one leaves the order of the others (`OrderErased`); `LastIsNew`, that the
  line being appended is the last of its level, which is why the loop that trims
  the level stops before it, unless the capacity is 0: its time differs from itself by
  nothing; and
  `Bounded`, that other levels are within their bound meanwhile, so that a node is
  free for the next line (`NodeIsFree`).

* `TopIsHighest`: `HeapServesHighest`. `HeapInv`: a node's parent is there (`Tree`), does
  not rank lower (`Ordered`) and its size is that of its children and itself
  (`Sized`); there are as many nodes as objects and each object has one
  (`Holding`), so none has two (`DataOnce`). A push passes each object that it moves on to
  the next node, the last to the new one (`CarriedStays`). That `remove` may skip
  the subtrees of what the object outranks follows from the order along a whole
  way (`NoneBelowOutranks`, `PushedFound`).

**Network requests, ODCPI, events, batching** (`AdapterServices_proofs`)

* `ActiveTimerAlwaysExpires`: `ActiveTimerExpires`. It is inductive with types: the
  interesting step is the restart of the timer by the adapter between the expiry
  and its message.
* `AnsweredAtMostOnce`: `NiAnsweredOnce`. The data of a request is in one place, a
  session, a thread or a message (`HeldOnce`), and while it is anywhere the modem has
  no answer for it (`HeldUnanswered`).
* `EngineReports`: `EngineReportsWhatIsNeeded`. The mask of each adapter is what its
  clients and registrations need (`MasksServe`), nobody keeps callbacks of
  another adapter (`OwnCallbacks`), one that is not listed wants nothing
  (`ListedFirst`), and the engine's mask is stale only while a message waits that
  will open it again (`EngineCurrent`).
* `BatchingTypeCorrect`: `BatchingTypeOK`, with what the queues can hold (`BatchTyped`):
  a message or call speaks of trips only if one was asked for, and an answer with
  an error is about a call of a kind that was refused.
* `BatchFullStaysRegistered`: `AutoReportRegistered`. With types that is nearly inductive
  (`Registered`); what it takes is the arithmetic of `AutoReports` in each place that
  counts, and through the loop over the sessions of a client that goes.
* `EngineCollects`: `BatchingServed`. `Served` speaks of each session at all times: what
  the engine will do once the calls under way are carried out, or does now if none is
  about the session, is what the adapter keeps. It may differ only while the engine
  is down or its restart still waits in the adapter's queue, and `ToRestart` then
  makes up for the difference.

**Geofences** (`Geofence_proofs`)

* `GeofenceTypeCorrect`, `RemovedStayUnknown` and `EngineWatches`: `GeofenceTypeOK`,
  `RemovedStaysRemoved` and `GeofencesServed`, for any clients and commands,
  whichever calls fail and whenever the engine crashes. They share one inductive
  invariant, `GfInv`, because a fence is a different thing in each place that it
  passes: a command with an id, a call, an answer with the `hwId` the engine gave it,
  two map entries, and after a restart again a call and an answer, with another
  `hwId`. Its parts:
  * `OwnerIs`: a `hwId` is that of one fence for ever; no two answers, calls or maps
    disagree about the key it belongs to.
  * `Single`: what will be or is the fence of a key is at one place at most, counted over
    both queues and the map, and at none once the fence was removed. Without it a
    restart that adds a fence while its removal waits could leave it twice.
  * `FoundThere`: a fence that the engine has added is there until the adapter
    hears of it, unless the engine crashes, and nothing else is about it.
  * `IdsLead`: the two maps agree with each other, and with the engine unless its
    restart is still to be handled or the answer to the fence's removal waits.
  * `ClearedUnknown` and `RemovalKnown`: what the restart clears the adapter no longer
    knows; what is removed on command it knows until it hears of it, which is
    before it hears of the restart (`Before`).
  * `FencesAgree`: the options and the pause that the adapter has, or will have once
    the answers that wait are handled (`Outcome`), are the engine's.

  `AdapterDoes` and `EngineDid` sum up what a step of each thread can do to the maps and
  the queues, so that each part is proved against a few cases and not against
  every action. Where there is no client there is no fence, so that nothing is
  assumed of the set of clients.

**Data items and networks** (`CoreUtils_proofs`)

* `AlwaysSubscribedAtFramework`: `SubscribedAtFramework`. The maps mirror each
  other (`MapsMirror`) whatever is read from an erased entry, and the
  framework has the items with an observer, but for those out of step
  (`AtFramework`). An item that loses its last observer is unsubscribed from if its key
  was read right, and otherwise out of step, like the one that was read instead;
  nothing is before the framework's object is set, as that subscribes to all at once.
* `DaemonFollows`: `XtraDaemonCurrent`. `XtraHears`: the last update of an item that
  waits gives what the cache has, once XTRA has subscribed; before that its
  subscription waits. `DaemonHears`: a daemon that was sent the status has all that
  XTRA has but the throttle, of which it has the last value or none; before, it has no source of corrections if XTRA has none, which is
  why `restartDgnssSource` need not say so.
* `HandlesFollow`: `HandlesFollowNetworks`. The table of the newest cached item is
  filled from its start and holds the networks that are up, but for those that found
  it full, and the very first one if that came as disconnected (`LastTable`).

**Clients** (`AdapterServices_proofs`)

* `DeletedClientsStayUnknown`: `DeletedClientUnknown`. A deleted client is unknown
  because an adapter that is waited for has the removal as the last message about
  the client (`LastIsRemove`), one that is not has forgotten it (`Forgotten`), and
  before `destroy` only additions are queued (`OnlyAdds`); `Life` ties that to the
  sets in `gData`.
* `RequestsGetTheirAnswers`: `RequestsMatchAnswers`. The requests that wait are as many
  as the commands and answers under way for their session, in any order of the answers
  (`Counted`); while the answers to a queue come in order and none is left out they are
  the requests of those very commands, the oldest first, so that an answer takes the
  request of its command (`Matched`). Excepted is a session under whose number a
  network request was answered, which takes a request that is not its own. A known id of a fence has a session that leads back to
  it (`Dictionary`).

**The components together** (`Components_proofs`)

* `RunsEach`: a behaviour of `MCComponents` is, for each of the twelve components it
  chooses from, a behaviour of that component's own specification, since a step is
  one of the part that runs and leaves the others' variables alone (`StepOfOne`).
* `ComponentsTypeCorrect` and `AllServe`: so all that is proved of the components one by
  one holds of what the run `components` checks.

Only model-checked, and why:

* The liveness properties: fairness is out of the prover's reach.
* Everything about tracking with distances but `StoppedComeBackLate`:
  `tracking_distance` checks it. Under crashes
  `EngineServesSessions` is a theorem; what else `tracking_crash` checks is not, and the
  properties about the last request and the responses are false there as
  they stand, since a failed call leaves the engine behind the adapter's last request
  until the restart. A call that a running engine fails is in no run but
  `tracking_failed_update` (`EngineMayFail`), for then nothing is repeated.

## 7. Not modelled

* Reports and their conversions, NMEA, aiding data, DGNSS, the rest of `SystemStatus`:
  they carry data from the engine to callbacks and keep caches of it.
* Of the modelled components: `updateSubscription`, `turnOn`, `turnOff`, which have no
  caller, and the backhaul connection; the deletion of `LocTimer` objects and
  their `LocSharedLock`; lengths and intervals of trips, `getBatchedLocations`;
  reports of geofences; `LogBuffer`'s `flush`, `pop` without a level and signal
  handler; the system's power state, which is kept and sent again when the engine comes up; the other items
  of a configuration and the order of their answers; a second reader of a queue; a
  network that changes its type, and the call of `updateNetworkState` of AGnssRil 1.0
  (`AGnssRil.cpp:105`), which passes type and roaming in each other's place, so that
  every network is the mobile one with handle 0.
* `removeAdapter`: only `deinitialize` deletes adapters, and nothing calls it. The
  masks of NMEA sentences (`updateNmeaMask`).
* Configuration files, sockets, the vendor's engine behind the SLL interface, the
  near-duplicate HIDL layers (`android/1.0` to `2.0`) and the callbacks of `2.1`, `gnsspps`, whose functions
  have no caller, and the small services (battery listener, doze, light, recovery).
* The device configuration: makefiles, overlays, policy, data.
* Data races on memory (`mLocAdapters`, the subscriber list under `reportAtlClosed`)
  have no finite set of outcomes.

The map covers the control of `gps/core`, `gps/gnss`, `gps/geofence`,
`gps/batching`, `gps/location` and `gps/utils`. Most of the other lines are message and
constant definitions, reports, four copies of the HIDL layer, and the device
configuration.
