----------------------------- MODULE GnssControl -----------------------------
(***************************************************************************)
(* The control session: the GPS lock and the configuration of satellites   *)
(* and constellations (gps/gnss/GnssAdapter.cpp and the control client of  *)
(* gps/location/LocationAPIClientBase.cpp).                                *)
(*                                                                         *)
(* Location is enabled and disabled by the user, and the lock keeps the    *)
(* engine from positioning for the user (MO) or the network (NI).  What    *)
(* the framework means by the lock depends on its version.  Android Q      *)
(* tells only whether the network may ask (nfwControlCommand).  Android P  *)
(* sends the lock that holds while location is disabled; the first such    *)
(* update tells the adapter which framework it has.                        *)
(*                                                                         *)
(* The engine is not in this repository: it obeys the calls of             *)
(* gps/synergy_loc_api while it is up.  It keeps its lock when it crashes, *)
(* being non-volatile, and forgets the rest.  Left out are the other items *)
(* of a configuration, their answers and gnssUpdateSvConfig (for which see *)
(* GnssTracking).  Constellation enablement is taken to be supported.      *)
(***************************************************************************)
EXTENDS Naturals, Sequences

CONSTANTS
  Constellation,      \* constellations that can be disabled
  FrameworkLock,      \* the locks that Android P asks for
  MaxControl,         \* bound: calls
  MaxControlCrashes   \* bound: crashes of the engine

Lock == {"MO", "NI"}
Locks == SUBSET Lock
SvType == {t \in [black : SUBSET Constellation, enabled : SUBSET Constellation] :
             t.black \cap t.enabled = {}}
NoSvType == [black |-> {}, enabled |-> {}]

ASSUME ControlAssumption ==
  FrameworkLock \subseteq Locks /\ {MaxControl, MaxControlCrashes} \subseteq Nat

VARIABLES
  framework,        \* the framework's version, "P" or "Q"
  mEnabled,         \* the control client: location is enabled
  controlSession,   \* the session of mRequestQueues[CTRL_REQUEST_CONTROL]
  mConfig,          \* the last configuration, in a set of at most one
  nfwAllowed,       \* history: Android Q lets the network ask
  askedLocks,       \* history: the locks Android P asked for
  controlCommands,  \* calls so far
  GPS_LOCK,         \* of ContextBase::mGps_conf
  mAfwControlId,    \* the session that has location enabled; 0 if none
  mSupportNfwControl,  \* the framework is taken for Android Q
  mBlacklistedSvIds,   \* constellations with a blacklisted satellite
  mGnssSvTypeConfig,
  controlKnown,     \* isEngineCapabilitiesKnown
  controlPending,   \* mPendingMsgs: the messages that wait for that
  controlMsgs,      \* the adapter's MsgTask
  controlCalls,     \* the calls on their way to the engine
  modem,            \* the engine
  svTypeLast        \* history: the engine's blacklist regards mGnssSvTypeConfig

controlClient == <<mEnabled, controlSession, mConfig, nfwAllowed, askedLocks,
                   controlCommands>>
controlAdapter == <<GPS_LOCK, mAfwControlId, mSupportNfwControl, mGnssSvTypeConfig>>
controlEngine == <<mBlacklistedSvIds, modem, svTypeLast>>
controlWait == <<controlKnown, controlPending>>
controlVars == <<framework, controlClient, controlAdapter, controlEngine, controlWait,
                 controlMsgs, controlCalls>>
-----------------------------------------------------------------------------
\* The engine's blacklist: all satellites of the constellations in types, some
\* of those in ids.
Blacklist(ids, types) ==
  [c \in Constellation |->
     IF c \in types THEN "all" ELSE IF c \in ids THEN "some" ELSE "none"]

\* The engine has yet to come up; readConfig gives the lock its default.
ControlInit ==
  /\ framework \in {"P", "Q"}
  /\ mEnabled = FALSE /\ controlSession = 0 /\ mConfig = {}
  /\ nfwAllowed = FALSE /\ askedLocks = {} /\ controlCommands = 0
  /\ GPS_LOCK = Lock /\ mAfwControlId = 0 /\ mSupportNfwControl = TRUE
  /\ mBlacklistedSvIds = {} /\ mGnssSvTypeConfig = NoSvType
  /\ controlKnown = FALSE /\ controlPending = <<>>
  /\ controlMsgs = <<>> /\ controlCalls = <<>>
  /\ modem = [up |-> FALSE, crashes |-> 0, lock |-> Lock, enabled |-> {},
              black |-> Blacklist({}, {})]
  /\ svTypeLast = TRUE
-----------------------------------------------------------------------------
(* the framework; the client holds its mutex during a call *)

ControlCall(m) ==
  /\ controlCommands < MaxControl /\ controlCommands' = controlCommands + 1
  /\ controlMsgs' = Append(controlMsgs, m)
  /\ UNCHANGED <<framework, controlAdapter, controlEngine, controlWait, controlCalls>>

\* locAPIEnable; a session id is a number given once.
LocAPIEnable ==
  /\ ~mEnabled /\ mEnabled' = TRUE
  /\ controlSession' = controlCommands + 1
  /\ ControlCall([what |-> "enable", id |-> controlSession'])
  /\ UNCHANGED <<mConfig, nfwAllowed, askedLocks>>

\* locAPIDisable
LocAPIDisable ==
  /\ mEnabled /\ controlSession > 0 /\ mEnabled' = FALSE
  /\ ControlCall([what |-> "disable", id |-> controlSession])
  /\ UNCHANGED <<controlSession, mConfig, nfwAllowed, askedLocks>>

\* locAPIGnssUpdateConfig does nothing when the configuration is the last one.
\* This one has the lock or the blacklist, each in a set of at most one.
LocAPIGnssUpdateConfig(lock, ids) ==
  LET m == [what |-> "config", lock |-> lock, ids |-> ids] IN
  /\ mConfig # {m} /\ mConfig' = {m}
  /\ lock # {} => framework = "P"
  /\ askedLocks' = askedLocks \cup lock
  /\ ControlCall(m)
  /\ UNCHANGED <<mEnabled, controlSession, nfwAllowed>>

\* nfwControlCommand, called by Android Q only; it looks at mSupportNfwControl
\* before it posts.
NfwControlCommand(allowed) ==
  /\ framework = "Q" /\ mSupportNfwControl
  /\ nfwAllowed' = allowed
  /\ ControlCall([what |-> "nfw", allowed |-> allowed])
  /\ UNCHANGED <<mEnabled, controlSession, mConfig, askedLocks>>

\* gnssUpdateSvTypeConfigCommand and gnssResetSvTypeConfigCommand
SvTypeCommand(m) ==
  ControlCall(m)
    /\ UNCHANGED <<mEnabled, controlSession, mConfig, nfwAllowed, askedLocks>>

ControlCommand ==
  \/ LocAPIEnable
  \/ LocAPIDisable
  \/ \E l \in FrameworkLock : LocAPIGnssUpdateConfig({l}, {})
  \/ \E s \in SUBSET Constellation : LocAPIGnssUpdateConfig({}, {s})
  \/ \E b \in BOOLEAN : NfwControlCommand(b)
  \/ \E t \in SvType : SvTypeCommand([what |-> "svType", type |-> t])
  \/ SvTypeCommand([what |-> "svReset"])
-----------------------------------------------------------------------------
(* the adapter *)

ControlTakes(what) ==
  /\ controlMsgs # <<>> /\ Head(controlMsgs).what = what
  /\ controlMsgs' = Tail(controlMsgs)
  /\ UNCHANGED <<framework, controlClient, controlEngine>>

Calls(s) == controlCalls' = controlCalls \o s
LockCall(l) == [call |-> "lock", lock |-> l]

\* MsgGnssUpdateConfig, MsgGnssUpdateSvTypeConfig, MsgGnssResetSvTypeConfig wait
\* until the engine has come up.
ControlWaits ==
  /\ \E w \in {"config", "svType", "svReset"} : ControlTakes(w)
  /\ ~controlKnown /\ UNCHANGED controlKnown
  /\ controlPending' = Append(controlPending, Head(controlMsgs))
  /\ UNCHANGED <<controlAdapter, controlCalls>>

ControlHandles(what) ==
  ControlTakes(what) /\ controlKnown /\ UNCHANGED controlWait

\* MsgEnableGnss::proc.  There is one control client, which does not enable
\* twice or disable twice, so that neither message is ever refused.
MsgEnableGnss ==
  /\ ControlTakes("enable") /\ mAfwControlId = 0
  /\ mAfwControlId' = Head(controlMsgs).id
  /\ \/ /\ mSupportNfwControl
        /\ GPS_LOCK' = GPS_LOCK \cap {"NI"} /\ Calls(<<LockCall(GPS_LOCK')>>)
     \/ ~mSupportNfwControl /\ UNCHANGED GPS_LOCK /\ Calls(<<LockCall({})>>)
  /\ UNCHANGED <<mSupportNfwControl, mGnssSvTypeConfig, controlWait>>

\* MsgDisableGnss::proc, of the session that enabled it
MsgDisableGnss ==
  /\ ControlTakes("disable") /\ mAfwControlId = Head(controlMsgs).id
  /\ mAfwControlId' = 0
  /\ GPS_LOCK' = GPS_LOCK \cup IF mSupportNfwControl THEN {"MO"} ELSE {}
  /\ Calls(<<LockCall(GPS_LOCK')>>)
  /\ UNCHANGED <<mSupportNfwControl, mGnssSvTypeConfig, controlWait>>

\* MsgControlNfwLocationAccess::proc
MsgControlNfwLocationAccess ==
  /\ ControlTakes("nfw")
  /\ GPS_LOCK' = IF Head(controlMsgs).allowed THEN GPS_LOCK \ {"NI"}
                 ELSE GPS_LOCK \cup {"NI"}
  /\ Calls(<<LockCall(GPS_LOCK')>>)
  /\ UNCHANGED <<mAfwControlId, mSupportNfwControl, mGnssSvTypeConfig, controlWait>>

\* MsgGnssUpdateConfig::proc.  A lock for a session that is enabled matters to
\* the engine only if it shows that the framework is Android P.
MsgGnssUpdateConfig ==
  /\ ControlHandles("config")
  /\ LET m == Head(controlMsgs)
         Send(lock) == Calls(<<[call |-> "config", lock |-> lock, ids |-> m.ids]>>)
     IN \/ m.lock = {} /\ Send({}) /\ UNCHANGED <<GPS_LOCK, mSupportNfwControl>>
        \/ \E l \in m.lock :
             /\ GPS_LOCK' = l \cup {"MO"} /\ mSupportNfwControl' = FALSE
             /\ \/ mAfwControlId = 0 /\ Send({GPS_LOCK'})
                \/ mAfwControlId # 0 /\ mSupportNfwControl /\ Send({{}})
                \/ mAfwControlId # 0 /\ ~mSupportNfwControl /\ Send({})
  /\ UNCHANGED <<mAfwControlId, mGnssSvTypeConfig>>

\* The adapter reads the blacklist while the other thread may be changing it:
\* gnssSvIdConfigUpdateSync first clears it.
ReadSvIds ==
  {mBlacklistedSvIds} \cup
    IF controlCalls # <<>> /\ Head(controlCalls).call = "config"
                          /\ Head(controlCalls).ids # {}
    THEN {{}} \cup Head(controlCalls).ids ELSE {}

BlackCall(ids, types) == [call |-> "black", black |-> Blacklist(ids, types)]
ResetCall == [call |-> "reset"]
EnableCalls(type) ==
  IF type.enabled = {} THEN <<>> ELSE <<[call |-> "enable", types |-> type.enabled]>>

\* gnssSetSvTypeConfig
SetSvTypeConfig(config) == mGnssSvTypeConfig' = config

\* (mutant) the new configuration is saved before the two are compared
RemovedFromNew(old, new) == new.enabled \ new.enabled
\* The constellations taken from those enabled
EnabledRemoved(old, new) == old.enabled \ new.enabled

\* gnssSvTypeConfigUpdate: the engine is reset if a constellation is removed.
MsgGnssUpdateSvTypeConfig ==
  /\ ControlHandles("svType")
  /\ LET new == Head(controlMsgs).type
         reset == IF EnabledRemoved(mGnssSvTypeConfig, new) # {} THEN <<ResetCall>>
                  ELSE <<>>
     IN /\ SetSvTypeConfig(new)
        /\ \E ids \in ReadSvIds :
             Calls(reset \o <<BlackCall(ids, new.black)>> \o EnableCalls(new))
  /\ UNCHANGED <<GPS_LOCK, mAfwControlId, mSupportNfwControl>>

MsgGnssResetSvTypeConfig ==
  /\ ControlHandles("svReset")
  /\ SetSvTypeConfig(NoSvType)
  /\ \E ids \in ReadSvIds : Calls(<<BlackCall(ids, {}), ResetCall>>)
  /\ UNCHANGED <<GPS_LOCK, mAfwControlId, mSupportNfwControl>>

\* (mutant) as if GPS_LOCK were always the state of the lock
LockStored == GPS_LOCK
\* setConfig: what the lock is in an engine that has come up
LockOnRestart ==
  IF mSupportNfwControl \/ mAfwControlId = 0 THEN GPS_LOCK ELSE {}

\* setConfig sends the blacklist the adapter has now, which the LocApi thread then
\* assigns again.
SetConfigCall(ids) == [call |-> "config", lock |-> {LockOnRestart}, ids |-> {ids}]

\* MsgHandleEngineUpEvent::proc; the messages that waited are sent again, behind
\* those sent meanwhile.
MsgControlEngineUp ==
  /\ controlMsgs # <<>> /\ Head(controlMsgs).what = "engineUp"
  /\ controlMsgs' = Tail(controlMsgs) \o controlPending
  /\ controlKnown' = TRUE /\ controlPending' = <<>>
  /\ \E s, t, u \in ReadSvIds :
       Calls(<<SetConfigCall(s), BlackCall(t, {}),
               BlackCall(u, mGnssSvTypeConfig.black)>>
               \o EnableCalls(mGnssSvTypeConfig))
  /\ UNCHANGED <<framework, controlClient, controlAdapter, controlEngine>>

ControlHandlesMsg ==
  \/ ControlWaits \/ MsgEnableGnss \/ MsgDisableGnss \/ MsgControlNfwLocationAccess
  \/ MsgGnssUpdateConfig \/ MsgGnssUpdateSvTypeConfig \/ MsgGnssResetSvTypeConfig
  \/ MsgControlEngineUp
-----------------------------------------------------------------------------
(* the engine, behind the LocApi thread *)

ModemTakes(call) ==
  /\ controlCalls # <<>> /\ Head(controlCalls).call = call
  /\ controlCalls' = Tail(controlCalls)
  /\ UNCHANGED <<framework, controlClient, controlAdapter, controlWait, controlMsgs>>

\* A call that the engine is not there for is lost.
ModemBecomes(m) == modem' = IF modem.up THEN m ELSE modem

\* setGpsLockSync
ModemSetLock ==
  /\ ModemTakes("lock")
  /\ ModemBecomes([modem EXCEPT !.lock = Head(controlCalls).lock])
  /\ UNCHANGED <<mBlacklistedSvIds, svTypeLast>>

\* gnssUpdateConfig on the LocApi thread: the lock and the blacklist, if given
ModemUpdateConfig ==
  /\ ModemTakes("config")
  /\ LET call == Head(controlCalls)
         Given(opt, was) == IF opt = {} THEN was ELSE CHOOSE x \in opt : TRUE
     IN /\ mBlacklistedSvIds' = Given(call.ids, mBlacklistedSvIds)
        /\ ModemBecomes([modem EXCEPT
             !.lock = Given(call.lock, @),
             !.black = IF call.ids = {} THEN @ ELSE Blacklist(mBlacklistedSvIds', {})])
        /\ svTypeLast' = (svTypeLast /\ call.ids = {})

\* setBlacklistSv
ModemSetBlacklist ==
  /\ ModemTakes("black")
  /\ ModemBecomes([modem EXCEPT !.black = Head(controlCalls).black])
  /\ svTypeLast' = TRUE /\ UNCHANGED mBlacklistedSvIds

\* setConstellationControl and resetConstellationControl
ModemSetConstellations ==
  /\ \/ /\ ModemTakes("enable")
        /\ ModemBecomes([modem EXCEPT !.enabled = @ \cup Head(controlCalls).types])
     \/ ModemTakes("reset") /\ ModemBecomes([modem EXCEPT !.enabled = {}])
  /\ UNCHANGED <<mBlacklistedSvIds, svTypeLast>>

ModemCrashes ==
  /\ modem.up /\ modem.crashes < MaxControlCrashes
  /\ modem' = [modem EXCEPT !.up = FALSE, !.crashes = @ + 1, !.enabled = {},
                            !.black = Blacklist({}, {})]
  /\ UNCHANGED <<framework, controlClient, controlAdapter, controlWait, controlMsgs,
                 controlCalls, mBlacklistedSvIds, svTypeLast>>

\* handleEngineUpEvent
ModemComesUp ==
  /\ ~modem.up /\ modem' = [modem EXCEPT !.up = TRUE]
  /\ controlMsgs' = Append(controlMsgs, [what |-> "engineUp"])
  /\ UNCHANGED <<framework, controlClient, controlAdapter, controlWait, controlCalls,
                 mBlacklistedSvIds, svTypeLast>>

ModemStep ==
  \/ ModemSetLock \/ ModemUpdateConfig \/ ModemSetBlacklist \/ ModemSetConstellations
  \/ ModemCrashes \/ ModemComesUp

ControlNext == ControlCommand \/ ControlHandlesMsg \/ ModemStep
-----------------------------------------------------------------------------
ControlTypeOK ==
  /\ framework \in {"P", "Q"}
  /\ \A b \in {mEnabled, nfwAllowed, mSupportNfwControl, controlKnown, svTypeLast} :
       b \in BOOLEAN
  /\ {controlSession, mAfwControlId} \subseteq 0..MaxControl
  /\ GPS_LOCK \in Locks /\ askedLocks \subseteq Locks
  /\ mBlacklistedSvIds \subseteq Constellation /\ mGnssSvTypeConfig \in SvType
  /\ modem \in [up : BOOLEAN, crashes : 0..MaxControlCrashes, lock : Locks,
                enabled : SUBSET Constellation,
                black : [Constellation -> {"none", "some", "all"}]]

ControlSettled ==
  modem.up /\ controlKnown /\ controlMsgs = <<>> /\ controlCalls = <<>>

\* What the user and the framework want the lock to be.  When Android P has
\* asked for more than one, it may be any of these, since an update that waited
\* for the engine can be overtaken.
LocksWanted ==
  IF askedLocks = {}
  THEN {(IF mEnabled THEN {} ELSE {"MO"}) \cup (IF nfwAllowed THEN {} ELSE {"NI"})}
  ELSE IF mEnabled THEN {{}} ELSE {l \cup {"MO"} : l \in askedLocks}

\* Once everything is handled the engine's lock is the one that the user, the
\* network's permission and the framework call for, whichever of these came
\* first, before or after a crash of the engine (enableCommand, disableCommand,
\* nfwControlCommand, gnssUpdateConfigCommand and setConfig,
\* gps/gnss/GnssAdapter.cpp).
EngineLockFollowsUser == ControlSettled => modem.lock \in LocksWanted

\* Once everything is handled the engine has the constellations enabled that
\* are in mGnssSvTypeConfig, and exactly those blacklisted as a whole that are
\* disabled there, unless a blacklist of satellites has come after it
\* (gnssSvTypeConfigUpdate and the restart, gps/gnss/GnssAdapter.cpp).
ConstellationsServed ==
  ControlSettled =>
    /\ modem.enabled = mGnssSvTypeConfig.enabled
    /\ svTypeLast => {c \in Constellation : modem.black[c] = "all"}
                       = mGnssSvTypeConfig.black
=============================================================================
