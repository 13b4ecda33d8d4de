-------------------------- MODULE Components_proofs --------------------------
(***************************************************************************)
(* The components together.  A behaviour of all of them is, for each, one  *)
(* of its own, so that what is proved of a component by itself holds where *)
(* it is composed with the others, and of the behaviours that the run      *)
(* checks.                                                                 *)
(***************************************************************************)
EXTENDS MCComponents, AdapterServices_proofs, CoreUtils_proofs, Geofence_proofs

\* A step is one of the part that runs, and leaves the others as they are.
LEMMA StepOfOne ==
  [Next]_vars =>
    /\ [QueueNext]_queueVars
    /\ [TimerNext]_timerVars
    /\ [OdcpiNext]_odcpiVars
    /\ [NiNext]_niVars
    /\ [LocationApiNext]_apiVars
    /\ [GeofenceNext]_gfVars
    /\ [BatchingNext]_batchVars
    /\ [HeapNext]_heapVars
    /\ [LogNext]_logVars
    /\ [NetworkInfoNext]_netVars
    /\ [ClientRequestsNext]_requestVars
    /\ [EventMasksNext]_maskVars
BY Zenon DEF Next, vars, StillBut, QueueRuns, TimerRuns, OdcpiRuns, NiRuns, ApiRuns,
   GeofenceRuns, BatchingRuns, HeapRuns, LogRuns, NetworkRuns, RequestsRun, MasksRun

LEMMA InitOfAll ==
  Init =>
    /\ running \in Part
    /\ QueueInit
    /\ TimerInit
    /\ OdcpiInit
    /\ NiInit
    /\ LocationApiInit
    /\ GeofenceInit
    /\ BatchingInit
    /\ HeapInit
    /\ LogInit
    /\ NetworkInfoInit
    /\ ClientRequestsInit
    /\ MaskInit
BY Zenon DEF Init

\* What the composition does is, of each component, what its own specification allows.
THEOREM RunsEach ==
  Spec => /\ QueueSpec /\ TimerSpec /\ OdcpiSpec /\ NiSpec /\ LocationApiSpec
          /\ GeofenceSpec /\ BatchSpec /\ HeapSpec /\ LogSpec
          /\ NetworkSpec /\ RequestSpec /\ MaskSpec
<1>1. Spec => QueueSpec
  BY InitOfAll, StepOfOne, PTL DEF Spec, QueueSpec
<1>2. Spec => TimerSpec
  BY InitOfAll, StepOfOne, PTL DEF Spec, TimerSpec
<1>3. Spec => OdcpiSpec
  BY InitOfAll, StepOfOne, PTL DEF Spec, OdcpiSpec
<1>4. Spec => NiSpec
  BY InitOfAll, StepOfOne, PTL DEF Spec, NiSpec
<1>5. Spec => LocationApiSpec
  BY InitOfAll, StepOfOne, PTL DEF Spec, LocationApiSpec
<1>6. Spec => GeofenceSpec
  BY InitOfAll, StepOfOne, PTL DEF Spec, GeofenceSpec
<1>7. Spec => BatchSpec
  BY InitOfAll, StepOfOne, PTL DEF Spec, BatchSpec
<1>8. Spec => HeapSpec
  BY InitOfAll, StepOfOne, PTL DEF Spec, HeapSpec
<1>9. Spec => LogSpec
  BY InitOfAll, StepOfOne, PTL DEF Spec, LogSpec
<1>10. Spec => NetworkSpec
  BY InitOfAll, StepOfOne, PTL DEF Spec, NetworkSpec
<1>11. Spec => RequestSpec
  BY InitOfAll, StepOfOne, PTL DEF Spec, RequestSpec
<1>12. Spec => MaskSpec
  BY InitOfAll, StepOfOne, PTL DEF Spec, MaskSpec
<1>. QED  BY <1>1, <1>2, <1>3, <1>4, <1>5, <1>6, <1>7, <1>8, <1>9, <1>10, <1>11, <1>12

\* Whichever component runs, the state of every one has its type (the classes that
\* MCComponents composes).
THEOREM ComponentsTypeCorrect == Spec => []ComponentsTypeOK
<1>1. Spec => [](running \in Part)
  <2>1. running \in Part /\ [Next]_vars => (running \in Part)'
    BY Zenon DEF Next, vars, StillBut, QueueRuns, TimerRuns, OdcpiRuns, NiRuns, ApiRuns,
       GeofenceRuns, BatchingRuns, HeapRuns, LogRuns, NetworkRuns, RequestsRun, MasksRun
  <2>. QED  BY <2>1, InitOfAll, PTL DEF Spec
<1>2. /\ running \in Part
      /\ QueueTypeOK /\ TimerTypeOK /\ OdcpiTypeOK /\ NiTypeOK /\ LocationApiTypeOK
      /\ GeofenceTypeOK /\ BatchingTypeOK /\ LogTypeOK
      /\ NetworkInfoTypeOK /\ ClientRequestsTypeOK /\ EventMasksTypeOK
      => ComponentsTypeOK
  BY DEF ComponentsTypeOK
<1>. QED
  BY <1>1, <1>2, RunsEach, QueueTypeCorrect, TimerTypeCorrect, OdcpiTypeCorrect, NiTypeCorrect,
     LocationApiTypeCorrect, GeofenceTypeCorrect, BatchingTypeCorrect,
     LogTypeCorrect, NetworkTypeCorrect, RequestTypeCorrect, EventMasksTypeCorrect, PTL

\* What the components promise
ComponentsServe ==
  /\ NoDanglingDelegate /\ SoonestTimerArmed /\ HeapServesHighest /\ LogLevelsThreaded
  /\ ActiveTimerExpires /\ NiAnsweredOnce /\ EngineReportsWhatIsNeeded
  /\ AutoReportRegistered /\ BatchingServed /\ GeofencesServed /\ RemovedStaysRemoved
  /\ HandlesFollowNetworks
  /\ DeletedClientUnknown /\ RequestsMatchAnswers

\* Composed, the components keep all that each promises by itself, and the queue is
\* the channel that the others take it for (the classes that MCComponents composes).
THEOREM AllServe == Spec => []ComponentsServe /\ QueueIsFifo
<1>1. /\ NoDanglingDelegate /\ SoonestTimerArmed /\ HeapServesHighest /\ LogLevelsThreaded
      /\ ActiveTimerExpires /\ NiAnsweredOnce /\ EngineReportsWhatIsNeeded
      /\ AutoReportRegistered /\ BatchingServed /\ GeofencesServed /\ RemovedStaysRemoved
      /\ HandlesFollowNetworks
      /\ DeletedClientUnknown /\ RequestsMatchAnswers
      => ComponentsServe
  BY DEF ComponentsServe
<1>. QED
  BY <1>1, RunsEach, NoneDangles, SoonestAlwaysArmed, TopIsHighest, LevelsStayThreaded,
     ActiveTimerAlwaysExpires, AnsweredAtMostOnce, EngineReports, BatchFullStaysRegistered,
     EngineCollects, EngineWatches, RemovedStayUnknown, HandlesFollow, DeletedClientsStayUnknown, RequestsGetTheirAnswers,
     QueueImplementsChannel, PTL
=============================================================================
