CONSTANTS
  QueueMsg = {"m1", "m2", "m3"}
  TimerClient = {"t1", "t2"}
  Delay = {1, 2}
  MaxStarts = 2
  MaxTime = 2
  MaxOdcpiEvents = 4
  MaxNi = 2
  NfwLocked = TRUE
  SuplEsNo = TRUE
  CpMtlrEs = TRUE
  Adapter = {"gnss", "batching"}
  ApiClient = {"c1", "c2"}
  MaxApiCalls = 1
  GfClient = {"g1"}
  GfOption = {1}
  MaxFences = 1
  MaxGfItems = 1
  MaxGfCommands = 3
  MaxGfCrashes = 1
  BatchClient = {"b1"}
  MaxBatching = 2
  MaxBatchCommands = 2
  MaxBatchCrashes = 1
  Rankable = {1, 2, 3, 4}
  Rank = {1, 2}
  LogLevel = {0, 1}
  LogTime = {0, 1}
  TimeModulus = 4
  TimeDepthThres = 1
  MaxNumThres = 2
  n1 = n1
  n2 = n2
  n3 = n3
  NoNetwork = NoNetwork
  Network = {n1, n2, n3}
  NetType = {"mobile", "wifi"}
  MaxHandles = 2
  MaxItem = 2
  MaxNetEvents = 4
  FenceId = {"f1", "f2"}
  NiId = {1, 2}
  MaxClientCalls = 4
  MaskClient = {"c1", "c2"}
  CallbackSet = {{"tracking", "nmea", "breach", "geofenceStatus"},
                 {"data", "sv", "measurements", "batching"}}
  NmeaFromModem = TRUE
  MaxMaskEvents = 4
SPECIFICATION Spec
INVARIANTS
  ComponentsTypeOK
  NoDanglingDelegate
  SoonestTimerArmed
  ActiveTimerExpires
  NiAnsweredOnce
  DeletedClientUnknown
  GeofencesServed
  RemovedStaysRemoved
  AutoReportRegistered
  BatchingServed
  HeapServesHighest
  LogLevelsThreaded
  HandlesFollowNetworks
  RequestsMatchAnswers
  EngineReportsWhatIsNeeded
PROPERTIES
  QueueIsFifo
  QueueMakesProgress
  TimerEnds
  DelayedRequestPassedOn
  NiRequestEnds
  DestroyCompletes
CHECK_DEADLOCK FALSE
