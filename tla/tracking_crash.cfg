CONSTANTS
  c1 = c1
  c2 = c2
  Nobody = Nobody
  Client = {c1, c2}
  MuteClient = {}
  MaxId = 2
  Interval = {1, 2}
  Power = {1}
  Distance = {FALSE}
  MinTrackingInterval = 1
  DistanceSupported = FALSE
  EngineMayFail = FALSE
  MaxQueue = 1
  MaxUpdates = 1
  MaxStops = 1
  MaxCrashes = 1
  MaxReconfigs = 1
  MaxNHz = 1
SPECIFICATION Spec
SYMMETRY Symmetry
CONSTRAINT CrashOrChange
CHECK_DEADLOCK FALSE
INVARIANTS
  EngineServesSessions
PROPERTIES
  OnlyLateOutcomesRevive
