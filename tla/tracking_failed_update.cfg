CONSTANTS
  c1 = c1
  c2 = c2
  Nobody = Nobody
  Client = {c1}
  MuteClient = {}
  MaxId = 1
  Interval = {1, 2}
  Power = {1}
  Distance = {FALSE}
  MinTrackingInterval = 1
  DistanceSupported = FALSE
  EngineMayFail = TRUE
  MaxQueue = 1
  MaxUpdates = 1
  MaxStops = 1
  MaxCrashes = 0
  MaxReconfigs = 0
  MaxNHz = 0
SPECIFICATION Spec
CHECK_DEADLOCK FALSE
INVARIANTS
  StopIsFinal
