CONSTANTS
  c1 = c1
  c2 = c2
  Nobody = Nobody
  Client = {c1}
  MuteClient = {}
  MaxId = 2
  Interval = {1, 2}
  Power = {1}
  Distance = {TRUE, FALSE}
  MinTrackingInterval = 1
  DistanceSupported = TRUE
  EngineMayFail = FALSE
  MaxQueue = 1
  MaxUpdates = 1
  MaxStops = 1
  MaxCrashes = 0
  MaxReconfigs = 0
  MaxNHz = 0
SPECIFICATION FairSpec
CHECK_DEADLOCK FALSE
INVARIANTS
  RequestServesSessions
PROPERTIES
  EveryCommandAnswered
