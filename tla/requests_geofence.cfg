CONSTANTS
  FenceId = {"f1"}
  NiId = {1}
  MaxClientCalls = 4
SPECIFICATION Spec
INVARIANT GeofenceResponsesMatch
CHECK_DEADLOCK FALSE
