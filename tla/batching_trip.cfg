CONSTANTS
  BatchClient = {"b1"}
  MaxBatching = 2
  MaxBatchCommands = 3
  MaxBatchCrashes = 1
SPECIFICATION Spec
PROPERTIES
  BatchFullUnregistered
CHECK_DEADLOCK FALSE
