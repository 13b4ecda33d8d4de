CONSTANTS
  ItemValue = {1, 2}
  HubItems = {{"tac", "screen"}}
  HubCalls = {"subscribe", "request", "unsubscribe"}
  MaxDataEvents = 4
SPECIFICATION DataItemsSpec
INVARIANTS
  SubscribedAtFramework
  XtraDaemonCurrent
CHECK_DEADLOCK FALSE
