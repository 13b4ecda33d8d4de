CONSTANTS
  h1 = h1
  h2 = h2
  Handle = {h1, h2}
  EmergencyPdn = TRUE
  BadApn = FALSE
  MaxRequests = 2
  MaxLosses = 0
SPECIFICATION Spec
INVARIANTS
  NoIdleCall
