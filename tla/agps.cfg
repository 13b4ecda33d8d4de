CONSTANTS
  h1 = h1
  h2 = h2
  Handle = {h1, h2}
  EmergencyPdn = TRUE
  BadApn = TRUE
  MaxRequests = 3
  MaxLosses = 1
SPECIFICATION FairSpec
INVARIANTS
  TypeOK
  StatusMatchesState
  ReleaseNamesRequest
  AcquiredMeansCallUp
PROPERTIES
  AnsweredOnce
  RequestAnswered
