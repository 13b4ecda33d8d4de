CONSTANTS
  n1 = n1
  n2 = n2
  n3 = n3
  NoNetwork = NoNetwork
  Network = {n1, n2, n3}
  NetType = {"mobile", "wifi"}
  MaxHandles = 3
  MaxItem = 2
  MaxNetEvents = 5
SPECIFICATION RegularSpec
SYMMETRY NetworkSymmetry
CHECK_DEADLOCK FALSE
INVARIANTS
  NoTypesMeansNoConnection
