SPECIFICATION Spec
CONSTANTS
  n1 = n1
  n2 = n2
  c1 = c1
  r1 = r1
  Nodes = {n1, n2}
  Clients = {c1}
  Requests = {r1}
  Interest <- MCOne
  ChanCap = 2
  MaxSnapshots <- MCSnapshots
  MaxUpdates = 4
INVARIANTS
  TypeOK
  NewestReachesClient
  LagSkipsOnlyOverwritten
CHECK_DEADLOCK FALSE
