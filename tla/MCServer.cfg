SPECIFICATION Spec
CONSTANTS
  n1 = n1
  n2 = n2
  s1 = s1
  s2 = s2
  s3 = s3
  w1 = w1
  w2 = w2
  Nodes = {n1, n2}
  Streams = {s1, s2, s3}
  NodeOf <- MCThreeStreams
  Workers = {w1, w2}
  ShardOf <- MCShardOf
  QueueCap = 1
  VmPermits = 1
  OfflineAfter = 1
  MaxAhead = 0
  MaxMsgs = 3
  LastEvent = 0
  MaxTime = 0
  MaxRestarts = 0
  MaxLookups = 0
  DbMayFail = TRUE
INVARIANTS
  TypeOK
  StorageKeepsStreamOrder
  EveryItemAccountedFor
CHECK_DEADLOCK FALSE
