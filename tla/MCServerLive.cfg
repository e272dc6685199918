SPECIFICATION FairSpec
CONSTANTS
  n1 = n1
  n2 = n2
  s1 = s1
  s2 = s2
  s3 = s3
  w1 = w1
  w2 = w2
  Nodes = {n1}
  Streams = {s1}
  NodeOf <- MCOneStream
  Workers = {w1}
  ShardOf <- MCShardOf
  QueueCap = 2
  VmPermits = 1
  OfflineAfter = 0
  MaxAhead = 0
  MaxMsgs = 2
  LastEvent = 1
  MaxTime = 2
  MaxRestarts = 1
  MaxLookups = 1
  DbMayFail = TRUE
INVARIANTS
  DatabaseNodesAreKnown
PROPERTIES
  AcceptedIsProcessed
  SilentNodeGoesOffline
CHECK_DEADLOCK FALSE
