SPECIFICATION FairSpec
CONSTANTS
  n1 = n1
  n2 = n2
  s1 = s1
  s2 = s2
  s3 = s3
  w1 = w1
  w2 = w2
  Nodes = {n1}
  Streams = {s1}
  NodeOf <- MCOneStream
  Workers = {w1}
  ShardOf <- MCShardOf
  QueueCap = 1
  VmPermits = 1
  OfflineAfter = 1
  MaxAhead = 0
  MaxMsgs = 2
  LastEvent = 3
  MaxTime = 3
  MaxRestarts = 0
  MaxLookups = 0
  DbMayFail = FALSE
PROPERTIES
  OnlyInactiveGoOffline
CHECK_DEADLOCK FALSE
