SPECIFICATION FairSpec
CONSTANTS
  Hashes = {1, 2, 3}
  Prefix <- MCPrefix
  Expressions <- MCExpressions
  Requests = {r1, r2}
  UrlLists <- Either
  Modes = {"real-time"}
  ListVersions <- FullOrNot
  CacheCapacity = 1
  BatchSize = 1
  Changing = {}
  Canceling = {r1}
  MaxTtl = 1
  MaxLatency = 0
  MaxTime = 0
PROPERTY Answered
CHECK_DEADLOCK FALSE
