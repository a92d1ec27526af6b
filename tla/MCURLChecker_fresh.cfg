SPECIFICATION Spec
CONSTANTS
  Hashes = {1, 2, 3}
  Prefix <- MCPrefix
  Expressions <- MCExpressions
  Requests = {r1, r2}
  UrlLists <- Either
  Modes = {"real-time"}
  ListVersions <- FullLists
  CacheCapacity = 1
  BatchSize = 2
  Changing = {1}
  Canceling = {}
  MaxTtl = 1
  MaxLatency = 1
  MaxTime = 2
SYMMETRY Symmetry
INVARIANTS CacheAgrees ThreatsReported ThreatsReal
CHECK_DEADLOCK FALSE
