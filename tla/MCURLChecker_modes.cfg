SPECIFICATION Spec
CONSTANTS
  Hashes = {1, 2, 3}
  Prefix <- MCPrefix
  Expressions <- MCExpressions
  Requests = {r1, r2}
  UrlLists <- Both
  Modes = {"local-list", "real-time"}
  ListVersions <- SomeLists
  CacheCapacity = 1
  BatchSize = 1
  Changing = {}
  Canceling = {}
  MaxTtl = 1
  MaxLatency = 0
  MaxTime = 0
SYMMETRY Symmetry
INVARIANTS ThreatsReported AskedOnce
CHECK_DEADLOCK FALSE
