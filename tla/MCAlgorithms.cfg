SPECIFICATION Spec
CONSTANTS
  ByteBits = 2
  Width = 2
  QuotientBits = 3
  PrefixOf <- MCPrefixOf
  MaxInt = 31
  MaxFailures = 8
  MaxEntries = 3
  MaxBits = 8
  MaxRaw = 4
  MaxPath = 10
INVARIANTS RiceInverse MergeAgrees SpellingIgnored ExpressionsComplete Enforced BackoffDoubles
CHECK_DEADLOCK FALSE
