\* Two lists in one batch, no store, and every fault that a response may have.
SPECIFICATION WireSpec
CONSTANTS
  Names <- AandB
  Selected <- AandB
  Width <- MCWidth
  Content <- MCContent
  Replies <- MCReplies
  WireReplies <- MCWireReplies
  Position <- MCPosition
  RetryAfters = {0, 2}
  Callers = {c1}
  HasStore = FALSE
  InitialStores <- NothingStored
  RetryInitial = 1
  RetryMax = 2
  MaxFailures = 2
  MaxTime = 3
  Horizon = 5
  BadHash = 9
INVARIANTS
  ServerDeadlinesHonoured NothingDueAsleep
PROPERTIES
  Implements OnlyFaultyInvalidated
