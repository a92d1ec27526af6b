\* A snapshot of another format whose JSON has another shape.
SPECIFICATION Spec
CONSTANTS
  Names <- JustA
  Selected <- JustA
  Width <- MCWidth
  Content <- MCContent
  Replies <- FewReplies
  RetryAfters = {0, 2}
  Callers = {c1}
  HasStore = TRUE
  InitialStores <- OtherShape
  RetryInitial = 1
  RetryMax = 2
  MaxFailures = 2
  MaxTime = 3
  Horizon = 9
  BadHash = 9
PROPERTY NewerFormatKept
