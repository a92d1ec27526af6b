\* One caller of Run or Update, under fairness; deadlines end where the clock does.
SPECIFICATION FairSpec
CONSTANTS
  Names <- JustA
  Selected <- JustA
  Width <- MCWidth
  Content <- MCContent
  Replies <- FewReplies
  RetryAfters = {0, 2}
  Callers = {c1}
  HasStore = TRUE
  InitialStores <- FewStores
  RetryInitial = 1
  RetryMax = 2
  MaxFailures = 2
  MaxTime = 3
  Horizon = 3
  BadHash = 9
PROPERTIES CancelStops RunGetsReady RunSaves
