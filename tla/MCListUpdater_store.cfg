\* One list and a store, two callers, crashes.
SPECIFICATION Spec
CONSTANTS
  Names <- AandX
  Selected <- JustA
  Width <- MCWidth
  Content <- MCContent
  Replies <- EveryFault
  RetryAfters = {0, 2}
  Callers = {c1, c2}
  HasStore = TRUE
  InitialStores <- ManyStores
  RetryInitial = 1
  RetryMax = 2
  MaxFailures = 2
  MaxTime = 4
  Horizon = 9
  BadHash = 9
SYMMETRY Symmetry
INVARIANTS
  TypeOK OneOperation ReadyMeansLoaded ListsMatchService CleanMeansSaved
  SavesRestorable ServerDeadlinesHonoured NeverPredates NothingDueAsleep
PROPERTY UnreadableKept
