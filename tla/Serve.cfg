SPECIFICATION FairSpec
CONSTANTS
  Requests = {r1, r2, r3}
INVARIANTS Joined StoppedOnRequest UpdaterFailureReported
PROPERTY ServeReturns
CHECK_DEADLOCK FALSE
