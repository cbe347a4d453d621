CONSTANTS
  NDev = 2
  NQueue = 2
  MaxAvail <- MCMaxAvail
  Manual <- MCManual
SPECIFICATION FairSpec
INVARIANTS NoStrandedRequest
PROPERTIES EventuallyReached StopEndsWorker
