SPECIFICATION FairSpec
CONSTANTS
  Jobs = {j1, j2, j3, j4}
  NoJob = NoJob
  Claim = Claim
  MaxConcurrency = 3
  PoolSize = 2
  MaxCycles = 2
  MaxFailures = 2
INVARIANTS LocalBound NothingLeftBehind OneClaimAfterStop
PROPERTIES StopEnds ClaimedRuns PendingTaken
CHECK_DEADLOCK FALSE
