SPECIFICATION FairSpec
CONSTANTS
  NumRuns = 1
  KindOf <- OneReelRun
  NumChunks = 1
  Stems = {"s1"}
  Workers = {1, 2}
  MaxAttempts = 2
  MaxTasksPerRun = 2
  MaxRunsPerDay = 2
  OutputCap <- OneItem
  MaxOpenRequests = 0
  Sequential = FALSE
  Exclusive = {"start", "sweep"}
  Uses = {"claim", "complete", "fail", "finish", "sweep", "start", "die", "notes", "heartbeat", "media"}
INVARIANTS OpenRunCountsItsWork ReelHasVideo
PROPERTIES DeadRunIsClosed GoneRunLosesItsClaims
CHECK_DEADLOCK FALSE
