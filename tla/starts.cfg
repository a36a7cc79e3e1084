SPECIFICATION Spec
CONSTANTS
  NumRuns = 3
  KindOf <- QuizzesAndReel
  NumChunks = 2
  Stems = {}
  w1 = w1
  w2 = w2
  Workers = {w1, w2}
  MaxAttempts = 2
  MaxTasksPerRun = 1
  MaxRunsPerDay = 1
  OutputCap <- NoCaps
  MaxOpenRequests = 1
  Sequential = TRUE
  Exclusive = {"retry", "start", "sweep", "wanted"}
  Uses = {"claim", "complete", "finish", "start", "switch"}
SYMMETRY WorkerSymmetry
INVARIANTS DailyCapHolds
CHECK_DEADLOCK FALSE
