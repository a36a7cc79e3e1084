SPECIFICATION Spec
CONSTANTS
  NumRuns = 2
  KindOf <- TwoQuizRuns
  NumChunks = 1
  Stems = {"s1"}
  w1 = w1
  w2 = w2
  Workers = {w1, w2}
  MaxAttempts = 2
  MaxTasksPerRun = 1
  MaxRunsPerDay = 2
  OutputCap <- NoCaps
  MaxOpenRequests = 1
  Sequential = TRUE
  Exclusive = {"retry", "start", "sweep", "wanted"}
  Uses = {"claim", "complete", "fail", "finish", "start", "retry", "wanted", "request"}
SYMMETRY WorkerSymmetry
INVARIANTS TypeOK DoneIffOutput AttemptsLeft LeaseIffClaimed RunCapHolds
PROPERTIES ImplementsLedger
CHECK_DEADLOCK FALSE
