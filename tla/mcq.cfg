SPECIFICATION Spec
CONSTANTS
  t1 = t1
  t2 = t2
  Tasks = {t1, t2}
  NumRuns = 1
  MaxAttempts = 1
  MaxInvalid = 2
  MaxFaults = 1
  FirstStage = "write"
  NewWork <- NewQuizWork
  BegunWork <- BegunQuizWork
  a = a
  b = b
  c = c
  Questions = {a, b, c}
  PerChunk = 2
  MaxRounds = 2
SYMMETRY Symmetry
INVARIANTS TypeOK FileNamesTheClaim OneClaimPerRun
PROPERTIES StoresWhatReviewAllows
