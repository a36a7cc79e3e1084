SPECIFICATION Spec
CONSTANTS
  Docs = {1, 2}
  PageCount <- LongAndShort
  Stored = {1}
  Workers = {"w1", "w2"}
  Kinds = {"quiz"}
  MaxEdits = 2
  Racing = {}
  Claimers = {"q1", "q2"}
  KindOf <- QuizAndReel
  Size = 2
  Blank = {1}
  MaxMishaps = 1
INVARIANTS TypeOK TakesWaiting AvailableIsStored RangesStayValid
CHECK_DEADLOCK FALSE
