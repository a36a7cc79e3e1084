SPECIFICATION Spec
CONSTANTS
  Docs = {1}
  PageCount <- TwoPages
  Stored = {1}
  Workers = {"w1"}
  Kinds = {"quiz", "reel"}
  MaxEdits = 2
  Racing = {}
  Claimers = {"q1", "r1"}
  KindOf <- QuizAndReel
  Size = 2
  Blank = {1}
  MaxMishaps = 1
INVARIANTS RangeDoneMeansHandled
CHECK_DEADLOCK FALSE
