SPECIFICATION FairSpec
CONSTANTS
  Tasks = {"t1"}
  NumRuns = 1
  MaxAttempts = 2
  MaxInvalid = 2
  MaxFaults = 2
  FirstStage = "script"
  NewWork <- NewReelWork
  BegunWork <- BegunReelWork
  ScriptRounds = 2
  FixRounds = 1
  VisualRounds = 1
INVARIANTS TypeOK RendersAreBudgeted
PROPERTIES RunEnds
