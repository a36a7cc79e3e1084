SPECIFICATION Spec
CONSTANTS
  Questions = {1, 2, 3}
  w1 = w1
  w2 = w2
  Workers = {w1, w2}
  SetSize = 2
  Goals = {1, 2}
  Days = 3
  MaxRequests = 5
  MaxKills = 1
  Scopes = {{}, {2, 3}, {1, 2, 3}}
  Hard = {2}
  PassPct = 70
  Uses = {"today", "scope", "attempt", "watch", "settings", "rebuild"}
SYMMETRY WorkerSymmetry
INVARIANTS TypeOK CycleOnce ActivityAgrees AttemptsStay
PROPERTIES StreakHolds
CHECK_DEADLOCK FALSE
