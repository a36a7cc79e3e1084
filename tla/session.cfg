SPECIFICATION FairSession
CONSTANTS
  Questions = {1, 2}
  Workers = {"w1", "w2"}
  NoWorker = "none"
  SetSize = 1
  Goals = {1}
  Days = 2
  MaxRequests = 1
  MaxKills = 2
  Scopes = {{}, {1, 2}}
  Hard = {2}
  PassPct = 70
  Uses = {"scope"}
PROPERTIES ResultIsCredited LearnerFinishes
CHECK_DEADLOCK FALSE
