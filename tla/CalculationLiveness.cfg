CONSTANTS
  Scenarios = {s1}
  Defaults = {}
  Tasks = {t1}
  Workers = {w1, w2}
  Clients = {c1}
  Requests = {"calculate"}
  MaxFaults = 2
  NoScenario = NoScenario
  NoTask = NoTask
  Upload = Upload
SPECIFICATION FairSpec
CHECK_DEADLOCK FALSE
INVARIANTS
  SuccessWasSaved
  NoTaskLost
PROPERTIES
  ImplementsLedger
