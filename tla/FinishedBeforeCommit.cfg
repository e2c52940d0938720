CONSTANTS
  Scenarios = {s1}
  Defaults = {}
  Tasks = {t1}
  Workers = {w1}
  Clients = {c1}
  Requests = {"calculate"}
  MaxFaults = 0
  NoScenario = NoScenario
  NoTask = NoTask
  Upload = Upload
SPECIFICATION Spec
SYMMETRY Symmetry
CHECK_DEADLOCK FALSE
INVARIANTS
  PendingIsPending
