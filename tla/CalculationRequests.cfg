CONSTANTS
  Scenarios = {s1, s2}
  Defaults = {s1}
  Tasks = {t1}
  Workers = {w1}
  Clients = {c1, c2}
  Requests = {"calculate", "upload", "remove", "import", "topology"}
  MaxFaults = 0
  NoScenario = NoScenario
  NoTask = NoTask
  Upload = Upload
SPECIFICATION Spec
SYMMETRY Symmetry
CHECK_DEADLOCK FALSE
INVARIANTS
  TypeOK
