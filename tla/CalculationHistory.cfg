CONSTANTS
  Scenarios = {s1}
  Defaults = {}
  Tasks = {t1, t2}
  Workers = {w1, w2}
  Clients = {c1, c2}
  Requests = {"calculate", "upload"}
  MaxFaults = 1
  NoScenario = NoScenario
  NoTask = NoTask
  Upload = Upload
SPECIFICATION HistorySpec
CONSTRAINT Explored
SYMMETRY Symmetry
CHECK_DEADLOCK FALSE
INVARIANTS
  OneHeadroomUnlessRivals
  OneCalculationAtATime
  NewestResultShown
