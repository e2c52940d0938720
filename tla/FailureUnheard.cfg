CONSTANTS
  s1 = s1
  s2 = s2
  t1 = t1
  t2 = t2
  Scenarios = {s1}
  Tasks = {t1}
  Sockets = {h1}
  ScenarioOf <- OneTask
  Unreadable = {}
  MaxReports = 3
  MaxAsked = 1
  NoTask = NoTask
  Unknown = Unknown
  Nobody = Nobody
SPECIFICATION FairSpec
CHECK_DEADLOCK FALSE
PROPERTIES
  FailureIsHeard
