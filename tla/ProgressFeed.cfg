CONSTANTS
  s1 = s1
  s2 = s2
  t1 = t1
  t2 = t2
  Scenarios = {s1}
  Tasks = {t1}
  Sockets = {h1}
  ScenarioOf <- OneTask
  Unreadable = {t1}
  MaxReports = 3
  MaxAsked = 2
  NoTask = NoTask
  Unknown = Unknown
  Nobody = Nobody
SPECIFICATION FairSpec
CHECK_DEADLOCK FALSE
INVARIANTS
  TypeOK
PROPERTIES
  SuccessIsHeard
  LeavesTheHub
