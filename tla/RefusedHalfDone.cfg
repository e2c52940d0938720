CONSTANTS
  NoCase = NoCase
  NoNumber = NoNumber
  d1 = d1
  d2 = d2
  Dirs = {d1, d2}
  Numbers = {"b1", "b2", "b3", "b9"}
  CaseNames = {"case", "other"}
  Codes = {"summer", "winter"}
  Contents <- MCContents
  Rewritten <- MCRewritten
  MaxNetworks = 3
  MaxStarts = 2
  MaxChanges = 0
  MaxCrashes = 0
SPECIFICATION Spec
INVARIANTS
  RefusedIsWhole
CHECK_DEADLOCK FALSE
