CONSTANTS
  NoCase = NoCase
  NoNumber = NoNumber
  d1 = d1
  d2 = d2
  Dirs = {d1, d2}
  Numbers = {"b1", "b2", "b3", "b9"}
  CaseNames = {"case", "other"}
  Codes = {"summer", "winter"}
  Contents <- MCContents
  Rewritten <- MCRewritten
  MaxNetworks = 3
  MaxStarts = 2
  MaxChanges = 2
  MaxCrashes = 1
SYMMETRY
  Directories
SPECIFICATION Spec
INVARIANTS
  TypeOK
  OneNetworkPerCase
  ImportedIsWhole
  DrawnBranchesAreLocated
PROPERTIES
  OnlyUnfinishedChange
  FineDirectoryImported
CONSTRAINT OneIsPlain
CHECK_DEADLOCK FALSE
