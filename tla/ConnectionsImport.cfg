CONSTANTS
  api = api
  startup = startup
  org = org
  user = user
  NoNode = NoNode
  NoScenario = NoScenario
  Importers = {api, startup}
  Api = {api}
  Refs = {org, user}
  Shared = {user}
  BusAt <- MCBusAt
  OldRows <- MCOldRows
  OldRefs <- MCOldRefs
  Abroad <- MCAbroad
  Payloads <- MCPayloads
  MaxImports = 2
  MaxCrashes = 1
SPECIFICATION Spec
INVARIANTS
  TypeOK
PROPERTIES
  SuccessReplaces
  FailureKeepsOld
  DefaultSurvives
  DuplicatesNeedARace
CHECK_DEADLOCK FALSE
