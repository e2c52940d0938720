CONSTANTS
  api = api
  startup = startup
  org = org
  user = user
  NoNode = NoNode
  NoScenario = NoScenario
  Importers = {api}
  Api = {api}
  Refs = {org, user}
  Shared = {user}
  BusAt <- MCBusAt
  OldRows <- MCOldRows
  OldRefs <- MCOldRefs
  Abroad <- MCAbroad
  Payloads <- MCPayloads
  MaxImports = 2
  MaxCrashes = 0
SPECIFICATION Spec
PROPERTIES
  FailureReplacesNothing
CHECK_DEADLOCK FALSE
