CONSTANTS
  r1 = r1
  r2 = r2
  r3 = r3
  Process = {"server", "worker"}
  Request = {r1, r2, r3}
  host <- MChost
  Puts <- MCPuts
  FileProcess = {"server"}
  Torn = Torn
  Environment <- MCEnvironment
  MIGRATIONS = 2
  WidePool = 2
  MaxFaults = 2
  Nobody = Nobody
  Nothing = Nothing
SPECIFICATION Spec
INVARIANTS
  MigrationsRunAlone
  RowsReadBack
PROPERTIES
  KeepsItsPromise
  EveryRequestServed
CHECK_DEADLOCK FALSE
