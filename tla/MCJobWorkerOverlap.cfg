CONSTANTS
  Caller = {"p1", "p2"}
  MaxJobs = 2
  Amount <- MCAmount
  InitialSupply = 4
  InitialFunds = 5
  MinConfirms = 2
  ReorgDepth = 0
  MaxReorgs = 0
  MaxCrashes = 0
  None = None
SPECIFICATION Spec
INVARIANTS
  StampsWereBurned
CHECK_DEADLOCK FALSE
