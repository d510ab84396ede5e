CONSTANTS
  Caller = {"p1"}
  MaxJobs = 3
  Amount <- MCAmount
  InitialSupply = 5
  InitialFunds = 3
  MinConfirms = 3
  ReorgDepth = 2
  MaxReorgs = 2
  MaxCrashes = 2
  None = None
SPECIFICATION Spec
INVARIANTS
  ShownStandsOnChain
  OnePublication
PROPERTIES
  OutcomeIsFinal
  BurnIsStamped
CHECK_DEADLOCK FALSE
