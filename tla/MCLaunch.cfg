CONSTANTS
  MaxMints = 1
  MaxSwaps = 1
  MaxBurns = 1
  MaxFaults = 1
  MaxPolls = 1
  Modes = {"demo", "mainnet"}
  Task = {1, 2}
  Need = 2
  Held = {1}
  Window = 2
  Blank = Blank
  None = None
  Lost = Lost
SPECIFICATION Spec
INVARIANTS
  RowsAreLaunches
  HydratedTxSucceeded
  BurnAccountedFor
PROPERTIES
  ApprovalEnds
CHECK_DEADLOCK FALSE
