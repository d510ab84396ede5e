CONSTANTS
  c1 = c1
  x1 = x1
  ann = ann
  bob = bob
  cy = cy
  k1 = k1
  k2 = k2
  cheap = cheap
  dear = dear
  here = here
  there = there
  None = None
  Commitment = {c1, x1}
  Issued = {c1}
  OriginalRecipient <- MCOriginalRecipient
  Address = {ann, bob, cy}
  Secret = {k1, k2}
  Price = {cheap, dear}
  MaxSequence = 3
  MaxRecords = 4
  Network = {here, there}
  DestinationNetwork = here
  MinConfirmations = 1
  Feed <- MCFeed
  Artifacts <- MCArtifacts
SPECIFICATION Spec
INVARIANTS
  HistorySound
  NoDoubleSale
PROPERTIES
  NothingUndone
  IsARegister
CHECK_DEADLOCK FALSE
