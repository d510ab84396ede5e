CONSTANTS
  c1 = c1
  ann = ann
  bob = bob
  cy = cy
  k1 = k1
  None = None
  Commitment = {c1}
  Issued = {c1}
  OriginalRecipient <- MCOriginalRecipient
  Address = {ann, bob, cy}
  Secret = {k1}
  Price = {1}
  MaxSequence = 2
  Network = {"zcash"}
  DestinationNetwork = "zcash"
  MinConfirmations = 2
  Artifact <- MCArtifact
  Withheld <- MCWithheldGift
  MaxBlocks = 5
SPECIFICATION ReplaySpec
PROPERTIES
  NoTheftByWithholding
CHECK_DEADLOCK FALSE
