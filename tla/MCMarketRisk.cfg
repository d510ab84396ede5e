CONSTANTS
  c1 = c1
  ann = ann
  bob = bob
  cy = cy
  None = None
  Commitment = {c1}
  Issued = {c1}
  OriginalRecipient <- MCOriginalRecipient
  Address = {ann, bob, cy}
  MaxListings = 2
  Secret <- MCSecret
  Price = {1}
  MaxSequence = 2
  Network = {"zcash"}
  DestinationNetwork = "zcash"
  MinConfirmations = 2
  ConfirmationCap = 2
  HTLC_TIMEOUT_BLOCKS = 1
  MaxHeight = 104
  Giver = {}
SPECIFICATION MarketSpec
INVARIANTS
  BuyerNeverAtRisk
CHECK_DEADLOCK FALSE
