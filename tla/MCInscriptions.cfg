SPECIFICATION Spec
CONSTANTS
  Text <- MCText
  Width <- MCWidth
  Script <- MCScript
  Burns <- MCBurns
  Purse <- MCPurse
  Others <- MCOthers
  Upgrade <- MCUpgrade
  MARGINAL_FEE = 5000
  DUST = 546
  DEFAULT_EXPIRY_DELTA = 2
  MinConfirmations = 2
  AcceptProtocols = {"stamp-exp"}
  Stamp = {1, 2, 3}
  StartTip = 10
  MaxTip = 13
  MaxMade = 2
  MaxOthers = 1
  MaxReorgs = 1
INVARIANTS
  PairsPayTheirWay
  StaysMinable
  FirstClaimsCount
  PublicationCounts
PROPERTIES
  StampsOnlyGrow
CHECK_DEADLOCK FALSE
