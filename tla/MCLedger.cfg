CONSTANTS
  gold = gold
  coal = coal
  sol = sol
  ann = ann
  bob = bob
  home = home
  away = away
  sapling = sapling
  here = here
  there = there
  near = near
  far = far
  None = None
  Mint = {gold, coal, sol}
  NativeMint = sol
  Holder = {ann, bob}
  Destination = {home, away, sapling}
  ValidDestination = {home, away}
  SourceNetwork = {here, there}
  DestNetwork = {near, far}
  Source = here
  Dest = near
  MinConfirmations = 1
  MaxTransactions = 4
  Feed <- MCFeed
  ZcashFeeds <- MCZcashFeeds
SPECIFICATION Spec
INVARIANTS
  OneRowPerBurn
  RowsSound
  ValidatorsAgree
CHECK_DEADLOCK FALSE
