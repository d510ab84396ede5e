CONSTANTS
  gold = gold
  sol = sol
  ann = ann
  home = home
  here = here
  near = near
  None = None
  Mint = {gold, sol}
  NativeMint = sol
  Holder = {ann}
  Destination = {home}
  ValidDestination = {home}
  SourceNetwork = {here}
  DestNetwork = {near}
  Source = here
  Dest = near
  MinConfirmations = 3
  Burns <- MCBurns
  Txid = {1, 2, 3, 4}
  MaxHeight = 6
SPECIFICATION ReplaySpec
PROPERTIES
  AcceptedStays
CHECK_DEADLOCK FALSE
