CONSTANTS
  ann = ann
  bob = bob
  t1 = t1
  Key = {ann, bob}
  Address = {t1}
  MaxNonces = 3
  Tab = {1, 2}
  ConnectTab = {1}
  ProofTab = {2}
  MaxInFlight = 1
  SecretConfigured = FALSE
  MaxFaults = 1
  None = None
  Keep = Keep
  Gone = Gone
SPECIFICATION Spec
PROPERTY ProofsDoNotOutliveTheirSession
CHECK_DEADLOCK FALSE
