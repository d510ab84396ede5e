CONSTANTS
  Absent = Absent
  Worker = {"tick"}
  Request = {"page"}
  Submission <- MCSubmission
  Burn <- MCBurn
  MinConfirms = 2
  Coins <- MCCoins
  Indexed = TRUE
  MaxRequests = 2
  MaxFaults = 1
SPECIFICATION Spec
INVARIANTS
  InscribedWasBurned
  JobsAndStampsAgree
  RejectedForCause
PROPERTIES
  JobsComeToRest
CHECK_DEADLOCK FALSE
