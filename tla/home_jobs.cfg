SPECIFICATION FairSpec
CONSTANTS
  Ops = {p}
  Ranks = {r0, r1}
  Controller = r0
  Receipts = {1}
  Ids = {1, 2, 3, 4, 5, 6}
  Offered = {"add", "relocate", "remove", "restore", "archive", "receipt"}
  ColdAnswers = {"pending", "unavailable"}
  SamePath = FALSE
  Disturbances = {"vanish", "archive-rot", "controller-loss", "abort"}
  MaxDisturbances = 1
INVARIANTS CompleteJobHasRecoverySet
PROPERTIES OccupancyVerified DetachKeepsRecovery PendingJobSettles RetriedJobSettles
