SPECIFICATION Spec
CONSTANTS
  Runs = {1, 2}
  Criteria = {"errors", "soak"}
  Strict = {"errors"}
  Attempts <- SomeAttempts
  Plain <- PlainAttempt
  Stagers = {s, t}
  MaxDecisions = 3
  MaxTime = 2
  MaxKills = 1
  MaxDrifts = 1
INVARIANTS StatusFollowsTable ValidatedEarned QuietRegistryVerifies InterruptedStageResumes
PROPERTIES LaterReviewSupersedes
SYMMETRY Symmetry
CHECK_DEADLOCK FALSE
