SPECIFICATION Spec
CONSTANTS
  Ops = {p}
  Ranks = {r0, r1}
  Controller = r0
  Receipts = {1}
  Ids = {1, 2, 3, 4, 5, 6}
  Offered = {"add", "remove", "restore"}
  ColdAnswers = {"pending"}
  SamePath = FALSE
  Disturbances = {"vanish"}
  MaxDisturbances = 1
INVARIANTS LostHomeRestorable
