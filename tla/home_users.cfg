SPECIFICATION Spec
CONSTANTS
  Ops = {p, q}
  Ranks = {r0, r1}
  Controller = r0
  Receipts = {1}
  Ids = {1, 2, 3, 4, 5, 6}
  Offered = {"add", "relocate", "remove", "prepare", "purge", "launch"}
  ColdAnswers = {"unavailable"}
  SamePath = TRUE
  Disturbances = {"appear", "replace", "tamper", "abort"}
  MaxDisturbances = 2
INVARIANTS ServingHasView
PROPERTIES OnlyInspectedTreesGo UsedHomeKept OccupiedHomeKept
SYMMETRY Symmetry
