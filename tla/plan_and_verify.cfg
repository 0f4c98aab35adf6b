SPECIFICATION Spec
CONSTANTS
  Revs = {"r1", "r2"}
  Nodes = {"a", "b", "c"}
  Controller = "a"
  Users = {p, q}
  Ops = {p, q}
  MaxChanges = 3
  Files = {1, 2}
  MaxTicks = 3
  MaxHangups = 1
INVARIANTS CatalogFollowsHomes PlannedIsHome AcceptedWasWhole WitnessVouches
PROPERTIES SelectionsKept
SYMMETRY Symmetry
CHECK_DEADLOCK FALSE
