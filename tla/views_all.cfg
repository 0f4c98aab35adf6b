SPECIFICATION Spec
CONSTANTS
  Ops = {p, q}
  Targets = {0, 1, 2}
  MaxFaults = 2
  MaxDisturbances = 1
INVARIANTS ServedViewsUsable CleanupLeavesNothing
PROPERTIES MountedViewKept PinKept AbortSparesOthers KeepsPromise
SYMMETRY Symmetry
