SPECIFICATION Spec
CONSTANTS
  Ranks = {0, 1, 2}
  Models = {"small", "large"}
  Size <- Sizes
  Hub <- Hubs
  Meta = 1
  Home <- FirstRank
  Disk = 6
  Cap = 3
  Reserve = 2
  SharedTmp = TRUE
  MaxOutside = 2
  MaxFaults = 2
INVARIANTS CapKept ReserveKept
CHECK_DEADLOCK FALSE
