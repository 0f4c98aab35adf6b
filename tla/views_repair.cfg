SPECIFICATION RepairSpec
CONSTANTS
  Ops = {p}
  Targets = {0, 1}
  MaxFaults = 1
  MaxDisturbances = 1
PROPERTIES Repairable
