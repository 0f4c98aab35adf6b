SPECIFICATION FairSpec
CONSTANTS
  Nodes = {0, 1, 2, 3}
  Keys = {0, 1, 2, 3, 9}
  Away = {1}
  Exhaustive = 2
  MaxChanges = 1
  MaxKills = 1
PROPERTIES RanksKept EnrollmentRepairs
CHECK_DEADLOCK FALSE
