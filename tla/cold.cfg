SPECIFICATION Spec
CONSTANTS
  Roots = {a, b}
  Receipts = {x}
  Procs = {p, q}
  MaxTrouble = 1
INVARIANTS CompleteJobRecoverable StrandedOnlyInFlight
PROPERTY WrittenAsShown
SYMMETRY Symmetry
CHECK_DEADLOCK FALSE
