CONSTANTS
  MaxSignIns = 1
  MaxRuns = 2
SPECIFICATION Spec
INVARIANTS LockHolds
CHECK_DEADLOCK FALSE
