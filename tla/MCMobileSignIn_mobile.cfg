CONSTANTS
  MaxSignIns = 2
  MaxRuns = 2
SPECIFICATION Spec
INVARIANTS
  TypeOK
  SignedInHasToken
  SignedOutStaysOut
CHECK_DEADLOCK FALSE
