CONSTANTS
  e0 = e0  e1 = e1  e2 = e2  e3 = e3
  p1 = p1  p2 = p2
  Emails = {e0, e1, e2, e3}
  OwnerEmail = e0
  MaxGuardians = 2
  MinGuardians = 2
  InviteTTL = 1
  Procs = {p1, p2}
  MaxRows = 3
  MaxTime = 3
SYMMETRY Symmetry
SPECIFICATION Spec
INVARIANTS
  TypeOK
  OverLimitByHandlersInFlight
PROPERTIES
  RemovalSettles
CHECK_DEADLOCK FALSE
