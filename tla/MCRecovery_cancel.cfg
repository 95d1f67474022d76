CONSTANTS
  g1 = g1  g2 = g2  g3 = g3
  p1 = p1  p2 = p2
  u1 = u1  u2 = u2
  Guardians = {g1, g2, g3}
  Requesters = {u1}
  Procs = {p1, p2}
  Owner = owner
  SameEmail <- NoSharedEmail
  MinGuardians = 3
  ApprovalWindow = 1
  TimeLock = 1
  Cooldown = 1
  MaxTime = 4
  MaxRequests = 1
  Ops = {"start", "decide", "cancel", "sweep"}
  Leaks = FALSE
SPECIFICATION Spec
INVARIANTS
  CancelHolds
