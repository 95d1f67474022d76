CONSTANTS
  g1 = g1  g2 = g2  g3 = g3
  p1 = p1  p2 = p2
  u1 = u1  u2 = u2
  Guardians = {g1}
  Requesters = {u1, u2}
  Procs = {p1, p2}
  Owner = owner
  SameEmail <- NoSharedEmail
  MinGuardians = 1
  ApprovalWindow = 1
  TimeLock = 1
  Cooldown = 1
  MaxTime = 3
  MaxRequests = 2
  Ops = {"start", "decide", "sweep"}
  Leaks = FALSE
SPECIFICATION Spec
\* Both are refuted: to see the second, take out the first.
INVARIANTS
  OneOpenPerAccount
PROPERTIES
  WalletsMoveOnce
