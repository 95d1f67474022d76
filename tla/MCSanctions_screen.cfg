CONSTANTS
  a1 = a1  a2 = a2  j1 = j1  j2 = j2  q1 = q1
  Addresses = {a1}
  Syncs = {j1, j2}
  Screens = {q1}
  MaxAge = 1
  FetchDelay = 1
  LookupDelay = 1
  Unreadable = FALSE
  MaxTime = 4
SPECIFICATION Spec
INVARIANTS
  TypeOK
PROPERTIES
  ListedIsBlocked
  ListHeals
