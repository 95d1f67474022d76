CONSTANTS
  a1 = a1  a2 = a2  j1 = j1  j2 = j2  q1 = q1
  Addresses = {a1, a2}
  Syncs = {j1}
  Screens = {q1}
  MaxAge = 1
  FetchDelay = 1
  LookupDelay = 1
  Unreadable = TRUE
  MaxTime = 2
SYMMETRY Symmetry
SPECIFICATION Spec
INVARIANTS OutageBlocks
