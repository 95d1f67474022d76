CONSTANTS
  e1 = e1  e2 = e2
  w1 = w1  w2 = w2
  p1 = p1  p2 = p2
  Emails = {e1, e2}
  Identities = {w1, w2}
  Nobody = nobody
  Procs = {p1, p2}
SYMMETRY Symmetry
SPECIFICATION Spec
INVARIANTS FirstSignInWorks
