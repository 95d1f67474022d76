CONSTANTS
  s1 = s1  s2 = s2
  Servers = {s1, s2}
  OldUser = old
  NewUser = new
  Chains = {"ethereum"}
  Keys = {k1, k2}
  FirstKey = k1
  NextKey = k2
  BatchSize = 2
  MaxDeaths = 0
  MaxWallets = 2
  Ops = {"create", "email"}
SYMMETRY Symmetry
SPECIFICATION RotSpec
INVARIANTS NothingLost
CHECK_DEADLOCK FALSE
