CONSTANTS
  s1 = s1  s2 = s2
  Servers = {s1, s2}
  OldUser = old
  NewUser = new
  Chains = {"ethereum"}
  Keys = {k1, k2}
  FirstKey = k1
  MaxWallets = 2
  Ops = {"create", "email", "recover"}
SYMMETRY Symmetry
SPECIFICATION Spec
\* Both are refuted: to see the second, take out the first.
INVARIANTS OneWalletPerChain
PROPERTIES
  MoveIsFinal
