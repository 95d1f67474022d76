CONSTANTS
  s1 = s1  s2 = s2
  Servers = {s1, s2}
  OldUser = old
  NewUser = new
  Chains = {"ethereum", "solana"}
  Keys = {k1, k2}
  FirstKey = k1
  MaxWallets = 2
  Ops = {"create", "recover"}
SYMMETRY Symmetry
CHECK_DEADLOCK FALSE
SPECIFICATION Spec
INVARIANTS MovesEveryWallet
