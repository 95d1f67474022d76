CONSTANTS
  s1 = s1  s2 = s2
  Servers = {s1, s2}
  OldUser = old
  NewUser = new
  Chains = {"ethereum"}
  Keys = {k1, k2}
  FirstKey = k1
  NextKey = k2
  BatchSize = 1
  MaxDeaths = 1
  MaxWallets = 2
  Ops = {"create", "hsm", "email", "recover"}
SPECIFICATION RotSpec
INVARIANTS
  RotTypeOK
  OnlyStaleSaveLoses
PROPERTIES
  RotatedStaysRotated
  OnlyStaleSaveUndoesMove
  RotationEnds
CHECK_DEADLOCK FALSE
