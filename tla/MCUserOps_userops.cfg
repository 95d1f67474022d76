CONSTANTS
  d1 = d1  d2 = d2  account = account
  k1 = k1  k2 = k2  none = none
  p1 = p1
  Addresses = {d1, d2}
  Lists <- SomeLists
  Account = account
  Keys = {k1, k2}
  FirstOwner = k1
  NoKey = none
  InitCodes <- SomeInitCodes
  Procs = {p1}
  Half = 4
  CallDatas <- SomeCallDatas
  Estimates = {0, 3}
  Prices = {1}
  Sponsorships <- SomeSponsorships
  Cuts = {3}
  MaxNonce = 2
  MaxSigned = 2
  MaxSends = 2
SPECIFICATION Spec
INVARIANTS
  TypeOK
  HashesSurvive
  ScreenedWhenSent
  OldKeyStops
CHECK_DEADLOCK FALSE
