CONSTANTS
  r1 = r1
  t1 = t1  t2 = t2
  c1 = c1  c2 = c2
  MaxSends = 1
  MaxReviews = 1
  SelfSigned = {}
  SignedTxs = {}
  Confirms = {}
  Chains = {"ethereum", "polygon"}
  Platforms = {"web"}
SPECIFICATION Spec
INVARIANTS BroadcastOnItsChain
