CONSTANTS
  r1 = r1
  t1 = t1  t2 = t2
  c1 = c1  c2 = c2
  MaxSends = 2
  MaxReviews = 2
  SelfSigned = {r1}
  SignedTxs = {t1}
  Confirms = {c1}
  Chains = {"ethereum"}
  Platforms = {"web", "mobile"}
SPECIFICATION Spec
INVARIANTS
  TypeOK
  RecordOfEveryPayment
  AnswerIsDurable
PROPERTIES
  RepeatsAreRetries
