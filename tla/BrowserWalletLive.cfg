SPECIFICATION FairSpec
CONSTANTS
  t1 = t1
  g1 = g1
  k1 = k1
  w1 = w1
  w2 = w2
  Calls = {k1}
  KindOf <- MCKindOf
  FromOf <- MCFromOf
  Wallets = {w1, w2}
  Handlers = {h1, h2}
  Clones = {s1}
  None = None
INVARIANTS KeyAuthorizationVerified
PROPERTIES EveryCallReturns
CHECK_DEADLOCK FALSE
