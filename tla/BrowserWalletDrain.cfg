SPECIFICATION Spec
CONSTANTS
  t1 = t1
  g1 = g1
  k1 = k1
  w1 = w1
  w2 = w2
  Calls = {t1}
  KindOf <- MCKindOf
  FromOf <- MCFromOf
  Wallets = {w1}
  Handlers = {h1}
  Clones = {s1}
  None = None
INVARIANTS DisconnectFailsAllPending
CHECK_DEADLOCK FALSE
