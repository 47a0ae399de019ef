SPECIFICATION ServicesSpec
CONSTANTS
  t1 = t1
  g1 = g1
  k1 = k1
  w1 = w1
  w2 = w2
  Calls = {t1, g1}
  KindOf <- MCKindOf
  FromOf <- MCFromOf
  Wallets = {w1}
  Handlers = {h1, h2}
  Clones = {s1}
  None = None
  Absent = Absent
  SingleOpts <- MCSingle
  MultiOpts <- MCMulti
  Sessions = {"s", "t"}
  ChannelIds = {"c"}
  MaxAmount = 2
  Clients = {"x", "y"}
  Ttl = 2
  MaxTime = 3
  TreePaths <- MCTreePaths
INVARIANTS QueuesHoldLiveCalls RequestXorResponse OnlyRacersOutliveDisconnect WalletsSound CacheServesAnswers ExplorerSound PaymentsKept
SYMMETRY Symmetry
CHECK_DEADLOCK FALSE
