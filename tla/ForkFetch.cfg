SPECIFICATION BothSpec
CONSTANTS
  c1 = c1
  c2 = c2
  a1 = a1
  s1 = s1
  h1 = h1
  Clients <- MCClients
  AddrOf <- MCAddrOf
  AccountKeys = {}
  StorageKeys = {s1}
  HashKeys = {h1}
  Pins = {p0}
  UserVals = {u1}
  BlockFound = BlockFound
  KeccakEmpty = KeccakEmpty
  Absent = Absent
  NoReq = NoReq
  Direct = Direct
  MaxSends = 1
  Reqs = {r1, r2}
  InfoAnswers = {"ok", "err"}
INVARIANTS FlushKeepsFetched FailsOnlyOnSeparateCalls
PROPERTIES EveryCallReturns HandlerFinishes ImplementsStore EveryFetchResolves
CHECK_DEADLOCK FALSE
