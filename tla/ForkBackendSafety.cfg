SPECIFICATION StateSpec
CONSTANTS
  c1 = c1
  c2 = c2
  a1 = a1
  s1 = s1
  h1 = h1
  Clients <- MCClients
  AddrOf <- MCAddrOf
  AccountKeys = {a1}
  StorageKeys = {}
  HashKeys = {}
  Pins = {p0, p1}
  UserVals = {u1}
  BlockFound = BlockFound
  KeccakEmpty = KeccakEmpty
  Absent = Absent
  NoReq = NoReq
  Direct = Direct
  MaxSends = 2
  Accts = {"a"}
  Slots = {"s1", "s2"}
  NoCode = NoCode
  Values = {0, 1}
  Remote <- MCRemote
SYMMETRY Symmetry
INVARIANTS OneFetchPerKey ListenersMatchFetches EachCallHeldOnce NoLostWakeup ForkStateSound
PROPERTIES AnswersAreCached FetchedValuesStable
CHECK_DEADLOCK FALSE
