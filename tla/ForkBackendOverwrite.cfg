SPECIFICATION Spec
CONSTANTS
  c1 = c1
  c2 = c2
  a1 = a1
  s1 = s1
  h1 = h1
  Clients <- MCClients
  AddrOf <- MCAddrOf
  AccountKeys = {a1}
  StorageKeys = {}
  HashKeys = {}
  Pins = {p0}
  UserVals = {u1}
  BlockFound = BlockFound
  KeccakEmpty = KeccakEmpty
  Absent = Absent
  NoReq = NoReq
  Direct = Direct
  MaxSends = 1
SYMMETRY Symmetry
PROPERTIES UserValuesNotOverwritten
CHECK_DEADLOCK FALSE
