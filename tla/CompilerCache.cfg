SPECIFICATION Spec
CONSTANTS
  base = base
  token = token
  plain = plain
  stub = stub
  v1 = v1
  v2 = v2
  p1 = p1
  p2 = p2
  x0 = x0
  x1 = x1
  e0 = e0
  Files = {base, token, plain, stub}
  SrcFiles = {base, token}
  Imports <- MCImports
  Mocks = {stub}
  Libraries = {base}
  Order <- MCOrder
  Contents = {x0, x1, e0}
  Iface <- MCIface
  Barren = {e0}
  Profiles = {p1, p2}
  Options = {o1, o2}
  JobOf <- MCJobOf
  Scopes <- MCScopes
  Modes = {{}, {"cached"}, {"cached", "preprocessed"}, {"cached", "sparse", "extra"}, {"cached", "generated"}}
  Editable = {base, stub}
  MaxEdits = 2
  None = None
INVARIANTS CacheDescribesArtifacts ReusedIsFresh OutputComplete Converges
