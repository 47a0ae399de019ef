SPECIFICATION Spec
CONSTANTS
  base = base
  token = token
  plain = plain
  stub = stub
  v1 = v1
  v2 = v2
  p1 = p1
  p2 = p2
  x0 = x0
  x1 = x1
  e0 = e0
  Files = {plain, base}
  SrcFiles = {base}
  Imports <- MCImports
  Mocks = {}
  Libraries = {base}
  Order <- MCOrder
  Contents = {x0, x1, e0}
  Iface <- MCIface
  Barren = {e0}
  Profiles = {p1, p2}
  Options = {o1, o2}
  JobOf <- MCJobOf
  Scopes <- MCScopes
  Modes = {{}, {"cached"}}
  Editable = {base}
  MaxEdits = 2
  None = None
INVARIANTS ReusedMatchesSources
