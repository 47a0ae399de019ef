SPECIFICATION Spec
CONSTANTS
  Procs = {p1, p2}
  Envs = {e1, e2}
  Chains = {main}
  Items = {i1}
  NoMeta <- MCNoMeta
  TornTexts <- MCTornTexts
INVARIANTS EntriesMatchMeta CheckedServesOwnBlock
SYMMETRY Symmetry
