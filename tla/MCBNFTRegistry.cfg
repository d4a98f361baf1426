SPECIFICATION Spec
CONSTANTS
  EOAs = {e1}
  Contracts = {c1}
  Assets = {a1, a2}
  Symbolless = {a2}
  Codeless = {x1}
  Impls = {i1, i2}
  Calling = {i2}
  Proxies = {p1, p2, p3}
  Cashes = {d1}
  InitOwner = c1
  InitImpl = i1
  NewAdmins = {e1}
  None = None
  MaxDepth = 2
SYMMETRY ProxySymmetry
INVARIANTS TablesAgree NoOrphan
PROPERTIES BatchReachesAll ImplementsCatalogue
CHECK_DEADLOCK FALSE
