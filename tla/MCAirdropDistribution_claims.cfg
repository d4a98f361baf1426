SPECIFICATION Spec
CONSTANTS
  bayc = bayc
  other = other
  apes = apes
  badges = badges
  EOAs = {e1}
  Contracts = {c1}
  Ids = {n1, n2}
  ERC20s = {}
  ERC721s = {apes}
  ERC1155s = {badges}
  Bound = {bayc}
  Unbound = {other}
  Coordinators = {v1}
  Offers <- OffersAll
  InitOwner = c1
  NewOwners = {}
  InitCoordinator = v1
  None = None
  MaxAirdrops = 1
  MaxRequests = 1
  MaxList = 2
  MaxStock = 1
SYMMETRY IdSymmetry
INVARIANTS PaidOnce ListFrozen
PROPERTIES AllOrNothing StockAgainstMark
CHECK_DEADLOCK FALSE
