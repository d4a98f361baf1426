SPECIFICATION Spec
CONSTANTS
  bayc = bayc
  other = other
  apes = apes
  badges = badges
  EOAs = {e1}
  Contracts = {c1}
  Ids = {n1}
  ERC20s = {}
  ERC721s = {apes}
  ERC1155s = {}
  Bound = {bayc}
  Unbound = {other}
  Coordinators = {v1, v2}
  Offers <- OffersVRF
  InitOwner = c1
  NewOwners = {e1}
  InitCoordinator = v1
  None = None
  MaxAirdrops = 2
  MaxRequests = 2
  MaxList = 1
  MaxStock = 1
PROPERTIES DrawsAnswered
CHECK_DEADLOCK FALSE
