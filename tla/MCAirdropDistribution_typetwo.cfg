SPECIFICATION Spec
CONSTANTS
  bayc = bayc
  other = other
  apes = apes
  badges = badges
  EOAs = {e1}
  Contracts = {c1}
  Ids = {n1}
  ERC20s = {}
  ERC721s = {apes}
  ERC1155s = {badges}
  Bound = {bayc}
  Unbound = {other}
  Coordinators = {v1}
  Offers <- OffersDiff
  InitOwner = c1
  NewOwners = {}
  InitCoordinator = v1
  None = None
  MaxAirdrops = 1
  MaxRequests = 1
  MaxList = 1
  MaxStock = 1
PROPERTIES TypeTwoPays
CHECK_DEADLOCK FALSE
