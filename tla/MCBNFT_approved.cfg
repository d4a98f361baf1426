SPECIFICATION Spec
CONSTANTS
  Tokens = {t1, t2}
  ERC20s = {}
  ERC721s = {}
  ERC1155s = {}
  EOAs = {e1}
  Contracts = {c1, c2}
  Operators = {c1, c2}
  Self = Self
  None = None
  InitOwner = e1
  InitClaimAdmin = None
  InitRegistry = r1
  NewAdmins = {}
  Registries = {r1}
  MaxLoan = 2
  MaxDepth = 2
INVARIANTS ApprovedMayBorrowAny
CHECK_DEADLOCK FALSE
