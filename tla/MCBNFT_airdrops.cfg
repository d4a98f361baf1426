SPECIFICATION FairSpec
CONSTANTS
  Tokens = {t1}
  ERC20s = {d}
  ERC721s = {a}
  ERC1155s = {b}
  EOAs = {e1}
  Contracts = {c1}
  Operators = {}
  Self = Self
  None = None
  InitOwner = e1
  InitClaimAdmin = c1
  InitRegistry = r1
  NewAdmins = {e1}
  Registries = {r1, r2}
  MaxLoan = 2
  MaxDepth = 2
PROPERTIES StraysStay ERC1155OnlyByAirdrop Redeemable
CHECK_DEADLOCK FALSE
