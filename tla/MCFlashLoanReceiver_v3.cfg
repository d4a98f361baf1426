SPECIFICATION Spec
CONSTANTS
  bayc = bayc
  azuki = azuki
  apes = apes
  coins = coins
  b1 = b1
  a1 = a1
  x1 = x1
  x2 = x2
  y1 = y1
  e1 = e1
  c1 = c1
  Version = "V3"
  DeployType = 0
  EOAs = {e1}
  Contracts = {c1}
  Receiver = Receiver
  Collections = {bayc, azuki}
  Bnft <- BnftOf
  Items = {b1, a1}
  AssetOf <- Assets_
  Borrower <- Borrowers
  Spenders <- SpendersSome
  MaxOpened = 1
  NewOwners = {c1, None}
  Sweeps <- SweepBorrowed
  None = None
  MaxDepth = 2
INVARIANTS BoundAtHome ReturnApprovals
PROPERTIES LoanLeavesRecord
CHECK_DEADLOCK FALSE
