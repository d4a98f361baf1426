SPECIFICATION FairSpec
CONSTANTS
  bayc = bayc
  azuki = azuki
  apes = apes
  coins = coins
  b1 = b1
  a1 = a1
  x1 = x1
  x2 = x2
  y1 = y1
  e1 = e1
  c1 = c1
  Version = "V2"
  DeployType = 1
  EOAs = {e1}
  Contracts = {c1}
  Receiver = Receiver
  Collections = {bayc}
  Bnft <- BnftOf
  Items = {b1, x1, x2, y1}
  AssetOf <- Assets_
  Borrower <- Borrowers
  Spenders = {}
  MaxOpened = 0
  NewOwners = {c1}
  Sweeps <- SweepMixed
  None = None
  MaxDepth = 2
PROPERTIES SweepComplete OwnerDisposes LeftoversRetrievable
CHECK_DEADLOCK FALSE
