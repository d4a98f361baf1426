SPECIFICATION FairSpec
CONSTANTS
  Punks = {p1, p2}
  EOAs = {e1}
  Contracts = {c1}
  Gateway = Gateway
  Wrapper = Wrapper
  Bnft = Bnft
  Proxy <- UserProxies
  Prices = {0, 1}
  Anyone = Anyone
  None = None
INVARIANTS WrapsBacked WithdrawNeverFails
PROPERTIES PunkComesBack StrandedStays ImplementsVault PunkRedeemable
CHECK_DEADLOCK FALSE
