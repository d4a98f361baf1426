SPECIFICATION MCSpec
CONSTANTS
  Times = 4
  Deployer = deployer
  Other = other
  None = none
  Symbols = {"WPUNKS", "BAYC"}
  Bound = 1
  MaxNonce = 7
  MaxPool = 1
  MaxTrouble = 1
  Tokens = {1, 2}
  Users = {u1, u2}
  Operator = u1
  BNft = bnft
  Distribution = distribution
  Nobody = nobody
  IdLists <- Ids
  MaxMoves = 2
  MaxMishaps = 1
  MaxSent = 1
  Families = {"gateway", "flash claim", "distribution", "receivers", "registries", "mocks", "trials", "minters", "claim", "distribute", "configure", "admin", "apply"}
INVARIANTS ProxiesRunTheirs FileDescribes ListComplete PairsWereTrue CreditBacked
PROPERTIES TasksEnd EventuallyClaimed
CHECK_DEADLOCK FALSE
