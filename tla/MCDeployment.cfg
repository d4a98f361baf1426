SPECIFICATION FairSpec
CONSTANTS
  wpunks = wpunks
  doodle = doodle
  NftAssets <- Collections
  HandOver <- HandOverList
  Deployer = Deployer
  NewOwner = NewOwner
  Stranger = Stranger
  None = None
  TaskNames = {"deploy-proxy-admin", "deploy-bnft-registry", "full:deploy-bnft-registry",
               "deploy-bnft-tokens", "full:deploy-bnft-tokens", "dev:deploy-bnft-tokens",
               "deploy-all", "deploy-new-implementation", "bnft-registry-set-impl",
               "bnft-registry-upgrade-all", "transferOwnership"}
  MaxAdmins = 1
  MaxImpls = 2
  MaxRegistries = 4
  MaxPending = 1
  MaxMishaps = 1
INVARIANTS TokensComplete FileNamesContracts ImplementationsApart HandedOverWhole
PROPERTIES TokensRecover
CHECK_DEADLOCK FALSE
