SPECIFICATION BookSpec
CONSTANTS
  tA = tA
  tB = tB
  alice = alice
  bob = bob
  carol = carol
  None = None
  Book = Book
  Vault = Vault
  Router = Router
  Tokens <- TwoTokens
  TokenDecimals <- MCTokenDecimals
  BPS_DENOMINATOR = 10
  MAX_ORACLE_JUMP_BPS = 2
  ORACLE_STALE_LEDGERS = 1
  SEP40_MS_THRESHOLD = 100
  SEP40_MAX_FUTURE_SKEW_SECS = 1
  LedgerSecs = 1
  MAX_FEE = 1
  DEFAULT_FEE = 1
  FEE_DENOMINATOR = 4
  MAX_EXCLUDED = 1
  MAX_EXPIRY_LEDGERS = 3
  MAX_SLIPPAGE_BPS = 2
  OracleAdmins = {admin}
  PushedPrices <- MCPushedPrices
  PushedPairs <- MCPushedPairs
  FeedConfigs <- MCFeedConfigs
  Reports <- MCReports
  MaxAges = {1}
  Accounts = {alice, bob, carol}
  Funds <- MCFunds
  OrderTerms <- AllTerms
  MatchTerms <- TakingTerms
  Quantities = {0, 1, 2, 3}
  FeeRates = {0, 2}
  MinOrders = {2}
  MAX_ORDERS_PER_PAIR = 3
  MAX_OPEN_PER_MAKER_PAIR = 2
  Budgets = {2, 4}
  PeerRequests <- MCRequests
  SDF_LIQUIDITY_WALLETS = {bob}
  DEFAULT_EXPIRY_LEDGERS = 3
  MaxOrders = 3
  MaxLedger = 3
INVARIANTS
  BookIndexesExact
  BookEscrowBacked
  BookLifeAccounted
  BookMakerFloor
  QuotesAreFillable
  PeerPlansFit
PROPERTIES
  ExitsAllowed
  MatchCostsItsBudget
  PeggedFloorWithinAUnit
CHECK_DEADLOCK FALSE
