SPECIFICATION MCSpec
CONSTANTS
  tA = tA
  tB = tB
  tC = tC
  user = user
  maker = maker
  integrator = integrator
  v1 = v1
  v2 = v2
  None = None
  Book = Book
  Vault = Vault
  Router = Router
  Tokens <- ThreeTokens
  TokenDecimals <- MCTokenDecimals
  BPS_DENOMINATOR = 10
  MAX_ORACLE_JUMP_BPS = 2
  ORACLE_STALE_LEDGERS = 1
  SEP40_MS_THRESHOLD = 100
  SEP40_MAX_FUTURE_SKEW_SECS = 1
  LedgerSecs = 1
  MAX_FEE = 1
  DEFAULT_FEE = 1
  FEE_DENOMINATOR = 4
  MAX_EXCLUDED = 1
  MAX_EXPIRY_LEDGERS = 3
  MAX_SLIPPAGE_BPS = 2
  OracleAdmins = {admin}
  PushedPrices <- MCPushedPrices
  PushedPairs <- MCPushedPairs
  FeedConfigs = {}
  Reports = {}
  MaxAges = {}
  Accounts = {user, maker, integrator}
  Funds <- MCFunds
  OrderTerms <- AllTerms
  MatchTerms <- Nothing
  Quantities = {1, 2}
  FeeRates = {}
  MinOrders = {}
  MAX_ORDERS_PER_PAIR = 2
  MAX_OPEN_PER_MAKER_PAIR = 2
  MaxOrders = 2
  MaxLedger = 3
  Venues = {v1, v2}
  MAX_FEE_PER_100K = 1
  DEFAULT_FEE_PER_100K = 0
  MAX_PARTNER_FEE_PER_100K = 1
  MAX_PATH_HOPS = 3
  WEIGHT_DENOMINATOR = 10
  MAX_SURPLUS_SHARE_BPS = 5
  DEFAULT_SURPLUS_SHARE_BPS = 2
  Paths <- MCPaths
  Orders <- MCOrders
  Segments <- AllSegments
  PartnerFees = {1, 2}
  VenueOutputs = {1, 3}
  RouterFees = {1, 2}
  SurplusShares = {5, 6}
  MaxTrips = 1
  MaxFailures = 1
  LivePairs <- MCLivePairs
INVARIANTS
  NothingRests
PROPERTIES
  TripsAreExchanges
  EstimateKept
  TimersSettleAtTheFloor
  DueOrdersAreRouted
CHECK_DEADLOCK FALSE
