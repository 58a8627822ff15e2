SPECIFICATION AskedSpec
CONSTANTS
  tA = tA
  tB = tB
  maker = maker
  v1 = v1
  v2 = v2
  None = None
  Book = Book
  Vault = Vault
  Makers = {maker}
  Venues = {v1, v2}
  Tokens <- TwoTokens
  TokenDecimals <- FinerOut
  BPS_DENOMINATOR = 10
  MAX_ORACLE_JUMP_BPS = 2
  ORACLE_STALE_LEDGERS = 1
  SEP40_MS_THRESHOLD = 100
  SEP40_MAX_FUTURE_SKEW_SECS = 1
  LedgerSecs = 1
  MAX_FEE = 1
  DEFAULT_FEE = 1
  FEE_DENOMINATOR = 4
  MIN_DURATION_LEDGERS = 2
  MAX_SLIPPAGE_BPS = 3
  MAX_PACE_TOLERANCE_BPS = 5
  MAX_ACTIVE_ORDERS = 2
  OracleAdmins = {admin}
  PushedPrices <- MCPushedPrices
  PushedPairs <- OneWay
  FeedConfigs = {}
  Reports = {}
  MaxAges = {}
  FeeRates = {0}
  Funds <- MCFunds
  TwapTerms <- AllTerms
  Routes <- AllRoutes
  VenueOutputs = {0, 1, 2, 3}
  MaxOrders = 2
  MaxLedger = 4
  MAX_ORDERS_PER_TICK = 1
  SAFETY_LEDGERS = 0
  EligiblePairs <- OneWay
  Rotations = 2
  LEDGER_SECONDS = 2
  LIMIT_SCALE = 2
  DurationSeconds = {4, 6, 8}
  GapSeconds = {2, 3, 4}
  SliceBps = {5, 10}
  KnownTokens <- TwoTokens
  TwapRequests <- ExactRequests
INVARIANTS
  AskedPriceKept
CHECK_DEADLOCK FALSE
