SPECIFICATION PricesSpec
CONSTANTS
  tA = tA
  tB = tB
  tC = tC
  stranger = stranger
  OracleKey = OracleKey
  bitcoin = bitcoin
  desk = desk
  taker = taker
  FeeVault = FeeVault
  SwapBook = SwapBook
  OtherBook = OtherBook
  Accounts = {desk, taker}
  ORACLE_PAIRS <- TwoPairs
  CoinOf <- MCCoinOf
  MarketPrices = {10, 12, 15}
  SCALE = 1
  Updates = {1, 2}
  None = None
  OracleAdmins = {OracleKey, stranger}
  Tokens <- MCTokens
  TokenDecimals <- MCTokenDecimals
  BPS_DENOMINATOR = 10
  MAX_ORACLE_JUMP_BPS = 2
  ORACLE_STALE_LEDGERS = 2
  SEP40_MS_THRESHOLD = 100
  SEP40_MAX_FUTURE_SKEW_SECS = 1
  LedgerSecs = 1
  PushedPrices <- AllPrices
  PushedPairs <- OnePair
  FeedConfigs <- MCFeedConfigs
  Reports <- MCReports
  MaxAges = {1}
  MaxLedger = 5
  MAX_FEE = 1
  DEFAULT_FEE = 1
  FEE_DENOMINATOR = 4
  MAX_QUOTE_TTL_LEDGERS = 2
  MAX_NAV_BAND_BPS = 2
  FeeRates = {0, 2}
  Quotes <- SignedQuotes
  Funds <- SignedFunds
INVARIANTS
  CrossRateIsValueRatio
  NoReplay
PROPERTIES
  PairsFollowTheMarket
  SettlesWithinBand
CHECK_DEADLOCK FALSE
