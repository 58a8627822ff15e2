SPECIFICATION WidgetSpec
CONSTANTS
  tA = tA
  tM = tM
  tB = tB
  None = None
  Amms = {1, 2}
  Sdex = 3
  Gives <- MCGives
  Unregistered <- MCUnregistered
  Edges <- MCEdges
  Slippage = 20
  BLEND_MIN_GAIN_UNITS = 1
  BLEND_MIN_GAIN_BPS = 10
  BLEND_FEE = 1
  SurplusShare = 50
  Tokens = {tA, tM, tB}
  Pairs <- MCPairs
  StartPair <- MCStartPair
  TwapPair <- MCTwapPair
  TwapTokens = {tM, tB}
  Markets = {1, 2}
  Configs <- MCConfigs
  Amounts = {9}
  MaxAmount = 24
  MAX_PARTS = 3
  Wallets <- MCWallets
  MaxSeq = 2
  MaxTasks = 1
  MaxSurprises = 1
  BPS_DENOMINATOR = 100
  WEIGHT_DENOMINATOR = 100
  MAX_PATH_HOPS = 5
  DEPTH_LEVELS = {2, 5}
  FEE_NUMERATOR = 1
  FEE_DENOMINATOR = 50
  PRICE_IMPACT_MAX_BPS = 60
  MAX_HOPS = 5
  BRANCH_CAP = 2
  CANDIDATE_CAP = 4
  VERIFY_TOP = 2
INVARIANTS
  QuoteSettles
  PlansAcceptable
PROPERTIES
  SecondPartCovered
  HonestOutcome
CHECK_DEADLOCK FALSE
