SPECIFICATION QuotingSpec
CONSTANTS
  p1 = p1
  p2 = p2
  reg = reg
  dex = dex
  sdex = sdex
  None = None
  Venues = {1, 2, 3}
  Sequential = {2, 3}
  Spot = {2}
  Pools <- MCPools
  Uncached = {reg}
  Rejecting = {dex, sdex}
  Quotes <- MCQuotes
  PRICE_SCALE = 10
  HAIRCUT_UNIT = 16
  TTL = 1
  AVAILABILITY_TTL = 2
  MAX_KEYS = 2
  RATIO_NUM = 16
  RATIO_DEN = 10
  Reachable <- MCReachable
  Requested = {10, 18}
  MaxTime = 2
  MaxMoves = 1
  MaxFailures = 1
  MaxRequests = 2
  BPS_DENOMINATOR = 10
  DEPTH_LEVELS = {12}
  FEE_NUMERATOR = 1
  FEE_DENOMINATOR = 50
  PRICE_IMPACT_MAX_BPS = 2
  MAX_HOPS = 3
  BRANCH_CAP = 2
  CANDIDATE_CAP = 4
  VERIFY_TOP = 2
INVARIANTS
  NeverOverQuotes
  SplitNearSingle
  NoPhantomRate
CHECK_DEADLOCK FALSE
