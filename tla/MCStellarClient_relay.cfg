SPECIFICATION EdgeSpec
CONSTANTS
  e1 = e1
  e2 = e2
  t1 = t1
  t2 = t2
  Endpoints <- MCEndpoints
  Txs = {t1, t2}
  RPC_FAILOVER_COOLDOWN = 1
  SUBMIT_POLL_ATTEMPTS = 1
  MaxTime = 1
  MaxSeq = 1
  MaxFailures = 2
  sol = sol
  fake = fake
  cur = cur
  cheat = cheat
  usdx = usdx
  none = none
  Contracts <- MCContracts
  SymbolOf <- MCSymbolOf
  IssuerOf <- MCIssuerOf
  DecimalsOf <- MCDecimalsOf
  NoIssuer = none
  NoContract = none
  Curated <- MCCurated
  AquaPools = {"a1", "a2", "a3"}
  SushiPools = {"s1"}
  CurvePools = {"k1"}
  CoinsOf <- MCCoinsOf
  Quiet = {"a3"}
  Classic = 7
  MaxDecimals = 30
  Listings <- MCListings
  Sweeps = {1, 2}
  MaxMoves = 1
  MaxLapses = 1
PROPERTIES
  SubmissionsKeepTheirPromise
  UniverseSettles
CHECK_DEADLOCK FALSE
