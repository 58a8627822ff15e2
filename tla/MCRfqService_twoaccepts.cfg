SPECIFICATION DirectSpec
CONSTANTS
  None = None
  taker = taker
  alpha = alpha
  beta = beta
  Takers = {taker}
  Slots = {s1, s2}
  Signed <- TwoMakers
  Bot = Bot
  QUOTE_ACCEPT_GRACE_LEDGERS = 1
  PollGrace = 0
  p1 = p1
  p2 = p2
  Polls = {p1, p2}
  Previews = {corridor, reversed}
  MaxPrepared = 1
  MaxDrops = 1
  MaxTyped = 3
  corridor = corridor
  reversed = reversed
  NoOrder = NoOrder
  b1 = b1
  b2 = b2
  Targets <- TwoBonds
  Ticks = {t1, t2}
  MaxOrders = 2
  MaxThrows = 1
  MAX_OPEN_PER_TAKER = 1
  MIN_REQUEST_SPACING = 1
  RequestTtl = 1
  MIN_QUOTE_TTL_LEDGERS = 1
  MAX_QUOTE_TTL_LEDGERS = 2
  retain = 0
  maxRequests = 2
  MaxTime = 2
  MaxCreated = 1
  MaxQuotes = 2
INVARIANTS
  OneAcceptedQuote
CHECK_DEADLOCK FALSE
