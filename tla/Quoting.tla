------------------------------- MODULE Quoting -------------------------------
(***************************************************************************)
(* What the routing engine is told by the venues, and when.  An adapter     *)
(* asks the pools of a pair one after the other through a shared cache of   *)
(* points of their quote curves: a point is kept for a while and an amount  *)
(* between two of them is answered from their chord.  Whatever has no such  *)
(* answer is simulated, once for all who wait, and may fail.  Meanwhile the *)
(* pools trade.                                                             *)
(***************************************************************************)
EXTENDS Routing

CONSTANTS
  Venues,                     \* ids, as the engine breaks ties by them
  Sequential, Spot,           \* venues that ask level by level; that ask a price
  Pools,                      \* Pools[v]: the pools of a venue, best first
  Rejecting,                  \* pools whose failed simulations are told from zeros
  Uncached,                   \* pools an adapter contract quotes, of last resort
  Quotes,                     \* Quotes[p][s][x]: what pool p gives for x in state s
  PRICE_SCALE, HAIRCUT_UNIT,  \* units of a spot price, and of what it loses by size
  TTL, AVAILABILITY_TTL, MAX_KEYS,
  RATIO_NUM, RATIO_DEN,
  Reachable,                  \* the sets of venues that may answer a health check
  Requested, MaxTime, MaxMoves, MaxRequests, MaxFailures   \* bounds

AllPools == UNION {Range(Pools[v]) : v \in Venues}

ASSUME QuotingAssumption ==
  /\ Venues \subseteq Nat /\ Sequential \subseteq Venues /\ Spot \subseteq Sequential
  /\ \A v \in Venues : Pools[v] \in Seq(AllPools) /\ Pools[v] # <<>>
  /\ Uncached \subseteq AllPools /\ Rejecting \subseteq AllPools
  /\ {PRICE_SCALE, HAIRCUT_UNIT} \subseteq Nat \ {0}
  /\ {TTL, AVAILABILITY_TTL, MaxTime, MaxMoves, MaxRequests, MaxFailures} \subseteq Nat
  /\ MAX_KEYS \in Nat \ {0} /\ RATIO_NUM \in Nat /\ RATIO_DEN \in Nat \ {0}
  /\ Requested \subseteq Nat \ {0} /\ Reachable \subseteq SUBSET Venues
  /\ DEPTH_LEVELS \subseteq Nat \ {0} /\ IsFiniteSet(DEPTH_LEVELS)

(* A venue that gives its spot price has one point, whatever the amount.    *)
Price == 1

(* What a pool can be asked for.                                            *)
Probed == {Price} \union Requested \union DEPTH_LEVELS
Sizes(pool) == DOMAIN Quotes[pool][1]

ASSUME SizesAssumption ==
  \A p \in AllPools :
    /\ Quotes[p] # <<>> /\ Quotes[p] \in Seq([Sizes(p) -> Nat])
    /\ Sizes(p) \subseteq Nat \ {0} /\ Probed \subseteq Sizes(p)

(* "Every AMM curve is concave": a smaller amount gets at least the average *)
(* rate of a larger one, but for what the rounding of the fee takes from one*)
(* unit more, and one in between at least what the chord says, rounded down.*)
Concave(q) ==
  \A x, hi \in DOMAIN q : x < hi /\ q[hi] > 0 =>
    /\ x * q[hi] < (q[x] + 1) * hi + q[hi]
    /\ \A lo \in DOMAIN q : lo < x /\ q[lo] > 0 =>
         (hi - x) * q[lo] + (x - lo) * q[hi] < (q[x] + 1) * (hi - lo)

(* A trade makes a pool better or worse for every amount alike.             *)
Comparable(q, r) == (\A x \in DOMAIN q : q[x] <= r[x]) \/ (\A x \in DOMAIN q : r[x] <= q[x])

ASSUME CurvesAssumption ==
  \A v \in Venues \ Spot : \A p \in Range(Pools[v]) : \A s, t \in DOMAIN Quotes[p] :
    Concave(Quotes[p][s]) /\ Comparable(Quotes[p][s], Quotes[p][t])

VARIABLES
  points,     \* the cache: of each pool, points [in, out, ts]
  flights,    \* simulations under way, as <<pool, amount>>
  memo,       \* the venues last found available, and when
  request,    \* the engine's request: amount, levels and answers, or None
  route,      \* the last route computed, with the profiles it was computed from
  now,
  market,     \* the pools' states
  recent,     \* not in the code: <<state, last time>> of each pool, a TTL back
  moves, requests, failures   \* not in the code: counts, bounded

cacheVars == <<points, flights>>
marketVars == <<now, market, recent, moves>>
counters == <<requests, failures>>
quotingVars == <<points, flights, memo, request, route, counters, marketVars>>

-----------------------------------------------------------------------------
(* The cache                                                                *)

(* A spot price is a cache of its own, and goes stale a moment sooner.      *)
SpotPools == UNION {Range(Pools[v]) : v \in Spot}
Fresh(pool) ==
  {pt \in points[pool] : pt.ts >= now - TTL /\ (pool \in SpotPools => pt.ts > now - TTL)}

WithinRatio(a, b) == a <= (b * RATIO_NUM) \div RATIO_DEN /\ b <= (a * RATIO_NUM) \div RATIO_DEN

(* The two fresh points an amount lies between, or the one above it.        *)
Above(pts, x) == CHOOSE p \in pts : p.in > x /\ \A q \in pts : q.in > x => q.in >= p.in
Below(pts, x) == CHOOSE p \in pts : p.in < x /\ \A q \in pts : q.in < x => q.in <= p.in

(* An average rate, less a unit's worth because fees are floored.           *)
ScaledBelow(pt, x) ==
  LET scaled == (x * pt.out) \div pt.in
      unit == (pt.out + pt.in - 1) \div pt.in
  IN IF scaled > unit THEN scaled - unit ELSE 0

Chord(lo, hi, x) == lo.out + ((x - lo.in) * (hi.out - lo.out)) \div (hi.in - lo.in)

(* Faulty: the last chord is extended.                                      *)
ReadOffPast(pts, x) ==
  IF \E p \in pts : p.in = x THEN (CHOOSE p \in pts : p.in = x).out
  ELSE IF \E p, q \in pts : p.in < q.in /\ q.in < x
  THEN LET hi == CHOOSE p \in pts : \A q \in pts : q.in <= p.in IN Chord(Below(pts \ {hi}, hi.in), hi, x)
  ELSE None

(* The answer from points alone, or None.                                   *)
ReadOff(pts, x) ==
  IF \E p \in pts : p.in = x THEN (CHOOSE p \in pts : p.in = x).out
  ELSE IF \A p \in pts : p.in < x THEN None
  ELSE LET hi == Above(pts, x)
       IN IF \A p \in pts : p.in > x
          THEN IF ~WithinRatio(x, hi.in) THEN None
               ELSE IF hi.out = 0 THEN 0 ELSE ScaledBelow(hi, x)
          ELSE LET lo == Below(pts, x)
               IN IF ~WithinRatio(lo.in, hi.in) \/ lo.out = 0 \/ hi.out = 0 \/ hi.out < lo.out
                  THEN None ELSE Chord(lo, hi, x)

Kept(pts, point) == {p \in pts : p.in # point.in} \union {point}

(* What may be left after an insertion: pools whose points are all stale go *)
(* before the others, and only as many as must.                             *)
Evicted(pts) ==
  LET keys == {p \in AllPools \ SpotPools : pts[p] # {}}
      stale == {p \in keys : \A pt \in pts[p] : pt.ts < now - TTL}
  IN IF Cardinality(keys) <= MAX_KEYS THEN {pts}
     ELSE {[p \in AllPools |-> IF p \in gone THEN {} ELSE pts[p]] :
             gone \in {g \in SUBSET keys :
                         /\ Cardinality(keys) - Cardinality(g) = MAX_KEYS
                         /\ g \subseteq stale \/ stale \subseteq g}}

-----------------------------------------------------------------------------
(* The adapters.  An answer is the pool asked, by its place in the venue's  *)
(* list, and what it gave: None while it is not known.                      *)

Unasked == [pool |-> 0, out |-> None]

(* Ask the pools of a venue from the k-th on: one that answers zero gives   *)
(* way to the next, and the last one's zero stands.                         *)
Consult(v, k, x) ==
  LET out(j) == ReadOff(Fresh(Pools[v][j]), x)
      stops == {j \in k..Len(Pools[v]) : out(j) # 0 \/ j = Len(Pools[v])}
      asked == CHOOSE j \in stops : \A i \in stops : j <= i
  IN [pool |-> asked, out |-> out(asked)]

AskedOf(v, x) == IF v \in Spot THEN Price ELSE x

Asked(v, x, answer) == IF answer = Unasked THEN Consult(v, 1, AskedOf(v, x)) ELSE answer

(* Levels in turn: each is asked once those before are known.               *)
Proceed(v, levels, answers) ==
  LET asked == [i \in DOMAIN levels |-> Asked(v, levels[i], answers[i])]
      waits(i) == v \in Sequential /\ \E j \in 1..(i - 1) : asked[j].out = None
  IN [i \in DOMAIN levels |-> IF waits(i) THEN answers[i] ELSE asked[i]]

(* What the answers in hand wait for.                                       *)
Waits(answer) == answer.pool # 0 /\ answer.out = None

Awaited(levels, answers) ==
  UNION {{<<Pools[v][answers[v][i].pool], AskedOf(v, levels[i])>> :
            i \in {j \in DOMAIN levels : Waits(answers[v][j])}} : v \in DOMAIN answers}

(* A simulation is over: all who waited have its outcome, or go on to the   *)
(* venue's next pool.                                                       *)
Told(v, levels, answers, flight, out) ==
  [i \in DOMAIN levels |->
     LET a == answers[i]
     IN IF ~(Waits(a) /\ <<Pools[v][a.pool], AskedOf(v, levels[i])>> = flight) THEN a
        ELSE IF out = 0 /\ a.pool < Len(Pools[v]) THEN Consult(v, a.pool + 1, AskedOf(v, levels[i]))
        ELSE [a EXCEPT !.out = out]]

(* None is no request under way.                                            *)
RequestState ==
  [amount : Requested, levels : Seq(Nat),
   answers : UNION {[up -> Seq([pool : Nat, out : Nat \union {None}])] : up \in SUBSET Venues}]

ASSUME RequestAssumption == None \notin RequestState

Prune == [p \in AllPools |-> Fresh(p)]

RequestRoute(amount, up) ==
  LET levels == Levels(amount)
      known == memo # None /\ now - memo.ts < AVAILABILITY_TTL
      available == IF known THEN memo.venues ELSE up
      answers == [v \in available |-> Proceed(v, levels, [i \in DOMAIN levels |-> Unasked])]
  IN /\ request = None /\ requests < MaxRequests
     /\ known => up = memo.venues
     /\ memo' = IF ~known /\ up # {} THEN [ts |-> now, venues |-> up] ELSE memo
     /\ request' = IF available = {} THEN None
                   ELSE [amount |-> amount, levels |-> levels, answers |-> answers]
     /\ points' = Prune
     /\ flights' = flights \union Awaited(levels, answers)
     /\ requests' = requests + 1
     /\ route' = None
     /\ UNCHANGED <<failures, marketVars>>

(* What the cache may be after a simulation.  It would rather not remember  *)
(* one that failed, but most adapters hand it a zero then.                  *)
Remembered(pool, x, out, ok) ==
  IF pool \notin Uncached /\ (ok \/ pool \notin Rejecting)
  THEN Evicted([points EXCEPT ![pool] = Kept(@, [in |-> x, out |-> out, ts |-> now])])
  ELSE {points}

Land(flight, ok) ==
  LET pool == flight[1]
      x == flight[2]
      out == IF ok THEN Quotes[pool][market[pool]][x] ELSE 0
      told == [v \in DOMAIN request.answers |->
                 Told(v, request.levels, request.answers[v], flight, out)]
      answers == [v \in DOMAIN told |-> Proceed(v, request.levels, told[v])]
  IN /\ flight \in flights
     /\ ~ok => failures < MaxFailures
     /\ failures' = failures + IF ok THEN 0 ELSE 1
     /\ points' \in Remembered(pool, x, out, ok)
     /\ request' = [request EXCEPT !.answers = answers]
     /\ flights' = (flights \ {flight}) \union Awaited(request.levels, answers)
     /\ UNCHANGED <<memo, route, requests, marketVars>>

(* The depth quotes of a venue: a spot price times the amount less a haircut*)
(* that grows with it; from the classic order book, which asks in turn, the *)
(* level before where one failed.                                           *)
DepthOut(v, levels, answers, i) ==
  LET good == {j \in 1..i : answers[j].out > 0}
      out == (answers[i].out * levels[i]) \div PRICE_SCALE
  IN IF v \in Spot THEN out - (out * (levels[i] \div HAIRCUT_UNIT)) \div BPS_DENOMINATOR
     ELSE IF v \in Sequential THEN IF good = {} THEN 0 ELSE answers[Greatest(good)].out
     ELSE answers[i].out

Answered == \A v \in DOMAIN request.answers, i \in DOMAIN request.levels :
              request.answers[v][i].out # None

Compute ==
  LET profiles == {[venue |-> v,
                    outs |-> [i \in DOMAIN request.levels |->
                                DepthOut(v, request.levels, request.answers[v], i)]] :
                     v \in DOMAIN request.answers}
  IN /\ request # None /\ Answered
     /\ route' = [profiles |-> profiles] @@ ComputeRoute(profiles, request.amount)
     /\ request' = None
     /\ UNCHANGED <<points, flights, memo, counters, marketVars>>

-----------------------------------------------------------------------------
(* The pools trade, and time passes.                                        *)

Move(pool, state) ==
  /\ moves < MaxMoves /\ state # market[pool]
  /\ moves' = moves + 1
  /\ market' = [market EXCEPT ![pool] = state]
  /\ recent' = [recent EXCEPT ![pool] =
                  {s \in @ : s[1] \notin {state, market[pool]}}
                    \union {<<market[pool], now>>, <<state, now>>}]
  /\ UNCHANGED <<cacheVars, memo, request, route, counters, now>>

Tick ==
  /\ now < MaxTime
  /\ now' = now + 1
  /\ recent' = [p \in AllPools |->
                  {s \in recent[p] : s[1] # market[p] /\ s[2] >= now' - TTL}
                    \union {<<market[p], now'>>}]
  /\ UNCHANGED <<cacheVars, memo, request, route, counters, market, moves>>

QuotingInit ==
  /\ points = [p \in AllPools |-> {}] /\ flights = {}
  /\ memo = None /\ request = None /\ route = None
  /\ requests = 0 /\ failures = 0
  /\ now = 0 /\ moves = 0
  /\ market = [p \in AllPools |-> 1]
  /\ recent = [p \in AllPools |-> {<<1, 0>>}]

QuotingNext ==
  \/ \E amount \in Requested, up \in Reachable : RequestRoute(amount, up)
  \/ \E flight \in flights, ok \in BOOLEAN : Land(flight, ok)
  \/ Compute
  \/ \E pool \in AllPools : \E state \in DOMAIN Quotes[pool] : Move(pool, state)
  \/ Tick

QuotingSpec == QuotingInit /\ [][QuotingNext]_quotingVars

-----------------------------------------------------------------------------
(* A pool would have given as much for x at some time from then on.         *)
GaveSince(then, pool, x, out) ==
  \E r \in recent[pool] : r[2] >= then /\ out <= Quotes[pool][r[1]][x]

(* "Never over-quotes": whatever the cache makes of its points, of whatever *)
(* ages and from whichever states of the pool, is no more than the pool     *)
(* itself would have given for that very amount within the time to live.    *)
NeverOverQuotes ==
  \A v \in Venues \ Spot : \A k \in DOMAIN Pools[v] : \A x \in DOMAIN Quotes[Pools[v][k]][1] :
    LET out == ReadOff(Fresh(Pools[v][k]), x)
    IN out # None => GaveSince(now - TTL, Pools[v][k], x, out)

(* No part of a route is expected to trade at a better rate than the        *)
(* smallest amount its venue answered, whichever levels failed, were        *)
(* answered by another pool or from an older market, and whatever rest it   *)
(* was given at the end: no price is made of a gap between answers.         *)
NoPhantomRate ==
  route # None =>
    LET levels == Levels(route.amount_in)
    IN \A p \in route.profiles : p.venue \in DOMAIN route.segments =>
         LET part == route.segments[p.venue]
             first == CHOOSE i \in Good(p.outs) : \A j \in Good(p.outs) : i <= j
         IN part.out * levels[first] <= part.amount_in * p.outs[first]

(* The answers fall off with the amount, as a pool's own do; answers of two *)
(* pools, or of one that failed in between, need not.                       *)
FallsOff(outs, levels) ==
  /\ outs[1] > 0
  /\ \A i \in 2..Len(outs) :
       LET from == IF i = 2 THEN 0 ELSE levels[i - 2]
           got == IF i = 2 THEN 0 ELSE outs[i - 2]
       IN (outs[i] - outs[i - 1]) * (levels[i - 1] - from)
            <= (outs[i - 1] - got) * (levels[i] - levels[i - 1])

(* Splitting costs, against the best venue for the whole amount, less than  *)
(* two bps of that amount and the unit that one tranche filled in part is   *)
(* rounded by: tranches are ordered by whole bps, and all less than one bp  *)
(* off par, on either side, rank alike.  By the very answers the route was  *)
(* computed from, where these fall off with the amount.                     *)
SplitNearSingle ==
  route # None /\ (\A p \in route.profiles : FallsOff(p.outs, Levels(route.amount_in))) =>
    LET levels == Levels(route.amount_in)
        whole == CHOOSE i \in DOMAIN levels : levels[i] = route.amount_in
    IN \A p \in route.profiles :
         (p.outs[whole] - route.gross - 1) * BPS_DENOMINATOR < 2 * route.amount_in
=============================================================================
