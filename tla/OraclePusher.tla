---------------------------- MODULE OraclePusher ----------------------------
(***************************************************************************)
(* The backend's oracle service: at every interval it fetches the market's  *)
(* prices, remembers each pair's and pushes it to the SwapBook, pair after  *)
(* pair.  An update whose submissions are slow is still at it when the next *)
(* begins, and a push the contract or the network refuses is only logged.   *)
(***************************************************************************)
EXTENDS PriceOracle, Sequences

CONSTANTS
  OracleKey,                  \* the service's signing key
  ORACLE_PAIRS,               \* the directed pairs it keeps, in its order
  CoinOf,                     \* the coin whose price each of them takes
  MarketPrices,               \* what a coin may cost, scaled as it is pushed
  SCALE,                      \* the denominator of every push
  Updates                     \* bound on the updates under way at once

Kept == {ORACLE_PAIRS[i] : i \in DOMAIN ORACLE_PAIRS}
Coins == {CoinOf[p] : p \in Kept}

ASSUME PusherAssumption ==
  /\ Kept \subseteq Tokens \X Tokens /\ DOMAIN CoinOf = Kept
  /\ MarketPrices \subseteq Nat /\ None \notin MarketPrices /\ SCALE \in Nat \ {0}

VARIABLES
  market,      \* external: each coin's price, or None where there is none
  lastPrices,  \* the service's cache
  update       \* each update under way: what it fetched and the pairs left

pusherVars == <<market, lastPrices, update>>
pushVars == <<pusherVars, oracleVars>>

-----------------------------------------------------------------------------
(* The interval timer does not ask whether an update is still running.      *)
StartUpdate(k) ==
  /\ update[k] = None
  /\ update' = [update EXCEPT ![k] = [prices |-> market, left |-> ORACLE_PAIRS]]
  /\ UNCHANGED <<market, lastPrices, oracleVars>>

Pair(k) == Head(update[k].left)
Fetched(k) == update[k].prices[CoinOf[Pair(k)]]
Usable(price) == price # None /\ price > 0

OnTo(k) ==
  [update EXCEPT ![k] = IF Len(@.left) = 1 THEN None ELSE [@ EXCEPT !.left = Tail(@)]]

SkipPair(k) ==
  /\ update[k] # None
  /\ ~Usable(Fetched(k))
  /\ update' = OnTo(k)
  /\ UNCHANGED <<market, lastPrices, oracleVars>>

(* The cache takes the price whatever becomes of the push.                  *)
Remember(k) == lastPrices' = [lastPrices EXCEPT ![Pair(k)] = Fetched(k)]

Push(k) ==
  /\ update[k] # None
  /\ Usable(Fetched(k))
  /\ oracle.admin = OracleKey
  /\ UpdateOraclePrice(Pair(k)[1], Pair(k)[2], Fetched(k), SCALE)
  /\ Remember(k)
  /\ update' = OnTo(k)
  /\ UNCHANGED market

(* Faulty: a refused push ends the update.                                  *)
RefusedEnds(k) ==
  /\ update[k] # None
  /\ Usable(Fetched(k))
  /\ Remember(k)
  /\ update' = [update EXCEPT ![k] = None]
  /\ UNCHANGED <<market, oracleVars>>

(* The contract refuses the price or the signer, or the network fails.      *)
Refused(k) ==
  /\ update[k] # None
  /\ Usable(Fetched(k))
  /\ Remember(k)
  /\ update' = OnTo(k)
  /\ UNCHANGED <<market, oracleVars>>

(* External: the market moves, or stops being quoted.                       *)
MarketMoves(coin, price) ==
  /\ market' = [market EXCEPT ![coin] = price]
  /\ UNCHANGED <<lastPrices, update, oracleVars>>

PusherStep(k) == StartUpdate(k) \/ SkipPair(k) \/ Push(k) \/ Refused(k)

PusherInit ==
  /\ OracleInit
  /\ market = [c \in Coins |-> None]
  /\ lastPrices = [p \in Kept |-> None]
  /\ update = [k \in Updates |-> None]

PusherNext ==
  \/ \E k \in Updates : PusherStep(k)
  \/ \E coin \in Coins, price \in MarketPrices \union {None} : MarketMoves(coin, price)
  \/ OracleNext /\ UNCHANGED pusherVars

(* The interval fires and every call returns; a push that the contract would*)
(* take again and again does not fail for ever.                             *)
PusherFairness ==
  \A k \in Updates :
    /\ WF_pushVars(PusherStep(k))
    /\ \A p \in Kept : SF_pushVars(Push(k) /\ Pair(k) = p)

PusherSpec == PusherInit /\ [][PusherNext]_pushVars /\ PusherFairness

-----------------------------------------------------------------------------
(* Once the market stands still within the step the contract allows a pair, *)
(* that pair is brought to it on chain and in the cache, again whenever     *)
(* somebody pushes another price by hand, though other pairs' pushes are    *)
(* refused at every interval and an update that fetched an older price may  *)
(* still be running.                                                        *)
WithinReach(pair) ==
  LET price == market[CoinOf[pair]]
  IN /\ oracle.admin = OracleKey
     /\ Usable(price) /\ JumpAllowed(oracle.pushed[pair], price, SCALE)
AtMarket(pair) ==
  LET price == market[CoinOf[pair]]
      pushed == oracle.pushed[pair]
  IN /\ Usable(price) /\ lastPrices[pair] = price
     /\ pushed # None /\ pushed.num * SCALE = price * pushed.den
PairsFollowTheMarket ==
  <>[][UNCHANGED market]_market =>
    \A pair \in Kept : <>[]WithinReach(pair) => []<>AtMarket(pair)
=============================================================================
