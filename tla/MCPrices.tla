------------------------------ MODULE MCPrices ------------------------------
(***************************************************************************)
(* Prices, and the settlement contract that holds quotes against them.      *)
(* Three tokens, one on an 18-decimal-like scale, fed by oracles of         *)
(* different decimals, reporting in seconds or (above 100) milliseconds; or *)
(* two pairs of one coin kept by the oracle service; or a desk that signs   *)
(* quotes for one taker while a price is pushed by hand.                    *)
(***************************************************************************)
EXTENDS OraclePusher, RfqSettle, TLC

CONSTANTS tA, tB, tC, stranger, bitcoin, desk, taker

MCTokens == {tA, tB, tC}
MCTokenDecimals == tA :> 0 @@ tB :> 1 @@ tC :> 2
MCFeedConfigs == {[max_age_secs |-> 0, oracle_decimals |-> 2],
                  [max_age_secs |-> 2, oracle_decimals |-> 0]}
MCReports == {[price |-> 3, timestamp |-> 0], [price |-> 2, timestamp |-> 2000]}

(* One directed pair is pushed by hand too, in steps small and large and    *)
(* with values that are no price; or from one price to the other and back.  *)
ManyPrices == {<<10, 1>>, <<12, 1>>, <<8, 1>>, <<5, 1>>, <<0, 1>>, <<11, 0>>}
SteppedPrices == {<<2, 1>>, <<9, 4>>}
AllPrices == ManyPrices \union SteppedPrices
OnePair == {<<tA, tB>>}

TwoPairs == <<<<tA, tB>>, <<tA, tC>>>>
MCCoinOf == <<tA, tB>> :> bitcoin @@ <<tA, tC>> :> bitcoin

(* Quotes of one nonce: in, on and outside their bands, one without a band  *)
(* and dated too far ahead.                                                 *)
Q(in, out, expiry, nonce, band) ==
  [maker |-> desk, taker |-> taker, token_in |-> tA, token_out |-> tB,
   amount_in |-> in, amount_out |-> out, expiry_ledger |-> expiry, nonce |-> nonce,
   max_nav_dev_bps |-> band]
SignedQuotes == {Q(3, 5, 2, 1, 2), Q(3, 7, 3, 1, 1), Q(1, 2, 5, 1, 0),
                 Q(1, 2, 4, 1, 3), Q(3, 8, 4, 1, 2), Q(3, 6, 3, 1, 1)}
SignedFunds ==
  [ht \in Holders \X Tokens |->
     CASE ht = <<taker, tA>> -> 6 [] ht = <<desk, tB>> -> 12 [] OTHER -> 0]

-----------------------------------------------------------------------------
VARIABLE scenario

pricesVars == <<pushVars, rfqVars, scenario>>

Pushed == {<<p.num, p.den>> : p \in {oracle.pushed[pair] : pair \in Tokens \X Tokens} \ {None}}
NoFeeds ==
  /\ reports = [t \in Tokens |-> None] /\ oracle.max_age = None
  /\ \A t \in Tokens : oracle.feeds[t] = None
NoService ==
  /\ market = [c \in Coins |-> None] /\ lastPrices = [p \in Kept |-> None]
  /\ update = [k \in Updates |-> None]

(* Bound: feeds without the service, for two ledgers; the service without   *)
(* feeds, in one ledger; settlements at prices that only step.              *)
Bounds ==
  CASE scenario = "feeds" -> NoService /\ seq <= 2 /\ Pushed \cap SteppedPrices = {}
    [] scenario = "service" -> NoFeeds /\ seq = 0 /\ Pushed \cap SteppedPrices = {}
    [] scenario = "settlement" ->
         NoFeeds /\ NoService /\ Pushed \subseteq SteppedPrices /\ oracle.admin # OracleKey

PricesInit == PusherInit /\ Init /\ scenario \in {"feeds", "service", "settlement"}
PricesNext ==
  /\ \/ PusherNext /\ UNCHANGED rfqVars
     \/ Next /\ scenario = "settlement" /\ UNCHANGED pusherVars
  /\ scenario' = scenario
  /\ Bounds'
PricesSpec == PricesInit /\ [][PricesNext]_pricesVars /\ PusherFairness
=============================================================================
