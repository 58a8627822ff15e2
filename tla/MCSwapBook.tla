----------------------------- MODULE MCSwapBook -----------------------------
(***************************************************************************)
(* Instances of PeerSwap for TLC.   alice owns tA and sells it, bob and      *)
(* carol own tB and pay with it (or sell it); the contracts start empty.    *)
(***************************************************************************)
EXTENDS PeerSwap, TLC

CONSTANTS tA, tB, alice, bob, carol

TwoTokens == {tA, tB}
MCTokenDecimals == tA :> 0 @@ tB :> 1
Nothing == {}

Give(a, b, c) ==
  [ht \in Holders \X Tokens |->
     CASE ht = <<alice, tA>> -> a [] ht = <<bob, tB>> -> b
       [] ht = <<carol, tB>> -> c [] OTHER -> 0]
MCFunds == Give(3, 4, 2)

Fixed(in, out, amount, min, expiry, timer, excluded) ==
  [token_in |-> in, token_out |-> out, amount_in |-> amount, min_amount_out |-> min,
   expiry |-> expiry, price_mode |-> "Fixed", max_slippage_bps |-> 0,
   auto_route_after |-> timer, excluded |-> excluded]
Pegged(in, out, amount, slippage, expiry, timer) ==
  [token_in |-> in, token_out |-> out, amount_in |-> amount, min_amount_out |-> 0,
   expiry |-> expiry, price_mode |-> "Oracle", max_slippage_bps |-> slippage,
   auto_route_after |-> timer, excluded |-> {}]

(* A 3:2 price whose pro-rata floors round; a timed order on the other side;*)
(* an exclusion; and terms the contract refuses.                            *)
FixedTerms == {Fixed(tA, tB, 3, 2, 2, 0, {}), Fixed(tB, tA, 2, 1, 2, 1, {carol}),
               Fixed(tA, tB, 2, 1, 2, 1, {bob}), Fixed(tA, tA, 1, 1, 2, 0, {}),
               Fixed(tA, tB, 1, 1, 2, 2, {}), Fixed(tA, tB, 1, 0, 2, 0, {})}

(* Orders that a match runs into from the other side.                       *)
SittingTerms == {Fixed(tA, tB, 2, 1, 2, 0, {}), Fixed(tA, tB, 1, 1, 1, 0, {})}
TakingTerms == {Fixed(tB, tA, 4, 2, 2, 0, {}), Fixed(tB, tA, 2, 1, 1, 0, {alice})}

PeggedTerms == {Pegged(tA, tB, 3, 2, 3, 1), Pegged(tA, tB, 2, 1, 2, 0)}
AllTerms == FixedTerms \union SittingTerms \union PeggedTerms
MCPushedPrices == {<<1, 1>>, <<6, 5>>, <<2, 1>>, <<0, 1>>}
MCPushedPairs == {<<tA, tB>>}
MCFeedConfigs == {[max_age_secs |-> 0, oracle_decimals |-> 1]}
MCReports == {[price |-> 1, timestamp |-> 1], [price |-> 10, timestamp |-> 2000]}

(* bob's orders are the protocol's.                                         *)
Ask(in, out, amount, min, mode, timer) ==
  [token_in |-> in, token_out |-> out, amount_in |-> amount, min_amount_out |-> min,
   price_mode |-> mode, max_slippage_bps |-> 1, expiry |-> 0, timer |-> timer, excluded |-> {}]
MCRequests == {Ask(tA, tB, 3, 2, "Fixed", 1), Ask(tB, tA, 2, 1, "Fixed", 0),
               Ask(tA, tB, 1, 1, "Oracle", 0)}

AreTerms(o, terms) ==
  \E t \in terms : \A f \in DOMAIN t \ {"amount_in"} : o[f] = t[f]
OrdersAre(terms) == \A id \in OrderIds(book) : AreTerms(book.orders[id], terms)

NoOracle ==
  /\ oracle.admin = None /\ reports = [t \in Tokens |-> None]
  /\ oracle.max_age = None /\ \A t \in Tokens : oracle.feeds[t] = None
FirstSettings == cfg.fee = DEFAULT_FEE /\ \A t \in Tokens : cfg.min_order[t] = 0

(* Bound: either two fixed orders of three accounts while the settings      *)
(* change; or three orders of two accounts, matched; or one pegged order    *)
(* while prices change.                                                     *)
FixedOrders == NoOracle /\ call = None /\ Len(book.orders) <= 2 /\ OrdersAre(FixedTerms)
MatchedOrders ==
  /\ NoOracle /\ FirstSettings /\ ~cfg.router /\ seq <= 2
  /\ \A t \in Tokens : book.balance[<<carol, t>>] = Funds[<<carol, t>>]
  /\ call # None => call.maker # carol
  /\ OrdersAre(SittingTerms \union TakingTerms)
PeggedOrder ==
  /\ FirstSettings /\ seq <= 3 /\ Len(book.orders) <= 1 /\ call = None
  /\ OrdersAre(PeggedTerms)
BookSpec == Init /\ [][Next /\ (FixedOrders \/ MatchedOrders \/ PeggedOrder)']_vars
=============================================================================
