------------------------------ MODULE MCRouter ------------------------------
(* A user routing tA, orders on timers selling tC, and an integrator.       *)
EXTENDS TimerSweep, TLC

CONSTANTS tA, tB, tC, user, maker, integrator, v1, v2

ThreeTokens == {tA, tB, tC}
MCTokenDecimals == [t \in ThreeTokens |-> 0]
Nothing == {}

MCFunds ==
  [ht \in Holders \X Tokens |->
     CASE ht = <<user, tA>> -> 3 [] ht = <<maker, tC>> -> 4
       [] ht = <<integrator, tB>> -> 2 [] OTHER -> 0]

(* Orders on a timer: 3 for at least 2, and one pegged to a pushed price.   *)
TimerTerms ==
  {[token_in |-> tC, token_out |-> tB, amount_in |-> 3, min_amount_out |-> 2,
    expiry |-> 2, price_mode |-> "Fixed", max_slippage_bps |-> 0,
    auto_route_after |-> 1, excluded |-> {}],
   [token_in |-> tC, token_out |-> tB, amount_in |-> 2, min_amount_out |-> 0,
    expiry |-> 3, price_mode |-> "Oracle", max_slippage_bps |-> 2,
    auto_route_after |-> 1, excluded |-> {}]}
(* One no venue fills at its price, and one that every venue could.         *)
Timed(amount, min, expiry) ==
  [token_in |-> tC, token_out |-> tB, amount_in |-> amount, min_amount_out |-> min,
   expiry |-> expiry, price_mode |-> "Fixed", max_slippage_bps |-> 0,
   auto_route_after |-> 1, excluded |-> {}]
SweptTerms == {Timed(1, 9, 2), Timed(2, 1, 3)}
AllTerms == TimerTerms \union SweptTerms
MCPushedPrices == {<<3, 2>>}
MCPushedPairs == {<<tC, tB>>}

L(venue, part, min) == [venue |-> venue, part |-> part, min_amount_out |-> min]
H(token, legs) == [token_out |-> token, legs |-> legs]

(* Two hops with a split that leaves a remainder; a round trip; and paths   *)
(* the contract refuses.                                                    *)
MCPaths ==
  {[token_in |-> tA, amount_in |-> 3, min_amount_out |-> 1, estimated_out |-> 2,
    hops |-> <<H(tB, <<L(v1, 5, 0), L(v2, 5, 0)>>), H(tC, <<L(v1, 10, 0)>>)>>],
   [token_in |-> tA, amount_in |-> 2, min_amount_out |-> 1, estimated_out |-> 0,
    hops |-> <<H(tB, <<L(v1, 10, 1)>>), H(tA, <<L(v1, 7, 0), L(v1, 3, 0)>>)>>],
   [token_in |-> tA, amount_in |-> 2, min_amount_out |-> 1, estimated_out |-> 0,
    hops |-> <<H(tB, <<L(v1, 5, 0), L(v1, 4, 0)>>)>>],
   [token_in |-> tA, amount_in |-> 2, min_amount_out |-> 1, estimated_out |-> 0,
    hops |-> <<H(tA, <<L(v1, 10, 0)>>)>>]}
MCOrders ==
  {[token_in |-> tA, token_out |-> tB, amount_in |-> 3, min_amount_out |-> 1,
    estimated_out |-> 3, legs |-> <<L(v1, 1, 0), L(v2, 2, 1)>>],
   [token_in |-> tA, token_out |-> tB, amount_in |-> 2, min_amount_out |-> 2,
    estimated_out |-> 1, legs |-> <<L(v1, 2, 0)>>]}
MCSegments == {<<L(v1, 3, 0)>>, <<L(v1, 1, 0), L(v1, 1, 0)>>, <<L(v2, 2, 0)>>}
SweptSegments == {<<L(v1, 1, 0)>>, <<L(v2, 2, 0)>>}
AllSegments == MCSegments \union SweptSegments
MCLivePairs == <<<<tC, tB>>, <<tB, tC>>>>

OrdersAre(terms) ==
  \A id \in OrderIds(book) : \E t \in terms :
    \A f \in DOMAIN t : book.orders[id][f] = t[f]
FirstRates ==
  rates = [fee |-> DEFAULT_FEE_PER_100K, share |-> DEFAULT_SURPLUS_SHARE_BPS]

(* Bound: either two invocations of users and one timed order, that others  *)
(* settle; or two orders of one pair that the sweep settles.                *)
Trips ==
  /\ seq <= 2 /\ Len(book.orders) <= 1 /\ OrdersAre(TimerTerms)
  /\ sweep = Sleeping /\ inflight = {} /\ failures = 0
  /\ \A id \in OrderIds(book) : book.history[id].delivered = 0
Sweeps ==
  /\ trips = 0 /\ FirstRates /\ OrdersAre(SweptTerms) /\ oracle.admin = None
  /\ venues # Venues => book.orders = <<>> /\ venues \subseteq {v2}
  /\ seq < 2 => sweep = Sleeping
  /\ Len(book.orders) = 2 => book.orders[1].amount_in # book.orders[2].amount_in
MCSpec == SweepInit /\ [][SweepNext /\ (Trips \/ Sweeps)']_allSweepVars /\ SweepFairness
=============================================================================
