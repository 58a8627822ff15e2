---------------------------- MODULE MCTwapBuild -----------------------------
(***************************************************************************)
(* Instances of TwapBuild for TLC: orders of one maker through two venues.  *)
(***************************************************************************)
EXTENDS TwapBuild, TLC

CONSTANTS tA, tB, maker, v1, v2

TwoTokens == {tA, tB}
MCTokenDecimals == tA :> 0 @@ tB :> 0
FinerOut == tA :> 0 @@ tB :> 1
OneWay == {<<tA, tB>>}
MCPushedPrices == {<<2, 1>>, <<12, 5>>}

Give(a, b) ==
  [ht \in Holders \X Tokens |->
     CASE ht = <<maker, tA>> -> a [] ht = <<maker, tB>> -> b [] OTHER -> 0]
MCFunds == Give(3, 2)

Twap(in, out, total, end, num, den, slippage, slice, gap, tolerance) ==
  [token_in |-> in, token_out |-> out, total_in |-> total, end_ledger |-> end,
   limit_num |-> num, limit_den |-> den, max_slippage_bps |-> slippage,
   max_slice_in |-> slice, min_slice_gap |-> gap, pace_tolerance_bps |-> tolerance]
S(venue, amount, min) == [venue |-> venue, amount_in |-> amount, min_amount_out |-> min]

(* A limit of 2:3 in slices of at most two; an order without                *)
(* a limit, bound to prices that step; refused terms.                       *)
LoneTerms == {Twap(tA, tB, 3, 5, 2, 3, 0, 2, 1, 3),
              Twap(tA, tB, 2, 4, 1, 0, 1, 1, 1, 0), Twap(tA, tB, 2, 2, 1, 1, 0, 1, 1, 0),
              Twap(tA, tB, 3, 5, 0, 0, 3, 2, 1, 5)}
LoneRoutes == {<<S(v1, 1, 0)>>, <<S(v1, 1, 0), S(v2, 1, 1)>>, <<S(v1, 2, 0), S(v2, 1, 1)>>}

(* Two orders that sell to each other's token, only one of an eligible pair,*)
(* and one past the cap.                                                    *)
KeptTerms == {Twap(tA, tB, 3, 4, 1, 1, 0, 2, 1, 5), Twap(tB, tA, 2, 3, 1, 2, 0, 2, 1, 0)}
KeptRoutes == {<<S(v1, 1, 0)>>, <<S(v1, 2, 1)>>}

AllTerms == LoneTerms \union KeptTerms
AllRoutes == LoneRoutes \union KeptRoutes

(* Requests with a limit that is exact, that is rounded, that rounds to     *)
(* nothing, and without one; a window that is the contract's shortest only  *)
(* by the server's reckoning; a token outside the universe.                 *)
Ask(out, amount, seconds, limit, slice, gap) ==
  [token_in |-> tA, token_out |-> out, amount_in |-> amount, seconds |-> seconds,
   limit |-> limit, slippage_bps |-> 2, slice_bps |-> slice, gap_seconds |-> gap,
   pace_tolerance_bps |-> 5]
MCRequests == {Ask(tB, 3, 6, <<3, 2>>, 5, 3), Ask(tB, 2, 8, <<2, 3>>, 10, 2),
               Ask(tB, 2, 8, <<1, 5>>, 10, 2), Ask(tB, 2, 4, None, 5, 2),
               Ask(maker, 2, 8, None, 5, 2)}

ExactRequests == {Ask(tB, 3, 6, <<3, 2>>, 5, 3)}

AreTerms(o, terms) ==
  \E t \in terms : \A f \in DOMAIN t \ {"end_ledger"} : o[f] = t[f]

(* Bound: either one order in a moving world and no keeper, or the keeper's *)
(* orders in a world where only ledgers close and a slice brings two net, or*)
(* one order that a maker asks the server for, in such a world and sooner.  *)
NoKeeper == keeper' = keeper /\ keeper.phase = "idle" /\ keeper.rotation = 0
NoServer ==
  /\ UNCHANGED <<form, page>>
  /\ form[maker] = Blank /\ page[maker] = [ids |-> {}, shown |-> {}, cancelling |-> 0]
CalmWorld == oracle'.admin = None /\ settings'.fee = DEFAULT_FEE /\ settings'.venues \subseteq {v1}
LoneOrder ==
  /\ NoKeeper /\ NoServer
  /\ Len(orders') <= 1 /\ \A id \in DOMAIN orders' : AreTerms(orders'[id], LoneTerms)
KeptOrders ==
  /\ NoServer /\ CalmWorld
  /\ keeper'.sub.kind = "slice" => keeper'.sub.route \in KeptRoutes
  /\ \A id \in DOMAIN orders' : AreTerms(orders'[id], KeptTerms)
  /\ \A id \in DOMAIN orders :
       orders'[id].received_out - orders[id].received_out \in {0, 2}
AskedOrder ==
  /\ NoKeeper /\ CalmWorld /\ seq' <= 3
  /\ Len(orders') <= 1
  /\ \A id \in DOMAIN orders' : AreTerms(orders'[id], {BuiltTerms(q) : q \in MCRequests})
TwapSpec ==
  BuildInit /\ [][BuildNext /\ (LoneOrder \/ KeptOrders \/ AskedOrder)]_buildVars /\ KeeperFairness
AskedSpec == BuildInit /\ [][BuildNext /\ AskedOrder]_buildVars
=============================================================================
