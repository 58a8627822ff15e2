------------------------------ MODULE SwapBuild ------------------------------
(***************************************************************************)
(* The server's answer to "what would I get" and "build me the swap": the   *)
(* direct route competes with the classic order book, with a blend of both  *)
(* and with chains of pools, and whatever wins becomes one transaction or   *)
(* several; and what each transaction does when the ledger applies it.      *)
(***************************************************************************)
EXTENDS Routing, RouterTerms

CONSTANTS
  Amms, Sdex,                 \* venue ids: the Router's, and the classic order book's
  Gives(_, _, _, _, _),       \* what venue v gives of token o for x of token i in a market
  Unregistered,               \* pools quoted by the backend that no adapter can use
  Edges,                      \* the pathfinder's graph
  Slippage,                   \* bps
  BLEND_MIN_GAIN_UNITS, BLEND_MIN_GAIN_BPS,
  BLEND_FEE,                  \* what a blend reckons the Router takes, of FEE_DENOMINATOR
  SurplusShare                \* bps of what the Router keeps above an estimate

ASSUME BuildAssumption ==
  /\ Amms \subseteq Nat /\ Sdex \in Nat \ Amms
  /\ Slippage \in 0..(BPS_DENOMINATOR - 1) /\ SurplusShare \in 0..BPS_DENOMINATOR
  /\ {BLEND_MIN_GAIN_UNITS, BLEND_MIN_GAIN_BPS, BLEND_FEE} \subseteq Nat

AtLeastOne(x) == IF x > 0 THEN x ELSE 1

-----------------------------------------------------------------------------
(* Quotes                                                                   *)

Profiles(ids, in, out, x, market) ==
  LET levels == Levels(x)
  IN {[venue |-> v, outs |-> [i \in DOMAIN levels |-> Gives(v, in, out, levels[i], market)]] :
        v \in ids}

WithImpact(profiles, route) == [impact |-> PriceImpact(profiles, route)] @@ route

Routed(ids, in, out, x, market) ==
  LET profiles == Profiles(ids, in, out, x, market)
  IN WithImpact(profiles, ComputeRoute(profiles, x))

(* The chain of pools that pays most, and none if it is not a chain.        *)
Multi(in, out, x, market) ==
  BestPath(Edges, in, out, x, Slippage,
           [hop \in PoolTokens(Edges) \X PoolTokens(Edges) \X Nat |->
              Profiles(Amms, hop[1], hop[2], hop[3], market)])

SumHopImpact(hops) == FoldSeq(LAMBDA h, acc : h.impact + acc, 0, hops)

Displayed(direct, multi) ==
  IF direct.net <= 0 /\ multi.net <= 0 THEN None
  ELSE IF multi.net > direct.net
       THEN [net |-> multi.net, blocked |-> ImpactViolation(SumHopImpact(multi.hops))]
       ELSE [net |-> direct.net, blocked |-> ImpactViolation(direct.impact)]

(* GET /api/quote; the fast answer does not look for chains.                *)
Quote(fast, in, out, x, market) ==
  Displayed(Routed(Amms, in, out, x, market),
            IF fast THEN NoPath ELSE Multi(in, out, x, market))

(* The allocation over both kinds of liquidity, as two transactions, where  *)
(* it gains enough on the best single one.  Its fee is written out here, and *)
(* need not be the one the engine reckons with.                             *)
Blend(mixed, single) ==
  LET amms == DOMAIN mixed.segments \ {Sdex}
      amm_in == Sum([v \in amms |-> mixed.segments[v].amount_in], SetToSeq(amms))
      amm_out == Sum([v \in amms |-> mixed.segments[v].out], SetToSeq(amms))
      amm_net == amm_out - MulDivCeil(amm_out, BLEND_FEE, FEE_DENOMINATOR)
      sdex == mixed.segments[Sdex]
      gain == sdex.out + amm_net - single
  IN IF \/ Sdex \notin DOMAIN mixed.segments \/ amms = {} \/ single = 0
        \/ gain < BLEND_MIN_GAIN_UNITS
        \/ gain * BPS_DENOMINATOR < single * BLEND_MIN_GAIN_BPS
     THEN None
     ELSE [sdex_in |-> sdex.amount_in, sdex_out |-> sdex.out, amm_in |-> amm_in,
           amm_net |-> amm_net, net |-> sdex.out + amm_net]

Best(route, mixed, sdex_out) ==
  [route |-> route, mixed |-> mixed, sdex_out |-> sdex_out,
   kind |-> IF sdex_out > route.net THEN "classic" ELSE "soroban",
   blend |-> Blend(mixed, Greatest({route.net, sdex_out}))]

ComputeBestExecution(in, out, x, market) ==
  Best(Routed(Amms, in, out, x, market), Routed(Amms \union {Sdex}, in, out, x, market),
       Gives(Sdex, in, out, x, market))

-----------------------------------------------------------------------------
(* Transactions.  A route is a path of one hop whose legs take amounts in   *)
(* place of weights; only the Router's report an estimate.                  *)

Tx(kind, in, x, min, hops, estimate) ==
  [kind |-> kind, token_in |-> in, amount_in |-> x, min_amount_out |-> min,
   estimated_out |-> estimate, hops |-> hops]

SurplusArg(config, estimate) == IF config.surplus THEN estimate ELSE 0

Classic(in, out, x, expected) ==
  Tx("classic", in, x, AtLeastOne(MinOut(expected, Slippage)),
     <<[token_out |-> out, legs |-> <<[venue |-> Sdex, part |-> x, min_amount_out |-> 0]>>]>>, 0)

Instructions(segments, ids) ==
  LET order == SetToSortSeq(ids \intersect DOMAIN segments, <)
  IN [i \in DOMAIN order |->
        [venue |-> order[i], part |-> segments[order[i]].amount_in,
         min_amount_out |-> MinOut(segments[order[i]].out, Slippage)]]

ExecuteRouteTx(config, in, out, x, min, segments, estimate) ==
  Tx("route", in, x, min,
     <<[token_out |-> out, legs |-> Instructions(segments, Amms)]>>, SurplusArg(config, estimate))

(* Faulty: every leg has the weight of its share.                           *)
WeightsOfShares(route) ==
  LET legs == Instructions(route.segments, Amms)
  IN [i \in DOMAIN legs |->
        [legs[i] EXCEPT !.part = (@ * WEIGHT_DENOMINATOR) \div route.amount_in,
                        !.min_amount_out = 0]]

(* The last leg absorbs the rounding.                                       *)
Weights(route) ==
  LET legs == Instructions(route.segments, Amms)
      share(i) == (legs[i].part * WEIGHT_DENOMINATOR) \div route.amount_in
      assigned == FoldLeft(LAMBDA acc, i : acc + share(i), 0, [i \in 1..(Len(legs) - 1) |-> i])
  IN [i \in DOMAIN legs |->
        [legs[i] EXCEPT !.part = IF i = Len(legs) THEN WEIGHT_DENOMINATOR - assigned ELSE share(i),
                        !.min_amount_out = 0]]

(* What the path should give if each hop swaps what the one before returns. *)
EstimatedGross(hops, x) ==
  FoldLeft(LAMBDA acc, h : (h.route.gross * acc) \div h.amount_in, x, hops)

ExecutePathTx(config, in, x, multi) ==
  Tx("path", in, x, AtLeastOne(MinOut(multi.net, Slippage)),
     [i \in DOMAIN multi.hops |->
        [token_out |-> multi.hops[i].token_out, legs |-> Weights(multi.hops[i].route)]],
     SurplusArg(config, EstimatedGross(multi.hops, x)))

HopTx(config, h) ==
  ExecuteRouteTx(config, h.token_in, h.token_out, h.amount_in, h.min_out,
                 h.route.segments, h.route.gross)

-----------------------------------------------------------------------------
(* Plans.  A leg is a transaction, or what to ask for once the leg before   *)
(* has settled.                                                             *)

Refused == [ok |-> FALSE]
Plan(kind, legs, min) == [ok |-> TRUE, kind |-> kind, legs |-> legs, min |-> min, checked |-> {}]
Signable(tx) == [tx |-> tx, deferred |-> None]

(* Faulty: a hop is deferred with what the one before is expected to give.  *)
DeferredExpected(hops, i) ==
  [tx |-> None,
   deferred |-> [token_in |-> hops[i].token_in, token_out |-> hops[i].token_out,
                 amount |-> hops[i - 1].route.net]]

(* A hop is deferred with what the hop before guarantees.                   *)
Deferred(hops, i) ==
  [tx |-> None,
   deferred |-> [token_in |-> hops[i].token_in, token_out |-> hops[i].token_out,
                 amount |-> hops[i - 1].min_out]]

(* The venues and amounts whose adapters are asked before anything is       *)
(* signed: those of every hop but the first.                                *)
Preflight(hops) ==
  UNION {{[venue |-> leg.venue, in |-> hops[i].token_in, out |-> hops[i].token_out,
           amount |-> leg.part] : leg \in Range(Instructions(hops[i].route.segments, Amms))} :
           i \in 2..Len(hops)}

MultiPlan(config, in, x, multi) ==
  IF multi = NoPath \/ ImpactViolation(SumHopImpact(multi.hops)) THEN Refused
  ELSE IF config.v12
  THEN Plan("single", <<Signable(ExecutePathTx(config, in, x, multi))>>, MinOut(multi.net, Slippage))
  ELSE [Plan("hops",
             [i \in DOMAIN multi.hops |->
                IF i = 1 THEN Signable(HopTx(config, multi.hops[1])) ELSE Deferred(multi.hops, i)],
             Last(multi.hops).min_out)
          EXCEPT !.checked = Preflight(multi.hops)]

BlendPlan(config, in, out, best) ==
  LET b == best.blend
      classic == Classic(in, out, b.sdex_in, b.sdex_out)
      soroban == ExecuteRouteTx(config, in, out, b.amm_in, AtLeastOne(MinOut(b.amm_net, Slippage)),
                                best.mixed.segments, b.amm_net)
  IN IF ImpactViolation(best.mixed.impact) THEN Refused
     ELSE Plan("blend", <<Signable(classic), Signable(soroban)>>, MinOut(b.net, Slippage))

DirectPlan(config, in, out, x, route) ==
  LET min == MinOut(route.net, Slippage)
  IN IF ImpactViolation(route.impact) \/ min = 0 THEN Refused
     ELSE Plan("single",
               <<Signable(ExecuteRouteTx(config, in, out, x, min, route.segments, route.gross))>>, min)

Planned(config, in, out, x, best, multi) ==
  IF best.blend # None THEN BlendPlan(config, in, out, best)
  ELSE IF best.kind = "classic"
  THEN Plan("single", <<Signable(Classic(in, out, x, best.sdex_out))>>,
            MinOut(best.sdex_out, Slippage))
  ELSE IF best.route.segments = <<>> \/ multi.net > best.route.net
  THEN MultiPlan(config, in, x, multi)
  ELSE DirectPlan(config, in, out, x, best.route)

(* The chains are looked for after everything else, and the answer may be   *)
(* remembered from a while ago: they need not be of the same market.        *)
SwapPlan(config, in, out, x, market, searched) ==
  Planned(config, in, out, x, ComputeBestExecution(in, out, x, market),
          Multi(in, out, x, searched))

-----------------------------------------------------------------------------
(* The ledger.  An adapter fails where its venue has no pool for it.        *)

Delivers(venue, in, out, x, market) ==
  IF <<venue, in, out>> \in Unregistered THEN 0 ELSE Gives(venue, in, out, x, market)

(* A hop's legs in turn; failed is for the whole transaction.               *)
Hop(kind, state, hop, market) ==
  LET taken(left, i) ==
        IF kind # "path" THEN hop.legs[i].part
        ELSE IF i = Len(hop.legs) THEN left
        ELSE MulDivFloor(state.carry, hop.legs[i].part, WEIGHT_DENOMINATOR)
      leg(acc, i) ==
        LET x == taken(acc.left, i)
            got == Delivers(hop.legs[i].venue, state.token, hop.token_out, x, market)
        IN [left |-> acc.left - x, out |-> acc.out + got,
            failed |-> acc.failed \/ x <= 0 \/ got < hop.legs[i].min_amount_out]
      done == FoldLeft(leg, [left |-> state.carry, out |-> 0, failed |-> FALSE],
                       [i \in DOMAIN hop.legs |-> i])
  IN [token |-> hop.token_out, carry |-> done.out, failed |-> state.failed \/ done.failed]

Settled(tx, gross) ==
  LET fee == MulDivCeil(gross, FEE_NUMERATOR, FEE_DENOMINATOR)
      above == gross - tx.estimated_out
      share == IF tx.estimated_out > 0 /\ above > 0
               THEN MulDivFloor(above, SurplusShare, BPS_DENOMINATOR) ELSE 0
  IN IF tx.kind = "classic" THEN gross ELSE gross - fee - share

(* What a transaction leaves in the wallet that signed it, or None.         *)
Applied(tx, wallet, market) ==
  LET end == FoldLeft(LAMBDA acc, hop : Hop(tx.kind, acc, hop, market),
                      [token |-> tx.token_in, carry |-> tx.amount_in, failed |-> FALSE], tx.hops)
      net == Settled(tx, end.carry)
      paid == [wallet EXCEPT ![tx.token_in] = @ - tx.amount_in]
  IN IF wallet[tx.token_in] < tx.amount_in THEN None
     ELSE IF tx.kind = "escrow" THEN paid
     ELSE IF end.failed \/ net < tx.min_amount_out THEN None
     ELSE [paid EXCEPT ![end.token] = @ + net]

(* A transaction for the Router is simulated as it is built.                *)
Simulates(tx, wallet, market) ==
  tx.kind = "classic" \/ Applied(tx, wallet, market) # None

(* POST /api/swap/build: from quotes of one market, simulated in another.   *)
Build(plan, wallet, market) ==
  IF /\ plan.ok
     /\ \A leg \in Range(plan.legs) : leg.tx # None => Simulates(leg.tx, wallet, market)
     /\ \A ask \in plan.checked : Delivers(ask.venue, ask.in, ask.out, ask.amount, market) > 0
  THEN plan ELSE Refused

(* What the Router contract checks before it moves anything.                *)
Acceptable(tx) ==
  /\ ValidAmounts(tx)
  /\ tx.kind = "path" => ValidPath(tx.token_in, tx.hops)
  /\ tx.kind = "route" => ValidSegments(tx.hops[1].legs, tx.amount_in)
=============================================================================
