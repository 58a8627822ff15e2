------------------------------ MODULE PeerSwap -------------------------------
(***************************************************************************)
(* The backend's Peer Swap: a taker's budget is planned against the orders  *)
(* that rest on the other side of the book, and the plan is handed over as  *)
(* one match_and_place whose remainder becomes the taker's own order.  The  *)
(* planner repeats the contract's arithmetic; the plan must come out as the *)
(* contract will see it.                                                    *)
(***************************************************************************)
EXTENDS FillQuote

CONSTANTS
  PeerRequests,               \* what takers ask /api/peer-swap/build for
  SDF_LIQUIDITY_WALLETS,      \* accounts run by the protocol
  DEFAULT_EXPIRY_LEDGERS

(* What parseAmount and parseSlippageBps let through, and the 7 days of the  *)
(* default expiry within the contract's 90.                                 *)
ASSUME PeerAssumption ==
  /\ \A r \in PeerRequests :
       /\ r.token_in \in Tokens /\ r.token_out \in Tokens /\ r.price_mode \in Modes
       /\ r.amount_in \in Nat \ {0} /\ r.min_amount_out \in Nat \ {0}
       /\ r.max_slippage_bps \in 1..MAX_SLIPPAGE_BPS
       /\ r.expiry \in Nat /\ r.timer \in Nat
  /\ SDF_LIQUIDITY_WALLETS \subseteq Accounts
  /\ DEFAULT_EXPIRY_LEDGERS \in 1..MAX_EXPIRY_LEDGERS

-----------------------------------------------------------------------------
(* planBookFills                                                            *)

IsCandidate(o, taker) ==
  /\ IsOpen(o) /\ o.price_mode = "Fixed" /\ o.amount_in > 0
  /\ o.maker # taker /\ taker \notin o.excluded

Candidates(taker, in, out) ==
  {id \in book.index[<<out, in>>] : IsCandidate(book.orders[id], taker)}

(* Faulty: in the order they were placed, whoever operates them.            *)
ReverseOrdersByAge(taker, in, out) == InOrder(Candidates(taker, in, out))

OwnOrders(ids) == {id \in ids : book.orders[id].maker \in SDF_LIQUIDITY_WALLETS}

(* Organic makers come first, the protocol's own wallets last.              *)
ReverseOrders(taker, in, out) ==
  LET candidates == Candidates(taker, in, out)
  IN InOrder(candidates \ OwnOrders(candidates)) \o InOrder(OwnOrders(candidates))

(* Faulty: the maker's floor is sent without the fee that comes off it.     *)
CostOfFloor(o, fill) == MulDivCeil(o.min_amount_out, fill, o.amount_in)

(* The planner takes the fee for the highest the contract allows.           *)
Cost(o, fill) ==
  GrossForNet(MulDivCeil(o.min_amount_out, fill, o.amount_in), MAX_FEE, FEE_DENOMINATOR)

PartOf(o, budget) ==
  LET net == MulDivFloor(budget, FEE_DENOMINATOR - MAX_FEE, FEE_DENOMINATOR)
      start == Min({MulDivFloor(net, o.amount_in, o.min_amount_out), o.amount_in_remaining})
  IN Max({0} \union {fill \in 1..start : Cost(o, fill) <= budget})

FillFor(o, budget) ==
  IF Cost(o, o.amount_in_remaining) <= budget THEN o.amount_in_remaining
  ELSE PartOf(o, budget)

Planned(plan, id, fill) ==
  LET out == Cost(book.orders[id], fill)
  IN IF fill = 0 THEN plan
     ELSE [bought |-> plan.bought + fill, paid |-> plan.paid + out,
           fills |-> Append(plan.fills, [id |-> id, fill |-> fill, out |-> out])]

PlanOrder(plan, id, amount) ==
  Planned(plan, id, FillFor(book.orders[id], amount - plan.paid))

PlanSteps(ids, amount) ==
  LET plan[k \in 0..Len(ids)] ==
        IF k = 0 THEN NoQuote ELSE PlanOrder(plan[k - 1], ids[k], amount)
  IN plan

PlanBookFills(taker, in, out, amount) ==
  LET ids == ReverseOrders(taker, in, out)
  IN PlanSteps(ids, amount)[Len(ids)]

-----------------------------------------------------------------------------
(* What is handed to match_and_place                                        *)

Siblings(taker, r) ==
  IF taker \in SDF_LIQUIDITY_WALLETS THEN SDF_LIQUIDITY_WALLETS \ {taker} ELSE r.excluded

(* More than the contract takes, and the request is refused.                *)
CanBuild(taker, r) == Cardinality(Siblings(taker, r)) <= MAX_EXCLUDED

OrderExpiry(r) == IF r.expiry > seq THEN r.expiry ELSE seq + DEFAULT_EXPIRY_LEDGERS

ProRataMinOut(r, sit) == IF sit > 0 THEN MulDivCeil(r.min_amount_out, sit, r.amount_in) ELSE 0

MatchTermsOf(taker, r, plan) ==
  [token_in |-> r.token_in, token_out |-> r.token_out, amount_in |-> r.amount_in,
   min_amount_out |-> IF r.price_mode = "Oracle" THEN 0
                      ELSE ProRataMinOut(r, r.amount_in - plan.paid),
   expiry |-> OrderExpiry(r), price_mode |-> r.price_mode,
   max_slippage_bps |-> IF r.price_mode = "Oracle" THEN r.max_slippage_bps ELSE 0,
   auto_route_after |-> IF r.timer > 0 THEN seq + r.timer ELSE 0,
   excluded |-> Siblings(taker, r)]

PlanOf(taker, r) == PlanBookFills(taker, r.token_in, r.token_out, r.amount_in)

-----------------------------------------------------------------------------
(* A plan made of the book as it stands goes through as planned, for every  *)
(* taker with the funds: the contract takes each fill after those before it *)
(* and the remainder that is left, unless an order past its expiry stands   *)
(* in the way, or the remainder is dust, unpriced, finds the book full, or  *)
(* asks for what the server leaves to the contract to refuse: a token for   *)
(* itself, an expiry too far off, a timer beyond it.                        *)
(* And no more could have been bought: each order short of its whole is as  *)
(* full as the rest of the budget makes it, and the protocol's wallets are  *)
(* not drawn on while an organic maker still could be.                      *)
NoneLapsed(taker, r) ==
  \A id \in Candidates(taker, r.token_in, r.token_out) : seq <= book.orders[id].expiry

Askable(o) ==
  /\ o.token_in # o.token_out
  /\ o.expiry <= seq + MAX_EXPIRY_LEDGERS
  /\ o.auto_route_after > 0 => o.auto_route_after < o.expiry

Placeable(b, taker, o) ==
  (/\ Askable(o)
   /\ o.amount_in > 0 /\ o.amount_in >= cfg.min_order[o.token_in]
   /\ RoomFor(b, taker, o) /\ Priced(o)) => CanPlace(b, taker, o)

FilledOf(plan, id) ==
  LET mine == {k \in DOMAIN plan.fills : plan.fills[k].id = id}
  IN IF mine = {} THEN 0 ELSE plan.fills[CHOOSE k \in mine : TRUE].fill

UsedUp(plan, id, budget) ==
  LET o == book.orders[id]
      fill == FilledOf(plan, id)
  IN \/ fill = o.amount_in_remaining
     \/ Cost(o, fill + 1) > budget + IF fill = 0 THEN 0 ELSE Cost(o, fill)

OrganicFirst(plan, taker, r) ==
  \A k \in DOMAIN plan.fills :
    book.orders[plan.fills[k].id].maker \in SDF_LIQUIDITY_WALLETS =>
      \A id \in Candidates(taker, r.token_in, r.token_out) :
        book.orders[id].maker \notin SDF_LIQUIDITY_WALLETS =>
          UsedUp(plan, id, r.amount_in - plan.paid + plan.fills[k].out)

PlanFits(taker, r, plan) ==
  LET terms == MatchTermsOf(taker, r, plan)
      rest == [terms EXCEPT !.amount_in = @ - plan.paid]
  IN /\ plan.paid <= r.amount_in
     /\ Fillable(taker, plan, r.token_out, r.token_in)
     /\ Placeable(AfterFills(taker, plan.fills)[Len(plan.fills)], taker, rest)
     /\ \A id \in Candidates(taker, r.token_in, r.token_out) :
          UsedUp(plan, id, r.amount_in - plan.paid)
     /\ OrganicFirst(plan, taker, r)

PeerPlansFit ==
  Idle => \A taker \in Accounts, r \in PeerRequests :
    (/\ CanBuild(taker, r) /\ NoneLapsed(taker, r)
     /\ CanPay(book, taker, r.token_in, r.amount_in)) => PlanFits(taker, r, PlanOf(taker, r))
=============================================================================
