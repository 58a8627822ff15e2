------------------------------ MODULE SwapBook ------------------------------
(***************************************************************************)
(* The SwapBook contract: an escrow order book.  A maker escrows token_in   *)
(* and states a price (a fixed minimum, or an oracle price less a slippage  *)
(* tolerance); takers fill all or part of it; what is left comes back by    *)
(* cancel or expiry, or goes to the Router once the order's timer fires.    *)
(*                                                                          *)
(* A contract call is atomic: one action each, except match_and_place,      *)
(* whose fills are separate steps under a lock (the variable call), so that *)
(* a call that fails half way, and is rolled back by the host, is a         *)
(* behaviour of the model.                                                  *)
(***************************************************************************)
EXTENDS PriceOracle, FiniteSets, Sequences

CONSTANTS
  Accounts,                  \* makers and takers
  Book, Vault, Router,       \* the contracts that hold tokens
  MAX_FEE, DEFAULT_FEE, FEE_DENOMINATOR,
  MAX_EXCLUDED, MAX_ORDERS_PER_PAIR, MAX_OPEN_PER_MAKER_PAIR,
  MAX_EXPIRY_LEDGERS, MAX_SLIPPAGE_BPS,
  Funds,                     \* each holder's opening balance, per token
  OrderTerms, MatchTerms,    \* placements tried by place_order, match_and_place
  Quantities,                \* the amounts that are tried, in fills and payments
  FeeRates, MinOrders,       \* what the admin may try to set
  MaxOrders                  \* bound on the number of orders ever placed

Holders == Accounts \union {Book, Vault, Router}
Pairs == Tokens \X Tokens
Balances == [Holders \X Tokens -> Nat]
Modes == {"Fixed", "Oracle"}
OpenStatuses == {"Open", "PartialFill"}
Statuses == OpenStatuses \union {"Filled", "Cancelled", "Expired", "Routed"}

Terms == [token_in : Tokens, token_out : Tokens, amount_in : Int,
          min_amount_out : Int, expiry : Nat, price_mode : Modes,
          max_slippage_bps : Nat, auto_route_after : Nat,
          excluded : SUBSET Accounts]

ASSUME BookAssumption ==
  /\ Book \notin Accounts \union {Vault, Router}
  /\ Vault \notin Accounts \union {Router} /\ Router \notin Accounts
  /\ IsFiniteSet(Accounts)
  /\ FEE_DENOMINATOR \in Nat /\ MAX_FEE \in Nat /\ MAX_FEE < FEE_DENOMINATOR
  /\ DEFAULT_FEE \in 0..MAX_FEE
  /\ MAX_SLIPPAGE_BPS \in Nat /\ MAX_SLIPPAGE_BPS < BPS_DENOMINATOR
  /\ MAX_EXCLUDED \in Nat /\ MAX_ORDERS_PER_PAIR \in Nat
  /\ MAX_OPEN_PER_MAKER_PAIR \in Nat /\ MAX_EXPIRY_LEDGERS \in Nat
  /\ Funds \in Balances
  /\ \A t \in Tokens : Funds[<<Book, t>>] = 0
  /\ OrderTerms \subseteq Terms /\ MatchTerms \subseteq Terms
  /\ Quantities \subseteq Int /\ FeeRates \subseteq Int /\ MinOrders \subseteq Int
  /\ MaxOrders \in Nat

VARIABLES
  book,    \* orders and their indexes, and every holder's token balances
  cfg,     \* what the admin sets: fee, dust floors, whether a Router is installed
  call     \* the match_and_place in progress, or None

bookVars == <<book, cfg, call>>
vars == <<bookVars, oracleVars>>

-----------------------------------------------------------------------------
(* Orders                                                                   *)

OrderIds(b) == DOMAIN b.orders
Pair(o) == <<o.token_in, o.token_out>>
IsOpen(o) == o.status \in OpenStatuses

(* Definitions marked "faulty" are what a plausible slip would have made of *)
(* the one that follows; no behaviour of Spec uses them.                    *)

(* Faulty: the maker's floor rounded down; the price mode not looked at.    *)
RequiredPaymentRoundedDown(o, fill) == MulDivFloor(o.min_amount_out, fill, o.amount_in)
RequiredPaymentAsFixed(o, fill) == MulDivCeil(o.min_amount_out, fill, o.amount_in)

(* required_payment: the least the maker must receive, net of the fee.      *)
RequiredPayment(o, fill) ==
  IF o.price_mode = "Fixed"
  THEN MulDivCeil(o.min_amount_out, fill, o.amount_in)
  ELSE LET price == ReadOracle(o.token_in, o.token_out)
           fair == MulDivFloor(fill, price.num, price.den)
       IN MulDivCeil(fair, BPS_DENOMINATOR - o.max_slippage_bps, BPS_DENOMINATOR)

Priced(o) == o.price_mode = "Oracle" => HasPrice(o.token_in, o.token_out)

-----------------------------------------------------------------------------
(* The token contracts, external: a transfer fails when the payer is short. *)

CanPay(b, holder, token, amount) == b.balance[<<holder, token>>] >= amount

Transfer(balance, token, from, to, amount) ==
  [balance EXCEPT ![<<from, token>>] = @ - amount, ![<<to, token>>] = @ + amount]

-----------------------------------------------------------------------------
(* What the contract's functions leave behind.  history is not in the code: *)
(* it records where an order's escrow went and what its maker was paid.     *)

NewOrder(maker, o) ==
  [maker |-> maker, token_in |-> o.token_in, token_out |-> o.token_out,
   amount_in |-> o.amount_in, amount_in_remaining |-> o.amount_in,
   min_amount_out |-> o.min_amount_out, expiry |-> o.expiry, status |-> "Open",
   price_mode |-> o.price_mode, max_slippage_bps |-> o.max_slippage_bps,
   auto_route_after |-> o.auto_route_after, excluded |-> o.excluded]

NoHistory == [delivered |-> 0, received |-> 0, refunded |-> 0, routed |-> 0]
Sold(h, fill, net) ==
  [delivered |-> h.delivered + fill, received |-> h.received + net,
   refunded |-> h.refunded, routed |-> h.routed]

(* Faulty: the status is written, the remaining amount is not.              *)
LeftUntouched(o, remaining, status) == [o EXCEPT !.status = status]

Left(o, remaining, status) ==
  [o EXCEPT !.amount_in_remaining = remaining, !.status = status]

WriteOrder(b, id, o, h, balance) ==
  [orders |-> [b.orders EXCEPT ![id] = o],
   history |-> [b.history EXCEPT ![id] = h],
   index |-> b.index, count |-> b.count, balance |-> balance]

(* Faulty: the order leaves its pair's index but not its maker's count.     *)
CloseOrderIndexesOnly(b, id) ==
  [b EXCEPT !.index[Pair(b.orders[id])] = @ \ {id}]

CloseOrderIndexes(b, id) ==
  LET o == b.orders[id]
  IN [orders |-> b.orders, history |-> b.history,
      index |-> [b.index EXCEPT ![Pair(o)] = @ \ {id}],
      count |-> [b.count EXCEPT ![<<o.maker, Pair(o)>>] = IF @ <= 1 THEN 0 ELSE @ - 1],
      balance |-> b.balance]

PlaceInner(b, maker, o) ==
  LET id == Len(b.orders) + 1
  IN [orders |-> Append(b.orders, NewOrder(maker, o)),
      history |-> Append(b.history, NoHistory),
      index |-> [b.index EXCEPT ![Pair(o)] = @ \union {id}],
      count |-> [b.count EXCEPT ![<<maker, Pair(o)>>] = @ + 1],
      balance |-> Transfer(b.balance, o.token_in, maker, Book, o.amount_in)]

RoomFor(b, maker, o) ==
  /\ Cardinality(b.index[Pair(o)]) < MAX_ORDERS_PER_PAIR
  /\ b.count[<<maker, Pair(o)>>] < MAX_OPEN_PER_MAKER_PAIR

CanPlace(b, maker, o) ==
  /\ o.amount_in > 0
  /\ IF o.price_mode = "Fixed"
     THEN o.min_amount_out > 0
     ELSE o.min_amount_out >= 0 /\ o.max_slippage_bps \in 1..MAX_SLIPPAGE_BPS
  /\ o.token_in # o.token_out
  /\ seq < o.expiry /\ o.expiry <= seq + MAX_EXPIRY_LEDGERS
  /\ o.amount_in >= cfg.min_order[o.token_in]
  /\ Priced(o)
  /\ o.auto_route_after > 0 =>
       seq < o.auto_route_after /\ o.auto_route_after < o.expiry
  /\ Cardinality(o.excluded) <= MAX_EXCLUDED
  /\ RoomFor(b, maker, o)
  /\ CanPay(b, maker, o.token_in, o.amount_in)

Settlement(b, taker, id, fill, out) ==
  LET o == b.orders[id]
      fee == CalculateFee(out, cfg.fee, FEE_DENOMINATOR)
  IN Transfer(Transfer(Transfer(b.balance, o.token_out, taker, o.maker, out - fee),
                       o.token_out, taker, Vault, fee),
              o.token_in, Book, taker, fill)

FillInner(b, taker, id, fill, out) ==
  LET o == b.orders[id]
      left == o.amount_in_remaining - fill
      net == NetOfFee(out, cfg.fee, FEE_DENOMINATOR)
      filled ==
        WriteOrder(b, id,
          Left(o, left, IF left = 0 THEN "Filled" ELSE "PartialFill"),
          Sold(b.history[id], fill, net),
          Settlement(b, taker, id, fill, out))
  IN IF left = 0 THEN CloseOrderIndexes(filled, id) ELSE filled

OpenTo(o, taker) ==
  /\ IsOpen(o)
  /\ taker \notin o.excluded /\ taker # o.maker
  /\ seq <= o.expiry

CanFill(b, taker, id, fill, out) ==
  LET o == b.orders[id]
      net == NetOfFee(out, cfg.fee, FEE_DENOMINATOR)
  IN /\ OpenTo(o, taker)
     /\ fill > 0 /\ out > 0
     /\ fill <= o.amount_in_remaining
     /\ Priced(o)
     /\ net >= RequiredPayment(o, fill)
     /\ net > 0
     /\ CanPay(b, taker, o.token_out, out)
     /\ CanPay(b, Book, o.token_in, fill)

(* Faulty: the whole of amount_in is refunded, whatever was filled.         *)
RefundInFull(b, id, status) ==
  LET o == b.orders[id]
  IN CloseOrderIndexes(
       WriteOrder(b, id, Left(o, 0, status), [b.history[id] EXCEPT !.refunded = o.amount_in],
                  Transfer(b.balance, o.token_in, Book, o.maker, o.amount_in)), id)

(* cancel_order and expire_order: the rest of the escrow back to the maker. *)
Refund(b, id, status) ==
  LET o == b.orders[id]
      rest == o.amount_in_remaining
  IN CloseOrderIndexes(
       WriteOrder(b, id, Left(o, 0, status), [b.history[id] EXCEPT !.refunded = rest],
                  Transfer(b.balance, o.token_in, Book, o.maker, rest)), id)

Claim(b, id) ==
  LET o == b.orders[id]
      rest == o.amount_in_remaining
  IN CloseOrderIndexes(
       WriteOrder(b, id, Left(o, 0, "Routed"), [b.history[id] EXCEPT !.routed = rest],
                  Transfer(b.balance, o.token_in, Book, Router, rest)), id)

(* Faulty: the timer does not have to have run out.                         *)
CanClaimEarly(b, id) ==
  LET o == b.orders[id]
  IN /\ cfg.router /\ IsOpen(o) /\ o.auto_route_after > 0 /\ seq <= o.expiry
     /\ Priced(o) /\ CanPay(b, Book, o.token_in, o.amount_in_remaining)

CanClaim(b, id) ==
  LET o == b.orders[id]
  IN /\ cfg.router
     /\ IsOpen(o)
     /\ o.auto_route_after > 0
     /\ seq > o.auto_route_after /\ seq <= o.expiry
     /\ Priced(o)
     /\ CanPay(b, Book, o.token_in, o.amount_in_remaining)

-----------------------------------------------------------------------------
(* Entry points                                                             *)

Idle == call = None

PlaceOrder(maker, o) ==
  /\ Idle
  /\ Len(book.orders) < MaxOrders
  /\ CanPlace(book, maker, o)
  /\ book' = PlaceInner(book, maker, o)
  /\ UNCHANGED <<cfg, call, oracleVars>>

PartialFill(taker, id, fill, out) ==
  /\ Idle
  /\ CanFill(book, taker, id, fill, out)
  /\ book' = FillInner(book, taker, id, fill, out)
  /\ UNCHANGED <<cfg, call, oracleVars>>

FillOrder(taker, id, out) ==
  PartialFill(taker, id, book.orders[id].amount_in_remaining, out)

CancelOrder(id) ==
  /\ Idle
  /\ IsOpen(book.orders[id])
  /\ CanPay(book, Book, book.orders[id].token_in, book.orders[id].amount_in_remaining)
  /\ book' = Refund(book, id, "Cancelled")
  /\ UNCHANGED <<cfg, call, oracleVars>>

ExpireOrder(id) ==
  /\ Idle
  /\ IsOpen(book.orders[id])
  /\ seq > book.orders[id].expiry
  /\ CanPay(book, Book, book.orders[id].token_in, book.orders[id].amount_in_remaining)
  /\ book' = Refund(book, id, "Expired")
  /\ UNCHANGED <<cfg, call, oracleVars>>

ClaimExpiredTimer(id) ==
  /\ Idle
  /\ CanClaim(book, id)
  /\ book' = Claim(book, id)
  /\ UNCHANGED <<cfg, call, oracleVars>>

(* match_and_place.  The caller's list of fills is chosen one spec at a     *)
(* time; saved is the state the host restores if the call fails.            *)
MatchBegin(maker, o) ==
  /\ Idle
  /\ o.amount_in > 0
  /\ call' = [maker |-> maker, terms |-> o, spent |-> 0, saved |-> book]
  /\ UNCHANGED <<book, cfg, oracleVars>>

MatchSpecOK(id, fill, out) ==
  /\ fill > 0 /\ out > 0
  /\ Pair(book.orders[id]) = <<call.terms.token_out, call.terms.token_in>>
  /\ call.spent + out <= call.terms.amount_in
  /\ CanFill(book, call.maker, id, fill, out)

MatchFill(id, fill, out) ==
  /\ ~Idle
  /\ MatchSpecOK(id, fill, out)
  /\ book' = FillInner(book, call.maker, id, fill, out)
  /\ call' = [call EXCEPT !.spent = @ + out]
  /\ UNCHANGED <<cfg, oracleVars>>

(* Faulty: what the fills spent is not taken off the order placed.          *)
RemainderInFull == call.terms

Remainder == [call.terms EXCEPT !.amount_in = @ - call.spent]

MatchPlace ==
  /\ ~Idle
  /\ Remainder.amount_in > 0
  /\ Len(book.orders) < MaxOrders
  /\ CanPlace(book, call.maker, Remainder)
  /\ book' = PlaceInner(book, call.maker, Remainder)
  /\ call' = None
  /\ UNCHANGED <<cfg, oracleVars>>

MatchConsumed ==
  /\ ~Idle
  /\ Remainder.amount_in <= 0
  /\ call' = None
  /\ UNCHANGED <<book, cfg, oracleVars>>

(* A spec the contract refuses (there always is one), or a remainder it     *)
(* cannot place, fails the call.                                            *)
MatchRevert ==
  /\ ~Idle
  /\ book' = call.saved
  /\ call' = None
  /\ UNCHANGED <<cfg, oracleVars>>

SetFee(rate) ==
  /\ Idle
  /\ rate \in 0..MAX_FEE
  /\ cfg' = [cfg EXCEPT !.fee = rate]
  /\ UNCHANGED <<book, call, oracleVars>>

(* A floor of 0 and no floor are the same: both admit every amount.         *)
SetMinOrder(token, floor) ==
  /\ Idle
  /\ floor >= 0
  /\ cfg' = [cfg EXCEPT !.min_order[token] = floor]
  /\ UNCHANGED <<book, call, oracleVars>>

SetRouter ==
  /\ Idle
  /\ cfg' = [cfg EXCEPT !.router = TRUE]
  /\ UNCHANGED <<book, call, oracleVars>>

Environment ==
  /\ Idle
  /\ OracleNext
  /\ UNCHANGED bookVars

Init ==
  /\ OracleInit
  /\ book = [orders |-> <<>>, history |-> <<>>,
             index |-> [p \in Pairs |-> {}],
             count |-> [mp \in Accounts \X Pairs |-> 0],
             balance |-> Funds]
  /\ cfg = [fee |-> DEFAULT_FEE, min_order |-> [t \in Tokens |-> 0], router |-> FALSE]
  /\ call = None

Next ==
  \/ \E maker \in Accounts, o \in OrderTerms : PlaceOrder(maker, o)
  \/ \E maker \in Accounts, o \in MatchTerms : MatchBegin(maker, o)
  \/ \E taker \in Accounts, id \in OrderIds(book), out \in Quantities :
       \/ FillOrder(taker, id, out)
       \/ \E fill \in Quantities : PartialFill(taker, id, fill, out)
  \/ \E id \in OrderIds(book) :
       \/ CancelOrder(id) \/ ExpireOrder(id) \/ ClaimExpiredTimer(id)
       \/ \E fill, out \in Quantities : MatchFill(id, fill, out)
  \/ MatchPlace \/ MatchConsumed \/ MatchRevert
  \/ \E rate \in FeeRates : SetFee(rate)
  \/ \E token \in Tokens, floor \in MinOrders : SetMinOrder(token, floor)
  \/ SetRouter
  \/ Environment

Spec == Init /\ [][Next]_vars

-----------------------------------------------------------------------------
(* Types                                                                    *)

Order == [maker : Accounts, token_in : Tokens, token_out : Tokens,
          amount_in : Nat \ {0}, amount_in_remaining : Nat, min_amount_out : Nat,
          expiry : Nat, status : Statuses, price_mode : Modes,
          max_slippage_bps : Nat, auto_route_after : Nat,
          excluded : SUBSET Accounts]
History == [delivered : Nat, received : Nat, refunded : Nat, routed : Nat]
BookState == [orders : Seq(Order), history : Seq(History),
              index : [Pairs -> SUBSET Nat], count : [Accounts \X Pairs -> Nat],
              balance : Balances]
Config == [fee : 0..MAX_FEE, min_order : [Tokens -> Nat], router : BOOLEAN]
CallState == [maker : Accounts, terms : Terms, spent : Nat, saved : BookState]

ASSUME CallAssumption == None \notin CallState

TypeOK ==
  /\ OracleTypeOK
  /\ book \in BookState
  /\ cfg \in Config
  /\ call \in CallState \union {None}

-----------------------------------------------------------------------------
(* Safety.  Each invariant is a predicate on a book state, so that it can   *)
(* be said of the state a failing match_and_place is rolled back to.        *)

(* The pair index and the per-maker counters bound the book: both must name *)
(* exactly the open orders, through every way an order opens or closes, or  *)
(* the caps lock makers out (a slot leaked) or admit too many (one lost).   *)
IndexesExact(b) ==
  \A p \in Pairs :
    /\ b.index[p] = {id \in OrderIds(b) : IsOpen(b.orders[id]) /\ Pair(b.orders[id]) = p}
    /\ Cardinality(b.index[p]) <= MAX_ORDERS_PER_PAIR
    /\ \A maker \in Accounts :
         /\ b.count[<<maker, p>>] = Cardinality({id \in b.index[p] : b.orders[id].maker = maker})
         /\ b.count[<<maker, p>>] <= MAX_OPEN_PER_MAKER_PAIR
BookIndexesExact == IndexesExact(book)

(* The contract pools every maker's escrow in one balance per token.  That  *)
(* balance is always exactly the orders' remaining amounts: no fill, refund *)
(* or claim ever pays one maker with another's escrow, and none is stranded.*)
EscrowUnits(b, token) ==
  UNION {{id} \X (1..b.orders[id].amount_in_remaining) :
           id \in {i \in OrderIds(b) : b.orders[i].token_in = token}}
EscrowBacked(b) ==
  \A t \in Tokens : b.balance[<<Book, t>>] = Cardinality(EscrowUnits(b, t))
BookEscrowBacked == EscrowBacked(book)

(* Over an order's whole life each unit escrowed leaves once: to takers, to *)
(* the Router, or back to the maker; an order is closed exactly when nothing*)
(* is left, and its status tells where the last of it went.                 *)
AccountedFor(o, h) ==
  /\ o.amount_in = o.amount_in_remaining + h.delivered + h.refunded + h.routed
  /\ IsOpen(o) <=> o.amount_in_remaining > 0
  /\ o.status = "Open" => h.delivered = 0
  /\ o.status = "PartialFill" => h.delivered > 0
  /\ h.refunded > 0 <=> o.status \in {"Cancelled", "Expired"}
  /\ h.routed > 0 <=> o.status = "Routed"
LifeAccounted(b) ==
  /\ DOMAIN b.history = OrderIds(b)
  /\ \A id \in OrderIds(b) : AccountedFor(b.orders[id], b.history[id])
BookLifeAccounted == LifeAccounted(book)

(* However a fixed-price order is cut into fills, and whatever the fee was  *)
(* at each, its maker has net at least the limit price for what was taken:  *)
(* rounding and fees never come out of the maker.                           *)
FloorKept(o, h) ==
  o.price_mode = "Fixed" => h.received * o.amount_in >= o.min_amount_out * h.delivered
MakerFloor(b) == \A id \in OrderIds(b) : FloorKept(b.orders[id], b.history[id])
BookMakerFloor == MakerFloor(book)

-----------------------------------------------------------------------------
(* What a committed call may do.  A match_and_place in progress is not yet  *)
(* committed: until it returns, the ledger is still call.saved.             *)
Committed == IF Idle THEN book ELSE call.saved

Gain(holder, token) ==
  Committed'.balance[<<holder, token>>] - Committed.balance[<<holder, token>>]

(* Escrow leaves an order only as its maker allowed, on the direct path and *)
(* on the matching path alike: to takers until expiry and never one the     *)
(* maker excluded or the maker itself; to the Router only in the window     *)
(* between timer and expiry.                                                *)
ExitAllowed(id) ==
  LET o == Committed.orders[id]
      was == Committed.history[id]
      now == Committed'.history[id]
  IN /\ now.delivered > was.delivered =>
          /\ seq <= o.expiry
          /\ \A a \in o.excluded \union {o.maker} : Gain(a, o.token_in) <= 0
     /\ now.routed > was.routed =>
          seq > o.auto_route_after /\ o.auto_route_after > 0 /\ seq <= o.expiry
ExitsAllowed == [][\A id \in OrderIds(Committed) : ExitAllowed(id)]_vars

(* A pegged order's floor is rounded twice, the fair price down and the     *)
(* tolerance up; together that costs its maker less than one base unit      *)
(* against the oracle's price of the moment, whatever the fill and the fee. *)
PeggedFill(id) ==
  LET o == book.orders[id]
      price == ReadOracle(o.token_in, o.token_out)
      fill == book'.history[id].delivered - book.history[id].delivered
      net == book'.history[id].received - book.history[id].received
  IN (o.price_mode = "Oracle" /\ fill > 0) =>
       (net + 1) * price.den * BPS_DENOMINATOR
         > fill * price.num * (BPS_DENOMINATOR - o.max_slippage_bps)
PeggedFloorWithinAUnit == [][\A id \in OrderIds(book) : PeggedFill(id)]_vars

(* match_and_place costs its caller the amount named, no more and no less,  *)
(* wherever its fills and its remainder end up, or, when it fails, nothing. *)
MatchCost ==
  LET spent == -Gain(call.maker, call.terms.token_in)
  IN spent = call.terms.amount_in \/ (spent = 0 /\ Committed' = Committed)
MatchCostsItsBudget == [][(~Idle /\ Idle') => MatchCost]_vars
=============================================================================
