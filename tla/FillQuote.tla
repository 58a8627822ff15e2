------------------------------ MODULE FillQuote -----------------------------
(***************************************************************************)
(* SwapBook's quote_fill: what a taker with a budget could buy from the     *)
(* orders selling one token for another, computed without touching them.    *)
(***************************************************************************)
EXTENDS SwapBook, SequencesExt

CONSTANT Budgets             \* what takers ask quotes for

ASSUME BudgetsAssumption == Budgets \subseteq Nat \ {0}

(* Faulty: the fee is left out.                                             *)
RequiredPaymentOnly(o, fill) == RequiredPayment(o, fill)

(* required_gross_payment: the maker's floor with the fee on top.           *)
RequiredGrossPayment(o, fill) == GrossForNet(RequiredPayment(o, fill), cfg.fee, FEE_DENOMINATOR)

FixedFill(o, net_budget) == MulDivFloor(net_budget, o.amount_in, o.min_amount_out)

PeggedFillFor(o, net_budget) ==
  LET price == ReadOracle(o.token_in, o.token_out)
      fair == MulDivFloor(net_budget, BPS_DENOMINATOR, BPS_DENOMINATOR - o.max_slippage_bps)
  IN MulDivFloor(fair, price.den, price.num)

(* The fee stripped from the budget and the price inverted: an estimate of  *)
(* the largest fill, from which max_affordable_fill steps down.             *)
EstimatedFill(o, budget) ==
  LET net_budget == NetOfFee(budget, cfg.fee, FEE_DENOMINATOR)
  IN IF o.price_mode = "Fixed" THEN FixedFill(o, net_budget) ELSE PeggedFillFor(o, net_budget)

MaxAffordableFill(o, budget) ==
  LET start == Min({EstimatedFill(o, budget), o.amount_in_remaining})
  IN Max({0} \union {fill \in 1..start : RequiredGrossPayment(o, fill) <= budget})

Quotable(buy, pay) ==
  {id \in book.index[<<buy, pay>>] :
     /\ IsOpen(book.orders[id]) /\ seq <= book.orders[id].expiry
     /\ Priced(book.orders[id])}

(* The orders are taken in the order they were placed, each as far as what  *)
(* the ones before it left of the budget allows.  bought and paid are the   *)
(* quote; fills, which is not in the code, remembers what it consists of.   *)
NoQuote == [bought |-> 0, paid |-> 0, fills |-> <<>>]

QuoteOrder(q, id, amount) ==
  LET o == book.orders[id]
      fill == MaxAffordableFill(o, amount - q.paid)
      gross == RequiredGrossPayment(o, fill)
  IN IF fill = 0 THEN q
     ELSE [bought |-> q.bought + fill, paid |-> q.paid + gross,
           fills |-> Append(q.fills, [id |-> id, fill |-> fill, out |-> gross])]

QuoteSteps(ids, n, amount) ==
  LET quote[k \in 0..n] == IF k = 0 THEN NoQuote ELSE QuoteOrder(quote[k - 1], ids[k], amount)
  IN quote

QuoteFill(buy, pay, amount) ==
  LET n == Cardinality(Quotable(buy, pay))
  IN QuoteSteps(InOrder(Quotable(buy, pay)), n, amount)[n]

-----------------------------------------------------------------------------
(* The book after the first k of a quote's fills by a taker.                *)
AfterFills(taker, fills) ==
  LET after[k \in 0..Len(fills)] ==
        IF k = 0 THEN book
        ELSE FillInner(after[k - 1], taker, fills[k].id, fills[k].fill, fills[k].out)
  IN after

MayTake(taker, q, pay) ==
  /\ CanPay(book, taker, pay, q.paid)
  /\ \A k \in DOMAIN q.fills :
       taker \notin book.orders[q.fills[k].id].excluded \union {book.orders[q.fills[k].id].maker}

(* A quote is fillable as it stands, one fill after the other, by everyone  *)
(* its makers did not exclude: each is accepted, and together they cost and *)
(* bring what was quoted, within the budget.  (An oracle-priced fill so     *)
(* small that its floor is zero is quoted at nothing, and refused.)         *)
Fillable(taker, q, buy, pay) ==
  LET after == AfterFills(taker, q.fills)
      last == after[Len(q.fills)]
  IN /\ \A k \in DOMAIN q.fills :
          CanFill(after[k - 1], taker, q.fills[k].id, q.fills[k].fill, q.fills[k].out)
     /\ last.balance[<<taker, buy>>] = book.balance[<<taker, buy>>] + q.bought
     /\ last.balance[<<taker, pay>>] = book.balance[<<taker, pay>>] - q.paid
QuotesAreFillable ==
  Idle => \A buy, pay \in Tokens : \A amount \in Budgets :
    LET q == QuoteFill(buy, pay, amount)
    IN /\ q.paid <= amount
       /\ (\A k \in DOMAIN q.fills : q.fills[k].out > 0) =>
            \A taker \in Accounts : MayTake(taker, q, pay) => Fillable(taker, q, buy, pay)
=============================================================================
