--------------------------- MODULE SwapBookProofs ---------------------------
(***************************************************************************)
(* The SwapBook's safety invariants, for every set of accounts and tokens,  *)
(* every fee, cap and price, and any number of orders.                      *)
(***************************************************************************)
EXTENDS PeerSwap, PriceOracleProofs

(***************************************************************************)
(* Every way out of the book is one update of one order: its remaining      *)
(* amount and status, its history, the indexes if it closes, the balances.  *)
(***************************************************************************)
Updated(b, id, left, status, h, balance) ==
  LET o == b.orders[id]
  IN [orders |-> [b.orders EXCEPT ![id] = Left(o, left, status)],
      history |-> [b.history EXCEPT ![id] = h],
      index |-> IF left = 0 THEN [b.index EXCEPT ![Pair(o)] = @ \ {id}] ELSE b.index,
      count |-> IF left = 0
                THEN [b.count EXCEPT ![<<o.maker, Pair(o)>>] = IF @ <= 1 THEN 0 ELSE @ - 1]
                ELSE b.count,
      balance |-> balance]

USE DEF OrderIds, IsOpen, OpenStatuses

LEMMA BookFields ==
  ASSUME NEW b \in BookState
  PROVE  /\ b.orders \in Seq(Order) /\ b.history \in Seq(History)
         /\ b.index \in [Pairs -> SUBSET Nat]
         /\ b.count \in [Accounts \X Pairs -> Nat]
         /\ b.balance \in Balances
         /\ b = [orders |-> b.orders, history |-> b.history, index |-> b.index,
                 count |-> b.count, balance |-> b.balance]
  BY DEF BookState

LEMMA OrderFields ==
  ASSUME NEW o \in Order
  PROVE  /\ o.maker \in Accounts /\ o.token_in \in Tokens /\ o.token_out \in Tokens
         /\ o.amount_in \in Nat \ {0} /\ o.amount_in_remaining \in Nat
         /\ o.min_amount_out \in Nat /\ o.status \in Statuses
         /\ o.price_mode \in Modes /\ o.max_slippage_bps \in Nat
         /\ Pair(o) \in Pairs /\ <<o.maker, Pair(o)>> \in Accounts \X Pairs
  BY DEF Order, Pair, Pairs

LEMMA OrderTyped ==
  ASSUME NEW b \in BookState, NEW id \in OrderIds(b)
  PROVE  /\ b.orders[id] \in Order
         /\ DOMAIN b.history = OrderIds(b) => b.history[id] \in History
<1>1. b.orders \in Seq(Order) /\ b.history \in Seq(History)
  BY BookFields
<1>2. b.orders[id] \in Order
  BY <1>1
<1>3. DOMAIN b.history = OrderIds(b) => b.history[id] \in History
  BY <1>1
<1> QED
  BY <1>2, <1>3

LEMMA LeftFields ==
  ASSUME NEW o \in Order, NEW left \in Nat, NEW status \in Statuses
  PROVE  LET n == Left(o, left, status)
         IN  /\ n \in Order
             /\ n.amount_in_remaining = left /\ n.status = status
             /\ n.maker = o.maker /\ Pair(n) = Pair(o)
             /\ n.token_in = o.token_in /\ n.token_out = o.token_out
             /\ n.amount_in = o.amount_in /\ n.min_amount_out = o.min_amount_out
             /\ n.price_mode = o.price_mode
  BY DEF Left, Order, Pair

LEMMA SoldFields ==
  ASSUME NEW h \in History, NEW fill \in Nat, NEW net \in Nat
  PROVE  /\ Sold(h, fill, net) \in History
         /\ Sold(h, fill, net).delivered = h.delivered + fill
         /\ Sold(h, fill, net).received = h.received + net
         /\ Sold(h, fill, net).refunded = h.refunded
         /\ Sold(h, fill, net).routed = h.routed
<1>1. /\ h.delivered + fill \in Nat /\ h.received + net \in Nat
      /\ h.refunded \in Nat /\ h.routed \in Nat
  BY DEF History
<1> QED
  BY <1>1 DEF Sold, History

LEMMA ClosedIndexes ==
  ASSUME NEW b, NEW id \in DOMAIN b.orders, NEW n, NEW h, NEW balance,
         n.maker = b.orders[id].maker, Pair(n) = Pair(b.orders[id])
  PROVE  CloseOrderIndexes(WriteOrder(b, id, n, h, balance), id)
           = LET o == b.orders[id]
             IN [orders |-> [b.orders EXCEPT ![id] = n],
                 history |-> [b.history EXCEPT ![id] = h],
                 index |-> [b.index EXCEPT ![Pair(o)] = @ \ {id}],
                 count |-> [b.count EXCEPT ![<<o.maker, Pair(o)>>] =
                              IF @ <= 1 THEN 0 ELSE @ - 1],
                 balance |-> balance]
<1>1. WriteOrder(b, id, n, h, balance).orders[id] = n
  BY DEF WriteOrder
<1> QED
  BY <1>1 DEF CloseOrderIndexes, WriteOrder, Pair

LEMMA RefundIsUpdate ==
  ASSUME NEW b \in BookState, NEW id \in OrderIds(b), NEW status \in Statuses
  PROVE  LET o == b.orders[id]
             rest == o.amount_in_remaining
         IN  Refund(b, id, status)
               = Updated(b, id, 0, status, [b.history[id] EXCEPT !.refunded = rest],
                         Transfer(b.balance, o.token_in, Book, o.maker, rest))
<1> DEFINE n == Left(b.orders[id], 0, status)
<1>1. n.maker = b.orders[id].maker /\ Pair(n) = Pair(b.orders[id])
  <2>1. b.orders[id] \in Order /\ 0 \in Nat
    BY OrderTyped
  <2> QED
    BY <2>1, LeftFields
<1> HIDE DEF n
<1> QED
  BY <1>1, ClosedIndexes, ZenonT(60) DEF Refund, Updated, OrderIds, n

LEMMA ClaimIsUpdate ==
  ASSUME NEW b \in BookState, NEW id \in OrderIds(b)
  PROVE  LET o == b.orders[id]
             rest == o.amount_in_remaining
         IN  Claim(b, id)
               = Updated(b, id, 0, "Routed", [b.history[id] EXCEPT !.routed = rest],
                         Transfer(b.balance, o.token_in, Book, Router, rest))
<1> DEFINE n == Left(b.orders[id], 0, "Routed")
<1>1. n.maker = b.orders[id].maker /\ Pair(n) = Pair(b.orders[id])
  <2>1. b.orders[id] \in Order /\ 0 \in Nat /\ "Routed" \in Statuses
    BY OrderTyped DEF Statuses
  <2> QED
    BY <2>1, LeftFields
<1> HIDE DEF n
<1> QED
  BY <1>1, ClosedIndexes, ZenonT(60) DEF Claim, Updated, OrderIds, n

LEMMA FillIsUpdate ==
  ASSUME NEW b \in BookState, NEW id \in OrderIds(b), NEW taker, NEW out, NEW fill,
         NEW left \in Nat, left = b.orders[id].amount_in_remaining - fill,
         NEW status \in Statuses, status = IF left = 0 THEN "Filled" ELSE "PartialFill",
         NEW h, h = Sold(b.history[id], fill, NetOfFee(out, cfg.fee, FEE_DENOMINATOR))
  PROVE  FillInner(b, taker, id, fill, out)
           = Updated(b, id, left, status, h, Settlement(b, taker, id, fill, out))
<1> DEFINE n == Left(b.orders[id], left, status)
           w == WriteOrder(b, id, n, h, Settlement(b, taker, id, fill, out))
<1>1. n.maker = b.orders[id].maker /\ Pair(n) = Pair(b.orders[id])
  BY OrderTyped, LeftFields
<1>2. FillInner(b, taker, id, fill, out) = IF left = 0 THEN CloseOrderIndexes(w, id) ELSE w
  BY DEF FillInner
<1>3. w.orders[id] = n
  BY DEF WriteOrder, OrderIds
<1> HIDE DEF n
<1>4. CASE left = 0
  BY <1>1, <1>2, <1>4, ClosedIndexes, ZenonT(60) DEF Updated, OrderIds, n
<1>5. CASE left # 0
  BY <1>2, <1>5 DEF Updated, WriteOrder, n
<1> QED
  BY <1>4, <1>5

-----------------------------------------------------------------------------
(* Types                                                                    *)

LEMMA UpdatedTyped ==
  ASSUME NEW b \in BookState, NEW id \in OrderIds(b),
         DOMAIN b.history = OrderIds(b), NEW left \in Nat,
         NEW status \in Statuses, NEW h \in History,
         NEW balance \in Balances
  PROVE  /\ Updated(b, id, left, status, h, balance) \in BookState
         /\ OrderIds(Updated(b, id, left, status, h, balance)) = OrderIds(b)
<1> DEFINE o == b.orders[id]
           n == Left(o, left, status)
           u == Updated(b, id, left, status, h, balance)
<1>1. o \in Order /\ n \in Order
  BY OrderTyped, LeftFields
<1>0. Pair(o) \in Pairs /\ <<o.maker, Pair(o)>> \in Accounts \X Pairs
  BY <1>1, OrderFields
<1> HIDE DEF n, o
<1>2. /\ u.orders = [b.orders EXCEPT ![id] = n]
      /\ u.history = [b.history EXCEPT ![id] = h]
      /\ u.balance = balance
      /\ u = [orders |-> u.orders, history |-> u.history, index |-> u.index,
              count |-> u.count, balance |-> u.balance]
  BY DEF Updated, n, o
<1>3. u.index = IF left = 0 THEN [b.index EXCEPT ![Pair(o)] = @ \ {id}] ELSE b.index
  BY DEF Updated, o
<1>4. u.count = IF left = 0
                THEN [b.count EXCEPT ![<<o.maker, Pair(o)>>] = IF @ <= 1 THEN 0 ELSE @ - 1]
                ELSE b.count
  BY DEF Updated, o
<1> HIDE DEF u
<1>5. u.orders \in Seq(Order) /\ DOMAIN u.orders = DOMAIN b.orders
  BY <1>1, <1>2, BookFields
<1>6. u.history \in Seq(History)
  BY <1>2, BookFields
<1>7. u.index \in [Pairs -> SUBSET Nat]
  BY <1>0, <1>3, BookFields
<1>8. u.count \in [Accounts \X Pairs -> Nat]
  <2> DEFINE slots == b.count[<<o.maker, Pair(o)>>]
             freed == IF slots <= 1 THEN 0 ELSE slots - 1
  <2>1. b.count \in [Accounts \X Pairs -> Nat] /\ slots \in Nat
    BY <1>0, BookFields
  <2>2. freed \in Nat
    BY <2>1
  <2>3. u.count = IF left = 0 THEN [b.count EXCEPT ![<<o.maker, Pair(o)>>] = freed]
                             ELSE b.count
    BY <1>4
  <2> HIDE DEF freed, slots
  <2> QED
    BY <1>0, <2>1, <2>2, <2>3
<1> HIDE DEF u
<1> QED
  BY <1>2, <1>5, <1>6, <1>7, <1>8 DEF BookState, OrderIds, u

LEMMA TransferTyped ==
  ASSUME NEW balance \in Balances, NEW token \in Tokens,
         NEW from \in Holders, NEW to \in Holders, from # to,
         NEW amount, amount \in Nat, amount <= balance[<<from, token>>],
         NEW moved, moved = Transfer(balance, token, from, to, amount)
  PROVE  /\ moved \in Balances
         /\ moved[<<from, token>>] = balance[<<from, token>>] - amount
         /\ moved[<<to, token>>] = balance[<<to, token>>] + amount
  BY DEF Transfer, Balances

LEMMA TransferLeaves ==
  ASSUME NEW balance \in Balances, NEW token \in Tokens,
         NEW from \in Holders, NEW to \in Holders, from # to,
         NEW amount, amount \in Nat, amount <= balance[<<from, token>>],
         NEW moved, moved = Transfer(balance, token, from, to, amount),
         NEW h \in Holders, NEW t \in Tokens, t # token \/ (h # from /\ h # to)
  PROVE  moved[<<h, t>>] = balance[<<h, t>>]
  BY DEF Transfer, Balances

-----------------------------------------------------------------------------
(* Where an update leaves the orders                                        *)

LEMMA UpdatedOrders ==
  ASSUME NEW b \in BookState, NEW id \in OrderIds(b),
         DOMAIN b.history = OrderIds(b), NEW left, NEW status, NEW h, NEW balance
  PROVE  LET u == Updated(b, id, left, status, h, balance)
         IN  /\ OrderIds(u) = OrderIds(b) /\ DOMAIN u.history = OrderIds(u)
             /\ u.orders[id] = Left(b.orders[id], left, status) /\ u.history[id] = h
             /\ \A i \in OrderIds(b) \ {id} :
                  u.orders[i] = b.orders[i] /\ u.history[i] = b.history[i]
             /\ u.balance = balance
<1> DEFINE n == Left(b.orders[id], left, status)
           u == Updated(b, id, left, status, h, balance)
<1>1. b.orders \in Seq(Order) /\ b.history \in Seq(History)
  BY BookFields
<1>2. /\ u.orders = [b.orders EXCEPT ![id] = n]
      /\ u.history = [b.history EXCEPT ![id] = h]
      /\ u.balance = balance
  BY DEF Updated
<1> HIDE DEF u, n
<1>3. DOMAIN u.orders = DOMAIN b.orders /\ DOMAIN u.history = DOMAIN b.history
  BY <1>1, <1>2
<1>4. /\ u.orders[id] = n /\ u.history[id] = h
      /\ \A i \in OrderIds(b) \ {id} :
           u.orders[i] = b.orders[i] /\ u.history[i] = b.history[i]
  BY <1>1, <1>2 DEF OrderIds
<1> QED
  BY <1>2, <1>3, <1>4 DEF OrderIds, u, n

(* Per-order facts survive when the updated order's own fact does.          *)
LEMMA UpdatedKeepsOrders ==
  ASSUME NEW b \in BookState, NEW id \in OrderIds(b), LifeAccounted(b), MakerFloor(b),
         NEW left, NEW status, NEW h, NEW balance,
         AccountedFor(Left(b.orders[id], left, status), h),
         FloorKept(Left(b.orders[id], left, status), h)
  PROVE  LET u == Updated(b, id, left, status, h, balance)
         IN  LifeAccounted(u) /\ MakerFloor(u)
<1> DEFINE u == Updated(b, id, left, status, h, balance)
<1>1. /\ OrderIds(u) = OrderIds(b) /\ DOMAIN u.history = OrderIds(u)
      /\ u.orders[id] = Left(b.orders[id], left, status) /\ u.history[id] = h
      /\ \A i \in OrderIds(b) \ {id} :
           u.orders[i] = b.orders[i] /\ u.history[i] = b.history[i]
  BY UpdatedOrders DEF LifeAccounted
<1> HIDE DEF u
<1>2. \A i \in OrderIds(u) :
        AccountedFor(u.orders[i], u.history[i]) /\ FloorKept(u.orders[i], u.history[i])
  <2>1. TAKE i \in OrderIds(u)
  <2>2. CASE i = id
    BY <1>1, <2>2
  <2>3. CASE i # id
    BY <1>1, <2>3 DEF LifeAccounted, MakerFloor
  <2> QED
    BY <2>2, <2>3
<1> QED
  BY <1>1, <1>2 DEF LifeAccounted, MakerFloor, u

-----------------------------------------------------------------------------
(* Indexes and counters                                                     *)

LEMMA IndexFinite ==
  ASSUME NEW b \in BookState, NEW p \in Pairs, IndexesExact(b)
  PROVE  /\ IsFiniteSet(b.index[p]) /\ Cardinality(b.index[p]) \in Nat
         /\ \A maker \in Accounts :
              IsFiniteSet({i \in b.index[p] : b.orders[i].maker = maker})
<1>1. b.orders \in Seq(Order)
  BY BookFields
<1>2. Len(b.orders) \in Nat /\ OrderIds(b) = 1..Len(b.orders)
  BY <1>1 DEF OrderIds
<1>3. IsFiniteSet(OrderIds(b))
  BY <1>2, FS_Interval
<1>4. b.index[p] \in SUBSET OrderIds(b)
  BY DEF IndexesExact
<1>5. IsFiniteSet(b.index[p])
  BY <1>3, <1>4, FS_Subset
<1> QED
  BY <1>5, FS_CardinalityType, FS_Subset

LEMMA UpdatedKeepsIndexes ==
  ASSUME NEW b \in BookState, NEW id \in OrderIds(b), IndexesExact(b),
         DOMAIN b.history = OrderIds(b), IsOpen(b.orders[id]),
         NEW left \in Nat, NEW status \in Statuses, NEW h, NEW balance,
         left = 0 <=> status \notin OpenStatuses
  PROVE  IndexesExact(Updated(b, id, left, status, h, balance))
<1> DEFINE u == Updated(b, id, left, status, h, balance)
           o == b.orders[id]
           n == Left(o, left, status)
           OpenOf(c, p) == {i \in OrderIds(c) : IsOpen(c.orders[i]) /\ Pair(c.orders[i]) = p}
           Held(c, p, maker) == {i \in c.index[p] : c.orders[i].maker = maker}
<1>1. /\ OrderIds(u) = OrderIds(b) /\ u.orders[id] = n
      /\ \A i \in OrderIds(b) \ {id} : u.orders[i] = b.orders[i]
  BY UpdatedOrders
<1>2. /\ o \in Order /\ n.maker = o.maker /\ Pair(n) = Pair(o) /\ n.status = status
      /\ Pair(o) \in Pairs /\ o.maker \in Accounts
  <2>1. o \in Order
    BY OrderTyped
  <2>2. Pair(o) \in Pairs /\ o.maker \in Accounts
    BY <2>1, OrderFields
  <2>3. n.maker = o.maker /\ Pair(n) = Pair(o) /\ n.status = status
    BY <2>1, LeftFields
  <2> QED
    BY <2>1, <2>2, <2>3
<1>3. u.index = IF left = 0 THEN [b.index EXCEPT ![Pair(o)] = @ \ {id}] ELSE b.index
  BY DEF Updated
<1>4. u.count = IF left = 0
                THEN [b.count EXCEPT ![<<o.maker, Pair(o)>>] = IF @ <= 1 THEN 0 ELSE @ - 1]
                ELSE b.count
  BY DEF Updated
<1>5. /\ b.index \in [Pairs -> SUBSET Nat] /\ b.count \in [Accounts \X Pairs -> Nat]
  BY BookFields
<1> HIDE DEF u, n, o
<1>6. \A i \in OrderIds(b) : u.orders[i].maker = b.orders[i].maker
                             /\ Pair(u.orders[i]) = Pair(b.orders[i])
  BY <1>1, <1>2 DEF o
<1>7. SUFFICES ASSUME NEW p \in Pairs
      PROVE /\ u.index[p] = OpenOf(u, p)
            /\ Cardinality(u.index[p]) <= MAX_ORDERS_PER_PAIR
            /\ \A maker \in Accounts :
                 /\ u.count[<<maker, p>>] = Cardinality(Held(u, p, maker))
                 /\ u.count[<<maker, p>>] <= MAX_OPEN_PER_MAKER_PAIR
  BY DEF IndexesExact, u
<1>8. /\ b.index[p] = OpenOf(b, p)
      /\ Cardinality(b.index[p]) <= MAX_ORDERS_PER_PAIR
      /\ \A maker \in Accounts :
           /\ b.count[<<maker, p>>] = Cardinality(Held(b, p, maker))
           /\ b.count[<<maker, p>>] <= MAX_OPEN_PER_MAKER_PAIR
  BY DEF IndexesExact
<1>9. b.index[p] \subseteq OrderIds(b)
  BY <1>8
<1>10. CASE left = 0 /\ p = Pair(o)
  <2>1. u.index[p] = b.index[p] \ {id}
    BY <1>2, <1>3, <1>5, <1>10
  <2>2. id \in b.index[p]
    BY <1>8, <1>10 DEF o
  <2>3. OpenOf(u, p) = OpenOf(b, p) \ {id}
    BY <1>1, <1>2, <1>10
  <2>4. Cardinality(u.index[p]) = Cardinality(b.index[p]) - 1
    <3>1. IsFiniteSet(b.index[p])
      BY IndexFinite
    <3>2. Cardinality(b.index[p] \ {id})
            = IF id \in b.index[p] THEN Cardinality(b.index[p]) - 1 ELSE Cardinality(b.index[p])
      BY <3>1, FS_RemoveElement, Zenon
    <3> QED
      BY <2>1, <2>2, <3>2
  <2>5. Cardinality(u.index[p]) <= MAX_ORDERS_PER_PAIR
    <3>1. Cardinality(b.index[p]) \in Nat
      BY IndexFinite
    <3> QED
      BY <1>8, <2>4, <3>1, BookAssumption
  <2>6. ASSUME NEW maker \in Accounts
        PROVE /\ u.count[<<maker, p>>] = Cardinality(Held(u, p, maker))
              /\ u.count[<<maker, p>>] <= MAX_OPEN_PER_MAKER_PAIR
    <3>1. IsFiniteSet(Held(b, p, maker))
      BY IndexFinite
    <3>2. CASE maker = o.maker
      <4>1. Held(u, p, maker) = Held(b, p, maker) \ {id} /\ id \in Held(b, p, maker)
        BY <1>6, <1>9, <2>1, <2>2, <3>2 DEF o
      <4> HIDE DEF Held
      <4>2. Cardinality(Held(u, p, maker)) = Cardinality(Held(b, p, maker)) - 1
        BY <3>1, <4>1, FS_RemoveElement
      <4>3. Cardinality(Held(u, p, maker)) \in Nat
        BY <3>1, <4>1, FS_RemoveElement, FS_CardinalityType
      <4>4. b.count[<<maker, p>>] \in Nat /\ <<maker, p>> \in Accounts \X Pairs
        BY <1>5
      <4>5. u.count[<<maker, p>>]
              = IF b.count[<<maker, p>>] <= 1 THEN 0 ELSE b.count[<<maker, p>>] - 1
        BY <1>4, <1>5, <1>10, <3>2, <4>4
      <4>6. u.count[<<maker, p>>] = b.count[<<maker, p>>] - 1
        BY <1>8, <4>2, <4>3, <4>4, <4>5
      <4> QED
        BY <1>8, <4>2, <4>4, <4>6, BookAssumption
    <3>3. CASE maker # o.maker
      <4>1. Held(u, p, maker) = Held(b, p, maker)
        BY <1>6, <1>9, <2>1, <3>3 DEF o
      <4>2. u.count[<<maker, p>>] = b.count[<<maker, p>>]
        BY <1>4, <1>5, <3>3
      <4> QED
        BY <1>8, <4>1, <4>2
    <3> QED
      BY <3>2, <3>3
  <2> QED
    BY <1>8, <2>1, <2>3, <2>5, <2>6
<1>11. CASE ~(left = 0 /\ p = Pair(o))
  <2>1. u.index[p] = b.index[p]
    BY <1>2, <1>3, <1>5, <1>11
  <2>2. OpenOf(u, p) = OpenOf(b, p)
    BY <1>1, <1>2, <1>11 DEF o
  <2>3. ASSUME NEW maker \in Accounts
        PROVE u.count[<<maker, p>>] = b.count[<<maker, p>>]
              /\ Held(u, p, maker) = Held(b, p, maker)
    <3>1. Held(u, p, maker) = Held(b, p, maker)
      BY <1>6, <1>9, <2>1
    <3>2. u.count[<<maker, p>>] = b.count[<<maker, p>>]
      BY <1>4, <1>5, <1>11
    <3> QED
      BY <3>1, <3>2
  <2> QED
    BY <1>8, <2>1, <2>2, <2>3
<1> QED
  BY <1>10, <1>11

-----------------------------------------------------------------------------
(* Escrow.  A token's escrow is counted as a set of units, one block per    *)
(* order, so that changing or adding one block changes the count by as much.*)

Amounts(orders, ids) == [i \in ids |-> orders[i].amount_in_remaining]
Blocks(orders, ids) == Units(Amounts(orders, ids), ids)

LEMMA BlocksFinite ==
  ASSUME NEW orders, NEW ids, IsFiniteSet(ids),
         \A i \in ids : orders[i].amount_in_remaining \in Nat
  PROVE  IsFiniteSet(Blocks(orders, ids))
  BY UnitsFinite DEF Blocks, Amounts

LEMMA BlocksSplit ==
  ASSUME NEW orders, NEW ids, NEW id \in ids, IsFiniteSet(ids),
         \A i \in ids : orders[i].amount_in_remaining \in Nat
  PROVE  Cardinality(Blocks(orders, ids))
           = Cardinality(Blocks(orders, ids \ {id})) + orders[id].amount_in_remaining
<1> DEFINE all == Amounts(orders, ids)
           others == Amounts(orders, ids \ {id})
<1>1. \A i \in ids : all[i] = orders[i].amount_in_remaining /\ all[i] \in Nat
  BY DEF Amounts
<1>2. \A i \in ids \ {id} : all[i] = others[i]
  BY DEF Amounts
<1> HIDE DEF all, others
<1>3. Cardinality(Units(all, ids)) = Cardinality(Units(all, ids \ {id})) + all[id]
  BY <1>1, UnitsSplit
<1>4. Units(all, ids \ {id}) = Units(others, ids \ {id})
  BY <1>2, UnitsSame
<1> QED
  BY <1>1, <1>3, <1>4 DEF Blocks, all, others

LEMMA BlocksSame ==
  ASSUME NEW orders, NEW others, NEW ids,
         \A i \in ids : orders[i].amount_in_remaining = others[i].amount_in_remaining
  PROVE  Blocks(orders, ids) = Blocks(others, ids)
<1>1. Amounts(orders, ids) = Amounts(others, ids)
  BY DEF Amounts
<1> QED
  BY <1>1 DEF Blocks

Sellers(b, token) == {i \in OrderIds(b) : b.orders[i].token_in = token}

LEMMA EscrowIsBlocks ==
  ASSUME NEW b, NEW token
  PROVE  EscrowUnits(b, token) = Blocks(b.orders, Sellers(b, token))
<1> DEFINE amounts == Amounts(b.orders, Sellers(b, token))
<1>1. \A i \in Sellers(b, token) : amounts[i] = b.orders[i].amount_in_remaining
  BY DEF Amounts
<1> HIDE DEF amounts
<1>2. EscrowUnits(b, token) = UNION {{i} \X (1..amounts[i]) : i \in Sellers(b, token)}
  BY <1>1 DEF EscrowUnits, Sellers
<1> QED
  BY <1>2 DEF Blocks, Units, Block, amounts

LEMMA SellersFinite ==
  ASSUME NEW b \in BookState, NEW token
  PROVE  /\ IsFiniteSet(Sellers(b, token))
         /\ \A i \in Sellers(b, token) : b.orders[i].amount_in_remaining \in Nat
<1>1. b.orders \in Seq(Order)
  BY BookFields
<1>2. Len(b.orders) \in Nat /\ OrderIds(b) = 1..Len(b.orders)
  BY <1>1 DEF OrderIds
<1>3. IsFiniteSet(OrderIds(b)) /\ Sellers(b, token) \in SUBSET OrderIds(b)
  BY <1>2, FS_Interval DEF Sellers
<1>4. IsFiniteSet(Sellers(b, token))
  BY <1>3, FS_Subset
<1>5. ASSUME NEW i \in Sellers(b, token) PROVE b.orders[i].amount_in_remaining \in Nat
  <2>1. b.orders[i] \in Order
    BY <1>3, OrderTyped
  <2> QED
    BY <2>1, OrderFields
<1> QED
  BY <1>4, <1>5

(* What an update takes off an order's remaining amount must leave the      *)
(* book's balance of that token, and nothing else may.                      *)
LEMMA UpdatedKeepsEscrow ==
  ASSUME NEW b \in BookState, NEW id \in OrderIds(b), EscrowBacked(b),
         DOMAIN b.history = OrderIds(b),
         NEW left \in Nat, NEW status \in Statuses, NEW h \in History,
         NEW balance \in Balances,
         \A t \in Tokens :
           balance[<<Book, t>>] = b.balance[<<Book, t>>] -
             (IF t = b.orders[id].token_in THEN b.orders[id].amount_in_remaining - left
                                           ELSE 0)
  PROVE  EscrowBacked(Updated(b, id, left, status, h, balance))
<1> DEFINE u == Updated(b, id, left, status, h, balance)
           o == b.orders[id]
<1>1. /\ OrderIds(u) = OrderIds(b) /\ u.balance = balance
      /\ u.orders[id] = Left(o, left, status)
      /\ \A i \in OrderIds(b) \ {id} : u.orders[i] = b.orders[i]
  BY UpdatedOrders
<1>2. u \in BookState
  BY UpdatedTyped
<1>3. /\ o.token_in \in Tokens /\ o.amount_in_remaining \in Nat
      /\ u.orders[id].token_in = o.token_in /\ u.orders[id].amount_in_remaining = left
  <2>1. o \in Order
    BY OrderTyped
  <2>2. o.token_in \in Tokens /\ o.amount_in_remaining \in Nat
    BY <2>1, OrderFields
  <2>3. Left(o, left, status).token_in = o.token_in
        /\ Left(o, left, status).amount_in_remaining = left
    BY <2>1, LeftFields
  <2> QED
    BY <1>1, <2>2, <2>3
<1> HIDE DEF u, o
<1>4. SUFFICES ASSUME NEW t \in Tokens
               PROVE  u.balance[<<Book, t>>] = Cardinality(Blocks(u.orders, Sellers(u, t)))
  BY EscrowIsBlocks DEF EscrowBacked, u
<1>5. Sellers(u, t) = Sellers(b, t)
  BY <1>1, <1>3 DEF Sellers, o
<1>6. b.balance[<<Book, t>>] = Cardinality(Blocks(b.orders, Sellers(b, t)))
  BY EscrowIsBlocks DEF EscrowBacked
<1>7. CASE t # o.token_in
  <2>1. id \notin Sellers(b, t)
    BY <1>7 DEF Sellers, o
  <2>2. \A i \in Sellers(b, t) :
          u.orders[i].amount_in_remaining = b.orders[i].amount_in_remaining
    BY <1>1, <2>1 DEF Sellers
  <2>3. Blocks(u.orders, Sellers(b, t)) = Blocks(b.orders, Sellers(b, t))
    BY <2>2, BlocksSame
  <2>4. b.balance[<<Book, t>>] \in Nat
    BY BookFields DEF Holders, Balances
  <2> QED
    BY <1>1, <1>5, <1>6, <1>7, <2>3, <2>4 DEF o
<1>8. CASE t = o.token_in
  <2> DEFINE ids == Sellers(b, t)
             rest == Blocks(b.orders, ids \ {id})
  <2>0. IsFiniteSet(ids)
    BY SellersFinite
  <2>1. id \in ids /\ IsFiniteSet(ids)
    BY <1>8, <2>0 DEF Sellers, o
  <2>2. Cardinality(Blocks(b.orders, ids)) = Cardinality(rest) + o.amount_in_remaining
    BY <2>1, SellersFinite, BlocksSplit DEF o
  <2>3. Cardinality(Blocks(u.orders, ids))
          = Cardinality(Blocks(u.orders, ids \ {id})) + left
    <3>1. \A i \in ids : u.orders[i].amount_in_remaining \in Nat
      BY <1>2, <1>5, SellersFinite
    <3> QED
      BY <1>3, <2>1, <3>1, BlocksSplit
  <2>4. Blocks(u.orders, ids \ {id}) = rest
    <3>1. \A i \in ids \ {id} :
            u.orders[i].amount_in_remaining = b.orders[i].amount_in_remaining
      BY <1>1 DEF Sellers
    <3> QED
      BY <3>1, BlocksSame
  <2>5. Cardinality(rest) \in Nat
    <3>1. IsFiniteSet(ids \ {id}) /\ \A i \in ids \ {id} : b.orders[i].amount_in_remaining \in Nat
      BY <2>1, SellersFinite, FS_RemoveElement
    <3> QED
      BY <3>1, BlocksFinite, FS_CardinalityType
  <2>6. balance[<<Book, t>>] = b.balance[<<Book, t>>] - (o.amount_in_remaining - left)
    BY <1>8 DEF o
  <2> HIDE DEF ids, rest
  <2> QED
    BY <1>1, <1>3, <1>5, <1>6, <2>2, <2>3, <2>4, <2>5, <2>6 DEF ids
<1> QED
  BY <1>7, <1>8

-----------------------------------------------------------------------------
(* The inductive invariant of one book state                                *)

BookInv(b) ==
  /\ b \in BookState
  /\ LifeAccounted(b)
  /\ MakerFloor(b)
  /\ IndexesExact(b)
  /\ EscrowBacked(b)

LEMMA UpdatedKeepsBook ==
  ASSUME NEW b, BookInv(b), NEW id \in OrderIds(b), IsOpen(b.orders[id]),
         NEW left \in Nat, NEW status \in Statuses, NEW h \in History,
         NEW balance \in Balances,
         left = 0 <=> status \notin OpenStatuses,
         AccountedFor(Left(b.orders[id], left, status), h),
         FloorKept(Left(b.orders[id], left, status), h),
         \A t \in Tokens :
           balance[<<Book, t>>] = b.balance[<<Book, t>>] -
             (IF t = b.orders[id].token_in THEN b.orders[id].amount_in_remaining - left
                                           ELSE 0)
  PROVE  BookInv(Updated(b, id, left, status, h, balance))
<1> DEFINE u == Updated(b, id, left, status, h, balance)
<1>1. b \in BookState /\ DOMAIN b.history = OrderIds(b)
  BY DEF BookInv, LifeAccounted
<1>2. u \in BookState
  BY <1>1, UpdatedTyped
<1>3. LifeAccounted(u) /\ MakerFloor(u)
  BY <1>1, UpdatedKeepsOrders DEF BookInv
<1>4. IndexesExact(u)
  BY <1>1, UpdatedKeepsIndexes DEF BookInv
<1>5. EscrowBacked(u)
  BY <1>1, UpdatedKeepsEscrow DEF BookInv
<1> HIDE DEF u
<1> QED
  BY <1>2, <1>3, <1>4, <1>5 DEF BookInv, u

(* An open order with what its history says of it.                          *)
LEMMA OpenOrder ==
  ASSUME NEW b, BookInv(b), NEW id \in OrderIds(b), IsOpen(b.orders[id])
  PROVE  LET o == b.orders[id]
             h == b.history[id]
         IN  /\ o \in Order /\ h \in History /\ h = [delivered |-> h.delivered,
                    received |-> h.received, refunded |-> 0, routed |-> 0]
             /\ h.delivered \in Nat /\ h.received \in Nat /\ h.refunded = 0 /\ h.routed = 0
             /\ o.amount_in_remaining \in Nat \ {0}
             /\ o.amount_in \in Nat \ {0} /\ o.min_amount_out \in Nat
             /\ o.amount_in = o.amount_in_remaining + h.delivered
             /\ FloorKept(o, h)
             /\ o.token_in \in Tokens /\ o.token_out \in Tokens /\ o.maker \in Accounts
<1> DEFINE o == b.orders[id]
           h == b.history[id]
<1>1. o \in Order /\ h \in History
  BY OrderTyped DEF BookInv, LifeAccounted
<1>2. AccountedFor(o, h) /\ FloorKept(o, h)
  BY DEF BookInv, LifeAccounted, MakerFloor
<1> HIDE DEF o, h
<1>3. /\ o.amount_in \in Nat \ {0} /\ o.amount_in_remaining \in Nat
      /\ o.min_amount_out \in Nat
      /\ o.token_in \in Tokens /\ o.token_out \in Tokens /\ o.maker \in Accounts
  BY <1>1, OrderFields
<1>4. /\ h.delivered \in Nat /\ h.received \in Nat /\ h.refunded \in Nat /\ h.routed \in Nat
      /\ h = [delivered |-> h.delivered, received |-> h.received,
              refunded |-> h.refunded, routed |-> h.routed]
  BY <1>1 DEF History
<1>5. IsOpen(o)
  BY DEF o
<1>6. h.refunded = 0 /\ h.routed = 0 /\ o.amount_in_remaining > 0
  BY <1>2, <1>4, <1>5 DEF AccountedFor
<1>7. o.amount_in = o.amount_in_remaining + h.delivered
  BY <1>2, <1>3, <1>4, <1>6 DEF AccountedFor
<1> QED
  BY <1>1, <1>2, <1>3, <1>4, <1>6, <1>7 DEF o, h

(* What leaves the book's balance when it pays another holder.              *)
LEMMA BookPays ==
  ASSUME NEW balance \in Balances, NEW token \in Tokens,
         NEW to \in Holders, to # Book,
         NEW amount, amount \in Nat, amount <= balance[<<Book, token>>],
         NEW paid, paid = Transfer(balance, token, Book, to, amount)
  PROVE  /\ paid \in Balances
         /\ \A t \in Tokens : paid[<<Book, t>>] = balance[<<Book, t>>] -
                                (IF t = token THEN amount ELSE 0)
<1>1. Book \in Holders /\ \A t \in Tokens : balance[<<Book, t>>] \in Nat
  BY DEF Holders, Balances
<1>2. /\ paid \in Balances
      /\ paid[<<Book, token>>] = balance[<<Book, token>>] - amount
      /\ \A h \in Holders, t \in Tokens :
           (t # token \/ (h # Book /\ h # to)) => paid[<<h, t>>] = balance[<<h, t>>]
  BY <1>1 DEF Transfer, Balances
<1> QED
  BY <1>1, <1>2

(* cancel_order, expire_order and claim_expired_timer: the rest goes out.   *)
LEMMA PayoutKeepsBook ==
  ASSUME NEW b, BookInv(b), NEW id \in OrderIds(b), IsOpen(b.orders[id]),
         NEW status \in {"Cancelled", "Expired", "Routed"},
         NEW rest, rest = b.orders[id].amount_in_remaining,
         NEW h \in History, h.delivered = b.history[id].delivered,
         h.received = b.history[id].received,
         h.refunded = (IF status = "Routed" THEN 0 ELSE rest),
         h.routed = (IF status = "Routed" THEN rest ELSE 0),
         NEW to \in Holders, to # Book,
         CanPay(b, Book, b.orders[id].token_in, rest),
         NEW paid, paid = Transfer(b.balance, b.orders[id].token_in, Book, to, rest)
  PROVE  BookInv(Updated(b, id, 0, status, h, paid))
<1> DEFINE o == b.orders[id]
           n == Left(o, 0, status)
           was == b.history[id]
<1>1. /\ o \in Order /\ was \in History
      /\ was = [delivered |-> was.delivered, received |-> was.received,
                refunded |-> 0, routed |-> 0]
      /\ was.delivered \in Nat /\ was.received \in Nat
      /\ rest \in Nat \ {0} /\ o.amount_in = rest + was.delivered
      /\ FloorKept(o, was)
      /\ o.token_in \in Tokens
  BY OpenOrder
<1>2. status \in Statuses /\ status \notin OpenStatuses /\ 0 \in Nat
  BY DEF Statuses
<1>3. b.balance \in Balances
  BY BookFields DEF BookInv
<1> HIDE DEF o, was
<1>5. /\ h \in History /\ h.delivered = was.delivered /\ h.received = was.received
      /\ h.refunded = (IF status = "Routed" THEN 0 ELSE rest)
      /\ h.routed = (IF status = "Routed" THEN rest ELSE 0)
  BY DEF was
<1>6. /\ n.amount_in_remaining = 0 /\ n.status = status /\ n.amount_in = o.amount_in
      /\ n.min_amount_out = o.min_amount_out /\ n.price_mode = o.price_mode
  BY <1>1, <1>2 DEF Left, Order
<1> HIDE DEF n
<1>7. AccountedFor(n, h)
  BY <1>1, <1>2, <1>5, <1>6 DEF AccountedFor
<1>8. FloorKept(n, h)
  BY <1>1, <1>5, <1>6 DEF FloorKept
<1>9. /\ paid \in Balances
      /\ \A t \in Tokens : paid[<<Book, t>>] = b.balance[<<Book, t>>] -
            (IF t = o.token_in THEN rest ELSE 0)
  <2>1. rest \in Nat /\ rest <= b.balance[<<Book, o.token_in>>]
    BY <1>1 DEF CanPay, o
  <2>2. paid = Transfer(b.balance, o.token_in, Book, to, rest)
    BY DEF o
  <2> QED
    BY <1>1, <1>3, <2>1, <2>2, BookPays
<1>10. \A t \in Tokens : paid[<<Book, t>>] = b.balance[<<Book, t>>] -
            (IF t = b.orders[id].token_in THEN b.orders[id].amount_in_remaining - 0 ELSE 0)
  BY <1>1, <1>9 DEF o
<1>11. 0 = 0 <=> status \notin OpenStatuses
  BY <1>2
<1>12. AccountedFor(Left(b.orders[id], 0, status), h)
       /\ FloorKept(Left(b.orders[id], 0, status), h)
  BY <1>7, <1>8 DEF o, n
<1> QED
  BY <1>2, <1>5, <1>9, <1>10, <1>11, <1>12, UpdatedKeepsBook

LEMMA RefundKeepsBook ==
  ASSUME NEW b, BookInv(b), NEW id \in OrderIds(b), IsOpen(b.orders[id]),
         NEW status \in {"Cancelled", "Expired"},
         CanPay(b, Book, b.orders[id].token_in, b.orders[id].amount_in_remaining)
  PROVE  BookInv(Refund(b, id, status))
<1> DEFINE o == b.orders[id]
           rest == o.amount_in_remaining
           h == [b.history[id] EXCEPT !.refunded = rest]
           paid == Transfer(b.balance, o.token_in, Book, o.maker, rest)
<1>1. Refund(b, id, status) = Updated(b, id, 0, status, h, paid)
  BY RefundIsUpdate DEF BookInv, Statuses
<1>2. o.maker \in Holders /\ o.maker # Book
  <2>1. o.maker \in Accounts
    BY OpenOrder
  <2> QED
    BY <2>1, BookAssumption DEF Holders
<1>3. /\ h \in History /\ h.delivered = b.history[id].delivered
      /\ h.received = b.history[id].received /\ h.refunded = rest /\ h.routed = 0
  <2>1. /\ b.history[id] \in History /\ rest \in Nat
        /\ b.history[id] = [delivered |-> b.history[id].delivered,
              received |-> b.history[id].received, refunded |-> 0, routed |-> 0]
    BY OpenOrder
  <2> HIDE DEF rest
  <2> QED
    BY <2>1 DEF History
<1> HIDE DEF h
<1>4. BookInv(Updated(b, id, 0, status, h, paid))
  BY <1>2, <1>3, PayoutKeepsBook
<1> QED
  BY <1>1, <1>4

LEMMA ClaimKeepsBook ==
  ASSUME NEW b, BookInv(b), NEW id \in OrderIds(b), CanClaim(b, id)
  PROVE  BookInv(Claim(b, id))
<1> DEFINE o == b.orders[id]
           rest == o.amount_in_remaining
           h == [b.history[id] EXCEPT !.routed = rest]
           paid == Transfer(b.balance, o.token_in, Book, Router, rest)
<1>1. Claim(b, id) = Updated(b, id, 0, "Routed", h, paid)
  BY ClaimIsUpdate DEF BookInv
<1>2. Router \in Holders /\ Router # Book
  BY BookAssumption DEF Holders
<1>3. IsOpen(o) /\ CanPay(b, Book, o.token_in, rest)
  BY DEF CanClaim
<1>5. /\ h \in History /\ h.delivered = b.history[id].delivered
      /\ h.received = b.history[id].received /\ h.refunded = 0 /\ h.routed = rest
  <2>1. /\ b.history[id] \in History /\ rest \in Nat
        /\ b.history[id] = [delivered |-> b.history[id].delivered,
              received |-> b.history[id].received, refunded |-> 0, routed |-> 0]
    BY <1>3, OpenOrder
  <2> HIDE DEF rest
  <2> QED
    BY <2>1 DEF History
<1> HIDE DEF h
<1>4. BookInv(Updated(b, id, 0, "Routed", h, paid))
  BY <1>2, <1>3, <1>5, PayoutKeepsBook
<1> QED
  BY <1>1, <1>4

-----------------------------------------------------------------------------
(* Fills                                                                    *)

(* The floor is kept when a fill pays at least its pro-rata share.          *)
LEMMA FloorAdds ==
  ASSUME NEW amount \in Nat, NEW least \in Nat, NEW received \in Nat,
         NEW delivered \in Nat, NEW net \in Nat, NEW fill \in Nat,
         received * amount >= least * delivered, least * fill <= amount * net
  PROVE  (received + net) * amount >= least * (delivered + fill)
<1>1. (received + net) * amount = received * amount + amount * net
  BY SMT
<1>2. least * (delivered + fill) = least * delivered + least * fill
  BY SMT
<1>3. /\ received * amount \in Nat /\ amount * net \in Nat
      /\ least * delivered \in Nat /\ least * fill \in Nat
  BY ProductNat
<1> QED
  BY <1>1, <1>2, <1>3

LEMMA OthersPay ==
  ASSUME NEW balance \in Balances, NEW token \in Tokens,
         NEW from \in Holders, from # Book, NEW to \in Holders, to # Book, from # to,
         NEW amount, amount \in Nat, amount <= balance[<<from, token>>],
         NEW paid, paid = Transfer(balance, token, from, to, amount)
  PROVE  /\ paid \in Balances
         /\ paid[<<from, token>>] = balance[<<from, token>>] - amount
         /\ \A t \in Tokens : paid[<<Book, t>>] = balance[<<Book, t>>]
<1>1. Book \in Holders /\ \A t \in Tokens : balance[<<Book, t>>] \in Nat
  BY DEF Holders, Balances
<1> QED
  BY <1>1 DEF Transfer, Balances

(* The three transfers of a fill.                                           *)
LEMMA SettlementPays ==
  ASSUME NEW b, b.balance \in Balances, NEW id, NEW taker \in Accounts,
         b.orders[id].maker \in Accounts, taker # b.orders[id].maker,
         b.orders[id].token_in \in Tokens, b.orders[id].token_out \in Tokens,
         NEW fill, fill \in Nat, NEW out, out \in Nat,
         cfg.fee \in Nat, cfg.fee < FEE_DENOMINATOR,
         CanPay(b, taker, b.orders[id].token_out, out),
         CanPay(b, Book, b.orders[id].token_in, fill),
         NEW paid, paid = Settlement(b, taker, id, fill, out)
  PROVE  /\ paid \in Balances
         /\ \A t \in Tokens : paid[<<Book, t>>] = b.balance[<<Book, t>>] -
                                (IF t = b.orders[id].token_in THEN fill ELSE 0)
<1> DEFINE o == b.orders[id]
           maker == o.maker
           in == o.token_in
           to == o.token_out
           fee == CalculateFee(out, cfg.fee, FEE_DENOMINATOR)
           net == out - fee
           first == Transfer(b.balance, to, taker, maker, net)
           second == Transfer(first, to, taker, Vault, fee)
<1>1. /\ taker \in Holders /\ maker \in Holders /\ Vault \in Holders
      /\ taker # Book /\ maker # Book /\ Vault # Book /\ taker # Vault /\ Book \in Holders
  BY BookAssumption DEF Holders
<1>2. fee \in Nat /\ net \in Nat /\ net + fee = out
  <2>1. FEE_DENOMINATOR \in Nat
    BY BookAssumption
  <2>2. fee \in 0..out
    BY <2>1, FeeBounds
  <2> HIDE DEF fee
  <2> QED
    BY <2>2
<1>3. paid = Transfer(second, in, Book, taker, fill)
  BY DEF Settlement
<1>4. out <= b.balance[<<taker, to>>] /\ fill <= b.balance[<<Book, in>>]
      /\ b.balance[<<taker, to>>] \in Nat /\ b.balance[<<Book, in>>] \in Nat
  BY <1>1 DEF CanPay, Balances
<1>5. taker # maker /\ in \in Tokens /\ to \in Tokens
  OBVIOUS
<1> HIDE DEF o, maker, in, to, fee, net, first, second
<1>6. /\ first \in Balances /\ first[<<taker, to>>] = b.balance[<<taker, to>>] - net
      /\ \A t \in Tokens : first[<<Book, t>>] = b.balance[<<Book, t>>]
  <2>1. first = Transfer(b.balance, to, taker, maker, net)
    BY DEF first
  <2>2. net <= b.balance[<<taker, to>>]
    BY <1>2, <1>4
  <2> QED
    BY <1>1, <1>2, <1>5, <2>1, <2>2, OthersPay
<1>7. /\ second \in Balances
      /\ \A t \in Tokens : second[<<Book, t>>] = first[<<Book, t>>]
  <2>1. second = Transfer(first, to, taker, Vault, fee)
    BY DEF second
  <2>2. fee <= first[<<taker, to>>]
    BY <1>2, <1>4, <1>6
  <2> QED
    BY <1>1, <1>2, <1>5, <1>6, <2>1, <2>2, OthersPay
<1>8. /\ paid \in Balances
      /\ \A t \in Tokens : paid[<<Book, t>>] = second[<<Book, t>>] -
                             (IF t = in THEN fill ELSE 0)
  <2>1. fill <= second[<<Book, in>>]
    BY <1>4, <1>5, <1>6, <1>7
  <2> QED
    BY <1>1, <1>3, <1>5, <1>7, <2>1, BookPays
<1> QED
  BY <1>6, <1>7, <1>8 DEF in, o

(* partial_fill, fill_order, and each fill of match_and_place.              *)
LEMMA FillKeepsBook ==
  ASSUME NEW b, BookInv(b), NEW id \in OrderIds(b), NEW taker \in Accounts,
         NEW fill \in Int, NEW out \in Int, cfg.fee \in 0..MAX_FEE,
         CanFill(b, taker, id, fill, out)
  PROVE  BookInv(FillInner(b, taker, id, fill, out))
<1> DEFINE o == b.orders[id]
           was == b.history[id]
           net == NetOfFee(out, cfg.fee, FEE_DENOMINATOR)
           left == o.amount_in_remaining - fill
           status == IF left = 0 THEN "Filled" ELSE "PartialFill"
           h == Sold(was, fill, net)
           paid == Settlement(b, taker, id, fill, out)
           n == Left(o, left, status)
<1>1. /\ IsOpen(o) /\ taker # o.maker /\ fill > 0 /\ out > 0
      /\ fill <= o.amount_in_remaining /\ net >= RequiredPayment(o, fill) /\ net > 0
      /\ CanPay(b, taker, o.token_out, out) /\ CanPay(b, Book, o.token_in, fill)
  BY DEF CanFill, OpenTo
<1>2. /\ o \in Order /\ was \in History
      /\ was = [delivered |-> was.delivered, received |-> was.received,
                refunded |-> 0, routed |-> 0]
      /\ was.delivered \in Nat /\ was.received \in Nat
      /\ was.refunded = 0 /\ was.routed = 0
      /\ o.amount_in_remaining \in Nat \ {0} /\ o.amount_in \in Nat \ {0}
      /\ o.min_amount_out \in Nat
      /\ o.amount_in = o.amount_in_remaining + was.delivered
      /\ FloorKept(o, was)
      /\ o.token_in \in Tokens /\ o.token_out \in Tokens /\ o.maker \in Accounts
  BY <1>1, OpenOrder
<1>3. /\ cfg.fee \in Nat /\ cfg.fee < FEE_DENOMINATOR /\ fill \in Nat /\ out \in Nat
      /\ FEE_DENOMINATOR \in Nat
  BY <1>1, BookAssumption
<1>4. net \in Nat
  <2>1. net \in 0..out
    BY <1>3, FeeBounds
  <2> HIDE DEF net
  <2> QED
    BY <1>3, <2>1
<1>5. /\ left \in Nat /\ left < o.amount_in_remaining /\ status \in Statuses
      /\ (left = 0 <=> status \notin OpenStatuses)
      /\ status # "Open"
  <2>1. o.amount_in_remaining \in Nat /\ fill <= o.amount_in_remaining /\ fill > 0
    BY <1>1, <1>2
  <2>2. left \in Nat /\ left < o.amount_in_remaining
    BY <1>3, <2>1
  <2> HIDE DEF left
  <2> QED
    BY <2>2 DEF Statuses
<1>6. FillInner(b, taker, id, fill, out) = Updated(b, id, left, status, h, paid)
  BY <1>5, FillIsUpdate DEF BookInv
<1>7. b.balance \in Balances
  BY BookFields DEF BookInv
<1>8. /\ paid \in Balances
      /\ \A t \in Tokens : paid[<<Book, t>>] = b.balance[<<Book, t>>] -
                             (IF t = o.token_in THEN fill ELSE 0)
  <2>1. /\ o.maker \in Accounts /\ taker # o.maker
        /\ o.token_in \in Tokens /\ o.token_out \in Tokens
    BY <1>1, <1>2
  <2>2. CanPay(b, taker, o.token_out, out) /\ CanPay(b, Book, o.token_in, fill)
    BY <1>1
  <2>3. paid = Settlement(b, taker, id, fill, out)
    OBVIOUS
  <2> HIDE DEF paid
  <2> QED
    BY <1>3, <1>7, <2>1, <2>2, <2>3, SettlementPays
<1> HIDE DEF paid
<1>9. /\ h \in History /\ h.delivered = was.delivered + fill
      /\ h.received = was.received + net /\ h.refunded = 0 /\ h.routed = 0
  <2> HIDE DEF was, net
  <2>1. was \in History /\ was.refunded = 0 /\ was.routed = 0
    BY <1>2
  <2> QED
    BY <1>3, <1>4, <2>1 DEF Sold, History
<1> HIDE DEF h
<1>10. /\ n.amount_in_remaining = left /\ n.status = status /\ n.amount_in = o.amount_in
       /\ n.min_amount_out = o.min_amount_out /\ n.price_mode = o.price_mode
  <2> HIDE DEF left, status, o
  <2> QED
    BY <1>2, <1>5 DEF Left, Order
<1>11. AccountedFor(n, h)
  <2>1. n.amount_in_remaining = o.amount_in_remaining - fill
    BY <1>10
  <2>2. n.status \in OpenStatuses <=> n.amount_in_remaining > 0
    <3>1. left > 0 <=> left # 0
      BY <1>5
    <3> HIDE DEF left, status, n
    <3> QED
      BY <1>5, <1>10, <3>1
  <2>3. n.status \in {"Filled", "PartialFill"}
    BY <1>10
  <2> HIDE DEF n, o, was, net, left, status
  <2>4. /\ n.amount_in = o.amount_in /\ h.delivered = was.delivered + fill
        /\ h.refunded = 0 /\ h.routed = 0 /\ fill > 0
    BY <1>1, <1>9, <1>10
  <2> QED
    BY <1>2, <1>3, <2>1, <2>2, <2>3, <2>4 DEF AccountedFor
<1>12. FloorKept(n, h)
  <2>1. SUFFICES ASSUME o.price_mode = "Fixed"
                 PROVE  (was.received + net) * o.amount_in
                          >= o.min_amount_out * (was.delivered + fill)
    BY <1>9, <1>10 DEF FloorKept
  <2>2. was.received * o.amount_in >= o.min_amount_out * was.delivered
    BY <1>2, <2>1 DEF FloorKept
  <2>3. o.min_amount_out * fill <= o.amount_in * net
    <3>1. MulDivCeil(o.min_amount_out, fill, o.amount_in) <= net
      <4>1. RequiredPayment(o, fill) = MulDivCeil(o.min_amount_out, fill, o.amount_in)
        BY <2>1 DEF RequiredPayment
      <4>2. MulDivCeil(o.min_amount_out, fill, o.amount_in) \in Nat
        <5>1. o.amount_in \in Nat /\ o.amount_in > 0 /\ o.min_amount_out \in Nat
          BY <1>2
        <5> HIDE DEF o
        <5> QED
          BY <1>3, <5>1, CeilBounds
      <4> HIDE DEF net, o
      <4> QED
        BY <1>1, <1>4, <4>1, <4>2
    <3>2. o.amount_in \in Nat /\ o.amount_in > 0
      BY <1>2
    <3> HIDE DEF net, o
    <3> QED
      BY <1>2, <1>3, <1>4, <3>1, <3>2, CeilAdjunction
  <2> HIDE DEF net, o, was
  <2> QED
    BY <1>2, <1>3, <1>4, <2>2, <2>3, FloorAdds
<1>13. \A t \in Tokens : paid[<<Book, t>>] = b.balance[<<Book, t>>] -
         (IF t = b.orders[id].token_in THEN b.orders[id].amount_in_remaining - left
                                       ELSE 0)
  <2>1. o.amount_in_remaining - left = fill
    BY <1>2, <1>3
  <2> HIDE DEF left
  <2> QED
    BY <1>8, <2>1
<1>14. AccountedFor(Left(b.orders[id], left, status), h)
       /\ FloorKept(Left(b.orders[id], left, status), h)
  BY <1>11, <1>12
<1>15. IsOpen(b.orders[id])
  BY <1>1
<1> HIDE DEF left, status, n, net, was
<1>16. BookInv(Updated(b, id, left, status, h, paid))
  BY <1>5, <1>8, <1>9, <1>13, <1>14, <1>15, UpdatedKeepsBook
<1> QED
  BY <1>6, <1>16

-----------------------------------------------------------------------------
(* Placements                                                               *)

LEMMA NewOrderTyped ==
  ASSUME NEW maker \in Accounts, NEW o \in Terms,
         o.amount_in > 0, o.min_amount_out >= 0,
         NEW n, n = NewOrder(maker, o)
  PROVE  /\ n \in Order /\ n.maker = maker /\ n.status = "Open"
         /\ n.amount_in = o.amount_in /\ n.amount_in_remaining = o.amount_in
         /\ n.token_in = o.token_in /\ Pair(n) = Pair(o)
<1>1. /\ o.token_in \in Tokens /\ o.token_out \in Tokens /\ o.amount_in \in Int
      /\ o.min_amount_out \in Int /\ o.expiry \in Nat /\ o.price_mode \in Modes
      /\ o.max_slippage_bps \in Nat /\ o.auto_route_after \in Nat
      /\ o.excluded \in SUBSET Accounts
  BY DEF Terms
<1>2. o.amount_in \in Nat \ {0} /\ o.min_amount_out \in Nat
  BY <1>1
<1>3. "Open" \in Statuses
  BY DEF Statuses
<1> QED
  BY <1>1, <1>2, <1>3 DEF NewOrder, Order, Pair

(* What place_order's checks say of the amounts and tokens of the terms.    *)
LEMMA PlacedTerms ==
  ASSUME NEW b, NEW maker \in Accounts, NEW o \in Terms, CanPlace(b, maker, o)
  PROVE  /\ o.amount_in > 0 /\ o.min_amount_out >= 0
         /\ o.amount_in \in Nat \ {0} /\ o.token_in \in Tokens
         /\ Pair(o) \in Pairs /\ <<maker, Pair(o)>> \in Accounts \X Pairs
<1>1. /\ o.token_in \in Tokens /\ o.token_out \in Tokens /\ o.amount_in \in Int
      /\ o.min_amount_out \in Int
  BY DEF Terms
<1>2. o.amount_in > 0 /\ o.min_amount_out >= 0
  BY <1>1 DEF CanPlace
<1>3. Pair(o) \in Pairs /\ <<maker, Pair(o)>> \in Accounts \X Pairs
  BY <1>1 DEF Pair, Pairs
<1> QED
  BY <1>1, <1>2, <1>3

LEMMA Appended ==
  ASSUME NEW S, NEW s \in Seq(S), NEW x \in S, NEW a, a = Append(s, x),
         NEW last, last = Len(s) + 1
  PROVE  /\ a \in Seq(S) /\ DOMAIN a = DOMAIN s \union {last}
         /\ last \notin DOMAIN s /\ last \in Nat
         /\ a[last] = x /\ \A i \in DOMAIN s : a[i] = s[i]
  OBVIOUS

LEMMA BookReceives ==
  ASSUME NEW balance \in Balances, NEW token \in Tokens,
         NEW from \in Holders, from # Book,
         NEW amount, amount \in Nat, amount <= balance[<<from, token>>],
         NEW paid, paid = Transfer(balance, token, from, Book, amount)
  PROVE  /\ paid \in Balances
         /\ \A t \in Tokens : paid[<<Book, t>>] = balance[<<Book, t>>] +
                                (IF t = token THEN amount ELSE 0)
<1>1. Book \in Holders /\ \A t \in Tokens : balance[<<Book, t>>] \in Nat
  BY DEF Holders, Balances
<1>2. /\ paid \in Balances
      /\ paid[<<Book, token>>] = balance[<<Book, token>>] + amount
      /\ \A h \in Holders, t \in Tokens :
           (t # token \/ (h # from /\ h # Book)) => paid[<<h, t>>] = balance[<<h, t>>]
  BY <1>1 DEF Transfer, Balances
<1>3. \A t \in Tokens : t # token => paid[<<Book, t>>] = balance[<<Book, t>>]
  BY <1>1, <1>2
<1> QED
  BY <1>1, <1>2, <1>3

(* What a placement leaves: one more order, everything else as it was.      *)
Placed(b, maker, o, p, id) ==
  /\ p \in BookState
  /\ OrderIds(p) = OrderIds(b) \union {id} /\ id \notin OrderIds(b) /\ id \in Nat
  /\ DOMAIN p.history = OrderIds(p)
  /\ p.orders[id] = NewOrder(maker, o) /\ p.history[id] = NoHistory
  /\ \A i \in OrderIds(b) : p.orders[i] = b.orders[i] /\ p.history[i] = b.history[i]
  /\ p.index = [b.index EXCEPT ![Pair(o)] = @ \union {id}]
  /\ p.count = [b.count EXCEPT ![<<maker, Pair(o)>>] = @ + 1]
  /\ \A t \in Tokens : p.balance[<<Book, t>>] = b.balance[<<Book, t>>] +
                         (IF t = o.token_in THEN o.amount_in ELSE 0)

LEMMA PlacedFields ==
  ASSUME NEW b, BookInv(b), NEW maker \in Accounts, NEW o \in Terms, CanPlace(b, maker, o)
  PROVE  Placed(b, maker, o, PlaceInner(b, maker, o), Len(b.orders) + 1)
<1> DEFINE p == PlaceInner(b, maker, o)
           id == Len(b.orders) + 1
<1>a. p = PlaceInner(b, maker, o) /\ id = Len(b.orders) + 1
  OBVIOUS
<1> HIDE DEF p, id
<1> DEFINE n == NewOrder(maker, o)
<1>0. n = NewOrder(maker, o)
  OBVIOUS
<1>1. /\ b.orders \in Seq(Order) /\ b.history \in Seq(History)
      /\ b.index \in [Pairs -> SUBSET Nat] /\ b.count \in [Accounts \X Pairs -> Nat]
      /\ b.balance \in Balances
      /\ DOMAIN b.history = DOMAIN b.orders
  BY BookFields DEF BookInv, LifeAccounted
<1>2. Len(b.history) = Len(b.orders)
  BY <1>1
<1>3. /\ p.orders = Append(b.orders, n) /\ p.history = Append(b.history, NoHistory)
      /\ p.index = [b.index EXCEPT ![Pair(o)] = @ \union {id}]
      /\ p.count = [b.count EXCEPT ![<<maker, Pair(o)>>] = @ + 1]
      /\ p.balance = Transfer(b.balance, o.token_in, maker, Book, o.amount_in)
      /\ p = [orders |-> p.orders, history |-> p.history, index |-> p.index,
              count |-> p.count, balance |-> p.balance]
  BY <1>a DEF PlaceInner
<1> HIDE DEF n
<1>4. /\ n \in Order /\ o.amount_in \in Nat \ {0} /\ o.token_in \in Tokens
      /\ Pair(o) \in Pairs /\ <<maker, Pair(o)>> \in Accounts \X Pairs
  <2>1. /\ o.amount_in > 0 /\ o.min_amount_out >= 0
        /\ o.amount_in \in Nat \ {0} /\ o.token_in \in Tokens
        /\ Pair(o) \in Pairs /\ <<maker, Pair(o)>> \in Accounts \X Pairs
    BY PlacedTerms, Zenon
  <2> QED
    BY <1>0, <2>1, NewOrderTyped
<1>5. NoHistory \in History
  BY DEF NoHistory, History
<1>6. /\ p.orders \in Seq(Order) /\ DOMAIN p.orders = DOMAIN b.orders \union {id}
      /\ id \notin DOMAIN b.orders /\ id \in Nat
      /\ p.orders[id] = n /\ \A i \in DOMAIN b.orders : p.orders[i] = b.orders[i]
  BY <1>a, <1>1, <1>3, <1>4, Appended
<1>7. /\ p.history \in Seq(History) /\ DOMAIN p.history = DOMAIN b.history \union {id}
      /\ p.history[id] = NoHistory
      /\ \A i \in DOMAIN b.history : p.history[i] = b.history[i]
  BY <1>a, <1>1, <1>2, <1>3, <1>5, Appended
<1>8. p.index \in [Pairs -> SUBSET Nat]
  BY <1>1, <1>3, <1>4, <1>6
<1>9. p.count \in [Accounts \X Pairs -> Nat]
  BY <1>1, <1>3, <1>4
<1>10. /\ p.balance \in Balances
       /\ \A t \in Tokens : p.balance[<<Book, t>>] = b.balance[<<Book, t>>] +
                              (IF t = o.token_in THEN o.amount_in ELSE 0)
  <2>1. maker \in Holders /\ maker # Book
    BY BookAssumption DEF Holders
  <2>2. o.amount_in \in Nat /\ o.amount_in <= b.balance[<<maker, o.token_in>>]
    <3>1. o.amount_in \in Nat /\ b.balance[<<maker, o.token_in>>] \in Nat
      BY <1>1, <1>4, <2>1 DEF Balances
    <3> QED
      BY <3>1 DEF CanPlace, CanPay
  <2> QED
    BY <1>1, <1>3, <1>4, <2>1, <2>2, BookReceives
<1>11. p \in BookState
  BY <1>3, <1>6, <1>7, <1>8, <1>9, <1>10 DEF BookState
<1> QED
  BY <1>0, <1>1, <1>3, <1>6, <1>7, <1>10, <1>11 DEF Placed, p, id

LEMMA PlacedIndexes ==
  ASSUME NEW b, BookInv(b), NEW maker \in Accounts, NEW o \in Terms, CanPlace(b, maker, o),
         NEW p, p = PlaceInner(b, maker, o)
  PROVE  IndexesExact(p)
<1> DEFINE id == Len(b.orders) + 1
           here == Pair(o)
           OpenOf(c, q) == {i \in OrderIds(c) : IsOpen(c.orders[i]) /\ Pair(c.orders[i]) = q}
           Held(c, q, m) == {i \in c.index[q] : c.orders[i].maker = m}
<1>0. Placed(b, maker, o, p, id)
  BY PlacedFields
<1>1. /\ OrderIds(p) = OrderIds(b) \union {id} /\ id \notin OrderIds(b)
      /\ p.orders[id] = NewOrder(maker, o)
      /\ \A i \in OrderIds(b) : p.orders[i] = b.orders[i]
      /\ p.index = [b.index EXCEPT ![here] = @ \union {id}]
      /\ p.count = [b.count EXCEPT ![<<maker, here>>] = @ + 1]
  BY <1>0 DEF Placed
<1>2. /\ NewOrder(maker, o).maker = maker /\ IsOpen(NewOrder(maker, o))
      /\ Pair(NewOrder(maker, o)) = here
      /\ here \in Pairs /\ <<maker, here>> \in Accounts \X Pairs
  <2>1. /\ o.amount_in > 0 /\ o.min_amount_out >= 0
        /\ Pair(o) \in Pairs /\ <<maker, Pair(o)>> \in Accounts \X Pairs
    BY PlacedTerms, Zenon
  <2> QED
    BY <2>1, NewOrderTyped
<1>3. /\ b.index \in [Pairs -> SUBSET Nat] /\ b.count \in [Accounts \X Pairs -> Nat]
  BY BookFields DEF BookInv
<1>4. /\ Cardinality(b.index[here]) < MAX_ORDERS_PER_PAIR
      /\ b.count[<<maker, here>>] < MAX_OPEN_PER_MAKER_PAIR
  BY DEF CanPlace, RoomFor
<1> HIDE DEF id, here
<1>5. SUFFICES ASSUME NEW q \in Pairs
      PROVE /\ p.index[q] = OpenOf(p, q)
            /\ Cardinality(p.index[q]) <= MAX_ORDERS_PER_PAIR
            /\ \A m \in Accounts :
                 /\ p.count[<<m, q>>] = Cardinality(Held(p, q, m))
                 /\ p.count[<<m, q>>] <= MAX_OPEN_PER_MAKER_PAIR
  BY DEF IndexesExact
<1>6. /\ b.index[q] = OpenOf(b, q)
      /\ Cardinality(b.index[q]) <= MAX_ORDERS_PER_PAIR
      /\ \A m \in Accounts :
           /\ b.count[<<m, q>>] = Cardinality(Held(b, q, m))
           /\ b.count[<<m, q>>] <= MAX_OPEN_PER_MAKER_PAIR
  BY DEF BookInv, IndexesExact
<1>7. b.index[q] \subseteq OrderIds(b) /\ id \notin b.index[q]
  BY <1>1, <1>6
<1>8. /\ IsFiniteSet(b.index[q]) /\ Cardinality(b.index[q]) \in Nat
      /\ \A m \in Accounts : IsFiniteSet(Held(b, q, m))
  BY IndexFinite DEF BookInv
<1>9. CASE q = here
  <2>1. p.index[q] = b.index[q] \union {id}
    BY <1>1, <1>2, <1>3, <1>9
  <2>2. OpenOf(p, q) = OpenOf(b, q) \union {id}
    BY <1>1, <1>2, <1>9
  <2>3. Cardinality(p.index[q]) = Cardinality(b.index[q]) + 1
    BY <1>7, <1>8, <2>1, FS_AddElement, Zenon
  <2>4. Cardinality(p.index[q]) <= MAX_ORDERS_PER_PAIR
    BY <1>4, <1>8, <1>9, <2>3, BookAssumption
  <2>5. ASSUME NEW m \in Accounts
        PROVE  /\ p.count[<<m, q>>] = Cardinality(Held(p, q, m))
               /\ p.count[<<m, q>>] <= MAX_OPEN_PER_MAKER_PAIR
    <3>1. b.count[<<m, q>>] \in Nat /\ <<m, q>> \in Accounts \X Pairs
      BY <1>3
    <3>2. CASE m = maker
      <4>1. Held(p, q, m) = Held(b, q, m) \union {id} /\ id \notin Held(b, q, m)
        BY <1>1, <1>2, <1>7, <2>1, <3>2
      <4>2. IsFiniteSet(Held(b, q, m))
        BY <1>8
      <4>3. Cardinality(Held(b, q, m) \union {id}) = Cardinality(Held(b, q, m)) + 1
        <5> HIDE DEF Held
        <5> QED
          BY <4>1, <4>2, FS_AddElement, Zenon
      <4>4. p.count[<<m, q>>] = b.count[<<m, q>>] + 1
        BY <1>1, <1>2, <1>3, <1>9, <3>1, <3>2
      <4>5. Cardinality(Held(p, q, m)) = b.count[<<m, q>>] + 1
        <5>1. b.count[<<m, q>>] = Cardinality(Held(b, q, m))
          BY <1>6
        <5> HIDE DEF Held
        <5> QED
          BY <4>1, <4>3, <5>1
      <4>6. b.count[<<m, q>>] < MAX_OPEN_PER_MAKER_PAIR
        BY <1>4, <1>9, <3>2
      <4> HIDE DEF Held
      <4> QED
        BY <3>1, <4>4, <4>5, <4>6, BookAssumption
    <3>3. CASE m # maker
      <4>1. Held(p, q, m) = Held(b, q, m)
        BY <1>1, <1>2, <1>7, <2>1, <3>3
      <4>2. p.count[<<m, q>>] = b.count[<<m, q>>]
        BY <1>1, <1>3, <3>1, <3>3
      <4> QED
        BY <1>6, <4>1, <4>2
    <3> QED
      BY <3>2, <3>3
  <2> QED
    BY <1>6, <2>1, <2>2, <2>4, <2>5
<1>10. CASE q # here
  <2>1. p.index[q] = b.index[q]
    BY <1>1, <1>3, <1>10
  <2>2. OpenOf(p, q) = OpenOf(b, q)
    BY <1>1, <1>2, <1>10
  <2>3. ASSUME NEW m \in Accounts
        PROVE  p.count[<<m, q>>] = b.count[<<m, q>>] /\ Held(p, q, m) = Held(b, q, m)
    <3>1. Held(p, q, m) = Held(b, q, m)
      BY <1>1, <1>7, <2>1
    <3>2. p.count[<<m, q>>] = b.count[<<m, q>>]
      BY <1>1, <1>3, <1>10
    <3> QED
      BY <3>1, <3>2
  <2> QED
    BY <1>6, <2>1, <2>2, <2>3
<1> QED
  BY <1>9, <1>10

LEMMA PlacedEscrow ==
  ASSUME NEW b, BookInv(b), NEW maker \in Accounts, NEW o \in Terms, CanPlace(b, maker, o),
         NEW p, p = PlaceInner(b, maker, o)
  PROVE  EscrowBacked(p)
<1> DEFINE id == Len(b.orders) + 1
           n == NewOrder(maker, o)
<1>0. Placed(b, maker, o, p, id) /\ n = NewOrder(maker, o)
  BY PlacedFields
<1> HIDE DEF id, n
<1>2. /\ n.amount_in_remaining = o.amount_in /\ o.amount_in \in Nat \ {0}
      /\ n.token_in = o.token_in
  <2>1. o.amount_in > 0 /\ o.min_amount_out >= 0 /\ o.amount_in \in Nat \ {0}
    BY PlacedTerms, Zenon
  <2> QED
    BY <1>0, <2>1, NewOrderTyped
<1>1. /\ OrderIds(p) = OrderIds(b) \union {id} /\ id \notin OrderIds(b)
      /\ p.orders[id] = n
      /\ \A i \in OrderIds(b) : p.orders[i] = b.orders[i]
      /\ \A t \in Tokens : p.balance[<<Book, t>>] = b.balance[<<Book, t>>] +
                             (IF t = o.token_in THEN o.amount_in ELSE 0)
      /\ p \in BookState
  BY <1>0 DEF Placed
<1>3. SUFFICES ASSUME NEW t \in Tokens
               PROVE  p.balance[<<Book, t>>] = Cardinality(Blocks(p.orders, Sellers(p, t)))
  BY EscrowIsBlocks DEF EscrowBacked
<1>4. b.balance[<<Book, t>>] = Cardinality(Blocks(b.orders, Sellers(b, t)))
  BY EscrowIsBlocks DEF EscrowBacked, BookInv
<1>5. b.balance[<<Book, t>>] \in Nat
  BY BookFields DEF BookInv, Holders, Balances
<1>6. Blocks(p.orders, Sellers(b, t)) = Blocks(b.orders, Sellers(b, t))
  <2>1. \A i \in Sellers(b, t) :
          p.orders[i].amount_in_remaining = b.orders[i].amount_in_remaining
    BY <1>1 DEF Sellers
  <2> QED
    BY <2>1, BlocksSame
<1>7. CASE t # o.token_in
  <2>1. Sellers(p, t) = Sellers(b, t)
    BY <1>1, <1>2, <1>7 DEF Sellers
  <2> QED
    BY <1>1, <1>4, <1>5, <1>6, <1>7, <2>1
<1>8. CASE t = o.token_in
  <2> DEFINE ids == Sellers(p, t)
  <2>1. id \in ids /\ ids \ {id} = Sellers(b, t)
    BY <1>1, <1>2, <1>8 DEF Sellers
  <2>2. /\ IsFiniteSet(ids) /\ \A i \in ids : p.orders[i].amount_in_remaining \in Nat
    BY <1>1, SellersFinite
  <2> HIDE DEF ids
  <2>3. Cardinality(Blocks(p.orders, ids))
          = Cardinality(Blocks(p.orders, ids \ {id})) + p.orders[id].amount_in_remaining
    BY <2>1, <2>2, BlocksSplit
  <2>4. Cardinality(Blocks(p.orders, ids)) = b.balance[<<Book, t>>] + o.amount_in
    BY <1>1, <1>2, <1>4, <1>6, <2>1, <2>3
  <2> QED
    BY <1>1, <1>8, <2>4 DEF ids
<1> QED
  BY <1>7, <1>8

(* place_order, and the remainder of match_and_place.                       *)
LEMMA PlaceKeepsBook ==
  ASSUME NEW b, BookInv(b), NEW maker \in Accounts, NEW o \in Terms, CanPlace(b, maker, o)
  PROVE  BookInv(PlaceInner(b, maker, o))
<1> DEFINE p == PlaceInner(b, maker, o)
           id == Len(b.orders) + 1
           n == NewOrder(maker, o)
<1>0. Placed(b, maker, o, p, id) /\ n = NewOrder(maker, o)
  BY PlacedFields
<1> HIDE DEF p, id, n
<1>3. /\ n \in Order /\ n.status = "Open" /\ n.amount_in = n.amount_in_remaining
      /\ n.amount_in \in Nat \ {0}
  <2>1. o.amount_in > 0 /\ o.min_amount_out >= 0 /\ o.amount_in \in Nat \ {0}
    BY PlacedTerms, Zenon
  <2> QED
    BY <1>0, <2>1, NewOrderTyped
<1>1. /\ p \in BookState /\ OrderIds(p) = OrderIds(b) \union {id}
      /\ DOMAIN p.history = OrderIds(p)
      /\ p.orders[id] = n /\ p.history[id] = NoHistory
      /\ \A i \in OrderIds(b) : p.orders[i] = b.orders[i] /\ p.history[i] = b.history[i]
  BY <1>0 DEF Placed
<1>2. IndexesExact(p) /\ EscrowBacked(p)
  BY PlacedIndexes, PlacedEscrow DEF p
<1>4. n.min_amount_out \in Nat
  BY <1>3, OrderFields
<1>5. AccountedFor(n, NoHistory) /\ FloorKept(n, NoHistory)
  BY <1>3, <1>4 DEF AccountedFor, FloorKept, NoHistory
<1>6. \A i \in OrderIds(b) :
        AccountedFor(b.orders[i], b.history[i]) /\ FloorKept(b.orders[i], b.history[i])
  BY DEF BookInv, LifeAccounted, MakerFloor
<1>7. \A i \in OrderIds(p) :
        AccountedFor(p.orders[i], p.history[i]) /\ FloorKept(p.orders[i], p.history[i])
  BY <1>1, <1>5, <1>6
<1>8. LifeAccounted(p) /\ MakerFloor(p)
  BY <1>1, <1>7 DEF LifeAccounted, MakerFloor
<1> QED
  BY <1>1, <1>2, <1>8 DEF BookInv, p

-----------------------------------------------------------------------------
(* The inductive invariant.  A match_and_place that fails puts back the     *)
(* book it started from, so that book has to satisfy everything too.        *)

Inv ==
  /\ OracleTypeOK
  /\ BookInv(book)
  /\ cfg \in Config
  /\ call \in CallState \union {None}
  /\ call # None => BookInv(call.saved)

(* What an open match_and_place knows, and the terms of its remainder.      *)
LEMMA CallFields ==
  ASSUME Inv, ~Idle
  PROVE  /\ call \in CallState /\ call.maker \in Accounts /\ call.terms \in Terms
         /\ call.spent \in Nat /\ BookInv(call.saved)
         /\ Remainder \in Terms
<1>1. call \in CallState /\ BookInv(call.saved)
  BY DEF Inv, Idle
<1>2. call.maker \in Accounts /\ call.terms \in Terms /\ call.spent \in Nat
  BY <1>1 DEF CallState
<1>3. Remainder \in Terms
  <2> DEFINE terms == call.terms
             rest == terms.amount_in - call.spent
  <2>1. terms \in Terms /\ rest \in Int
    BY <1>2 DEF Terms
  <2>2. Remainder = [terms EXCEPT !.amount_in = rest]
    BY DEF Remainder
  <2> HIDE DEF terms, rest
  <2> QED
    BY <2>1, <2>2 DEF Terms
<1> QED
  BY <1>1, <1>2, <1>3

LEMMA InitInv ==
  ASSUME Init
  PROVE  Inv
<1>1. OracleTypeOK
  BY OracleInitTyped DEF Init
<1>2. cfg \in Config /\ call = None
  BY BookAssumption DEF Init, Config
<1>3. /\ book.orders = <<>> /\ book.history = <<>>
      /\ book.index = [p \in Pairs |-> {}]
      /\ book.count = [mp \in Accounts \X Pairs |-> 0]
      /\ book.balance = Funds
      /\ book = [orders |-> book.orders, history |-> book.history, index |-> book.index,
                 count |-> book.count, balance |-> book.balance]
  BY DEF Init
<1>4. /\ OrderIds(book) = {} /\ DOMAIN book.history = {}
      /\ book.orders \in Seq(Order) /\ book.history \in Seq(History)
  BY <1>3
<1>5. book \in BookState
  <2>1. /\ book.index \in [Pairs -> SUBSET Nat]
        /\ book.count \in [Accounts \X Pairs -> Nat] /\ book.balance \in Balances
    BY <1>3, BookAssumption
  <2> QED
    BY <1>3, <1>4, <2>1 DEF BookState
<1>6. LifeAccounted(book) /\ MakerFloor(book)
  BY <1>4 DEF LifeAccounted, MakerFloor
<1>7. Cardinality({}) = 0
  BY FS_EmptySet
<1>8. IndexesExact(book)
  <2>1. SUFFICES ASSUME NEW p \in Pairs
        PROVE /\ book.index[p] = {}
              /\ Cardinality({}) <= MAX_ORDERS_PER_PAIR
              /\ \A maker \in Accounts :
                   /\ book.count[<<maker, p>>] = Cardinality({})
                   /\ book.count[<<maker, p>>] <= MAX_OPEN_PER_MAKER_PAIR
    <3>1. ASSUME NEW p \in Pairs, book.index[p] = {}
          PROVE  /\ {id \in OrderIds(book) : IsOpen(book.orders[id])
                                            /\ Pair(book.orders[id]) = p} = {}
                 /\ \A maker \in Accounts :
                      {id \in book.index[p] : book.orders[id].maker = maker} = {}
      BY <1>4, <3>1
    <3> QED
      BY <2>1, <3>1 DEF IndexesExact
  <2>2. \A maker \in Accounts : book.count[<<maker, p>>] = 0
    BY <1>3
  <2> QED
    BY <1>3, <1>7, <2>2, BookAssumption
<1>9. EscrowBacked(book)
  <2>1. SUFFICES ASSUME NEW t \in Tokens
                 PROVE  book.balance[<<Book, t>>] = Cardinality(EscrowUnits(book, t))
    BY DEF EscrowBacked
  <2>2. EscrowUnits(book, t) = {}
    BY <1>4 DEF EscrowUnits
  <2>3. book.balance[<<Book, t>>] = 0
    BY <1>3, BookAssumption
  <2> QED
    BY <1>7, <2>2, <2>3
<1> QED
  BY <1>1, <1>2, <1>5, <1>6, <1>8, <1>9 DEF Inv, BookInv

(* Outside match_and_place a call changes the book alone.                   *)
LEMMA BookStep ==
  ASSUME Inv, Idle, BookInv(book'), UNCHANGED <<cfg, call, oracleVars>>
  PROVE  Inv'
  BY DEF Inv, Idle, OracleTypeOK, oracleVars

LEMMA PlaceOrderInv ==
  ASSUME Inv, NEW maker \in Accounts, NEW o \in OrderTerms, PlaceOrder(maker, o)
  PROVE  Inv'
<1>1. o \in Terms /\ CanPlace(book, maker, o) /\ BookInv(book)
  BY BookAssumption DEF PlaceOrder, Inv
<1>2. BookInv(PlaceInner(book, maker, o))
  BY <1>1, PlaceKeepsBook
<1> QED
  BY <1>2, BookStep DEF PlaceOrder

LEMMA PartialFillInv ==
  ASSUME Inv, NEW taker \in Accounts, NEW id \in OrderIds(book),
         NEW fill \in Int, NEW out \in Int, PartialFill(taker, id, fill, out)
  PROVE  Inv'
<1>1. CanFill(book, taker, id, fill, out) /\ BookInv(book) /\ cfg.fee \in 0..MAX_FEE
  BY DEF PartialFill, Inv, Config
<1>2. BookInv(FillInner(book, taker, id, fill, out))
  BY <1>1, FillKeepsBook
<1> QED
  BY <1>2, BookStep DEF PartialFill

LEMMA FillOrderInv ==
  ASSUME Inv, NEW taker \in Accounts, NEW id \in OrderIds(book), NEW out \in Int,
         FillOrder(taker, id, out)
  PROVE  Inv'
<1>1. book.orders[id] \in Order
  BY OrderTyped DEF Inv, BookInv
<1>2. book.orders[id].amount_in_remaining \in Int
  BY <1>1 DEF Order
<1> QED
  BY <1>2, PartialFillInv DEF FillOrder

LEMMA CancelOrderInv ==
  ASSUME Inv, NEW id \in OrderIds(book), CancelOrder(id)
  PROVE  Inv'
<1>1. BookInv(Refund(book, id, "Cancelled"))
  BY RefundKeepsBook DEF CancelOrder, Inv
<1> QED
  BY <1>1, BookStep DEF CancelOrder

LEMMA ExpireOrderInv ==
  ASSUME Inv, NEW id \in OrderIds(book), ExpireOrder(id)
  PROVE  Inv'
<1>1. BookInv(Refund(book, id, "Expired"))
  BY RefundKeepsBook DEF ExpireOrder, Inv
<1> QED
  BY <1>1, BookStep DEF ExpireOrder

LEMMA ClaimExpiredTimerInv ==
  ASSUME Inv, NEW id \in OrderIds(book), ClaimExpiredTimer(id)
  PROVE  Inv'
<1>1. BookInv(Claim(book, id))
  BY ClaimKeepsBook DEF ClaimExpiredTimer, Inv
<1> QED
  BY <1>1, BookStep DEF ClaimExpiredTimer

LEMMA MatchBeginInv ==
  ASSUME Inv, NEW maker \in Accounts, NEW o \in MatchTerms, MatchBegin(maker, o)
  PROVE  Inv'
<1>1. o \in Terms /\ BookInv(book) /\ book \in BookState
  BY BookAssumption DEF Inv, BookInv
<1>2. call' = [maker |-> maker, terms |-> o, spent |-> 0, saved |-> book]
      /\ UNCHANGED <<book, cfg, oracleVars>>
  BY DEF MatchBegin
<1>3. call' \in CallState /\ call'.saved = book
  BY <1>1, <1>2 DEF CallState
<1> QED
  BY <1>1, <1>2, <1>3 DEF Inv, OracleTypeOK, oracleVars

LEMMA SpendTyped ==
  ASSUME call \in CallState, NEW out \in Nat, call' = [call EXCEPT !.spent = @ + out]
  PROVE  call' \in CallState /\ call'.saved = call.saved
<1> DEFINE spent == call.spent + out
<1>1. spent \in Nat /\ call' = [call EXCEPT !.spent = spent]
  BY DEF CallState
<1> HIDE DEF spent
<1> QED
  BY <1>1 DEF CallState

LEMMA MatchFillInv ==
  ASSUME Inv, NEW id \in OrderIds(book), NEW fill \in Int, NEW out \in Int,
         MatchFill(id, fill, out)
  PROVE  Inv'
<1>1. /\ ~Idle /\ CanFill(book, call.maker, id, fill, out) /\ out > 0
      /\ book' = FillInner(book, call.maker, id, fill, out)
      /\ call' = [call EXCEPT !.spent = @ + out]
      /\ UNCHANGED <<cfg, oracleVars>>
  BY DEF MatchFill, MatchSpecOK
<1>2. /\ call \in CallState /\ call.maker \in Accounts /\ call.spent \in Nat
      /\ BookInv(call.saved)
  BY <1>1, CallFields
<1>3. BookInv(book')
  <2>1. cfg.fee \in 0..MAX_FEE /\ BookInv(book)
    BY DEF Inv, Config
  <2>2. BookInv(FillInner(book, call.maker, id, fill, out))
    BY <1>1, <1>2, <2>1, FillKeepsBook
  <2> QED
    BY <1>1, <2>2
<1>4. call' \in CallState /\ call'.saved = call.saved
  <2>1. out \in Nat
    BY <1>1
  <2> QED
    BY <1>1, <1>2, <2>1, SpendTyped
<1> QED
  BY <1>1, <1>2, <1>3, <1>4 DEF Inv, OracleTypeOK, oracleVars

LEMMA MatchEndInv ==
  ASSUME Inv, MatchPlace \/ MatchConsumed \/ MatchRevert
  PROVE  Inv'
<1>1. ~Idle /\ call' = None /\ UNCHANGED <<cfg, oracleVars>>
  BY DEF MatchPlace, MatchConsumed, MatchRevert
<1>2. call.maker \in Accounts /\ Remainder \in Terms /\ BookInv(call.saved) /\ BookInv(book)
  BY <1>1, CallFields DEF Inv
<1>3. BookInv(book')
  <2>1. CASE MatchPlace
    <3>1. BookInv(PlaceInner(book, call.maker, Remainder))
      BY <1>2, <2>1, PlaceKeepsBook DEF MatchPlace
    <3> QED
      BY <2>1, <3>1 DEF MatchPlace
  <2>2. CASE MatchConsumed
    BY <1>2, <2>2 DEF MatchConsumed
  <2>3. CASE MatchRevert
    BY <1>2, <2>3 DEF MatchRevert
  <2> QED
    BY <2>1, <2>2, <2>3
<1> QED
  BY <1>1, <1>3 DEF Inv, OracleTypeOK, oracleVars

LEMMA AdminInv ==
  ASSUME Inv,
         \/ \E rate \in FeeRates : SetFee(rate)
         \/ \E token \in Tokens, floor \in MinOrders : SetMinOrder(token, floor)
         \/ SetRouter
  PROVE  Inv'
<1>1. cfg \in Config
  BY DEF Inv
<1>2. ASSUME NEW rate \in FeeRates, SetFee(rate) PROVE cfg' \in Config
  BY <1>1, <1>2 DEF SetFee, Config
<1>3. ASSUME NEW token \in Tokens, NEW floor \in MinOrders, SetMinOrder(token, floor)
      PROVE  cfg' \in Config
  <2> DEFINE floors == [cfg.min_order EXCEPT ![token] = floor]
  <2>1. floor \in Nat
    BY <1>3, BookAssumption DEF SetMinOrder
  <2>2. floors \in [Tokens -> Nat]
    BY <1>1, <2>1 DEF Config
  <2>3. cfg' = [cfg EXCEPT !.min_order = floors]
    BY <1>3 DEF SetMinOrder
  <2> HIDE DEF floors
  <2> QED
    BY <1>1, <2>2, <2>3 DEF Config
<1>4. ASSUME SetRouter PROVE cfg' \in Config
  BY <1>1, <1>4 DEF SetRouter, Config
<1>5. cfg' \in Config /\ UNCHANGED <<book, call, oracleVars>>
  BY <1>2, <1>3, <1>4 DEF SetFee, SetMinOrder, SetRouter
<1> QED
  BY <1>5 DEF Inv, OracleTypeOK, oracleVars

LEMMA NextInv ==
  ASSUME Inv, [Next]_vars
  PROVE  Inv'
<1>1. ASSUME NEW maker \in Accounts, NEW o \in OrderTerms, PlaceOrder(maker, o)
      PROVE  Inv'
  BY <1>1, PlaceOrderInv
<1>2. ASSUME NEW maker \in Accounts, NEW o \in MatchTerms, MatchBegin(maker, o)
      PROVE  Inv'
  BY <1>2, MatchBeginInv
<1>3. ASSUME NEW taker \in Accounts, NEW id \in OrderIds(book), NEW out \in Quantities,
             FillOrder(taker, id, out)
      PROVE  Inv'
  BY <1>3, FillOrderInv, BookAssumption
<1>4. ASSUME NEW taker \in Accounts, NEW id \in OrderIds(book),
             NEW fill \in Quantities, NEW out \in Quantities,
             PartialFill(taker, id, fill, out)
      PROVE  Inv'
  BY <1>4, PartialFillInv, BookAssumption
<1>5. ASSUME NEW id \in OrderIds(book),
             CancelOrder(id) \/ ExpireOrder(id) \/ ClaimExpiredTimer(id)
      PROVE  Inv'
  BY <1>5, CancelOrderInv, ExpireOrderInv, ClaimExpiredTimerInv
<1>6. ASSUME NEW id \in OrderIds(book), NEW fill \in Quantities, NEW out \in Quantities,
             MatchFill(id, fill, out)
      PROVE  Inv'
  BY <1>6, MatchFillInv, BookAssumption
<1>7. ASSUME MatchPlace \/ MatchConsumed \/ MatchRevert
      PROVE  Inv'
  BY <1>7, MatchEndInv
<1>8. ASSUME \/ \E rate \in FeeRates : SetFee(rate)
             \/ \E token \in Tokens, floor \in MinOrders : SetMinOrder(token, floor)
             \/ SetRouter
      PROVE  Inv'
  BY <1>8, AdminInv
<1>9. ASSUME Environment
      PROVE  Inv'
  <2>1. OracleTypeOK'
    BY <1>9, OracleStepTyped DEF Environment, Inv
  <2> QED
    BY <1>9, <2>1 DEF Environment, bookVars, Inv
<1>10. ASSUME UNCHANGED vars
       PROVE  Inv'
  BY <1>10 DEF vars, bookVars, oracleVars, Inv, OracleTypeOK
<1> QED
  BY <1>1, <1>2, <1>3, <1>4, <1>5, <1>6, <1>7, <1>8, <1>9, <1>10 DEF Next

LEMMA SpecInv == Spec => []Inv
<1>1. Init => Inv
  BY InitInv
<1>2. Inv /\ [Next]_vars => Inv'
  BY NextInv
<1> QED
  BY <1>1, <1>2, PTL DEF Spec

-----------------------------------------------------------------------------
(* The theorems                                                             *)

(* Every reachable state of the contract, in any call and after any         *)
(* rollback, holds values of the types lib.rs declares: no amount, balance  *)
(* or counter is ever negative, no price non-positive, no fee above its cap.*)
THEOREM TypesSafe == Spec => []TypeOK
<1>1. Inv => TypeOK
  BY DEF Inv, BookInv, TypeOK
<1> QED
  BY <1>1, SpecInv, PTL

(* close_order_indexes and place_inner keep the pair index and the maker's  *)
(* counter equal to the set of open orders through every path in and out,   *)
(* whatever the caps, so no slot leaks and no cap is exceeded.              *)
THEOREM IndexesSafe == Spec => []BookIndexesExact
<1>1. Inv => BookIndexesExact
  BY DEF Inv, BookInv, BookIndexesExact
<1> QED
  BY <1>1, SpecInv, PTL

(* What the contract holds of a token is exactly what its orders have left, *)
(* for any number of orders, makers and tokens: fill_inner, the refunds and *)
(* the timer claim never take one maker's escrow for another's, and none is *)
(* ever stranded.                                                           *)
THEOREM EscrowSafe == Spec => []BookEscrowBacked
<1>1. Inv => BookEscrowBacked
  BY DEF Inv, BookInv, BookEscrowBacked
<1> QED
  BY <1>1, SpecInv, PTL

(* Every unit an order escrowed is with its takers, its maker, the Router,  *)
(* or still in the order, and the status says which.                        *)
THEOREM LifeSafe == Spec => []BookLifeAccounted
<1>1. Inv => BookLifeAccounted
  BY DEF Inv, BookInv, BookLifeAccounted
<1> QED
  BY <1>1, SpecInv, PTL

(* However partial_fill cuts a fixed-price order up, and however set_fee    *)
(* moves the fee between the cuts, the maker nets its limit price on all    *)
(* that was taken: required_payment's rounding never favours the taker.     *)
THEOREM FloorSafe == Spec => []BookMakerFloor
<1>1. Inv => BookMakerFloor
  BY DEF Inv, BookInv, BookMakerFloor
<1> QED
  BY <1>1, SpecInv, PTL

-----------------------------------------------------------------------------
(* What a call does to the orders and balances it touches                   *)

SameTerms(n, o) ==
  /\ n.maker = o.maker /\ n.token_in = o.token_in /\ n.token_out = o.token_out
  /\ n.min_amount_out = o.min_amount_out /\ n.price_mode = o.price_mode
  /\ n.max_slippage_bps = o.max_slippage_bps
  /\ n.expiry = o.expiry /\ n.auto_route_after = o.auto_route_after
  /\ n.excluded = o.excluded

LEMMA LeftTerms ==
  ASSUME NEW o \in Order, NEW left, NEW status
  PROVE  SameTerms(Left(o, left, status), o)
  BY DEF SameTerms, Left, Order

(* A fill moves the taker's payment and the order's tokens and no other     *)
(* account's holding of the token the order sells.                          *)
Moved(b, o, taker, fill, out, paid) ==
  /\ paid[<<taker, o.token_out>>] = b.balance[<<taker, o.token_out>>] - out
  /\ paid[<<taker, o.token_in>>] = b.balance[<<taker, o.token_in>>] + fill
  /\ \A a \in Accounts \ {taker} :
       paid[<<a, o.token_in>>] = b.balance[<<a, o.token_in>>]

LEMMA SettlementMoves ==
  ASSUME NEW b, b.balance \in Balances, NEW id, NEW taker \in Accounts,
         b.orders[id].maker \in Accounts, taker # b.orders[id].maker,
         b.orders[id].token_in \in Tokens, b.orders[id].token_out \in Tokens,
         b.orders[id].token_in # b.orders[id].token_out,
         NEW fill, fill \in Nat, NEW out, out \in Nat,
         cfg.fee \in Nat, cfg.fee < FEE_DENOMINATOR,
         CanPay(b, taker, b.orders[id].token_out, out),
         CanPay(b, Book, b.orders[id].token_in, fill)
  PROVE  Moved(b, b.orders[id], taker, fill, out, Settlement(b, taker, id, fill, out))
<1> DEFINE paid == Settlement(b, taker, id, fill, out)
           o == b.orders[id]
           maker == o.maker
           in == o.token_in
           to == o.token_out
           fee == CalculateFee(out, cfg.fee, FEE_DENOMINATOR)
           net == out - fee
           first == Transfer(b.balance, to, taker, maker, net)
           second == Transfer(first, to, taker, Vault, fee)
<1>1. /\ taker \in Holders /\ maker \in Holders /\ Vault \in Holders /\ Book \in Holders
      /\ taker # Book /\ maker # Book /\ Vault # Book /\ taker # Vault /\ taker # maker
  BY BookAssumption DEF Holders
<1>2. fee \in Nat /\ net \in Nat /\ net + fee = out
  <2>1. FEE_DENOMINATOR \in Nat
    BY BookAssumption
  <2>2. fee \in 0..out
    BY <2>1, FeeBounds
  <2> HIDE DEF fee
  <2> QED
    BY <2>2
<1>3. /\ first = Transfer(b.balance, to, taker, maker, net)
      /\ second = Transfer(first, to, taker, Vault, fee)
      /\ paid = Transfer(second, in, Book, taker, fill)
  BY DEF Settlement
<1>4. /\ out <= b.balance[<<taker, to>>] /\ fill <= b.balance[<<Book, in>>]
      /\ b.balance[<<taker, to>>] \in Nat /\ b.balance[<<Book, in>>] \in Nat
      /\ b.balance \in Balances /\ in \in Tokens /\ to \in Tokens /\ in # to
  BY <1>1 DEF CanPay, Balances
<1> HIDE DEF paid, o, maker, in, to, fee, net, first, second
<1>5. net <= b.balance[<<taker, to>>]
  BY <1>2, <1>4
<1>6. /\ first \in Balances /\ first[<<taker, to>>] = b.balance[<<taker, to>>] - net
      /\ \A h \in Holders : first[<<h, in>>] = b.balance[<<h, in>>]
  <2>1. first \in Balances
    BY <1>1, <1>2, <1>3, <1>4, <1>5, TransferTyped
  <2>2. first[<<taker, to>>] = b.balance[<<taker, to>>] - net
    BY <1>1, <1>3, <1>4 DEF Transfer, Balances
  <2>3. \A h \in Holders : first[<<h, in>>] = b.balance[<<h, in>>]
    BY <1>1, <1>2, <1>3, <1>4, <1>5, TransferLeaves
  <2> QED
    BY <2>1, <2>2, <2>3
<1>7. fee <= first[<<taker, to>>]
  BY <1>2, <1>4, <1>6
<1>8. /\ second \in Balances /\ second[<<taker, to>>] = first[<<taker, to>>] - fee
      /\ \A h \in Holders : second[<<h, in>>] = first[<<h, in>>]
  <2>1. second \in Balances
    BY <1>1, <1>2, <1>3, <1>4, <1>6, <1>7, TransferTyped
  <2>2. second[<<taker, to>>] = first[<<taker, to>>] - fee
    BY <1>1, <1>3, <1>4, <1>6 DEF Transfer, Balances
  <2>3. \A h \in Holders : second[<<h, in>>] = first[<<h, in>>]
    BY <1>1, <1>2, <1>3, <1>4, <1>6, <1>7, TransferLeaves
  <2> QED
    BY <2>1, <2>2, <2>3
<1>9. fill <= second[<<Book, in>>]
  BY <1>1, <1>4, <1>6, <1>8
<1>10. /\ paid[<<taker, to>>] = second[<<taker, to>>]
       /\ \A a \in Accounts \ {taker} : paid[<<a, in>>] = second[<<a, in>>]
  <2>1. \A a \in Accounts : a \in Holders /\ a # Book
    BY BookAssumption DEF Holders
  <2> QED
    BY <1>1, <1>3, <1>4, <1>8, <1>9, <2>1, TransferLeaves
<1>11. paid[<<taker, to>>] = b.balance[<<taker, to>>] - out
  BY <1>1, <1>2, <1>4, <1>6, <1>8, <1>10
<1>12. \A a \in Accounts \ {taker} : paid[<<a, in>>] = b.balance[<<a, in>>]
  BY <1>6, <1>8, <1>10 DEF Holders
<1>13. paid[<<taker, in>>] = b.balance[<<taker, in>>] + fill
  <2>1. paid[<<taker, in>>] = second[<<taker, in>>] + fill
    BY <1>1, <1>3, <1>4, <1>8 DEF Transfer, Balances
  <2> QED
    BY <1>1, <1>6, <1>8, <2>1
<1> QED
  BY <1>11, <1>12, <1>13 DEF Moved, in, to, o, paid

(* What a fill leaves of the orders, their histories and the accounts.      *)
Filled(b, taker, id, fill, out, p) ==
  LET o == b.orders[id]
      was == b.history[id]
      now == p.history[id]
      net == NetOfFee(out, cfg.fee, FEE_DENOMINATOR)
  IN /\ OrderIds(p) = OrderIds(b)
     /\ fill \in Nat \ {0} /\ out \in Nat /\ net \in Nat
     /\ \A i \in OrderIds(b) : SameTerms(p.orders[i], b.orders[i])
     /\ \A i \in OrderIds(b) \ {id} :
          p.orders[i] = b.orders[i] /\ p.history[i] = b.history[i]
     /\ now.delivered = was.delivered + fill /\ now.received = was.received + net
     /\ now.routed = was.routed
     /\ Moved(b, o, taker, fill, out, p.balance)

LEMMA FillEffect ==
  ASSUME NEW b, BookInv(b), NEW id \in OrderIds(b), NEW taker \in Accounts,
         NEW fill \in Int, NEW out \in Int, cfg.fee \in 0..MAX_FEE,
         b.orders[id].token_in # b.orders[id].token_out,
         CanFill(b, taker, id, fill, out)
  PROVE  Filled(b, taker, id, fill, out, FillInner(b, taker, id, fill, out))
<1> DEFINE p == FillInner(b, taker, id, fill, out)
           net == NetOfFee(out, cfg.fee, FEE_DENOMINATOR)
<1>0. p = FillInner(b, taker, id, fill, out) /\ net = NetOfFee(out, cfg.fee, FEE_DENOMINATOR)
  OBVIOUS
<1> HIDE DEF p, net
<1> DEFINE o == b.orders[id]
           was == b.history[id]
           left == o.amount_in_remaining - fill
           status == IF left = 0 THEN "Filled" ELSE "PartialFill"
           h == Sold(was, fill, net)
           paid == Settlement(b, taker, id, fill, out)
<1>1. /\ IsOpen(o) /\ taker # o.maker /\ fill > 0 /\ out > 0
      /\ fill <= o.amount_in_remaining
      /\ CanPay(b, taker, o.token_out, out) /\ CanPay(b, Book, o.token_in, fill)
  BY DEF CanFill, OpenTo
<1>2. /\ o \in Order /\ was \in History /\ o.amount_in_remaining \in Nat
      /\ o.token_in \in Tokens /\ o.token_out \in Tokens /\ o.maker \in Accounts
  BY <1>1, OpenOrder
<1>3. /\ cfg.fee \in Nat /\ cfg.fee < FEE_DENOMINATOR /\ fill \in Nat \ {0} /\ out \in Nat
      /\ FEE_DENOMINATOR \in Nat
  BY <1>1, BookAssumption
<1>4. net \in Nat
  <2>1. net \in 0..out
    BY <1>0, <1>3, FeeBounds
  <2> QED
    BY <1>3, <2>1
<1>5. left \in Nat /\ status \in Statuses
  <2>1. left \in Nat
    BY <1>1, <1>2, <1>3
  <2> QED
    BY <2>1 DEF Statuses
<1>6. b \in BookState /\ DOMAIN b.history = OrderIds(b) /\ b.balance \in Balances
  BY BookFields DEF BookInv, LifeAccounted
<1>7. p = Updated(b, id, left, status, h, paid)
  BY <1>0, <1>5, <1>6, FillIsUpdate
<1>8. /\ OrderIds(p) = OrderIds(b)
      /\ p.orders[id] = Left(o, left, status) /\ p.history[id] = h
      /\ \A i \in OrderIds(b) \ {id} :
           p.orders[i] = b.orders[i] /\ p.history[i] = b.history[i]
      /\ p.balance = paid
  <2> HIDE DEF left, status, h, paid
  <2> QED
    BY <1>6, <1>7, UpdatedOrders DEF o
<1>9. \A i \in OrderIds(b) : SameTerms(p.orders[i], b.orders[i])
  <2>1. SameTerms(p.orders[id], o)
    BY <1>2, <1>8, LeftTerms
  <2>2. \A i \in OrderIds(b) \ {id} : SameTerms(p.orders[i], b.orders[i])
    BY <1>8 DEF SameTerms
  <2> QED
    BY <2>1, <2>2
<1>10. /\ h.delivered = was.delivered + fill /\ h.received = was.received + net
       /\ h.routed = was.routed
  BY DEF Sold
<1>11. Moved(b, o, taker, fill, out, paid)
  <2>1. fill \in Nat
    BY <1>3
  <2> QED
    BY <1>1, <1>2, <1>3, <1>6, <2>1, SettlementMoves
<1> HIDE DEF paid, h, left, status, o, was
<1> QED
  BY <1>2, <1>3, <1>4, <1>8, <1>9, <1>10, <1>11 DEF Filled, p, net, o, was

(* cancel_order and expire_order give nothing to a taker or to the Router,  *)
(* a timer's claim nothing to a taker.                                      *)
PaidOut(b, id, p) ==
  /\ OrderIds(p) = OrderIds(b)
  /\ \A i \in OrderIds(b) : /\ SameTerms(p.orders[i], b.orders[i])
                            /\ p.history[i].delivered = b.history[i].delivered
                            /\ p.history[i].received = b.history[i].received
                            /\ i # id => p.history[i] = b.history[i]

LEMMA PayoutEffect ==
  ASSUME NEW b, BookInv(b), NEW id \in OrderIds(b), NEW status \in Statuses
  PROVE  /\ PaidOut(b, id, Refund(b, id, status)) /\ PaidOut(b, id, Claim(b, id))
         /\ Refund(b, id, status).history[id].routed = b.history[id].routed
<1> DEFINE o == b.orders[id]
           was == b.history[id]
           rest == o.amount_in_remaining
           refunded == [was EXCEPT !.refunded = rest]
           routed == [was EXCEPT !.routed = rest]
<1>1. b \in BookState /\ DOMAIN b.history = OrderIds(b)
  BY DEF BookInv, LifeAccounted
<1>2. o \in Order /\ was \in History
  BY <1>1, OrderTyped
<1>3. /\ refunded.delivered = was.delivered /\ refunded.received = was.received
      /\ refunded.routed = was.routed
      /\ routed.delivered = was.delivered /\ routed.received = was.received
  BY <1>2 DEF History
<1>4. ASSUME NEW p, NEW left, NEW s, NEW h, NEW paid, p = Updated(b, id, left, s, h, paid),
             h.delivered = was.delivered, h.received = was.received
      PROVE  PaidOut(b, id, p) /\ p.history[id] = h
  <2>1. /\ OrderIds(p) = OrderIds(b)
        /\ p.orders[id] = Left(o, left, s) /\ p.history[id] = h
        /\ \A i \in OrderIds(b) \ {id} :
             p.orders[i] = b.orders[i] /\ p.history[i] = b.history[i]
    BY <1>1, <1>4, UpdatedOrders
  <2>2. SameTerms(p.orders[id], o)
    BY <1>2, <2>1, LeftTerms
  <2>3. \A i \in OrderIds(b) \ {id} : SameTerms(p.orders[i], b.orders[i])
    BY <2>1 DEF SameTerms
  <2> QED
    BY <1>4, <2>1, <2>2, <2>3 DEF PaidOut
<1>5. /\ PaidOut(b, id, Refund(b, id, status))
      /\ Refund(b, id, status).history[id].routed = was.routed
  <2> DEFINE p == Refund(b, id, status)
             paid == Transfer(b.balance, o.token_in, Book, o.maker, rest)
  <2>1. p = Updated(b, id, 0, status, refunded, paid)
    BY <1>1, RefundIsUpdate
  <2> HIDE DEF p, refunded, paid, was
  <2>2. PaidOut(b, id, p) /\ p.history[id] = refunded
    BY <1>3, <1>4, <2>1
  <2> QED
    BY <1>3, <2>2 DEF p
<1>6. PaidOut(b, id, Claim(b, id))
  <2> DEFINE p == Claim(b, id)
             paid == Transfer(b.balance, o.token_in, Book, Router, rest)
  <2>1. p = Updated(b, id, 0, "Routed", routed, paid)
    BY <1>1, ClaimIsUpdate
  <2> HIDE DEF p, routed, paid, was
  <2>2. PaidOut(b, id, p)
    BY <1>3, <1>4, <2>1
  <2> QED
    BY <2>2 DEF p
<1> QED
  BY <1>5, <1>6

(* A placement takes the maker's escrow and moves nothing else.             *)
PlacedBy(b, maker, o, p) ==
  /\ o.amount_in \in Nat \ {0} /\ o.token_in # o.token_out
  /\ OrderIds(p) = OrderIds(b) \union {Len(b.orders) + 1}
  /\ \A i \in OrderIds(b) : p.orders[i] = b.orders[i] /\ p.history[i] = b.history[i]
  /\ p.orders[Len(b.orders) + 1] = NewOrder(maker, o)
  /\ p.balance[<<maker, o.token_in>>] = b.balance[<<maker, o.token_in>>] - o.amount_in
  /\ \A a \in Accounts : p.balance[<<a, o.token_out>>] = b.balance[<<a, o.token_out>>]

LEMMA PlaceEffect ==
  ASSUME NEW b, BookInv(b), NEW maker \in Accounts, NEW o \in Terms, CanPlace(b, maker, o)
  PROVE  PlacedBy(b, maker, o, PlaceInner(b, maker, o))
<1> DEFINE p == PlaceInner(b, maker, o)
<1>0. p = PlaceInner(b, maker, o)
  OBVIOUS
<1> HIDE DEF p
<1>1. Placed(b, maker, o, p, Len(b.orders) + 1)
  BY <1>0, PlacedFields
<1>2. o.amount_in \in Nat \ {0} /\ o.token_in \in Tokens /\ o.token_out \in Tokens
  <2>1. o.amount_in \in Nat \ {0} /\ o.token_in \in Tokens
    BY PlacedTerms, Zenon
  <2> QED
    BY <2>1 DEF Terms
<1>3. o.token_in # o.token_out /\ CanPay(b, maker, o.token_in, o.amount_in)
  BY DEF CanPlace
<1>4. p.balance = Transfer(b.balance, o.token_in, maker, Book, o.amount_in)
  BY <1>0 DEF PlaceInner
<1>5. /\ maker \in Holders /\ Book \in Holders /\ maker # Book
      /\ \A a \in Accounts : a \in Holders
      /\ b.balance \in Balances
  BY BookAssumption, BookFields DEF Holders, BookInv
<1>6. o.amount_in <= b.balance[<<maker, o.token_in>>]
  <2>1. b.balance[<<maker, o.token_in>>] \in Nat
    BY <1>2, <1>5 DEF Balances
  <2> QED
    BY <1>2, <1>3, <2>1 DEF CanPay
<1>7. p.balance[<<maker, o.token_in>>] = b.balance[<<maker, o.token_in>>] - o.amount_in
  BY <1>2, <1>4, <1>5, <1>6 DEF Transfer, Balances
<1>8. \A a \in Accounts : p.balance[<<a, o.token_out>>] = b.balance[<<a, o.token_out>>]
  BY <1>2, <1>3, <1>4, <1>5, <1>6, TransferLeaves
<1> QED
  BY <1>1, <1>2, <1>3, <1>7, <1>8 DEF Placed, PlacedBy, p

-----------------------------------------------------------------------------
(* What a match_and_place in progress has done to the ledger it would be    *)
(* rolled back to: it has spent its caller's tokens and moved its caller's  *)
(* token_out, nobody else's, and every order it took from was still his to  *)
(* take.  No order pairs a token with itself, asks for nothing or gives     *)
(* everything away.                                                         *)

SensibleTerms(o) ==
  /\ o.token_in # o.token_out
  /\ IF o.price_mode = "Fixed" THEN o.min_amount_out > 0
     ELSE o.max_slippage_bps < BPS_DENOMINATOR
Sensible(b) == \A id \in OrderIds(b) : SensibleTerms(b.orders[id])

Took(c, o, was, now) ==
  /\ now.routed = was.routed /\ now.delivered >= was.delivered
  /\ now.delivered > was.delivered =>
       /\ o.token_in = c.terms.token_out /\ seq <= o.expiry
       /\ c.maker \notin o.excluded \union {o.maker}

Underway(c, b) ==
  /\ OrderIds(c.saved) = OrderIds(b)
  /\ c.spent <= c.terms.amount_in
  /\ b.balance[<<c.maker, c.terms.token_in>>]
       = c.saved.balance[<<c.maker, c.terms.token_in>>] - c.spent
  /\ \A a \in Accounts \ {c.maker} : b.balance[<<a, c.terms.token_out>>]
                                          = c.saved.balance[<<a, c.terms.token_out>>]
  /\ \A id \in OrderIds(b) : /\ SameTerms(b.orders[id], c.saved.orders[id])
                              /\ Took(c, c.saved.orders[id], c.saved.history[id],
                                      b.history[id])

CallInv ==
  /\ Sensible(book)
  /\ call # None => Sensible(call.saved) /\ Underway(call, book)

LEMMA CountsTyped ==
  ASSUME NEW b, BookInv(b), NEW id \in OrderIds(b)
  PROVE  /\ b.history[id].delivered \in Nat /\ b.history[id].received \in Nat
         /\ b.history[id].routed \in Nat
  BY OrderTyped DEF BookInv, LifeAccounted, History

LEMMA HoldingTyped ==
  ASSUME NEW b, BookInv(b), NEW a \in Accounts, NEW t \in Tokens
  PROVE  b.balance[<<a, t>>] \in Nat
  BY BookFields DEF BookInv, Balances, Holders

LEMMA SameTermsSensible ==
  ASSUME NEW b, NEW p, Sensible(b), OrderIds(p) = OrderIds(b),
         \A i \in OrderIds(b) : SameTerms(p.orders[i], b.orders[i])
  PROVE  Sensible(p)
  BY DEF Sensible, SensibleTerms, SameTerms

LEMMA PlaceSensible ==
  ASSUME NEW b, BookInv(b), NEW maker \in Accounts, NEW o \in Terms, CanPlace(b, maker, o),
         Sensible(b)
  PROVE  Sensible(PlaceInner(b, maker, o))
<1> DEFINE p == PlaceInner(b, maker, o)
           id == Len(b.orders) + 1
<1>0. PlacedBy(b, maker, o, p)
  BY PlaceEffect
<1>1. /\ o.token_in # o.token_out
      /\ OrderIds(p) = OrderIds(b) \union {id}
      /\ \A i \in OrderIds(b) : p.orders[i] = b.orders[i]
      /\ p.orders[id] = NewOrder(maker, o)
  BY <1>0 DEF PlacedBy
<1> HIDE DEF p, id
<1>2. SensibleTerms(p.orders[id])
  <2>1. /\ p.orders[id].token_in = o.token_in /\ p.orders[id].token_out = o.token_out
        /\ p.orders[id].price_mode = o.price_mode
        /\ p.orders[id].min_amount_out = o.min_amount_out
        /\ p.orders[id].max_slippage_bps = o.max_slippage_bps
    BY <1>1 DEF NewOrder
  <2>2. IF o.price_mode = "Fixed" THEN o.min_amount_out > 0
        ELSE o.max_slippage_bps < BPS_DENOMINATOR
    <3>1. CASE o.price_mode = "Fixed"
      BY <3>1 DEF CanPlace
    <3>2. CASE o.price_mode # "Fixed"
      <4>1. o.max_slippage_bps \in 1..MAX_SLIPPAGE_BPS
        BY <3>2 DEF CanPlace
      <4> QED
        BY <3>2, <4>1, BookAssumption, OracleAssumption
    <3> QED
      BY <3>1, <3>2
  <2> QED
    BY <1>1, <2>1, <2>2 DEF SensibleTerms
<1>3. Sensible(p)
  BY <1>1, <1>2 DEF Sensible
<1> QED
  BY <1>3 DEF p

LEMMA FillSensible ==
  ASSUME NEW b, BookInv(b), NEW id \in OrderIds(b), NEW taker \in Accounts,
         NEW fill \in Int, NEW out \in Int, cfg.fee \in 0..MAX_FEE, Sensible(b),
         CanFill(b, taker, id, fill, out)
  PROVE  Sensible(FillInner(b, taker, id, fill, out))
<1> DEFINE p == FillInner(b, taker, id, fill, out)
<1>1. b.orders[id].token_in # b.orders[id].token_out
  BY DEF Sensible, SensibleTerms
<1>0. Filled(b, taker, id, fill, out, p)
  BY <1>1, FillEffect
<1>2. /\ OrderIds(p) = OrderIds(b)
      /\ \A i \in OrderIds(b) : SameTerms(p.orders[i], b.orders[i])
  BY <1>0 DEF Filled
<1> HIDE DEF p
<1>3. Sensible(p)
  BY <1>2, SameTermsSensible
<1> QED
  BY <1>3 DEF p

LEMMA MatchBeginCall ==
  ASSUME Inv, CallInv, NEW maker \in Accounts, NEW o \in MatchTerms, MatchBegin(maker, o)
  PROVE  CallInv'
<1>1. /\ call' = [maker |-> maker, terms |-> o, spent |-> 0, saved |-> book]
      /\ book' = book /\ seq' = seq /\ o.amount_in > 0
  BY DEF MatchBegin, oracleVars
<1>2. o \in Terms /\ BookInv(book)
  BY BookAssumption DEF Inv
<1>3. o.token_in \in Tokens /\ o.amount_in \in Int
  BY <1>2 DEF Terms
<1>4. /\ call'.saved = book /\ call'.spent = 0 /\ call'.terms = o /\ call'.maker = maker
  BY <1>1
<1>5. book.balance[<<maker, o.token_in>>] \in Nat
  BY <1>2, <1>3, HoldingTyped
<1>6. \A id \in OrderIds(book) : book.history[id].delivered \in Nat
  BY <1>2, CountsTyped
<1>7. Underway(call, book)'
  BY <1>1, <1>3, <1>4, <1>5, <1>6 DEF Underway, Took, SameTerms
<1> QED
  BY <1>1, <1>4, <1>7 DEF CallInv

LEMMA MatchFillCall ==
  ASSUME Inv, CallInv, NEW id \in OrderIds(book), NEW fill \in Int, NEW out \in Int,
         MatchFill(id, fill, out)
  PROVE  CallInv'
<1> DEFINE o == book.orders[id]
           was == call.saved
           terms == call.terms
<1>1. /\ ~Idle /\ CanFill(book, call.maker, id, fill, out) /\ out > 0
      /\ Pair(o) = <<terms.token_out, terms.token_in>>
      /\ call.spent + out <= terms.amount_in
      /\ book' = FillInner(book, call.maker, id, fill, out)
      /\ call' = [call EXCEPT !.spent = @ + out]
      /\ seq' = seq
  BY DEF MatchFill, MatchSpecOK, oracleVars
<1>2. /\ call \in CallState /\ call.maker \in Accounts /\ call.spent \in Nat
      /\ BookInv(was) /\ BookInv(book) /\ cfg.fee \in 0..MAX_FEE
      /\ terms \in Terms
  BY <1>1, CallFields DEF Inv, Config
<1>3. /\ call'.saved = was /\ call'.spent = call.spent + out /\ call'.terms = terms
      /\ call'.maker = call.maker
  BY <1>1, <1>2 DEF CallState
<1>4. /\ o.token_in = terms.token_out /\ o.token_out = terms.token_in
      /\ o.token_in # o.token_out
      /\ Sensible(book) /\ Sensible(was) /\ Underway(call, book)
  BY <1>1 DEF CallInv, Idle, Sensible, SensibleTerms, Pair
<1>a. Filled(book, call.maker, id, fill, out, book')
  BY <1>1, <1>2, <1>4, FillEffect
<1>5. /\ OrderIds(book') = OrderIds(book) /\ fill \in Nat \ {0} /\ out \in Nat
      /\ \A i \in OrderIds(book) : SameTerms(book'.orders[i], book.orders[i])
      /\ \A i \in OrderIds(book) \ {id} : book'.history[i] = book.history[i]
      /\ book'.history[id].delivered = book.history[id].delivered + fill
      /\ book'.history[id].routed = book.history[id].routed
      /\ book'.balance[<<call.maker, terms.token_in>>]
           = book.balance[<<call.maker, terms.token_in>>] - out
      /\ \A a \in Accounts \ {call.maker} :
           book'.balance[<<a, terms.token_out>>] = book.balance[<<a, terms.token_out>>]
  BY <1>4, <1>a DEF Filled, Moved
<1>6. \A i \in OrderIds(book) : SameTerms(book'.orders[i], was.orders[i])
  BY <1>4, <1>5 DEF Underway, SameTerms
<1>7. seq <= o.expiry /\ call.maker \notin o.excluded \union {o.maker}
  BY <1>1 DEF CanFill, OpenTo
<1>8. \A i \in OrderIds(book) : Took(call, was.orders[i], was.history[i], book'.history[i])
  <2>1. \A i \in OrderIds(book) \ {id} :
          Took(call, was.orders[i], was.history[i], book'.history[i])
    BY <1>4, <1>5 DEF Underway
  <2>2. Took(call, was.orders[id], was.history[id], book'.history[id])
    <3>1. Took(call, was.orders[id], was.history[id], book.history[id])
          /\ SameTerms(o, was.orders[id])
      BY <1>4 DEF Underway
    <3>2. was.history[id].delivered \in Nat /\ book.history[id].delivered \in Nat
      BY <1>2, <1>4, CountsTyped DEF Underway
    <3>3. /\ was.orders[id].token_in = terms.token_out /\ seq <= was.orders[id].expiry
          /\ call.maker \notin was.orders[id].excluded \union {was.orders[id].maker}
      BY <1>4, <1>7, <3>1 DEF SameTerms
    <3>4. /\ book'.history[id].routed = was.history[id].routed
          /\ book'.history[id].delivered >= was.history[id].delivered
      BY <1>5, <3>1, <3>2 DEF Took
    <3> QED
      BY <3>3, <3>4 DEF Took
  <2> QED
    BY <2>1, <2>2
<1>9. /\ book'.balance[<<call.maker, terms.token_in>>]
          = was.balance[<<call.maker, terms.token_in>>] - (call.spent + out)
      /\ \A a \in Accounts \ {call.maker} :
           book'.balance[<<a, terms.token_out>>] = was.balance[<<a, terms.token_out>>]
  <2>1. /\ book.balance[<<call.maker, terms.token_in>>]
             = was.balance[<<call.maker, terms.token_in>>] - call.spent
        /\ \A a \in Accounts \ {call.maker} :
             book.balance[<<a, terms.token_out>>] = was.balance[<<a, terms.token_out>>]
    BY <1>4 DEF Underway
  <2>2. was.balance[<<call.maker, terms.token_in>>] \in Nat
    BY <1>2, HoldingTyped DEF Terms
  <2> QED
    BY <1>2, <1>5, <2>1, <2>2
<1>10. Underway(call, book)'
  <2>1. \A i \in OrderIds(book) :
          Took(call', was.orders[i], was.history[i], book'.history[i])
    BY <1>3, <1>8 DEF Took
  <2>2. OrderIds(was) = OrderIds(book) /\ call.spent + out <= terms.amount_in
    BY <1>1, <1>4 DEF Underway
  <2>3. \A i \in OrderIds(book) :
          Took(call, was.orders[i], was.history[i], book.history[i])'
    BY <1>1, <1>3, <2>1 DEF Took
  <2>4. OrderIds(book)' = OrderIds(book) /\ call'.spent <= call'.terms.amount_in
    BY <1>3, <1>5, <2>2
  <2> QED
    BY <1>3, <1>6, <1>9, <2>2, <2>3, <2>4 DEF Underway
<1>11. Sensible(book')
  BY <1>4, <1>5, SameTermsSensible
<1> QED
  BY <1>3, <1>4, <1>10, <1>11 DEF CallInv

LEMMA MatchEndCall ==
  ASSUME Inv, CallInv, MatchPlace \/ MatchConsumed \/ MatchRevert
  PROVE  CallInv'
<1>1. ~Idle /\ call' = None
  BY DEF MatchPlace, MatchConsumed, MatchRevert
<1>2. /\ call.maker \in Accounts /\ Remainder \in Terms /\ BookInv(book)
      /\ Sensible(book) /\ Sensible(call.saved)
  BY <1>1, CallFields DEF Inv, CallInv, Idle
<1>3. Sensible(book')
  <2>1. CASE MatchPlace
    <3>1. CanPlace(book, call.maker, Remainder)
          /\ book' = PlaceInner(book, call.maker, Remainder)
      BY <2>1 DEF MatchPlace
    <3> QED
      BY <1>2, <3>1, PlaceSensible
  <2>2. CASE MatchConsumed
    BY <1>2, <2>2 DEF MatchConsumed
  <2>3. CASE MatchRevert
    BY <1>2, <2>3 DEF MatchRevert
  <2> QED
    BY <2>1, <2>2, <2>3
<1> QED
  BY <1>1, <1>3 DEF CallInv, Sensible

LEMMA PayoutSensible ==
  ASSUME NEW b, Sensible(b), NEW id, NEW p, PaidOut(b, id, p)
  PROVE  Sensible(p)
  BY SameTermsSensible DEF PaidOut

LEMMA NextCall ==
  ASSUME Inv, CallInv, [Next]_vars
  PROVE  CallInv'
<1>0. BookInv(book) /\ Sensible(book) /\ cfg.fee \in 0..MAX_FEE
  BY DEF Inv, CallInv, Config
<1>1. ASSUME Sensible(book'), call' = None
      PROVE  CallInv'
  BY <1>1 DEF CallInv, Sensible
<1>2. ASSUME NEW maker \in Accounts, NEW o \in OrderTerms, PlaceOrder(maker, o)
      PROVE  CallInv'
  <2>1. o \in Terms /\ CanPlace(book, maker, o) /\ call' = None
        /\ book' = PlaceInner(book, maker, o)
    BY <1>2, BookAssumption DEF PlaceOrder, Idle
  <2> QED
    BY <1>0, <1>1, <2>1, PlaceSensible
<1>3. ASSUME NEW taker \in Accounts, NEW id \in OrderIds(book),
             NEW fill \in Int, NEW out \in Int, PartialFill(taker, id, fill, out)
      PROVE  CallInv'
  <2>1. /\ CanFill(book, taker, id, fill, out) /\ call' = None
        /\ book' = FillInner(book, taker, id, fill, out)
    BY <1>3 DEF PartialFill, Idle
  <2> QED
    BY <1>0, <1>1, <2>1, FillSensible
<1>4. ASSUME NEW taker \in Accounts, NEW id \in OrderIds(book), NEW out \in Int,
             FillOrder(taker, id, out)
      PROVE  CallInv'
  <2>1. book.orders[id].amount_in_remaining \in Int
    <3>1. book.orders[id] \in Order
      BY <1>0, OrderTyped DEF BookInv
    <3> QED
      BY <3>1 DEF Order
  <2> QED
    BY <1>3, <1>4, <2>1 DEF FillOrder
<1>5. ASSUME NEW id \in OrderIds(book), CancelOrder(id) \/ ExpireOrder(id)
      PROVE  CallInv'
  <2>1. PICK status \in Statuses : book' = Refund(book, id, status)
    BY <1>5 DEF CancelOrder, ExpireOrder, Statuses
  <2>2. call' = None
    BY <1>5 DEF CancelOrder, ExpireOrder, Idle
  <2> QED
    BY <1>0, <1>1, <2>1, <2>2, PayoutEffect, PayoutSensible
<1>6. ASSUME NEW id \in OrderIds(book), ClaimExpiredTimer(id)
      PROVE  CallInv'
  <2>1. book' = Claim(book, id) /\ call' = None /\ "Routed" \in Statuses
    BY <1>6 DEF ClaimExpiredTimer, Idle, Statuses
  <2> QED
    BY <1>0, <1>1, <2>1, PayoutEffect, PayoutSensible
<1>7. ASSUME UNCHANGED <<book, call, seq>>
      PROVE  CallInv'
  BY <1>7 DEF CallInv, Sensible, Underway, Took
<1>8. ASSUME Idle, UNCHANGED <<book, call>>
      PROVE  CallInv'
  BY <1>0, <1>1, <1>8 DEF Idle
<1>9. CASE MatchPlace \/ MatchConsumed \/ MatchRevert
  BY <1>9, MatchEndCall
<1>10. ASSUME NEW maker \in Accounts, NEW o \in MatchTerms, MatchBegin(maker, o)
       PROVE  CallInv'
  BY <1>10, MatchBeginCall
<1>11. ASSUME NEW id \in OrderIds(book), NEW fill \in Int, NEW out \in Int,
              MatchFill(id, fill, out)
       PROVE  CallInv'
  BY <1>11, MatchFillCall
<1>12. CASE \/ \E rate \in FeeRates : SetFee(rate)
            \/ \E token \in Tokens, floor \in MinOrders : SetMinOrder(token, floor)
            \/ SetRouter \/ Environment
  BY <1>8, <1>12 DEF SetFee, SetMinOrder, SetRouter, Environment, bookVars
<1>13. CASE UNCHANGED vars
  BY <1>7, <1>13 DEF vars, bookVars, oracleVars
<1> QED
  BY <1>2, <1>3, <1>4, <1>5, <1>6, <1>9, <1>10, <1>11, <1>12, <1>13, BookAssumption DEF Next

LEMMA SpecCall == Spec => [](Inv /\ CallInv)
<1>1. Init => Inv /\ CallInv
  <2> SUFFICES ASSUME Init PROVE Inv /\ CallInv
    OBVIOUS
  <2>1. book.orders = <<>> /\ call = None
    BY DEF Init
  <2> QED
    BY <2>1, InitInv DEF CallInv, Sensible
<1>2. Inv /\ CallInv /\ [Next]_vars => (Inv /\ CallInv)'
  BY NextInv, NextCall
<1> QED
  BY <1>1, <1>2, PTL DEF Spec

-----------------------------------------------------------------------------
(* Steps                                                                    *)

LEMMA RemainderTerms ==
  ASSUME Inv, ~Idle
  PROVE  /\ Remainder.token_in = call.terms.token_in
         /\ Remainder.token_out = call.terms.token_out
         /\ Remainder.amount_in = call.terms.amount_in - call.spent
         /\ call.terms.amount_in \in Int /\ call.spent \in Nat
<1>1. call.terms \in Terms /\ call.spent \in Nat
  BY CallFields
<1> QED
  BY <1>1 DEF Remainder, Terms

LEMMA CommittedInv ==
  ASSUME Inv
  PROVE  BookInv(Committed)
  BY DEF Inv, Committed, Idle

(* A step after which no order has given anything to a taker or the Router. *)
LEMMA QuietExit ==
  ASSUME Inv, NEW id \in OrderIds(Committed),
         Committed'.history[id].delivered = Committed.history[id].delivered,
         Committed'.history[id].routed = Committed.history[id].routed
  PROVE  ExitAllowed(id)
<1>1. BookInv(Committed)
  BY CommittedInv
<1>2. /\ Committed.history[id].delivered \in Nat
      /\ Committed.history[id].routed \in Nat
  BY <1>1, CountsTyped
<1> QED
  BY <1>2 DEF ExitAllowed

Exits == \A id \in OrderIds(Committed) : ExitAllowed(id)

LEMMA QuietExits ==
  ASSUME Inv,
         \A id \in OrderIds(Committed) :
           Committed'.history[id] = Committed.history[id]
  PROVE  Exits
  BY QuietExit DEF Exits

LEMMA FillExits ==
  ASSUME Inv, CallInv, NEW taker \in Accounts, NEW id \in OrderIds(book),
         NEW fill \in Int, NEW out \in Int, PartialFill(taker, id, fill, out)
  PROVE  Exits
<1> DEFINE o == book.orders[id]
<1>1. /\ Idle /\ CanFill(book, taker, id, fill, out) /\ call' = call
      /\ book' = FillInner(book, taker, id, fill, out)
  BY DEF PartialFill
<1>2. Committed = book /\ Committed' = book'
  BY <1>1 DEF Committed, Idle
<1>3. BookInv(book) /\ cfg.fee \in 0..MAX_FEE /\ o.token_in # o.token_out
  BY DEF Inv, Config, CallInv, Sensible, SensibleTerms
<1>4. Filled(book, taker, id, fill, out, book')
  BY <1>1, <1>3, FillEffect
<1>5. \A i \in OrderIds(book) \ {id} : ExitAllowed(i)
  <2>1. \A i \in OrderIds(book) \ {id} : book'.history[i] = book.history[i]
    BY <1>4 DEF Filled
  <2> QED
    BY <1>2, <2>1, QuietExit
<1>6. ExitAllowed(id)
  <2>1. /\ seq <= o.expiry /\ taker \notin o.excluded \union {o.maker}
    BY <1>1 DEF CanFill, OpenTo
  <2>2. /\ o.maker \in Accounts /\ o.token_in \in Tokens /\ o.excluded \in SUBSET Accounts
    BY <1>3, OrderTyped DEF BookInv, Order
  <2>3. \A a \in o.excluded \union {o.maker} :
          book'.balance[<<a, o.token_in>>] = book.balance[<<a, o.token_in>>]
    BY <1>4, <2>1, <2>2 DEF Filled, Moved
  <2>4. \A a \in o.excluded \union {o.maker} : Gain(a, o.token_in) <= 0
    <3>1. \A a \in Accounts : book.balance[<<a, o.token_in>>] \in Nat
      BY <1>3, <2>2, HoldingTyped
    <3> QED
      BY <1>2, <2>2, <2>3, <3>1 DEF Gain
  <2>5. book'.history[id].routed = book.history[id].routed
        /\ book.history[id].routed \in Nat
    BY <1>3, <1>4, CountsTyped DEF Filled
  <2> QED
    BY <1>2, <2>1, <2>4, <2>5 DEF ExitAllowed
<1> QED
  BY <1>2, <1>5, <1>6 DEF Exits

LEMMA PayoutExits ==
  ASSUME Inv, NEW id \in OrderIds(book),
         CancelOrder(id) \/ ExpireOrder(id) \/ ClaimExpiredTimer(id)
  PROVE  Exits
<1> DEFINE o == book.orders[id]
<1>1. Committed = book /\ Committed' = book' /\ BookInv(book)
  BY DEF CancelOrder, ExpireOrder, ClaimExpiredTimer, Committed, Idle, Inv
<1>2. PaidOut(book, id, book')
      /\ (~ClaimExpiredTimer(id) => book'.history[id].routed = book.history[id].routed)
  <2>1. CASE CancelOrder(id) \/ ExpireOrder(id)
    <3>1. PICK status \in Statuses : book' = Refund(book, id, status)
      BY <2>1 DEF CancelOrder, ExpireOrder, Statuses
    <3> QED
      BY <1>1, <3>1, PayoutEffect
  <2>2. CASE ClaimExpiredTimer(id)
    <3>1. book' = Claim(book, id) /\ "Routed" \in Statuses
      BY <2>2 DEF ClaimExpiredTimer, Statuses
    <3> QED
      BY <1>1, <2>2, <3>1, PayoutEffect
  <2> QED
    BY <2>1, <2>2
<1>3. \A i \in OrderIds(book) \ {id} : ExitAllowed(i)
  <2>1. \A i \in OrderIds(book) \ {id} : book'.history[i] = book.history[i]
    BY <1>2 DEF PaidOut
  <2> QED
    BY <1>1, <2>1, QuietExit
<1>4. book'.history[id].delivered = book.history[id].delivered
  BY <1>2 DEF PaidOut
<1>5. ExitAllowed(id)
  <2>1. CASE ClaimExpiredTimer(id)
    <3>1. seq > o.auto_route_after /\ o.auto_route_after > 0 /\ seq <= o.expiry
      BY <2>1 DEF ClaimExpiredTimer, CanClaim
    <3>2. book.history[id].delivered \in Nat
      BY <1>1, CountsTyped
    <3> QED
      BY <1>1, <1>4, <3>1, <3>2 DEF ExitAllowed
  <2>2. CASE ~ClaimExpiredTimer(id)
    BY <1>1, <1>2, <1>4, <2>2, QuietExit
  <2> QED
    BY <2>1, <2>2
<1> QED
  BY <1>1, <1>3, <1>5 DEF Exits

(* What a match_and_place commits is what its fills took, whether or not a  *)
(* remainder is placed after them.                                          *)
LEMMA CommitExits ==
  ASSUME Inv, CallInv, ~Idle, Idle',
         \A i \in OrderIds(book) : book'.history[i] = book.history[i],
         \A a \in Accounts : book'.balance[<<a, call.terms.token_out>>]
                                = book.balance[<<a, call.terms.token_out>>]
  PROVE  Exits
<1> DEFINE s == call.saved
           out == call.terms.token_out
<1>1. Committed = s /\ Committed' = book'
  BY DEF Committed
<1>2. /\ BookInv(s) /\ BookInv(book) /\ Underway(call, book) /\ OrderIds(s) = OrderIds(book)
      /\ call.maker \in Accounts /\ out \in Tokens
  <2>1. call.maker \in Accounts /\ call.terms \in Terms /\ BookInv(s)
    BY CallFields
  <2> QED
    BY <2>1 DEF Inv, CallInv, Idle, Underway, Terms
<1>3. \A a \in Accounts \ {call.maker} : book'.balance[<<a, out>>] = s.balance[<<a, out>>]
  BY <1>2 DEF Underway
<1>4. ASSUME NEW id \in OrderIds(book) PROVE ExitAllowed(id)
  <2> DEFINE o == s.orders[id]
             was == s.history[id]
             now == book'.history[id]
  <2>1. Took(call, o, was, now)
    BY <1>2, <1>4 DEF Underway
  <2>2. was.delivered \in Nat /\ was.routed \in Nat
    BY <1>2, <1>4, CountsTyped
  <2>3. o.maker \in Accounts /\ o.excluded \in SUBSET Accounts
    BY <1>2, <1>4, OrderTyped DEF BookInv, Order
  <2>4. ASSUME now.delivered > was.delivered
        PROVE  seq <= o.expiry /\ \A a \in o.excluded \union {o.maker} : Gain(a, o.token_in) <= 0
    <3>1. /\ o.token_in = out /\ seq <= o.expiry
          /\ call.maker \notin o.excluded \union {o.maker}
      BY <2>1, <2>4 DEF Took
    <3>2. ASSUME NEW a \in o.excluded \union {o.maker}
          PROVE  Gain(a, o.token_in) <= 0
      <4>1. a \in Accounts /\ a # call.maker
        BY <2>3, <3>1, <3>2
      <4>2. book'.balance[<<a, out>>] = s.balance[<<a, out>>] /\ s.balance[<<a, out>>] \in Nat
        BY <1>2, <1>3, <4>1, HoldingTyped
      <4> QED
        BY <1>1, <3>1, <4>2 DEF Gain
    <3> QED
      BY <3>1, <3>2
  <2>5. now.routed = was.routed
    BY <2>1 DEF Took
  <2> QED
    BY <1>1, <2>2, <2>4, <2>5 DEF ExitAllowed
<1> QED
  BY <1>1, <1>2, <1>4 DEF Exits

LEMMA MatchEndExits ==
  ASSUME Inv, CallInv, MatchPlace \/ MatchConsumed \/ MatchRevert
  PROVE  Exits
<1>1. ~Idle /\ Idle'
  BY DEF MatchPlace, MatchConsumed, MatchRevert, Idle
<1>2. CASE MatchPlace
  <2>1. /\ CanPlace(book, call.maker, Remainder) /\ BookInv(book)
        /\ call.maker \in Accounts /\ Remainder \in Terms
        /\ book' = PlaceInner(book, call.maker, Remainder)
    BY <1>1, <1>2, CallFields DEF MatchPlace, Inv
  <2>2. PlacedBy(book, call.maker, Remainder, book')
    BY <2>1, PlaceEffect
  <2>3. Remainder.token_out = call.terms.token_out
    BY RemainderTerms, <1>1
  <2> QED
    BY <1>1, <2>2, <2>3, CommitExits DEF PlacedBy
<1>3. CASE MatchConsumed
  BY <1>1, <1>3, CommitExits DEF MatchConsumed
<1>4. CASE MatchRevert
  <2>1. Committed' = Committed
    BY <1>1, <1>4 DEF MatchRevert, Committed
  <2> QED
    BY <2>1, QuietExits
<1> QED
  BY <1>2, <1>3, <1>4

LEMMA FillOrderIsPartial ==
  ASSUME Inv, NEW taker \in Accounts, NEW id \in OrderIds(book), NEW out \in Int,
         FillOrder(taker, id, out)
  PROVE  \E fill \in Int : PartialFill(taker, id, fill, out)
<1>1. book.orders[id] \in Order
  BY OrderTyped DEF Inv, BookInv
<1>2. book.orders[id].amount_in_remaining \in Int
  BY <1>1 DEF Order
<1> QED
  BY <1>2 DEF FillOrder

LEMMA CallBegins ==
  ASSUME Inv, NEW maker \in Accounts, NEW o \in MatchTerms, MatchBegin(maker, o)
  PROVE  Committed' = Committed
<1>1. Idle /\ book' = book /\ call'.saved = book
  BY DEF MatchBegin
<1> QED
  BY <1>1 DEF Committed

LEMMA CallGoesOn ==
  ASSUME Inv, NEW id \in OrderIds(book), NEW fill \in Int, NEW out \in Int,
         MatchFill(id, fill, out)
  PROVE  ~Idle /\ ~Idle' /\ Committed' = Committed
<1>1. /\ ~Idle /\ out > 0 /\ call' = [call EXCEPT !.spent = @ + out]
  BY DEF MatchFill, MatchSpecOK
<1>2. call \in CallState /\ out \in Nat
  BY <1>1, CallFields
<1>3. call' \in CallState /\ call'.saved = call.saved
  BY <1>1, <1>2, SpendTyped
<1>4. ~Idle'
  BY <1>3, CallAssumption DEF Idle
<1> QED
  BY <1>1, <1>3, <1>4 DEF Committed

LEMMA ExitsStep ==
  ASSUME Inv, CallInv, [Next]_vars
  PROVE  Exits
<1>1. ASSUME Committed' = Committed PROVE Exits
  BY <1>1, QuietExits
<1>2. ASSUME NEW maker \in Accounts, NEW o \in OrderTerms, PlaceOrder(maker, o)
      PROVE  Exits
  <2>1. /\ o \in Terms /\ CanPlace(book, maker, o) /\ BookInv(book)
        /\ Committed = book /\ Committed' = book'
        /\ book' = PlaceInner(book, maker, o)
    BY <1>2, BookAssumption DEF PlaceOrder, Idle, Committed, Inv
  <2>2. PlacedBy(book, maker, o, book')
    BY <2>1, PlaceEffect
  <2> QED
    BY <2>1, <2>2, QuietExits DEF PlacedBy
<1>3. ASSUME NEW taker \in Accounts, NEW id \in OrderIds(book), NEW out \in Int,
             FillOrder(taker, id, out) \/ \E fill \in Int : PartialFill(taker, id, fill, out)
      PROVE  Exits
  BY <1>3, FillExits, FillOrderIsPartial
<1>4. ASSUME NEW id \in OrderIds(book),
             CancelOrder(id) \/ ExpireOrder(id) \/ ClaimExpiredTimer(id)
      PROVE  Exits
  BY <1>4, PayoutExits
<1>5. CASE MatchPlace \/ MatchConsumed \/ MatchRevert
  BY <1>5, MatchEndExits
<1>6. ASSUME NEW maker \in Accounts, NEW o \in MatchTerms, MatchBegin(maker, o)
      PROVE  Exits
  BY <1>1, <1>6, CallBegins
<1>7. ASSUME NEW id \in OrderIds(book), NEW fill \in Int, NEW out \in Int,
             MatchFill(id, fill, out)
      PROVE  Exits
  BY <1>1, <1>7, CallGoesOn
<1>8. CASE \/ \E rate \in FeeRates : SetFee(rate)
           \/ \E token \in Tokens, floor \in MinOrders : SetMinOrder(token, floor)
           \/ SetRouter \/ Environment \/ UNCHANGED vars
  <2>1. UNCHANGED <<book, call>>
    BY <1>8 DEF SetFee, SetMinOrder, SetRouter, Environment, bookVars, vars
  <2> QED
    BY <1>1, <2>1 DEF Committed, Idle
<1> QED
  BY <1>2, <1>3, <1>4, <1>5, <1>6, <1>7, <1>8, BookAssumption DEF Next

LEMMA CostStep ==
  ASSUME Inv, CallInv, [Next]_vars, ~Idle, Idle'
  PROVE  MatchCost
<1> DEFINE s == call.saved
           in == call.terms.token_in
<1>1. /\ Underway(call, book) /\ BookInv(s) /\ BookInv(book) /\ call.maker \in Accounts
      /\ in \in Tokens /\ Committed = s /\ Committed' = book'
  <2>1. call.terms \in Terms /\ call.maker \in Accounts /\ BookInv(s)
    BY CallFields
  <2> QED
    BY <2>1 DEF CallInv, Inv, Idle, Terms, Committed
<1>2. /\ s.balance[<<call.maker, in>>] \in Nat /\ book.balance[<<call.maker, in>>] \in Nat
      /\ book.balance[<<call.maker, in>>] = s.balance[<<call.maker, in>>] - call.spent
      /\ call.spent <= call.terms.amount_in
  BY <1>1, HoldingTyped DEF Underway
<1>3. CASE MatchPlace
  <2>1. /\ CanPlace(book, call.maker, Remainder) /\ Remainder \in Terms
        /\ book' = PlaceInner(book, call.maker, Remainder)
    BY <1>3, CallFields DEF MatchPlace
  <2>2. PlacedBy(book, call.maker, Remainder, book')
    BY <1>1, <2>1, PlaceEffect
  <2>3. book'.balance[<<call.maker, in>>]
          = book.balance[<<call.maker, in>>] - (call.terms.amount_in - call.spent)
    BY <2>2, RemainderTerms DEF PlacedBy
  <2> QED
    BY <1>1, <1>2, <2>3, RemainderTerms DEF MatchCost, Gain
<1>4. CASE MatchConsumed
  <2>1. book' = book /\ Remainder.amount_in <= 0
    BY <1>4 DEF MatchConsumed
  <2> QED
    BY <1>1, <1>2, <2>1, RemainderTerms DEF MatchCost, Gain
<1>5. CASE MatchRevert
  <2>1. Committed' = Committed
    BY <1>1, <1>5 DEF MatchRevert
  <2> QED
    BY <1>1, <1>2, <2>1 DEF MatchCost, Gain
<1>6. MatchPlace \/ MatchConsumed \/ MatchRevert
  <2>1. ASSUME NEW id \in OrderIds(book), NEW fill \in Int, NEW out \in Int,
               MatchFill(id, fill, out)
        PROVE  FALSE
    BY <2>1, CallGoesOn
  <2>2. ~UNCHANGED vars /\ call' # call
    BY DEF vars, bookVars, Idle
  <2> QED
    BY <2>1, <2>2, BookAssumption
       DEF Next, PlaceOrder, MatchBegin, FillOrder, PartialFill, CancelOrder, ExpireOrder,
           ClaimExpiredTimer, SetFee, SetMinOrder, SetRouter, Environment
<1> QED
  BY <1>3, <1>4, <1>5, <1>6

-----------------------------------------------------------------------------
(* What a fill pays                                                         *)

Pegged == \A id \in OrderIds(book) : PeggedFill(id)

LEMMA QuietPegged ==
  ASSUME Inv, NEW id \in OrderIds(book),
         book'.history[id].delivered \in Nat,
         book'.history[id].delivered <= book.history[id].delivered
  PROVE  PeggedFill(id)
<1>1. book.history[id].delivered \in Nat
  BY CountsTyped DEF Inv
<1> QED
  BY <1>1 DEF PeggedFill

LEMMA QuietPegs ==
  ASSUME Inv, \A id \in OrderIds(book) : book'.history[id] = book.history[id]
  PROVE  Pegged
<1>1. \A id \in OrderIds(book) : book.history[id].delivered \in Nat
  BY CountsTyped DEF Inv
<1> QED
  BY <1>1, QuietPegged DEF Pegged

LEMMA FillPegged ==
  ASSUME Inv, CallInv, NEW taker \in Accounts, NEW id \in OrderIds(book),
         NEW fill \in Int, NEW out \in Int, CanFill(book, taker, id, fill, out),
         book' = FillInner(book, taker, id, fill, out)
  PROVE  Pegged
<1> DEFINE o == book.orders[id]
           net == NetOfFee(out, cfg.fee, FEE_DENOMINATOR)
           price == ReadOracle(o.token_in, o.token_out)
<1>1. /\ BookInv(book) /\ cfg.fee \in 0..MAX_FEE /\ o.token_in # o.token_out
      /\ OracleTypeOK
  BY DEF Inv, Config, CallInv, Sensible, SensibleTerms
<1>2. Filled(book, taker, id, fill, out, book')
  BY <1>1, FillEffect
<1>3. \A i \in OrderIds(book) \ {id} : PeggedFill(i)
  <2>1. \A i \in OrderIds(book) : book.history[i].delivered \in Nat
    BY <1>1, CountsTyped
  <2>2. \A i \in OrderIds(book) \ {id} : book'.history[i] = book.history[i]
    BY <1>2 DEF Filled
  <2> QED
    BY <2>1, <2>2, QuietPegged
<1>4. /\ fill \in Nat /\ net \in Nat
      /\ book'.history[id].delivered - book.history[id].delivered = fill
      /\ book'.history[id].received - book.history[id].received = net
  <2>1. book.history[id].delivered \in Nat /\ book.history[id].received \in Nat
    BY <1>1, CountsTyped
  <2> QED
    BY <1>2, <2>1 DEF Filled
<1>5. ASSUME o.price_mode = "Oracle"
      PROVE  (net + 1) * price.den * BPS_DENOMINATOR
               > fill * price.num * (BPS_DENOMINATOR - o.max_slippage_bps)
  <2>1. HasPrice(o.token_in, o.token_out) /\ net >= RequiredPayment(o, fill)
    BY <1>5 DEF CanFill, Priced
  <2>2. o.token_in \in Tokens /\ o.token_out \in Tokens /\ o.max_slippage_bps \in Nat
    BY <1>1, OrderTyped DEF BookInv, Order
  <2>3. price.num \in Nat /\ price.den \in Nat \ {0}
    BY <1>1, <2>1, <2>2, PricePositive
  <2>4. net >= MulDivCeil(MulDivFloor(fill, price.num, price.den),
                          BPS_DENOMINATOR - o.max_slippage_bps, BPS_DENOMINATOR)
    BY <1>5, <2>1 DEF RequiredPayment
  <2>5. BPS_DENOMINATOR \in Nat \ {0}
    BY OracleAssumption
  <2> HIDE DEF price, net, o
  <2> QED
    BY <1>4, <2>2, <2>3, <2>4, <2>5, PeggedFloor
<1>6. PeggedFill(id)
  BY <1>4, <1>5 DEF PeggedFill
<1> QED
  BY <1>3, <1>6 DEF Pegged

LEMMA PeggedStep ==
  ASSUME Inv, CallInv, [Next]_vars
  PROVE  Pegged
<1>1. ASSUME book' = book PROVE Pegged
  BY <1>1, QuietPegs
<1>2. ASSUME NEW maker \in Accounts, NEW o \in Terms, CanPlace(book, maker, o),
             book' = PlaceInner(book, maker, o)
      PROVE  Pegged
  <2>1. PlacedBy(book, maker, o, book')
    BY <1>2, PlaceEffect DEF Inv
  <2> QED
    BY <2>1, QuietPegs DEF PlacedBy
<1>3. CASE \E maker \in Accounts, o \in OrderTerms : PlaceOrder(maker, o)
  BY <1>2, <1>3, BookAssumption DEF PlaceOrder
<1>4. CASE MatchPlace
  <2>1. call.maker \in Accounts /\ Remainder \in Terms
    BY <1>4, CallFields DEF MatchPlace
  <2> QED
    BY <1>2, <1>4, <2>1 DEF MatchPlace
<1>5. ASSUME NEW taker \in Accounts, NEW id \in OrderIds(book), NEW out \in Int,
             FillOrder(taker, id, out) \/ \E fill \in Int : PartialFill(taker, id, fill, out)
      PROVE  Pegged
  <2>1. PICK fill \in Int : PartialFill(taker, id, fill, out)
    BY <1>5, FillOrderIsPartial
  <2> QED
    BY <2>1, FillPegged DEF PartialFill
<1>6. ASSUME NEW id \in OrderIds(book), NEW fill \in Int, NEW out \in Int,
             MatchFill(id, fill, out)
      PROVE  Pegged
  <2>1. call.maker \in Accounts
    BY <1>6, CallFields DEF MatchFill
  <2> QED
    BY <1>6, <2>1, FillPegged DEF MatchFill, MatchSpecOK
<1>7. ASSUME NEW id \in OrderIds(book),
             CancelOrder(id) \/ ExpireOrder(id) \/ ClaimExpiredTimer(id)
      PROVE  Pegged
  <2>1. PaidOut(book, id, book')
    <3>1. PICK status \in Statuses :
            book' = Refund(book, id, status) \/ book' = Claim(book, id)
      BY <1>7 DEF CancelOrder, ExpireOrder, ClaimExpiredTimer, Statuses
    <3> QED
      BY <3>1, PayoutEffect DEF Inv
  <2>2. \A i \in OrderIds(book) : /\ book'.history[i].delivered = book.history[i].delivered
                                  /\ book.history[i].delivered \in Nat
    BY <2>1, CountsTyped DEF PaidOut, Inv
  <2> QED
    BY <2>2, QuietPegged DEF Pegged
<1>8. CASE MatchRevert
  <2>1. /\ book' = call.saved /\ Underway(call, book) /\ BookInv(call.saved)
    BY <1>8, CallFields DEF MatchRevert, CallInv, Idle
  <2>2. \A i \in OrderIds(book) :
          /\ call.saved.history[i].delivered \in Nat
          /\ call.saved.history[i].delivered <= book.history[i].delivered
    BY <2>1, CountsTyped DEF Underway, Took
  <2> QED
    BY <2>1, <2>2, QuietPegged DEF Pegged
<1>9. CASE \/ \E maker \in Accounts, o \in MatchTerms : MatchBegin(maker, o)
           \/ \E rate \in FeeRates : SetFee(rate)
           \/ \E token \in Tokens, floor \in MinOrders : SetMinOrder(token, floor)
           \/ SetRouter \/ Environment \/ MatchConsumed \/ UNCHANGED vars
  BY <1>1, <1>9 DEF MatchBegin, SetFee, SetMinOrder, SetRouter, Environment, MatchConsumed,
                    bookVars, vars
<1> QED
  BY <1>3, <1>4, <1>5, <1>6, <1>7, <1>8, <1>9, BookAssumption DEF Next

-----------------------------------------------------------------------------
(* The theorems about steps                                                 *)

(* Whichever path takes from an order, direct or through match_and_place    *)
(* (committed or rolled back), it does so before expiry, nothing reaches an *)
(* account the maker excluded, and the Router takes only in its window.     *)
THEOREM ExitsSafe == Spec => ExitsAllowed
<1>1. Inv /\ CallInv /\ [Next]_vars => [\A id \in OrderIds(Committed) : ExitAllowed(id)]_vars
  BY ExitsStep DEF Exits
<1> QED
  BY <1>1, SpecCall, PTL DEF Spec, ExitsAllowed

(* However many orders match_and_place takes from and whatever it leaves on *)
(* the book, its caller is charged the amount named; when it fails, nothing.*)
THEOREM MatchCostSafe == Spec => MatchCostsItsBudget
<1>1. Inv /\ CallInv /\ [Next]_vars => [(~Idle /\ Idle') => MatchCost]_vars
  BY CostStep
<1> QED
  BY <1>1, SpecCall, PTL DEF Spec, MatchCostsItsBudget

(* required_payment's two roundings cost a pegged order's maker less than a *)
(* unit, for every price, fill, fee and tolerance.                          *)
THEOREM PeggedSafe == Spec => PeggedFloorWithinAUnit
<1>1. Inv /\ CallInv /\ [Next]_vars => [\A id \in OrderIds(book) : PeggedFill(id)]_vars
  BY PeggedStep DEF Pegged
<1> QED
  BY <1>1, SpecCall, PTL DEF Spec, PeggedFloorWithinAUnit

-----------------------------------------------------------------------------
(* Quotes.  What quote_fill takes of one order is a fill the book accepts.  *)

LEMMA MaxInside ==
  ASSUME NEW n \in Nat, NEW S, S \subseteq 0..n, S # {}
  PROVE  Max(S) \in S /\ \A y \in S : Max(S) >= y
<1> DEFINE T == {i \in 0..n : n - i \in S}
<1>1. T \subseteq Nat /\ T # {}
  <2>1. PICK x \in S : x \in 0..n
    OBVIOUS
  <2>2. n - x \in 0..n /\ n - (n - x) = x
    BY <2>1
  <2>3. n - x \in T
    BY <2>1, <2>2
  <2>4. T \subseteq Nat
    OBVIOUS
  <2> HIDE DEF T
  <2> QED
    BY <2>3, <2>4
<1>2. PICK k \in T : \A j \in T : k <= j
  BY <1>1, LeastNatural
<1>3. n - k \in S
  BY <1>2
<1>4. ASSUME NEW y \in S PROVE n - k >= y
  <2>1. y \in 0..n /\ n - y \in 0..n /\ n - (n - y) = y
    OBVIOUS
  <2>2. n - y \in T
    BY <2>1
  <2>3. k \in Nat
    BY <1>1, <1>2
  <2> HIDE DEF T
  <2>4. k <= n - y
    BY <1>2, <2>2
  <2> QED
    BY <2>1, <2>3, <2>4
<1> QED
  BY <1>3, <1>4 DEF Max

LEMMA MinOfTwo ==
  ASSUME NEW a \in Nat, NEW b \in Nat
  PROVE  Min({a, b}) \in 0..b /\ Min({a, b}) \in {a, b}
<1>1. \E x \in {a, b} : \A y \in {a, b} : x =< y
  <2>1. CASE a <= b
    BY <2>1
  <2>2. CASE b <= a
    BY <2>2
  <2> QED
    BY <2>1, <2>2
<1>2. Min({a, b}) \in {a, b} /\ \A y \in {a, b} : Min({a, b}) =< y
  BY <1>1 DEF Min
<1> HIDE DEF Min
<1> QED
  BY <1>2

(* An order that can be priced now, at today's fee.                         *)
Sellable(o) ==
  /\ o \in Order /\ SensibleTerms(o) /\ Priced(o)
  /\ OracleTypeOK /\ cfg.fee \in 0..MAX_FEE

LEMMA FeeTyped ==
  ASSUME cfg.fee \in 0..MAX_FEE
  PROVE  /\ cfg.fee \in Nat /\ cfg.fee < FEE_DENOMINATOR
         /\ FEE_DENOMINATOR \in Nat
         /\ FEE_DENOMINATOR - cfg.fee \in Nat /\ FEE_DENOMINATOR - cfg.fee > 0
  BY BookAssumption

LEMMA ModeTerms ==
  ASSUME NEW o, Sellable(o)
  PROVE  /\ o.amount_in \in Nat /\ o.amount_in > 0 /\ o.min_amount_out \in Nat
         /\ o.amount_in_remaining \in Nat
         /\ o.price_mode = "Fixed" => o.min_amount_out > 0
         /\ o.price_mode # "Fixed" =>
              /\ ReadOracle(o.token_in, o.token_out).num \in Nat \ {0}
              /\ ReadOracle(o.token_in, o.token_out).den \in Nat \ {0}
              /\ BPS_DENOMINATOR \in Nat /\ BPS_DENOMINATOR > 0
              /\ BPS_DENOMINATOR - o.max_slippage_bps \in Nat
              /\ BPS_DENOMINATOR - o.max_slippage_bps > 0
<1>1. /\ o.token_in \in Tokens /\ o.token_out \in Tokens
      /\ o.amount_in \in Nat \ {0} /\ o.amount_in_remaining \in Nat
      /\ o.min_amount_out \in Nat /\ o.price_mode \in Modes /\ o.max_slippage_bps \in Nat
  BY OrderFields DEF Sellable
<1>2. CASE o.price_mode = "Fixed"
  <2>1. o.min_amount_out > 0
    BY <1>2 DEF Sellable, SensibleTerms
  <2> QED
    BY <1>1, <1>2, <2>1
<1>3. CASE o.price_mode # "Fixed"
  <2>1. o.price_mode = "Oracle"
    BY <1>1, <1>3 DEF Modes
  <2>2. HasPrice(o.token_in, o.token_out) /\ OracleTypeOK
    BY <2>1 DEF Sellable, Priced
  <2>3. /\ ReadOracle(o.token_in, o.token_out).num \in Nat \ {0}
        /\ ReadOracle(o.token_in, o.token_out).den \in Nat \ {0}
    BY <1>1, <2>2, PricePositive
  <2>4. o.max_slippage_bps < BPS_DENOMINATOR
    BY <1>3 DEF Sellable, SensibleTerms
  <2>5. BPS_DENOMINATOR \in Nat /\ BPS_DENOMINATOR > 0
    BY OracleAssumption
  <2> QED
    BY <1>1, <1>3, <2>3, <2>4, <2>5
<1> QED
  BY <1>2, <1>3

LEMMA LeastTyped ==
  ASSUME NEW o, Sellable(o), NEW fill \in Nat
  PROVE  RequiredPayment(o, fill) \in Nat
<1>1. CASE o.price_mode = "Fixed"
  <2>1. RequiredPayment(o, fill) = MulDivCeil(o.min_amount_out, fill, o.amount_in)
    BY <1>1 DEF RequiredPayment
  <2> DEFINE least == o.min_amount_out
             whole == o.amount_in
  <2>2. least \in Nat /\ whole \in Nat /\ whole > 0
    BY ModeTerms
  <2> HIDE DEF least, whole
  <2>3. MulDivCeil(least, fill, whole) \in Nat
    BY <2>2, CeilBounds
  <2> QED
    BY <2>1, <2>3 DEF least, whole
<1>2. CASE o.price_mode # "Fixed"
  <2> DEFINE price == ReadOracle(o.token_in, o.token_out)
             num == price.num
             den == price.den
             fair == MulDivFloor(fill, num, den)
             keep == BPS_DENOMINATOR - o.max_slippage_bps
  <2>1. RequiredPayment(o, fill) = MulDivCeil(fair, keep, BPS_DENOMINATOR)
    BY <1>2 DEF RequiredPayment
  <2>2. /\ num \in Nat /\ den \in Nat /\ den > 0 /\ keep \in Nat
        /\ BPS_DENOMINATOR \in Nat /\ BPS_DENOMINATOR > 0
    BY <1>2, ModeTerms
  <2> HIDE DEF num, den, keep
  <2>3. fair \in Nat
    BY <2>2, FloorBounds
  <2> HIDE DEF fair
  <2> QED
    BY <2>1, <2>2, <2>3, CeilBounds
<1> QED
  BY <1>1, <1>2

(* A payment that leaves the maker the floor, and is nothing if the floor   *)
(* is.                                                                      *)
Covers(o, fill, gross) ==
  /\ gross \in Nat
  /\ NetOfFee(gross, cfg.fee, FEE_DENOMINATOR) >= RequiredPayment(o, fill)
  /\ gross > 0 => RequiredPayment(o, fill) > 0

LEMMA GrossTyped ==
  ASSUME NEW o, Sellable(o), NEW fill \in Nat
  PROVE  Covers(o, fill, RequiredGrossPayment(o, fill))
<1> DEFINE least == RequiredPayment(o, fill)
           gross == RequiredGrossPayment(o, fill)
           keep == FEE_DENOMINATOR - cfg.fee
<1>1. least \in Nat
  BY LeastTyped
<1>2. /\ cfg.fee \in Nat /\ cfg.fee < FEE_DENOMINATOR /\ FEE_DENOMINATOR \in Nat
      /\ keep \in Nat /\ keep > 0
  BY FeeTyped DEF Sellable
<1>3. /\ gross = GrossForNet(least, cfg.fee, FEE_DENOMINATOR)
      /\ gross = MulDivCeil(least, FEE_DENOMINATOR, keep)
  BY DEF RequiredGrossPayment, GrossForNet
<1> HIDE DEF least, gross, keep
<1>4. gross \in Nat
  BY <1>1, <1>2, <1>3, CeilBounds
<1>5. NetOfFee(gross, cfg.fee, FEE_DENOMINATOR) >= least
  <2>1. gross >= GrossForNet(least, cfg.fee, FEE_DENOMINATOR)
    BY <1>3, <1>4
  <2> QED
    BY <1>1, <1>2, <1>4, <2>1, GrossForNetExact
<1>6. ASSUME least = 0 PROVE gross = 0
  <2>1. MulDivCeil(least, FEE_DENOMINATOR, keep) <= 0
          <=> least * FEE_DENOMINATOR <= keep * 0
    BY <1>1, <1>2, CeilAdjunction
  <2>2. least * FEE_DENOMINATOR = 0 /\ keep * 0 = 0
    BY <1>2, <1>6
  <2> QED
    BY <1>3, <1>4, <2>1, <2>2
<1>7. gross > 0 => least > 0
  BY <1>1, <1>4, <1>6
<1> QED
  BY <1>4, <1>5, <1>7 DEF gross, least, Covers

LEMMA EstimateTyped ==
  ASSUME NEW o, Sellable(o), NEW budget \in Nat
  PROVE  EstimatedFill(o, budget) \in Nat
<1> DEFINE net == NetOfFee(budget, cfg.fee, FEE_DENOMINATOR)
<1>1. net \in Nat
  <2>1. cfg.fee \in Nat /\ cfg.fee < FEE_DENOMINATOR /\ FEE_DENOMINATOR \in Nat
    BY FeeTyped DEF Sellable
  <2>2. net \in 0..budget
    BY <2>1, FeeBounds
  <2> HIDE DEF net
  <2> QED
    BY <2>2
<1>2. EstimatedFill(o, budget) = IF o.price_mode = "Fixed" THEN FixedFill(o, net)
                                 ELSE PeggedFillFor(o, net)
  BY DEF EstimatedFill
<1> HIDE DEF net
<1>3. CASE o.price_mode = "Fixed"
  <2>1. FixedFill(o, net) = MulDivFloor(net, o.amount_in, o.min_amount_out)
    BY DEF FixedFill
  <2> DEFINE least == o.min_amount_out
             whole == o.amount_in
  <2>2. least \in Nat /\ least > 0 /\ whole \in Nat
    BY <1>3, ModeTerms
  <2> HIDE DEF least, whole
  <2>3. MulDivFloor(net, whole, least) \in Nat
    BY <1>1, <2>2, FloorBounds
  <2> QED
    BY <1>2, <1>3, <2>1, <2>3 DEF least, whole
<1>4. CASE o.price_mode # "Fixed"
  <2> DEFINE price == ReadOracle(o.token_in, o.token_out)
             num == price.num
             den == price.den
             keep == BPS_DENOMINATOR - o.max_slippage_bps
             fair == MulDivFloor(net, BPS_DENOMINATOR, keep)
  <2>1. PeggedFillFor(o, net) = MulDivFloor(fair, den, num)
    BY DEF PeggedFillFor
  <2>2. /\ num \in Nat /\ num > 0 /\ den \in Nat /\ keep \in Nat /\ keep > 0
        /\ BPS_DENOMINATOR \in Nat
    BY <1>4, ModeTerms
  <2> HIDE DEF num, den, keep
  <2>3. fair \in Nat
    BY <1>1, <2>2, FloorBounds
  <2> HIDE DEF fair
  <2>4. PeggedFillFor(o, net) \in Nat
    BY <2>1, <2>2, <2>3, FloorBounds
  <2> QED
    BY <1>2, <1>4, <2>4
<1> QED
  BY <1>3, <1>4

LEMMA AffordableTyped ==
  ASSUME NEW o, Sellable(o), NEW budget \in Nat
  PROVE  LET fill == MaxAffordableFill(o, budget)
         IN  /\ fill \in 0..o.amount_in_remaining
             /\ fill # 0 => RequiredGrossPayment(o, fill) <= budget
<1> DEFINE start == Min({EstimatedFill(o, budget), o.amount_in_remaining})
           S == {0} \union {f \in 1..start : RequiredGrossPayment(o, f) <= budget}
           fill == MaxAffordableFill(o, budget)
<1>1. o.amount_in_remaining \in Nat /\ EstimatedFill(o, budget) \in Nat
  BY ModeTerms, EstimateTyped
<1>2. start \in 0..o.amount_in_remaining
  BY <1>1, MinOfTwo
<1>3. fill = Max(S)
  BY DEF MaxAffordableFill
<1> HIDE DEF start, fill
<1>4. S \subseteq 0..start /\ S # {} /\ start \in Nat
  BY <1>1, <1>2
<1>5. fill \in S
  BY <1>3, <1>4, MaxInside
<1> QED
  BY <1>1, <1>2, <1>5 DEF fill

(* The book holds at least what is left of any one order.                   *)
LEMMA EscrowCovers ==
  ASSUME NEW b, BookInv(b), NEW id \in OrderIds(b)
  PROVE  b.orders[id].amount_in_remaining <= b.balance[<<Book, b.orders[id].token_in>>]
<1> DEFINE token == b.orders[id].token_in
           sellers == Sellers(b, token)
           rest == sellers \ {id}
           left == b.orders[id].amount_in_remaining
<1>1. b \in BookState /\ EscrowBacked(b)
  BY DEF BookInv
<1>2. token \in Tokens
  BY <1>1, OrderTyped, OrderFields
<1>3. b.balance[<<Book, token>>] = Cardinality(Blocks(b.orders, sellers))
  BY <1>1, <1>2, EscrowIsBlocks DEF EscrowBacked
<1>4. IsFiniteSet(sellers) /\ \A i \in sellers : b.orders[i].amount_in_remaining \in Nat
  BY <1>1, SellersFinite
<1>5. id \in sellers
  BY DEF Sellers
<1> HIDE DEF token, sellers
<1>6. Cardinality(Blocks(b.orders, sellers)) = Cardinality(Blocks(b.orders, rest)) + left
  BY <1>4, <1>5, BlocksSplit
<1>7. Cardinality(Blocks(b.orders, rest)) \in Nat
  <2>1. IsFiniteSet(rest) /\ \A i \in rest : b.orders[i].amount_in_remaining \in Nat
    BY <1>4, FS_Subset
  <2> HIDE DEF rest
  <2> QED
    BY <2>1, BlocksFinite, FS_CardinalityType
<1>8. left \in Nat
  BY <1>4, <1>5
<1> HIDE DEF left, rest
<1>9. left <= b.balance[<<Book, token>>]
  BY <1>3, <1>6, <1>7, <1>8
<1> QED
  BY <1>9 DEF left, token

(* Whoever may take the order may take the quoted fill for the quoted price.*)
LEMMA QuotedFill ==
  ASSUME NEW b, BookInv(b), NEW id \in OrderIds(b), Sellable(b.orders[id]),
         IsOpen(b.orders[id]), seq <= b.orders[id].expiry,
         NEW fill, fill \in 1..b.orders[id].amount_in_remaining,
         NEW gross, Covers(b.orders[id], fill, gross), gross > 0,
         NEW taker, taker \notin b.orders[id].excluded \union {b.orders[id].maker},
         CanPay(b, taker, b.orders[id].token_out, gross)
  PROVE  CanFill(b, taker, id, fill, gross)
<1> DEFINE o == b.orders[id]
           net == NetOfFee(gross, cfg.fee, FEE_DENOMINATOR)
           least == RequiredPayment(o, fill)
<1>1. o.amount_in_remaining \in Nat /\ fill \in Nat /\ fill > 0 /\ fill <= o.amount_in_remaining
  <2>1. o.amount_in_remaining \in Nat
    BY ModeTerms
  <2> QED
    BY <2>1
<1>2. gross \in Nat /\ net >= least /\ least > 0 /\ least \in Nat
  BY <1>1, LeastTyped DEF Covers
<1>3. net \in Nat
  <2>1. cfg.fee \in Nat /\ cfg.fee < FEE_DENOMINATOR /\ FEE_DENOMINATOR \in Nat
    BY FeeTyped DEF Sellable
  <2>2. net \in 0..gross
    BY <1>2, <2>1, FeeBounds
  <2> HIDE DEF net
  <2> QED
    BY <1>2, <2>2
<1>4. CanPay(b, Book, o.token_in, fill)
  <2>1. o.amount_in_remaining <= b.balance[<<Book, o.token_in>>]
    BY EscrowCovers
  <2>2. b.balance[<<Book, o.token_in>>] \in Nat
    <3>1. o.token_in \in Tokens
      BY OrderFields DEF Sellable
    <3>2. b.balance \in Balances
      BY BookFields DEF BookInv
    <3> QED
      BY <3>1, <3>2 DEF Balances, Holders
  <2> QED
    BY <1>1, <2>1, <2>2 DEF CanPay
<1>5. Priced(o) /\ OpenTo(o, taker)
  BY DEF Sellable, OpenTo
<1> HIDE DEF net, least
<1>6. net > 0
  BY <1>2, <1>3
<1> QED
  BY <1>1, <1>2, <1>4, <1>5, <1>6 DEF CanFill, net, least, o

-----------------------------------------------------------------------------
(* The two recursive functions, a quote's steps and the book after its      *)
(* fills, are well defined.                                                 *)
IsQuote(f, ids, n, amount) ==
  f = [k \in 0..n |-> IF k = 0 THEN NoQuote ELSE QuoteOrder(f[k - 1], ids[k], amount)]

IsAfter(f, taker, fills, n) ==
  f = [k \in 0..n |->
         IF k = 0 THEN book
         ELSE FillInner(f[k - 1], taker, fills[k].id, fills[k].fill, fills[k].out)]

LEMMA QuoteStepsUnfold ==
  ASSUME NEW ids, NEW n \in Nat, NEW amount
  PROVE  IsQuote(QuoteSteps(ids, n, amount), ids, n, amount)
<1>1. \E f : IsQuote(f, ids, n, amount)
  <2> DEFINE bad == {k \in Nat : ~ \E f : IsQuote(f, ids, k, amount)}
  <2>1. SUFFICES ASSUME bad # {} PROVE FALSE
    OBVIOUS
  <2>2. PICK m \in bad : \A k \in bad : m <= k
    <3>1. bad \subseteq Nat
      OBVIOUS
    <3> HIDE DEF bad
    <3> QED
      BY <2>1, <3>1, LeastNatural
  <2>3. m \in Nat /\ ~ \E f : IsQuote(f, ids, m, amount)
    OBVIOUS
  <2>4. CASE m = 0
    <3> DEFINE g == [k \in 0..m |-> NoQuote]
    <3>1. IsQuote(g, ids, m, amount)
      BY <2>4 DEF IsQuote
    <3> HIDE DEF g
    <3> QED
      BY <2>3, <3>1
  <2>5. CASE m # 0
    <3>1. m - 1 \in Nat /\ m - 1 \notin bad
      BY <2>2, <2>3, <2>5
    <3>2. PICK f : IsQuote(f, ids, m - 1, amount)
      BY <3>1
    <3> DEFINE g == [k \in 0..m |->
                       IF k = m THEN QuoteOrder(f[m - 1], ids[m], amount) ELSE f[k]]
    <3>3. \A k \in 0..(m - 1) :
            f[k] = IF k = 0 THEN NoQuote ELSE QuoteOrder(f[k - 1], ids[k], amount)
      BY <3>2 DEF IsQuote
    <3>4. \A k \in 0..m :
            g[k] = IF k = 0 THEN NoQuote ELSE QuoteOrder(g[k - 1], ids[k], amount)
      <4>1. TAKE k \in 0..m
      <4>2. CASE k = m
        <5>1. m - 1 \in 0..m /\ m - 1 # m
          BY <2>3, <2>5
        <5>2. g[m - 1] = f[m - 1] /\ g[m] = QuoteOrder(f[m - 1], ids[m], amount)
          BY <5>1, <4>2
        <5> HIDE DEF g
        <5> QED
          BY <2>5, <4>2, <5>2
      <4>3. CASE k # m /\ k = 0
        <5>1. g[k] = f[k] /\ k \in 0..(m - 1)
          BY <2>3, <4>1, <4>3
        <5> HIDE DEF g
        <5> QED
          BY <3>3, <4>3, <5>1
      <4>4. CASE k # m /\ k # 0
        <5>1. k \in 0..(m - 1) /\ k - 1 \in 0..m /\ k - 1 # m
          BY <2>3, <4>1, <4>4
        <5>2. g[k] = f[k] /\ g[k - 1] = f[k - 1]
          BY <4>1, <4>4, <5>1
        <5>3. f[k] = QuoteOrder(f[k - 1], ids[k], amount)
          BY <3>3, <4>4, <5>1
        <5> HIDE DEF g
        <5> QED
          BY <4>4, <5>2, <5>3
      <4> QED
        BY <4>2, <4>3, <4>4
    <3>5. g = [k \in 0..m |-> g[k]]
      OBVIOUS
    <3> HIDE DEF g
    <3>6. IsQuote(g, ids, m, amount)
      BY <3>4, <3>5 DEF IsQuote
    <3> QED
      BY <2>3, <3>6
  <2> QED
    BY <2>4, <2>5
<1>2. \E f : f = [k \in 0..n |-> IF k = 0 THEN NoQuote
                                 ELSE QuoteOrder(f[k - 1], ids[k], amount)]
  BY <1>1 DEF IsQuote
<1> QED
  BY <1>2 DEF QuoteSteps, IsQuote

LEMMA QuoteStepIs ==
  ASSUME NEW ids, NEW n \in Nat, NEW amount
  PROVE  LET quote == QuoteSteps(ids, n, amount)
         IN  /\ quote[0] = NoQuote
             /\ \A k \in 1..n : quote[k] = QuoteOrder(quote[k - 1], ids[k], amount)
<1> DEFINE quote == QuoteSteps(ids, n, amount)
<1>1. IsQuote(quote, ids, n, amount)
  BY QuoteStepsUnfold
<1> HIDE DEF quote
<1>2. \A k \in 0..n :
        quote[k] = IF k = 0 THEN NoQuote ELSE QuoteOrder(quote[k - 1], ids[k], amount)
  BY <1>1 DEF IsQuote
<1>3. quote[0] = NoQuote
  BY <1>2
<1>4. \A k \in 1..n : quote[k] = QuoteOrder(quote[k - 1], ids[k], amount)
  BY <1>2
<1> QED
  BY <1>3, <1>4 DEF quote

LEMMA AfterFillsUnfold ==
  ASSUME NEW taker, NEW fills, Len(fills) \in Nat
  PROVE  IsAfter(AfterFills(taker, fills), taker, fills, Len(fills))
<1>1. ASSUME NEW n \in Nat PROVE \E f : IsAfter(f, taker, fills, n)
  <2> DEFINE bad == {k \in Nat : ~ \E f : IsAfter(f, taker, fills, k)}
             Step(b, k) == FillInner(b, taker, fills[k].id, fills[k].fill, fills[k].out)
  <2>1. SUFFICES ASSUME bad # {} PROVE FALSE
    OBVIOUS
  <2>2. PICK m \in bad : \A k \in bad : m <= k
    <3>1. bad \subseteq Nat
      OBVIOUS
    <3> HIDE DEF bad
    <3> QED
      BY <2>1, <3>1, LeastNatural
  <2>3. m \in Nat /\ ~ \E f : IsAfter(f, taker, fills, m)
    OBVIOUS
  <2>4. CASE m = 0
    <3> DEFINE g == [k \in 0..m |-> book]
    <3>1. IsAfter(g, taker, fills, m)
      BY <2>4 DEF IsAfter
    <3> HIDE DEF g
    <3> QED
      BY <2>3, <3>1
  <2>5. CASE m # 0
    <3>1. m - 1 \in Nat /\ m - 1 \notin bad
      BY <2>2, <2>3, <2>5
    <3>2. PICK f : IsAfter(f, taker, fills, m - 1)
      BY <3>1
    <3> DEFINE g == [k \in 0..m |-> IF k = m THEN Step(f[m - 1], m) ELSE f[k]]
    <3>3. \A k \in 0..(m - 1) : f[k] = IF k = 0 THEN book ELSE Step(f[k - 1], k)
      BY <3>2 DEF IsAfter
    <3>4. \A k \in 0..m : g[k] = IF k = 0 THEN book ELSE Step(g[k - 1], k)
      <4> HIDE DEF Step
      <4>1. TAKE k \in 0..m
      <4>2. CASE k = m
        <5>1. m - 1 \in 0..m /\ m - 1 # m
          BY <2>3, <2>5
        <5>2. g[m - 1] = f[m - 1] /\ g[m] = Step(f[m - 1], m)
          BY <5>1, <4>2
        <5> HIDE DEF g
        <5> QED
          BY <2>5, <4>2, <5>2
      <4>3. CASE k # m /\ k = 0
        <5>1. g[k] = f[k] /\ k \in 0..(m - 1)
          BY <2>3, <4>1, <4>3
        <5> HIDE DEF g
        <5> QED
          BY <3>3, <4>3, <5>1
      <4>4. CASE k # m /\ k # 0
        <5>1. k \in 0..(m - 1) /\ k - 1 \in 0..m /\ k - 1 # m
          BY <2>3, <4>1, <4>4
        <5>2. g[k] = f[k] /\ g[k - 1] = f[k - 1]
          BY <4>1, <4>4, <5>1
        <5>3. f[k] = Step(f[k - 1], k)
          BY <3>3, <4>4, <5>1
        <5> HIDE DEF g
        <5> QED
          BY <4>4, <5>2, <5>3
      <4> QED
        BY <4>2, <4>3, <4>4
    <3>5. g = [k \in 0..m |-> g[k]]
      OBVIOUS
    <3> HIDE DEF g
    <3>6. IsAfter(g, taker, fills, m)
      BY <3>4, <3>5 DEF IsAfter
    <3> QED
      BY <2>3, <3>6
  <2> QED
    BY <2>4, <2>5
<1>2. \E f : IsAfter(f, taker, fills, Len(fills))
  BY <1>1
<1>3. \E f : f = [k \in 0..Len(fills) |->
        IF k = 0 THEN book
        ELSE FillInner(f[k - 1], taker, fills[k].id, fills[k].fill, fills[k].out)]
  BY <1>2 DEF IsAfter
<1> QED
  BY <1>3 DEF AfterFills, IsAfter

(* A quote's fills: which order, how much of it, for what.                  *)
QuotedFills == [id : Nat, fill : Nat \ {0}, out : Nat]

LEMMA AfterFillsStep ==
  ASSUME NEW taker, NEW fills \in Seq(QuotedFills)
  PROVE  LET after == AfterFills(taker, fills)
         IN  /\ after[0] = book
             /\ \A k \in 1..Len(fills) :
                  after[k] = FillInner(after[k - 1], taker, fills[k].id, fills[k].fill,
                                       fills[k].out)
<1> DEFINE after == AfterFills(taker, fills)
<1>1. Len(fills) \in Nat
  OBVIOUS
<1>2. IsAfter(after, taker, fills, Len(fills))
  BY <1>1, AfterFillsUnfold
<1> HIDE DEF after
<1>3. \A k \in 0..Len(fills) :
        after[k] = IF k = 0 THEN book
                   ELSE FillInner(after[k - 1], taker, fills[k].id, fills[k].fill, fills[k].out)
  BY <1>2 DEF IsAfter
<1>4. after[0] = book
  BY <1>1, <1>3
<1>5. \A k \in 1..Len(fills) :
        after[k] = FillInner(after[k - 1], taker, fills[k].id, fills[k].fill, fills[k].out)
  BY <1>1, <1>3
<1> QED
  BY <1>4, <1>5 DEF after

(* One more fill leaves the book after the others as it was.                *)
FollowsOn(taker, fills, x) ==
  LET after == AfterFills(taker, fills)
      more == AfterFills(taker, Append(fills, x))
  IN  /\ \A k \in 0..Len(fills) : more[k] = after[k]
      /\ more[Len(fills) + 1] = FillInner(after[Len(fills)], taker, x.id, x.fill, x.out)

LEMMA AfterOneMore ==
  ASSUME NEW taker, NEW fills \in Seq(QuotedFills), NEW x \in QuotedFills
  PROVE  FollowsOn(taker, fills, x)
<1> DEFINE longer == Append(fills, x)
           after == AfterFills(taker, fills)
           more == AfterFills(taker, longer)
           n == Len(fills)
           Step(b, k) == FillInner(b, taker, longer[k].id, longer[k].fill, longer[k].out)
<1>1. /\ n \in Nat /\ longer \in Seq(QuotedFills) /\ Len(longer) = n + 1
      /\ longer[n + 1] = x /\ \A k \in 1..n : longer[k] = fills[k]
  OBVIOUS
<1> HIDE DEF longer
<1>2. after[0] = book /\ \A k \in 1..n : after[k] = Step(after[k - 1], k)
  BY <1>1, AfterFillsStep
<1>3. more[0] = book /\ \A k \in 1..(n + 1) : more[k] = Step(more[k - 1], k)
  BY <1>1, AfterFillsStep
<1> HIDE DEF after, more, Step, n
<1>4. \A k \in 0..n : more[k] = after[k]
  <2> DEFINE bad == {k \in 0..n : more[k] # after[k]}
  <2>1. SUFFICES ASSUME bad # {} PROVE FALSE
    OBVIOUS
  <2>2. PICK u \in bad : \A k \in bad : u <= k
    <3>1. bad \subseteq Nat
      BY <1>1
    <3> HIDE DEF bad
    <3> QED
      BY <2>1, <3>1, LeastNatural
  <2>3. u \in 0..n /\ more[u] # after[u]
    OBVIOUS
  <2>4. u # 0
    BY <1>2, <1>3, <2>3
  <2>5. u \in 1..n /\ u \in 1..(n + 1) /\ u - 1 \in 0..n /\ u - 1 < u
    BY <1>1, <2>3, <2>4
  <2>6. more[u - 1] = after[u - 1]
    <3>1. u - 1 \notin bad
      <4>1. ~ (u <= u - 1)
        BY <2>5
      <4> HIDE DEF bad
      <4> QED
        BY <2>2, <4>1
    <3> QED
      BY <2>5, <3>1
  <2>7. more[u] = Step(more[u - 1], u) /\ after[u] = Step(after[u - 1], u)
    BY <1>2, <1>3, <2>5
  <2> HIDE DEF bad
  <2> QED
    BY <2>3, <2>6, <2>7
<1>5. more[n + 1] = Step(after[n], n + 1)
  <2>1. n + 1 \in 1..(n + 1) /\ (n + 1) - 1 = n /\ n \in 0..n
    BY <1>1
  <2>2. more[n + 1] = Step(more[(n + 1) - 1], n + 1)
    BY <1>3, <2>1
  <2> QED
    BY <1>4, <2>1, <2>2
<1>6. Step(after[n], n + 1) = FillInner(after[n], taker, x.id, x.fill, x.out)
  BY <1>1 DEF Step
<1> QED
  BY <1>4, <1>5, <1>6 DEF FollowsOn, after, more, longer, n

-----------------------------------------------------------------------------
(* The fills of a quote, one after the other                                *)

QuoteTyped(q, amount) ==
  /\ q.paid \in 0..amount /\ q.bought \in Nat /\ q.fills \in Seq(QuotedFills)

AllPaid(q) == \A j \in DOMAIN q.fills : q.fills[j].out > 0

(* Where the fills quoted of the first k of n orders leave the book, if the *)
(* taker may make them: sound, with the orders still to come untouched.     *)
Reached(q, k, ids, n, taker, buy, pay) ==
  (AllPaid(q) /\ MayTake(taker, q, pay)) =>
    LET last == AfterFills(taker, q.fills)[Len(q.fills)]
    IN /\ Fillable(taker, q, buy, pay)
       /\ BookInv(last) /\ OrderIds(last) = OrderIds(book)
       /\ \A j \in (k + 1)..n : last.orders[ids[j]] = book.orders[ids[j]]

(* What a quote's orders are: distinct orders of the book, open and priced. *)
QuoteIds(ids, n, buy, pay) ==
  /\ n \in Nat
  /\ \A j \in 1..n :
       /\ ids[j] \in OrderIds(book) /\ ids[j] \in Nat
       /\ Sellable(book.orders[ids[j]]) /\ IsOpen(book.orders[ids[j]])
       /\ seq <= book.orders[ids[j]].expiry
       /\ book.orders[ids[j]].token_in = buy /\ book.orders[ids[j]].token_out = pay
  /\ \A i, j \in 1..n : i < j => ids[i] # ids[j]

LEMMA QuotableIds ==
  ASSUME Inv, CallInv, NEW buy \in Tokens, NEW pay \in Tokens
  PROVE  QuoteIds(InOrder(Quotable(buy, pay)), Cardinality(Quotable(buy, pay)), buy, pay)
<1> DEFINE S == Quotable(buy, pay)
           n == Cardinality(S)
           ids == InOrder(S)
<1>1. /\ BookInv(book) /\ book \in BookState /\ Sensible(book) /\ OracleTypeOK
      /\ cfg.fee \in 0..MAX_FEE /\ IndexesExact(book)
  BY DEF Inv, CallInv, BookInv, Config
<1>2. <<buy, pay>> \in Pairs
  BY DEF Pairs
<1>3. /\ IsFiniteSet(book.index[<<buy, pay>>])
      /\ book.index[<<buy, pay>>] = {id \in OrderIds(book) : IsOpen(book.orders[id])
                                       /\ Pair(book.orders[id]) = <<buy, pay>>}
  <2>1. IsFiniteSet(book.index[<<buy, pay>>])
    BY <1>1, <1>2, IndexFinite
  <2>2. \A p \in Pairs : book.index[p] = {id \in OrderIds(book) : IsOpen(book.orders[id])
                                            /\ Pair(book.orders[id]) = p}
    BY <1>1 DEF IndexesExact
  <2> QED
    BY <1>2, <2>1, <2>2
<1>4. S \subseteq book.index[<<buy, pay>>] /\ IsFiniteSet(S)
  <2>1. S \subseteq book.index[<<buy, pay>>]
    BY DEF Quotable
  <2> QED
    BY <1>3, <2>1, FS_Subset
<1>5. ASSUME NEW id \in S
      PROVE  /\ id \in OrderIds(book) /\ id \in Nat
             /\ Sellable(book.orders[id]) /\ IsOpen(book.orders[id])
             /\ seq <= book.orders[id].expiry
             /\ book.orders[id].token_in = buy /\ book.orders[id].token_out = pay
  <2>1. id \in OrderIds(book) /\ Pair(book.orders[id]) = <<buy, pay>>
    BY <1>3, <1>4
  <2>2. id \in Nat
    <3>1. book.orders \in Seq(Order)
      BY <1>1, BookFields
    <3>2. Len(book.orders) \in Nat /\ OrderIds(book) = 1..Len(book.orders)
      BY <3>1 DEF OrderIds
    <3> QED
      BY <2>1, <3>2
  <2>3. book.orders[id].token_in = buy /\ book.orders[id].token_out = pay
    BY <2>1 DEF Pair
  <2>4. IsOpen(book.orders[id]) /\ seq <= book.orders[id].expiry /\ Priced(book.orders[id])
    BY DEF Quotable
  <2>5. book.orders[id] \in Order
    BY <1>1, <2>1, OrderTyped
  <2>6. SensibleTerms(book.orders[id])
    BY <1>1, <2>1 DEF Sensible
  <2>7. Sellable(book.orders[id])
    BY <1>1, <2>4, <2>5, <2>6 DEF Sellable
  <2> QED
    BY <2>1, <2>2, <2>3, <2>4, <2>7
<1> HIDE DEF S
<1>6. S \subseteq Nat
  BY <1>5
<1>7. Enumerates(ids, S)
  BY <1>4, <1>6, InOrderAscends
<1>8. n \in Nat
  BY <1>4, FS_CardinalityType
<1> HIDE DEF ids
<1>9. ids \in [1..n -> S] /\ \A i, j \in 1..n : i < j => ids[i] < ids[j]
  <2>1. ids \in [1..n -> S] /\ \A i, j \in DOMAIN ids : i < j => ids[i] < ids[j]
    BY <1>7 DEF Enumerates
  <2> HIDE DEF n
  <2> QED
    BY <2>1
<1> HIDE DEF n
<1>10. \A j \in 1..n : ids[j] \in S
  BY <1>9
<1>11. ASSUME NEW i \in 1..n, NEW j \in 1..n, i < j PROVE ids[i] # ids[j]
  <2>1. ids[i] \in Nat /\ ids[j] \in Nat
    BY <1>6, <1>10
  <2>2. ids[i] < ids[j]
    BY <1>9, <1>11
  <2> QED
    BY <2>1, <2>2
<1>12. QuoteIds(ids, n, buy, pay)
  BY <1>5, <1>8, <1>10, <1>11 DEF QuoteIds
<1> QED
  BY <1>12 DEF ids, n, S

LEMMA NothingQuoted ==
  ASSUME Inv, NEW amount \in Nat, NEW ids, NEW n, NEW buy \in Tokens, NEW pay \in Tokens
  PROVE  /\ QuoteTyped(NoQuote, amount)
         /\ \A taker \in Accounts : Reached(NoQuote, 0, ids, n, taker, buy, pay)
<1>1. NoQuote.bought = 0 /\ NoQuote.paid = 0 /\ NoQuote.fills = <<>>
  BY DEF NoQuote
<1>2. QuoteTyped(NoQuote, amount)
  <2>1. 0 \in 0..amount /\ <<>> \in Seq(QuotedFills)
    OBVIOUS
  <2> QED
    BY <1>1, <2>1 DEF QuoteTyped
<1>3. ASSUME NEW taker \in Accounts
      PROVE  Reached(NoQuote, 0, ids, n, taker, buy, pay)
  <2>1. /\ <<>> \in Seq(QuotedFills) /\ Len(<<>>) = 0 /\ DOMAIN <<>> = {}
    OBVIOUS
  <2>2. AfterFills(taker, <<>>)[0] = book
    BY <2>1, AfterFillsStep
  <2>3. /\ book.balance[<<taker, buy>>] + 0 = book.balance[<<taker, buy>>]
        /\ book.balance[<<taker, pay>>] - 0 = book.balance[<<taker, pay>>]
    <3>1. book.balance[<<taker, buy>>] \in Nat /\ book.balance[<<taker, pay>>] \in Nat
      BY <1>3, HoldingTyped DEF Inv
    <3> QED
      BY <3>1
  <2>4. Fillable(taker, NoQuote, buy, pay)
    BY <1>1, <2>1, <2>2, <2>3 DEF Fillable
  <2>5. BookInv(book)
    BY DEF Inv
  <2> QED
    BY <1>1, <2>1, <2>2, <2>4, <2>5 DEF Reached
<1> QED
  BY <1>2, <1>3

(* The next fill is made where the ones before it left the book.            *)
LEMMA FillReaches ==
  ASSUME NEW amount \in Nat, NEW buy \in Tokens, NEW pay \in Tokens, NEW ids, NEW n,
         QuoteIds(ids, n, buy, pay), Inv, NEW k \in 1..n,
         NEW q, QuoteTyped(q, amount), NEW taker \in Accounts,
         Reached(q, k - 1, ids, n, taker, buy, pay),
         NEW fill, fill \in 1..book.orders[ids[k]].amount_in_remaining,
         NEW gross, Covers(book.orders[ids[k]], fill, gross), gross \in Nat,
         NEW x, x = [id |-> ids[k], fill |-> fill, out |-> gross], x \in QuotedFills,
         NEW more, more.bought = q.bought + fill, more.paid = q.paid + gross,
         more.fills = Append(q.fills, x)
  PROVE  Reached(more, k, ids, n, taker, buy, pay)
<1> DEFINE id == ids[k]
           o == book.orders[id]
           m == Len(q.fills)
           after == AfterFills(taker, q.fills)
           next == AfterFills(taker, more.fills)
           last == after[m]
           p == FillInner(last, taker, id, fill, gross)
<1>1. SUFFICES ASSUME AllPaid(more), MayTake(taker, more, pay)
               PROVE  /\ Fillable(taker, more, buy, pay)
                      /\ BookInv(next[Len(more.fills)])
                      /\ OrderIds(next[Len(more.fills)]) = OrderIds(book)
                      /\ \A j \in (k + 1)..n :
                           next[Len(more.fills)].orders[ids[j]] = book.orders[ids[j]]
  BY DEF Reached
<1>2. /\ q.paid \in Nat /\ q.bought \in Nat /\ q.fills \in Seq(QuotedFills)
  BY DEF QuoteTyped
<1>3. /\ m \in Nat /\ DOMAIN q.fills = 1..m /\ more.fills \in Seq(QuotedFills)
      /\ Len(more.fills) = m + 1 /\ DOMAIN more.fills = 1..(m + 1)
      /\ more.fills[m + 1] = x /\ \A j \in 1..m : more.fills[j] = q.fills[j]
  BY <1>2
<1>4. x.id = id /\ x.fill = fill /\ x.out = gross
  OBVIOUS
<1>5. /\ id \in OrderIds(book) /\ Sellable(o) /\ IsOpen(o) /\ seq <= o.expiry
      /\ o.token_in = buy /\ o.token_out = pay /\ n \in Nat
      /\ \A j \in (k + 1)..n : ids[j] # id
  <2>1. \A j \in (k + 1)..n : j \in 1..n /\ k < j
    BY DEF QuoteIds
  <2>2. \A j \in 1..n : k < j => ids[k] # ids[j]
    BY DEF QuoteIds
  <2> QED
    BY <2>1, <2>2 DEF QuoteIds
<1>6. BookInv(book) /\ cfg.fee \in 0..MAX_FEE
  BY DEF Inv, Config
<1> HIDE DEF id, o, m, after, next
<1>7. /\ next[m + 1] = FillInner(after[m], taker, x.id, x.fill, x.out)
      /\ \A j \in 0..m : next[j] = after[j]
  <2>1. FollowsOn(taker, q.fills, x)
    <3>1. q.fills \in Seq(QuotedFills)
      BY <1>2
    <3> QED
      BY <3>1, AfterOneMore, Zenon
  <2>2. more.fills = Append(q.fills, x)
    OBVIOUS
  <2> QED
    BY <2>1, <2>2, Zenon DEF FollowsOn, after, next, m
<1>8. next[m + 1] = p
  BY <1>4, <1>7
<1> HIDE DEF p
<1>9. AllPaid(q) /\ gross > 0
  <2>1. \A j \in 1..(m + 1) : more.fills[j].out > 0
    BY <1>1, <1>3 DEF AllPaid
  <2>2. gross > 0
    BY <1>3, <1>4, <2>1
  <2>3. \A j \in 1..m : q.fills[j].out > 0
    BY <1>3, <2>1
  <2> QED
    BY <1>3, <2>2, <2>3 DEF AllPaid
<1>10. /\ book.balance[<<taker, pay>>] \in Nat /\ book.balance[<<taker, buy>>] \in Nat
       /\ book.balance[<<taker, pay>>] >= q.paid + gross
  <2>1. book.balance[<<taker, pay>>] \in Nat /\ book.balance[<<taker, buy>>] \in Nat
    BY <1>6, HoldingTyped
  <2>2. book.balance[<<taker, pay>>] >= q.paid + gross
    BY <1>1 DEF MayTake, CanPay
  <2> QED
    BY <2>1, <2>2
<1>11. MayTake(taker, q, pay)
  <2>1. book.balance[<<taker, pay>>] >= q.paid
    BY <1>2, <1>10
  <2>2. \A j \in 1..(m + 1) : taker \notin book.orders[more.fills[j].id].excluded
                                             \union {book.orders[more.fills[j].id].maker}
    BY <1>1, <1>3 DEF MayTake
  <2>3. \A j \in 1..m : taker \notin book.orders[q.fills[j].id].excluded
                                       \union {book.orders[q.fills[j].id].maker}
    <3>1. TAKE j \in 1..m
    <3>2. j \in 1..(m + 1)
      BY <1>3
    <3>3. more.fills[j] = q.fills[j]
      BY <1>3
    <3> QED
      BY <2>2, <3>2, <3>3, Zenon
  <2> QED
    BY <1>3, <2>1, <2>3 DEF MayTake, CanPay
<1>12. taker \notin o.excluded \union {o.maker}
  <2>1. m + 1 \in DOMAIN more.fills /\ more.fills[m + 1].id = id
    BY <1>3, <1>4
  <2> QED
    BY <1>1, <2>1 DEF MayTake, o
<1>13. /\ Fillable(taker, q, buy, pay) /\ BookInv(last) /\ OrderIds(last) = OrderIds(book)
       /\ \A j \in k..n : last.orders[ids[j]] = book.orders[ids[j]]
  <2>1. (k - 1) + 1 = k
    OBVIOUS
  <2> QED
    BY <1>9, <1>11, <2>1 DEF Reached, after, m
<1>14. /\ last.balance[<<taker, buy>>] = book.balance[<<taker, buy>>] + q.bought
       /\ last.balance[<<taker, pay>>] = book.balance[<<taker, pay>>] - q.paid
       /\ \A j \in 1..m : CanFill(after[j - 1], taker, q.fills[j].id, q.fills[j].fill,
                                  q.fills[j].out)
  BY <1>3, <1>13 DEF Fillable, after, m
<1> HIDE DEF last
<1>15. last.orders[id] = o /\ id \in OrderIds(last)
  <2>1. k \in k..n
    BY <1>5
  <2> QED
    BY <1>5, <1>13, <2>1 DEF id, o
<1>16. CanPay(last, taker, pay, gross)
  <2>1. last.balance[<<taker, pay>>] >= gross
    BY <1>2, <1>10, <1>14
  <2> QED
    BY <2>1 DEF CanPay
<1>17. CanFill(last, taker, id, fill, gross)
  <2>1. /\ Sellable(last.orders[id]) /\ IsOpen(last.orders[id])
        /\ seq <= last.orders[id].expiry
        /\ taker \notin last.orders[id].excluded \union {last.orders[id].maker}
        /\ CanPay(last, taker, last.orders[id].token_out, gross)
        /\ last.orders[id].token_in = buy /\ last.orders[id].token_out = pay
    BY <1>5, <1>12, <1>15, <1>16
  <2>2. /\ fill \in 1..last.orders[id].amount_in_remaining
        /\ Covers(last.orders[id], fill, gross)
    BY <1>15 DEF o, id
  <2> QED
    BY <1>9, <1>13, <1>15, <2>1, <2>2, QuotedFill
<1>18. fill \in Int /\ gross \in Int /\ fill \in Nat
  <2>1. o.amount_in_remaining \in Nat /\ fill \in 1..o.amount_in_remaining
    BY <1>5, ModeTerms DEF o, id
  <2> QED
    BY <2>1
<1>19. BookInv(p)
  BY <1>6, <1>13, <1>15, <1>17, <1>18, FillKeepsBook DEF p
<1>20. Filled(last, taker, id, fill, gross, p)
  <2>1. o.token_in # o.token_out
    BY <1>5 DEF Sellable, SensibleTerms
  <2>2. last.orders[id].token_in # last.orders[id].token_out
    BY <1>15, <2>1
  <2> QED
    BY <1>6, <1>13, <1>15, <1>17, <1>18, <2>2, FillEffect DEF p
<1>21. /\ OrderIds(p) = OrderIds(book)
       /\ \A i \in OrderIds(book) \ {id} : p.orders[i] = last.orders[i]
       /\ p.balance[<<taker, pay>>] = last.balance[<<taker, pay>>] - gross
       /\ p.balance[<<taker, buy>>] = last.balance[<<taker, buy>>] + fill
  <2>1. /\ OrderIds(p) = OrderIds(last) /\ Moved(last, last.orders[id], taker, fill, gross, p.balance)
        /\ \A i \in OrderIds(last) \ {id} : p.orders[i] = last.orders[i]
    BY <1>20 DEF Filled
  <2>2. last.orders[id].token_in = buy /\ last.orders[id].token_out = pay
    BY <1>5, <1>15
  <2> QED
    BY <1>13, <2>1, <2>2 DEF Moved
<1>22. \A j \in (k + 1)..n : p.orders[ids[j]] = book.orders[ids[j]]
  <2>1. TAKE j \in (k + 1)..n
  <2>2. j \in k..n /\ j \in 1..n
    BY <1>5
  <2>3. ids[j] \in OrderIds(book) \ {id}
    BY <1>5, <2>2 DEF QuoteIds
  <2> QED
    BY <1>13, <1>21, <2>2, <2>3
<1>23. Fillable(taker, more, buy, pay)
  <2>1. /\ p.balance[<<taker, buy>>] = book.balance[<<taker, buy>>] + more.bought
        /\ p.balance[<<taker, pay>>] = book.balance[<<taker, pay>>] - more.paid
    <3>1. p.balance[<<taker, buy>>] = (book.balance[<<taker, buy>>] + q.bought) + fill
      BY <1>14, <1>21
    <3>2. p.balance[<<taker, pay>>] = (book.balance[<<taker, pay>>] - q.paid) - gross
      BY <1>14, <1>21
    <3>3. more.bought = q.bought + fill /\ more.paid = q.paid + gross
      OBVIOUS
    <3>4. /\ book.balance[<<taker, buy>>] \in Int /\ book.balance[<<taker, pay>>] \in Int
          /\ q.bought \in Int /\ q.paid \in Int /\ fill \in Int /\ gross \in Int
      BY <1>2, <1>10, <1>18
    <3> DEFINE had == book.balance[<<taker, buy>>]
               cash == book.balance[<<taker, pay>>]
               bought == q.bought
               paid == q.paid
    <3>5. /\ had \in Int /\ cash \in Int /\ bought \in Int /\ paid \in Int
          /\ fill \in Int /\ gross \in Int
      BY <3>4
    <3> HIDE DEF had, cash, bought, paid
    <3>6. (had + bought) + fill = had + (bought + fill)
      BY <3>5
    <3>7. (cash - paid) - gross = cash - (paid + gross)
      BY <3>5
    <3> QED
      BY <3>1, <3>2, <3>3, <3>6, <3>7, Zenon DEF had, cash, bought, paid
  <2>2. ASSUME NEW j \in 1..(m + 1)
        PROVE  CanFill(next[j - 1], taker, more.fills[j].id, more.fills[j].fill,
                       more.fills[j].out)
    <3>1. CASE j = m + 1
      <4>1. j - 1 = m /\ m \in 0..m
        BY <1>3, <3>1
      <4>2. next[j - 1] = last
        BY <1>7, <4>1 DEF last
      <4> QED
        BY <1>3, <1>4, <1>17, <3>1, <4>2
    <3>2. CASE j # m + 1
      <4>1. j \in 1..m /\ j - 1 \in 0..m
        BY <1>3, <3>2
      <4>2. next[j - 1] = after[j - 1] /\ more.fills[j] = q.fills[j]
        BY <1>3, <1>7, <4>1
      <4> QED
        BY <1>14, <4>1, <4>2
    <3> QED
      BY <3>1, <3>2
  <2>3. next[Len(more.fills)] = p
    BY <1>3, <1>8
  <2> QED
    BY <1>3, <2>1, <2>2, <2>3 DEF Fillable, next
<1>24. next[Len(more.fills)] = p
  BY <1>3, <1>8
<1> QED
  BY <1>19, <1>21, <1>22, <1>23, <1>24

LEMMA QuoteGrows ==
  ASSUME NEW amount \in Nat, NEW buy \in Tokens, NEW pay \in Tokens, NEW ids, NEW n,
         QuoteIds(ids, n, buy, pay), Inv, NEW k \in 1..n,
         NEW q, QuoteTyped(q, amount),
         NEW more, more = QuoteOrder(q, ids[k], amount)
  PROVE  /\ QuoteTyped(more, amount)
         /\ \A taker \in Accounts : Reached(q, k - 1, ids, n, taker, buy, pay)
                                      => Reached(more, k, ids, n, taker, buy, pay)
<1> DEFINE id == ids[k]
           o == book.orders[id]
           fill == MaxAffordableFill(o, amount - q.paid)
           gross == RequiredGrossPayment(o, fill)
           x == [id |-> id, fill |-> fill, out |-> gross]
<1>1. /\ q.paid \in 0..amount /\ q.paid \in Nat /\ amount - q.paid \in Nat
      /\ q.bought \in Nat /\ q.fills \in Seq(QuotedFills)
  BY DEF QuoteTyped
<1>2. Sellable(o) /\ id \in Nat /\ n \in Nat
  BY DEF QuoteIds
<1>3. more = IF fill = 0 THEN q ELSE [bought |-> q.bought + fill, paid |-> q.paid + gross,
                                      fills |-> Append(q.fills, x)]
  BY DEF QuoteOrder
<1>4. /\ fill \in 0..o.amount_in_remaining /\ o.amount_in_remaining \in Nat
      /\ fill # 0 => gross <= amount - q.paid
  BY <1>1, <1>2, AffordableTyped, ModeTerms
<1> HIDE DEF fill
<1>5. fill \in Nat /\ gross \in Nat
  <2>1. fill \in Nat
    BY <1>4
  <2>2. gross \in Nat
    BY <1>2, <2>1, GrossTyped DEF Covers
  <2> QED
    BY <2>1, <2>2
<1>6. CASE fill = 0
  <2>1. more = q
    BY <1>3, <1>6
  <2>2. ASSUME NEW taker \in Accounts, Reached(q, k - 1, ids, n, taker, buy, pay)
        PROVE  Reached(q, k, ids, n, taker, buy, pay)
    <3>1. \A j \in (k + 1)..n : j \in ((k - 1) + 1)..n
      BY <1>2
    <3> QED
      BY <2>2, <3>1 DEF Reached
  <2> QED
    BY <2>1, <2>2
<1>7. CASE fill # 0
  <2> HIDE DEF id, o, gross
  <2>1. fill \in 1..o.amount_in_remaining /\ fill \in Nat \ {0} /\ gross <= amount - q.paid
    BY <1>4, <1>5, <1>7
  <2>2. x \in QuotedFills
    BY <1>2, <1>5, <2>1 DEF QuotedFills
  <2> HIDE DEF x
  <2>3. /\ more.bought = q.bought + fill /\ more.paid = q.paid + gross
        /\ more.fills = Append(q.fills, x)
    BY <1>3, <1>7
  <2>4. QuoteTyped(more, amount)
    <3>1. q.paid + gross \in 0..amount /\ q.bought + fill \in Nat
      BY <1>1, <1>5, <2>1
    <3>2. Append(q.fills, x) \in Seq(QuotedFills)
      BY <1>1, <2>2
    <3> QED
      BY <2>3, <3>1, <3>2 DEF QuoteTyped
  <2>5. ASSUME NEW taker \in Accounts, Reached(q, k - 1, ids, n, taker, buy, pay)
        PROVE  Reached(more, k, ids, n, taker, buy, pay)
    <3>1. /\ fill \in 1..book.orders[ids[k]].amount_in_remaining
          /\ Covers(book.orders[ids[k]], fill, gross)
          /\ x = [id |-> ids[k], fill |-> fill, out |-> gross]
      BY <1>2, <1>5, <2>1, GrossTyped DEF o, id, gross, x
    <3> QED
      BY <1>5, <2>2, <2>3, <2>5, <3>1, FillReaches
  <2> QED
    BY <2>4, <2>5
<1> QED
  BY <1>6, <1>7

LEMMA QuotesHold ==
  ASSUME Inv, CallInv
  PROVE  QuotesAreFillable
<1> SUFFICES ASSUME NEW buy \in Tokens, NEW pay \in Tokens, NEW amount \in Budgets
             PROVE  LET q == QuoteFill(buy, pay, amount)
                    IN  /\ q.paid <= amount
                        /\ AllPaid(q) => \A taker \in Accounts :
                             MayTake(taker, q, pay) => Fillable(taker, q, buy, pay)
  BY DEF QuotesAreFillable, AllPaid
<1> DEFINE ids == InOrder(Quotable(buy, pay))
           n == Cardinality(Quotable(buy, pay))
           quote == QuoteSteps(ids, n, amount)
           Good(k) == /\ QuoteTyped(quote[k], amount)
                      /\ \A taker \in Accounts : Reached(quote[k], k, ids, n, taker, buy, pay)
<1>1. amount \in Nat
  BY BudgetsAssumption
<1>2. QuoteIds(ids, n, buy, pay)
  BY QuotableIds
<1>3. n \in Nat
  BY <1>2 DEF QuoteIds
<1>4. QuoteFill(buy, pay, amount) = quote[n]
  BY DEF QuoteFill
<1> HIDE DEF ids, n
<1>5. quote[0] = NoQuote /\ \A k \in 1..n : quote[k] = QuoteOrder(quote[k - 1], ids[k], amount)
  BY <1>3, QuoteStepIs
<1> HIDE DEF quote
<1>6. Good(0)
  BY <1>1, <1>5, NothingQuoted
<1>7. ASSUME NEW k \in 1..n, Good(k - 1) PROVE Good(k)
  <2>1. /\ QuoteTyped(quote[k - 1], amount)
        /\ \A taker \in Accounts : Reached(quote[k - 1], k - 1, ids, n, taker, buy, pay)
    BY <1>7
  <2>2. quote[k] = QuoteOrder(quote[k - 1], ids[k], amount)
    BY <1>5
  <2>3. /\ QuoteTyped(quote[k], amount)
        /\ \A taker \in Accounts : Reached(quote[k - 1], k - 1, ids, n, taker, buy, pay)
                                     => Reached(quote[k], k, ids, n, taker, buy, pay)
    BY <1>1, <1>2, <2>1, <2>2, QuoteGrows
  <2> QED
    BY <2>1, <2>3
<1> HIDE DEF Good
<1>8. Good(n)
  <2> DEFINE bad == {k \in 0..n : ~ Good(k)}
  <2>1. SUFFICES ASSUME bad # {} PROVE FALSE
    BY <1>3
  <2>2. PICK u \in bad : \A k \in bad : u <= k
    <3>1. bad \subseteq Nat
      BY <1>3
    <3> HIDE DEF bad
    <3> QED
      BY <2>1, <3>1, LeastNatural
  <2>3. u \in 0..n /\ ~ Good(u)
    OBVIOUS
  <2>4. u # 0
    BY <1>6, <2>3
  <2>5. u \in 1..n /\ u - 1 \in 0..n /\ ~ (u <= u - 1)
    BY <1>3, <2>3, <2>4
  <2>6. Good(u - 1)
    BY <2>2, <2>5
  <2> HIDE DEF bad
  <2> QED
    BY <1>7, <2>3, <2>5, <2>6
<1>9. /\ QuoteTyped(quote[n], amount)
      /\ \A taker \in Accounts : Reached(quote[n], n, ids, n, taker, buy, pay)
  BY <1>8 DEF Good
<1>10. quote[n].paid <= amount
  BY <1>1, <1>9 DEF QuoteTyped
<1>11. AllPaid(quote[n]) => \A taker \in Accounts :
         MayTake(taker, quote[n], pay) => Fillable(taker, quote[n], buy, pay)
  BY <1>9 DEF Reached
<1> QED
  BY <1>4, <1>10, <1>11

(* Whatever the oracle, the fee and the settings of the moment: a quote is  *)
(* fillable as it stands, one fill after the other, for what it says.       *)
THEOREM QuotesSettle == Spec => []QuotesAreFillable
<1>1. Inv /\ CallInv => QuotesAreFillable
  BY QuotesHold
<1> QED
  BY <1>1, SpecCall, PTL

-----------------------------------------------------------------------------
(* Plans.  The fee for the highest the contract allows covers every other.  *)

LEMMA FeeGrows ==
  ASSUME NEW amount \in Nat, NEW rate \in Nat, NEW top \in Nat, rate <= top,
         NEW denom \in Nat, top < denom
  PROVE  NetOfFee(amount, rate, denom) >= NetOfFee(amount, top, denom)
<1> DEFINE fee == CalculateFee(amount, rate, denom)
           most == CalculateFee(amount, top, denom)
<1>1. fee = MulDivCeil(amount, rate, denom) /\ most = MulDivCeil(amount, top, denom)
  BY DEF CalculateFee
<1>2. denom > 0
  OBVIOUS
<1> HIDE DEF fee, most
<1>3. fee \in Nat /\ most \in Nat /\ amount * top <= denom * most
  BY <1>1, <1>2, CeilBounds
<1>4. amount * rate <= amount * top
  BY ProductMonotone
<1>5. /\ amount * rate \in Nat /\ amount * top \in Nat /\ denom * most \in Nat
  BY <1>3, ProductNat
<1>6. amount * rate <= denom * most
  BY <1>3, <1>4, <1>5
<1>7. fee <= most
  BY <1>1, <1>2, <1>3, <1>6, CeilAdjunction
<1>8. amount - fee >= amount - most
  BY <1>3, <1>7
<1> QED
  BY <1>8 DEF NetOfFee, fee, most

LEMMA TopFee ==
  /\ MAX_FEE \in Nat /\ FEE_DENOMINATOR \in Nat /\ MAX_FEE < FEE_DENOMINATOR
  /\ FEE_DENOMINATOR - MAX_FEE \in Nat /\ FEE_DENOMINATOR - MAX_FEE > 0
  BY BookAssumption

(* A ceiling is nothing only where there is nothing to divide.              *)
LEMMA CeilPositive ==
  ASSUME NEW a \in Nat \ {0}, NEW b \in Nat \ {0}, NEW d \in Nat, d > 0
  PROVE  MulDivCeil(a, b, d) > 0
<1>1. MulDivCeil(a, b, d) \in Nat
  BY CeilBounds
<1>2. MulDivCeil(a, b, d) <= 0 <=> a * b <= d * 0
  BY CeilAdjunction
<1>3. a * b > 0
  <2>1. a * 1 <= a * b
    BY ProductMonotone
  <2>2. a * 1 = a /\ a * b \in Nat
    BY ProductNat
  <2> QED
    BY <2>1, <2>2
<1>4. d * 0 = 0
  OBVIOUS
<1>5. a * b \in Nat
  BY ProductNat
<1> QED
  BY <1>1, <1>2, <1>3, <1>4, <1>5

LEMMA CostTyped ==
  ASSUME NEW o, Sellable(o), o.price_mode = "Fixed", NEW fill \in Nat
  PROVE  /\ Cost(o, fill) \in Nat
         /\ fill > 0 => Cost(o, fill) > 0 /\ Covers(o, fill, Cost(o, fill))
<1> DEFINE floor == o.min_amount_out
           whole == o.amount_in
           least == MulDivCeil(floor, fill, whole)
           keep == FEE_DENOMINATOR - MAX_FEE
           gross == Cost(o, fill)
<1>1. floor \in Nat \ {0} /\ whole \in Nat /\ whole > 0
  BY ModeTerms
<1>2. RequiredPayment(o, fill) = least
  BY DEF RequiredPayment
<1>3. gross = GrossForNet(least, MAX_FEE, FEE_DENOMINATOR) /\ gross = MulDivCeil(least, FEE_DENOMINATOR, keep)
  BY DEF Cost, GrossForNet
<1> HIDE DEF floor, whole, gross
<1>4. least \in Nat
  BY <1>1, CeilBounds
<1>5. fill > 0 => least > 0
  BY <1>1, CeilPositive
<1> HIDE DEF least
<1>6. /\ keep \in Nat /\ keep > 0 /\ MAX_FEE \in Nat /\ FEE_DENOMINATOR \in Nat \ {0}
      /\ MAX_FEE < FEE_DENOMINATOR
  BY TopFee
<1> HIDE DEF keep
<1>7. gross \in Nat
  BY <1>3, <1>4, <1>6, CeilBounds
<1>8. ASSUME fill > 0 PROVE gross > 0
  <2>1. least \in Nat \ {0}
    BY <1>4, <1>5, <1>8
  <2> QED
    BY <1>3, <1>6, <2>1, CeilPositive
<1>9. NetOfFee(gross, cfg.fee, FEE_DENOMINATOR) >= least
  <2>1. gross >= GrossForNet(least, MAX_FEE, FEE_DENOMINATOR)
    BY <1>3, <1>7
  <2>2. NetOfFee(gross, MAX_FEE, FEE_DENOMINATOR) >= least
    BY <1>4, <1>6, <1>7, <2>1, GrossForNetExact
  <2>3. cfg.fee \in Nat /\ cfg.fee <= MAX_FEE
    BY <1>6 DEF Sellable
  <2>4. NetOfFee(gross, cfg.fee, FEE_DENOMINATOR) >= NetOfFee(gross, MAX_FEE, FEE_DENOMINATOR)
    BY <1>6, <1>7, <2>3, FeeGrows
  <2>5. /\ NetOfFee(gross, cfg.fee, FEE_DENOMINATOR) \in Nat
        /\ NetOfFee(gross, MAX_FEE, FEE_DENOMINATOR) \in Nat
    <3>1. cfg.fee < FEE_DENOMINATOR
      BY <1>6, <2>3
    <3>2. /\ NetOfFee(gross, cfg.fee, FEE_DENOMINATOR) \in 0..gross
          /\ NetOfFee(gross, MAX_FEE, FEE_DENOMINATOR) \in 0..gross
      BY <1>6, <1>7, <2>3, <3>1, FeeBounds
    <3> QED
      BY <1>7, <3>2
  <2> QED
    BY <1>4, <2>2, <2>4, <2>5
<1>10. fill > 0 => Covers(o, fill, gross)
  BY <1>2, <1>5, <1>7, <1>9 DEF Covers
<1> QED
  BY <1>7, <1>8, <1>10 DEF gross

(* The estimate is never short: what the budget pays for is within it.      *)
LEMMA BudgetBuys ==
  ASSUME NEW o, Sellable(o), o.price_mode = "Fixed", NEW budget \in Nat, NEW fill \in Nat,
         Cost(o, fill) <= budget
  PROVE  fill <= MulDivFloor(MulDivFloor(budget, FEE_DENOMINATOR - MAX_FEE, FEE_DENOMINATOR),
                             o.amount_in, o.min_amount_out)
<1> DEFINE floor == o.min_amount_out
           whole == o.amount_in
           keep == FEE_DENOMINATOR - MAX_FEE
           unit == FEE_DENOMINATOR
           least == MulDivCeil(floor, fill, whole)
           net == MulDivFloor(budget, keep, unit)
           most == MulDivFloor(net, whole, floor)
<1>1. floor \in Nat /\ floor > 0 /\ whole \in Nat /\ whole > 0
  BY ModeTerms
<1>2. MulDivCeil(least, unit, keep) <= budget
  BY DEF Cost, GrossForNet
<1>3. keep \in Nat /\ keep > 0 /\ unit \in Nat /\ unit > 0
  BY TopFee
<1> HIDE DEF floor, whole, keep, unit
<1>4. least \in Nat /\ floor * fill <= whole * least
  BY <1>1, CeilBounds
<1> HIDE DEF least
<1>5. net \in Nat /\ budget * keep < unit * net + unit
  BY <1>3, FloorBounds
<1> HIDE DEF net
<1>6. most \in Nat /\ net * whole < floor * most + floor
  BY <1>1, <1>5, FloorBounds
<1> HIDE DEF most
<1>7. least <= net
  <2>1. least * unit <= keep * budget
    BY <1>2, <1>3, <1>4, CeilAdjunction
  <2>2. unit * least = least * unit /\ keep * budget = budget * keep
    BY <1>3, <1>4
  <2>3. /\ unit * least \in Nat /\ budget * keep \in Nat /\ unit * net \in Nat
    BY <1>3, <1>4, <1>5, ProductNat
  <2>4. unit * least < unit * net + unit
    BY <1>3, <1>5, <2>1, <2>2, <2>3
  <2> QED
    BY <1>3, <1>4, <1>5, <2>4, Cancel
<1>8. fill <= most
  <2>1. whole * least <= whole * net
    BY <1>1, <1>4, <1>5, <1>7, ProductMonotone
  <2>2. net * whole = whole * net
    BY <1>1, <1>5
  <2>3. /\ floor * fill \in Nat /\ whole * least \in Nat /\ whole * net \in Nat
        /\ floor * most \in Nat
    BY <1>1, <1>4, <1>5, <1>6, ProductNat
  <2>4. floor * fill < floor * most + floor
    BY <1>1, <1>4, <1>6, <2>1, <2>2, <2>3
  <2> QED
    BY <1>1, <1>6, <2>4, Cancel
<1> QED
  BY <1>8 DEF most, net, unit, keep, whole, floor

(* What a plan takes of an order is within the budget, and one unit more    *)
(* would not be, unless it is all there is.                                 *)
LEMMA FillForBest ==
  ASSUME NEW o, Sellable(o), o.price_mode = "Fixed", NEW budget \in Nat
  PROVE  LET fill == FillFor(o, budget)
         IN  /\ fill \in 0..o.amount_in_remaining
             /\ fill # 0 => Cost(o, fill) <= budget
             /\ fill = o.amount_in_remaining \/ Cost(o, fill + 1) > budget
<1> DEFINE left == o.amount_in_remaining
           most == MulDivFloor(MulDivFloor(budget, FEE_DENOMINATOR - MAX_FEE, FEE_DENOMINATOR),
                               o.amount_in, o.min_amount_out)
           start == Min({most, left})
           S == {0} \union {f \in 1..start : Cost(o, f) <= budget}
           part == PartOf(o, budget)
<1>1. left \in Nat /\ most \in Nat
  <2> DEFINE keep == FEE_DENOMINATOR - MAX_FEE
             net == MulDivFloor(budget, keep, FEE_DENOMINATOR)
             whole == o.amount_in
             floor == o.min_amount_out
  <2>1. left \in Nat /\ whole \in Nat /\ floor \in Nat /\ floor > 0
    BY ModeTerms
  <2>2. keep \in Nat /\ FEE_DENOMINATOR \in Nat /\ FEE_DENOMINATOR > 0
    BY TopFee
  <2> HIDE DEF keep, whole, floor
  <2>3. net \in Nat
    BY <2>2, FloorBounds
  <2> HIDE DEF net
  <2>4. MulDivFloor(net, whole, floor) \in Nat
    BY <2>1, <2>3, FloorBounds
  <2> QED
    BY <2>1, <2>4 DEF net, keep, whole, floor
<1>2. part = Max(S)
  BY DEF PartOf
<1>3. \A f \in Nat : Cost(o, f) <= budget => f <= most
  BY BudgetBuys
<1>4. \A f \in Nat : Cost(o, f) \in Nat
  BY CostTyped
<1>5. FillFor(o, budget) = IF Cost(o, left) <= budget THEN left ELSE part
  BY DEF FillFor
<1> HIDE DEF left, most, part
<1>6. start \in 0..left /\ start \in {most, left}
  BY <1>1, MinOfTwo
<1> HIDE DEF start
<1>7. S \subseteq 0..start /\ S # {} /\ start \in Nat
  BY <1>1, <1>6
<1>8. part \in S /\ \A f \in S : part >= f
  BY <1>2, <1>7, MaxInside
<1>9. part \in 0..left /\ part \in Nat /\ part <= start
  BY <1>1, <1>6, <1>7, <1>8
<1>10. part # 0 => Cost(o, part) <= budget
  BY <1>8
<1>11. part = left \/ Cost(o, part + 1) > budget
  <2>1. SUFFICES ASSUME part # left, Cost(o, part + 1) <= budget PROVE FALSE
    BY <1>4, <1>9
  <2>2. part + 1 <= most /\ part + 1 <= left
    BY <1>1, <1>3, <1>9, <2>1
  <2>3. part + 1 \in 1..start
    BY <1>1, <1>6, <1>9, <2>2
  <2>4. part + 1 \in S
    BY <2>1, <2>3
  <2> HIDE DEF S
  <2>5. part >= part + 1
    BY <1>8, <2>4
  <2> QED
    BY <1>9, <2>5
<1>12. CASE Cost(o, left) <= budget
  BY <1>1, <1>5, <1>12 DEF left
<1>13. CASE ~ (Cost(o, left) <= budget)
  <2>1. FillFor(o, budget) = part
    BY <1>5, <1>13
  <2> QED
    BY <1>9, <1>10, <1>11, <2>1 DEF left
<1> QED
  BY <1>12, <1>13

-----------------------------------------------------------------------------
(* A plan's steps are well defined.                                         *)
IsPlan(f, ids, n, amount) ==
  f = [k \in 0..n |-> IF k = 0 THEN NoQuote ELSE PlanOrder(f[k - 1], ids[k], amount)]

LEMMA PlanStepsUnfold ==
  ASSUME NEW ids, Len(ids) \in Nat, NEW amount
  PROVE  IsPlan(PlanSteps(ids, amount), ids, Len(ids), amount)
<1>1. ASSUME NEW n \in Nat PROVE \E f : IsPlan(f, ids, n, amount)
  <2> DEFINE bad == {k \in Nat : ~ \E f : IsPlan(f, ids, k, amount)}
  <2>1. SUFFICES ASSUME bad # {} PROVE FALSE
    OBVIOUS
  <2>2. PICK m \in bad : \A k \in bad : m <= k
    <3>1. bad \subseteq Nat
      OBVIOUS
    <3> HIDE DEF bad
    <3> QED
      BY <2>1, <3>1, LeastNatural
  <2>3. m \in Nat /\ ~ \E f : IsPlan(f, ids, m, amount)
    OBVIOUS
  <2>4. CASE m = 0
    <3> DEFINE g == [k \in 0..m |-> NoQuote]
    <3>1. IsPlan(g, ids, m, amount)
      BY <2>4 DEF IsPlan
    <3> HIDE DEF g
    <3> QED
      BY <2>3, <3>1
  <2>5. CASE m # 0
    <3>1. m - 1 \in Nat /\ m - 1 \notin bad
      BY <2>2, <2>3, <2>5
    <3>2. PICK f : IsPlan(f, ids, m - 1, amount)
      BY <3>1
    <3> DEFINE g == [k \in 0..m |->
                       IF k = m THEN PlanOrder(f[m - 1], ids[m], amount) ELSE f[k]]
    <3>3. \A k \in 0..(m - 1) :
            f[k] = IF k = 0 THEN NoQuote ELSE PlanOrder(f[k - 1], ids[k], amount)
      BY <3>2 DEF IsPlan
    <3>4. \A k \in 0..m :
            g[k] = IF k = 0 THEN NoQuote ELSE PlanOrder(g[k - 1], ids[k], amount)
      <4>1. TAKE k \in 0..m
      <4>2. CASE k = m
        <5>1. m - 1 \in 0..m /\ m - 1 # m
          BY <2>3, <2>5
        <5>2. g[m - 1] = f[m - 1] /\ g[m] = PlanOrder(f[m - 1], ids[m], amount)
          BY <5>1, <4>2
        <5> HIDE DEF g
        <5> QED
          BY <2>5, <4>2, <5>2
      <4>3. CASE k # m /\ k = 0
        <5>1. g[k] = f[k] /\ k \in 0..(m - 1)
          BY <2>3, <4>1, <4>3
        <5> HIDE DEF g
        <5> QED
          BY <3>3, <4>3, <5>1
      <4>4. CASE k # m /\ k # 0
        <5>1. k \in 0..(m - 1) /\ k - 1 \in 0..m /\ k - 1 # m
          BY <2>3, <4>1, <4>4
        <5>2. g[k] = f[k] /\ g[k - 1] = f[k - 1]
          BY <4>1, <4>4, <5>1
        <5>3. f[k] = PlanOrder(f[k - 1], ids[k], amount)
          BY <3>3, <4>4, <5>1
        <5> HIDE DEF g
        <5> QED
          BY <4>4, <5>2, <5>3
      <4> QED
        BY <4>2, <4>3, <4>4
    <3>5. g = [k \in 0..m |-> g[k]]
      OBVIOUS
    <3> HIDE DEF g
    <3>6. IsPlan(g, ids, m, amount)
      BY <3>4, <3>5 DEF IsPlan
    <3> QED
      BY <2>3, <3>6
  <2> QED
    BY <2>4, <2>5
<1>2. \E f : f = [k \in 0..Len(ids) |-> IF k = 0 THEN NoQuote
                                        ELSE PlanOrder(f[k - 1], ids[k], amount)]
  BY <1>1 DEF IsPlan
<1> QED
  BY <1>2 DEF PlanSteps, IsPlan

LEMMA PlanStepIs ==
  ASSUME NEW ids, Len(ids) \in Nat, NEW amount
  PROVE  LET plan == PlanSteps(ids, amount)
         IN  /\ plan[0] = NoQuote
             /\ \A k \in 1..Len(ids) : plan[k] = PlanOrder(plan[k - 1], ids[k], amount)
<1> DEFINE plan == PlanSteps(ids, amount)
           n == Len(ids)
<1>1. IsPlan(plan, ids, n, amount)
  BY PlanStepsUnfold
<1>2. n \in Nat
  OBVIOUS
<1> HIDE DEF plan, n
<1>3. \A k \in 0..n :
        plan[k] = IF k = 0 THEN NoQuote ELSE PlanOrder(plan[k - 1], ids[k], amount)
  BY <1>1 DEF IsPlan
<1>4. plan[0] = NoQuote
  BY <1>2, <1>3
<1>5. \A k \in 1..n : plan[k] = PlanOrder(plan[k - 1], ids[k], amount)
  BY <1>2, <1>3
<1> QED
  BY <1>4, <1>5 DEF plan, n

-----------------------------------------------------------------------------
(* The orders a plan goes through: every candidate once, organic ones first.*)

(* A set in order misses none of its members.                               *)
LEMMA InOrderOnto ==
  ASSUME NEW ids, ids \subseteq Nat, IsFiniteSet(ids)
  PROVE  \A id \in ids : \E i \in 1..Cardinality(ids) : InOrder(ids)[i] = id
<1> DEFINE s == InOrder(ids)
           n == Cardinality(ids)
<1>1. /\ s \in [1..n -> ids] /\ \A i, j \in 1..n : i < j => s[i] < s[j]
  <2>1. Enumerates(s, ids)
    BY InOrderAscends
  <2> HIDE DEF s
  <2> QED
    BY <2>1 DEF Enumerates
<1>2. n \in Nat
  BY FS_CardinalityType
<1>3. IsFiniteSet(1..n) /\ Cardinality(1..n) = n
  <2>1. Cardinality(1..n) = IF 1 > n THEN 0 ELSE n - 1 + 1
    BY <1>2, FS_Interval
  <2> QED
    BY <1>2, <2>1, FS_Interval
<1> HIDE DEF s
<1>4. s \in Injection(1..n, ids)
  <2>1. ASSUME NEW i \in 1..n, NEW j \in 1..n, s[i] = s[j] PROVE i = j
    <3>1. s[i] \in Nat /\ s[j] \in Nat
      BY <1>1
    <3>2. ~ (s[i] < s[j]) /\ ~ (s[j] < s[i])
      BY <2>1, <3>1
    <3>3. ~ (i < j) /\ ~ (j < i)
      BY <1>1, <3>2
    <3> QED
      BY <1>2, <3>3
  <2> QED
    BY <1>1, <2>1 DEF Injection, IsInjective
<1>5. s \in Surjection(1..n, ids)
  BY <1>3, <1>4, FS_Injection
<1> QED
  BY <1>5 DEF Surjection, s

Ours(id) == book.orders[id].maker \in SDF_LIQUIDITY_WALLETS

PeerIds(ids, n, taker, in, out) ==
  /\ QuoteIds(ids, n, out, in)
  /\ \A i \in 1..n : IsCandidate(book.orders[ids[i]], taker)
  /\ \A id \in Candidates(taker, in, out) : \E i \in 1..n : ids[i] = id
  /\ \A i, j \in 1..n : Ours(ids[i]) /\ ~ Ours(ids[j]) => j < i

(* Two lists, one after the other.                                          *)
Joins(st, s, m, t, n) ==
  /\ Len(st) = m + n
  /\ \A i \in 1..m : st[i] = s[i]
  /\ \A i \in (m + 1)..(m + n) : i - m \in 1..n /\ st[i] = t[i - m]

LEMMA Concatenated ==
  ASSUME NEW m \in Nat, NEW n \in Nat, NEW S, NEW T,
         NEW s \in [1..m -> S], NEW t \in [1..n -> T]
  PROVE  Joins(s \o t, s, m, t, n)
<1>1. s \in Seq(S \union T) /\ t \in Seq(S \union T)
  OBVIOUS
<1>2. Len(s) = m /\ Len(t) = n
  OBVIOUS
<1>3. Len(s \o t) = m + n
  BY <1>1, <1>2
<1>4. \A i \in 1..m : (s \o t)[i] = s[i]
  BY <1>1, <1>2
<1>5. ASSUME NEW i \in (m + 1)..(m + n) PROVE i - m \in 1..n /\ (s \o t)[i] = t[i - m]
  BY <1>1, <1>2
<1> QED
  BY <1>3, <1>4, <1>5 DEF Joins

LEMMA ReverseIds ==
  ASSUME Inv, CallInv, NEW taker \in Accounts, NEW in \in Tokens, NEW out \in Tokens,
         \A id \in Candidates(taker, in, out) : seq <= book.orders[id].expiry
  PROVE  LET ids == ReverseOrders(taker, in, out)
         IN  PeerIds(ids, Len(ids), taker, in, out)
<1> DEFINE all == Candidates(taker, in, out)
           own == OwnOrders(all)
           organic == all \ own
           m == Cardinality(organic)
           n == Cardinality(own)
           s == InOrder(organic)
           t == InOrder(own)
           ids == ReverseOrders(taker, in, out)
<1>1. /\ BookInv(book) /\ book \in BookState /\ Sensible(book) /\ OracleTypeOK
      /\ cfg.fee \in 0..MAX_FEE /\ IndexesExact(book)
  BY DEF Inv, CallInv, BookInv, Config
<1>2. <<out, in>> \in Pairs
  BY DEF Pairs
<1>3. /\ IsFiniteSet(book.index[<<out, in>>])
      /\ book.index[<<out, in>>] = {id \in OrderIds(book) : IsOpen(book.orders[id])
                                      /\ Pair(book.orders[id]) = <<out, in>>}
  <2>1. IsFiniteSet(book.index[<<out, in>>])
    BY <1>1, <1>2, IndexFinite
  <2>2. \A p \in Pairs : book.index[p] = {id \in OrderIds(book) : IsOpen(book.orders[id])
                                            /\ Pair(book.orders[id]) = p}
    BY <1>1 DEF IndexesExact
  <2> QED
    BY <1>2, <2>1, <2>2
<1>4. ASSUME NEW id \in all
      PROVE  /\ id \in OrderIds(book) /\ id \in Nat
             /\ Sellable(book.orders[id]) /\ IsOpen(book.orders[id])
             /\ seq <= book.orders[id].expiry
             /\ book.orders[id].token_in = out /\ book.orders[id].token_out = in
             /\ IsCandidate(book.orders[id], taker)
  <2>1. /\ id \in book.index[<<out, in>>] /\ IsCandidate(book.orders[id], taker)
    BY DEF Candidates
  <2>2. id \in OrderIds(book) /\ Pair(book.orders[id]) = <<out, in>>
    BY <1>3, <2>1
  <2>3. id \in Nat
    <3>1. book.orders \in Seq(Order)
      BY <1>1, BookFields
    <3>2. Len(book.orders) \in Nat /\ OrderIds(book) = 1..Len(book.orders)
      BY <3>1 DEF OrderIds
    <3> QED
      BY <2>2, <3>2
  <2>4. book.orders[id].token_in = out /\ book.orders[id].token_out = in
    BY <2>2 DEF Pair
  <2>5. book.orders[id] \in Order
    BY <1>1, <2>2, OrderTyped
  <2>6. SensibleTerms(book.orders[id])
    BY <1>1, <2>2 DEF Sensible
  <2>7. IsOpen(book.orders[id]) /\ book.orders[id].price_mode = "Fixed"
    BY <2>1 DEF IsCandidate
  <2>8. Priced(book.orders[id])
    BY <2>7 DEF Priced
  <2>9. Sellable(book.orders[id])
    BY <1>1, <2>5, <2>6, <2>8 DEF Sellable
  <2> QED
    BY <2>1, <2>2, <2>3, <2>4, <2>7, <2>9
<1>5. all \subseteq Nat /\ IsFiniteSet(all)
  <2>1. all \subseteq Nat
    BY <1>4
  <2>2. all \subseteq book.index[<<out, in>>]
    BY DEF Candidates
  <2> HIDE DEF all
  <2> QED
    BY <1>3, <2>1, <2>2, FS_Subset
<1>6. /\ own \subseteq all /\ \A id \in own : Ours(id)
      /\ \A id \in organic : id \in all /\ ~ Ours(id)
  BY DEF OwnOrders, Ours
<1>7. ids = s \o t
  BY DEF ReverseOrders
<1> HIDE DEF all, own
<1>8. /\ own \subseteq Nat /\ IsFiniteSet(own)
      /\ organic \subseteq Nat /\ IsFiniteSet(organic) /\ all = organic \union own
  BY <1>5, <1>6, FS_Subset
<1> HIDE DEF organic, ids
<1>9. m \in Nat /\ n \in Nat
  BY <1>8, FS_CardinalityType
<1>10. /\ s \in [1..m -> organic] /\ \A i, j \in 1..m : i < j => s[i] < s[j]
  <2>1. Enumerates(s, organic)
    BY <1>8, InOrderAscends
  <2> HIDE DEF s
  <2> QED
    BY <2>1 DEF Enumerates
<1>11. /\ t \in [1..n -> own] /\ \A i, j \in 1..n : i < j => t[i] < t[j]
  <2>1. Enumerates(t, own)
    BY <1>8, InOrderAscends
  <2> HIDE DEF t
  <2> QED
    BY <2>1 DEF Enumerates
<1>12. /\ \A id \in organic : \E i \in 1..m : s[i] = id
       /\ \A id \in own : \E i \in 1..n : t[i] = id
  BY <1>8, InOrderOnto
<1> HIDE DEF m, n, s, t
<1>13. /\ Len(ids) = m + n
       /\ \A i \in 1..m : ids[i] = s[i]
       /\ \A i \in (m + 1)..(m + n) : i - m \in 1..n /\ ids[i] = t[i - m]
  <2>1. s \in [1..m -> organic] /\ t \in [1..n -> own]
    BY <1>10, <1>11
  <2>2. Joins(s \o t, s, m, t, n)
    BY <1>9, <2>1, Concatenated
  <2>3. Joins(ids, s, m, t, n)
    BY <1>7, <2>2
  <2> QED
    BY <2>3 DEF Joins
<1>14. ASSUME NEW i \in 1..Len(ids)
       PROVE  \/ i \in 1..m /\ ids[i] \in organic
              \/ i \in (m + 1)..(m + n) /\ ids[i] \in own
  <2>1. i \in 1..m \/ i \in (m + 1)..(m + n)
    BY <1>9, <1>13
  <2>2. ASSUME i \in 1..m PROVE ids[i] \in organic
    BY <1>10, <1>13, <2>2
  <2>3. ASSUME i \in (m + 1)..(m + n) PROVE ids[i] \in own
    BY <1>11, <1>13, <2>3
  <2> QED
    BY <2>1, <2>2, <2>3
<1>15. \A i \in 1..Len(ids) : ids[i] \in all
  BY <1>8, <1>14
<1>16. Len(ids) \in Nat
  BY <1>9, <1>13
<1>17. ASSUME NEW i \in 1..Len(ids), NEW j \in 1..Len(ids), i < j PROVE ids[i] # ids[j]
  <2>1. CASE j \in 1..m
    <3>1. i \in 1..m
      BY <1>9, <1>17, <2>1
    <3>2. s[i] \in Nat /\ s[j] \in Nat /\ s[i] < s[j]
      BY <1>8, <1>10, <1>17, <2>1, <3>1
    <3> QED
      BY <1>13, <2>1, <3>1, <3>2
  <2>2. CASE i \in (m + 1)..(m + n)
    <3>1. j \in (m + 1)..(m + n)
      BY <1>9, <1>13, <1>17, <2>2
    <3>2. i - m \in 1..n /\ j - m \in 1..n /\ i - m < j - m
      BY <1>9, <1>13, <1>17, <2>2, <3>1
    <3>3. t[i - m] \in Nat /\ t[j - m] \in Nat /\ t[i - m] < t[j - m]
      BY <1>8, <1>11, <3>2
    <3>4. ids[i] = t[i - m] /\ ids[j] = t[j - m]
      BY <1>13, <2>2, <3>1
    <3> QED
      BY <3>3, <3>4
  <2>3. CASE j \notin 1..m /\ i \notin (m + 1)..(m + n)
    <3>1. ids[i] \in organic /\ ids[j] \in own
      BY <1>14, <2>3
    <3> QED
      BY <1>6, <3>1
  <2> QED
    BY <2>1, <2>2, <2>3
<1>18. QuoteIds(ids, Len(ids), out, in)
  BY <1>4, <1>15, <1>16, <1>17 DEF QuoteIds
<1>19. \A i \in 1..Len(ids) : IsCandidate(book.orders[ids[i]], taker)
  BY <1>4, <1>15
<1>20. ASSUME NEW id \in all PROVE \E i \in 1..Len(ids) : ids[i] = id
  <2>1. CASE id \in organic
    <3>1. PICK i \in 1..m : s[i] = id
      BY <1>12, <2>1
    <3>2. i \in 1..Len(ids) /\ ids[i] = id
      BY <1>9, <1>13, <3>1
    <3> QED
      BY <3>2
  <2>2. CASE id \in own
    <3>1. PICK i \in 1..n : t[i] = id
      BY <1>12, <2>2
    <3>2. /\ i + m \in 1..Len(ids) /\ i + m \in (m + 1)..(m + n) /\ (i + m) - m = i
      BY <1>9, <1>13, <3>1
    <3>3. ids[i + m] = id
      BY <1>13, <3>1, <3>2
    <3> QED
      BY <3>2, <3>3
  <2> QED
    BY <1>8, <2>1, <2>2
<1>21. ASSUME NEW i \in 1..Len(ids), NEW j \in 1..Len(ids), Ours(ids[i]), ~ Ours(ids[j])
       PROVE  j < i
  <2>1. ids[i] \notin organic /\ ids[j] \notin own
    BY <1>6, <1>21
  <2>2. i \in (m + 1)..(m + n) /\ j \in 1..m
    BY <1>14, <2>1
  <2> QED
    BY <1>9, <2>2
<1> QED
  BY <1>18, <1>19, <1>20, <1>21 DEF PeerIds, all, ids

-----------------------------------------------------------------------------
(* One order more                                                           *)

(* What a plan takes of the k-th order with what the ones before it left.   *)
Taken(plan, ids, k, amount) == FillFor(book.orders[ids[k]], amount - plan[k - 1].paid)

Entry(plan, ids, k, amount) ==
  LET fill == Taken(plan, ids, k, amount)
  IN [id |-> ids[k], fill |-> fill, out |-> Cost(book.orders[ids[k]], fill)]

(* A step's fill is the best the rest of the budget buys, noted and paid    *)
(* for.                                                                     *)
Advances(plan, ids, k, amount) ==
  LET fill == Taken(plan, ids, k, amount)
      x == Entry(plan, ids, k, amount)
      o == book.orders[ids[k]]
  IN  /\ QuoteTyped(plan[k], amount)
      /\ fill \in 0..o.amount_in_remaining
      /\ fill = o.amount_in_remaining \/ Cost(o, fill + 1) > amount - plan[k - 1].paid
      /\ fill = 0 => plan[k] = plan[k - 1]
      /\ fill # 0 => /\ x \in QuotedFills /\ x.out > 0
                     /\ plan[k].paid = plan[k - 1].paid + x.out
                     /\ plan[k].fills = Append(plan[k - 1].fills, x)

(* And it is accepted where the fills before it left the book.              *)
LEMMA PlanGrows ==
  ASSUME NEW amount \in Nat, NEW buy \in Tokens, NEW pay \in Tokens, NEW ids, NEW n,
         QuoteIds(ids, n, buy, pay), Inv, NEW k \in 1..n,
         book.orders[ids[k]].price_mode = "Fixed",
         NEW plan, QuoteTyped(plan[k - 1], amount),
         plan[k] = PlanOrder(plan[k - 1], ids[k], amount)
  PROVE  /\ Advances(plan, ids, k, amount)
         /\ \A taker \in Accounts : Reached(plan[k - 1], k - 1, ids, n, taker, buy, pay)
                                      => Reached(plan[k], k, ids, n, taker, buy, pay)
<1> DEFINE q == plan[k - 1]
           more == plan[k]
           id == ids[k]
           o == book.orders[id]
           fill == Taken(plan, ids, k, amount)
           gross == Cost(o, fill)
           x == Entry(plan, ids, k, amount)
<1>1. /\ q.paid \in 0..amount /\ q.paid \in Nat /\ amount - q.paid \in Nat
      /\ q.bought \in Nat /\ q.fills \in Seq(QuotedFills)
  BY DEF QuoteTyped
<1>2. Sellable(o) /\ id \in Nat /\ n \in Nat /\ o.price_mode = "Fixed"
  BY DEF QuoteIds
<1>3. fill = FillFor(o, amount - q.paid)
  BY DEF Taken
<1>4. x = [id |-> id, fill |-> fill, out |-> gross]
  BY DEF Entry
<1>5. /\ fill = 0 => more = q
      /\ fill # 0 => more = [bought |-> q.bought + fill, paid |-> q.paid + gross,
                             fills |-> Append(q.fills, x)]
  <2>1. more = Planned(q, id, fill)
    BY <1>3 DEF PlanOrder
  <2> HIDE DEF fill, more, q
  <2> QED
    BY <1>4, <2>1 DEF Planned
<1> HIDE DEF q, fill, more, x
<1>6. /\ fill \in 0..o.amount_in_remaining /\ o.amount_in_remaining \in Nat
      /\ fill # 0 => gross <= amount - q.paid
      /\ fill = o.amount_in_remaining \/ Cost(o, fill + 1) > amount - q.paid
  <2> HIDE DEF o
  <2> QED
    BY <1>1, <1>2, <1>3, FillForBest, ModeTerms
<1>7. fill \in Nat /\ gross \in Nat /\ (fill # 0 => gross > 0 /\ Covers(o, fill, gross))
  <2>1. fill \in Nat
    BY <1>6
  <2> HIDE DEF o
  <2> QED
    BY <1>2, <2>1, CostTyped
<1>8. CASE fill = 0
  <2>1. more = q
    BY <1>5, <1>8
  <2>2. ASSUME NEW taker \in Accounts, Reached(q, k - 1, ids, n, taker, buy, pay)
        PROVE  Reached(q, k, ids, n, taker, buy, pay)
    <3>1. \A j \in (k + 1)..n : j \in ((k - 1) + 1)..n
      BY <1>2
    <3> QED
      BY <2>2, <3>1 DEF Reached
  <2>3. QuoteTyped(q, amount)
    BY DEF q
  <2> QED
    BY <1>6, <1>8, <2>1, <2>2, <2>3 DEF Advances, q, more, fill
<1>9. CASE fill # 0
  <2>1. fill \in 1..o.amount_in_remaining /\ fill \in Nat \ {0} /\ gross <= amount - q.paid
    BY <1>6, <1>7, <1>9
  <2>2. x \in QuotedFills
    BY <1>2, <1>4, <1>7, <2>1 DEF QuotedFills
  <2>3. /\ more.bought = q.bought + fill /\ more.paid = q.paid + gross
        /\ more.fills = Append(q.fills, x)
    BY <1>5, <1>9
  <2>4. x.out = gross
    BY <1>4
  <2> HIDE DEF gross
  <2>5. QuoteTyped(more, amount)
    <3>1. q.paid + gross \in 0..amount /\ q.bought + fill \in Nat
      BY <1>1, <1>7, <2>1
    <3>2. Append(q.fills, x) \in Seq(QuotedFills)
      BY <1>1, <2>2
    <3> QED
      BY <2>3, <3>1, <3>2 DEF QuoteTyped
  <2>6. ASSUME NEW taker \in Accounts, Reached(q, k - 1, ids, n, taker, buy, pay)
        PROVE  Reached(more, k, ids, n, taker, buy, pay)
    <3>1. /\ fill \in 1..book.orders[ids[k]].amount_in_remaining
          /\ Covers(book.orders[ids[k]], fill, gross)
          /\ x = [id |-> ids[k], fill |-> fill, out |-> gross]
      BY <1>4, <1>7, <1>9, <2>1
    <3>2. QuoteTyped(q, amount)
      BY DEF q
    <3> QED
      BY <1>7, <2>2, <2>3, <2>6, <3>1, <3>2, FillReaches
  <2> QED
    BY <1>6, <1>7, <1>9, <2>2, <2>3, <2>4, <2>5, <2>6 DEF Advances, q, more, fill, x
<1> QED
  BY <1>8, <1>9

-----------------------------------------------------------------------------
(* The whole plan                                                           *)

(* A plan made over the orders ids, step after step.                        *)
Steps(plan, ids, n, amount, buy, pay) ==
  /\ QuoteIds(ids, n, buy, pay) /\ amount \in Nat
  /\ \A i \in 1..n : book.orders[ids[i]].price_mode = "Fixed"
  /\ plan[0] = NoQuote
  /\ \A i \in 1..n : plan[i] = PlanOrder(plan[i - 1], ids[i], amount)

(* After k orders the plan's fills are what was taken of each of them; what *)
(* is paid only grows.                                                      *)
Traced(plan, k, ids, amount) ==
  LET q == plan[k]
  IN /\ QuoteTyped(q, amount) /\ AllPaid(q)
     /\ \A j \in DOMAIN q.fills : \E i \in 1..k :
          Taken(plan, ids, i, amount) # 0 /\ q.fills[j] = Entry(plan, ids, i, amount)
     /\ \A i \in 1..k : Taken(plan, ids, i, amount) # 0 =>
          \E j \in DOMAIN q.fills : q.fills[j] = Entry(plan, ids, i, amount)
     /\ \A i \in 0..k : plan[i].paid \in 0..q.paid

LEMMA TraceGrows ==
  ASSUME NEW amount \in Nat, NEW buy \in Tokens, NEW pay \in Tokens, NEW ids, NEW n, NEW plan,
         Steps(plan, ids, n, amount, buy, pay), Inv, NEW k \in 1..n,
         Traced(plan, k - 1, ids, amount)
  PROVE  Traced(plan, k, ids, amount)
<1> DEFINE q == plan[k - 1]
           more == plan[k]
           fill == Taken(plan, ids, k, amount)
           x == Entry(plan, ids, k, amount)
           m == Len(q.fills)
<1>1. k \in Nat /\ k - 1 \in Nat
  BY DEF Steps, QuoteIds
<1>2. /\ QuoteTyped(q, amount) /\ AllPaid(q)
      /\ \A j \in DOMAIN q.fills : \E i \in 1..(k - 1) :
           Taken(plan, ids, i, amount) # 0 /\ q.fills[j] = Entry(plan, ids, i, amount)
      /\ \A i \in 1..(k - 1) : Taken(plan, ids, i, amount) # 0 =>
           \E j \in DOMAIN q.fills : q.fills[j] = Entry(plan, ids, i, amount)
      /\ \A i \in 0..(k - 1) : plan[i].paid \in 0..q.paid
  BY DEF Traced
<1>3. /\ QuoteTyped(more, amount)
      /\ fill = 0 => more = q
      /\ fill # 0 => /\ x \in QuotedFills /\ x.out > 0
                     /\ more.paid = q.paid + x.out /\ more.fills = Append(q.fills, x)
  <2>1. /\ QuoteIds(ids, n, buy, pay) /\ book.orders[ids[k]].price_mode = "Fixed"
        /\ plan[k] = PlanOrder(plan[k - 1], ids[k], amount)
    BY DEF Steps
  <2>2. Advances(plan, ids, k, amount)
    <3>1. QuoteTyped(plan[k - 1], amount)
      BY <1>2
    <3> QED
      BY <2>1, <3>1, PlanGrows
  <2> QED
    BY <2>2 DEF Advances
<1> HIDE DEF q, more, fill, x
<1>4. CASE fill = 0
  <2>1. more = q
    BY <1>3, <1>4
  <2>2. \A i \in 1..k : Taken(plan, ids, i, amount) # 0 => i \in 1..(k - 1)
    BY <1>1, <1>4 DEF fill
  <2>3. \A i \in 1..(k - 1) : i \in 1..k
    BY <1>1
  <2>4. ASSUME NEW i \in 0..k PROVE plan[i].paid \in 0..more.paid
    <3>1. CASE i = k
      <4>1. more.paid \in Nat
        BY <1>3 DEF QuoteTyped
      <4> QED
        BY <3>1, <4>1 DEF more
    <3>2. CASE i # k
      <4>1. i \in 0..(k - 1)
        BY <1>1, <3>2
      <4> QED
        BY <1>2, <2>1, <4>1
    <3> QED
      BY <3>1, <3>2
  <2>5. \A j \in DOMAIN more.fills : \E i \in 1..k :
          Taken(plan, ids, i, amount) # 0 /\ more.fills[j] = Entry(plan, ids, i, amount)
    BY <1>2, <2>1, <2>3
  <2>6. \A i \in 1..k : Taken(plan, ids, i, amount) # 0 =>
          \E j \in DOMAIN more.fills : more.fills[j] = Entry(plan, ids, i, amount)
    BY <1>2, <2>1, <2>2
  <2> QED
    BY <1>2, <1>3, <2>1, <2>4, <2>5, <2>6 DEF Traced, more
<1>5. CASE fill # 0
  <2>1. q.fills \in Seq(QuotedFills) /\ q.paid \in Nat /\ x.out \in Nat
    BY <1>2, <1>3, <1>5 DEF QuoteTyped, QuotedFills
  <2>2. /\ m \in Nat /\ DOMAIN q.fills = 1..m /\ DOMAIN more.fills = 1..(m + 1)
        /\ more.fills[m + 1] = x /\ \A j \in 1..m : more.fills[j] = q.fills[j]
    BY <1>3, <1>5, <2>1
  <2> HIDE DEF m
  <2>3. \A j \in 1..(m + 1) : j = m + 1 \/ j \in 1..m
    BY <2>2
  <2>4. m + 1 \in 1..(m + 1) /\ \A j \in 1..m : j \in 1..(m + 1)
    BY <2>2
  <2>5. \A i \in 1..(k - 1) : i \in 1..k
    BY <1>1
  <2>6. k \in 1..k /\ \A i \in 1..k : i = k \/ i \in 1..(k - 1)
    BY <1>1
  <2>7. AllPaid(more)
    <3>1. ASSUME NEW j \in 1..(m + 1) PROVE more.fills[j].out > 0
      <4>1. CASE j = m + 1
        BY <1>3, <1>5, <2>2, <4>1
      <4>2. CASE j \in 1..m
        BY <1>2, <2>2, <4>2 DEF AllPaid
      <4> QED
        BY <2>3, <4>1, <4>2
    <3> QED
      BY <2>2, <3>1 DEF AllPaid
  <2>8. ASSUME NEW j \in 1..(m + 1)
        PROVE  \E i \in 1..k : Taken(plan, ids, i, amount) # 0
                               /\ more.fills[j] = Entry(plan, ids, i, amount)
    <3>1. CASE j = m + 1
      <4>1. Taken(plan, ids, k, amount) # 0 /\ more.fills[j] = Entry(plan, ids, k, amount)
        BY <1>5, <2>2, <3>1 DEF fill, x
      <4> QED
        BY <2>6, <4>1
    <3>2. CASE j \in 1..m
      <4>1. PICK i \in 1..(k - 1) : Taken(plan, ids, i, amount) # 0
                                    /\ q.fills[j] = Entry(plan, ids, i, amount)
        BY <1>2, <2>2, <3>2
      <4>2. i \in 1..k /\ more.fills[j] = Entry(plan, ids, i, amount)
        BY <2>2, <2>5, <3>2, <4>1
      <4> QED
        BY <4>1, <4>2
    <3> QED
      BY <2>3, <3>1, <3>2
  <2>9. ASSUME NEW i \in 1..k, Taken(plan, ids, i, amount) # 0
        PROVE  \E j \in 1..(m + 1) : more.fills[j] = Entry(plan, ids, i, amount)
    <3>1. CASE i = k
      BY <2>2, <2>4, <3>1 DEF x
    <3>2. CASE i \in 1..(k - 1)
      <4>1. PICK j \in 1..m : q.fills[j] = Entry(plan, ids, i, amount)
        BY <1>2, <2>2, <2>9, <3>2
      <4> QED
        BY <2>2, <2>4, <4>1
    <3> QED
      BY <2>6, <3>1, <3>2
  <2>10. ASSUME NEW i \in 0..k PROVE plan[i].paid \in 0..more.paid
    <3>1. more.paid \in Nat /\ q.paid <= more.paid
      BY <1>3, <1>5, <2>1
    <3>2. CASE i = k
      BY <3>1, <3>2 DEF more
    <3>3. CASE i # k
      <4>1. i \in 0..(k - 1)
        BY <1>1, <3>3
      <4>2. plan[i].paid \in 0..q.paid
        BY <1>2, <4>1
      <4> QED
        BY <2>1, <3>1, <4>2
    <3> QED
      BY <3>2, <3>3
  <2> QED
    BY <1>3, <2>2, <2>7, <2>8, <2>9, <2>10 DEF Traced, more
<1> QED
  BY <1>4, <1>5

LEMMA PlanTraced ==
  ASSUME NEW amount, NEW buy \in Tokens, NEW pay \in Tokens, NEW ids, NEW n, NEW plan,
         Steps(plan, ids, n, amount, buy, pay), Inv, NEW taker \in Accounts
  PROVE  \A k \in 0..n : Traced(plan, k, ids, amount)
                         /\ Reached(plan[k], k, ids, n, taker, buy, pay)
<1> DEFINE Good(k) == Traced(plan, k, ids, amount)
                      /\ Reached(plan[k], k, ids, n, taker, buy, pay)
<1>1. n \in Nat /\ amount \in Nat /\ plan[0] = NoQuote
  BY DEF Steps, QuoteIds
<1>2. Good(0)
  <2>1. /\ QuoteTyped(NoQuote, amount)
        /\ Reached(NoQuote, 0, ids, n, taker, buy, pay)
    BY <1>1, NothingQuoted
  <2>2. NoQuote.fills = <<>> /\ NoQuote.paid = 0
    BY DEF NoQuote
  <2>3. DOMAIN NoQuote.fills = {} /\ NoQuote.paid \in 0..NoQuote.paid
    BY <2>2
  <2>4. AllPaid(NoQuote)
    BY <2>3 DEF AllPaid
  <2>5. \A i \in 0..0 : plan[i].paid \in 0..NoQuote.paid
    BY <1>1, <2>3
  <2>6. Traced(plan, 0, ids, amount)
    <3>1. \A i \in 1..0 : FALSE
      OBVIOUS
    <3> QED
      BY <1>1, <2>1, <2>3, <2>4, <2>5, <3>1 DEF Traced
  <2> QED
    BY <1>1, <2>1, <2>6
<1>3. ASSUME NEW k \in 1..n, Good(k - 1) PROVE Good(k)
  <2>1. Traced(plan, k - 1, ids, amount) /\ Reached(plan[k - 1], k - 1, ids, n, taker, buy, pay)
    BY <1>3
  <2>2. Traced(plan, k, ids, amount)
    BY <1>1, <2>1, TraceGrows
  <2>3. QuoteTyped(plan[k - 1], amount)
    BY <2>1 DEF Traced
  <2>4. /\ QuoteIds(ids, n, buy, pay) /\ book.orders[ids[k]].price_mode = "Fixed"
        /\ plan[k] = PlanOrder(plan[k - 1], ids[k], amount)
    BY DEF Steps
  <2>5. Reached(plan[k], k, ids, n, taker, buy, pay)
    BY <1>1, <2>1, <2>3, <2>4, PlanGrows
  <2> QED
    BY <2>2, <2>5
<1> HIDE DEF Good
<1>4. \A k \in 0..n : Good(k)
  <2> DEFINE bad == {k \in 0..n : ~ Good(k)}
  <2>1. SUFFICES ASSUME bad # {} PROVE FALSE
    OBVIOUS
  <2>2. PICK u \in bad : \A k \in bad : u <= k
    <3>1. bad \subseteq Nat
      BY <1>1
    <3> HIDE DEF bad
    <3> QED
      BY <2>1, <3>1, LeastNatural
  <2>3. u \in 0..n /\ ~ Good(u)
    OBVIOUS
  <2>4. u # 0
    BY <1>2, <2>3
  <2>5. u \in 1..n /\ u - 1 \in 0..n /\ ~ (u <= u - 1)
    BY <1>1, <2>3, <2>4
  <2>6. Good(u - 1)
    BY <2>2, <2>5
  <2> HIDE DEF bad
  <2> QED
    BY <1>3, <2>3, <2>5, <2>6
<1> QED
  BY <1>4 DEF Good

(* What one step takes and pays, and why it took no more.                   *)
LEMMA StepTakes ==
  ASSUME NEW amount, NEW buy \in Tokens, NEW pay \in Tokens, NEW ids, NEW n, NEW plan,
         Steps(plan, ids, n, amount, buy, pay), Inv, NEW i \in 1..n,
         Traced(plan, i - 1, ids, amount)
  PROVE  LET fill == Taken(plan, ids, i, amount)
             o == book.orders[ids[i]]
         IN  /\ fill \in Nat /\ plan[i].paid \in Nat /\ plan[i - 1].paid \in Nat
             /\ Cost(o, fill) \in Nat /\ Cost(o, fill + 1) \in Nat
             /\ plan[i].paid = plan[i - 1].paid + IF fill = 0 THEN 0 ELSE Cost(o, fill)
             /\ fill = o.amount_in_remaining \/ Cost(o, fill + 1) > amount - plan[i - 1].paid
<1> DEFINE fill == Taken(plan, ids, i, amount)
           o == book.orders[ids[i]]
           x == Entry(plan, ids, i, amount)
           before == plan[i - 1].paid
           after == plan[i].paid
<1>1. /\ QuoteIds(ids, n, buy, pay) /\ amount \in Nat /\ o.price_mode = "Fixed"
      /\ plan[i] = PlanOrder(plan[i - 1], ids[i], amount)
  BY DEF Steps
<1>2. QuoteTyped(plan[i - 1], amount)
  BY DEF Traced
<1>3. /\ QuoteTyped(plan[i], amount) /\ fill \in 0..o.amount_in_remaining
      /\ fill = o.amount_in_remaining \/ Cost(o, fill + 1) > amount - before
      /\ fill = 0 => plan[i] = plan[i - 1]
      /\ fill # 0 => after = before + x.out
  <2>1. Advances(plan, ids, i, amount)
    BY <1>1, <1>2, PlanGrows
  <2> QED
    BY <2>1 DEF Advances
<1>4. x.out = Cost(o, fill)
  BY DEF Entry
<1>5. before \in Nat /\ after \in Nat
  BY <1>2, <1>3 DEF QuoteTyped
<1>6. Sellable(o) /\ o.amount_in_remaining \in Nat
  <2>1. Sellable(o)
    BY <1>1 DEF QuoteIds
  <2> QED
    BY <2>1, ModeTerms
<1> HIDE DEF x, o, fill
<1>7. fill \in Nat /\ fill + 1 \in Nat
  BY <1>3, <1>6
<1>8. Cost(o, fill) \in Nat /\ Cost(o, fill + 1) \in Nat
  BY <1>1, <1>6, <1>7, CostTyped
<1>9. after = before + IF fill = 0 THEN 0 ELSE Cost(o, fill)
  BY <1>3, <1>4, <1>5
<1> QED
  BY <1>3, <1>5, <1>7, <1>8, <1>9 DEF fill, o

(* What the whole plan takes of an order is what its step took, and no      *)
(* budget that was left after the step buys more of it.                     *)
LEMMA PlanUsesUp ==
  ASSUME NEW amount, NEW buy \in Tokens, NEW pay \in Tokens, NEW ids, NEW n, NEW plan,
         Steps(plan, ids, n, amount, buy, pay), Inv, NEW i \in 1..n,
         Traced(plan, i - 1, ids, amount), Traced(plan, n, ids, amount),
         NEW budget \in Int, budget <= amount - plan[i].paid
  PROVE  UsedUp(plan[n], ids[i], budget)
<1> DEFINE q == plan[n]
           id == ids[i]
           o == book.orders[id]
           fill == Taken(plan, ids, i, amount)
           mine == {j \in DOMAIN q.fills : q.fills[j].id = id}
<1>1. /\ \A j \in DOMAIN q.fills : \E u \in 1..n :
           Taken(plan, ids, u, amount) # 0 /\ q.fills[j] = Entry(plan, ids, u, amount)
      /\ \A u \in 1..n : Taken(plan, ids, u, amount) # 0 =>
           \E j \in DOMAIN q.fills : q.fills[j] = Entry(plan, ids, u, amount)
  BY DEF Traced
<1>2. \A u \in 1..n : Entry(plan, ids, u, amount).id = ids[u]
                      /\ Entry(plan, ids, u, amount).fill = Taken(plan, ids, u, amount)
  BY DEF Entry
<1>3. \A u \in 1..n : ids[u] = id => u = i
  <2>1. n \in Nat /\ \A u, v \in 1..n : u < v => ids[u] # ids[v]
    BY DEF Steps, QuoteIds
  <2>2. TAKE u \in 1..n
  <2>3. u < i \/ i < u \/ u = i
    BY <2>1
  <2> QED
    BY <2>1, <2>3
<1> HIDE DEF q, fill
<1>4. FilledOf(q, id) = fill
  <2>1. CASE mine = {}
    <3>1. fill = 0
      <4>1. SUFFICES ASSUME fill # 0 PROVE FALSE
        OBVIOUS
      <4>2. PICK j \in DOMAIN q.fills : q.fills[j] = Entry(plan, ids, i, amount)
        BY <1>1, <4>1 DEF fill
      <4>3. j \in mine
        BY <1>2, <4>2
      <4> QED
        BY <2>1, <4>3
    <3>2. FilledOf(q, id) = 0
      BY <2>1 DEF FilledOf
    <3> QED
      BY <3>1, <3>2
  <2>2. CASE mine # {}
    <3>1. ASSUME NEW j \in mine PROVE q.fills[j].fill = fill
      <4>1. PICK u \in 1..n : q.fills[j] = Entry(plan, ids, u, amount)
        BY <1>1
      <4>2. u = i
        BY <1>2, <1>3, <4>1
      <4> QED
        BY <1>2, <4>1, <4>2 DEF fill
    <3> DEFINE k == CHOOSE j \in mine : TRUE
    <3>2. k \in mine
      BY <2>2
    <3>3. FilledOf(q, id) = q.fills[k].fill
      BY <2>2 DEF FilledOf
    <3> HIDE DEF k, mine
    <3> QED
      BY <3>1, <3>2, <3>3
  <2> QED
    BY <2>1, <2>2
<1>5. /\ fill \in Nat /\ plan[i].paid \in Nat /\ plan[i - 1].paid \in Nat
      /\ Cost(o, fill) \in Nat /\ Cost(o, fill + 1) \in Nat
      /\ plan[i].paid = plan[i - 1].paid + IF fill = 0 THEN 0 ELSE Cost(o, fill)
      /\ fill = o.amount_in_remaining \/ Cost(o, fill + 1) > amount - plan[i - 1].paid
  BY StepTakes DEF fill
<1>6. amount \in Nat
  BY DEF Steps
<1> DEFINE paid == IF fill = 0 THEN 0 ELSE Cost(o, fill)
<1>7. paid \in Nat
  BY <1>5
<1>8. ASSUME Cost(o, fill + 1) > amount - plan[i - 1].paid
      PROVE  Cost(o, fill + 1) > budget + paid
  <2>1. plan[i].paid = plan[i - 1].paid + paid
    BY <1>5
  <2> HIDE DEF paid
  <2> QED
    BY <1>5, <1>6, <1>7, <1>8, <2>1
<1>9. fill = o.amount_in_remaining \/ Cost(o, fill + 1) > budget + paid
  BY <1>5, <1>8
<1> QED
  BY <1>4, <1>9 DEF UsedUp, q

(* The remainder is placed where the plan leaves the book.                  *)
LEMMA RemainderPlaces ==
  ASSUME NEW taker \in Accounts, NEW r \in PeerRequests, CanBuild(taker, r),
         seq \in Nat, NEW plan, plan.paid \in Nat, NEW b,
         NEW sit \in Int, sit = r.amount_in - plan.paid, CanPay(b, taker, r.token_in, sit)
  PROVE  Placeable(b, taker, [MatchTermsOf(taker, r, plan) EXCEPT !.amount_in = @ - plan.paid])
<1> DEFINE terms == MatchTermsOf(taker, r, plan)
           rest == [terms EXCEPT !.amount_in = @ - plan.paid]
           least == ProRataMinOut(r, sit)
<1>1. /\ rest.token_in = r.token_in /\ rest.token_out = r.token_out
      /\ rest.amount_in = sit /\ rest.expiry = OrderExpiry(r)
      /\ rest.price_mode = r.price_mode
      /\ rest.min_amount_out = IF r.price_mode = "Oracle" THEN 0 ELSE least
      /\ rest.max_slippage_bps = IF r.price_mode = "Oracle" THEN r.max_slippage_bps ELSE 0
      /\ rest.auto_route_after = IF r.timer > 0 THEN seq + r.timer ELSE 0
      /\ rest.excluded = Siblings(taker, r)
  BY DEF MatchTermsOf
<1> HIDE DEF rest, least
<1>2. SUFFICES ASSUME rest.amount_in > 0, rest.amount_in >= cfg.min_order[rest.token_in],
                      Askable(rest), RoomFor(b, taker, rest), Priced(rest)
               PROVE  CanPlace(b, taker, rest)
  BY DEF Placeable, rest
<1>3. /\ r.price_mode \in Modes /\ r.amount_in \in Nat \ {0} /\ r.min_amount_out \in Nat \ {0}
      /\ r.max_slippage_bps \in 1..MAX_SLIPPAGE_BPS /\ r.expiry \in Nat /\ r.timer \in Nat
      /\ DEFAULT_EXPIRY_LEDGERS \in 1..MAX_EXPIRY_LEDGERS
  BY PeerAssumption
<1>4. IF rest.price_mode = "Fixed"
      THEN rest.min_amount_out > 0
      ELSE rest.min_amount_out >= 0 /\ rest.max_slippage_bps \in 1..MAX_SLIPPAGE_BPS
  <2>1. CASE r.price_mode = "Fixed"
    <3>1. rest.min_amount_out = least
      BY <1>1, <2>1
    <3>2. sit > 0
      BY <1>1, <1>2
    <3>3. least = MulDivCeil(r.min_amount_out, sit, r.amount_in)
      BY <3>2 DEF least, ProRataMinOut
    <3>4. least > 0
      <4> DEFINE f == r.min_amount_out
                 a == r.amount_in
      <4>1. f \in Nat \ {0} /\ a \in Nat /\ a > 0
        BY <1>3
      <4>2. sit \in Nat \ {0}
        BY <3>2
      <4> HIDE DEF f, a
      <4>3. MulDivCeil(f, sit, a) > 0
        BY <4>1, <4>2, CeilPositive
      <4> QED
        BY <3>3, <4>3 DEF f, a
    <3> QED
      BY <1>1, <2>1, <3>1, <3>4
  <2>2. CASE r.price_mode # "Fixed"
    <3>1. r.price_mode = "Oracle"
      BY <1>3, <2>2 DEF Modes
    <3> QED
      BY <1>1, <1>3, <3>1
  <2> QED
    BY <2>1, <2>2
<1>5. seq < rest.expiry /\ rest.expiry \in Nat
  BY <1>1, <1>3 DEF OrderExpiry
<1>6. rest.auto_route_after > 0 =>
        seq < rest.auto_route_after /\ rest.auto_route_after < rest.expiry
  BY <1>1, <1>2, <1>3 DEF Askable
<1>7. /\ rest.token_in # rest.token_out /\ rest.expiry <= seq + MAX_EXPIRY_LEDGERS
      /\ Cardinality(rest.excluded) <= MAX_EXCLUDED /\ CanPay(b, taker, rest.token_in, rest.amount_in)
  BY <1>1, <1>2 DEF Askable, CanBuild
<1> QED
  BY <1>2, <1>4, <1>5, <1>6, <1>7 DEF CanPlace

LEMMA PlanHolds ==
  ASSUME Inv, CallInv, NEW taker \in Accounts, NEW r \in PeerRequests,
         CanBuild(taker, r), NoneLapsed(taker, r), CanPay(book, taker, r.token_in, r.amount_in)
  PROVE  PlanFits(taker, r, PlanOf(taker, r))
<1> DEFINE in == r.token_in
           out == r.token_out
           amount == r.amount_in
           ids == ReverseOrders(taker, in, out)
           n == Len(ids)
           plan == PlanSteps(ids, amount)
           q == plan[n]
           last == AfterFills(taker, q.fills)[Len(q.fills)]
           terms == MatchTermsOf(taker, r, q)
           rest == [terms EXCEPT !.amount_in = @ - q.paid]
<1>1. in \in Tokens /\ out \in Tokens /\ amount \in Nat /\ seq \in Nat
  BY PeerAssumption DEF Inv, CallInv, OracleTypeOK
<1>2. PlanOf(taker, r) = q
  BY DEF PlanOf, PlanBookFills
<1>3. PeerIds(ids, n, taker, in, out)
  <2>1. \A id \in Candidates(taker, in, out) : seq <= book.orders[id].expiry
    BY DEF NoneLapsed
  <2> QED
    BY <1>1, <2>1, ReverseIds
<1>4. n \in Nat
  BY <1>3 DEF PeerIds, QuoteIds
<1>5. plan[0] = NoQuote /\ \A i \in 1..n : plan[i] = PlanOrder(plan[i - 1], ids[i], amount)
  BY <1>4, PlanStepIs
<1> HIDE DEF ids, n, plan
<1>6. Steps(plan, ids, n, amount, out, in)
  BY <1>1, <1>3, <1>5 DEF Steps, PeerIds, IsCandidate
<1>7. \A k \in 0..n : Traced(plan, k, ids, amount) /\ Reached(plan[k], k, ids, n, taker, out, in)
  BY <1>1, <1>6, PlanTraced
<1> HIDE DEF in, out, amount
<1>8. /\ Traced(plan, n, ids, amount) /\ Reached(q, n, ids, n, taker, out, in)
      /\ QuoteTyped(q, amount) /\ AllPaid(q)
  <2>1. n \in 0..n
    BY <1>4
  <2>2. Traced(plan, n, ids, amount) /\ Reached(plan[n], n, ids, n, taker, out, in)
    BY <1>7, <2>1
  <2> QED
    BY <2>2 DEF Traced
<1> HIDE DEF q
<1>9. /\ q.paid \in 0..amount /\ q.paid \in Nat /\ q.paid <= amount
      /\ q.fills \in Seq(QuotedFills)
  BY <1>1, <1>8 DEF QuoteTyped
<1>10. ASSUME NEW j \in DOMAIN q.fills
       PROVE  \E i \in 1..n : Taken(plan, ids, i, amount) # 0
                              /\ q.fills[j] = Entry(plan, ids, i, amount) /\ q.fills[j].id = ids[i]
  <2>1. PICK i \in 1..n : Taken(plan, ids, i, amount) # 0
                           /\ q.fills[j] = Entry(plan, ids, i, amount)
    BY <1>8 DEF Traced, q
  <2>2. Entry(plan, ids, i, amount).id = ids[i]
    BY DEF Entry
  <2> QED
    BY <2>1, <2>2
<1>11. book.balance[<<taker, in>>] \in Nat /\ book.balance[<<taker, in>>] >= amount
  <2>1. BookInv(book)
    BY DEF Inv
  <2>2. book.balance[<<taker, in>>] \in Nat
    BY <1>1, <2>1, HoldingTyped
  <2> QED
    BY <2>2 DEF CanPay, in, amount
<1>12. MayTake(taker, q, in)
  <2>1. book.balance[<<taker, in>>] >= q.paid
    BY <1>1, <1>9, <1>11
  <2>2. ASSUME NEW j \in DOMAIN q.fills
        PROVE  taker \notin book.orders[q.fills[j].id].excluded
                              \union {book.orders[q.fills[j].id].maker}
    <3>1. PICK i \in 1..n : q.fills[j].id = ids[i]
      BY <1>10
    <3>2. IsCandidate(book.orders[ids[i]], taker)
      BY <1>3 DEF PeerIds
    <3> QED
      BY <3>1, <3>2 DEF IsCandidate
  <2> QED
    BY <2>1, <2>2 DEF MayTake, CanPay
<1>13. Fillable(taker, q, out, in)
  BY <1>8, <1>12 DEF Reached
<1>14. CanPay(last, taker, in, amount - q.paid)
  <2>1. last.balance[<<taker, in>>] = book.balance[<<taker, in>>] - q.paid
    BY <1>13 DEF Fillable
  <2> HIDE DEF last
  <2>2. last.balance[<<taker, in>>] >= amount - q.paid
    BY <1>1, <1>9, <1>11, <2>1
  <2> QED
    BY <2>2 DEF CanPay
<1>15. Placeable(last, taker, rest)
  <2> HIDE DEF last
  <2>1. amount - q.paid \in Int /\ amount - q.paid = r.amount_in - q.paid
    BY <1>1, <1>9 DEF amount
  <2>2. CanPay(last, taker, r.token_in, amount - q.paid)
    BY <1>14 DEF in
  <2> QED
    BY <1>1, <1>9, <2>1, <2>2, RemainderPlaces
<1>16. ASSUME NEW id \in Candidates(taker, in, out),
              NEW u \in 1..n, ids[u] = id, NEW budget \in Int, budget <= amount - plan[u].paid
       PROVE  UsedUp(q, id, budget)
  <2>1. u - 1 \in 0..n
    BY <1>4
  <2>2. Traced(plan, u - 1, ids, amount)
    BY <1>7, <2>1
  <2>3. out \in Tokens /\ in \in Tokens
    BY <1>1
  <2>4. UsedUp(plan[n], ids[u], budget)
    BY <1>6, <1>8, <1>16, <2>2, <2>3, PlanUsesUp
  <2> QED
    BY <1>16, <2>4 DEF q
<1>17. \A i \in 0..n : plan[i].paid \in 0..q.paid /\ plan[i].paid \in Nat
  BY <1>8, <1>9 DEF Traced, q
<1>18. ASSUME NEW id \in Candidates(taker, in, out) PROVE UsedUp(q, id, amount - q.paid)
  <2>1. PICK u \in 1..n : ids[u] = id
    BY <1>3 DEF PeerIds
  <2>2. u \in 0..n
    BY <1>4
  <2>3. plan[u].paid \in Nat /\ plan[u].paid <= q.paid
    BY <1>9, <1>17, <2>2
  <2>4. amount - q.paid \in Int /\ amount - q.paid <= amount - plan[u].paid
    BY <1>1, <1>9, <2>3
  <2> QED
    BY <1>16, <2>1, <2>4
<1>19. ASSUME NEW j \in DOMAIN q.fills, Ours(q.fills[j].id),
              NEW id \in Candidates(taker, in, out), ~ Ours(id)
       PROVE  UsedUp(q, id, amount - q.paid + q.fills[j].out)
  <2>1. PICK i \in 1..n : Taken(plan, ids, i, amount) # 0
                           /\ q.fills[j] = Entry(plan, ids, i, amount) /\ q.fills[j].id = ids[i]
    BY <1>10
  <2>2. PICK u \in 1..n : ids[u] = id
    BY <1>3 DEF PeerIds
  <2>3. u < i
    BY <1>3, <1>19, <2>1, <2>2 DEF PeerIds
  <2> DEFINE pay == q.fills[j].out
             before == plan[i - 1].paid
             after == plan[i].paid
             upto == plan[u].paid
  <2>4. i - 1 \in 0..n /\ i \in 0..n /\ u \in 0..(i - 1) /\ u \in 0..n
    BY <1>4, <2>3
  <2>5. Traced(plan, i - 1, ids, amount)
    BY <1>7, <2>4
  <2>6. pay \in Nat /\ after = before + pay
    <3>1. pay = Cost(book.orders[ids[i]], Taken(plan, ids, i, amount))
      BY <2>1 DEF Entry
    <3>2. /\ Cost(book.orders[ids[i]], Taken(plan, ids, i, amount)) \in Nat
          /\ plan[i].paid = plan[i - 1].paid
               + IF Taken(plan, ids, i, amount) = 0 THEN 0
                 ELSE Cost(book.orders[ids[i]], Taken(plan, ids, i, amount))
      BY <1>1, <1>6, <2>5, StepTakes
    <3> QED
      BY <2>1, <3>1, <3>2
  <2>7. upto \in 0..before
    BY <2>4, <2>5 DEF Traced
  <2>8. before \in Nat /\ after \in Nat /\ after <= q.paid
    BY <1>9, <1>17, <2>4
  <2> HIDE DEF pay, before, after, upto
  <2>9. amount - q.paid + pay \in Int /\ amount - q.paid + pay <= amount - upto
    BY <1>1, <1>9, <2>6, <2>7, <2>8
  <2>10. UsedUp(q, id, amount - q.paid + pay)
    BY <1>16, <2>2, <2>9 DEF upto
  <2> QED
    BY <2>10 DEF pay
<1>20. OrganicFirst(q, taker, r)
  BY <1>19 DEF OrganicFirst, Ours, in, out, amount
<1>21. \A id \in Candidates(taker, r.token_in, r.token_out) : UsedUp(q, id, r.amount_in - q.paid)
  BY <1>18 DEF in, out, amount
<1> QED
  BY <1>2, <1>9, <1>13, <1>15, <1>20, <1>21 DEF PlanFits, in, out, amount

(* A plan made of the book as it stands goes through as planned, whatever   *)
(* the fee of the moment: every fill and the remainder are accepted, no     *)
(* more could have been bought, and the protocol's own wallets come last.   *)
THEOREM PlansFit == Spec => []PeerPlansFit
<1>1. Inv /\ CallInv => PeerPlansFit
  BY PlanHolds DEF PeerPlansFit
<1> QED
  BY <1>1, SpecCall, PTL

=============================================================================
