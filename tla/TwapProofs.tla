----------------------------- MODULE TwapProofs -----------------------------
(***************************************************************************)
(* The TwapBook's safety, for every schedule, limit, route, fee and number  *)
(* of orders, under any keeper.                                             *)
(***************************************************************************)
EXTENDS TwapBuild, PriceOracleProofs

Order ==
  [maker : Makers, token_in : Tokens, token_out : Tokens,
   total_in : Nat \ {0}, filled_in : Nat, received_out : Nat,
   start_ledger : Nat, end_ledger : Nat, limit_num : Int, limit_den : Int,
   max_slippage_bps : Nat, max_slice_in : Nat, min_slice_gap : Nat,
   pace_tolerance_bps : Nat, last_slice_ledger : Nat,
   status : {"Active", "Completed", "Cancelled", "Expired"}]

(* The rate a fixed limit sets holds for the sum of the slices.             *)
LimitKept(o) == FixedLimit(o) => o.filled_in * o.limit_num <= o.received_out * o.limit_den

(* An order with what its end returned, in a ledger no earlier than its own.*)
Sound(o, back, now) ==
  /\ o.filled_in <= o.total_in
  /\ o.start_ledger < o.end_ledger /\ o.start_ledger <= now /\ o.last_slice_ledger <= now
  /\ o.status = "Completed" <=> o.filled_in = o.total_in
  /\ o.status \in {"Cancelled", "Expired"} => back + o.filled_in = o.total_in
  /\ o.status \in {"Active", "Completed"} => back = 0
  /\ NeverAhead(o)
  /\ LimitKept(o)

(* What an order holds of the pool, and the pool of a token, as units.      *)
Held(o) == IF o.status = "Active" THEN Remaining(o) ELSE 0
Holdings(os) == [id \in DOMAIN os |-> Held(os[id])]
Sellers(os, token) == {id \in DOMAIN os : os[id].token_in = token}
Pool(os, token) == Cardinality(Units(Holdings(os), Sellers(os, token)))

Ledgers == [Holders \X Tokens -> Int]

BookOK(os, act, bal, back, now) ==
  /\ os \in Seq(Order) /\ back \in Seq(Nat) /\ Len(back) = Len(os)
  /\ bal \in Ledgers
  /\ \A id \in DOMAIN os : Sound(os[id], back[id], now)
  /\ act = {id \in DOMAIN os : os[id].status = "Active"}
  /\ Cardinality(act) <= MAX_ACTIVE_ORDERS
  /\ \A t \in Tokens : bal[<<Book, t>>] = Pool(os, t)

Settings == [fee : 0..MAX_FEE, venues : SUBSET Venues]

Inv ==
  /\ OracleTypeOK
  /\ settings \in Settings
  /\ BookOK(orders, active, balance, refunded, Ledger)

-----------------------------------------------------------------------------
(* The pool                                                                 *)

LEMMA OrdersTyped ==
  ASSUME NEW os \in Seq(Order)
  PROVE  /\ Len(os) \in Nat /\ DOMAIN os = 1..Len(os) /\ IsFiniteSet(DOMAIN os)
         /\ \A id \in DOMAIN os : os[id] \in Order
<1>1. Len(os) \in Nat /\ DOMAIN os = 1..Len(os)
  OBVIOUS
<1>2. IsFiniteSet(1..Len(os))
  BY <1>1, FS_Interval
<1> QED
  BY <1>1, <1>2

LEMMA HeldTyped ==
  ASSUME NEW o \in Order, o.filled_in <= o.total_in
  PROVE  Remaining(o) \in Nat /\ Held(o) \in Nat
<1>1. o.filled_in \in Nat /\ o.total_in \in Nat
  BY DEF Order
<1> QED
  BY <1>1 DEF Held, Remaining

WithinTotals(os) == \A id \in DOMAIN os : os[id].filled_in <= os[id].total_in

LEMMA SellersFinite ==
  ASSUME NEW os \in Seq(Order), NEW t, WithinTotals(os)
  PROVE  /\ IsFiniteSet(Sellers(os, t))
         /\ \A id \in Sellers(os, t) : Holdings(os)[id] \in Nat
<1>1. Sellers(os, t) \subseteq DOMAIN os
  BY DEF Sellers
<1>2. IsFiniteSet(Sellers(os, t))
  BY <1>1, OrdersTyped, FS_Subset
<1>3. \A id \in DOMAIN os : Holdings(os)[id] = Held(os[id])
  BY DEF Holdings
<1>4. \A id \in DOMAIN os : Held(os[id]) \in Nat
  BY OrdersTyped, HeldTyped DEF WithinTotals
<1> QED
  BY <1>1, <1>2, <1>3, <1>4

LEMMA PoolTyped ==
  ASSUME NEW os \in Seq(Order), NEW t, WithinTotals(os)
  PROVE  Pool(os, t) \in Nat
  BY SellersFinite, UnitsFinite DEF Pool

(* The pool as the model counts it: an order that is closed holds no units. *)
LEMMA EscrowIsPool ==
  ASSUME orders \in Seq(Order), NEW t
  PROVE  Cardinality(EscrowUnits(t)) = Pool(orders, t)
<1> DEFINE selling == Sellers(orders, t)
           open == {i \in DOMAIN orders : orders[i].status = "Active" /\ orders[i].token_in = t}
           size == Holdings(orders)
<1>1. open \subseteq selling
  BY DEF Sellers
<1>2. \A id \in open : size[id] = Remaining(orders[id])
  BY DEF Holdings, Held
<1>3. \A id \in selling \ open : size[id] = 0
  BY DEF Holdings, Held, Sellers
<1> HIDE DEF selling, open, size
<1>4. \A id \in selling \ open : Block(size, id) = {}
  BY <1>3 DEF Block
<1>5. \A id \in open : Block(size, id) = {id} \X (1..Remaining(orders[id]))
  BY <1>2 DEF Block
<1>6. UNION {Block(size, id) : id \in selling} = UNION {Block(size, id) : id \in open}
  BY <1>1, <1>4
<1>7. UNION {Block(size, id) : id \in open}
        = UNION {{id} \X (1..Remaining(orders[id])) : id \in open}
  BY <1>5
<1>8. EscrowUnits(t) = UNION {{id} \X (1..Remaining(orders[id])) : id \in open}
  BY DEF EscrowUnits, open
<1> QED
  BY <1>6, <1>7, <1>8 DEF Pool, Units, selling, size

Changed(os, id, n) == [os EXCEPT ![id] = n]

LEMMA PoolUpdated ==
  ASSUME NEW os \in Seq(Order), WithinTotals(os),
         NEW id \in DOMAIN os, NEW n, n.token_in = os[id].token_in, Held(n) \in Nat, NEW t
  PROVE  Pool(Changed(os, id, n), t)
           = Pool(os, t) + (IF t = os[id].token_in THEN Held(n) - Held(os[id]) ELSE 0)
<1> DEFINE ns == Changed(os, id, n)
           ids == Sellers(os, t)
           size == Holdings(os)
           other == Holdings(ns)
<1>1. DOMAIN ns = DOMAIN os /\ ns[id] = n /\ \A i \in DOMAIN os \ {id} : ns[i] = os[i]
  BY DEF Changed
<1> HIDE DEF ns
<1>2. Sellers(ns, t) = ids
  BY <1>1 DEF Sellers
<1>3. IsFiniteSet(ids) /\ (\A i \in ids : size[i] \in Nat) /\ Pool(os, t) \in Nat
  BY SellersFinite, PoolTyped
<1>4. /\ size[id] = Held(os[id]) /\ other[id] = Held(n)
      /\ \A i \in ids \ {id} : i \in DOMAIN os /\ other[i] = size[i]
  BY <1>1 DEF Holdings, Sellers
<1>5. Pool(os, t) = Cardinality(Units(size, ids)) /\ Pool(ns, t) = Cardinality(Units(other, ids))
  BY <1>2 DEF Pool
<1>6. CASE t = os[id].token_in
  <2>1. id \in ids
    BY <1>6 DEF Sellers
  <2>2. IsFiniteSet(ids) /\ (\A i \in ids : size[i] \in Nat) /\ size[id] \in Nat
    BY <1>3, <2>1
  <2> HIDE DEF ids, size, other
  <2>a. OneDiffers(size, other, ids, id)
    BY <1>4, <2>1, <2>2 DEF OneDiffers
  <2>3. Cardinality(Units(other, ids)) = Cardinality(Units(size, ids)) - size[id] + other[id]
    BY <2>a, UnitsUpdated
  <2>4. Pool(ns, t) = Pool(os, t) - Held(os[id]) + Held(n)
    BY <1>4, <1>5, <2>3
  <2>5. Held(os[id]) \in Nat /\ Pool(os, t) \in Nat
    BY <1>3, <1>4, <2>2
  <2>6. Pool(ns, t) = Pool(os, t) + (Held(n) - Held(os[id]))
    BY <2>4, <2>5
  <2> QED
    BY <1>6, <2>6 DEF ns
<1>7. CASE t # os[id].token_in
  <2>1. id \notin ids
    BY <1>7 DEF Sellers
  <2>2. \A i \in ids : size[i] = other[i]
    BY <1>4, <2>1
  <2> HIDE DEF ids, size, other
  <2>3. Units(size, ids) = Units(other, ids)
    BY <2>2, UnitsSame
  <2> QED
    BY <1>3, <1>5, <1>7, <2>3 DEF ns
<1> QED
  BY <1>6, <1>7

LEMMA PoolAppended ==
  ASSUME NEW os \in Seq(Order), WithinTotals(os),
         NEW n \in Order, n.filled_in <= n.total_in, NEW t
  PROVE  Pool(Append(os, n), t) = Pool(os, t) + (IF t = n.token_in THEN Held(n) ELSE 0)
<1> DEFINE ns == Append(os, n)
           id == Len(os) + 1
           ids == Sellers(os, t)
           size == Holdings(os)
           other == Holdings(ns)
<1>1. /\ ns \in Seq(Order) /\ id \notin DOMAIN os /\ DOMAIN ns = DOMAIN os \union {id}
      /\ ns[id] = n /\ \A i \in DOMAIN os : ns[i] = os[i]
  OBVIOUS
<1> HIDE DEF ns, id
<1>2. WithinTotals(ns)
  BY <1>1 DEF WithinTotals
<1>3. other[id] = Held(n) /\ \A i \in ids : other[i] = size[i]
  BY <1>1 DEF Holdings, Sellers
<1>4. IsFiniteSet(Sellers(ns, t)) /\ (\A i \in Sellers(ns, t) : other[i] \in Nat)
  BY <1>1, <1>2, SellersFinite
<1>5. Pool(os, t) = Cardinality(Units(size, ids)) /\ Pool(os, t) \in Nat
      /\ Pool(ns, t) = Cardinality(Units(other, Sellers(ns, t)))
  BY PoolTyped DEF Pool
<1>6. id \notin ids
  BY <1>1 DEF Sellers
<1>7. Units(other, ids) = Units(size, ids)
  BY <1>3, UnitsSame
<1>8. CASE t = n.token_in
  <2>1. id \in Sellers(ns, t) /\ Sellers(ns, t) \ {id} = ids
    BY <1>1, <1>8 DEF Sellers
  <2> HIDE DEF ids, size, other
  <2>2. Cardinality(Units(other, Sellers(ns, t)))
          = Cardinality(Units(other, Sellers(ns, t) \ {id})) + other[id]
    BY <1>4, <2>1, UnitsSplit
  <2> QED
    BY <1>3, <1>5, <1>7, <1>8, <2>1, <2>2 DEF ns
<1>9. CASE t # n.token_in
  <2>1. Sellers(ns, t) = ids
    BY <1>1, <1>9 DEF Sellers
  <2> HIDE DEF ids, size, other
  <2> QED
    BY <1>5, <1>7, <1>9, <2>1 DEF ns
<1> QED
  BY <1>8, <1>9

-----------------------------------------------------------------------------
(* One order placed, or one order changed                                   *)

(* Two roundings down give no more than the exact schedule and tolerance.   *)
LEMMA PaceOfFloors ==
  ASSUME NEW total \in Nat, NEW elapsed \in Nat, NEW tolerance \in Nat,
         NEW duration \in Nat \ {0}, NEW bps \in Nat \ {0}, NEW filled \in Nat,
         filled <= MulDivFloor(total, elapsed, duration) + MulDivFloor(total, tolerance, bps)
  PROVE  filled * duration * bps <= total * (elapsed * bps + tolerance * duration)
<1> DEFINE a == MulDivFloor(total, elapsed, duration)
           b == MulDivFloor(total, tolerance, bps)
<1>1. a \in Nat /\ b \in Nat /\ duration * a <= total * elapsed /\ bps * b <= total * tolerance
  BY FloorBounds
<1>2. filled <= a + b
  OBVIOUS
<1> HIDE DEF a, b
<1>3. duration * bps \in Nat /\ total * elapsed \in Nat /\ total * tolerance \in Nat
      /\ duration * a \in Nat /\ bps * b \in Nat
  BY <1>1, ProductNat
<1>4. (duration * bps) * filled <= (duration * bps) * (a + b)
  BY <1>1, <1>2, <1>3, ProductMonotone
<1>5. bps * (duration * a) <= bps * (total * elapsed)
  BY <1>1, <1>3, ProductMonotone
<1>6. duration * (bps * b) <= duration * (total * tolerance)
  BY <1>1, <1>3, ProductMonotone
<1>7. (duration * bps) * (a + b) = bps * (duration * a) + duration * (bps * b)
  BY <1>1, SMT
<1>8. total * (elapsed * bps + tolerance * duration)
        = bps * (total * elapsed) + duration * (total * tolerance)
  BY SMT
<1>9. filled * duration * bps = (duration * bps) * filled
  BY SMT
<1>10. /\ (duration * bps) * filled \in Int /\ bps * (duration * a) \in Int
       /\ duration * (bps * b) \in Int /\ bps * (total * elapsed) \in Int
       /\ duration * (total * tolerance) \in Int
  BY <1>1, SMT
<1> QED
  BY <1>4, <1>5, <1>6, <1>7, <1>8, <1>9, <1>10

LEMMA OneLater ==
  ASSUME NEW now \in Nat, NEW later \in Nat, later = now \/ later = now + 1
  PROVE  now + 1 \in Nat /\ later + 1 \in Nat /\ now + 1 <= later + 1
  OBVIOUS

LEMMA SoundLater ==
  ASSUME NEW o \in Order, NEW back, NEW now \in Nat, NEW later \in Nat, now <= later,
         Sound(o, back, now)
  PROVE  Sound(o, back, later)
<1>1. o.start_ledger \in Nat /\ o.last_slice_ledger \in Nat
  BY DEF Order
<1> QED
  BY <1>1 DEF Sound

LEMMA BookLater ==
  ASSUME NEW os, NEW act, NEW bal, NEW back, NEW now \in Nat, NEW later \in Nat, now <= later,
         BookOK(os, act, bal, back, now)
  PROVE  BookOK(os, act, bal, back, later)
<1>1. \A id \in DOMAIN os : os[id] \in Order /\ Sound(os[id], back[id], now)
  BY OrdersTyped DEF BookOK
<1>2. \A id \in DOMAIN os : Sound(os[id], back[id], later)
  BY <1>1, SoundLater
<1> QED
  BY <1>2 DEF BookOK

(* What a step adds to the book's own balance of one token, and of no other.*)
BookGains(bal, paid, token, amount) ==
  \A t \in Tokens :
    paid[<<Book, t>>] = bal[<<Book, t>>] + (IF t = token THEN amount ELSE 0)

LEMMA BookPlaced ==
  ASSUME NEW os, NEW act, NEW bal, NEW back, NEW now \in Nat, BookOK(os, act, bal, back, now),
         NEW n \in Order, Sound(n, 0, now), n.status = "Active",
         Cardinality(act) < MAX_ACTIVE_ORDERS,
         NEW paid \in Ledgers,
         BookGains(bal, paid, n.token_in, Held(n))
  PROVE  BookOK(Append(os, n), act \union {Len(os) + 1}, paid, Append(back, 0), now)
<1> DEFINE ns == Append(os, n)
           nb == Append(back, 0)
           id == Len(os) + 1
<1>1. os \in Seq(Order) /\ back \in Seq(Nat) /\ Len(back) = Len(os)
  BY DEF BookOK
<1>2. /\ ns \in Seq(Order) /\ nb \in Seq(Nat) /\ Len(nb) = Len(ns)
      /\ DOMAIN ns = DOMAIN os \union {id} /\ id \notin DOMAIN os
      /\ ns[id] = n /\ nb[id] = 0
      /\ \A i \in DOMAIN os : ns[i] = os[i] /\ nb[i] = back[i]
  BY <1>1
<1>3. \A i \in DOMAIN os : Sound(os[i], back[i], now)
  BY DEF BookOK
<1>a. WithinTotals(os)
  BY <1>3 DEF Sound, WithinTotals
<1>4. n.filled_in <= n.total_in
  BY DEF Sound
<1>5. \A t \in Tokens : paid[<<Book, t>>] = Pool(ns, t)
  <2>1. ASSUME NEW t \in Tokens PROVE paid[<<Book, t>>] = Pool(ns, t)
    <3>1. Pool(ns, t) = Pool(os, t) + (IF t = n.token_in THEN Held(n) ELSE 0)
      BY <1>1, <1>a, <1>4, PoolAppended
    <3>2. bal[<<Book, t>>] = Pool(os, t)
      BY DEF BookOK
    <3> QED
      BY <3>1, <3>2 DEF BookGains
  <2> QED
    BY <2>1
<1>6. IsFiniteSet(act) /\ Cardinality(act) \in Nat /\ id \notin act
  <2>1. act \subseteq DOMAIN os /\ IsFiniteSet(DOMAIN os)
    BY <1>1, OrdersTyped DEF BookOK
  <2>2. IsFiniteSet(act)
    BY <2>1, FS_Subset
  <2>3. Cardinality(act) \in Nat
    BY <2>2, FS_CardinalityType
  <2> QED
    BY <1>2, <2>1, <2>2, <2>3
<1> HIDE DEF ns, nb, id
<1>7. Cardinality(act \union {id}) <= MAX_ACTIVE_ORDERS
  <2>1. Cardinality(act \union {id}) = Cardinality(act) + 1
    BY <1>6, FS_AddElement
  <2> QED
    BY <1>6, <2>1, TwapAssumption
<1>8. \A i \in DOMAIN ns : Sound(ns[i], nb[i], now)
  BY <1>2, <1>3
<1>9. act \union {id} = {i \in DOMAIN ns : ns[i].status = "Active"}
  BY <1>2 DEF BookOK
<1>10. BookOK(ns, act \union {id}, paid, nb, now)
  BY <1>2, <1>5, <1>7, <1>8, <1>9 DEF BookOK
<1> QED
  BY <1>10 DEF ns, nb, id

(* An order that is still active stays indexed; one that closed does not.   *)
LEMMA BookUpdated ==
  ASSUME NEW os, NEW act, NEW bal, NEW back, NEW now \in Nat, BookOK(os, act, bal, back, now),
         NEW id \in DOMAIN os, os[id].status = "Active",
         NEW n \in Order, NEW sum \in Nat, Sound(n, sum, now), n.token_in = os[id].token_in,
         NEW paid \in Ledgers,
         BookGains(bal, paid, n.token_in, Held(n) - Held(os[id]))
  PROVE  BookOK(Changed(os, id, n), IF n.status = "Active" THEN act ELSE act \ {id},
                paid, Changed(back, id, sum), now)
<1> DEFINE ns == Changed(os, id, n)
           nb == Changed(back, id, sum)
           na == IF n.status = "Active" THEN act ELSE act \ {id}
<1>1. os \in Seq(Order) /\ back \in Seq(Nat) /\ Len(back) = Len(os) /\ id \in DOMAIN back
  BY DEF BookOK
<1>2. /\ ns \in Seq(Order) /\ nb \in Seq(Nat) /\ Len(nb) = Len(ns)
      /\ DOMAIN ns = DOMAIN os /\ ns[id] = n /\ nb[id] = sum
      /\ \A i \in DOMAIN os \ {id} : ns[i] = os[i] /\ nb[i] = back[i]
  BY <1>1 DEF Changed
<1>3. \A i \in DOMAIN os : Sound(os[i], back[i], now)
  BY DEF BookOK
<1>a. WithinTotals(os)
  BY <1>3 DEF Sound, WithinTotals
<1>4. Held(n) \in Nat
  BY HeldTyped DEF Sound
<1>5. \A t \in Tokens : paid[<<Book, t>>] = Pool(ns, t)
  <2>1. ASSUME NEW t \in Tokens PROVE paid[<<Book, t>>] = Pool(ns, t)
    <3>1. Pool(ns, t) = Pool(os, t) + (IF t = os[id].token_in THEN Held(n) - Held(os[id]) ELSE 0)
      BY <1>1, <1>a, <1>4, PoolUpdated
    <3>2. bal[<<Book, t>>] = Pool(os, t)
      BY DEF BookOK
    <3> QED
      BY <3>1, <3>2 DEF BookGains
  <2> QED
    BY <2>1
<1>6. na = {i \in DOMAIN ns : ns[i].status = "Active"}
  BY <1>2 DEF BookOK
<1>7. Cardinality(na) <= MAX_ACTIVE_ORDERS
  <2>1. IsFiniteSet(act) /\ na \subseteq act
    <3>1. act \subseteq DOMAIN os /\ IsFiniteSet(DOMAIN os)
      BY <1>1, OrdersTyped DEF BookOK
    <3> QED
      BY <3>1, FS_Subset
  <2>2. Cardinality(na) \in Nat /\ Cardinality(act) \in Nat /\ Cardinality(na) <= Cardinality(act)
    BY <2>1, FS_Subset, FS_CardinalityType
  <2>3. Cardinality(act) <= MAX_ACTIVE_ORDERS
    BY DEF BookOK
  <2> QED
    BY <2>2, <2>3, TwapAssumption
<1> HIDE DEF ns, nb, na
<1>8. \A i \in DOMAIN ns : Sound(ns[i], nb[i], now)
  BY <1>2, <1>3
<1>9. BookOK(ns, na, paid, nb, now)
  BY <1>2, <1>5, <1>6, <1>7, <1>8 DEF BookOK
<1> QED
  BY <1>9 DEF ns, nb, na

-----------------------------------------------------------------------------
(* The contract's calls                                                     *)

LEMMA CreditMoves ==
  ASSUME NEW b \in Ledgers, NEW holder \in Holders, NEW token \in Tokens, NEW amount \in Int
  PROVE  /\ Credit(b, holder, token, amount) \in Ledgers
         /\ BookGains(b, Credit(b, holder, token, amount), token,
                      IF holder = Book THEN amount ELSE 0)
<1>1. /\ <<holder, token>> \in Holders \X Tokens /\ Book \in Holders
      /\ \A t \in Tokens : <<Book, t>> \in Holders \X Tokens /\ b[<<Book, t>>] \in Int
  BY DEF Holders, Ledgers
<1>2. Credit(b, holder, token, amount) \in Ledgers
  BY <1>1 DEF Credit, Ledgers
<1>3. ASSUME NEW t \in Tokens
      PROVE  Credit(b, holder, token, amount)[<<Book, t>>]
               = b[<<Book, t>>] + (IF holder = Book /\ t = token THEN amount ELSE 0)
  BY <1>1 DEF Credit, Ledgers
<1> QED
  BY <1>2, <1>3 DEF BookGains

(* A credit of somebody else before or after does not change the gain.      *)
LEMMA GainsAdd ==
  ASSUME NEW b \in Ledgers, NEW c \in Ledgers, NEW d \in Ledgers, NEW token, NEW other,
         NEW amount \in Int,
         \/ BookGains(b, c, other, 0) /\ BookGains(c, d, token, amount)
         \/ BookGains(b, c, token, amount) /\ BookGains(c, d, other, 0)
  PROVE  BookGains(b, d, token, amount)
<1>1. ASSUME NEW t \in Tokens PROVE b[<<Book, t>>] \in Int
  BY DEF Ledgers, Holders
<1> QED
  BY <1>1 DEF BookGains

LEMMA OracleStays ==
  ASSUME OracleTypeOK, UNCHANGED oracleVars
  PROVE  OracleTypeOK' /\ Ledger' = Ledger /\ Ledger \in Nat \ {0}
<1>1. seq \in Nat
  BY OracleAssumption DEF OracleTypeOK
<1> QED
  BY <1>1 DEF OracleTypeOK, oracleVars, Ledger

LEMMA ActiveOrder ==
  ASSUME Inv, NEW id \in DOMAIN orders
  PROVE  /\ orders[id] \in Order /\ refunded[id] \in Nat
         /\ Sound(orders[id], refunded[id], Ledger)
         /\ refunded \in Seq(Nat) /\ DOMAIN refunded = DOMAIN orders
<1>1. /\ orders \in Seq(Order) /\ refunded \in Seq(Nat) /\ Len(refunded) = Len(orders)
      /\ Sound(orders[id], refunded[id], Ledger)
  BY DEF Inv, BookOK
<1> QED
  BY <1>1

LEMMA PlaceKeeps ==
  ASSUME Inv, NEW maker \in Makers, NEW o \in Terms, PlaceTwap(maker, o)
  PROVE  Inv'
<1> DEFINE n == NewTwap(maker, o)
           mid == Credit(balance, maker, o.token_in, -o.total_in)
           paid == Credit(mid, Book, o.token_in, o.total_in)
<1>1. /\ CanPlace(maker, o) /\ balance' = paid /\ orders' = Append(orders, n)
      /\ active' = active \union {Len(orders) + 1} /\ refunded' = Append(refunded, 0)
      /\ settings' = settings /\ UNCHANGED oracleVars
  BY DEF PlaceTwap
<1>2. OracleTypeOK' /\ Ledger' = Ledger /\ Ledger \in Nat \ {0}
  BY <1>1, OracleStays DEF Inv
<1>3. /\ o.token_in \in Tokens /\ o.token_out \in Tokens /\ o.total_in \in Nat \ {0}
      /\ o.end_ledger \in Nat /\ o.limit_num \in Int /\ o.limit_den \in Int
      /\ o.max_slippage_bps \in Nat /\ o.max_slice_in \in Nat /\ o.min_slice_gap \in Nat
      /\ o.pace_tolerance_bps \in Nat /\ Ledger < o.end_ledger
  <2>1. /\ o.token_in \in Tokens /\ o.token_out \in Tokens /\ o.total_in \in Int
        /\ o.end_ledger \in Nat /\ o.limit_num \in Int /\ o.limit_den \in Int
        /\ o.max_slippage_bps \in Nat /\ o.max_slice_in \in Int /\ o.min_slice_gap \in Nat
        /\ o.pace_tolerance_bps \in Nat
    BY DEF Terms
  <2>2. /\ o.total_in > 0 /\ o.max_slice_in \in 1..o.total_in
        /\ o.end_ledger >= Ledger + MIN_DURATION_LEDGERS
    BY <1>1 DEF CanPlace
  <2> QED
    BY <1>2, <2>1, <2>2, TwapAssumption
<1>4. n \in Order
  BY <1>2, <1>3 DEF NewTwap, Order
<1>5. /\ n.total_in = o.total_in /\ n.filled_in = 0 /\ n.received_out = 0
      /\ n.start_ledger = Ledger /\ n.end_ledger = o.end_ledger /\ n.last_slice_ledger = 0
      /\ n.status = "Active" /\ n.token_in = o.token_in
      /\ n.limit_num \in Int /\ n.limit_den \in Int
  BY <1>3 DEF NewTwap
<1> HIDE DEF n
<1>6. Sound(n, 0, Ledger)
  BY <1>2, <1>3, <1>5 DEF Sound, NeverAhead, LimitKept
<1>7. Held(n) = o.total_in
  BY <1>3, <1>5 DEF Held, Remaining
<1>8. Cardinality(active) < MAX_ACTIVE_ORDERS
  BY <1>1 DEF CanPlace
<1>9. balance \in Ledgers /\ maker \in Holders /\ maker # Book /\ Book \in Holders
  BY TwapAssumption DEF Inv, BookOK, Holders
<1>10. mid \in Ledgers /\ BookGains(balance, mid, o.token_in, 0)
  <2>1. -o.total_in \in Int
    BY <1>3
  <2> QED
    BY <1>3, <1>9, <2>1, CreditMoves
<1> HIDE DEF mid
<1>11. paid \in Ledgers /\ BookGains(balance, paid, n.token_in, Held(n))
  <2>1. paid \in Ledgers /\ BookGains(mid, paid, o.token_in, o.total_in)
    BY <1>3, <1>9, <1>10, CreditMoves
  <2> HIDE DEF paid
  <2> QED
    BY <1>3, <1>5, <1>7, <1>9, <1>10, <2>1, GainsAdd
<1> HIDE DEF paid
<1>12. BookOK(Append(orders, n), active \union {Len(orders) + 1}, paid, Append(refunded, 0), Ledger)
  <2>1. BookOK(orders, active, balance, refunded, Ledger) /\ Ledger \in Nat
    BY <1>2 DEF Inv
  <2> QED
    BY <1>4, <1>5, <1>6, <1>8, <1>11, <2>1, BookPlaced
<1> QED
  BY <1>1, <1>2, <1>12 DEF Inv

(* What a call that changes one order owes the others: the order, what it   *)
(* returned, and the balances fit, and nothing else moves.                  *)
LEMMA CallKeeps ==
  ASSUME Inv, NEW id \in DOMAIN orders, orders[id].status = "Active",
         NEW n \in Order, NEW back \in Nat, NEW paid \in Ledgers,
         Sound(n, back, Ledger), n.token_in = orders[id].token_in,
         BookGains(balance, paid, n.token_in, Held(n) - Held(orders[id])),
         orders' = [orders EXCEPT ![id] = n], active' = Deindexed(id, n),
         balance' = paid, refunded' = [refunded EXCEPT ![id] = back],
         UNCHANGED <<settings, oracleVars>>
  PROVE  Inv'
<1>1. OracleTypeOK' /\ Ledger' = Ledger /\ Ledger \in Nat \ {0}
  BY OracleStays DEF Inv
<1>2. BookOK(orders, active, balance, refunded, Ledger) /\ Ledger \in Nat
  BY <1>1 DEF Inv
<1>3. BookOK(Changed(orders, id, n), IF n.status = "Active" THEN active ELSE active \ {id},
             paid, Changed(refunded, id, back), Ledger)
  BY <1>2, BookUpdated
<1>4. BookOK(orders', active', balance', refunded', Ledger)
  BY <1>3 DEF Changed, Deindexed
<1> QED
  BY <1>1, <1>4 DEF Inv

LEMMA CloseKeeps ==
  ASSUME Inv, NEW id \in DOMAIN orders, NEW status \in {"Cancelled", "Expired"}, Close(id, status)
  PROVE  Inv'
<1> DEFINE o == orders[id]
           n == [o EXCEPT !.status = status]
           rest == Remaining(o)
           mid == Credit(balance, Book, o.token_in, -rest)
           paid == Credit(mid, o.maker, o.token_in, rest)
<1>1. /\ o.status = "Active" /\ balance' = paid /\ orders' = [orders EXCEPT ![id] = n]
      /\ active' = Deindexed(id, n) /\ refunded' = [refunded EXCEPT ![id] = rest]
      /\ UNCHANGED <<settings, oracleVars>>
  BY DEF Close
<1>2. o \in Order /\ refunded[id] \in Nat /\ Sound(o, refunded[id], Ledger)
  BY ActiveOrder
<1>3. rest \in Nat /\ Held(o) = rest /\ rest + o.filled_in = o.total_in /\ rest # 0
  <2>1. o.filled_in \in Nat /\ o.total_in \in Nat /\ o.filled_in <= o.total_in
        /\ o.filled_in # o.total_in
    BY <1>1, <1>2 DEF Order, Sound
  <2> QED
    BY <1>1, <2>1 DEF Held, Remaining
<1>4. /\ n \in Order /\ n.status = status /\ n.token_in = o.token_in
      /\ n.filled_in = o.filled_in /\ n.total_in = o.total_in /\ n.received_out = o.received_out
      /\ n.start_ledger = o.start_ledger /\ n.end_ledger = o.end_ledger
      /\ n.last_slice_ledger = o.last_slice_ledger
      /\ n.pace_tolerance_bps = o.pace_tolerance_bps
      /\ n.limit_num = o.limit_num /\ n.limit_den = o.limit_den
  BY <1>2 DEF Order
<1>5. o.maker \in Holders /\ o.maker # Book /\ Book \in Holders /\ o.token_in \in Tokens
      /\ balance \in Ledgers
  BY <1>2, TwapAssumption DEF Inv, BookOK, Holders, Order
<1> HIDE DEF n, o
<1>6. Sound(n, rest, Ledger)
  <2>1. o.filled_in # o.total_in
    BY <1>1, <1>2 DEF Sound
  <2>2. NeverAhead(n) /\ LimitKept(n)
    BY <1>2, <1>4 DEF Sound, NeverAhead, LimitKept, FixedLimit
  <2> QED
    BY <1>2, <1>3, <1>4, <2>1, <2>2 DEF Sound
<1>7. Held(n) - Held(o) = -rest
  BY <1>3, <1>4 DEF Held
<1> HIDE DEF rest
<1>8. mid \in Ledgers /\ BookGains(balance, mid, o.token_in, -rest)
  <2>1. -rest \in Int
    BY <1>3
  <2> QED
    BY <1>5, <2>1, CreditMoves
<1> HIDE DEF mid
<1>9. paid \in Ledgers /\ BookGains(balance, paid, n.token_in, Held(n) - Held(o))
  <2>1. paid \in Ledgers /\ BookGains(mid, paid, o.token_in, 0) /\ -rest \in Int
    BY <1>3, <1>5, <1>8, CreditMoves
  <2> HIDE DEF paid
  <2> QED
    BY <1>4, <1>5, <1>7, <1>8, <2>1, GainsAdd
<1> HIDE DEF paid
<1> QED
  BY <1>1, <1>3, <1>4, <1>6, <1>9, CallKeeps DEF o

(* A slice's output, whatever the route, less the fee.                      *)
LEMMA SliceOutput ==
  ASSUME settings \in Settings, NEW route \in Routes, NEW outs \in [DOMAIN route -> VenueOutputs]
  PROVE  LET total_out == FoldFunction(+, 0, outs)
             fee == CalculateFee(total_out, settings.fee, FEE_DENOMINATOR)
         IN  total_out \in Nat /\ fee \in Nat /\ fee <= total_out
<1> DEFINE total_out == FoldFunction(+, 0, outs)
<1>1. IsFiniteSet(DOMAIN route)
  <2>1. route \in Seq(Segment)
    BY TwapAssumption
  <2>2. Len(route) \in Nat /\ DOMAIN route = 1..Len(route)
    BY <2>1
  <2> QED
    BY <2>2, FS_Interval
<1>2. DOMAIN outs = DOMAIN route /\ \A i \in DOMAIN route : outs[i] \in Nat
  BY TwapAssumption
<1>3. total_out = SumFunctionOnSet(outs, DOMAIN route)
  BY <1>2 DEF FoldFunction, SumFunctionOnSet
<1>4. total_out \in Nat
  BY <1>1, <1>2, <1>3, SumTyped
<1> HIDE DEF total_out
<1>5. settings.fee \in Nat /\ FEE_DENOMINATOR \in Nat /\ settings.fee < FEE_DENOMINATOR
  BY TwapAssumption DEF Settings
<1>6. CalculateFee(total_out, settings.fee, FEE_DENOMINATOR) \in 0..total_out
  BY <1>4, <1>5, FeeBounds
<1> DEFINE fee == CalculateFee(total_out, settings.fee, FEE_DENOMINATOR)
<1>7. fee \in Nat /\ fee <= total_out
  <2>1. fee \in 0..total_out
    BY <1>6
  <2> HIDE DEF fee
  <2> QED
    BY <1>4, <2>1
<1> QED
  BY <1>4, <1>7, Zenon DEF total_out

(* What a slice does to its order.                                          *)
Executed(o, n, amount, net) ==
  /\ amount \in Nat \ {0} /\ net \in Nat /\ amount <= o.total_in - o.filled_in
  /\ o.status = "Active" /\ OnPace(o, amount) /\ Priced(o) /\ net >= MinNet(o, amount)
  /\ n = Sliced(o, amount, net)

LEMMA SliceExecuted ==
  ASSUME Inv, NEW id \in DOMAIN orders, NEW route \in Routes,
         NEW outs \in [DOMAIN route -> VenueOutputs], NEW amount \in Int,
         ExecuteSlice(id, amount, route, outs)
  PROVE  \E net \in Nat : Executed(orders[id], orders'[id], amount, net)
<1> DEFINE total_out == FoldFunction(+, 0, outs)
           fee == CalculateFee(total_out, settings.fee, FEE_DENOMINATOR)
           net == total_out - fee
<1>1. /\ CanSlice(orders[id], amount) /\ Priced(orders[id]) /\ net >= MinNet(orders[id], amount)
      /\ orders' = [orders EXCEPT ![id] = Sliced(orders[id], amount, net)]
  BY DEF ExecuteSlice
<1>2. net \in Nat
  <2>1. total_out \in Nat /\ fee \in Nat /\ fee <= total_out
    BY SliceOutput DEF Inv
  <2> HIDE DEF total_out, fee
  <2> QED
    BY <2>1
<1>3. orders'[id] = Sliced(orders[id], amount, net)
  BY <1>1
<1> HIDE DEF net
<1> QED
  BY <1>1, <1>2, <1>3 DEF Executed, CanSlice

(* The slice keeps the limit in sum: what it owes it pays.                  *)
LEMMA LimitSum ==
  ASSUME NEW filled \in Nat, NEW received \in Nat, NEW amount \in Nat, NEW net \in Nat,
         NEW num \in Nat, NEW den \in Nat \ {0},
         filled * num <= received * den, net >= MulDivCeil(amount, num, den)
  PROVE  (filled + amount) * num <= (received + net) * den
<1> DEFINE owed == MulDivCeil(amount, num, den)
<1>1. owed \in Nat /\ amount * num <= den * owed
  BY CeilBounds
<1>2. owed <= net
  OBVIOUS
<1> HIDE DEF owed
<1>3. den * owed <= den * net
  BY <1>1, <1>2, ProductMonotone
<1>4. /\ (filled + amount) * num = filled * num + amount * num
      /\ (received + net) * den = received * den + den * net
  BY SMT
<1>5. /\ filled * num \in Int /\ amount * num \in Int /\ received * den \in Int
      /\ den * net \in Int /\ den * owed \in Int
  BY <1>1, SMT
<1> QED
  BY <1>1, <1>3, <1>4, <1>5

Advanced(o, n, amount, net) ==
  /\ n.filled_in = o.filled_in + amount /\ n.received_out = o.received_out + net
  /\ n.last_slice_ledger = Ledger
  /\ n.status = IF o.filled_in + amount = o.total_in THEN "Completed" ELSE o.status
  /\ n.token_in = o.token_in /\ n.token_out = o.token_out
  /\ n.total_in = o.total_in
  /\ n.start_ledger = o.start_ledger /\ n.end_ledger = o.end_ledger
  /\ n.limit_num = o.limit_num /\ n.limit_den = o.limit_den
  /\ n.max_slippage_bps = o.max_slippage_bps
  /\ n.pace_tolerance_bps = o.pace_tolerance_bps

LEMMA SlicedFields ==
  ASSUME NEW o \in Order, NEW amount \in Nat, NEW net \in Nat, Ledger \in Nat
  PROVE  Sliced(o, amount, net) \in Order /\ Advanced(o, Sliced(o, amount, net), amount, net)
<1> DEFINE status == IF o.filled_in + amount = o.total_in THEN "Completed" ELSE o.status
           n == Sliced(o, amount, net)
<1>1. /\ o.filled_in + amount \in Nat /\ o.received_out + net \in Nat
      /\ status \in {"Active", "Completed", "Cancelled", "Expired"}
  BY DEF Order
<1>2. n = [o EXCEPT !.filled_in = @ + amount, !.received_out = @ + net,
                    !.last_slice_ledger = Ledger, !.status = status]
  BY DEF Sliced, Order
<1>3. status = IF o.filled_in + amount = o.total_in THEN "Completed" ELSE o.status
  OBVIOUS
<1> HIDE DEF status, n
<1>4. n \in Order
  BY <1>1, <1>2 DEF Order
<1>5. n.status = status
  BY <1>1, <1>2 DEF Order
<1>6. Advanced(o, n, amount, net)
  BY <1>2, <1>3, <1>5 DEF Order, Advanced
<1> QED
  BY <1>4, <1>6 DEF n

LEMMA SlicedSound ==
  ASSUME NEW o \in Order, Ledger \in Nat, Sound(o, 0, Ledger), NEW n, NEW amount, NEW net,
         Executed(o, n, amount, net)
  PROVE  n \in Order /\ Sound(n, 0, Ledger) /\ n.token_in = o.token_in
         /\ Held(n) - Held(o) = -amount
<1>1. /\ amount \in Nat \ {0} /\ net \in Nat /\ amount <= o.total_in - o.filled_in
      /\ o.status = "Active" /\ OnPace(o, amount) /\ net >= MinNet(o, amount)
      /\ n = Sliced(o, amount, net)
  BY DEF Executed
<1>a. n \in Order /\ Advanced(o, n, amount, net)
  BY <1>1, SlicedFields
<1>2. /\ n \in Order
      /\ n.filled_in = o.filled_in + amount /\ n.received_out = o.received_out + net
      /\ n.last_slice_ledger = Ledger
      /\ n.status = IF o.filled_in + amount = o.total_in THEN "Completed" ELSE "Active"
      /\ n.token_in = o.token_in /\ n.total_in = o.total_in
      /\ n.start_ledger = o.start_ledger /\ n.end_ledger = o.end_ledger
      /\ n.limit_num = o.limit_num /\ n.limit_den = o.limit_den
      /\ n.pace_tolerance_bps = o.pace_tolerance_bps
  BY <1>1, <1>a DEF Advanced
<1>3. /\ o.total_in \in Nat \ {0} /\ o.filled_in \in Nat /\ o.received_out \in Nat
      /\ o.start_ledger \in Nat /\ o.end_ledger \in Nat /\ o.pace_tolerance_bps \in Nat
      /\ o.limit_num \in Int /\ o.limit_den \in Int
  BY DEF Order
<1>4. /\ o.filled_in <= o.total_in /\ o.start_ledger < o.end_ledger /\ o.start_ledger <= Ledger
      /\ NeverAhead(o) /\ LimitKept(o)
  BY DEF Sound
<1> HIDE DEF Ledger
<1>5. NeverAhead(n)
  <2> DEFINE elapsed == Ledger - o.start_ledger
             duration == o.end_ledger - o.start_ledger
             filled == o.filled_in + amount
  <2>1. filled <= MulDivFloor(o.total_in, elapsed, duration)
                    + MulDivFloor(o.total_in, o.pace_tolerance_bps, BPS_DENOMINATOR)
    BY <1>1 DEF OnPace
  <2>2. elapsed \in Nat /\ duration \in Nat \ {0} /\ filled \in Nat /\ o.total_in \in Nat
        /\ BPS_DENOMINATOR \in Nat \ {0} /\ o.pace_tolerance_bps \in Nat
    BY <1>1, <1>3, <1>4, OracleAssumption
  <2> HIDE DEF elapsed, duration, filled
  <2>3. filled * duration * BPS_DENOMINATOR
          <= o.total_in * (elapsed * BPS_DENOMINATOR + o.pace_tolerance_bps * duration)
    BY <2>1, <2>2, PaceOfFloors
  <2> QED
    BY <1>2, <2>3 DEF NeverAhead, elapsed, duration, filled
<1>6. LimitKept(n)
  <2>1. CASE FixedLimit(o)
    <3>1. o.limit_num \in Nat /\ o.limit_den \in Nat \ {0}
          /\ o.filled_in * o.limit_num <= o.received_out * o.limit_den
      BY <1>3, <1>4, <2>1 DEF FixedLimit, LimitKept
    <3>2. net >= MulDivCeil(amount, o.limit_num, o.limit_den)
      BY <1>1, <2>1 DEF MinNet, LimitNet
    <3>3. (o.filled_in + amount) * o.limit_num <= (o.received_out + net) * o.limit_den
      BY <1>1, <1>3, <3>1, <3>2, LimitSum
    <3> QED
      BY <1>2, <3>3 DEF LimitKept
  <2>2. CASE ~FixedLimit(o)
    BY <1>2, <2>2 DEF LimitKept, FixedLimit
  <2> QED
    BY <2>1, <2>2
<1>7. n.filled_in <= n.total_in /\ (n.status = "Completed" <=> n.filled_in = n.total_in)
      /\ n.status \in {"Active", "Completed"}
  BY <1>1, <1>2, <1>3
<1>8. Sound(n, 0, Ledger)
  BY <1>2, <1>4, <1>5, <1>6, <1>7 DEF Sound
<1>9. Held(n) - Held(o) = -amount
  BY <1>1, <1>2, <1>3 DEF Held, Remaining
<1> QED
  BY <1>2, <1>8, <1>9

LEMMA SliceKeeps ==
  ASSUME Inv, NEW id \in DOMAIN orders, NEW route \in Routes,
         NEW outs \in [DOMAIN route -> VenueOutputs], NEW amount \in Int,
         ExecuteSlice(id, amount, route, outs)
  PROVE  Inv'
<1> DEFINE o == orders[id]
           total_out == FoldFunction(+, 0, outs)
           fee == CalculateFee(total_out, settings.fee, FEE_DENOMINATOR)
           net == total_out - fee
           back == 0
           n == Sliced(o, amount, net)
           mid == Credit(balance, Book, o.token_in, -amount)
           due == Credit(mid, o.maker, o.token_out, net)
           paid == Credit(due, Vault, o.token_out, fee)
<1>1. /\ CanSlice(o, amount) /\ balance' = paid /\ orders' = [orders EXCEPT ![id] = n]
      /\ active' = Deindexed(id, n) /\ refunded' = refunded
      /\ UNCHANGED <<settings, oracleVars>>
      /\ net >= MinNet(o, amount) /\ Priced(o)
  BY DEF ExecuteSlice
<1>2. total_out \in Nat /\ fee \in Nat /\ fee <= total_out
  BY SliceOutput DEF Inv
<1> HIDE DEF total_out, fee
<1>3. net \in Nat /\ amount \in Nat \ {0}
  BY <1>1, <1>2 DEF CanSlice
<1>4. o \in Order /\ Sound(o, refunded[id], Ledger) /\ refunded \in Seq(Nat)
      /\ DOMAIN refunded = DOMAIN orders
  BY ActiveOrder
<1>5. o.status = "Active" /\ refunded[id] = 0 /\ Sound(o, 0, Ledger)
  BY <1>1, <1>4 DEF CanSlice, Sound
<1>6. refunded' = [refunded EXCEPT ![id] = back] /\ back \in Nat
  BY <1>1, <1>4, <1>5
<1>7. Executed(o, n, amount, net)
  BY <1>1, <1>3 DEF Executed, CanSlice
<1>8. Ledger \in Nat
  BY <1>1, OracleStays DEF Inv
<1>9. /\ o.maker \in Holders /\ o.maker # Book /\ Book \in Holders /\ Vault \in Holders
      /\ Vault # Book /\ o.token_in \in Tokens /\ o.token_out \in Tokens /\ balance \in Ledgers
  BY <1>4, TwapAssumption DEF Inv, BookOK, Holders, Order
<1> HIDE DEF n, o, net
<1>10. n \in Order /\ Sound(n, back, Ledger) /\ n.token_in = o.token_in
       /\ Held(n) - Held(o) = -amount
  BY <1>4, <1>5, <1>7, <1>8, SlicedSound
<1> HIDE DEF back
<1>11. -amount \in Int /\ net \in Int /\ fee \in Int
  BY <1>2, <1>3
<1>12. mid \in Ledgers /\ BookGains(balance, mid, o.token_in, -amount)
  BY <1>9, <1>11, CreditMoves
<1> HIDE DEF mid
<1>13. due \in Ledgers /\ BookGains(mid, due, o.token_out, 0)
  BY <1>9, <1>11, <1>12, CreditMoves
<1> HIDE DEF due
<1>14. paid \in Ledgers /\ BookGains(due, paid, o.token_out, 0)
  BY <1>9, <1>11, <1>13, CreditMoves
<1> HIDE DEF paid
<1>15. BookGains(balance, paid, n.token_in, Held(n) - Held(o))
  <2>1. BookGains(balance, due, o.token_in, -amount)
    BY <1>9, <1>11, <1>12, <1>13, GainsAdd
  <2> QED
    BY <1>9, <1>10, <1>11, <1>13, <1>14, <2>1, GainsAdd
<1> QED
  BY <1>1, <1>5, <1>6, <1>10, <1>14, <1>15, CallKeeps DEF o

(* Whatever anybody may do to the contract, with terms and sizes of any     *)
(* kind: the steps of Spec, and those of a keeper or an app in front of it. *)
AnyCall ==
  \/ \E maker \in Makers, o \in Terms : PlaceTwap(maker, o)
  \/ \E id \in DOMAIN orders :
       \/ \E route \in Routes : \E outs \in [DOMAIN route -> VenueOutputs] :
            \E amount \in Int : ExecuteSlice(id, amount, route, outs)
       \/ CancelTwap(id) \/ ExpireTwap(id)
  \/ \E rate \in FeeRates : SetFee(rate)
  \/ \E venue \in Venues : RegisterVenue(venue) \/ RemoveVenue(venue)
  \/ OracleMoves
  \/ UNCHANGED vars

LEMMA NextIsCall ==
  ASSUME Inv, [Next]_vars
  PROVE  AnyCall
<1>1. TwapTerms \subseteq Terms
  BY TwapAssumption
<1>2. \A id \in DOMAIN orders : 1..orders[id].total_in \subseteq Int
  BY ActiveOrder DEF Order
<1> QED
  BY <1>1, <1>2 DEF Next, AnyCall

LEMMA InitKeeps ==
  ASSUME Init
  PROVE  Inv
<1>1. OracleTypeOK /\ seq = 0 /\ Ledger \in Nat
  BY OracleInitTyped DEF Init, OracleInit, Ledger
<1>2. settings \in Settings
  BY TwapAssumption DEF Init, Settings
<1>3. /\ orders = <<>> /\ refunded = <<>> /\ active = {} /\ balance = Funds
  BY DEF Init
<1>4. orders \in Seq(Order) /\ refunded \in Seq(Nat) /\ Len(refunded) = Len(orders)
      /\ DOMAIN orders = {}
  BY <1>3
<1>5. balance \in Ledgers
  BY <1>3, TwapAssumption DEF Balances, Ledgers
<1>6. active = {id \in DOMAIN orders : orders[id].status = "Active"}
      /\ Cardinality(active) <= MAX_ACTIVE_ORDERS
  <2>1. Cardinality({}) = 0
    BY FS_EmptySet
  <2> QED
    BY <1>3, <1>4, <2>1, TwapAssumption
<1>7. ASSUME NEW t \in Tokens PROVE balance[<<Book, t>>] = Pool(orders, t)
  <2>1. Sellers(orders, t) = {}
    BY <1>4 DEF Sellers
  <2>2. Units(Holdings(orders), {}) = {}
    BY DEF Units
  <2>3. Pool(orders, t) = 0
    BY <2>1, <2>2, FS_EmptySet DEF Pool
  <2> QED
    BY <1>3, <2>3, TwapAssumption
<1> QED
  BY <1>1, <1>2, <1>4, <1>5, <1>6, <1>7 DEF Inv, BookOK

LEMMA CallInvariant ==
  ASSUME Inv, AnyCall
  PROVE  Inv'
<1>1. ASSUME NEW maker \in Makers, NEW o \in Terms, PlaceTwap(maker, o)
      PROVE  Inv'
  BY <1>1, PlaceKeeps
<1>2. ASSUME NEW id \in DOMAIN orders, NEW route \in Routes,
             NEW outs \in [DOMAIN route -> VenueOutputs], NEW amount \in Int,
             ExecuteSlice(id, amount, route, outs)
      PROVE  Inv'
  BY <1>2, SliceKeeps
<1>3. ASSUME NEW id \in DOMAIN orders, CancelTwap(id) \/ ExpireTwap(id)
      PROVE  Inv'
  BY <1>3, CloseKeeps DEF CancelTwap, ExpireTwap
<1>4. ASSUME settings' \in Settings, UNCHANGED <<orders, active, balance, refunded, oracleVars>>
      PROVE  Inv'
  <2>1. OracleTypeOK' /\ Ledger' = Ledger
    BY <1>4, OracleStays DEF Inv
  <2> QED
    BY <1>4, <2>1 DEF Inv
<1>5. ASSUME NEW rate \in FeeRates, SetFee(rate)
      PROVE  Inv'
  <2>1. settings' \in Settings
    BY <1>5 DEF Inv, Settings, SetFee
  <2> QED
    BY <1>4, <1>5, <2>1 DEF SetFee
<1>6. ASSUME NEW venue \in Venues, RegisterVenue(venue) \/ RemoveVenue(venue)
      PROVE  Inv'
  <2>1. settings' \in Settings
    BY <1>6 DEF Inv, Settings, RegisterVenue, RemoveVenue
  <2> QED
    BY <1>4, <1>6, <2>1 DEF RegisterVenue, RemoveVenue
<1>7. CASE OracleMoves
  <2>1. OracleTypeOK' /\ UNCHANGED twapVars
    BY <1>7, OracleStepTyped DEF OracleMoves, Inv
  <2>2. seq \in Nat /\ seq' \in Nat
    BY <2>1, OracleAssumption DEF Inv, OracleTypeOK
  <2>3. seq' = seq \/ seq' = seq + 1
    BY <1>7 DEF OracleMoves, OracleNext, OracleStep, SetOracleAdmin, UpdateOraclePrice,
                SetSep40MaxAge, SetSep40Feed, RemoveSep40Feed, Report, CloseLedger
  <2>a. Ledger \in Nat /\ Ledger' \in Nat /\ Ledger <= Ledger'
    BY <2>2, <2>3, OneLater DEF Ledger
  <2>4. BookOK(orders, active, balance, refunded, Ledger')
    BY <2>a, BookLater DEF Inv
  <2> QED
    BY <2>1, <2>4 DEF Inv, twapVars
<1>8. CASE UNCHANGED vars
  <2>1. OracleTypeOK' /\ Ledger' = Ledger
    BY <1>8, OracleStays DEF Inv, vars
  <2> QED
    BY <1>8, <2>1 DEF Inv, vars, twapVars
<1> QED
  BY <1>1, <1>2, <1>3, <1>5, <1>6, <1>7, <1>8 DEF AnyCall

LEMMA NextKeeps ==
  ASSUME Inv, [Next]_vars
  PROVE  Inv'
  BY NextIsCall, CallInvariant

LEMMA SpecInv == Spec => []Inv
  BY InitKeeps, NextKeeps, PTL DEF Spec

(* What the invariant says of the properties.                               *)
LEMMA InvSafe ==
  ASSUME Inv
  PROVE  PaceKept /\ EscrowBacked /\ IndexExact
<1>1. PaceKept
  BY ActiveOrder DEF PaceKept, Sound
<1>2. EscrowBacked
  <2>1. orders \in Seq(Order)
    BY DEF Inv, BookOK
  <2> QED
    BY <2>1, EscrowIsPool DEF EscrowBacked, Inv, BookOK
<1>3. IndexExact
  <2>1. /\ active = {id \in DOMAIN orders : orders[id].status = "Active"}
        /\ Cardinality(active) <= MAX_ACTIVE_ORDERS
    BY DEF Inv, BookOK
  <2>2. \A id \in DOMAIN orders : Sound(orders[id], refunded[id], Ledger)
    BY ActiveOrder
  <2> QED
    BY <2>1, <2>2 DEF IndexExact, Sound
<1> QED
  BY <1>1, <1>2, <1>3

(* Whatever keepers submit, in whatever ledgers and through whatever routes,*)
(* execute_slice never lets an order's cumulative fill get ahead of its     *)
(* schedule by more than the tolerance, taken as an exact fraction.         *)
THEOREM PaceSafe == Spec => []PaceKept
  BY SpecInv, InvSafe, PTL

(* What the contract holds of a token is exactly what the active orders     *)
(* that sell it have left: no slice, cancel or expiry pays from another's.  *)
THEOREM PoolSafe == Spec => []EscrowBacked
  BY SpecInv, InvSafe, PTL

(* ActiveIndex names exactly the active orders, within its cap, and an order*)
(* ends completed exactly when all of it is executed, or else with a refund *)
(* of exactly the rest.                                                     *)
THEOREM IndexSafe == Spec => []IndexExact
  BY SpecInv, InvSafe, PTL

(* Either a step executes a slice of an order, or it leaves what the order  *)
(* has taken and given alone.                                               *)
LEMMA CallEffect ==
  ASSUME Inv, AnyCall, NEW id \in DOMAIN orders
  PROVE  \/ /\ orders'[id].filled_in = orders[id].filled_in
            /\ orders'[id].received_out = orders[id].received_out
         \/ \E amount \in Nat, net \in Nat : Executed(orders[id], orders'[id], amount, net)
<1> DEFINE Same == /\ orders'[id].filled_in = orders[id].filled_in
                   /\ orders'[id].received_out = orders[id].received_out
<1>1. orders \in Seq(Order)
  BY DEF Inv, BookOK
<1>2. ASSUME NEW maker \in Makers, NEW o \in Terms, PlaceTwap(maker, o)
      PROVE  Same
  <2>1. orders' = Append(orders, NewTwap(maker, o))
    BY <1>2 DEF PlaceTwap
  <2>2. orders'[id] = orders[id]
    BY <1>1, <2>1
  <2> QED
    BY <2>2
<1>3. ASSUME NEW other \in DOMAIN orders, NEW route \in Routes,
             NEW outs \in [DOMAIN route -> VenueOutputs], NEW amount \in Int,
             ExecuteSlice(other, amount, route, outs)
      PROVE  Same \/ \E net \in Nat : /\ amount \in Nat
                                       /\ Executed(orders[id], orders'[id], amount, net)
  <2>1. CASE other = id
    <3>1. PICK net \in Nat : Executed(orders[id], orders'[id], amount, net)
      BY <1>3, <2>1, SliceExecuted
    <3>2. amount \in Nat
      BY <3>1 DEF Executed
    <3> QED
      BY <3>1, <3>2
  <2>2. CASE other # id
    <3>1. orders' = [orders EXCEPT ![other] = orders'[other]]
      <4>1. PICK n : orders' = [orders EXCEPT ![other] = n]
        BY <1>3 DEF ExecuteSlice
      <4> QED
        BY <4>1
    <3>2. orders'[id] = orders[id]
      BY <2>2, <3>1
    <3> QED
      BY <3>2
  <2> QED
    BY <2>1, <2>2
<1>4. ASSUME NEW other \in DOMAIN orders, NEW status, Close(other, status)
      PROVE  Same
  <2>1. orders' = [orders EXCEPT ![other] = [orders[other] EXCEPT !.status = status]]
    BY <1>4 DEF Close
  <2>2. CASE other = id
    <3>1. orders'[id] = [orders[id] EXCEPT !.status = status] /\ orders[id] \in Order
      BY <2>1, <2>2, ActiveOrder
    <3> QED
      BY <3>1 DEF Order
  <2>3. CASE other # id
    BY <2>1, <2>3
  <2> QED
    BY <2>2, <2>3
<1>5. ASSUME orders' = orders
      PROVE  Same
  BY <1>5
<1> HIDE DEF Same
<1> QED
  BY <1>2, <1>3, <1>4, <1>5
     DEF AnyCall, CancelTwap, ExpireTwap, SetFee, RegisterVenue, RemoveVenue, OracleMoves,
         vars, twapVars, Same

LEMMA CallClears ==
  ASSUME Inv, AnyCall
  PROVE  \A id \in DOMAIN orders : ClearsOracle(id)
<1>1. SUFFICES ASSUME NEW id \in DOMAIN orders, ~FixedLimit(orders[id]), Slice(id).amount > 0
               PROVE  LET o == orders[id]
                          price == ReadOracle(o.token_in, o.token_out)
                      IN /\ HasPrice(o.token_in, o.token_out)
                         /\ (Slice(id).net + 1) * price.den * BPS_DENOMINATOR
                              >= Slice(id).amount * price.num
                                   * (BPS_DENOMINATOR - o.max_slippage_bps)
  BY DEF ClearsOracle
<1> DEFINE o == orders[id]
           n == orders'[id]
           price == ReadOracle(o.token_in, o.token_out)
<1>2. o \in Order
  BY ActiveOrder
<1>3. /\ o.filled_in \in Nat /\ o.received_out \in Nat /\ o.token_in \in Tokens
      /\ o.token_out \in Tokens /\ o.max_slippage_bps \in Nat
  BY <1>2 DEF Order
<1>4. Slice(id).amount = n.filled_in - o.filled_in
      /\ Slice(id).net = n.received_out - o.received_out
  BY DEF Slice
<1>5. PICK amount \in Nat, net \in Nat : Executed(o, n, amount, net)
  <2>1. n.filled_in # o.filled_in
    BY <1>1, <1>3, <1>4
  <2> QED
    BY <2>1, CallEffect
<1> HIDE DEF o, n
<1>6. /\ ~FixedLimit(o) /\ Priced(o) /\ net >= MinNet(o, amount)
      /\ n = Sliced(o, amount, net)
  BY <1>1, <1>5 DEF Executed, o
<1>7. Slice(id).amount = amount /\ Slice(id).net = net
  <2>1. n.filled_in = o.filled_in + amount /\ n.received_out = o.received_out + net
    BY <1>2, <1>6 DEF Sliced, Order
  <2> QED
    BY <1>3, <1>4, <2>1
<1>8. HasPrice(o.token_in, o.token_out)
  BY <1>6 DEF Priced
<1>9. price.num \in Nat \ {0} /\ price.den \in Nat \ {0}
  BY <1>3, <1>8, PricePositive DEF Inv
<1>10. net >= MulDivCeil(MulDivFloor(amount, price.num, price.den),
                         BPS_DENOMINATOR - o.max_slippage_bps, BPS_DENOMINATOR)
  BY <1>6 DEF MinNet, PeggedNet
<1> HIDE DEF price
<1>11. (net + 1) * price.den * BPS_DENOMINATOR
         > amount * price.num * (BPS_DENOMINATOR - o.max_slippage_bps)
  BY <1>3, <1>9, <1>10, OracleAssumption, PeggedFloor
<1>12. /\ (net + 1) * price.den * BPS_DENOMINATOR \in Int
       /\ amount * price.num * (BPS_DENOMINATOR - o.max_slippage_bps) \in Int
  BY <1>3, <1>9, OracleAssumption, SMT
<1>13. (net + 1) * price.den * BPS_DENOMINATOR
         >= amount * price.num * (BPS_DENOMINATOR - o.max_slippage_bps)
  BY <1>11, <1>12
<1> QED
  BY <1>7, <1>8, <1>13 DEF o, price

(* An order without a limit clears, at every slice, the oracle's price of   *)
(* that moment less its tolerance, short of it by less than one base unit;  *)
(* no slice executes without a fresh price.                                 *)
THEOREM OraclePriceSafe == Spec => SlicesNearOracle
<1>1. Inv /\ [Next]_vars => [\A id \in DOMAIN orders : ClearsOracle(id)]_vars
  BY NextIsCall, CallClears
<1> QED
  BY <1>1, SpecInv, PTL DEF Spec, SlicesNearOracle

-----------------------------------------------------------------------------
(* The keeper and the app in front of the contract                          *)

(* A submission sized from a ledger that is past now.                       *)
Sized(o, amount, ledger) ==
  /\ amount \in Nat \ {0} /\ amount <= Remaining(o) /\ amount <= o.max_slice_in
  /\ o.filled_in + amount
       <= MulDivFloor(o.total_in, Max({0, ledger - o.start_ledger}), o.end_ledger - o.start_ledger)
            + Headroom(o)
  /\ o.last_slice_ledger > 0 => ledger >= o.last_slice_ledger + o.min_slice_gap

Prepared(sub, ledger, ids, now) ==
  /\ sub.id \in ids
  /\ sub.order \in Order /\ Sound(sub.order, 0, now) /\ sub.order.status = "Active"
  /\ \/ sub.kind = "expire" /\ ledger > sub.order.end_ledger
     \/ sub.kind = "slice" /\ sub.route \in Routes /\ Sized(sub.order, sub.amount, ledger)

KeeperOK(k, ids, now) ==
  /\ k = [phase |-> k.phase, ids |-> k.ids, turns |-> k.turns, ledger |-> k.ledger,
          rotation |-> k.rotation, sub |-> k.sub]
  /\ k.rotation \in Nat /\ k.ledger \in Nat /\ k.ledger <= now
  /\ k.phase = "ledger" => k.ids \in Seq(ids) /\ k.ids # <<>>
  /\ k.phase \in {"turn", "submit"} => k.turns \in Seq(ids) /\ k.turns # <<>>
  /\ k.phase = "submit" => Prepared(k.sub, k.ledger, ids, now)
  /\ k.phase # "submit" => k.sub.kind = "none"

KeeperInv == Inv /\ KeeperOK(keeper, DOMAIN orders, Ledger)

(* The kinds of change a call makes to the list of orders.                  *)
Grown(os, ns) ==
  \/ ns = os
  \/ \E n \in Order : ns = Append(os, n)
  \/ \E id \in DOMAIN os, n \in Order :
       /\ ns = [os EXCEPT ![id] = n]
       /\ n.limit_num = os[id].limit_num /\ n.limit_den = os[id].limit_den

LEMMA LongestOf ==
  ASSUME NEW a \in Int, NEW b \in Int
  PROVE  Max({a, b}) = IF a > b THEN a ELSE b
<1>1. \E x \in {a, b} : \A y \in {a, b} : x >= y
  <2>1. CASE a >= b
    BY <2>1
  <2>2. CASE b >= a
    BY <2>2
  <2> QED
    BY <2>1, <2>2
<1>2. Max({a, b}) \in {a, b} /\ \A y \in {a, b} : Max({a, b}) >= y
  BY <1>1 DEF Max
<1> QED
  BY <1>2

LEMMA ShortestOf ==
  ASSUME NEW a \in Int, NEW b \in Int, NEW c \in Int
  PROVE  /\ Min({a, b, c}) \in Int
         /\ Min({a, b, c}) <= a /\ Min({a, b, c}) <= b /\ Min({a, b, c}) <= c
<1>1. \E x \in {a, b, c} : \A y \in {a, b, c} : x <= y
  <2>1. CASE a <= b /\ a <= c
    BY <2>1
  <2>2. CASE b <= a /\ b <= c
    BY <2>2
  <2>3. CASE c <= a /\ c <= b
    BY <2>3
  <2> QED
    BY <2>1, <2>2, <2>3
<1>2. Min({a, b, c}) \in {a, b, c} /\ \A y \in {a, b, c} : Min({a, b, c}) <= y
  BY <1>1 DEF Min
<1> QED
  BY <1>2

(* What the schedule allows only grows with the ledger.                     *)
LEMMA FloorGrows ==
  ASSUME NEW total \in Nat, NEW early \in Nat, NEW late \in Nat, early <= late,
         NEW duration \in Nat \ {0}
  PROVE  MulDivFloor(total, early, duration) <= MulDivFloor(total, late, duration)
<1> DEFINE a == MulDivFloor(total, early, duration)
           b == MulDivFloor(total, late, duration)
<1>0. a \in Nat /\ duration * a <= total * early
  BY FloorBounds
<1>1. b \in Nat /\ total * late < duration * b + duration
  BY FloorBounds
<1> HIDE DEF a, b
<1>2. total * early <= total * late
  BY ProductMonotone
<1>3. total * early \in Int /\ total * late \in Int /\ duration * a \in Int /\ duration * b \in Int
  BY <1>0, <1>1, SMT
<1>4. duration * a < duration * b + duration
  BY <1>0, <1>1, <1>2, <1>3
<1>5. a <= b
  BY <1>0, <1>1, <1>4, Cancel
<1> QED
  BY <1>5 DEF a, b

(* What the keeper read stays good while orders are added and ledgers close.*)
LEMMA KeeperLater ==
  ASSUME NEW k, NEW ids, NEW more, ids \subseteq more, NEW now \in Nat, NEW later \in Nat,
         now <= later, KeeperOK(k, ids, now)
  PROVE  KeeperOK(k, more, later)
<1>1. Seq(ids) \subseteq Seq(more)
  OBVIOUS
<1>2. k.ledger \in Nat /\ k.ledger <= later
  BY DEF KeeperOK
<1>3. k.phase = "submit" => Prepared(k.sub, k.ledger, more, later)
  <2>1. SUFFICES ASSUME k.phase = "submit", Prepared(k.sub, k.ledger, ids, now)
                 PROVE  Prepared(k.sub, k.ledger, more, later)
    BY DEF KeeperOK
  <2>2. k.sub.order \in Order /\ Sound(k.sub.order, 0, now)
    BY <2>1 DEF Prepared
  <2>3. Sound(k.sub.order, 0, later)
    BY <2>2, SoundLater
  <2> QED
    BY <2>1, <2>3 DEF Prepared
<1> QED
  BY <1>1, <1>2, <1>3 DEF KeeperOK

(* A call adds an order, or replaces one and leaves its limit as it is; it  *)
(* never takes the ledger back.                                             *)
LEMMA CallGrows ==
  ASSUME Inv, AnyCall
  PROVE  Grown(orders, orders') /\ Ledger \in Nat /\ Ledger' \in Nat /\ Ledger <= Ledger'
<1>1. orders \in Seq(Order) /\ seq \in Nat
  BY DEF Inv, BookOK, OracleTypeOK
<1>2. seq' \in Nat /\ (seq' = seq \/ seq' = seq + 1)
  <2>1. seq' \in Nat
    BY CallInvariant DEF Inv, OracleTypeOK
  <2>2. CASE OracleMoves
    <3>1. seq' = seq \/ seq' = seq + 1
      BY <2>2 DEF OracleMoves, OracleNext, OracleStep, SetOracleAdmin, UpdateOraclePrice,
                  SetSep40MaxAge, SetSep40Feed, RemoveSep40Feed, Report, CloseLedger
    <3> QED
      BY <2>1, <3>1
  <2>3. CASE UNCHANGED oracleVars
    BY <2>1, <2>3 DEF oracleVars
  <2>4. AnyCall => OracleMoves \/ UNCHANGED oracleVars
    <3>1. ASSUME NEW maker, NEW o, PlaceTwap(maker, o) PROVE UNCHANGED oracleVars
      BY <3>1 DEF PlaceTwap
    <3>2. ASSUME NEW id, NEW amount, NEW route, NEW outs, ExecuteSlice(id, amount, route, outs)
          PROVE  UNCHANGED oracleVars
      BY <3>2 DEF ExecuteSlice
    <3>3. ASSUME NEW id, CancelTwap(id) \/ ExpireTwap(id) PROVE UNCHANGED oracleVars
      BY <3>3 DEF CancelTwap, ExpireTwap, Close
    <3>4. ASSUME NEW rate, SetFee(rate) PROVE UNCHANGED oracleVars
      BY <3>4 DEF SetFee
    <3>5. ASSUME NEW venue, RegisterVenue(venue) \/ RemoveVenue(venue) PROVE UNCHANGED oracleVars
      BY <3>5 DEF RegisterVenue, RemoveVenue
    <3>6. UNCHANGED vars => UNCHANGED oracleVars
      BY DEF vars
    <3> QED
      BY <3>1, <3>2, <3>3, <3>4, <3>5, <3>6 DEF AnyCall
  <2> QED
    BY <2>2, <2>3, <2>4
<1>3. Ledger \in Nat /\ Ledger' \in Nat /\ Ledger <= Ledger'
  BY <1>1, <1>2, OneLater DEF Ledger
<1>4. ASSUME NEW maker \in Makers, NEW o \in Terms, PlaceTwap(maker, o)
      PROVE  Grown(orders, orders')
  <2>1. orders' = Append(orders, NewTwap(maker, o))
    BY <1>4 DEF PlaceTwap
  <2>2. NewTwap(maker, o) \in Order
    <3>1. orders' \in Seq(Order) /\ Len(orders) + 1 \in DOMAIN orders'
          /\ orders'[Len(orders) + 1] = NewTwap(maker, o)
      BY <1>1, <2>1, CallInvariant DEF Inv, BookOK
    <3> QED
      BY <3>1
  <2> QED
    BY <2>1, <2>2 DEF Grown
<1>5. ASSUME NEW id \in DOMAIN orders, NEW amount, NEW net,
             orders' = [orders EXCEPT ![id] = Sliced(orders[id], amount, net)]
      PROVE  Grown(orders, orders')
  <2>1. orders' \in Seq(Order) /\ orders'[id] = Sliced(orders[id], amount, net)
        /\ id \in DOMAIN orders' /\ orders[id] \in Order
    BY <1>1, <1>5, CallInvariant, ActiveOrder DEF Inv, BookOK
  <2>2. Sliced(orders[id], amount, net) \in Order
    BY <2>1
  <2>3. Sliced(orders[id], amount, net).limit_num = orders[id].limit_num
        /\ Sliced(orders[id], amount, net).limit_den = orders[id].limit_den
    BY <2>1 DEF Sliced, Order
  <2> QED
    BY <1>5, <2>2, <2>3 DEF Grown
<1>6. ASSUME NEW id \in DOMAIN orders, NEW status, Close(id, status)
      PROVE  Grown(orders, orders')
  <2> DEFINE n == [orders[id] EXCEPT !.status = status]
  <2>1. orders' = [orders EXCEPT ![id] = n]
    BY <1>6 DEF Close
  <2>2. orders' \in Seq(Order) /\ orders'[id] = n
        /\ id \in DOMAIN orders' /\ orders[id] \in Order
    BY <1>1, <2>1, CallInvariant, ActiveOrder DEF Inv, BookOK
  <2>3. n.limit_num = orders[id].limit_num /\ n.limit_den = orders[id].limit_den
    BY <2>2 DEF Order
  <2> HIDE DEF n
  <2>4. n \in Order
    BY <2>2
  <2> QED
    BY <2>1, <2>3, <2>4 DEF Grown
<1>7. ASSUME orders' = orders PROVE Grown(orders, orders')
  BY <1>7 DEF Grown
<1>8. ASSUME NEW id \in DOMAIN orders, NEW amount, NEW route, NEW outs,
             ExecuteSlice(id, amount, route, outs)
      PROVE  Grown(orders, orders')
  <2>1. PICK net : orders' = [orders EXCEPT ![id] = Sliced(orders[id], amount, net)]
    BY <1>8 DEF ExecuteSlice
  <2> QED
    BY <1>5, <2>1
<1>9. ASSUME NEW id \in DOMAIN orders, CancelTwap(id) \/ ExpireTwap(id)
      PROVE  Grown(orders, orders')
  BY <1>6, <1>9 DEF CancelTwap, ExpireTwap
<1>10. ASSUME NEW rate, SetFee(rate) PROVE Grown(orders, orders')
  BY <1>7, <1>10 DEF SetFee
<1>11. ASSUME NEW venue, RegisterVenue(venue) \/ RemoveVenue(venue)
       PROVE  Grown(orders, orders')
  BY <1>7, <1>11 DEF RegisterVenue, RemoveVenue
<1>12. OracleMoves \/ UNCHANGED vars => Grown(orders, orders')
  BY <1>7 DEF OracleMoves, vars, twapVars
<1> QED
  BY <1>3, <1>4, <1>8, <1>9, <1>10, <1>11, <1>12 DEF AnyCall

LEMMA GrownKeepsIds ==
  ASSUME NEW os \in Seq(Order), NEW ns, Grown(os, ns)
  PROVE  DOMAIN os \subseteq DOMAIN ns
  BY DEF Grown

LEMMA IdleOK ==
  ASSUME NEW rotation \in Nat, NEW ids, NEW now \in Nat
  PROVE  KeeperOK(Idle(rotation), ids, now)
  BY DEF KeeperOK, Idle, NoSubmission

LEMMA NextTurnOK ==
  ASSUME NEW ids, NEW now \in Nat, KeeperOK(keeper, ids, now), keeper.phase \in {"turn", "submit"}
  PROVE  KeeperOK(NextTurn, ids, now)
<1> DEFINE rest == Tail(keeper.turns)
<1>1. keeper.turns \in Seq(ids) /\ keeper.turns # <<>> /\ keeper.rotation \in Nat
      /\ keeper.ledger \in Nat /\ keeper.ledger <= now
      /\ keeper = [phase |-> keeper.phase, ids |-> keeper.ids, turns |-> keeper.turns,
                   ledger |-> keeper.ledger, rotation |-> keeper.rotation, sub |-> keeper.sub]
  BY DEF KeeperOK
<1>2. rest \in Seq(ids)
  BY <1>1
<1>3. CASE rest = <<>>
  BY <1>1, <1>3, IdleOK DEF NextTurn
<1>4. CASE rest # <<>>
  <2>1. NextTurn = [keeper EXCEPT !.phase = "turn", !.turns = rest, !.sub = NoSubmission]
    BY <1>4 DEF NextTurn
  <2> HIDE DEF rest
  <2>2. NextTurn = [phase |-> "turn", ids |-> keeper.ids, turns |-> rest,
                    ledger |-> keeper.ledger, rotation |-> keeper.rotation, sub |-> NoSubmission]
    BY <1>1, <2>1
  <2> QED
    BY <1>1, <1>2, <1>4, <2>2 DEF KeeperOK, NoSubmission
<1> QED
  BY <1>3, <1>4

LEMMA SubmitOK ==
  ASSUME NEW ids, NEW now \in Nat, KeeperOK(keeper, ids, now), keeper.phase = "turn",
         NEW sub, Prepared(sub, keeper.ledger, ids, now), Submit(sub)
  PROVE  KeeperOK(keeper', ids, now)
<1>1. /\ keeper.turns \in Seq(ids) /\ keeper.turns # <<>> /\ keeper.rotation \in Nat
      /\ keeper.ledger \in Nat /\ keeper.ledger <= now
      /\ keeper = [phase |-> keeper.phase, ids |-> keeper.ids, turns |-> keeper.turns,
                   ledger |-> keeper.ledger, rotation |-> keeper.rotation, sub |-> keeper.sub]
  BY DEF KeeperOK
<1>2. keeper' = [phase |-> "submit", ids |-> keeper.ids, turns |-> keeper.turns,
                 ledger |-> keeper.ledger, rotation |-> keeper.rotation, sub |-> sub]
  BY <1>1 DEF Submit
<1> QED
  BY <1>1, <1>2 DEF KeeperOK

(* The turns of a tick: some of the ids read, from where the last tick ended.*)
LEMMA TurnsTyped ==
  ASSUME NEW S, NEW ids \in Seq(S), ids # <<>>, keeper.rotation \in Nat
  PROVE  Turns(ids) \in Seq(S) /\ Turns(ids) # <<>>
<1> DEFINE n == Min({Len(ids), MAX_ORDERS_PER_TICK})
<1>1. Len(ids) \in Nat \ {0} /\ ids \in [1..Len(ids) -> S]
  OBVIOUS
<1>2. n \in Nat \ {0}
  <2>1. {Len(ids), MAX_ORDERS_PER_TICK} \subseteq Nat \ {0}
        /\ {Len(ids), MAX_ORDERS_PER_TICK} # {}
    BY <1>1, KeeperAssumption
  <2>2. \E x \in {Len(ids), MAX_ORDERS_PER_TICK} : \A y \in {Len(ids), MAX_ORDERS_PER_TICK} : x <= y
    BY <2>1, LeastNatural
  <2>3. n \in {Len(ids), MAX_ORDERS_PER_TICK}
    BY <2>2 DEF Min
  <2> QED
    BY <2>1, <2>3
<1>3. \A i \in 1..n : ((keeper.rotation + i - 1) % Len(ids)) + 1 \in 1..Len(ids)
  BY <1>1, <1>2
<1>4. Turns(ids) = [i \in 1..n |-> ids[((keeper.rotation + i - 1) % Len(ids)) + 1]]
  BY DEF Turns
<1> HIDE DEF n
<1>5. Turns(ids) \in [1..n -> S]
  BY <1>1, <1>3, <1>4
<1>6. Turns(ids) \in Seq(S)
  BY <1>2, <1>5
<1>7. 1 \in DOMAIN Turns(ids)
  BY <1>2, <1>5
<1> QED
  BY <1>6, <1>7

LEMMA ReadActiveKeeps ==
  ASSUME KeeperInv, ReadActive
  PROVE  KeeperOK(keeper', DOMAIN orders, Ledger)
<1>1. /\ keeper.phase = "idle" /\ active # {}
      /\ keeper' = [keeper EXCEPT !.phase = "ledger", !.ids = InOrder(active)]
  BY DEF ReadActive
<1>2. /\ keeper.rotation \in Nat /\ keeper.ledger \in Nat /\ keeper.ledger <= Ledger
      /\ keeper = [phase |-> keeper.phase, ids |-> keeper.ids, turns |-> keeper.turns,
                   ledger |-> keeper.ledger, rotation |-> keeper.rotation, sub |-> keeper.sub]
      /\ keeper.sub.kind = "none"
  BY <1>1 DEF KeeperInv, KeeperOK
<1>3. orders \in Seq(Order) /\ active \subseteq DOMAIN orders
  BY DEF KeeperInv, Inv, BookOK
<1>4. active \subseteq Nat /\ IsFiniteSet(active)
  BY <1>3, OrdersTyped, FS_Subset
<1>5. Cardinality(active) \in Nat \ {0}
  BY <1>1, <1>4, FS_CardinalityType, FS_EmptySet
<1>6. InOrder(active) \in [1..Cardinality(active) -> active]
  BY <1>4, InOrderTyped
<1>7. InOrder(active) \in Seq(DOMAIN orders) /\ InOrder(active) # <<>>
  <2>1. InOrder(active) \in Seq(active)
    BY <1>5, <1>6
  <2>2. InOrder(active) # <<>>
    <3>1. 1 \in DOMAIN InOrder(active)
      BY <1>5, <1>6
    <3> QED
      BY <3>1
  <2> QED
    BY <1>3, <2>1, <2>2
<1>8. keeper' = [phase |-> "ledger", ids |-> InOrder(active), turns |-> keeper.turns,
                 ledger |-> keeper.ledger, rotation |-> keeper.rotation, sub |-> keeper.sub]
  BY <1>1, <1>2
<1> QED
  BY <1>2, <1>7, <1>8 DEF KeeperOK

LEMMA ReadLedgerFailsKeeps ==
  ASSUME KeeperInv, ReadLedgerFails
  PROVE  KeeperOK(keeper', DOMAIN orders, Ledger)
<1>1. keeper' = Idle(keeper.rotation)
  BY DEF ReadLedgerFails
<1>2. keeper.rotation \in Nat /\ Ledger \in Nat
  BY DEF KeeperInv, KeeperOK, Inv, OracleTypeOK, Ledger
<1> QED
  BY <1>1, <1>2, IdleOK

LEMMA ReadLedgerKeeps ==
  ASSUME KeeperInv, ReadLedger
  PROVE  KeeperOK(keeper', DOMAIN orders, Ledger)
<1> DEFINE turns == Turns(keeper.ids)
           rotation == (keeper.rotation + Len(turns)) % Rotations
<1>1. /\ keeper.phase = "ledger"
      /\ keeper' = [keeper EXCEPT !.phase = "turn", !.ids = <<>>, !.ledger = Ledger, !.turns = turns,
                                  !.rotation = rotation]
  BY DEF ReadLedger
<1>2. /\ keeper.rotation \in Nat /\ keeper.sub.kind = "none"
      /\ keeper = [phase |-> keeper.phase, ids |-> keeper.ids, turns |-> keeper.turns,
                   ledger |-> keeper.ledger, rotation |-> keeper.rotation, sub |-> keeper.sub]
      /\ keeper.ids \in Seq(DOMAIN orders) /\ keeper.ids # <<>>
  BY <1>1 DEF KeeperInv, KeeperOK
<1>3. turns \in Seq(DOMAIN orders) /\ turns # <<>>
  BY <1>2, TurnsTyped
<1>4. Ledger \in Nat
  BY DEF KeeperInv, Inv, OracleTypeOK, Ledger
<1> HIDE DEF turns
<1>5. rotation \in Nat
  BY <1>2, <1>3, KeeperAssumption
<1>6. keeper' = [phase |-> "turn", ids |-> <<>>, turns |-> turns, ledger |-> Ledger,
                 rotation |-> rotation, sub |-> keeper.sub]
  BY <1>1, <1>2
<1> HIDE DEF rotation
<1> QED
  BY <1>2, <1>3, <1>4, <1>5, <1>6 DEF KeeperOK

(* The order a turn is about, as it is fetched.                             *)
LEMMA Fetched ==
  ASSUME KeeperInv, keeper.phase = "turn"
  PROVE  /\ Head(keeper.turns) \in DOMAIN orders
         /\ orders[Head(keeper.turns)] \in Order
         /\ orders[Head(keeper.turns)].status = "Active"
              => Sound(orders[Head(keeper.turns)], 0, Ledger)
         /\ Ledger \in Nat /\ keeper.ledger \in Nat /\ keeper.ledger <= Ledger
<1>1. Head(keeper.turns) \in DOMAIN orders
  BY DEF KeeperInv, KeeperOK
<1>2. Ledger \in Nat
  BY DEF KeeperInv, Inv, OracleTypeOK, Ledger
<1>3. /\ orders[Head(keeper.turns)] \in Order
      /\ Sound(orders[Head(keeper.turns)], refunded[Head(keeper.turns)], Ledger)
  BY <1>1, ActiveOrder DEF KeeperInv
<1>4. orders[Head(keeper.turns)].status = "Active" => refunded[Head(keeper.turns)] = 0
  BY <1>3 DEF Sound
<1> QED
  BY <1>1, <1>2, <1>3, <1>4 DEF KeeperInv, KeeperOK

LEMMA FindExpiredKeeps ==
  ASSUME KeeperInv, FindExpired
  PROVE  KeeperOK(keeper', DOMAIN orders, Ledger)
<1> DEFINE id == Head(keeper.turns)
           sub == [kind |-> "expire", id |-> id, order |-> orders[id]]
<1>1. /\ keeper.phase = "turn" /\ orders[id].status = "Active"
      /\ keeper.ledger > orders[id].end_ledger /\ Submit(sub)
  BY DEF FindExpired
<1>2. /\ id \in DOMAIN orders /\ orders[id] \in Order /\ Sound(orders[id], 0, Ledger)
      /\ Ledger \in Nat
  BY <1>1, Fetched
<1>3. Prepared(sub, keeper.ledger, DOMAIN orders, Ledger)
  BY <1>1, <1>2 DEF Prepared
<1> HIDE DEF sub
<1> QED
  BY <1>1, <1>2, <1>3, SubmitOK DEF KeeperInv

(* Whatever the sizing chooses, it is cut to the slice cap, to what is left *)
(* and to the ceiling of the pace.                                          *)
LEMMA SizesFit ==
  ASSUME NEW o \in Order, Sound(o, 0, Ledger), keeper.ledger \in Nat,
         NEW size \in Sizes(o), size > 0, ~TooSoon(o)
  PROVE  Sized(o, size, keeper.ledger)
<1> DEFINE elapsed == Max({0, keeper.ledger - o.start_ledger})
           duration == o.end_ledger - o.start_ledger
<1>1. /\ o.total_in \in Nat /\ o.filled_in \in Nat /\ o.max_slice_in \in Nat
      /\ o.start_ledger \in Nat /\ o.end_ledger \in Nat /\ o.pace_tolerance_bps \in Nat
      /\ o.last_slice_ledger \in Nat /\ o.min_slice_gap \in Nat
      /\ o.start_ledger < o.end_ledger /\ Remaining(o) \in Int
  BY DEF Order, Sound, Remaining
<1>2. elapsed \in Nat /\ duration \in Nat \ {0}
  <2>1. keeper.ledger - o.start_ledger \in Int /\ 0 \in Int
    BY <1>1
  <2>2. elapsed = IF 0 > keeper.ledger - o.start_ledger THEN 0 ELSE keeper.ledger - o.start_ledger
    BY <2>1, LongestOf
  <2> HIDE DEF elapsed
  <2> QED
    BY <1>1, <2>1, <2>2
<1>3. OnSchedule(o) = MulDivFloor(o.total_in, elapsed, duration)
  BY DEF OnSchedule
<1> HIDE DEF elapsed, duration
<1>4. OnSchedule(o) \in Nat
  <2>1. duration \in Nat /\ duration > 0
    BY <1>2
  <2>2. MulDivFloor(o.total_in, elapsed, duration) \in Nat
    BY <1>1, <1>2, <2>1, FloorBounds
  <2> QED
    BY <1>3, <2>2
<1>5. Headroom(o) \in Nat
  <2>1. BPS_DENOMINATOR \in Nat /\ BPS_DENOMINATOR > 0
    BY OracleAssumption
  <2>2. MulDivFloor(o.total_in, o.pace_tolerance_bps, BPS_DENOMINATOR) \in Nat
    BY <1>1, <2>1, FloorBounds
  <2> QED
    BY <2>2 DEF Headroom
<1>6. Ceiling(o) \in Int /\ Ceiling(o) = OnSchedule(o) + Headroom(o) - o.filled_in
  BY <1>1, <1>4, <1>5 DEF Ceiling
<1>7. ASSUME NEW s \in Int
      PROVE  /\ Clipped(o, s) \in Int /\ Clipped(o, s) <= s
             /\ Clipped(o, s) <= o.max_slice_in /\ Clipped(o, s) <= Remaining(o)
  <2> DEFINE cap == o.max_slice_in
             left == Remaining(o)
  <2>1. s \in Int /\ cap \in Int /\ left \in Int /\ Clipped(o, s) = Min({s, cap, left})
    BY <1>1 DEF Clipped
  <2> HIDE DEF cap, left
  <2>2. /\ Clipped(o, s) \in Int /\ Clipped(o, s) <= s
        /\ Clipped(o, s) <= cap /\ Clipped(o, s) <= left
    BY <2>1, ShortestOf
  <2> QED
    BY <2>2 DEF cap, left
<1>8. /\ Clipped(o, Ceiling(o)) \in Int /\ Clipped(o, Ceiling(o)) <= Ceiling(o)
  BY <1>6, <1>7
<1>9. PICK s \in Int : s <= Ceiling(o) /\ size = Clipped(o, s)
  <2>1. \E s \in {Ceiling(o), OnSchedule(o) - o.filled_in, Clipped(o, Ceiling(o))} :
          size = Clipped(o, s)
    BY DEF Sizes
  <2>2. OnSchedule(o) - o.filled_in \in Int /\ OnSchedule(o) - o.filled_in <= Ceiling(o)
    BY <1>1, <1>4, <1>5, <1>6
  <2> QED
    BY <1>6, <1>8, <2>1, <2>2
<1>10. size \in Nat \ {0} /\ size <= Ceiling(o) /\ size <= o.max_slice_in /\ size <= Remaining(o)
  <2>1. size \in Int /\ size <= s /\ size <= o.max_slice_in /\ size <= Remaining(o)
    BY <1>7, <1>9
  <2> QED
    BY <1>6, <1>9, <2>1
<1>11. o.filled_in + size <= MulDivFloor(o.total_in, elapsed, duration) + Headroom(o)
  BY <1>1, <1>3, <1>4, <1>5, <1>6, <1>10
<1>12. o.last_slice_ledger > 0 => keeper.ledger >= o.last_slice_ledger + o.min_slice_gap
  BY <1>1 DEF TooSoon
<1> QED
  BY <1>10, <1>11, <1>12 DEF Sized, elapsed, duration

LEMMA SizeSliceKeeps ==
  ASSUME KeeperInv, NEW route \in Routes, SizeSlice(route)
  PROVE  KeeperOK(keeper', DOMAIN orders, Ledger)
<1> DEFINE id == Head(keeper.turns)
           sub(size) == [kind |-> "slice", id |-> id, order |-> orders[id],
                         amount |-> size, route |-> route]
<1>1. /\ keeper.phase = "turn" /\ orders[id].status = "Active" /\ ~TooSoon(orders[id])
  BY DEF SizeSlice
<1>2. PICK size \in Sizes(orders[id]) : size > 0 /\ Submit(sub(size))
  BY DEF SizeSlice
<1>3. /\ id \in DOMAIN orders /\ orders[id] \in Order /\ Sound(orders[id], 0, Ledger)
      /\ Ledger \in Nat /\ keeper.ledger \in Nat
  BY <1>1, Fetched
<1>4. Sized(orders[id], size, keeper.ledger)
  BY <1>1, <1>2, <1>3, SizesFit
<1>5. Prepared(sub(size), keeper.ledger, DOMAIN orders, Ledger)
  BY <1>1, <1>3, <1>4 DEF Prepared
<1> HIDE DEF sub
<1> QED
  BY <1>1, <1>2, <1>3, <1>5, SubmitOK DEF KeeperInv

(* A step of the keeper reads, or gives a turn up, or calls the contract.   *)
LEMMA KeeperStepEffect ==
  ASSUME KeeperInv, KeeperStep
  PROVE  \/ UNCHANGED vars /\ KeeperOK(keeper', DOMAIN orders, Ledger)
         \/ AnyCall /\ KeeperOK(keeper', DOMAIN orders, Ledger)
<1>1. Ledger \in Nat /\ KeeperOK(keeper, DOMAIN orders, Ledger)
  BY DEF KeeperInv, Inv, OracleTypeOK, Ledger
<1>2. CASE ReadActive
  BY <1>2, ReadActiveKeeps DEF ReadActive
<1>3. CASE ReadLedger
  BY <1>3, ReadLedgerKeeps DEF ReadLedger
<1>11. CASE ReadLedgerFails
  BY <1>11, ReadLedgerFailsKeeps DEF ReadLedgerFails
<1>4. CASE FindExpired
  BY <1>4, FindExpiredKeeps DEF FindExpired
<1>5. ASSUME NEW route \in Routes, SizeSlice(route)
      PROVE  UNCHANGED vars /\ KeeperOK(keeper', DOMAIN orders, Ledger)
  BY <1>5, SizeSliceKeeps DEF SizeSlice
<1>6. ASSUME keeper.phase \in {"turn", "submit"}, keeper' = NextTurn
      PROVE  KeeperOK(keeper', DOMAIN orders, Ledger)
  BY <1>1, <1>6, NextTurnOK
<1>7. CASE GiveUp
  BY <1>6, <1>7 DEF GiveUp
<1>8. CASE SubmitFails
  BY <1>6, <1>8 DEF SubmitFails
<1>9. CASE SubmitExpire
  <2>1. keeper.sub.id \in DOMAIN orders
    BY <1>1, <1>9 DEF SubmitExpire, KeeperOK, Prepared
  <2>2. AnyCall
    BY <1>9, <2>1 DEF SubmitExpire, AnyCall
  <2> QED
    BY <1>6, <1>9, <2>2 DEF SubmitExpire
<1>10. ASSUME keeper.sub.kind = "slice",
              NEW outs \in [DOMAIN keeper.sub.route -> VenueOutputs], SubmitSlice(outs)
       PROVE  AnyCall /\ KeeperOK(keeper', DOMAIN orders, Ledger)
  <2>1. keeper.phase = "submit" /\ keeper' = NextTurn
        /\ ExecuteSlice(keeper.sub.id, keeper.sub.amount, keeper.sub.route, outs)
    BY <1>10 DEF SubmitSlice
  <2>2. Prepared(keeper.sub, keeper.ledger, DOMAIN orders, Ledger)
    BY <1>1, <2>1 DEF KeeperOK
  <2>3. keeper.sub.id \in DOMAIN orders /\ keeper.sub.route \in Routes /\ keeper.sub.amount \in Int
    BY <1>10, <2>2 DEF Prepared, Sized
  <2>4. AnyCall
    BY <1>10, <2>1, <2>3 DEF AnyCall
  <2> QED
    BY <1>6, <2>1, <2>4
<1> QED
  BY <1>2, <1>3, <1>4, <1>5, <1>7, <1>8, <1>9, <1>10, <1>11 DEF KeeperStep

LEMMA KeeperNextKeeps ==
  ASSUME KeeperInv, [KeeperNext]_keeperVars
  PROVE  KeeperInv' /\ AnyCall
<1>1. KeeperOK(keeper', DOMAIN orders, Ledger) /\ AnyCall
  <2>1. CASE KeeperStep
    BY <2>1, KeeperStepEffect DEF AnyCall
  <2>2. CASE Next /\ UNCHANGED keeper
    BY <2>2, NextIsCall DEF KeeperInv
  <2>3. CASE UNCHANGED keeperVars
    BY <2>3 DEF keeperVars, KeeperInv, AnyCall
  <2> QED
    BY <2>1, <2>2, <2>3 DEF KeeperNext
<1>2. Inv'
  BY <1>1, CallInvariant DEF KeeperInv
<1>3. Grown(orders, orders') /\ Ledger \in Nat /\ Ledger' \in Nat /\ Ledger <= Ledger'
  BY <1>1, CallGrows DEF KeeperInv
<1>4. DOMAIN orders \subseteq DOMAIN orders'
  BY <1>3, GrownKeepsIds DEF KeeperInv, Inv, BookOK
<1>5. KeeperOK(keeper', DOMAIN orders', Ledger')
  BY <1>1, <1>3, <1>4, KeeperLater
<1> QED
  BY <1>1, <1>2, <1>5 DEF KeeperInv

LEMMA KeeperInitKeeps ==
  ASSUME KeeperInit
  PROVE  KeeperInv
<1>1. Inv
  BY InitKeeps DEF KeeperInit
<1>2. Ledger \in Nat /\ 0 \in Nat
  BY <1>1 DEF Inv, OracleTypeOK, Ledger
<1>3. KeeperOK(keeper, DOMAIN orders, Ledger)
  BY <1>2, IdleOK DEF KeeperInit
<1> QED
  BY <1>1, <1>3 DEF KeeperInv

LEMMA KeeperSpecInv == KeeperSpec => []KeeperInv
<1>1. KeeperInv /\ [KeeperNext]_keeperVars => KeeperInv'
  BY KeeperNextKeeps
<1> QED
  BY <1>1, KeeperInitKeeps, PTL DEF KeeperSpec

(* The keeper's ledger is past and the schedule only grows, so what was     *)
(* sized then is still on pace now.                                         *)
LEMMA SizedFits ==
  ASSUME NEW o \in Order, Ledger \in Nat, Sound(o, 0, Ledger), o.status = "Active",
         NEW amount, NEW ledger \in Nat, ledger <= Ledger, Sized(o, amount, ledger),
         Ledger <= o.end_ledger
  PROVE  CanSlice(o, amount)
<1> DEFINE early == Max({0, ledger - o.start_ledger})
           late == Ledger - o.start_ledger
           duration == o.end_ledger - o.start_ledger
<1>1. /\ o.total_in \in Nat /\ o.filled_in \in Nat /\ o.start_ledger \in Nat
      /\ o.end_ledger \in Nat /\ o.last_slice_ledger \in Nat /\ o.min_slice_gap \in Nat
      /\ o.pace_tolerance_bps \in Nat
  BY DEF Order
<1>2. /\ amount \in Nat \ {0} /\ amount <= Remaining(o) /\ amount <= o.max_slice_in
      /\ o.filled_in + amount <= MulDivFloor(o.total_in, early, duration) + Headroom(o)
      /\ o.last_slice_ledger > 0 => ledger >= o.last_slice_ledger + o.min_slice_gap
  BY DEF Sized
<1>3. o.start_ledger < o.end_ledger /\ o.start_ledger <= Ledger
  BY DEF Sound
<1> HIDE DEF Ledger
<1>4. early \in Nat /\ early <= late /\ late \in Nat /\ duration \in Nat \ {0}
  <2>1. ledger - o.start_ledger \in Int /\ 0 \in Int
    BY <1>1
  <2>2. early = IF 0 > ledger - o.start_ledger THEN 0 ELSE ledger - o.start_ledger
    BY <2>1, LongestOf
  <2> HIDE DEF early
  <2> QED
    BY <1>1, <1>3, <2>1, <2>2
<1> HIDE DEF early, late, duration
<1>5. MulDivFloor(o.total_in, early, duration) <= MulDivFloor(o.total_in, late, duration)
  BY <1>1, <1>4, FloorGrows
<1>6. MulDivFloor(o.total_in, early, duration) \in Nat /\ MulDivFloor(o.total_in, late, duration) \in Nat
  <2>1. duration \in Nat /\ duration > 0
    BY <1>4
  <2>2. MulDivFloor(o.total_in, early, duration) \in Nat
    BY <1>1, <1>4, <2>1, FloorBounds
  <2>3. MulDivFloor(o.total_in, late, duration) \in Nat
    BY <1>1, <1>4, <2>1, FloorBounds
  <2> QED
    BY <2>2, <2>3
<1>7. Headroom(o) \in Nat
      /\ Headroom(o) = MulDivFloor(o.total_in, o.pace_tolerance_bps, BPS_DENOMINATOR)
  <2>1. BPS_DENOMINATOR \in Nat /\ BPS_DENOMINATOR > 0
    BY OracleAssumption
  <2>2. MulDivFloor(o.total_in, o.pace_tolerance_bps, BPS_DENOMINATOR) \in Nat
    BY <1>1, <2>1, FloorBounds
  <2> QED
    BY <2>2 DEF Headroom
<1>8. o.filled_in + amount <= MulDivFloor(o.total_in, late, duration) + Headroom(o)
  BY <1>1, <1>2, <1>5, <1>6, <1>7
<1>9. OnPace(o, amount)
  BY <1>7, <1>8 DEF OnPace, late, duration
<1>10. CadenceKept(o)
  BY <1>1, <1>2 DEF CadenceKept
<1> QED
  BY <1>1, <1>2, <1>9, <1>10 DEF CanSlice, Remaining

(* The keeper mirrors the contract: however many ledgers close between the  *)
(* reads and the submission, a slice it sized is one the contract allows as *)
(* long as nobody else touched the order and its window has not ended, and  *)
(* an expiry it found is one.                                               *)
THEOREM SubmissionsSafe == KeeperSpec => []SubmissionsFit
<1>1. ASSUME KeeperInv PROVE SubmissionsFit
  <2>1. SUFFICES ASSUME keeper.phase = "submit", orders[keeper.sub.id] = keeper.sub.order
                 PROVE  LET o == orders[keeper.sub.id]
                        IN IF keeper.sub.kind = "slice"
                           THEN Ledger <= o.end_ledger => CanSlice(o, keeper.sub.amount)
                           ELSE Ledger > o.end_ledger
    BY DEF SubmissionsFit
  <2> DEFINE o == keeper.sub.order
  <2>2. /\ Prepared(keeper.sub, keeper.ledger, DOMAIN orders, Ledger)
        /\ keeper.ledger \in Nat /\ keeper.ledger <= Ledger /\ Ledger \in Nat
    BY <1>1, <2>1 DEF KeeperInv, KeeperOK, Inv, OracleTypeOK, Ledger
  <2>3. o \in Order /\ Sound(o, 0, Ledger) /\ o.status = "Active"
    BY <2>2 DEF Prepared
  <2>4. CASE keeper.sub.kind = "slice"
    <3>1. Sized(o, keeper.sub.amount, keeper.ledger)
      BY <2>2, <2>4 DEF Prepared
    <3>2. Ledger <= o.end_ledger => CanSlice(o, keeper.sub.amount)
      BY <2>2, <2>3, <3>1, SizedFits
    <3> QED
      BY <2>1, <2>4, <3>2
  <2>5. CASE keeper.sub.kind # "slice"
    <3>1. keeper.ledger > o.end_ledger
      BY <2>2, <2>5 DEF Prepared
    <3>2. o.end_ledger \in Nat
      BY <2>3 DEF Order
    <3>3. Ledger > o.end_ledger
      BY <2>2, <3>1, <3>2
    <3> QED
      BY <2>1, <2>5, <3>3
  <2> QED
    BY <2>4, <2>5
<1> QED
  BY <1>1, KeeperSpecInv, PTL

(* With the keeper at work beside everybody else, the book is as sound as   *)
(* without it: whatever the keeper submits, it is one of the calls above.   *)
THEOREM KeptBookSafe == KeeperSpec => [](PaceKept /\ EscrowBacked /\ IndexExact)
<1>1. KeeperInv => PaceKept /\ EscrowBacked /\ IndexExact
  BY InvSafe DEF KeeperInv
<1> QED
  BY <1>1, KeeperSpecInv, PTL

-----------------------------------------------------------------------------
(* From the price a maker asks for to what the slices gave                  *)

(* A limit gives a price if whatever keeps it gives the price.              *)
Promises(num, den, price) ==
  price # None =>
    /\ num > 0 /\ den > 0
    /\ \A filled, received \in Nat :
         filled * num <= received * den => received * price.den >= filled * price.num

Prices == {None} \union [num : Int, den : Int]

AskedOK(os, prices) ==
  /\ prices \in Seq(Prices) /\ Len(prices) = Len(os)
  /\ \A id \in DOMAIN os : Promises(os[id].limit_num, os[id].limit_den, prices[id])

BuiltFor(q, t) ==
  /\ t \in Terms
  /\ t.limit_num = LimitNum(q) /\ t.limit_den = IF q.limit = None THEN 0 ELSE LIMIT_SCALE

FormOK(f) ==
  \/ f = Blank
  \/ /\ f = [step |-> f.step, request |-> f.request, terms |-> f.terms]
     /\ f.request \in TwapRequests /\ Accepts(f.request) /\ BuiltFor(f.request, f.terms)

PageOK(p, ids) ==
  /\ p = [ids |-> p.ids, shown |-> p.shown, cancelling |-> p.cancelling]
  /\ p.cancelling # 0 => p.cancelling \in ids

FormsOK == form = [m \in Makers |-> form[m]] /\ \A m \in Makers : FormOK(form[m])
PagesOK(ids) == page = [m \in Makers |-> page[m]] /\ \A m \in Makers : PageOK(page[m], ids)

BuildInv == KeeperInv /\ FormsOK /\ PagesOK(DOMAIN orders) /\ AskedOK(orders, asked)

(* Tokens of the same number of decimals: the server gives the limit in     *)
(* display units, and the contract takes it in base units.                  *)
SameDecimals == \A t, u \in Tokens : TokenDecimals[t] = TokenDecimals[u]

LEMMA RoundedToHalf ==
  ASSUME NEW num \in Nat, NEW den \in Nat \ {0}
  PROVE  Rounded(num, den) \in Nat /\ 2 * num - den <= 2 * den * Rounded(num, den)
<1> DEFINE a == 2 * num + den
           d == 2 * den
           q == MulDivFloor(a, 1, d)
<1>1. a \in Nat /\ d \in Nat /\ d > 0 /\ 1 \in Nat
  OBVIOUS
<1> HIDE DEF a, d
<1>2. q \in Nat /\ a * 1 < d * q + d
  BY <1>1, FloorBounds
<1> HIDE DEF q
<1>3. a * 1 = a /\ d * q \in Int
  BY <1>1, <1>2
<1>4. a - d <= d * q
  BY <1>1, <1>2, <1>3
<1>5. 2 * num - den <= d * q
  BY <1>1, <1>3, <1>4 DEF a, d
<1> QED
  BY <1>2, <1>5 DEF Rounded, q, a, d

(* What is kept of the limit that the server builds is kept of the price    *)
(* that the maker asked for.                                                *)
LEMMA LimitGivesPrice ==
  ASSUME NEW p \in Nat, NEW q \in Nat \ {0}, NEW scale \in Nat \ {0}, NEW unit \in Nat \ {0},
         NEW num \in Nat, num = Rounded(p * scale, q),
         NEW filled \in Nat, NEW received \in Nat, filled * num <= received * scale
  PROVE  received * (2 * scale * q * unit) >= filled * ((2 * scale * p - q) * unit)
<1> DEFINE low == 2 * scale * p - q
           high == 2 * q * num
           k == 2 * q
<1>1. low <= high /\ low \in Int /\ high \in Nat /\ k \in Nat
  <2>1. p * scale \in Nat
    BY ProductNat
  <2>2. 2 * (p * scale) - q <= 2 * q * Rounded(p * scale, q)
    BY <2>1, RoundedToHalf
  <2>3. 2 * (p * scale) = 2 * scale * p
    BY SMT
  <2> QED
    BY <2>1, <2>2, <2>3, SMT
<1>2. high = k * num /\ 2 * scale * q = k * scale
  BY SMT
<1> HIDE DEF low, high, k
<1>3. filled * low <= filled * high
  BY <1>1, ProductMonotone
<1>4. filled * high = k * (filled * num)
  BY <1>1, <1>2, SMT
<1>5. filled * num \in Int /\ received * scale \in Int /\ filled * low \in Int
      /\ filled * high \in Int
  BY <1>1, SMT
<1>6. k * (filled * num) <= k * (received * scale)
  BY <1>1, <1>5, ProductMonotone
<1>7. k * (received * scale) \in Int /\ k * (filled * num) \in Int
  BY <1>1, <1>5, SMT
<1>8. filled * low <= k * (received * scale)
  BY <1>3, <1>4, <1>5, <1>6, <1>7
<1>9. unit * (filled * low) <= unit * (k * (received * scale))
  BY <1>5, <1>7, <1>8, ProductMonotone
<1>10. filled * (low * unit) = unit * (filled * low)
  BY <1>1, SMT
<1>11. received * (k * scale * unit) = unit * (k * (received * scale))
  BY <1>1, SMT
<1>12. received * (k * scale * unit) >= filled * (low * unit)
  <2>1. unit * (filled * low) \in Int /\ unit * (k * (received * scale)) \in Int
    BY <1>5, <1>7, SMT
  <2> QED
    BY <1>9, <1>10, <1>11, <2>1
<1> QED
  BY <1>2, <1>12 DEF low

LEMMA BuiltPromises ==
  ASSUME SameDecimals, NEW q \in TwapRequests, Accepts(q), NEW t, BuiltFor(q, t),
         ~FixedLimit(t) => t.limit_num = 0 /\ t.limit_den = 0
  PROVE  AskedPrice(q) \in Prices /\ Promises(t.limit_num, t.limit_den, AskedPrice(q))
<1>1. CASE q.limit = None
  BY <1>1 DEF AskedPrice, Prices, Promises
<1>2. CASE q.limit # None
  <2> DEFINE unit == Pow10[TokenDecimals[q.token_in]]
             top == q.limit[1]
             under == q.limit[2]
             num == LimitNum(q)
  <2>1. top \in Nat /\ under \in Nat \ {0} /\ LIMIT_SCALE \in Nat \ {0}
    BY <1>2, TwapBuildAssumption
  <2>2. q.token_in \in Tokens /\ q.token_out \in Tokens
    BY TwapBuildAssumption DEF Accepts
  <2>3. unit \in Nat \ {0} /\ Pow10[TokenDecimals[q.token_out]] = unit
    <3>1. TokenDecimals[q.token_in] \in Nat /\ TokenDecimals[q.token_out] = TokenDecimals[q.token_in]
      BY <2>2, OracleAssumption DEF SameDecimals
    <3> QED
      BY <3>1, Pow10Positive
  <2>4. num = Rounded(top * LIMIT_SCALE, under) /\ num \in Nat
    <3>1. top * LIMIT_SCALE \in Nat
      BY <2>1, ProductNat
    <3>2. num = Rounded(top * LIMIT_SCALE, under)
      BY <1>2 DEF LimitNum
    <3> QED
      BY <2>1, <3>1, <3>2, RoundedToHalf
  <2>5. t.limit_num = num /\ t.limit_den = LIMIT_SCALE
    BY <1>2 DEF BuiltFor
  <2>6. num > 0
    BY <2>1, <2>4, <2>5 DEF FixedLimit
  <2>7. AskedPrice(q) = [num |-> (2 * LIMIT_SCALE * top - under) * unit,
                         den |-> 2 * LIMIT_SCALE * under * unit]
    BY <1>2, <2>3 DEF AskedPrice
  <2> HIDE DEF unit, top, under, num
  <2>8. ASSUME NEW filled \in Nat, NEW received \in Nat, filled * num <= received * LIMIT_SCALE
        PROVE  received * (2 * LIMIT_SCALE * under * unit)
                 >= filled * ((2 * LIMIT_SCALE * top - under) * unit)
    BY <2>1, <2>3, <2>4, <2>8, LimitGivesPrice
  <2>9. (2 * LIMIT_SCALE * top - under) * unit \in Int /\ 2 * LIMIT_SCALE * under * unit \in Int
    BY <2>1, <2>3, SMT
  <2>10. AskedPrice(q) \in Prices
    BY <2>7, <2>9 DEF Prices
  <2>11. AskedPrice(q).num = (2 * LIMIT_SCALE * top - under) * unit
         /\ AskedPrice(q).den = 2 * LIMIT_SCALE * under * unit
    BY <2>7
  <2>12. Promises(num, LIMIT_SCALE, AskedPrice(q))
    BY <2>1, <2>6, <2>8, <2>11 DEF Promises
  <2> QED
    BY <2>5, <2>10, <2>12
<1> QED
  BY <1>1, <1>2

LEMMA AskedAppended ==
  ASSUME NEW os \in Seq(Order), NEW prices, AskedOK(os, prices), NEW n \in Order,
         NEW price \in Prices, Promises(n.limit_num, n.limit_den, price)
  PROVE  AskedOK(Append(os, n), Append(prices, price))
<1> DEFINE ns == Append(os, n)
           more == Append(prices, price)
<1>1. prices \in Seq(Prices) /\ Len(prices) = Len(os)
      /\ \A id \in DOMAIN os : Promises(os[id].limit_num, os[id].limit_den, prices[id])
  BY DEF AskedOK
<1>2. more \in Seq(Prices) /\ Len(more) = Len(ns)
      /\ DOMAIN ns = DOMAIN os \union {Len(os) + 1}
  BY <1>1
<1>3. \A id \in DOMAIN os : ns[id] = os[id] /\ more[id] = prices[id]
  BY <1>1
<1>4. ns[Len(os) + 1] = n /\ more[Len(os) + 1] = price
  BY <1>1
<1> HIDE DEF ns, more
<1>5. \A id \in DOMAIN ns : Promises(ns[id].limit_num, ns[id].limit_den, more[id])
  BY <1>1, <1>2, <1>3, <1>4
<1>6. AskedOK(ns, more)
  BY <1>2, <1>5 DEF AskedOK
<1> QED
  BY <1>6 DEF ns, more

LEMMA AskedUpdated ==
  ASSUME NEW os \in Seq(Order), NEW prices, AskedOK(os, prices), NEW id \in DOMAIN os,
         NEW n \in Order, n.limit_num = os[id].limit_num, n.limit_den = os[id].limit_den
  PROVE  AskedOK(Changed(os, id, n), prices)
<1> DEFINE ns == Changed(os, id, n)
<1>1. Len(ns) = Len(os) /\ DOMAIN ns = DOMAIN os /\ ns[id] = n
      /\ \A i \in DOMAIN os : i # id => ns[i] = os[i]
  BY DEF Changed
<1> HIDE DEF ns
<1>2. \A i \in DOMAIN os : ns[i].limit_num = os[i].limit_num /\ ns[i].limit_den = os[i].limit_den
  BY <1>1
<1>3. AskedOK(ns, prices)
  BY <1>1, <1>2 DEF AskedOK
<1> QED
  BY <1>3 DEF ns

(* An order placed past the server asks for no more than its own terms.     *)
LEMMA ElsewhereAsks ==
  ASSUME NEW os \in Seq(Order), NEW ns \in Seq(Order), Grown(os, ns), NEW prices, NEW more,
         AskedOK(os, prices),
         more = IF Len(ns) = Len(os) THEN prices ELSE Append(prices, LimitOf(Last(ns)))
  PROVE  AskedOK(ns, more)
<1>1. CASE ns = os
  BY <1>1
<1>2. ASSUME NEW n \in Order, ns = Append(os, n)
      PROVE  AskedOK(ns, more)
  <2>1. Len(ns) # Len(os) /\ Last(ns) = n
    BY <1>2 DEF Last
  <2>2. LimitOf(n) \in Prices /\ Promises(n.limit_num, n.limit_den, LimitOf(n))
    <3>1. n.limit_num \in Int /\ n.limit_den \in Int
      BY DEF Order
    <3> QED
      BY <3>1 DEF LimitOf, Promises, Prices, FixedLimit
  <2>3. AskedOK(Append(os, n), Append(prices, LimitOf(n)))
    BY <2>2, AskedAppended
  <2> QED
    BY <1>2, <2>1, <2>3
<1>3. ASSUME NEW id \in DOMAIN os, NEW n \in Order, ns = [os EXCEPT ![id] = n],
             n.limit_num = os[id].limit_num, n.limit_den = os[id].limit_den
      PROVE  AskedOK(ns, more)
  <2>1. Len(ns) = Len(os)
    BY <1>3
  <2>2. AskedOK(Changed(os, id, n), prices)
    BY <1>3, AskedUpdated
  <2> QED
    BY <1>3, <2>1, <2>2 DEF Changed
<1> QED
  BY <1>1, <1>2, <1>3 DEF Grown

LEMMA FormChanges ==
  ASSUME FormsOK, NEW maker \in Makers, NEW f, FormOK(f), form' = [form EXCEPT ![maker] = f]
  PROVE  FormsOK'
<1>1. form' = [m \in Makers |-> IF m = maker THEN f ELSE form[m]]
  BY DEF FormsOK
<1>2. \A m \in Makers : FormOK(form'[m])
  BY <1>1 DEF FormsOK
<1> QED
  BY <1>1, <1>2 DEF FormsOK

(* The limits of the tokens, the window and the cadence that the server     *)
(* builds are ones the contract can be called with.                         *)
LEMMA BuiltTyped ==
  ASSUME NEW q \in TwapRequests, Accepts(q), Ledger - 1 \in Nat
  PROVE  BuiltFor(q, BuiltTerms(q))
<1> DEFINE t == BuiltTerms(q)
           span == MulDivCeil(q.seconds, 1, LEDGER_SECONDS)
           slice == MulDivCeil(q.amount_in, q.slice_bps, BPS_DENOMINATOR)
           gap == Max({1, Rounded(q.gap_seconds, LEDGER_SECONDS)})
           num == LimitNum(q)
           den == IF q.limit = None THEN 0 ELSE LIMIT_SCALE
           slippage == IF num > 0 THEN 0 ELSE q.slippage_bps
<1>1. /\ q.token_in \in Tokens /\ q.token_out \in Tokens
      /\ q.amount_in \in Nat /\ q.seconds \in Nat /\ q.slice_bps \in Nat /\ q.gap_seconds \in Nat
      /\ q.slippage_bps \in Nat /\ q.pace_tolerance_bps \in Nat
  <2>1. q.token_in \in Tokens /\ q.token_out \in Tokens
    BY TwapBuildAssumption DEF Accepts
  <2>2. q.seconds \in Nat /\ q.slice_bps \in Nat /\ q.gap_seconds \in Nat
    BY TwapBuildAssumption DEF Accepts
  <2>3. q.amount_in > 0
    BY DEF Accepts
  <2>4. q.amount_in \in Int /\ q.slippage_bps \in Nat /\ q.pace_tolerance_bps \in Nat
    BY TwapBuildAssumption
  <2> QED
    BY <2>1, <2>2, <2>3, <2>4
<1>2. LEDGER_SECONDS \in Nat /\ LEDGER_SECONDS > 0 /\ 1 \in Nat
      /\ BPS_DENOMINATOR \in Nat /\ BPS_DENOMINATOR > 0
  BY TwapBuildAssumption, OracleAssumption
<1>3. span \in Nat
  BY <1>1, <1>2, CeilBounds
<1>4. slice \in Nat
  BY <1>1, <1>2, CeilBounds
<1>5. gap \in Nat
  <2>1. Rounded(q.gap_seconds, LEDGER_SECONDS) \in Nat
    BY <1>1, <1>2, RoundedToHalf
  <2>2. gap = IF 1 > Rounded(q.gap_seconds, LEDGER_SECONDS) THEN 1
              ELSE Rounded(q.gap_seconds, LEDGER_SECONDS)
    BY <2>1, LongestOf
  <2> HIDE DEF gap
  <2> QED
    BY <2>1, <2>2
<1>6. num \in Nat
  <2>1. CASE q.limit = None
    BY <2>1 DEF LimitNum
  <2>2. CASE q.limit # None
    <3>1. q.limit[1] \in Nat /\ q.limit[2] \in Nat \ {0} /\ LIMIT_SCALE \in Nat
      BY <2>2, TwapBuildAssumption
    <3>2. q.limit[1] * LIMIT_SCALE \in Nat
      BY <3>1, ProductNat
    <3>3. Rounded(q.limit[1] * LIMIT_SCALE, q.limit[2]) \in Nat
      BY <3>1, <3>2, RoundedToHalf
    <3> QED
      BY <2>2, <3>3 DEF LimitNum
  <2> QED
    BY <2>1, <2>2
<1>7. den \in Nat /\ slippage \in Nat
  BY <1>1, TwapBuildAssumption
<1>8. t = [token_in |-> q.token_in, token_out |-> q.token_out, total_in |-> q.amount_in,
           end_ledger |-> (Ledger - 1) + span, limit_num |-> num, limit_den |-> den,
           max_slippage_bps |-> slippage, max_slice_in |-> slice, min_slice_gap |-> gap,
           pace_tolerance_bps |-> q.pace_tolerance_bps]
  BY DEF BuiltTerms
<1>9. (Ledger - 1) + span \in Nat
  BY <1>3
<1> HIDE DEF t, span, slice, gap, num, den, slippage
<1>10. t \in Terms /\ t.limit_num = num /\ t.limit_den = den
  BY <1>1, <1>3, <1>4, <1>5, <1>6, <1>7, <1>8, <1>9 DEF Terms
<1> QED
  BY <1>10 DEF BuiltFor, t, num, den

(* A call that is not the keeper's leaves what the keeper knows good.       *)
LEMMA CallPassesKeeper ==
  ASSUME KeeperInv, AnyCall, keeper' = keeper
  PROVE  KeeperInv' /\ DOMAIN orders \subseteq DOMAIN orders'
<1>1. Inv' /\ KeeperOK(keeper, DOMAIN orders, Ledger)
  BY CallInvariant DEF KeeperInv
<1>2. Grown(orders, orders') /\ Ledger \in Nat /\ Ledger' \in Nat /\ Ledger <= Ledger'
  BY CallGrows DEF KeeperInv
<1>3. DOMAIN orders \subseteq DOMAIN orders'
  BY <1>2, GrownKeepsIds DEF KeeperInv, Inv, BookOK
<1>4. KeeperOK(keeper', DOMAIN orders', Ledger')
  BY <1>1, <1>2, <1>3, KeeperLater
<1> QED
  BY <1>1, <1>3, <1>4 DEF KeeperInv

LEMMA FormStep ==
  ASSUME BuildInv, UNCHANGED <<keeperVars, page, asked>>, FormsOK'
  PROVE  BuildInv' /\ AnyCall
<1>1. AnyCall
  BY DEF AnyCall, keeperVars
<1>2. KeeperInv' /\ orders' = orders
  BY <1>1, CallPassesKeeper DEF BuildInv, keeperVars, vars, twapVars
<1> QED
  BY <1>1, <1>2 DEF BuildInv, PagesOK, AskedOK

LEMMA AsksKeeps ==
  ASSUME BuildInv, NEW maker \in Makers, NEW q \in TwapRequests, Asks(maker, q)
  PROVE  FormsOK'
<1> DEFINE f == [step |-> "simulate", request |-> q, terms |-> BuiltTerms(q)]
<1>1. Accepts(q) /\ form' = [form EXCEPT ![maker] = f]
  BY DEF Asks
<1>2. Ledger - 1 \in Nat
  BY DEF BuildInv, KeeperInv, Inv, OracleTypeOK, Ledger
<1>3. FormOK(f)
  BY <1>1, <1>2, BuiltTyped DEF FormOK
<1> HIDE DEF f
<1> QED
  BY <1>1, <1>3, FormChanges DEF BuildInv

LEMMA SimulatedKeeps ==
  ASSUME BuildInv, NEW maker \in Makers, Simulated(maker)
  PROVE  FormsOK'
<1> DEFINE old == form[maker]
           f == [step |-> "sign", request |-> old.request, terms |-> old.terms]
<1>1. form' = [form EXCEPT ![maker].step = "sign"] /\ old.step = "simulate"
  BY DEF Simulated
<1>2. FormOK(old) /\ form = [m \in Makers |-> form[m]]
  BY DEF BuildInv, FormsOK
<1> HIDE DEF old
<1>3. /\ old = [step |-> old.step, request |-> old.request, terms |-> old.terms]
      /\ old.request \in TwapRequests /\ Accepts(old.request) /\ BuiltFor(old.request, old.terms)
  BY <1>1, <1>2 DEF FormOK, Blank
<1>4. form' = [form EXCEPT ![maker] = f]
  <2>1. form' = [form EXCEPT ![maker] = [old EXCEPT !.step = "sign"]]
    BY <1>1 DEF old
  <2>2. [old EXCEPT !.step = "sign"] = f
    BY <1>3
  <2> HIDE DEF f
  <2> QED
    BY <2>1, <2>2
<1>5. FormOK(f)
  BY <1>3 DEF FormOK
<1> HIDE DEF f
<1> QED
  BY <1>4, <1>5, FormChanges DEF BuildInv

LEMMA SignsKeeps ==
  ASSUME SameDecimals, BuildInv, NEW maker \in Makers, Signs(maker)
  PROVE  BuildInv' /\ AnyCall
<1> DEFINE f == form[maker]
           t == f.terms
           q == f.request
<1>1. /\ f.step = "sign" /\ PlaceTwap(maker, t) /\ asked' = Append(asked, AskedPrice(q))
      /\ form' = [form EXCEPT ![maker] = Blank] /\ UNCHANGED <<keeper, page>>
  BY DEF Signs
<1>2. FormOK(f)
  BY DEF BuildInv, FormsOK
<1> HIDE DEF f
<1>3. q \in TwapRequests /\ Accepts(q) /\ BuiltFor(q, t) /\ t \in Terms
  BY <1>1, <1>2 DEF FormOK, Blank, BuiltFor
<1> HIDE DEF t, q
<1>4. AnyCall
  BY <1>1, <1>3 DEF AnyCall
<1>5. KeeperInv' /\ DOMAIN orders \subseteq DOMAIN orders'
  BY <1>1, <1>4, CallPassesKeeper DEF BuildInv
<1>6. FormsOK'
  <2>1. FormOK(Blank)
    BY DEF FormOK
  <2> QED
    BY <1>1, <2>1, FormChanges DEF BuildInv
<1>7. PagesOK(DOMAIN orders)'
  <2>1. \A m \in Makers : PageOK(page[m], DOMAIN orders')
    BY <1>5 DEF BuildInv, PagesOK, PageOK
  <2> QED
    BY <1>1, <2>1 DEF BuildInv, PagesOK
<1>8. orders' = Append(orders, NewTwap(maker, t)) /\ orders \in Seq(Order)
      /\ (~FixedLimit(t) => t.limit_num = 0 /\ t.limit_den = 0)
  BY <1>1 DEF PlaceTwap, CanPlace, BuildInv, KeeperInv, Inv, BookOK
<1>9. NewTwap(maker, t) \in Order /\ NewTwap(maker, t).limit_num = t.limit_num
      /\ NewTwap(maker, t).limit_den = t.limit_den
  <2>1. orders' \in Seq(Order) /\ Len(orders) + 1 \in DOMAIN orders'
        /\ orders'[Len(orders) + 1] = NewTwap(maker, t)
    BY <1>5, <1>8 DEF KeeperInv, Inv, BookOK
  <2>2. NewTwap(maker, t) \in Order
    BY <2>1
  <2> QED
    BY <2>2 DEF NewTwap
<1>10. AskedPrice(q) \in Prices /\ Promises(t.limit_num, t.limit_den, AskedPrice(q))
  BY <1>3, <1>8, BuiltPromises
<1>11. AskedOK(orders', asked')
  <2>1. AskedOK(orders, asked)
    BY DEF BuildInv
  <2> DEFINE n == NewTwap(maker, t)
             price == AskedPrice(q)
  <2>2. n \in Order /\ price \in Prices /\ Promises(n.limit_num, n.limit_den, price)
    BY <1>9, <1>10
  <2>3. orders' = Append(orders, n) /\ asked' = Append(asked, price) /\ orders \in Seq(Order)
    BY <1>1, <1>8
  <2> HIDE DEF n, price
  <2> QED
    BY <2>1, <2>2, <2>3, AskedAppended
<1> QED
  BY <1>4, <1>5, <1>6, <1>7, <1>11 DEF BuildInv

LEMMA PageStep ==
  ASSUME BuildInv, UNCHANGED <<keeperVars, form, asked>>, PagesOK(DOMAIN orders)'
  PROVE  BuildInv' /\ AnyCall
<1>1. AnyCall
  BY DEF AnyCall, keeperVars
<1>2. KeeperInv' /\ orders' = orders
  BY <1>1, CallPassesKeeper DEF BuildInv, keeperVars, vars, twapVars
<1> QED
  BY <1>1, <1>2 DEF BuildInv, FormsOK, AskedOK

(* A page only ever offers to cancel an order that exists.                  *)
LEMMA PageSteps ==
  ASSUME BuildInv, NEW maker \in Makers,
         ListsActive(maker) \/ ShowsOrders(maker) \/ CancelFails(maker)
           \/ \E id \in DOMAIN orders : BuildsCancel(maker, id)
  PROVE  PagesOK(DOMAIN orders)'
<1> DEFINE p == page[maker]
<1>1. PagesOK(DOMAIN orders) /\ PageOK(p, DOMAIN orders) /\ orders' = orders
  BY DEF BuildInv, PagesOK, ListsActive, ShowsOrders, CancelFails, BuildsCancel,
         keeperVars, vars, twapVars
<1>2. p = [ids |-> p.ids, shown |-> p.shown, cancelling |-> p.cancelling]
  BY <1>1 DEF PageOK
<1>3. page = [m \in Makers |-> page[m]]
  BY <1>1 DEF PagesOK
<1> HIDE DEF p
<1>4. ASSUME NEW ids, NEW shown, page' = [page EXCEPT ![maker].ids = ids, ![maker].shown = shown]
      PROVE  /\ page' = [m \in Makers |-> page'[m]]
             /\ \A m \in Makers : m # maker => page'[m] = page[m]
             /\ page'[maker] = [p EXCEPT !.ids = ids, !.shown = shown]
  BY <1>3, <1>4 DEF p
<1>5. ASSUME NEW id, page' = [page EXCEPT ![maker].cancelling = id]
      PROVE  /\ page' = [m \in Makers |-> page'[m]]
             /\ \A m \in Makers : m # maker => page'[m] = page[m]
             /\ page'[maker] = [p EXCEPT !.cancelling = id]
  BY <1>3, <1>5 DEF p
<1>6. ASSUME NEW ids, NEW shown, NEW q, q = [p EXCEPT !.ids = ids, !.shown = shown]
      PROVE  PageOK(q, DOMAIN orders)
  <2>1. q = [ids |-> ids, shown |-> shown, cancelling |-> p.cancelling]
    BY <1>2, <1>6
  <2> QED
    BY <1>1, <2>1 DEF PageOK
<1>7. ASSUME NEW id \in DOMAIN orders \union {0}, NEW q, q = [p EXCEPT !.cancelling = id]
      PROVE  PageOK(q, DOMAIN orders)
  <2>1. q = [ids |-> p.ids, shown |-> p.shown, cancelling |-> id]
    BY <1>2, <1>7
  <2> QED
    BY <2>1 DEF PageOK
<1>8. /\ page' = [m \in Makers |-> page'[m]]
      /\ \A m \in Makers : m # maker => page'[m] = page[m]
      /\ PageOK(page'[maker], DOMAIN orders)
  <2>1. CASE \E ids, shown : page' = [page EXCEPT ![maker].ids = ids, ![maker].shown = shown]
    <3>1. PICK ids, shown : page' = [page EXCEPT ![maker].ids = ids, ![maker].shown = shown]
      BY <2>1
    <3>2. /\ page' = [m \in Makers |-> page'[m]]
          /\ \A m \in Makers : m # maker => page'[m] = page[m]
          /\ page'[maker] = [p EXCEPT !.ids = ids, !.shown = shown]
      BY <1>4, <3>1
    <3>3. PageOK(page'[maker], DOMAIN orders)
      BY <1>6, <3>2
    <3> QED
      BY <3>2, <3>3
  <2>2. CASE \E id \in DOMAIN orders \union {0} : page' = [page EXCEPT ![maker].cancelling = id]
    BY <1>5, <1>7, <2>2
  <2>3. CASE ListsActive(maker)
    <3>1. PICK ids, shown : page' = [page EXCEPT ![maker].ids = ids, ![maker].shown = shown]
      BY <2>3, Zenon DEF ListsActive
    <3> QED
      BY <2>1, <3>1
  <2>4. CASE ShowsOrders(maker)
    <3>1. PICK shown : page' = [page EXCEPT ![maker].ids = {}, ![maker].shown = shown]
      BY <2>4 DEF ShowsOrders
    <3> QED
      BY <2>1, <3>1
  <2>5. CASE CancelFails(maker)
    BY <2>2, <2>5 DEF CancelFails
  <2>6. CASE \E id \in DOMAIN orders : BuildsCancel(maker, id)
    BY <2>2, <2>6 DEF BuildsCancel
  <2> QED
    BY <2>3, <2>4, <2>5, <2>6
<1>9. \A m \in Makers : PageOK(page'[m], DOMAIN orders)
  BY <1>1, <1>8 DEF PagesOK
<1> QED
  BY <1>1, <1>8, <1>9 DEF PagesOK

LEMMA SignsCancelKeeps ==
  ASSUME BuildInv, NEW maker \in Makers, SignsCancel(maker)
  PROVE  BuildInv' /\ AnyCall
<1> DEFINE p == page[maker]
           q == [ids |-> p.ids, shown |-> p.shown, cancelling |-> 0]
<1>1. /\ p.cancelling # 0 /\ CancelTwap(p.cancelling) /\ UNCHANGED <<keeper, form, asked>>
      /\ page' = [page EXCEPT ![maker].cancelling = 0]
  BY DEF SignsCancel
<1>2. PagesOK(DOMAIN orders) /\ PageOK(p, DOMAIN orders)
  BY DEF BuildInv, PagesOK
<1>3. p.cancelling \in DOMAIN orders
      /\ p = [ids |-> p.ids, shown |-> p.shown, cancelling |-> p.cancelling]
  BY <1>1, <1>2 DEF PageOK
<1>4. AnyCall
  BY <1>1, <1>3 DEF AnyCall
<1>5. KeeperInv' /\ DOMAIN orders \subseteq DOMAIN orders'
  BY <1>1, <1>4, CallPassesKeeper DEF BuildInv
<1>6. page' = [page EXCEPT ![maker] = q]
  <2>1. page' = [page EXCEPT ![maker] = [p EXCEPT !.cancelling = 0]]
    BY <1>1
  <2> HIDE DEF p
  <2>2. [p EXCEPT !.cancelling = 0] = q
    BY <1>3
  <2> QED
    BY <2>1, <2>2
<1>7. PageOK(q, DOMAIN orders')
  BY DEF PageOK
<1> HIDE DEF p, q
<1>8. page' = [m \in Makers |-> IF m = maker THEN q ELSE page[m]]
  BY <1>2, <1>6 DEF PagesOK
<1>9. \A m \in Makers : PageOK(page'[m], DOMAIN orders')
  BY <1>2, <1>5, <1>7, <1>8 DEF PagesOK, PageOK
<1>10. PagesOK(DOMAIN orders)'
  BY <1>8, <1>9 DEF PagesOK
<1>11. AskedOK(orders, asked)'
  <2>1. orders \in Seq(Order) /\ orders' \in Seq(Order) /\ AskedOK(orders, asked)
    BY <1>5 DEF BuildInv, KeeperInv, Inv, BookOK
  <2>2. Grown(orders, orders') /\ Len(orders') = Len(orders)
    <3>1. Grown(orders, orders')
      BY <1>4, CallGrows DEF BuildInv, KeeperInv
    <3>2. PICK n : orders' = [orders EXCEPT ![p.cancelling] = n]
      BY <1>1 DEF CancelTwap, Close
    <3> QED
      BY <2>1, <3>1, <3>2
  <2>3. asked' = IF Len(orders') = Len(orders) THEN asked
                 ELSE Append(asked, LimitOf(Last(orders')))
    BY <1>1, <2>2
  <2>4. AskedOK(orders', asked')
    BY <2>1, <2>2, <2>3, ElsewhereAsks
  <2> QED
    BY <2>4
<1>12. FormsOK'
  BY <1>1 DEF BuildInv, FormsOK
<1> QED
  BY <1>4, <1>5, <1>10, <1>11, <1>12 DEF BuildInv

LEMMA ElsewhereKeeps ==
  ASSUME BuildInv, Elsewhere
  PROVE  BuildInv' /\ AnyCall
<1>1. KeeperInv' /\ AnyCall /\ UNCHANGED <<form, page>>
      /\ asked' = IF Len(orders') = Len(orders) THEN asked
                  ELSE Append(asked, LimitOf(Last(orders')))
  BY KeeperNextKeeps DEF BuildInv, Elsewhere
<1>2. Grown(orders, orders') /\ orders \in Seq(Order) /\ orders' \in Seq(Order)
  BY <1>1, CallGrows DEF BuildInv, KeeperInv, Inv, BookOK
<1>3. DOMAIN orders \subseteq DOMAIN orders'
  BY <1>2, GrownKeepsIds
<1>4. AskedOK(orders', asked')
  <2>1. AskedOK(orders, asked)
    BY DEF BuildInv
  <2> QED
    BY <1>1, <1>2, <2>1, ElsewhereAsks
<1>5. \A m \in Makers : PageOK(page[m], DOMAIN orders')
  BY <1>3 DEF BuildInv, PagesOK, PageOK
<1>6. PagesOK(DOMAIN orders)' /\ FormsOK'
  BY <1>1, <1>5 DEF BuildInv, PagesOK, FormsOK
<1> QED
  BY <1>1, <1>4, <1>6 DEF BuildInv

LEMMA BuildNextKeeps ==
  ASSUME SameDecimals, BuildInv, [BuildNext]_buildVars
  PROVE  BuildInv' /\ AnyCall
<1>1. ASSUME NEW maker \in Makers, NEW q \in TwapRequests, Asks(maker, q)
      PROVE  BuildInv' /\ AnyCall
  BY <1>1, AsksKeeps, FormStep DEF Asks
<1>2. ASSUME NEW maker \in Makers, Simulated(maker)
      PROVE  BuildInv' /\ AnyCall
  BY <1>2, SimulatedKeeps, FormStep DEF Simulated
<1>3. ASSUME NEW maker \in Makers, GivesUp(maker)
      PROVE  BuildInv' /\ AnyCall
  <2>1. FormOK(Blank)
    BY DEF FormOK
  <2>2. FormsOK'
    BY <1>3, <2>1, FormChanges DEF GivesUp, BuildInv
  <2> QED
    BY <1>3, <2>2, FormStep DEF GivesUp
<1>4. ASSUME NEW maker \in Makers, Signs(maker)
      PROVE  BuildInv' /\ AnyCall
  BY <1>4, SignsKeeps
<1>5. ASSUME NEW maker \in Makers,
             ListsActive(maker) \/ ShowsOrders(maker) \/ CancelFails(maker)
               \/ \E id \in DOMAIN orders : BuildsCancel(maker, id)
      PROVE  BuildInv' /\ AnyCall
  <2>1. PagesOK(DOMAIN orders)'
    BY <1>5, PageSteps
  <2>2. UNCHANGED <<keeperVars, form, asked>>
    BY <1>5 DEF ListsActive, ShowsOrders, CancelFails, BuildsCancel
  <2> QED
    BY <2>1, <2>2, PageStep
<1>6. ASSUME NEW maker \in Makers, SignsCancel(maker)
      PROVE  BuildInv' /\ AnyCall
  BY <1>6, SignsCancelKeeps
<1>7. CASE Elsewhere
  BY <1>7, ElsewhereKeeps
<1>8. CASE UNCHANGED buildVars
  <2>1. FormsOK' /\ UNCHANGED <<keeperVars, page, asked>>
    BY <1>8 DEF BuildInv, FormsOK, buildVars
  <2> QED
    BY <2>1, FormStep
<1> QED
  BY <1>1, <1>2, <1>3, <1>4, <1>5, <1>6, <1>7, <1>8 DEF BuildNext

LEMMA BuildInitKeeps ==
  ASSUME BuildInit
  PROVE  BuildInv
<1>1. KeeperInv
  BY KeeperInitKeeps DEF BuildInit
<1>2. orders = <<>> /\ asked = <<>>
  BY DEF BuildInit, KeeperInit, Init
<1>3. AskedOK(orders, asked)
  BY <1>2 DEF AskedOK
<1>4. FormsOK
  BY DEF BuildInit, FormsOK, FormOK
<1>5. PagesOK(DOMAIN orders)
  BY DEF BuildInit, PagesOK, PageOK
<1> QED
  BY <1>1, <1>3, <1>4, <1>5 DEF BuildInv

(* Between tokens of the same number of decimals, and through whatever      *)
(* slices, routes and fees: a maker who asks the server for a limit, or     *)
(* places one directly, has net at least that price over all that was sold, *)
(* short by no more than the rounding of the price.                         *)
THEOREM AskedPriceSafe ==
  ASSUME SameDecimals
  PROVE  BuildSpec => []AskedPriceKept
<1>1. BuildInv /\ [BuildNext]_buildVars => BuildInv'
  BY BuildNextKeeps
<1>2. ASSUME BuildInv PROVE AskedPriceKept
  <2>1. SUFFICES ASSUME NEW id \in DOMAIN orders, asked[id] # None
                 PROVE  orders[id].received_out * asked[id].den
                          >= orders[id].filled_in * asked[id].num
    BY DEF AskedPriceKept
  <2> DEFINE o == orders[id]
  <2>2. o \in Order /\ LimitKept(o)
    BY <1>2, ActiveOrder DEF BuildInv, KeeperInv, Sound
  <2>3. Promises(o.limit_num, o.limit_den, asked[id])
    BY <1>2 DEF BuildInv, AskedOK
  <2>4. o.filled_in \in Nat /\ o.received_out \in Nat
    BY <2>2 DEF Order
  <2>5. o.filled_in * o.limit_num <= o.received_out * o.limit_den
    BY <2>1, <2>2, <2>3 DEF Promises, LimitKept, FixedLimit
  <2> QED
    BY <2>1, <2>3, <2>4, <2>5 DEF Promises
<1> QED
  BY <1>1, <1>2, BuildInitKeeps, PTL DEF BuildSpec
=============================================================================
