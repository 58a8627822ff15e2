---------------------------- MODULE RouterProofs ----------------------------
(***************************************************************************)
(* The Router's safety, for every path, route, venue and failure, and the   *)
(* SwapBook's with the Router at work on it.                                *)
(***************************************************************************)
EXTENDS TimerSweep, SwapBookProofs

-----------------------------------------------------------------------------
(* Legs                                                                     *)

LEMMA SumLast ==
  ASSUME NEW f, NEW m \in Nat \ {0}, \A i \in 1..m : f[i] \in Nat
  PROVE  /\ SumFunctionOnSet(f, 1..m) = f[m] + SumFunctionOnSet(f, 1..(m - 1))
         /\ SumFunctionOnSet(f, 1..(m - 1)) \in Nat
<1> DEFINE lower == 1..(m - 1)
           upper == 1..m
<1>1. m \in Int /\ m - 1 \in Int /\ 1 \in Int
  OBVIOUS
<1>2. IsFiniteSet(upper) /\ IsFiniteSet(lower)
  BY <1>1, FS_Interval
<1>3. upper \ {m} = lower /\ m \in upper /\ lower \subseteq upper
  OBVIOUS
<1> HIDE DEF upper
<1>4. \A i \in upper : f[i] \in Nat
  BY DEF upper
<1>5. \A i \in lower : f[i] \in Nat
  BY <1>3, <1>4
<1> HIDE DEF lower
<1>6. SumFunctionOnSet(f, upper) = f[m] + SumFunctionOnSet(f, upper \ {m})
  <2>1. \A i \in upper : SumFunctionOnSet(f, upper) = f[i] + SumFunctionOnSet(f, upper \ {i})
    BY <1>2, <1>4, SumSplits
  <2> QED
    BY <1>3, <2>1
<1>7. SumFunctionOnSet(f, lower) \in Nat
  BY <1>2, <1>5, SumTyped
<1> QED
  BY <1>3, <1>6, <1>7 DEF upper, lower

LEMMA SumNone ==
  ASSUME NEW f
  PROVE  SumFunctionOnSet(f, 1..0) = 0
<1>1. 1..0 = {} /\ IsFiniteSet({})
  BY FS_EmptySet
<1> QED
  BY <1>1, SumUnfolds

(* A sum over a sequence is its first value and the sum over the rest.      *)
LEMMA SumShifts ==
  ASSUME NEW f, NEW g, NEW n \in Nat, \A i \in 1..(n + 1) : f[i] \in Nat,
         \A i \in 1..n : g[i] = f[i + 1]
  PROVE  SumFunctionOnSet(f, 1..(n + 1)) = f[1] + SumFunctionOnSet(g, 1..n)
<1> DEFINE F(m) == SumFunctionOnSet(f, 1..m)
           G(m) == SumFunctionOnSet(g, 1..m)
           bad == {m \in 0..n : F(m + 1) # f[1] + G(m)}
<1>1. SUFFICES ASSUME bad # {} PROVE FALSE
  OBVIOUS
<1>2. PICK k \in bad : \A m \in bad : k <= m
  <2>1. bad \subseteq Nat
    OBVIOUS
  <2> HIDE DEF bad
  <2> QED
    BY <1>1, <2>1, LeastNatural
<1>3. k \in 0..n /\ F(k + 1) # f[1] + G(k)
  OBVIOUS
<1>4. ASSUME NEW m \in 1..(n + 1) PROVE F(m) = f[m] + F(m - 1) /\ F(m - 1) \in Nat
  BY SumLast
<1>5. ASSUME NEW m \in 1..n PROVE G(m) = g[m] + G(m - 1) /\ G(m - 1) \in Nat
  <2>1. m \in Nat \ {0} /\ \A i \in 1..m : g[i] \in Nat
    OBVIOUS
  <2> QED
    BY <2>1, SumLast
<1>6. F(0) = 0 /\ G(0) = 0
  BY SumNone
<1>7. f[1] \in Nat
  OBVIOUS
<1>8. CASE k = 0
  <2>1. 1 \in 1..(n + 1) /\ 1 - 1 = 0
    OBVIOUS
  <2>2. F(1) = f[1] + F(0)
    BY <1>4, <2>1
  <2> HIDE DEF F, G
  <2> QED
    BY <1>3, <1>6, <1>7, <1>8, <2>2
<1>9. CASE k # 0
  <2>1. F(k + 1) = f[k + 1] + F(k) /\ F(k) \in Nat
    BY <1>3, <1>4
  <2>2. G(k) = g[k] + G(k - 1) /\ G(k - 1) \in Nat /\ g[k] = f[k + 1]
    BY <1>3, <1>5, <1>9
  <2>3. F(k) = f[1] + G(k - 1)
    <3>1. k - 1 \in 0..n /\ ~ (k <= k - 1) /\ (k - 1) + 1 = k
      BY <1>3, <1>9
    <3> QED
      BY <1>2, <3>1
  <2>4. f[k + 1] \in Nat
    BY <1>3
  <2> HIDE DEF F, G
  <2> QED
    BY <1>3, <1>7, <2>1, <2>2, <2>3, <2>4
<1> QED
  BY <1>8, <1>9

(* What the legs after the first take is the total less the first.          *)
LEMMA TotalTail ==
  ASSUME NEW legs \in Seq(Leg), LegsPositive(legs)
  PROVE  /\ legs[1] \in Leg /\ legs[1].part \in Nat \ {0}
         /\ Total(legs) \in Nat
         /\ Len(legs) = 1 => Total(legs) = legs[1].part
         /\ Len(legs) > 1 => /\ Tail(legs) \in Seq(Leg) /\ LegsPositive(Tail(legs))
                             /\ Total(legs) = legs[1].part + Total(Tail(legs))
<1> DEFINE part(s) == [i \in DOMAIN s |-> s[i].part]
           n == Len(legs) - 1
           f == part(legs)
<1>1. /\ Len(legs) \in Nat \ {0} /\ DOMAIN legs = 1..Len(legs) /\ n \in Nat /\ Len(legs) = n + 1
      /\ \A i \in 1..Len(legs) : legs[i] \in Leg
  BY DEF LegsPositive
<1>2. \A i \in 1..(n + 1) : legs[i].part \in Nat \ {0} /\ legs[i].min_amount_out >= 0
  BY <1>1 DEF LegsPositive, Leg
<1>3. DOMAIN f = 1..(n + 1) /\ \A i \in 1..(n + 1) : f[i] = legs[i].part /\ f[i] \in Nat
  BY <1>1, <1>2
<1>4. Total(legs) = SumFunctionOnSet(f, 1..(n + 1))
  BY <1>1 DEF Total, SumFunction
<1>5. Total(legs) \in Nat
  <2>1. IsFiniteSet(1..(n + 1))
    BY <1>1, FS_Interval
  <2> HIDE DEF f, n
  <2> QED
    BY <1>3, <1>4, <2>1, SumTyped
<1>6. ASSUME n = 0 PROVE Total(legs) = f[1]
  <2> HIDE DEF f, n
  <2>1. f[1] \in Nat /\ \A i \in 1..1 : f[i] \in Nat
    <3>1. n + 1 = 1
      BY <1>6
    <3> QED
      BY <1>3, <3>1
  <2>2. SumFunctionOnSet(f, 1..1) = f[1] + SumFunctionOnSet(f, 1..0)
    <3>1. 1 \in Nat \ {0} /\ 1 - 1 = 0
      OBVIOUS
    <3> QED
      BY <2>1, <3>1, SumLast
  <2>3. SumFunctionOnSet(f, 1..0) = 0
    BY SumNone
  <2> QED
    BY <1>4, <1>6, <2>1, <2>2, <2>3
<1>7. ASSUME n > 0
      PROVE  /\ Tail(legs) \in Seq(Leg) /\ LegsPositive(Tail(legs))
             /\ Total(legs) = legs[1].part + Total(Tail(legs))
  <2> DEFINE rest == Tail(legs)
             g == part(rest)
  <2>1. /\ rest \in Seq(Leg) /\ Len(rest) = n /\ DOMAIN rest = 1..n
        /\ \A i \in 1..n : rest[i] = legs[i + 1]
    BY <1>1, <1>7
  <2>2. LegsPositive(rest)
    <3>1. \A i \in 1..n : i + 1 \in 1..(n + 1)
      BY <1>1
    <3> HIDE DEF rest, n
    <3> QED
      BY <1>1, <1>2, <1>7, <2>1, <3>1 DEF LegsPositive
  <2>3. \A i \in 1..n : g[i] = f[i + 1]
    BY <1>1, <1>3, <2>1
  <2>4. Total(rest) = SumFunctionOnSet(g, 1..n)
    BY <2>1 DEF Total, SumFunction
  <2>5. SumFunctionOnSet(f, 1..(n + 1)) = f[1] + SumFunctionOnSet(g, 1..n)
    <3> HIDE DEF f, g, n
    <3> QED
      BY <1>1, <1>3, <2>3, SumShifts
  <2>6. f[1] = legs[1].part
    BY <1>1, <1>3
  <2> HIDE DEF f, g
  <2> QED
    BY <1>4, <2>1, <2>2, <2>4, <2>5, <2>6
<1>8. 1 \in 1..(n + 1) /\ f[1] = legs[1].part
  BY <1>1, <1>3
<1> HIDE DEF f
<1> QED
  BY <1>1, <1>2, <1>5, <1>6, <1>7, <1>8

-----------------------------------------------------------------------------
(* The SwapBook touches nothing of the Router's but by the timer's claim    *)

Empty(b) == \A t \in Tokens : b.balance[<<Router, t>>] = 0
Unused == Empty(book) /\ (call # None => Empty(call.saved))

LEMMA TransferAside ==
  ASSUME NEW balance, NEW token, NEW from, NEW to, NEW amount, NEW h, NEW t,
         h # from, h # to, <<h, t>> \in DOMAIN balance
  PROVE  /\ Transfer(balance, token, from, to, amount)[<<h, t>>] = balance[<<h, t>>]
         /\ <<h, t>> \in DOMAIN Transfer(balance, token, from, to, amount)
  BY DEF Transfer

LEMMA Apart ==
  /\ Router # Book /\ Router # Vault /\ Book # Vault
  /\ \A a \in Accounts : a # Router /\ a # Vault /\ a # Book
  /\ {Router, Vault, Book} \subseteq Holders /\ Accounts \subseteq Holders
  BY BookAssumption DEF Holders

LEMMA RouterHolds ==
  ASSUME NEW b, BookInv(b), NEW t \in Tokens
  PROVE  <<Router, t>> \in DOMAIN b.balance
<1>1. b.balance \in Balances
  BY BookFields DEF BookInv
<1> QED
  BY <1>1, Apart DEF Balances

LEMMA PlaceAside ==
  ASSUME NEW b, BookInv(b), Empty(b), NEW maker \in Accounts, NEW o
  PROVE  Empty(PlaceInner(b, maker, o))
<1>1. PlaceInner(b, maker, o).balance = Transfer(b.balance, o.token_in, maker, Book, o.amount_in)
  BY DEF PlaceInner
<1> QED
  BY <1>1, Apart, RouterHolds, TransferAside DEF Empty

LEMMA FillAside ==
  ASSUME NEW b, BookInv(b), Empty(b), NEW id \in OrderIds(b), NEW taker \in Accounts,
         NEW fill, NEW out
  PROVE  Empty(FillInner(b, taker, id, fill, out))
<1> DEFINE o == b.orders[id]
           fee == CalculateFee(out, cfg.fee, FEE_DENOMINATOR)
           first == Transfer(b.balance, o.token_out, taker, o.maker, out - fee)
           second == Transfer(first, o.token_out, taker, Vault, fee)
           third == Transfer(second, o.token_in, Book, taker, fill)
<1>1. FillInner(b, taker, id, fill, out).balance = third
  BY DEF FillInner, CloseOrderIndexes, WriteOrder, Settlement
<1>2. o.maker \in Accounts
  BY OrderTyped, OrderFields DEF BookInv
<1> SUFFICES ASSUME NEW t \in Tokens PROVE third[<<Router, t>>] = 0
  BY <1>1 DEF Empty
<1>3. b.balance[<<Router, t>>] = 0 /\ <<Router, t>> \in DOMAIN b.balance
  BY RouterHolds DEF Empty
<1> HIDE DEF o, fee
<1>4. first[<<Router, t>>] = 0 /\ <<Router, t>> \in DOMAIN first
  BY <1>2, <1>3, Apart, TransferAside
<1> HIDE DEF first
<1>5. second[<<Router, t>>] = 0 /\ <<Router, t>> \in DOMAIN second
  BY <1>4, Apart, TransferAside
<1> HIDE DEF second
<1> QED
  BY <1>5, Apart, TransferAside

LEMMA RefundAside ==
  ASSUME NEW b, BookInv(b), Empty(b), NEW id \in OrderIds(b), NEW status
  PROVE  Empty(Refund(b, id, status))
<1> DEFINE o == b.orders[id]
           paid == Transfer(b.balance, o.token_in, Book, o.maker, o.amount_in_remaining)
<1>1. Refund(b, id, status).balance = paid
  BY DEF Refund, CloseOrderIndexes, WriteOrder
<1>2. o.maker \in Accounts
  BY OrderTyped, OrderFields DEF BookInv
<1> HIDE DEF o
<1>3. \A t \in Tokens : paid[<<Router, t>>] = 0
  BY <1>2, Apart, RouterHolds, TransferAside DEF Empty
<1> QED
  BY <1>1, <1>3 DEF Empty

LEMMA BookCallAside ==
  ASSUME Inv, Unused, Next, ~\E id \in OrderIds(book) : ClaimExpiredTimer(id)
  PROVE  Unused'
<1>0. BookInv(book) /\ Empty(book)
  BY DEF Inv, Unused
<1>1. ASSUME Empty(book'), call' = None
      PROVE  Unused'
  BY <1>1 DEF Unused, Empty
<1>2. ASSUME NEW maker \in Accounts, NEW o \in OrderTerms, PlaceOrder(maker, o)
      PROVE  Unused'
  <2>1. book' = PlaceInner(book, maker, o) /\ call' = None
    BY <1>2 DEF PlaceOrder, Idle
  <2> QED
    BY <1>0, <1>1, <2>1, PlaceAside
<1>3. ASSUME NEW taker \in Accounts, NEW id \in OrderIds(book),
             NEW fill, NEW out, PartialFill(taker, id, fill, out)
      PROVE  Unused'
  <2>1. book' = FillInner(book, taker, id, fill, out) /\ call' = None
    BY <1>3 DEF PartialFill, Idle
  <2> QED
    BY <1>0, <1>1, <2>1, FillAside
<1>4. ASSUME NEW id \in OrderIds(book), CancelOrder(id) \/ ExpireOrder(id)
      PROVE  Unused'
  <2>1. PICK status : book' = Refund(book, id, status)
    BY <1>4 DEF CancelOrder, ExpireOrder
  <2>2. call' = None
    BY <1>4 DEF CancelOrder, ExpireOrder, Idle
  <2> QED
    BY <1>0, <1>1, <2>1, <2>2, RefundAside
<1>5. ASSUME NEW maker \in Accounts, NEW o \in MatchTerms, MatchBegin(maker, o)
      PROVE  Unused'
  <2>1. book' = book /\ call'.saved = book
    BY <1>5 DEF MatchBegin
  <2> QED
    BY <1>0, <2>1 DEF Unused, Empty
<1>6. ASSUME NEW id \in OrderIds(book), NEW fill, NEW out, MatchFill(id, fill, out)
      PROVE  Unused'
  <2>1. /\ ~Idle /\ book' = FillInner(book, call.maker, id, fill, out)
        /\ call' = [call EXCEPT !.spent = @ + out]
    BY <1>6 DEF MatchFill
  <2>2. call.maker \in Accounts /\ call \in CallState
    BY <2>1, CallFields
  <2>3. call'.saved = call.saved /\ Empty(call.saved)
    BY <2>1, <2>2 DEF CallState, Unused, Idle
  <2>4. Empty(book')
    BY <1>0, <2>1, <2>2, FillAside
  <2> QED
    BY <2>3, <2>4 DEF Unused, Empty
<1>7. ASSUME MatchPlace \/ MatchConsumed \/ MatchRevert
      PROVE  Unused'
  <2>1. ~Idle /\ call' = None
    BY <1>7 DEF MatchPlace, MatchConsumed, MatchRevert
  <2>2. call.maker \in Accounts /\ Empty(call.saved)
    BY <2>1, CallFields DEF Unused, Idle
  <2>3. CASE MatchPlace
    <3>1. book' = PlaceInner(book, call.maker, Remainder)
      BY <2>3 DEF MatchPlace
    <3> QED
      BY <1>0, <1>1, <2>1, <2>2, <3>1, PlaceAside
  <2>4. CASE MatchConsumed \/ MatchRevert
    <3>1. book' = book \/ book' = call.saved
      BY <2>4 DEF MatchConsumed, MatchRevert
    <3> QED
      BY <1>0, <1>1, <2>1, <2>2, <3>1
  <2> QED
    BY <1>7, <2>3, <2>4
<1>8. CASE \/ \E rate \in FeeRates : SetFee(rate)
           \/ \E token \in Tokens, floor \in MinOrders : SetMinOrder(token, floor)
           \/ SetRouter \/ Environment
  <2>1. book' = book /\ call' = None
    BY <1>8 DEF SetFee, SetMinOrder, SetRouter, Environment, bookVars, Idle
  <2> QED
    BY <1>0, <1>1, <2>1
<1>9. ASSUME NEW taker \in Accounts, NEW id \in OrderIds(book), NEW out,
             FillOrder(taker, id, out)
      PROVE  Unused'
  BY <1>3, <1>9 DEF FillOrder
<1> QED
  BY <1>2, <1>3, <1>4, <1>5, <1>6, <1>7, <1>8, <1>9 DEF Next

-----------------------------------------------------------------------------
(* Trips                                                                    *)

Connected(token, hops) ==
  \A i \in DOMAIN hops :
    /\ hops[i].token_out # (IF i = 1 THEN token ELSE hops[i - 1].token_out)
    /\ LegsPositive(hops[i].legs)

(* What the Router holds of each token: what of the hop's input no leg has  *)
(* taken yet, and what the hop's legs have returned.                        *)
Carries(k, b) ==
  \A t \in Tokens :
    b.balance[<<Router, t>>] =
      (IF t = k.token THEN k.left ELSE 0)
      + (IF k.hops # <<>> /\ t = k.hops[1].token_out THEN k.out ELSE 0)

Paid(k, h, t) == IF k.kind # "timer" /\ h = k.to /\ t = k.token_in THEN k.amount_in ELSE 0
Untouched(k, b) ==
  \A h \in Accounts, t \in Tokens :
    b.balance[<<h, t>>] = k.saved.balance[<<h, t>>] - Paid(k, h, t)

(* What each order that has a price would have to be paid for all its rest. *)
Owes ==
  {<<o, RequiredPayment(o, o.amount_in_remaining)>> : o \in {q \in Order : Priced(q)}}

(* The token that the hop under way swaps for, or the last one did.         *)
Towards(k) == IF k.hops = <<>> THEN k.token ELSE k.hops[1].token_out

(* The order a timer's trip claimed, as it was before the claim.            *)
Claimed(k, b, owes, id) ==
  LET o == k.saved.orders[id]
  IN /\ OrderIds(b) = OrderIds(k.saved)
     /\ \A i \in OrderIds(b) \ {id} : b.orders[i] = k.saved.orders[i]
     /\ b.orders[id].status = "Routed"
     /\ k.to = o.maker
     /\ o.token_out = Towards(k)
     /\ <<o, k.min_amount_out>> \in owes
Claims(k, b, owes) ==
  k.kind = "timer" => \E id \in OrderIds(k.saved) : Claimed(k, b, owes, id)

TripOK(k) ==
  /\ k \in TripState
  /\ IF k.kind = "timer" THEN k.partner_fee = 0 /\ k.estimated_out = 0
                         ELSE k.min_amount_out >= 0
  /\ k.partner \in Accounts \/ k.partner_fee = 0
  /\ Connected(k.token, k.hops)
  /\ k.kind # "path" => /\ Len(k.hops) <= 1
                        /\ k.hops # <<>> => k.left = Total(k.hops[1].legs)
  /\ k.hops = <<>> => k.left = k.carry /\ k.out = 0

Rates == [fee : 0..MAX_FEE_PER_100K, share : 0..MAX_SURPLUS_SHARE_BPS]

Underfoot(k) == BookInv(k.saved) /\ Sensible(k.saved) /\ Empty(k.saved)

Travelling(k, b, owes) ==
  TripOK(k) /\ Underfoot(k) /\ Carries(k, b) /\ Untouched(k, b) /\ Claims(k, b, owes)

RouterInv ==
  /\ Inv /\ CallInv
  /\ rates \in Rates
  /\ IF Resting THEN Unused ELSE Idle /\ Travelling(trip, book, Owes)

LEMMA TripFields ==
  ASSUME NEW k \in TripState
  PROVE  /\ k = [kind |-> k.kind, to |-> k.to, token_in |-> k.token_in,
                 amount_in |-> k.amount_in, min_amount_out |-> k.min_amount_out,
                 estimated_out |-> k.estimated_out, partner |-> k.partner,
                 partner_fee |-> k.partner_fee, hops |-> k.hops, token |-> k.token,
                 carry |-> k.carry, left |-> k.left, out |-> k.out, saved |-> k.saved]
         /\ k.kind \in Kinds /\ k.to \in Accounts /\ k.token_in \in Tokens
         /\ k.amount_in \in Nat /\ k.min_amount_out \in Int /\ k.estimated_out \in Int
         /\ k.partner \in Accounts \union {None} /\ k.partner_fee \in Nat
         /\ k.hops \in Seq(Hop) /\ k.token \in Tokens /\ k.carry \in Nat
         /\ k.left \in Nat /\ k.out \in Nat /\ k.saved \in BookState
  BY DEF TripState

(* What stays the same from the first step of a trip to its last.           *)
SameTrip(n, k) ==
  /\ n.kind = k.kind /\ n.to = k.to /\ n.token_in = k.token_in
  /\ n.amount_in = k.amount_in /\ n.min_amount_out = k.min_amount_out
  /\ n.estimated_out = k.estimated_out /\ n.partner = k.partner
  /\ n.partner_fee = k.partner_fee /\ n.saved = k.saved

Onward(k, hops, left, out) == [k EXCEPT !.hops = hops, !.left = left, !.out = out]
Turned(k, hops, token, out) ==
  [k EXCEPT !.hops = hops, !.token = token, !.carry = out, !.left = out, !.out = 0]

(* n is k but for where it is on its way.                                   *)
At(n, k, hops, token, carry, left, out) ==
  /\ n \in TripState /\ SameTrip(n, k)
  /\ n.hops = hops /\ n.token = token /\ n.carry = carry
  /\ n.left = left /\ n.out = out

LEMMA TripGoesOn ==
  ASSUME NEW k \in TripState, NEW hops \in Seq(Hop), NEW left \in Nat, NEW out \in Nat,
         NEW n, n = Onward(k, hops, left, out)
  PROVE  At(n, k, hops, k.token, k.carry, left, out)
<1>1. n \in TripState
  BY Zenon DEF TripState, Onward
<1>2. SameTrip(n, k)
  <2>1. n.kind = k.kind /\ n.to = k.to /\ n.token_in = k.token_in
    BY DEF TripState, Onward
  <2>2. n.amount_in = k.amount_in /\ n.min_amount_out = k.min_amount_out
    BY DEF TripState, Onward
  <2>3. n.estimated_out = k.estimated_out /\ n.partner = k.partner
    BY DEF TripState, Onward
  <2>4. n.partner_fee = k.partner_fee /\ n.saved = k.saved
    BY DEF TripState, Onward
  <2> QED
    BY <2>1, <2>2, <2>3, <2>4 DEF SameTrip
<1>3. n.hops = hops /\ n.token = k.token /\ n.carry = k.carry
  BY DEF TripState, Onward
<1>4. n.left = left /\ n.out = out
  BY DEF TripState, Onward
<1> QED
  BY <1>1, <1>2, <1>3, <1>4 DEF At

LEMMA TripTurns ==
  ASSUME NEW k \in TripState, NEW hops \in Seq(Hop), NEW token \in Tokens, NEW out \in Nat,
         NEW n, n = Turned(k, hops, token, out)
  PROVE  At(n, k, hops, token, out, out, 0)
<1>1. n \in TripState
  <2>1. 0 \in Nat
    OBVIOUS
  <2> QED
    BY <2>1, Zenon DEF TripState, Turned
<1>2. SameTrip(n, k)
  <2>1. n.kind = k.kind /\ n.to = k.to /\ n.token_in = k.token_in
    BY DEF TripState, Turned
  <2>2. n.amount_in = k.amount_in /\ n.min_amount_out = k.min_amount_out
    BY DEF TripState, Turned
  <2>3. n.estimated_out = k.estimated_out /\ n.partner = k.partner
    BY DEF TripState, Turned
  <2>4. n.partner_fee = k.partner_fee /\ n.saved = k.saved
    BY DEF TripState, Turned
  <2> QED
    BY <2>1, <2>2, <2>3, <2>4 DEF SameTrip
<1>3. n.hops = hops /\ n.token = token /\ n.carry = out
  BY DEF TripState, Turned
<1>4. n.left = out /\ n.out = 0
  BY DEF TripState, Turned
<1> QED
  BY <1>1, <1>2, <1>3, <1>4 DEF At

LEMMA HopFields ==
  ASSUME NEW token, NEW hops \in Seq(Hop), hops # <<>>, Connected(token, hops)
  PROVE  /\ 1 \in DOMAIN hops /\ Head(hops) = hops[1] /\ hops[1] \in Hop
         /\ hops[1].token_out \in Tokens /\ hops[1].token_out # token
         /\ hops[1].legs \in Seq(Leg) /\ LegsPositive(hops[1].legs)
<1>1. 1 \in DOMAIN hops /\ Head(hops) = hops[1] /\ hops[1] \in Hop
  OBVIOUS
<1> QED
  BY <1>1 DEF Hop, Connected

(* The hops left when the first one's first leg is done.                    *)
Shortened(hops) ==
  [hops EXCEPT ![1] = [token_out |-> hops[1].token_out, legs |-> Tail(hops[1].legs)]]

LEMMA HopGoesOn ==
  ASSUME NEW token, NEW hops \in Seq(Hop), hops # <<>>, Connected(token, hops),
         Len(hops[1].legs) > 1,
         NEW rest, rest = Shortened(hops)
  PROVE  /\ rest \in Seq(Hop) /\ rest # <<>> /\ Len(rest) = Len(hops)
         /\ rest[1].token_out = hops[1].token_out /\ rest[1].legs = Tail(hops[1].legs)
         /\ Connected(token, rest)
<1> DEFINE h == [token_out |-> hops[1].token_out, legs |-> Tail(hops[1].legs)]
<1>1. /\ 1 \in DOMAIN hops /\ hops[1].token_out \in Tokens
      /\ hops[1].legs \in Seq(Leg) /\ LegsPositive(hops[1].legs)
  BY HopFields
<1>2. /\ Tail(hops[1].legs) \in Seq(Leg) /\ LegsPositive(Tail(hops[1].legs))
  BY <1>1, TotalTail
<1>3. h \in Hop /\ h.token_out = hops[1].token_out /\ h.legs = Tail(hops[1].legs)
  BY <1>1, <1>2 DEF Hop
<1>4. rest = [hops EXCEPT ![1] = h]
  BY DEF Shortened
<1> HIDE DEF h
<1>5. /\ rest \in Seq(Hop) /\ Len(rest) = Len(hops) /\ DOMAIN rest = DOMAIN hops
      /\ rest[1] = h /\ \A i \in DOMAIN hops \ {1} : rest[i] = hops[i]
  <2>1. Len(hops) \in Nat /\ DOMAIN hops = 1..Len(hops) /\ \A i \in DOMAIN hops : hops[i] \in Hop
    OBVIOUS
  <2>2. /\ DOMAIN rest = 1..Len(hops) /\ rest = [i \in DOMAIN hops |-> rest[i]]
        /\ rest[1] = h /\ \A i \in DOMAIN hops \ {1} : rest[i] = hops[i]
    BY <1>1, <1>4, <2>1
  <2>3. rest \in [1..Len(hops) -> Hop]
    BY <1>3, <2>1, <2>2
  <2> QED
    BY <2>1, <2>2, <2>3
<1>6. Connected(token, rest)
  <2>1. \A i \in DOMAIN hops : rest[i].token_out = hops[i].token_out
    BY <1>3, <1>5
  <2>2. \A i \in DOMAIN hops : i # 1 => i - 1 \in DOMAIN hops
    OBVIOUS
  <2>3. \A i \in DOMAIN hops : LegsPositive(rest[i].legs)
    BY <1>2, <1>3, <1>5 DEF Connected
  <2> QED
    BY <1>5, <2>1, <2>2, <2>3 DEF Connected
<1> QED
  BY <1>1, <1>3, <1>5, <1>6

LEMMA HopEnds ==
  ASSUME NEW token, NEW hops \in Seq(Hop), hops # <<>>, Connected(token, hops),
         NEW rest, rest = Tail(hops)
  PROVE  /\ rest \in Seq(Hop) /\ Len(rest) = Len(hops) - 1
         /\ Connected(hops[1].token_out, rest)
<1>1. /\ rest \in Seq(Hop) /\ Len(rest) = Len(hops) - 1
      /\ \A i \in DOMAIN rest : i \in Nat \ {0} /\ i + 1 \in DOMAIN hops /\ rest[i] = hops[i + 1]
      /\ \A i \in DOMAIN rest : i # 1 => i - 1 \in DOMAIN rest /\ (i - 1) + 1 = i
  OBVIOUS
<1>2. ASSUME NEW i \in DOMAIN rest
      PROVE  /\ rest[i].token_out # (IF i = 1 THEN hops[1].token_out ELSE rest[i - 1].token_out)
             /\ LegsPositive(rest[i].legs)
  <2>1. /\ hops[i + 1].token_out # hops[i].token_out /\ LegsPositive(hops[i + 1].legs)
    <3>1. i + 1 \in DOMAIN hops /\ i + 1 # 1 /\ (i + 1) - 1 = i
      BY <1>1
    <3> QED
      BY <3>1 DEF Connected
  <2>2. i # 1 => rest[i - 1] = hops[i]
    BY <1>1
  <2> QED
    BY <1>1, <2>1, <2>2
<1> QED
  BY <1>1, <1>2 DEF Connected
-----------------------------------------------------------------------------
(* Tokens moved without the book                                            *)

LEMMA RebalanceKeepsBook ==
  ASSUME NEW b, BookInv(b), Sensible(b), NEW balance \in Balances,
         \A t \in Tokens : balance[<<Book, t>>] = b.balance[<<Book, t>>],
         NEW p, p = [b EXCEPT !.balance = balance]
  PROVE  /\ BookInv(p) /\ Sensible(p) /\ p.balance = balance /\ p.orders = b.orders
<1>1. /\ b \in BookState /\ LifeAccounted(b) /\ MakerFloor(b)
      /\ IndexesExact(b) /\ EscrowBacked(b)
  BY DEF BookInv
<1>2. p = [orders |-> b.orders, history |-> b.history, index |-> b.index,
           count |-> b.count, balance |-> balance]
  <2>1. b = [orders |-> b.orders, history |-> b.history, index |-> b.index,
             count |-> b.count, balance |-> b.balance]
    BY <1>1, BookFields
  <2> QED
    BY <2>1
<1>3. /\ p.orders = b.orders /\ p.history = b.history /\ p.index = b.index
      /\ p.count = b.count /\ p.balance = balance
  BY <1>2
<1>4. p \in BookState
  BY <1>1, <1>2, BookFields DEF BookState
<1>5. LifeAccounted(p) /\ MakerFloor(p)
  BY <1>1, <1>3 DEF LifeAccounted, MakerFloor, OrderIds
<1>6. IndexesExact(p)
  BY <1>1, <1>3 DEF IndexesExact, OrderIds
<1>7. EscrowBacked(p)
  BY <1>1, <1>3 DEF EscrowBacked, EscrowUnits, OrderIds
<1>8. Sensible(p)
  BY <1>3 DEF Sensible, OrderIds
<1> QED
  BY <1>3, <1>4, <1>5, <1>6, <1>7, <1>8 DEF BookInv

Shifted(moved, balance, token, from, to, amount) ==
  /\ moved \in Balances
  /\ \A h \in Holders, t \in Tokens :
       moved[<<h, t>>] = IF t = token /\ h = from THEN balance[<<h, t>>] - amount
                         ELSE IF t = token /\ h = to THEN balance[<<h, t>>] + amount
                         ELSE balance[<<h, t>>]

LEMMA TransferShifts ==
  ASSUME NEW balance \in Balances, NEW token \in Tokens,
         NEW from \in Holders, NEW to \in Holders, from # to,
         NEW amount, amount \in Nat, amount <= balance[<<from, token>>],
         NEW moved, moved = Transfer(balance, token, from, to, amount)
  PROVE  Shifted(moved, balance, token, from, to, amount)
<1>1. /\ moved \in Balances
      /\ moved[<<from, token>>] = balance[<<from, token>>] - amount
      /\ moved[<<to, token>>] = balance[<<to, token>>] + amount
  BY TransferTyped
<1>2. ASSUME NEW h \in Holders, NEW t \in Tokens, t # token \/ (h # from /\ h # to)
      PROVE  moved[<<h, t>>] = balance[<<h, t>>]
  BY <1>2, TransferLeaves
<1> QED
  BY <1>1, <1>2 DEF Shifted

(* A leg's input out of the Router's balance and its output into it.        *)
Swapped(moved, balance, x, y, amount, received) ==
  /\ moved \in Balances
  /\ \A h \in Holders, t \in Tokens :
       moved[<<h, t>>] = IF h = Router /\ t = x THEN balance[<<h, t>>] - amount
                         ELSE IF h = Router /\ t = y THEN balance[<<h, t>>] + received
                         ELSE balance[<<h, t>>]

LEMMA LegSwaps ==
  ASSUME NEW balance \in Balances, NEW x \in Tokens, NEW y \in Tokens, x # y,
         NEW amount \in Nat, amount <= balance[<<Router, x>>], NEW received \in Nat,
         NEW moved, moved = [balance EXCEPT ![<<Router, x>>] = @ - amount,
                                            ![<<Router, y>>] = @ + received]
  PROVE  Swapped(moved, balance, x, y, amount, received)
<1> DEFINE less == balance[<<Router, x>>] - amount
           more == balance[<<Router, y>>] + received
<1>1. Router \in Holders
  BY Apart
<1>2. less \in Nat /\ more \in Nat
  BY <1>1 DEF Balances
<1>3. moved = [balance EXCEPT ![<<Router, x>>] = less, ![<<Router, y>>] = more]
  BY <1>1 DEF Balances
<1> HIDE DEF less, more
<1>4. moved \in Balances
  BY <1>1, <1>2, <1>3 DEF Balances
<1>5. \A h \in Holders, t \in Tokens :
       moved[<<h, t>>] = IF h = Router /\ t = x THEN less
                         ELSE IF h = Router /\ t = y THEN more
                         ELSE balance[<<h, t>>]
  BY <1>1, <1>3 DEF Balances
<1> QED
  BY <1>4, <1>5 DEF Swapped, less, more

-----------------------------------------------------------------------------
(* What an order is owed                                                    *)

LEMMA OwesStay ==
  ASSUME UNCHANGED oracleVars
  PROVE  Owes' = Owes
<1>1. oracle' = oracle /\ reports' = reports /\ seq' = seq
  BY DEF oracleVars
<1>2. ASSUME NEW o \in Order
      PROVE  /\ Priced(o)' <=> Priced(o)
             /\ RequiredPayment(o, o.amount_in_remaining)'
                  = RequiredPayment(o, o.amount_in_remaining)
  BY <1>1 DEF Priced, RequiredPayment, HasPrice, ReadOracle, FedPair, Sep40Answers,
              CrossRate, OracleFresh, MaxAge, Now, Seconds
<1> QED
  BY <1>2 DEF Owes

LEMMA RequiredTyped ==
  ASSUME OracleTypeOK, NEW o \in Order, Priced(o)
  PROVE  RequiredPayment(o, o.amount_in_remaining) \in Int
<1> DEFINE rest == o.amount_in_remaining
           price == ReadOracle(o.token_in, o.token_out)
           fair == MulDivFloor(rest, price.num, price.den)
<1>1. /\ rest \in Nat /\ o.amount_in \in Nat \ {0} /\ o.min_amount_out \in Nat
      /\ o.token_in \in Tokens /\ o.token_out \in Tokens /\ o.max_slippage_bps \in Nat
  BY OrderFields
<1>2. CASE o.price_mode = "Fixed"
  <2>1. o.amount_in \in Nat /\ o.amount_in > 0
    BY <1>1
  <2> HIDE DEF rest
  <2>2. MulDivCeil(o.min_amount_out, rest, o.amount_in) \in Nat
    BY <1>1, <2>1, CeilBounds
  <2> QED
    BY <1>2, <2>2 DEF RequiredPayment, rest
<1>3. CASE o.price_mode # "Fixed"
  <2>0. o.price_mode = "Oracle"
    <3>1. o.price_mode \in Modes
      BY OrderFields
    <3> QED
      BY <1>3, <3>1 DEF Modes
  <2>1. price.num \in Nat /\ price.den \in Nat \ {0}
    BY <1>1, <2>0, PricePositive DEF Priced
  <2> HIDE DEF price, rest
  <2>2. fair \in Nat
    <3>1. price.den \in Nat /\ price.den > 0
      BY <2>1
    <3> QED
      BY <1>1, <2>1, <3>1, FloorBounds
  <2> HIDE DEF fair
  <2>3. BPS_DENOMINATOR \in Nat \ {0} /\ BPS_DENOMINATOR - o.max_slippage_bps \in Int
    BY <1>1, OracleAssumption
  <2>4. MulDivCeil(fair, BPS_DENOMINATOR - o.max_slippage_bps, BPS_DENOMINATOR) \in Int
    <3> DEFINE keep == BPS_DENOMINATOR - o.max_slippage_bps
               top == fair * keep + (BPS_DENOMINATOR - 1)
    <3>1. top \in Int
      <4>1. keep \in Int
        BY <2>3
      <4> HIDE DEF keep
      <4> QED
        BY <2>2, <2>3, <4>1
    <3> HIDE DEF top
    <3>2. top \div BPS_DENOMINATOR \in Int
      BY <2>3, <3>1, DivBounds
    <3> QED
      BY <3>2 DEF MulDivCeil, top
  <2> QED
    BY <1>3, <2>4 DEF RequiredPayment, fair, price, rest
<1> QED
  BY <1>2, <1>3

-----------------------------------------------------------------------------
(* A trip begins                                                            *)

LEMMA TripMoves ==
  ASSUME RouterInv, Idle, UNCHANGED <<cfg, call, oracleVars, rates>>,
         BookInv(book'), Sensible(book'),
         NEW k, trip' = k, Travelling(k, book', Owes)
  PROVE  RouterInv' /\ ~Resting'
<1>1. Inv' /\ Idle'
  BY BookStep DEF RouterInv, Idle
<1>2. CallInv'
  BY DEF CallInv, Sensible, Idle
<1>3. k # None
  BY TripAssumption DEF Travelling, TripOK
<1>4. Owes' = Owes
  BY OwesStay
<1>5. ~Resting'
  BY <1>3 DEF Resting
<1> QED
  BY <1>1, <1>2, <1>4, <1>5 DEF RouterInv

LEMMA RestStep ==
  ASSUME RouterInv, Idle, UNCHANGED <<cfg, call, oracleVars, rates>>,
         BookInv(book'), Sensible(book'), Empty(book'), trip' = None
  PROVE  RouterInv'
<1>1. Inv' /\ Idle'
  BY BookStep DEF RouterInv, Idle
<1>2. CallInv'
  BY DEF CallInv, Sensible, Idle
<1>3. Unused'
  BY DEF Unused, Empty, Idle
<1> QED
  BY <1>1, <1>2, <1>3 DEF RouterInv, Resting

LEMMA Departs ==
  ASSUME RouterInv, NEW user \in Accounts, NEW token \in Tokens, NEW amount \in Nat,
         FromUser(user, token, amount)
  PROVE  /\ BookInv(book') /\ Sensible(book')
         /\ Shifted(book'.balance, book.balance, token, user, Router, amount)
<1> DEFINE moved == Transfer(book.balance, token, user, Router, amount)
<1>1. BookInv(book) /\ Sensible(book)
  BY DEF RouterInv, Inv, CallInv
<1>2. book.balance \in Balances
  BY <1>1, BookFields DEF BookInv
<1>3. /\ user \in Holders /\ Router \in Holders /\ user # Router
      /\ Book \in Holders /\ user # Book /\ Router # Book
  BY Apart
<1>4. amount <= book.balance[<<user, token>>]
  <2>1. <<user, token>> \in Holders \X Tokens
    BY <1>3
  <2>2. book.balance[<<user, token>>] \in Nat
    BY <1>2, <2>1 DEF Balances
  <2> QED
    BY <2>2 DEF FromUser, CanPay
<1>5. book' = [book EXCEPT !.balance = moved]
  BY DEF FromUser
<1>6. Shifted(moved, book.balance, token, user, Router, amount)
  BY <1>2, <1>3, <1>4, TransferShifts
<1> HIDE DEF moved
<1>7. moved \in Balances /\ \A t \in Tokens : moved[<<Book, t>>] = book.balance[<<Book, t>>]
  BY <1>3, <1>6 DEF Shifted
<1>8. PICK p : p = [book EXCEPT !.balance = moved]
  OBVIOUS
<1>9. BookInv(p) /\ Sensible(p) /\ p.balance = moved
  BY <1>1, <1>7, <1>8, RebalanceKeepsBook
<1> QED
  BY <1>5, <1>6, <1>8, <1>9

LEMMA UserTravels ==
  ASSUME RouterInv, Resting, NEW user \in Accounts, NEW token \in Tokens, NEW amount \in Nat,
         NEW k, TripOK(k), k.kind # "timer", k.to = user, k.token_in = token,
         k.amount_in = amount, k.token = token, k.left = amount, k.out = 0, k.saved = book,
         NEW p, Shifted(p.balance, book.balance, token, user, Router, amount)
  PROVE  Travelling(k, p, Owes)
<1>1. BookInv(book) /\ Sensible(book) /\ Empty(book)
  BY DEF RouterInv, Inv, CallInv, Unused
<1>2. Underfoot(k)
  BY <1>1 DEF Underfoot
<1>3. user # Router /\ Router \in Holders /\ \A a \in Accounts : a \in Holders /\ a # Router
  BY Apart
<1>4. \A h \in Holders, t \in Tokens : book.balance[<<h, t>>] \in Nat
  BY <1>1, BookFields DEF BookInv, Balances
<1>5. Carries(k, p)
  BY <1>1, <1>3 DEF Shifted, Carries, Empty
<1>6. ASSUME NEW h \in Accounts, NEW t \in Tokens
      PROVE  p.balance[<<h, t>>] = k.saved.balance[<<h, t>>] - Paid(k, h, t)
  <2>1. /\ h \in Holders /\ h # Router /\ book.balance[<<h, t>>] \in Nat
        /\ k.saved.balance = book.balance
    BY <1>3, <1>4
  <2>2. p.balance[<<h, t>>] = IF t = token /\ h = user THEN book.balance[<<h, t>>] - amount
                              ELSE book.balance[<<h, t>>]
    BY <2>1 DEF Shifted
  <2>3. Paid(k, h, t) = IF t = token /\ h = user THEN amount ELSE 0
    BY DEF Paid
  <2> QED
    BY <2>1, <2>2, <2>3
<1>7. Untouched(k, p)
  BY <1>6 DEF Untouched
<1> QED
  BY <1>2, <1>5, <1>7 DEF Travelling, Claims

LEMMA PathFields ==
  ASSUME NEW p \in Paths
  PROVE  /\ p.token_in \in Tokens /\ p.amount_in \in Int /\ p.min_amount_out \in Int
         /\ p.estimated_out \in Int /\ p.hops \in Seq(Hop)
  BY RouterAssumption DEF PathCall

LEMMA RouteFields ==
  ASSUME NEW o \in RouteCall
  PROVE  /\ o.token_in \in Tokens /\ o.token_out \in Tokens /\ o.amount_in \in Int
         /\ o.min_amount_out \in Int /\ o.estimated_out \in Int /\ o.legs \in Seq(Leg)
  BY DEF RouteCall

LEMMA ExecutePathInv ==
  ASSUME RouterInv, NEW user \in Accounts, NEW p \in Paths, ExecutePath(user, p)
  PROVE  RouterInv'
<1> DEFINE k == Trip("path", user, p.token_in, p.amount_in, p.min_amount_out,
                     p.estimated_out, None, 0, p.hops)
<1>1. /\ Resting /\ Idle /\ trip' = k
      /\ FromUser(user, p.token_in, p.amount_in)
      /\ ValidAmounts(p) /\ ValidPath(p.token_in, p.hops)
      /\ UNCHANGED <<cfg, call, oracleVars, rates>>
  BY DEF ExecutePath, Begin
<1>2. /\ p.token_in \in Tokens /\ p.amount_in \in Nat /\ p.min_amount_out \in Nat
      /\ p.estimated_out \in Int /\ p.hops \in Seq(Hop)
  BY <1>1, PathFields DEF ValidAmounts
<1>3. book \in BookState
  BY DEF RouterInv, Inv, BookInv
<1>4. /\ k.kind = "path" /\ k.to = user /\ k.token_in = p.token_in
      /\ k.amount_in = p.amount_in /\ k.min_amount_out = p.min_amount_out
      /\ k.partner_fee = 0 /\ k.hops = p.hops /\ k.token = p.token_in
      /\ k.left = p.amount_in /\ k.out = 0 /\ k.saved = book
  BY DEF Trip
<1>5. k \in TripState
  BY <1>2, <1>3 DEF Trip, TripState, Kinds
<1> HIDE DEF k
<1>6. Connected(p.token_in, p.hops) /\ p.hops # <<>>
  BY <1>1, <1>2 DEF ValidPath, Connected
<1>7. TripOK(k)
  BY <1>2, <1>4, <1>5, <1>6 DEF TripOK
<1>8. BookInv(book') /\ Sensible(book')
      /\ Shifted(book'.balance, book.balance, p.token_in, user, Router, p.amount_in)
  BY <1>1, <1>2, Departs
<1>9. Travelling(k, book', Owes)
  BY <1>1, <1>2, <1>4, <1>7, <1>8, UserTravels
<1> QED
  BY <1>1, <1>8, <1>9, TripMoves

LEMMA RouteInnerInv ==
  ASSUME RouterInv, NEW user \in Accounts, NEW o \in RouteCall,
         NEW partner \in Accounts \union {None}, NEW partner_fee \in Nat,
         partner \in Accounts \/ partner_fee = 0,
         RouteInner(user, o, partner, partner_fee)
  PROVE  RouterInv'
<1> DEFINE hop == [token_out |-> o.token_out, legs |-> o.legs]
           hops == <<hop>>
           k == Trip("route", user, o.token_in, o.amount_in, o.min_amount_out,
                     o.estimated_out, partner, partner_fee, hops)
<1>1. /\ Resting /\ Idle /\ trip' = k
      /\ FromUser(user, o.token_in, o.amount_in)
      /\ ValidAmounts(o) /\ ValidSegments(o.legs, o.amount_in)
      /\ o.token_in # o.token_out
      /\ UNCHANGED <<cfg, call, oracleVars, rates>>
  BY DEF RouteInner, Begin
<1>2. /\ o.token_in \in Tokens /\ o.amount_in \in Nat /\ o.min_amount_out \in Nat
      /\ o.estimated_out \in Int /\ o.token_out \in Tokens /\ o.legs \in Seq(Leg)
  BY <1>1, RouteFields DEF ValidAmounts
<1>3. book \in BookState
  BY DEF RouterInv, Inv, BookInv
<1>4. hop \in Hop /\ hop.token_out = o.token_out /\ hop.legs = o.legs
  BY <1>2 DEF Hop
<1> HIDE DEF hop
<1>5. hops \in Seq(Hop) /\ Len(hops) = 1 /\ hops # <<>> /\ hops[1] = hop /\ DOMAIN hops = {1}
  BY <1>4
<1> HIDE DEF hops
<1>6. /\ k.kind = "route" /\ k.to = user /\ k.token_in = o.token_in
      /\ k.amount_in = o.amount_in /\ k.min_amount_out = o.min_amount_out
      /\ k.partner = partner /\ k.partner_fee = partner_fee
      /\ k.hops = hops /\ k.token = o.token_in
      /\ k.left = o.amount_in /\ k.out = 0 /\ k.saved = book
  BY DEF Trip
<1>7. k \in TripState
  BY <1>2, <1>3, <1>5 DEF Trip, TripState, Kinds
<1> HIDE DEF k
<1>8. Connected(o.token_in, hops)
  BY <1>1, <1>4, <1>5 DEF ValidSegments, Connected
<1>9. k.left = Total(k.hops[1].legs)
  BY <1>1, <1>4, <1>5, <1>6 DEF ValidSegments
<1>10. TripOK(k)
  <2>1. /\ k.min_amount_out >= 0 /\ Len(k.hops) <= 1 /\ k.hops # <<>>
        /\ k.kind # "timer" /\ Connected(k.token, k.hops)
        /\ k.partner \in Accounts \/ k.partner_fee = 0
    <3>1. k.min_amount_out >= 0
      BY <1>2, <1>6
    <3>2. Len(k.hops) <= 1 /\ k.hops # <<>>
      <4>1. Len(hops) <= 1 /\ hops # <<>>
        BY <1>5
      <4>2. k.hops = hops
        BY <1>6
      <4> QED
        BY <4>1, <4>2, Zenon
    <3> QED
      BY <1>6, <1>8, <3>1, <3>2
  <2> QED
    BY <1>7, <1>9, <2>1 DEF TripOK
<1>11. BookInv(book') /\ Sensible(book')
       /\ Shifted(book'.balance, book.balance, o.token_in, user, Router, o.amount_in)
  BY <1>1, <1>2, Departs
<1>12. Travelling(k, book', Owes)
  BY <1>1, <1>2, <1>6, <1>10, <1>11, UserTravels
<1> QED
  BY <1>1, <1>11, <1>12, TripMoves

LEMMA UserRouteInv ==
  ASSUME RouterInv, NEW user \in Accounts, NEW o \in Orders,
         \/ ExecuteRoute(user, o)
         \/ \E partner \in Accounts, fee \in PartnerFees :
              ExecuteRoutePartner(user, o, partner, fee)
         \/ \E venue \in Venues : SwapOne(user, o, venue)
  PROVE  RouterInv'
<1>1. o \in RouteCall /\ MAX_PARTNER_FEE_PER_100K \in Nat
  BY RouterAssumption
<1>2. CASE ExecuteRoute(user, o)
  BY <1>1, <1>2, RouteInnerInv DEF ExecuteRoute
<1>3. ASSUME NEW partner \in Accounts, NEW fee \in PartnerFees,
             ExecuteRoutePartner(user, o, partner, fee)
      PROVE  RouterInv'
  <2>1. fee \in Nat /\ RouteInner(user, o, partner, fee)
    BY <1>1, <1>3 DEF ExecuteRoutePartner
  <2> QED
    BY <1>1, <2>1, RouteInnerInv
<1>4. ASSUME NEW venue \in Venues, SwapOne(user, o, venue)
      PROVE  RouterInv'
  <2> DEFINE leg == [venue |-> venue, part |-> o.amount_in,
                     min_amount_out |-> o.min_amount_out]
             legs == <<leg>>
             q == [o EXCEPT !.estimated_out = 0, !.legs = legs]
  <2>1. RouteInner(user, q, None, 0)
    BY <1>4 DEF SwapOne
  <2>2. leg \in Leg
    BY <1>1, RouteFields DEF Leg
  <2> HIDE DEF leg
  <2>3. legs \in Seq(Leg) /\ 0 \in Int
    BY <2>2
  <2> HIDE DEF legs
  <2>4. q \in RouteCall
    BY <1>1, <2>3, Zenon DEF RouteCall
  <2> HIDE DEF q
  <2> QED
    BY <2>1, <2>4, RouteInnerInv
<1> QED
  BY <1>2, <1>3, <1>4

(* The claim: the order is Routed, its rest is the Router's, all else as    *)
(* it was.                                                                  *)
LEMMA ClaimMoves ==
  ASSUME NEW b, BookInv(b), Sensible(b), NEW id \in OrderIds(b), CanClaim(b, id),
         NEW p, p = Claim(b, id)
  PROVE  /\ BookInv(p) /\ Sensible(p) /\ OrderIds(p) = OrderIds(b)
         /\ p.orders[id].status = "Routed"
         /\ \A i \in OrderIds(b) \ {id} : p.orders[i] = b.orders[i]
         /\ Shifted(p.balance, b.balance, b.orders[id].token_in, Book, Router,
                    b.orders[id].amount_in_remaining)
<1> DEFINE o == b.orders[id]
           rest == o.amount_in_remaining
           h == [b.history[id] EXCEPT !.routed = rest]
           moved == Transfer(b.balance, o.token_in, Book, Router, rest)
<1>1. /\ b \in BookState /\ DOMAIN b.history = OrderIds(b) /\ b.balance \in Balances
  BY BookFields DEF BookInv, LifeAccounted
<1>2. /\ o \in Order /\ rest \in Nat /\ o.token_in \in Tokens
  BY <1>1, OrderTyped, OrderFields
<1>3. BookInv(p)
  BY ClaimKeepsBook
<1>4. Sensible(p)
  <2>1. "Routed" \in Statuses
    BY DEF Statuses
  <2> QED
    BY <2>1, PayoutEffect, PayoutSensible
<1>5. p = Updated(b, id, 0, "Routed", h, moved)
  BY <1>1, ClaimIsUpdate
<1> HIDE DEF h
<1>6. /\ OrderIds(p) = OrderIds(b) /\ p.orders[id] = Left(o, 0, "Routed")
      /\ \A i \in OrderIds(b) \ {id} : p.orders[i] = b.orders[i]
      /\ p.balance = moved
  BY <1>1, <1>5, UpdatedOrders
<1>7. p.orders[id].status = "Routed"
  <2>1. 0 \in Nat /\ "Routed" \in Statuses
    BY DEF Statuses
  <2> QED
    BY <1>2, <1>6, <2>1, LeftFields
<1>8. rest <= b.balance[<<Book, o.token_in>>]
  <2>1. b.balance[<<Book, o.token_in>>] \in Nat
    BY <1>1, <1>2, Apart DEF Balances
  <2> QED
    BY <1>2, <2>1 DEF CanClaim, CanPay
<1> HIDE DEF o, rest
<1>9. Shifted(moved, b.balance, o.token_in, Book, Router, rest)
  BY <1>1, <1>2, <1>8, Apart, TransferShifts
<1> HIDE DEF moved
<1>10. Shifted(p.balance, b.balance, b.orders[id].token_in, Book, Router,
               b.orders[id].amount_in_remaining)
  BY <1>6, <1>9 DEF o, rest
<1> QED
  BY <1>3, <1>4, <1>6, <1>7, <1>10

LEMMA TimerTravels ==
  ASSUME RouterInv, Resting, NEW id \in OrderIds(book), CanClaim(book, id),
         NEW o \in Order, o = book.orders[id],
         NEW k, TripOK(k), k.kind = "timer", k.to = o.maker, k.token = o.token_in,
         k.left = o.amount_in_remaining, k.out = 0, k.saved = book,
         k.hops # <<>>, k.hops[1].token_out = o.token_out,
         k.min_amount_out = RequiredPayment(o, o.amount_in_remaining),
         NEW p, p = Claim(book, id)
  PROVE  Travelling(k, p, Owes)
<1>1. BookInv(book) /\ Sensible(book) /\ Empty(book)
  BY DEF RouterInv, Inv, CallInv, Unused
<1>2. Underfoot(k)
  BY <1>1 DEF Underfoot
<1>3. /\ Book # Router /\ Router \in Holders
      /\ \A a \in Accounts : a \in Holders /\ a # Router /\ a # Book
  BY Apart
<1>4. \A h \in Holders, t \in Tokens : book.balance[<<h, t>>] \in Nat
  BY <1>1, BookFields DEF BookInv, Balances
<1>5. /\ OrderIds(p) = OrderIds(book) /\ p.orders[id].status = "Routed"
      /\ \A i \in OrderIds(book) \ {id} : p.orders[i] = book.orders[i]
      /\ Shifted(p.balance, book.balance, o.token_in, Book, Router, o.amount_in_remaining)
  BY <1>1, ClaimMoves
<1>6. o.amount_in_remaining \in Nat
  BY OrderFields
<1>7. Carries(k, p)
  <2>1. SUFFICES ASSUME NEW t \in Tokens
                 PROVE  p.balance[<<Router, t>>] =
                          (IF t = k.token THEN k.left ELSE 0)
                          + (IF k.hops # <<>> /\ t = k.hops[1].token_out THEN k.out ELSE 0)
    BY DEF Carries
  <2>2. book.balance[<<Router, t>>] = 0
    BY <1>1 DEF Empty
  <2>3. p.balance[<<Router, t>>] = IF t = o.token_in THEN 0 + o.amount_in_remaining ELSE 0
    BY <1>3, <1>5, <2>2 DEF Shifted
  <2> QED
    BY <1>6, <2>3
<1>8. Untouched(k, p)
  <2>1. SUFFICES ASSUME NEW h \in Accounts, NEW t \in Tokens
                 PROVE  p.balance[<<h, t>>] = k.saved.balance[<<h, t>>] - Paid(k, h, t)
    BY DEF Untouched
  <2>2. Paid(k, h, t) = 0
    BY DEF Paid
  <2>3. p.balance[<<h, t>>] = book.balance[<<h, t>>] /\ book.balance[<<h, t>>] \in Nat
    BY <1>3, <1>4, <1>5 DEF Shifted
  <2> QED
    BY <2>2, <2>3
<1>9. <<o, k.min_amount_out>> \in Owes
  BY DEF Owes, CanClaim
<1>10. Claims(k, p, Owes)
  <2>1. Claimed(k, p, Owes, id)
    BY <1>5, <1>9 DEF Claimed, Towards
  <2> QED
    BY <2>1 DEF Claims
<1> QED
  BY <1>2, <1>7, <1>8, <1>10 DEF Travelling

LEMMA RouteExpiredOrderInv ==
  ASSUME RouterInv, NEW id \in OrderIds(book), NEW legs \in Segments,
         RouteExpiredOrder(id, legs)
  PROVE  RouterInv'
<1> DEFINE o == book.orders[id]
           hop == [token_out |-> o.token_out, legs |-> legs]
           hops == <<hop>>
           k == Trip("timer", o.maker, o.token_in, o.amount_in_remaining, ClaimedFloor(id),
                     0, None, 0, hops)
<1>1. /\ Resting /\ Idle /\ CanClaim(book, id) /\ book' = Claim(book, id)
      /\ trip' = k /\ ValidSegments(legs, o.amount_in_remaining)
      /\ UNCHANGED <<cfg, call, oracleVars, rates>>
  BY DEF RouteExpiredOrder, ClaimExpiredTimer, Begin
<1>2. BookInv(book) /\ book \in BookState /\ OracleTypeOK /\ Sensible(book)
  BY DEF RouterInv, Inv, BookInv, CallInv
<1>3. o \in Order /\ o.token_in # o.token_out /\ Priced(o)
  BY <1>1, <1>2, OrderTyped DEF Sensible, SensibleTerms, CanClaim
<1>4. ClaimedFloor(id) = RequiredPayment(o, o.amount_in_remaining)
  BY DEF ClaimedFloor
<1> HIDE DEF o
<1>5. ClaimedFloor(id) \in Int
  BY <1>2, <1>3, <1>4, RequiredTyped
<1>6. /\ o.maker \in Accounts /\ o.token_in \in Tokens /\ o.token_out \in Tokens
      /\ o.amount_in_remaining \in Nat /\ legs \in Seq(Leg)
  BY <1>3, OrderFields, RouterAssumption
<1>7. hop \in Hop /\ hop.token_out = o.token_out /\ hop.legs = legs
  BY <1>6 DEF Hop
<1> HIDE DEF hop
<1>8. hops \in Seq(Hop) /\ Len(hops) <= 1 /\ hops # <<>> /\ hops[1] = hop /\ DOMAIN hops = {1}
  BY <1>7
<1> HIDE DEF hops
<1>9. /\ k.kind = "timer" /\ k.to = o.maker /\ k.estimated_out = 0
      /\ k.min_amount_out = ClaimedFloor(id) /\ k.partner_fee = 0
      /\ k.hops = hops /\ k.token = o.token_in
      /\ k.left = o.amount_in_remaining /\ k.out = 0 /\ k.saved = book
  BY DEF Trip
<1>10. k \in TripState
  BY <1>2, <1>5, <1>6, <1>8 DEF Trip, TripState, Kinds
<1> HIDE DEF k
<1>11. Connected(o.token_in, hops)
  BY <1>1, <1>3, <1>7, <1>8 DEF ValidSegments, Connected
<1>12. k.hops[1] = hop /\ k.left = Total(k.hops[1].legs)
  BY <1>1, <1>7, <1>8, <1>9 DEF ValidSegments
<1>13. Len(k.hops) <= 1 /\ k.hops # <<>>
  BY <1>8, <1>9, Zenon
<1>14. TripOK(k)
  <2>1. Connected(k.token, k.hops)
    BY <1>9, <1>11
  <2>2. k.kind = "timer" /\ k.partner_fee = 0 /\ k.estimated_out = 0
    BY <1>9
  <2> QED
    BY <1>10, <1>12, <1>13, <2>1, <2>2 DEF TripOK
<1>15. BookInv(book') /\ Sensible(book')
  BY <1>1, <1>2, ClaimMoves
<1>16. Travelling(k, book', Owes)
  <2>1. k.hops[1].token_out = o.token_out
    BY <1>7, <1>12
  <2>2. o = book.orders[id]
    BY DEF o
  <2>3. PICK p : p = Claim(book, id)
    OBVIOUS
  <2>4. Travelling(k, p, Owes)
    BY <1>1, <1>3, <1>4, <1>9, <1>13, <1>14, <2>1, <2>2, <2>3, TimerTravels
  <2> QED
    BY <1>1, <2>3, <2>4
<1> QED
  BY <1>1, <1>15, <1>16, TripMoves

-----------------------------------------------------------------------------
(* A leg                                                                    *)

(* The tokens of a trip that no leg moves are where they were.              *)
LEMMA LegLeaves ==
  ASSUME NEW k, NEW b, NEW p, NEW n, Untouched(k, b), Underfoot(k), SameTrip(n, k),
         NEW x \in Tokens, NEW y \in Tokens, NEW amount, NEW received,
         Swapped(p.balance, b.balance, x, y, amount, received)
  PROVE  Untouched(n, p) /\ Underfoot(n)
<1>1. \A h \in Accounts : h \in Holders /\ h # Router
  BY Apart
<1>2. \A h \in Accounts, t \in Tokens : p.balance[<<h, t>>] = b.balance[<<h, t>>]
  BY <1>1 DEF Swapped
<1>3. \A h, t : Paid(n, h, t) = Paid(k, h, t)
  BY DEF Paid, SameTrip
<1>4. n.saved = k.saved
  BY DEF SameTrip
<1>5. Untouched(n, p)
  BY <1>2, <1>3, <1>4 DEF Untouched
<1> QED
  BY <1>4, <1>5 DEF Underfoot

LEMMA SameClaim ==
  ASSUME NEW k, NEW b, NEW p, NEW n, NEW owes, Claims(k, b, owes), SameTrip(n, k),
         p.orders = b.orders,
         k.kind = "timer" => Towards(n) = Towards(k)
  PROVE  Claims(n, p, owes)
<1>1. SUFFICES ASSUME k.kind = "timer"
               PROVE  \E id \in OrderIds(k.saved) : Claimed(n, p, owes, id)
  BY DEF Claims, SameTrip
<1>2. PICK id \in OrderIds(k.saved) : Claimed(k, b, owes, id)
  BY <1>1 DEF Claims
<1>3. OrderIds(p) = OrderIds(b)
  BY DEF OrderIds
<1>4. Claimed(n, p, owes, id)
  BY <1>1, <1>2, <1>3 DEF Claimed, SameTrip
<1> QED
  BY <1>4

LEMMA LegGoesOn ==
  ASSUME NEW k, NEW b, NEW owes, Travelling(k, b, owes), BookInv(b),
         k.hops # <<>>, Len(k.hops[1].legs) > 1,
         NEW amount \in Nat, amount <= k.left,
         k.kind # "path" => amount = k.hops[1].legs[1].part,
         NEW received \in Nat,
         NEW hops, hops = Shortened(k.hops),
         NEW left, left = k.left - amount, NEW out, out = k.out + received,
         NEW n, n = Onward(k, hops, left, out),
         NEW p, p.orders = b.orders,
         Swapped(p.balance, b.balance, k.token, k.hops[1].token_out, amount, received)
  PROVE  Travelling(n, p, owes)
<1>1. /\ TripOK(k) /\ Underfoot(k) /\ Carries(k, b) /\ Untouched(k, b) /\ Claims(k, b, owes)
  BY DEF Travelling
<1>2. /\ k \in TripState /\ k.hops \in Seq(Hop) /\ k.token \in Tokens
      /\ k.left \in Nat /\ k.out \in Nat /\ Connected(k.token, k.hops)
  BY <1>1, TripFields DEF TripOK
<1>3. /\ k.hops[1].token_out \in Tokens /\ k.hops[1].token_out # k.token
      /\ k.hops[1].legs \in Seq(Leg) /\ LegsPositive(k.hops[1].legs)
  BY <1>2, HopFields
<1>4. /\ hops \in Seq(Hop) /\ hops # <<>> /\ Len(hops) = Len(k.hops)
      /\ hops[1].token_out = k.hops[1].token_out /\ hops[1].legs = Tail(k.hops[1].legs)
      /\ Connected(k.token, hops)
  BY <1>2, HopGoesOn
<1>5. left \in Nat /\ out \in Nat
  BY <1>2
<1>6. /\ n \in TripState /\ SameTrip(n, k)
      /\ n.hops = hops /\ n.token = k.token /\ n.left = left /\ n.out = out
  <2>1. At(n, k, hops, k.token, k.carry, left, out)
    BY <1>2, <1>4, <1>5, TripGoesOn
  <2> QED
    BY <2>1 DEF At
<1>7. k.kind # "path" => left = Total(hops[1].legs)
  <2>1. /\ Total(k.hops[1].legs) = k.hops[1].legs[1].part + Total(Tail(k.hops[1].legs))
        /\ k.hops[1].legs[1].part \in Nat /\ Total(Tail(k.hops[1].legs)) \in Nat
    <3>1. /\ Tail(k.hops[1].legs) \in Seq(Leg) /\ LegsPositive(Tail(k.hops[1].legs))
          /\ Total(k.hops[1].legs) = k.hops[1].legs[1].part + Total(Tail(k.hops[1].legs))
          /\ k.hops[1].legs[1].part \in Nat
      BY <1>3, TotalTail
    <3>2. Total(Tail(k.hops[1].legs)) \in Nat
      BY <3>1, TotalTail
    <3> QED
      BY <3>1, <3>2
  <2>2. k.kind # "path" => k.left = Total(k.hops[1].legs)
    BY <1>1 DEF TripOK
  <2>3. Total(hops[1].legs) = Total(Tail(k.hops[1].legs))
    BY <1>4
  <2> QED
    BY <2>1, <2>2, <2>3
<1>8. TripOK(n)
  <2>1. IF n.kind = "timer" THEN n.partner_fee = 0 /\ n.estimated_out = 0
                            ELSE n.min_amount_out >= 0
    BY <1>1, <1>6 DEF TripOK, SameTrip
  <2>2. n.partner \in Accounts \/ n.partner_fee = 0
    BY <1>1, <1>6 DEF TripOK, SameTrip
  <2>3. Connected(n.token, n.hops) /\ n.hops # <<>>
    BY <1>4, <1>6
  <2>4. n.kind # "path" => Len(n.hops) <= 1 /\ n.left = Total(n.hops[1].legs)
    <3>1. n.kind = k.kind /\ Len(n.hops) = Len(k.hops)
      BY <1>4, <1>6 DEF SameTrip
    <3>2. k.kind # "path" => Len(k.hops) <= 1
      BY <1>1 DEF TripOK
    <3>3. n.left = left /\ Total(n.hops[1].legs) = Total(hops[1].legs)
      BY <1>6
    <3> QED
      BY <1>7, <3>1, <3>2, <3>3
  <2> QED
    BY <1>6, <2>1, <2>2, <2>3, <2>4 DEF TripOK
<1>9. Untouched(n, p) /\ Underfoot(n)
  BY <1>1, <1>2, <1>3, <1>6, LegLeaves
<1>10. Carries(n, p)
  <2>1. SUFFICES ASSUME NEW t \in Tokens
                 PROVE  p.balance[<<Router, t>>] =
                          (IF t = n.token THEN n.left ELSE 0)
                          + (IF n.hops # <<>> /\ t = n.hops[1].token_out THEN n.out ELSE 0)
    BY DEF Carries
  <2>2. Router \in Holders
    BY Apart
  <2>3. b.balance[<<Router, t>>] =
          (IF t = k.token THEN k.left ELSE 0)
          + (IF t = k.hops[1].token_out THEN k.out ELSE 0)
    BY <1>1 DEF Carries
  <2>4. p.balance[<<Router, t>>] =
          IF t = k.token THEN b.balance[<<Router, t>>] - amount
          ELSE IF t = k.hops[1].token_out THEN b.balance[<<Router, t>>] + received
          ELSE b.balance[<<Router, t>>]
    BY <2>2 DEF Swapped
  <2>5. n.hops # <<>> /\ n.hops[1].token_out = k.hops[1].token_out
    BY <1>4, <1>6
  <2>6. k.token # k.hops[1].token_out /\ n.token = k.token /\ n.left = left /\ n.out = out
    BY <1>3, <1>6
  <2>7. CASE t = k.token
    BY <1>2, <1>5, <2>3, <2>4, <2>5, <2>6, <2>7
  <2>8. CASE t = k.hops[1].token_out
    BY <1>2, <1>5, <2>3, <2>4, <2>5, <2>6, <2>8
  <2>9. CASE t # k.token /\ t # k.hops[1].token_out
    BY <2>3, <2>4, <2>5, <2>6, <2>9
  <2> QED
    BY <2>7, <2>8, <2>9
<1>11. Claims(n, p, owes)
  <2>1. Towards(n) = Towards(k)
    BY <1>4, <1>6 DEF Towards
  <2> QED
    BY <1>1, <1>6, <2>1, SameClaim
<1> QED
  BY <1>8, <1>9, <1>10, <1>11 DEF Travelling

LEMMA LegEnds ==
  ASSUME NEW k, NEW b, NEW owes, Travelling(k, b, owes), BookInv(b), k.hops # <<>>,
         NEW received \in Nat,
         NEW hops, hops = Tail(k.hops), NEW out, out = k.out + received,
         NEW n, n = Turned(k, hops, k.hops[1].token_out, out),
         NEW p, p.orders = b.orders,
         Swapped(p.balance, b.balance, k.token, k.hops[1].token_out, k.left, received)
  PROVE  Travelling(n, p, owes)
<1>1. /\ TripOK(k) /\ Underfoot(k) /\ Carries(k, b) /\ Untouched(k, b) /\ Claims(k, b, owes)
  BY DEF Travelling
<1>2. /\ k \in TripState /\ k.hops \in Seq(Hop) /\ k.token \in Tokens
      /\ k.left \in Nat /\ k.out \in Nat /\ Connected(k.token, k.hops)
  BY <1>1, TripFields DEF TripOK
<1>3. k.hops[1].token_out \in Tokens /\ k.hops[1].token_out # k.token
  BY <1>2, HopFields
<1>4. /\ hops \in Seq(Hop) /\ Len(hops) = Len(k.hops) - 1
      /\ Connected(k.hops[1].token_out, hops)
  BY <1>2, HopEnds
<1>5. out \in Nat
  BY <1>2
<1>6. /\ n \in TripState /\ SameTrip(n, k)
      /\ n.hops = hops /\ n.token = k.hops[1].token_out
      /\ n.carry = out /\ n.left = out /\ n.out = 0
  <2>1. At(n, k, hops, k.hops[1].token_out, out, out, 0)
    BY <1>2, <1>3, <1>4, <1>5, TripTurns
  <2> QED
    BY <2>1 DEF At
<1>7. k.kind # "path" => hops = <<>>
  <2>1. k.kind # "path" => Len(k.hops) <= 1
    BY <1>1 DEF TripOK
  <2>2. Len(k.hops) \in Nat
    BY <1>2
  <2>3. Len(hops) <= 0 => hops = <<>>
    BY <1>4
  <2> QED
    BY <1>4, <2>1, <2>2, <2>3
<1>8. TripOK(n)
  <2>1. IF n.kind = "timer" THEN n.partner_fee = 0 /\ n.estimated_out = 0
                            ELSE n.min_amount_out >= 0
    BY <1>1, <1>6 DEF TripOK, SameTrip
  <2>2. n.partner \in Accounts \/ n.partner_fee = 0
    BY <1>1, <1>6 DEF TripOK, SameTrip
  <2>3. Connected(n.token, n.hops)
    BY <1>4, <1>6
  <2>4. n.kind # "path" => n.hops = <<>> /\ Len(n.hops) <= 1
    <3>1. Len(<<>>) <= 1
      OBVIOUS
    <3>2. n.kind = k.kind
      BY <1>6 DEF SameTrip
    <3> QED
      BY <1>6, <1>7, <3>1, <3>2
  <2>5. n.left = n.carry /\ n.out = 0
    BY <1>6
  <2> QED
    BY <1>6, <2>1, <2>2, <2>3, <2>4, <2>5 DEF TripOK
<1>9. Untouched(n, p) /\ Underfoot(n)
  BY <1>1, <1>2, <1>3, <1>6, LegLeaves
<1>10. Carries(n, p)
  <2>1. SUFFICES ASSUME NEW t \in Tokens
                 PROVE  p.balance[<<Router, t>>] =
                          (IF t = n.token THEN n.left ELSE 0)
                          + (IF n.hops # <<>> /\ t = n.hops[1].token_out THEN n.out ELSE 0)
    BY DEF Carries
  <2>2. Router \in Holders
    BY Apart
  <2>3. b.balance[<<Router, t>>] =
          (IF t = k.token THEN k.left ELSE 0)
          + (IF t = k.hops[1].token_out THEN k.out ELSE 0)
    BY <1>1 DEF Carries
  <2>4. p.balance[<<Router, t>>] =
          IF t = k.token THEN b.balance[<<Router, t>>] - k.left
          ELSE IF t = k.hops[1].token_out THEN b.balance[<<Router, t>>] + received
          ELSE b.balance[<<Router, t>>]
    BY <2>2 DEF Swapped
  <2>5. p.balance[<<Router, t>>] = IF t = k.hops[1].token_out THEN out ELSE 0
    BY <1>2, <1>3, <2>3, <2>4
  <2> QED
    BY <1>5, <1>6, <2>5
<1>11. Claims(n, p, owes)
  <2>1. k.kind = "timer" => Towards(n) = Towards(k)
    BY <1>6, <1>7 DEF Towards
  <2> QED
    BY <1>1, <1>6, <2>1, SameClaim
<1> QED
  BY <1>8, <1>9, <1>10, <1>11 DEF Travelling

(* A path's leg takes its weight or what is left, a route's leg its part;   *)
(* the last leg of a hop takes exactly what is left, whichever it is.       *)
LEMMA LegInTyped ==
  ASSUME TripOK(trip), trip.hops # <<>>
  PROVE  LET leg == Head(Head(trip.hops).legs)
         IN  /\ LegIn(leg) \in Nat
             /\ trip.kind # "path" => LegIn(leg) = trip.hops[1].legs[1].part
             /\ Len(trip.hops[1].legs) = 1 => LegIn(leg) = trip.left
<1> DEFINE legs == trip.hops[1].legs
           leg == Head(Head(trip.hops).legs)
<1>1. /\ trip.hops \in Seq(Hop) /\ trip.left \in Nat /\ trip.carry \in Nat
      /\ Connected(trip.token, trip.hops)
  BY TripFields DEF TripOK
<1>2. Head(trip.hops) = trip.hops[1] /\ legs \in Seq(Leg) /\ LegsPositive(legs)
  BY <1>1, HopFields
<1> HIDE DEF legs
<1>3. /\ legs[1].part \in Nat \ {0}
      /\ Len(legs) = 1 => Total(legs) = legs[1].part
  BY <1>2, TotalTail
<1>4. leg = legs[1]
  <2>1. leg = Head(legs)
    BY <1>2 DEF legs
  <2>2. Len(legs) > 0
    BY <1>2 DEF LegsPositive
  <2> QED
    BY <1>2, <2>1, <2>2
<1> HIDE DEF leg
<1>5. MulDivFloor(trip.carry, leg.part, WEIGHT_DENOMINATOR) \in Nat
  <2>1. WEIGHT_DENOMINATOR \in Nat \ {0}
    BY RouterAssumption
  <2>2. leg.part \in Nat /\ WEIGHT_DENOMINATOR \in Nat /\ WEIGHT_DENOMINATOR > 0
    BY <1>3, <1>4, <2>1
  <2> QED
    BY <1>1, <2>2, FloorBounds
<1>6. CASE trip.kind # "path"
  <2>1. LegIn(leg) = legs[1].part
    BY <1>4, <1>6 DEF LegIn
  <2>2. trip.left = Total(legs)
    BY <1>6 DEF TripOK, legs
  <2> QED
    BY <1>3, <2>1, <2>2 DEF legs, leg
<1>7. CASE trip.kind = "path"
  <2>1. LegIn(leg) = IF Len(legs) = 1 THEN trip.left
                     ELSE MulDivFloor(trip.carry, leg.part, WEIGHT_DENOMINATOR)
    BY <1>2, <1>7 DEF LegIn, legs
  <2> QED
    BY <1>1, <1>5, <1>7, <2>1 DEF legs, leg
<1> QED
  BY <1>6, <1>7

LEMMA SwapLegInv ==
  ASSUME RouterInv, NEW received \in VenueOutputs, SwapLeg(received)
  PROVE  RouterInv' /\ ~Resting'
<1> DEFINE hop == trip.hops[1]
           amount == LegIn(Head(Head(trip.hops).legs))
           moved == [book.balance EXCEPT ![<<Router, trip.token>>] = @ - amount,
                                         ![<<Router, hop.token_out>>] = @ + received]
           hops == Shortened(trip.hops)
           left == trip.left - amount
           out == trip.out + received
<1>1. ~Resting /\ trip.hops # <<>>
  BY DEF SwapLeg
<1>2. Idle /\ Travelling(trip, book, Owes) /\ BookInv(book) /\ Sensible(book)
  BY <1>1 DEF RouterInv, Inv, CallInv
<1>3. TripOK(trip) /\ Carries(trip, book)
  BY <1>2 DEF Travelling
<1>4. /\ trip.hops \in Seq(Hop) /\ trip.token \in Tokens /\ trip.left \in Nat
      /\ trip.out \in Nat /\ Connected(trip.token, trip.hops)
  BY <1>3, TripFields DEF TripOK
<1>5. /\ Head(trip.hops) = hop /\ hop.token_out \in Tokens /\ hop.token_out # trip.token
      /\ hop.legs \in Seq(Leg) /\ LegsPositive(hop.legs)
  BY <1>1, <1>4, HopFields
<1>6. /\ book' = [book EXCEPT !.balance = moved] /\ CanPay(book, Router, trip.token, amount)
      /\ trip' = IF Len(hop.legs) > 1 THEN Onward(trip, hops, left, out)
                 ELSE Turned(trip, Tail(trip.hops), hop.token_out, out)
      /\ UNCHANGED <<cfg, call, oracleVars, rates>>
  BY <1>5 DEF SwapLeg, Onward, Turned, Shortened
<1>7. /\ amount \in Nat
      /\ trip.kind # "path" => amount = hop.legs[1].part
      /\ Len(hop.legs) = 1 => amount = trip.left
  BY <1>1, <1>3, LegInTyped
<1> HIDE DEF amount
<1>8. book.balance \in Balances /\ received \in Nat
  <2>1. VenueOutputs \subseteq Nat
    BY RouterAssumption
  <2> QED
    BY <1>2, <2>1, BookFields DEF BookInv
<1>9. book.balance[<<Router, trip.token>>] = trip.left
  BY <1>3, <1>4, <1>5 DEF Carries
<1>10. amount <= trip.left
  BY <1>4, <1>6, <1>7, <1>9 DEF CanPay
<1>11. Swapped(moved, book.balance, trip.token, hop.token_out, amount, received)
  <2>1. amount <= book.balance[<<Router, trip.token>>]
    BY <1>9, <1>10
  <2> HIDE DEF hop
  <2> QED
    BY <1>4, <1>5, <1>7, <1>8, <2>1, LegSwaps
<1> HIDE DEF moved
<1>12. PICK p : p = [book EXCEPT !.balance = moved]
  OBVIOUS
<1>13. BookInv(p) /\ Sensible(p) /\ p.balance = moved /\ p.orders = book.orders
  <2>1. moved \in Balances
    BY <1>11 DEF Swapped
  <2>2. \A t \in Tokens : moved[<<Book, t>>] = book.balance[<<Book, t>>]
    BY <1>11, Apart DEF Swapped
  <2> QED
    BY <1>2, <1>12, <2>1, <2>2, RebalanceKeepsBook
<1>14. Swapped(p.balance, book.balance, trip.token, trip.hops[1].token_out, amount, received)
  BY <1>11, <1>13
<1>15. PICK k : k = trip'
  OBVIOUS
<1>16. CASE Len(hop.legs) > 1
  <2>1. k = Onward(trip, hops, left, out)
    BY <1>6, <1>15, <1>16
  <2> HIDE DEF hops, left, out
  <2>2. hops = Shortened(trip.hops) /\ left = trip.left - amount /\ out = trip.out + received
    BY DEF hops, left, out
  <2>3. Travelling(k, p, Owes)
    BY <1>1, <1>2, <1>7, <1>8, <1>10, <1>13, <1>14, <1>16, <2>1, <2>2, LegGoesOn
  <2> QED
    BY <1>2, <1>6, <1>12, <1>13, <1>15, <2>3, TripMoves
<1>17. CASE ~(Len(hop.legs) > 1)
  <2>1. k = Turned(trip, Tail(trip.hops), trip.hops[1].token_out, out)
    BY <1>6, <1>15, <1>17
  <2>2. amount = trip.left
    <3>1. Len(hop.legs) = 1
      <4>1. Len(hop.legs) \in Nat /\ Len(hop.legs) > 0
        <5> HIDE DEF hop
        <5>1. Len(hop.legs) > 0
          BY <1>5, Zenon DEF LegsPositive
        <5>2. Len(hop.legs) \in Nat
          BY <1>5
        <5> QED
          BY <5>1, <5>2
      <4>2. PICK m : m = Len(hop.legs)
        OBVIOUS
      <4>3. m \in Nat /\ m > 0 /\ ~(m > 1)
        BY <1>17, <4>1, <4>2, Zenon
      <4>4. m = 1
        BY <4>3
      <4> QED
        BY <4>2, <4>4
    <3> QED
      BY <1>7, <3>1
  <2>3. Swapped(p.balance, book.balance, trip.token, trip.hops[1].token_out, trip.left,
                received)
    BY <1>14, <2>2
  <2> HIDE DEF out
  <2>4. out = trip.out + received
    BY DEF out
  <2>5. Travelling(k, p, Owes)
    BY <1>1, <1>2, <1>8, <1>13, <2>1, <2>3, <2>4, LegEnds
  <2> QED
    BY <1>2, <1>6, <1>12, <1>13, <1>15, <2>5, TripMoves
<1> QED
  BY <1>16, <1>17

-----------------------------------------------------------------------------
(* A trip ends                                                              *)

Fees == RouterFee(trip.carry) + SurplusFee(trip.carry, trip.estimated_out)
Shared == PartnerFee(trip.carry, trip.partner_fee)
Net == trip.carry - Fees - Shared

LEMMA RatesTyped ==
  ASSUME rates \in Rates
  PROVE  /\ rates.fee \in Nat /\ rates.share \in Nat
         /\ rates.fee <= MAX_FEE_PER_100K /\ rates.share <= MAX_SURPLUS_SHARE_BPS
         /\ MAX_FEE_PER_100K \in Nat /\ MAX_SURPLUS_SHARE_BPS \in Nat
         /\ FEE_DENOMINATOR \in Nat /\ FEE_DENOMINATOR > 0 /\ rates.fee < FEE_DENOMINATOR
         /\ BPS_DENOMINATOR \in Nat /\ BPS_DENOMINATOR > 0
<1>1. MAX_FEE_PER_100K \in Nat /\ MAX_SURPLUS_SHARE_BPS \in Nat
  BY RouterAssumption
<1>2. MAX_FEE_PER_100K < FEE_DENOMINATOR /\ FEE_DENOMINATOR \in Nat
  BY RouterAssumption, BookAssumption
<1>3. BPS_DENOMINATOR \in Nat \ {0}
  BY OracleAssumption
<1>4. rates.fee \in 0..MAX_FEE_PER_100K /\ rates.share \in 0..MAX_SURPLUS_SHARE_BPS
  BY DEF Rates
<1> QED
  BY <1>1, <1>2, <1>3, <1>4

LEMMA FeesTyped ==
  ASSUME rates \in Rates, TripOK(trip)
  PROVE  /\ Fees \in Nat /\ Shared \in Nat
         /\ trip.partner_fee = 0 => Shared = 0
         /\ trip.kind = "timer" => Net >= 0
<1>1. /\ trip.carry \in Nat /\ trip.partner_fee \in Nat /\ trip.estimated_out \in Int
  BY TripFields DEF TripOK
<1>2. /\ rates.fee \in Nat /\ rates.share \in Nat /\ rates.fee < FEE_DENOMINATOR
      /\ FEE_DENOMINATOR \in Nat /\ FEE_DENOMINATOR > 0
      /\ BPS_DENOMINATOR \in Nat /\ BPS_DENOMINATOR > 0
  BY RatesTyped
<1>3. RouterFee(trip.carry) \in 0..trip.carry
  BY <1>1, <1>2, FeeBounds DEF RouterFee
<1>4. SurplusFee(trip.carry, trip.estimated_out) \in Nat
  <2>1. CASE trip.estimated_out <= 0 \/ trip.carry <= trip.estimated_out
    BY <2>1 DEF SurplusFee
  <2>2. CASE ~(trip.estimated_out <= 0 \/ trip.carry <= trip.estimated_out)
    <3> DEFINE above == trip.carry - trip.estimated_out
    <3>1. above \in Nat
      BY <1>1, <2>2
    <3> HIDE DEF above
    <3>2. MulDivFloor(above, rates.share, BPS_DENOMINATOR) \in Nat
      BY <1>2, <3>1, FloorBounds
    <3> QED
      BY <2>2, <3>2 DEF SurplusFee, above
  <2> QED
    BY <2>1, <2>2
<1>5. Fees \in Nat
  BY <1>3, <1>4 DEF Fees
<1>6. Shared \in Nat
  BY <1>1, <1>2, CeilBounds DEF Shared, PartnerFee
<1>7. ASSUME trip.partner_fee = 0 PROVE Shared = 0
  <2>1. MulDivCeil(trip.carry, 0, FEE_DENOMINATOR) <= 0
          <=> trip.carry * 0 <= FEE_DENOMINATOR * 0
    <3>1. 0 \in Nat /\ 0 \in Int
      OBVIOUS
    <3> QED
      BY <1>1, <1>2, <3>1, CeilAdjunction
  <2>2. trip.carry * 0 <= FEE_DENOMINATOR * 0
    BY <1>1, <1>2
  <2>3. Shared <= 0
    BY <1>7, <2>1, <2>2 DEF Shared, PartnerFee
  <2> QED
    BY <1>6, <2>3
<1>8. ASSUME trip.kind = "timer" PROVE Net >= 0
  <2>1. trip.partner_fee = 0 /\ trip.estimated_out = 0
    BY <1>8 DEF TripOK
  <2>2. SurplusFee(trip.carry, trip.estimated_out) = 0
    BY <2>1 DEF SurplusFee
  <2>3. Shared = 0
    BY <1>7, <2>1
  <2> QED
    BY <1>1, <1>3, <2>2, <2>3 DEF Net, Fees
<1> QED
  BY <1>5, <1>6, <1>7, <1>8

(* What an account is paid when a trip settles.                             *)
Share(a, to, net, partner, shared) ==
  (IF a = to THEN net ELSE 0) + (IF shared > 0 /\ a = partner THEN shared ELSE 0)

Settled(moved, balance, token, to, net, partner, shared) ==
  /\ moved \in Balances
  /\ \A t \in Tokens : moved[<<Book, t>>] = balance[<<Book, t>>]
  /\ \A t \in Tokens : moved[<<Router, t>>] = IF t = token THEN 0 ELSE balance[<<Router, t>>]
  /\ \A a \in Accounts, t \in Tokens :
       moved[<<a, t>>] = balance[<<a, t>>]
                         + (IF t = token THEN Share(a, to, net, partner, shared) ELSE 0)

LEMMA SettleMoves ==
  ASSUME NEW balance \in Balances, NEW token \in Tokens, NEW to \in Accounts,
         NEW net \in Nat, NEW fees \in Nat, NEW shared \in Nat, NEW partner,
         partner \in Accounts \/ shared = 0,
         balance[<<Router, token>>] = net + fees + shared,
         NEW first, first = Transfer(balance, token, Router, to, net),
         NEW paid, paid = Transfer(first, token, Router, Vault, fees),
         NEW moved, moved = IF shared > 0 THEN Transfer(paid, token, Router, partner, shared)
                            ELSE paid
  PROVE  Settled(moved, balance, token, to, net, partner, shared)
<1>1. /\ Router # Book /\ Router # Vault /\ Book # Vault
      /\ Router \in Holders /\ Vault \in Holders /\ Book \in Holders
      /\ \A a \in Accounts : a \in Holders /\ a # Router /\ a # Vault /\ a # Book
  BY Apart
<1>2. \A h \in Holders, t \in Tokens : balance[<<h, t>>] \in Nat
  BY DEF Balances
<1>3. Shifted(first, balance, token, Router, to, net)
  <2>1. net <= balance[<<Router, token>>]
    OBVIOUS
  <2> QED
    BY <1>1, <2>1, TransferShifts
<1>4. first \in Balances /\ first[<<Router, token>>] = fees + shared
  BY <1>1, <1>3 DEF Shifted
<1>5. Shifted(paid, first, token, Router, Vault, fees)
  <2>1. fees <= first[<<Router, token>>]
    BY <1>4
  <2> QED
    BY <1>1, <1>4, <2>1, TransferShifts
<1>6. paid \in Balances /\ paid[<<Router, token>>] = shared
  BY <1>1, <1>4, <1>5 DEF Shifted
<1>7. /\ \A t \in Tokens : paid[<<Book, t>>] = balance[<<Book, t>>]
      /\ \A t \in Tokens \ {token} : paid[<<Router, t>>] = balance[<<Router, t>>]
  BY <1>1, <1>3, <1>5 DEF Shifted
<1>8. ASSUME NEW a \in Accounts, NEW t \in Tokens
      PROVE  paid[<<a, t>>] = balance[<<a, t>>] + (IF t = token /\ a = to THEN net ELSE 0)
  <2>1. /\ a \in Holders /\ a # Router /\ a # Vault /\ balance[<<a, t>>] \in Nat
    BY <1>1, <1>2
  <2>2. paid[<<a, t>>] = first[<<a, t>>]
    BY <2>1, <1>5 DEF Shifted
  <2>3. first[<<a, t>>] = IF t = token /\ a = to THEN balance[<<a, t>>] + net
                          ELSE balance[<<a, t>>]
    BY <2>1, <1>3 DEF Shifted
  <2> QED
    BY <2>1, <2>2, <2>3
<1>9. CASE shared = 0
  <2>1. moved = paid
    BY <1>9
  <2>2. \A a : Share(a, to, net, partner, shared) = IF a = to THEN net ELSE 0
    BY <1>9 DEF Share
  <2>3. ASSUME NEW a \in Accounts, NEW t \in Tokens
        PROVE  moved[<<a, t>>] = balance[<<a, t>>]
                 + (IF t = token THEN Share(a, to, net, partner, shared) ELSE 0)
    BY <1>8, <2>1, <2>2
  <2>4. \A t \in Tokens : moved[<<Router, t>>] = IF t = token THEN 0
                                                 ELSE balance[<<Router, t>>]
    BY <1>6, <1>7, <1>9, <2>1
  <2> QED
    BY <1>6, <1>7, <2>1, <2>3, <2>4 DEF Settled
<1>10. CASE shared # 0
  <2>1. moved = Transfer(paid, token, Router, partner, shared) /\ partner \in Accounts
    BY <1>10
  <2>2. Shifted(moved, paid, token, Router, partner, shared)
    <3>1. shared <= paid[<<Router, token>>]
      BY <1>6
    <3> QED
      BY <1>1, <1>6, <2>1, <3>1, TransferShifts
  <2>3. /\ moved \in Balances
        /\ \A t \in Tokens : moved[<<Book, t>>] = balance[<<Book, t>>]
    BY <1>1, <1>7, <2>1, <2>2 DEF Shifted
  <2>4. \A t \in Tokens : moved[<<Router, t>>] = IF t = token THEN 0
                                                 ELSE balance[<<Router, t>>]
    BY <1>1, <1>6, <1>7, <2>2 DEF Shifted
  <2>5. ASSUME NEW a \in Accounts, NEW t \in Tokens
        PROVE  moved[<<a, t>>] = balance[<<a, t>>]
                 + (IF t = token THEN Share(a, to, net, partner, shared) ELSE 0)
    <3>1. a \in Holders /\ a # Router /\ balance[<<a, t>>] \in Nat
      BY <1>1, <1>2
    <3>2. moved[<<a, t>>] = IF t = token /\ a = partner THEN paid[<<a, t>>] + shared
                            ELSE paid[<<a, t>>]
      BY <2>2, <3>1 DEF Shifted
    <3>3. paid[<<a, t>>] = balance[<<a, t>>] + (IF t = token /\ a = to THEN net ELSE 0)
      BY <1>8
    <3>4. Share(a, to, net, partner, shared)
            = (IF a = to THEN net ELSE 0) + (IF a = partner THEN shared ELSE 0)
      BY <1>10 DEF Share
    <3>5. CASE t = token
      BY <3>1, <3>2, <3>3, <3>4, <3>5
    <3>6. CASE t # token
      BY <3>1, <3>2, <3>3, <3>6
    <3> QED
      BY <3>5, <3>6
  <2> QED
    BY <2>3, <2>4, <2>5 DEF Settled
<1> QED
  BY <1>9, <1>10

LEMMA SettleEffect ==
  ASSUME RouterInv, Settle
  PROVE  /\ Idle /\ ~Resting /\ trip' = None /\ TripOK(trip) /\ trip.hops = <<>>
         /\ BookInv(book') /\ Sensible(book') /\ book'.orders = book.orders
         /\ Fees \in Nat /\ Shared \in Nat /\ Net \in Nat /\ Net >= trip.min_amount_out
         /\ Settled(book'.balance, book.balance, trip.token, trip.to, Net,
                    trip.partner, Shared)
         /\ UNCHANGED <<cfg, call, oracleVars, rates>>
<1> DEFINE first == Transfer(book.balance, trip.token, Router, trip.to, Net)
           paid == Transfer(first, trip.token, Router, Vault, Fees)
           moved == IF Shared > 0
                    THEN Transfer(paid, trip.token, Router, trip.partner, Shared) ELSE paid
<1>1. /\ ~Resting /\ trip.hops = <<>> /\ trip' = None
      /\ MeetsFloor(trip.carry, Fees, Shared)
      /\ book' = [book EXCEPT !.balance = moved]
      /\ UNCHANGED <<cfg, call, oracleVars, rates>>
  BY DEF Settle, Fees, Shared, Net
<1>2. /\ Idle /\ BookInv(book) /\ Sensible(book) /\ TripOK(trip) /\ Carries(trip, book)
      /\ rates \in Rates
  BY <1>1 DEF RouterInv, Inv, CallInv, Travelling
<1>3. /\ trip.token \in Tokens /\ trip.to \in Accounts /\ trip.carry \in Nat
      /\ trip.min_amount_out \in Int /\ trip.left = trip.carry
  BY <1>1, <1>2, TripFields DEF TripOK
<1>4. Fees \in Nat /\ Shared \in Nat
  BY <1>2, FeesTyped
<1>5. Net >= trip.min_amount_out /\ trip.carry = Net + Fees + Shared /\ Net \in Int
  BY <1>1, <1>3, <1>4 DEF MeetsFloor, Net
<1>6. Net \in Nat
  <2>1. CASE trip.kind = "timer"
    BY <1>2, <1>5, <2>1, FeesTyped
  <2>2. CASE trip.kind # "timer"
    <3>1. trip.min_amount_out >= 0
      BY <1>2, <2>2 DEF TripOK
    <3> QED
      BY <1>3, <1>5, <3>1
  <2> QED
    BY <2>1, <2>2
<1>7. book.balance[<<Router, trip.token>>] = Net + Fees + Shared
  BY <1>1, <1>2, <1>3, <1>5 DEF Carries
<1>8. trip.partner \in Accounts \/ Shared = 0
  BY <1>2, FeesTyped DEF TripOK
<1>9. book.balance \in Balances
  BY <1>2, BookFields DEF BookInv
<1>10. Settled(moved, book.balance, trip.token, trip.to, Net, trip.partner, Shared)
  <2> HIDE DEF Net, Fees, Shared
  <2>1. PICK f : f = first
    OBVIOUS
  <2>2. PICK g : g = Transfer(f, trip.token, Router, Vault, Fees)
    OBVIOUS
  <2>3. PICK m : m = IF Shared > 0
                     THEN Transfer(g, trip.token, Router, trip.partner, Shared) ELSE g
    OBVIOUS
  <2>4. Settled(m, book.balance, trip.token, trip.to, Net, trip.partner, Shared)
    BY <1>3, <1>4, <1>6, <1>7, <1>8, <1>9, <2>1, <2>2, <2>3, SettleMoves
  <2>5. m = moved
    BY <2>1, <2>2, <2>3
  <2> QED
    BY <2>4, <2>5
<1> HIDE DEF moved
<1>11. PICK p : p = [book EXCEPT !.balance = moved]
  OBVIOUS
<1>12. BookInv(p) /\ Sensible(p) /\ p.balance = moved /\ p.orders = book.orders
  <2>1. moved \in Balances /\ \A t \in Tokens : moved[<<Book, t>>] = book.balance[<<Book, t>>]
    BY <1>10 DEF Settled
  <2> QED
    BY <1>2, <1>11, <2>1, RebalanceKeepsBook
<1>13. book' = p
  BY <1>1, <1>11
<1> QED
  BY <1>1, <1>2, <1>4, <1>5, <1>6, <1>10, <1>12, <1>13

LEMMA SettleInv ==
  ASSUME RouterInv, Settle
  PROVE  RouterInv'
<1>1. /\ Idle /\ ~Resting /\ trip' = None /\ trip.hops = <<>>
      /\ BookInv(book') /\ Sensible(book')
      /\ Settled(book'.balance, book.balance, trip.token, trip.to, Net, trip.partner, Shared)
      /\ UNCHANGED <<cfg, call, oracleVars, rates>>
  BY SettleEffect
<1>2. Carries(trip, book)
  BY <1>1 DEF RouterInv, Travelling
<1>3. \A t \in Tokens : t # trip.token => book.balance[<<Router, t>>] = 0
  BY <1>1, <1>2 DEF Carries
<1>4. Empty(book')
  BY <1>1, <1>3 DEF Empty, Settled
<1> QED
  BY <1>1, <1>4, RestStep

LEMMA FailInv ==
  ASSUME RouterInv, Fail
  PROVE  RouterInv'
<1>1. /\ ~Resting /\ book' = trip.saved /\ trip' = None
      /\ UNCHANGED <<cfg, call, oracleVars, rates>>
  BY DEF Fail
<1>2. Idle /\ BookInv(trip.saved) /\ Sensible(trip.saved) /\ Empty(trip.saved)
  BY <1>1 DEF RouterInv, Travelling, Underfoot
<1> QED
  BY <1>1, <1>2, RestStep

-----------------------------------------------------------------------------
(* The inductive invariant                                                  *)

LEMMA RouterAdminInv ==
  ASSUME RouterInv,
         \/ \E venue \in Venues : RegisterVenue(venue) \/ RemoveVenue(venue)
         \/ \E rate \in RouterFees : SetRouterFee(rate)
         \/ \E share \in SurplusShares : SetSurplusShare(share)
  PROVE  RouterInv'
<1>1. /\ Resting /\ Resting' /\ UNCHANGED <<book, cfg, call, oracleVars>>
  BY DEF RegisterVenue, RemoveVenue, SetRouterFee, SetSurplusShare, vars, bookVars, Resting
<1>2. rates' \in Rates
  <2>1. rates \in Rates
    BY DEF RouterInv
  <2>2. ASSUME NEW rate, SetRouterFee(rate) PROVE rates' \in Rates
    BY <2>1, <2>2 DEF SetRouterFee, Rates
  <2>3. ASSUME NEW share, SetSurplusShare(share) PROVE rates' \in Rates
    BY <2>1, <2>3 DEF SetSurplusShare, Rates
  <2>4. ASSUME NEW venue, RegisterVenue(venue) \/ RemoveVenue(venue) PROVE rates' \in Rates
    BY <2>1, <2>4 DEF RegisterVenue, RemoveVenue
  <2> QED
    BY <2>2, <2>3, <2>4
<1>3. Inv' /\ CallInv'
  <2>1. UNCHANGED vars
    BY <1>1 DEF vars, bookVars
  <2> QED
    BY <2>1, NextInv, NextCall DEF RouterInv
<1>4. Unused'
  BY <1>1 DEF RouterInv, Unused, Empty
<1> QED
  BY <1>1, <1>2, <1>3, <1>4 DEF RouterInv

LEMMA BookCallInv ==
  ASSUME RouterInv, BookCall
  PROVE  RouterInv'
<1>1. /\ Resting /\ Next /\ ~\E id \in OrderIds(book) : ClaimExpiredTimer(id)
      /\ trip' = trip /\ rates' = rates
  BY DEF BookCall, routerVars
<1>2. Inv /\ CallInv /\ Unused
  BY <1>1 DEF RouterInv
<1>3. Inv' /\ CallInv'
  BY <1>1, <1>2, NextInv, NextCall
<1>4. Unused'
  BY <1>1, <1>2, BookCallAside
<1> QED
  BY <1>1, <1>3, <1>4 DEF RouterInv, Resting

LEMMA RouterInitInv ==
  ASSUME RouterInit
  PROVE  RouterInv
<1>1. Init /\ trip = None
      /\ rates = [fee |-> DEFAULT_FEE_PER_100K, share |-> DEFAULT_SURPLUS_SHARE_BPS]
  BY DEF RouterInit
<1>2. book.orders = <<>> /\ call = None /\ book.balance = Funds
  BY <1>1 DEF Init
<1>3. Inv /\ CallInv
  <2>1. Inv
    BY <1>1, InitInv
  <2>2. OrderIds(book) = {}
    BY <1>2 DEF OrderIds
  <2>3. Sensible(book)
    BY <2>2 DEF Sensible
  <2> QED
    BY <1>2, <2>1, <2>3 DEF CallInv
<1>4. rates \in Rates
  <2>1. /\ DEFAULT_FEE_PER_100K \in 0..MAX_FEE_PER_100K
        /\ DEFAULT_SURPLUS_SHARE_BPS \in 0..MAX_SURPLUS_SHARE_BPS
    BY RouterAssumption
  <2> QED
    BY <1>1, <2>1 DEF Rates
<1>5. Unused
  <2>1. \A t \in Tokens : Funds[<<Router, t>>] = 0
    BY RouterAssumption
  <2> QED
    BY <1>2, <2>1 DEF Unused, Empty
<1> QED
  BY <1>1, <1>3, <1>4, <1>5 DEF RouterInv, Resting

LEMMA RouterStutterInv ==
  ASSUME RouterInv, UNCHANGED allVars
  PROVE  RouterInv'
<1>1. UNCHANGED vars /\ UNCHANGED <<book, cfg, call, oracleVars, rates, trip>>
  BY DEF allVars, routerVars, vars, bookVars
<1>2. Inv' /\ CallInv'
  BY <1>1, NextInv, NextCall DEF RouterInv
<1>3. Owes' = Owes
  BY <1>1, OwesStay
<1>4. CASE Resting
  <2>1. Unused'
    BY <1>1, <1>4 DEF RouterInv, Unused, Empty
  <2> QED
    BY <1>1, <1>2, <1>4, <2>1 DEF RouterInv, Resting
<1>5. CASE ~Resting
  <2>1. Idle /\ Travelling(trip, book, Owes)
    BY <1>5 DEF RouterInv
  <2>2. Idle' /\ Travelling(trip', book', Owes') /\ ~Resting'
    BY <1>1, <1>3, <1>5, <2>1 DEF Idle, Resting
  <2> QED
    BY <1>1, <1>2, <2>2 DEF RouterInv
<1> QED
  BY <1>4, <1>5

LEMMA RouterNextInv ==
  ASSUME RouterInv, [RouterNext]_allVars
  PROVE  RouterInv'
<1>1. ASSUME NEW user \in Accounts, NEW p \in Paths, ExecutePath(user, p)
      PROVE  RouterInv'
  BY <1>1, ExecutePathInv
<1>2. ASSUME NEW user \in Accounts, NEW o \in Orders,
             \/ ExecuteRoute(user, o)
             \/ \E partner \in Accounts, fee \in PartnerFees :
                  ExecuteRoutePartner(user, o, partner, fee)
             \/ \E venue \in Venues : SwapOne(user, o, venue)
      PROVE  RouterInv'
  BY <1>2, UserRouteInv
<1>3. ASSUME NEW id \in OrderIds(book), NEW legs \in Segments, RouteExpiredOrder(id, legs)
      PROVE  RouterInv'
  BY <1>3, RouteExpiredOrderInv
<1>4. ASSUME NEW received \in VenueOutputs, SwapLeg(received)
      PROVE  RouterInv'
  BY <1>4, SwapLegInv
<1>5. CASE Settle
  BY <1>5, SettleInv
<1>6. CASE Fail
  BY <1>6, FailInv
<1>7. CASE \/ \E venue \in Venues : RegisterVenue(venue) \/ RemoveVenue(venue)
           \/ \E rate \in RouterFees : SetRouterFee(rate)
           \/ \E share \in SurplusShares : SetSurplusShare(share)
  BY <1>7, RouterAdminInv
<1>8. CASE BookCall
  BY <1>8, BookCallInv
<1>9. CASE UNCHANGED allVars
  BY <1>9, RouterStutterInv
<1> QED
  BY <1>1, <1>2, <1>3, <1>4, <1>5, <1>6, <1>7, <1>8, <1>9 DEF RouterNext

LEMMA RouterSpecInv == RouterSpec => []RouterInv
<1>1. RouterInit => RouterInv
  BY RouterInitInv
<1>2. RouterInv /\ [RouterNext]_allVars => RouterInv'
  BY RouterNextInv
<1> QED
  BY <1>1, <1>2, PTL DEF RouterSpec

-----------------------------------------------------------------------------
(* What a trip that ends has done                                           *)

LEMMA TripEnds ==
  ASSUME RouterInv, [RouterNext]_allVars, Ends
  PROVE  Settle \/ Fail
<1>1. ~Resting /\ Resting'
  BY DEF Ends
<1>2. ~ UNCHANGED allVars
  BY <1>1 DEF allVars, routerVars, Resting
<1>3. ASSUME NEW received \in VenueOutputs, SwapLeg(received)
      PROVE  FALSE
  BY <1>1, <1>3, SwapLegInv
<1>4. /\ \A user, p : ~ExecutePath(user, p)
      /\ \A user, o, partner, fee : ~RouteInner(user, o, partner, fee)
      /\ \A id, legs : ~RouteExpiredOrder(id, legs)
      /\ \A venue : ~RegisterVenue(venue) /\ ~RemoveVenue(venue)
      /\ \A rate : ~SetRouterFee(rate)
      /\ \A share : ~SetSurplusShare(share)
      /\ ~BookCall
  BY <1>1 DEF ExecutePath, RouteInner, RouteExpiredOrder, RegisterVenue, RemoveVenue,
              SetRouterFee, SetSurplusShare, BookCall
<1>5. /\ \A user, o : ~ExecuteRoute(user, o)
      /\ \A user, o, partner, fee : ~ExecuteRoutePartner(user, o, partner, fee)
      /\ \A user, o, venue : ~SwapOne(user, o, venue)
  BY <1>4 DEF ExecuteRoute, ExecuteRoutePartner, SwapOne
<1> QED
  BY <1>2, <1>3, <1>4, <1>5 DEF RouterNext

LEMMA Gained ==
  ASSUME RouterInv, Settle, NEW a \in Accounts, NEW t \in Tokens
  PROVE  /\ Paid(trip, a, t) \in Nat
         /\ Share(a, trip.to, Net, trip.partner, Shared) \in Nat
         /\ TripGain(a, t) =
              (IF t = trip.token THEN Share(a, trip.to, Net, trip.partner, Shared) ELSE 0)
              - Paid(trip, a, t)
<1>1. /\ ~Resting /\ TripOK(trip) /\ BookInv(book) /\ Net \in Nat /\ Shared \in Nat
      /\ Settled(book'.balance, book.balance, trip.token, trip.to, Net, trip.partner, Shared)
  BY SettleEffect DEF RouterInv, Inv
<1>2. Untouched(trip, book) /\ BookInv(trip.saved)
  BY <1>1 DEF RouterInv, Travelling, Underfoot
<1> DEFINE was == trip.saved.balance[<<a, t>>]
           mid == book.balance[<<a, t>>]
           now == book'.balance[<<a, t>>]
           share == Share(a, trip.to, Net, trip.partner, Shared)
           paid == Paid(trip, a, t)
<1>3. paid \in Nat
  BY <1>1, TripFields DEF Paid, TripOK
<1>4. share \in Nat
  BY <1>1 DEF Share
<1>5. now = mid + (IF t = trip.token THEN share ELSE 0)
  BY <1>1 DEF Settled
<1>6. mid = was - paid
  BY <1>2 DEF Untouched
<1>7. was \in Nat
  BY <1>2, HoldingTyped
<1>8. TripGain(a, t) = now - was
  BY DEF TripGain
<1> HIDE DEF was, mid, now, share, paid
<1>9. TripGain(a, t) = (IF t = trip.token THEN share ELSE 0) - paid
  BY <1>3, <1>4, <1>5, <1>6, <1>7, <1>8
<1> QED
  BY <1>3, <1>4, <1>9 DEF share, paid

LEMMA SettleReturns ==
  ASSUME RouterInv, Settle
  PROVE  /\ Returned = Share(trip.to, trip.to, Net, trip.partner, Shared)
         /\ Returned \in Nat /\ Returned >= Net
<1>1. TripOK(trip) /\ Net \in Nat /\ Shared \in Nat
  BY SettleEffect
<1>2. trip.to \in Accounts /\ trip.token \in Tokens /\ trip.amount_in \in Nat
  BY <1>1, TripFields DEF TripOK
<1> DEFINE share == Share(trip.to, trip.to, Net, trip.partner, Shared)
           paid == Paid(trip, trip.to, trip.token)
<1>3. share \in Nat /\ paid \in Nat /\ TripGain(trip.to, trip.token) = share - paid
  BY <1>2, Gained
<1>4. share >= Net
  BY <1>1 DEF Share
<1>5. paid = IF trip.kind # "timer" /\ trip.token = trip.token_in THEN trip.amount_in ELSE 0
  BY DEF Paid
<1>6. Returned = TripGain(trip.to, trip.token) + paid
  BY <1>5 DEF Returned
<1> HIDE DEF share, paid
<1>7. Returned = share
  BY <1>3, <1>6
<1> QED
  BY <1>3, <1>4, <1>7 DEF share

LEMMA SettleExchanges ==
  ASSUME RouterInv, Settle
  PROVE  Exchanged
<1>1. /\ TripOK(trip) /\ Net \in Nat /\ Shared \in Nat /\ Net >= trip.min_amount_out
  BY SettleEffect
<1>2. /\ trip.to \in Accounts /\ trip.token \in Tokens /\ trip.token_in \in Tokens
      /\ trip.amount_in \in Nat /\ trip.min_amount_out \in Int
  BY <1>1, TripFields DEF TripOK
<1>3. Returned >= trip.min_amount_out
  BY <1>1, <1>2, SettleReturns
<1>4. ASSUME trip.kind # "timer", trip.token # trip.token_in
      PROVE  TripGain(trip.to, trip.token_in) = -trip.amount_in
  <2>1. TripGain(trip.to, trip.token_in) = 0 - Paid(trip, trip.to, trip.token_in)
    BY <1>2, <1>4, Gained
  <2>2. Paid(trip, trip.to, trip.token_in) = trip.amount_in
    BY <1>4 DEF Paid
  <2> QED
    BY <1>2, <2>1, <2>2
<1>5. ASSUME NEW holder \in Accounts \ {trip.to}, NEW t \in Tokens
      PROVE  TripGain(holder, t) = 0 \/ (TripGain(holder, t) > 0 /\ holder = trip.partner)
  <2>1. Paid(trip, holder, t) = 0
    BY <1>5 DEF Paid
  <2>2. Share(holder, trip.to, Net, trip.partner, Shared)
          = IF Shared > 0 /\ holder = trip.partner THEN Shared ELSE 0
    BY <1>1, <1>5 DEF Share
  <2>3. TripGain(holder, t) =
          (IF t = trip.token THEN Share(holder, trip.to, Net, trip.partner, Shared) ELSE 0)
          - Paid(trip, holder, t)
    BY <1>5, Gained
  <2> QED
    BY <1>1, <2>1, <2>2, <2>3
<1> QED
  BY <1>3, <1>4, <1>5 DEF Exchanged

LEMMA TripsStep ==
  ASSUME RouterInv, [RouterNext]_allVars, Ends
  PROVE  Exchanged \/ book' = trip.saved
<1>1. CASE Settle
  BY <1>1, SettleExchanges
<1>2. CASE Fail
  BY <1>2 DEF Fail
<1> QED
  BY <1>1, <1>2, TripEnds

-----------------------------------------------------------------------------
(* Positive slippage                                                        *)

(* The flat fee and the surplus share together never take more of what is   *)
(* above the estimate than there is.                                        *)
LEMMA FeesOfSurplus ==
  ASSUME NEW d \in Nat, NEW f \in Nat, NEW s \in Nat,
         NEW D \in Nat, D > 0, NEW B \in Nat, B > 0,
         s * D + f * B <= B * D
  PROVE  MulDivCeil(d, f, D) + MulDivFloor(d, s, B) <= d
<1> DEFINE q == MulDivFloor(d, s, B)
<1>1. q \in Nat /\ B * q <= d * s
  BY FloorBounds
<1> HIDE DEF q
<1>2. D * (B * q) <= D * (d * s)
  <2>1. B * q \in Int /\ d * s \in Int
    BY <1>1
  <2> QED
    BY <1>1, <2>1, ProductMonotone
<1>3. d * (s * D + f * B) <= d * (B * D)
  <2>1. s * D + f * B \in Int /\ B * D \in Int
    OBVIOUS
  <2> QED
    BY <2>1, ProductMonotone
<1>4. D * (B * q) = B * (D * q) /\ D * (d * s) = d * (s * D)
  BY <1>1
<1>5. d * (s * D + f * B) = d * (s * D) + B * (d * f) /\ d * (B * D) = B * (d * D)
  OBVIOUS
<1>6. B * (D * q) + B * (d * f) <= B * (d * D)
  <2>1. /\ B * (D * q) \in Int /\ d * (s * D) \in Int /\ B * (d * f) \in Int
        /\ B * (d * D) \in Int
    BY <1>1
  <2> QED
    BY <1>2, <1>3, <1>4, <1>5, <2>1
<1>7. D * q + d * f <= d * D
  <2> DEFINE x == D * q + d * f
             y == d * D
  <2>1. x \in Int /\ y \in Int
    BY <1>1
  <2>2. B * x = B * (D * q) + B * (d * f)
    BY <1>1
  <2>3. B * x <= B * y
    BY <1>6, <2>2
  <2> HIDE DEF x, y
  <2>4. B * y < B * y + B /\ B * x < B * y + B
    <3>1. B * x \in Int /\ B * y \in Int
      BY <2>1
    <3> QED
      BY <2>3, <3>1
  <2>5. x <= y
    BY <2>1, <2>4, Cancel
  <2> QED
    BY <2>5 DEF x, y
<1>8. d * f <= D * (d - q)
  <2>1. D * (d - q) = d * D - D * q
    BY <1>1
  <2>2. d * f \in Int /\ d * D \in Int /\ D * q \in Int
    BY <1>1
  <2> QED
    BY <1>7, <2>1, <2>2
<1>9. MulDivCeil(d, f, D) <= d - q
  <2>1. d - q \in Int
    BY <1>1
  <2> QED
    BY <1>8, <2>1, CeilAdjunction
<1>10. MulDivCeil(d, f, D) \in Nat
  BY CeilBounds
<1> QED
  BY <1>1, <1>9, <1>10 DEF q

LEMMA CeilAdds ==
  ASSUME NEW a \in Nat, NEW b \in Nat, NEW f \in Nat, NEW D \in Nat, D > 0
  PROVE  MulDivCeil(a + b, f, D) <= MulDivCeil(a, f, D) + MulDivCeil(b, f, D)
<1> DEFINE x == MulDivCeil(a, f, D)
           y == MulDivCeil(b, f, D)
<1>1. x \in Nat /\ a * f <= D * x
  BY CeilBounds
<1>2. y \in Nat /\ b * f <= D * y
  BY CeilBounds
<1> HIDE DEF x, y
<1>3. (a + b) * f = a * f + b * f /\ D * (x + y) = D * x + D * y
  BY <1>1, <1>2
<1>4. (a + b) * f <= D * (x + y)
  <2>1. a * f \in Int /\ b * f \in Int /\ D * x \in Int /\ D * y \in Int
    BY <1>1, <1>2
  <2> QED
    BY <1>1, <1>2, <1>3, <2>1
<1>5. MulDivCeil(a + b, f, D) <= x + y
  <2>1. a + b \in Nat /\ x + y \in Int
    BY <1>1, <1>2
  <2> QED
    BY <1>4, <2>1, CeilAdjunction
<1> QED
  BY <1>5 DEF x, y

(* What the fees take of an output above the estimate.                      *)
LEMMA FeesAbove ==
  ASSUME rates \in Rates, NEW est \in Nat, est > 0, NEW d \in Nat
  PROVE  RouterFee(est + d) + SurplusFee(est + d, est) <= RouterFee(est) + d
<1>1. /\ rates.fee \in Nat /\ rates.share \in Nat
      /\ rates.fee <= MAX_FEE_PER_100K /\ rates.share <= MAX_SURPLUS_SHARE_BPS
      /\ MAX_FEE_PER_100K \in Nat /\ MAX_SURPLUS_SHARE_BPS \in Nat
      /\ FEE_DENOMINATOR \in Nat /\ FEE_DENOMINATOR > 0
      /\ BPS_DENOMINATOR \in Nat /\ BPS_DENOMINATOR > 0
  BY RatesTyped
<1>2. MAX_SURPLUS_SHARE_BPS * FEE_DENOMINATOR + MAX_FEE_PER_100K * BPS_DENOMINATOR
        <= BPS_DENOMINATOR * FEE_DENOMINATOR
  BY RouterAssumption
<1>3. FEE_DENOMINATOR * rates.share <= FEE_DENOMINATOR * MAX_SURPLUS_SHARE_BPS
  BY <1>1, ProductMonotone
<1>4. BPS_DENOMINATOR * rates.fee <= BPS_DENOMINATOR * MAX_FEE_PER_100K
  BY <1>1, ProductMonotone
<1>5. rates.share * FEE_DENOMINATOR + rates.fee * BPS_DENOMINATOR
        <= BPS_DENOMINATOR * FEE_DENOMINATOR
  BY <1>1, <1>2, <1>3, <1>4
<1> DEFINE flat == MulDivCeil(d, rates.fee, FEE_DENOMINATOR)
           kept == MulDivFloor(d, rates.share, BPS_DENOMINATOR)
<1>6. flat + kept <= d
  BY <1>1, <1>5, FeesOfSurplus
<1>7. flat \in Nat /\ kept \in Nat
  BY <1>1, CeilBounds, FloorBounds
<1>8. RouterFee(est + d) <= RouterFee(est) + flat
  BY <1>1, CeilAdds DEF RouterFee, CalculateFee
<1>9. RouterFee(est) \in Nat /\ RouterFee(est + d) \in Nat
  <2>1. est + d \in Nat
    OBVIOUS
  <2> QED
    BY <1>1, <2>1, CeilBounds DEF RouterFee, CalculateFee
<1>10. SurplusFee(est + d, est) = IF d = 0 THEN 0 ELSE kept
  <2>1. est + d <= est <=> d = 0
    OBVIOUS
  <2>2. (est + d) - est = d /\ ~(est <= 0)
    OBVIOUS
  <2> QED
    BY <2>1, <2>2 DEF SurplusFee
<1> HIDE DEF flat, kept
<1> QED
  BY <1>6, <1>7, <1>8, <1>9, <1>10

LEMMA EstimateStep ==
  ASSUME RouterInv, [RouterNext]_allVars, Ends, book' # trip.saved,
         trip.estimated_out > 0, trip.partner_fee = 0, trip.carry >= trip.estimated_out
  PROVE  Returned >= trip.estimated_out - RouterFee(trip.estimated_out)
<1>1. Settle
  BY TripEnds DEF Fail
<1>2. TripOK(trip) /\ rates \in Rates
  BY <1>1, SettleEffect DEF RouterInv
<1>3. trip.carry \in Nat /\ trip.estimated_out \in Nat
  <2>1. trip.estimated_out \in Int /\ trip.carry \in Nat
    BY <1>2, TripFields DEF TripOK
  <2> QED
    BY <2>1
<1>4. Shared = 0 /\ Fees \in Nat
  BY <1>2, FeesTyped
<1>5. PICK d \in Nat : trip.carry = trip.estimated_out + d
  <2>1. trip.carry - trip.estimated_out \in Nat
    BY <1>3
  <2> QED
    BY <1>3, <2>1
<1>6. Fees <= RouterFee(trip.estimated_out) + d
  BY <1>2, <1>3, <1>5, FeesAbove DEF Fees
<1>7. Net = trip.carry - Fees - Shared
  BY DEF Net
<1>8. Returned >= Net /\ Returned \in Nat
  BY <1>1, SettleReturns
<1>9. RouterFee(trip.estimated_out) \in Nat
  BY <1>2, <1>3, RatesTyped, CeilBounds DEF RouterFee, CalculateFee
<1> QED
  BY <1>3, <1>4, <1>5, <1>6, <1>7, <1>8, <1>9

-----------------------------------------------------------------------------
(* Timers                                                                   *)

(* What a payment of at least the claimed floor amounts to.                 *)
LEMMA FloorSettles ==
  ASSUME OracleTypeOK, NEW o \in Order, Priced(o), NEW paid \in Nat,
         paid >= RequiredPayment(o, o.amount_in_remaining)
  PROVE  LET sold == o.amount_in_remaining
         IN IF o.price_mode = "Fixed"
            THEN paid * o.amount_in >= o.min_amount_out * sold
            ELSE LET price == ReadOracle(o.token_in, o.token_out)
                 IN (paid + 1) * price.den * BPS_DENOMINATOR
                      > sold * price.num * (BPS_DENOMINATOR - o.max_slippage_bps)
<1> DEFINE sold == o.amount_in_remaining
           price == ReadOracle(o.token_in, o.token_out)
<1>1. /\ sold \in Nat /\ o.token_in \in Tokens /\ o.token_out \in Tokens
      /\ o.amount_in \in Nat /\ o.min_amount_out \in Nat /\ o.max_slippage_bps \in Nat
      /\ o.price_mode \in Modes /\ o.amount_in > 0
  <2>1. /\ sold \in Nat /\ o.token_in \in Tokens /\ o.token_out \in Tokens
        /\ o.amount_in \in Nat \ {0} /\ o.min_amount_out \in Nat
        /\ o.max_slippage_bps \in Nat /\ o.price_mode \in Modes
    BY OrderFields
  <2> HIDE DEF sold
  <2> QED
    BY <2>1
<1>2. CASE o.price_mode = "Fixed"
  <2> DEFINE floor == MulDivCeil(o.min_amount_out, sold, o.amount_in)
  <2>1. paid >= floor
    BY <1>2 DEF RequiredPayment
  <2>2. floor \in Nat /\ o.min_amount_out * sold <= o.amount_in * floor
    BY <1>1, CeilBounds
  <2> HIDE DEF floor
  <2>3. o.amount_in * floor <= o.amount_in * paid
    BY <1>1, <2>1, <2>2, ProductMonotone
  <2>4. /\ o.min_amount_out * sold \in Int /\ o.amount_in * floor \in Int
        /\ o.amount_in * paid \in Int /\ o.amount_in * paid = paid * o.amount_in
    BY <1>1, <2>2
  <2> QED
    BY <1>2, <2>2, <2>3, <2>4
<1>3. CASE o.price_mode # "Fixed"
  <2>1. HasPrice(o.token_in, o.token_out)
    BY <1>1, <1>3 DEF Priced, Modes
  <2>2. price.num \in Nat /\ price.den \in Nat \ {0}
    BY <1>1, <2>1, PricePositive
  <2>3. paid >= MulDivCeil(MulDivFloor(sold, price.num, price.den),
                           BPS_DENOMINATOR - o.max_slippage_bps, BPS_DENOMINATOR)
    BY <1>3 DEF RequiredPayment
  <2>4. BPS_DENOMINATOR \in Nat \ {0}
    BY OracleAssumption
  <2> HIDE DEF price, sold
  <2>5. (paid + 1) * price.den * BPS_DENOMINATOR
          > sold * price.num * (BPS_DENOMINATOR - o.max_slippage_bps)
    BY <1>1, <2>2, <2>3, <2>4, PeggedFloor
  <2> QED
    BY <1>3, <2>5 DEF price, sold
<1> QED
  BY <1>2, <1>3

LEMMA TimersStep ==
  ASSUME RouterInv, [RouterNext]_allVars, Ends, trip.kind = "timer",
         NEW id \in OrderIds(trip.saved)
  PROVE  \/ book'.orders[id] = trip.saved.orders[id]
         \/ book'.orders[id].status = "Routed" /\ TimerSettled(trip.saved.orders[id])
<1>1. CASE Fail
  BY <1>1 DEF Fail
<1>2. CASE Settle
  <2>1. /\ ~Resting /\ TripOK(trip) /\ trip.hops = <<>> /\ book'.orders = book.orders
        /\ Net \in Nat /\ Shared \in Nat /\ Net >= trip.min_amount_out
    BY <1>2, SettleEffect
  <2>2. /\ OracleTypeOK /\ Claims(trip, book, Owes)
    BY <2>1 DEF RouterInv, Inv, Travelling
  <2>3. PICK it \in OrderIds(trip.saved) : Claimed(trip, book, Owes, it)
    BY <2>2 DEF Claims
  <2>4. /\ OrderIds(book) = OrderIds(trip.saved)
        /\ \A i \in OrderIds(book) \ {it} : book.orders[i] = trip.saved.orders[i]
        /\ book.orders[it].status = "Routed"
    BY <2>3 DEF Claimed
  <2>5. CASE id # it
    BY <2>1, <2>4, <2>5
  <2>6. CASE id = it
    <3>1. PICK o : o = trip.saved.orders[it]
      OBVIOUS
    <3>2. /\ trip.to = o.maker /\ o.token_out = trip.token
          /\ <<o, trip.min_amount_out>> \in Owes
      BY <2>1, <2>3, <3>1 DEF Claimed, Towards
    <3>3. PICK q \in Order : /\ Priced(q)
                             /\ <<o, trip.min_amount_out>>
                                  = <<q, RequiredPayment(q, q.amount_in_remaining)>>
      BY <3>2 DEF Owes
    <3>4. /\ o \in Order /\ Priced(o)
          /\ trip.min_amount_out = RequiredPayment(o, o.amount_in_remaining)
      BY <3>3
    <3>5. trip.to \in Accounts /\ trip.token \in Tokens /\ trip.min_amount_out \in Int
      BY <2>1, TripFields DEF TripOK
    <3> DEFINE paid == TripGain(o.maker, o.token_out)
    <3>6. paid \in Nat /\ paid >= Net
      <4>1. Returned = paid + 0
        BY <3>2 DEF Returned
      <4>2. /\ Share(trip.to, trip.to, Net, trip.partner, Shared) \in Nat
            /\ paid = Share(trip.to, trip.to, Net, trip.partner, Shared)
                      - Paid(trip, trip.to, trip.token)
        BY <1>2, <3>2, <3>5, Gained
      <4>3. Paid(trip, trip.to, trip.token) = 0
        BY DEF Paid
      <4>4. Share(trip.to, trip.to, Net, trip.partner, Shared) >= Net
        BY <2>1 DEF Share
      <4> HIDE DEF paid
      <4> QED
        BY <2>1, <4>2, <4>3, <4>4
    <3> HIDE DEF paid
    <3>7. paid >= RequiredPayment(o, o.amount_in_remaining)
      BY <2>1, <3>4, <3>5, <3>6
    <3>8. LET sold == o.amount_in_remaining
          IN IF o.price_mode = "Fixed"
             THEN paid * o.amount_in >= o.min_amount_out * sold
             ELSE LET price == ReadOracle(o.token_in, o.token_out)
                  IN (paid + 1) * price.den * BPS_DENOMINATOR
                       > sold * price.num * (BPS_DENOMINATOR - o.max_slippage_bps)
      BY <2>2, <3>4, <3>6, <3>7, FloorSettles
    <3>9. TimerSettled(o)
      BY <3>8 DEF TimerSettled, paid
    <3> QED
      BY <2>1, <2>4, <2>6, <3>1, <3>9
  <2> QED
    BY <2>5, <2>6
<1> QED
  BY <1>1, <1>2, TripEnds

-----------------------------------------------------------------------------
(* The theorems                                                             *)

(* execute_path, execute_route and route_expired_order leave no token in    *)
(* the Router, for every path, weights, fees, venue output and failure: the *)
(* last leg sweeps what rounding left, and what is paid out is all of it.   *)
THEOREM NothingRestsSafe == RouterSpec => []NothingRests
<1>1. RouterInv => NothingRests
  BY DEF RouterInv, NothingRests, Unused, Empty
<1> QED
  BY <1>1, RouterSpecInv, PTL

(* An invocation that ends has exchanged its user's input, exactly, for at  *)
(* least the floor net of every fee, at no other account's cost, or the     *)
(* host has restored every balance and order.                               *)
THEOREM TripsSafe == RouterSpec => TripsAreExchanges
<1>1. RouterInv /\ [RouterNext]_allVars => [Ends => Exchanged \/ book' = trip.saved]_allVars
  BY TripsStep
<1> QED
  BY <1>1, RouterSpecInv, PTL DEF RouterSpec, TripsAreExchanges

(* compute_surplus_fee and compute_fee, each with its own rounding, never   *)
(* take a user whose output beat the estimate below what the estimate would *)
(* have left, for every rate and share the admin may set.                   *)
THEOREM EstimateSafe == RouterSpec => EstimateKept
<1>1. RouterInv /\ [RouterNext]_allVars
        => [(Ends /\ book' # trip.saved /\ trip.estimated_out > 0 /\ trip.partner_fee = 0
               /\ trip.carry >= trip.estimated_out)
              => Returned >= trip.estimated_out - RouterFee(trip.estimated_out)]_allVars
  BY EstimateStep
<1> QED
  BY <1>1, RouterSpecInv, PTL DEF RouterSpec, EstimateKept

(* route_expired_order pays the maker what claim_expired_timer computed for *)
(* all that was left, before it emptied the order, or the claim is undone;  *)
(* whatever route the keeper chose.                                         *)
THEOREM TimersSafe == RouterSpec => TimersSettleAtTheFloor
<1>1. RouterInv /\ [RouterNext]_allVars
        => [(Ends /\ trip.kind = "timer") =>
              \A id \in OrderIds(trip.saved) :
                \/ book'.orders[id] = trip.saved.orders[id]
                \/ book'.orders[id].status = "Routed"
                   /\ TimerSettled(trip.saved.orders[id])]_allVars
  BY TimersStep
<1> QED
  BY <1>1, RouterSpecInv, PTL DEF RouterSpec, TimersSettleAtTheFloor

(* The SwapBook's indexes, escrow and order accounts stay right with the    *)
(* Router at work on the book: while it holds what it claimed, between any  *)
(* two legs, and when a leg's failure rolls the book back.                  *)
THEOREM BookUnderRouter ==
  RouterSpec => [](BookIndexesExact /\ BookEscrowBacked /\ BookLifeAccounted /\ BookMakerFloor)
<1>1. RouterInv => BookIndexesExact /\ BookEscrowBacked /\ BookLifeAccounted /\ BookMakerFloor
  BY DEF RouterInv, Inv, BookInv, BookIndexesExact, BookEscrowBacked, BookLifeAccounted,
         BookMakerFloor
<1> QED
  BY <1>1, RouterSpecInv, PTL

-----------------------------------------------------------------------------
(* The sweep                                                                *)

(* What the keeper submits, and what it has in flight, is a route it found. *)
Fields(s) ==
  s = [at |-> s.at, pairs |-> s.pairs, queue |-> s.queue, legs |-> s.legs,
       remaining |-> s.remaining]
SweepInv ==
  /\ Fields(sweep)
  /\ sweep.at = "submit" => sweep.legs \in Segments
  /\ \A tx \in inflight : tx.legs \in Segments

LEMMA FieldsKept ==
  ASSUME NEW s, Fields(s), NEW v, NEW n,
         \/ n = [s EXCEPT !.pairs = v]
         \/ n = [s EXCEPT !.at = "route", !.remaining = v]
  PROVE  Fields(n) /\ (n.at = s.at \/ n.at = "route")
<1>1. CASE n = [s EXCEPT !.pairs = v]
  BY <1>1 DEF Fields
<1>2. CASE n = [s EXCEPT !.at = "route", !.remaining = v]
  BY <1>2 DEF Fields
<1> QED
  BY <1>1, <1>2

LEMMA NextOrderGoesOn ==
  ASSUME Fields(sweep)
  PROVE  Fields(NextOrder) /\ NextOrder.at \in {"idle", "list", "order"}
<1>1. Fields(NextPair) /\ NextPair.at \in {"idle", "list"}
  BY DEF NextPair, Sleeping, Fields
<1>2. CASE Len(sweep.queue) > 1
  BY <1>2 DEF NextOrder, Fields
<1>3. CASE ~(Len(sweep.queue) > 1)
  <2> DEFINE n == NextPair
  <2>1. NextOrder = [n EXCEPT !.queue = <<>>, !.legs = <<>>, !.remaining = 0]
    BY <1>3 DEF NextOrder
  <2>2. Fields(n) /\ n.at \in {"idle", "list"}
    BY <1>1
  <2> HIDE DEF n
  <2> QED
    BY <2>1, <2>2 DEF Fields
<1> QED
  BY <1>2, <1>3

LEMMA SweepStepInv ==
  ASSUME SweepInv, SweepStep
  PROVE  SweepInv' /\ UNCHANGED allVars
<1>1. Fields(sweep) /\ \A tx \in inflight : tx.legs \in Segments
  BY DEF SweepInv
<1>2. Fields(NextOrder) /\ NextOrder.at # "submit"
  BY <1>1, NextOrderGoesOn
<1>3. Fields(Sleeping) /\ Sleeping.at # "submit"
  BY DEF Fields, Sleeping
<1>4. CASE RunSweep
  BY <1>1, <1>4 DEF RunSweep, SweepInv, Fields, Sleeping
<1>5. CASE Listed
  <2>1. UNCHANGED <<allVars, inflight>> /\ sweep.at = "list"
    BY <1>5 DEF Listed
  <2> DEFINE on == [sweep EXCEPT !.pairs = Tail(@)]
             ids == ExpiredTimerOrders(Head(sweep.pairs))
  <2>2. Fields(on) /\ on.at # "submit"
    <3>1. on = [sweep EXCEPT !.pairs = Tail(sweep.pairs)]
      OBVIOUS
    <3> HIDE DEF on
    <3> QED
      BY <1>1, <2>1, <3>1, FieldsKept
  <2>3. sweep' = IF ids # <<>> THEN [on EXCEPT !.at = "order", !.queue = ids]
                 ELSE IF on.pairs = <<>> THEN Sleeping ELSE on
    BY <1>5 DEF Listed
  <2> HIDE DEF on, ids
  <2>4. Fields(sweep') /\ sweep'.at # "submit"
    <3>1. CASE ids # <<>>
      BY <2>2, <2>3, <3>1 DEF Fields
    <3>2. CASE ids = <<>>
      BY <1>3, <2>2, <2>3, <3>2
    <3> QED
      BY <3>1, <3>2
  <2> QED
    BY <1>1, <2>1, <2>4 DEF SweepInv, Fields
<1>6. CASE NotListed
  <2>1. UNCHANGED <<allVars, inflight>> /\ sweep.at = "list"
    BY <1>6 DEF NotListed
  <2>2. sweep' = IF Len(sweep.pairs) = 1 THEN Sleeping
                 ELSE [sweep EXCEPT !.pairs = Tail(@)]
    BY <1>6 DEF NotListed
  <2> DEFINE on == [sweep EXCEPT !.pairs = Tail(@)]
  <2>3. Fields(on) /\ on.at # "submit"
    <3>1. on = [sweep EXCEPT !.pairs = Tail(sweep.pairs)]
      OBVIOUS
    <3> HIDE DEF on
    <3> QED
      BY <1>1, <2>1, <3>1, FieldsKept
  <2>4. sweep' = Sleeping \/ sweep' = on
    BY <2>2
  <2> HIDE DEF on
  <2>5. Fields(sweep') /\ sweep'.at # "submit"
    BY <1>3, <2>3, <2>4
  <2> QED
    BY <1>1, <2>1, <2>5 DEF SweepInv, Fields
<1>7. ASSUME sweep' = NextOrder, UNCHANGED <<allVars, inflight>>
      PROVE  SweepInv' /\ UNCHANGED allVars
  BY <1>1, <1>2, <1>7 DEF SweepInv, Fields
<1>8. CASE NotFetched \/ NoRoute \/ SubmitRefused \/ Waited \/ Unconfirmed
  BY <1>7, <1>8 DEF NotFetched, NoRoute, SubmitRefused, Waited, Unconfirmed
<1>9. ASSUME NEW id \in OrderIds(book), Fetched(id)
      PROVE  SweepInv' /\ UNCHANGED allVars
  <2>1. UNCHANGED <<allVars, inflight>>
    BY <1>9 DEF Fetched
  <2>2. \/ sweep' = NextOrder
        \/ sweep' = [sweep EXCEPT !.at = "route",
                                  !.remaining = book.orders[id].amount_in_remaining]
    BY <1>9 DEF Fetched
  <2> DEFINE on == [sweep EXCEPT !.at = "route",
                                 !.remaining = book.orders[id].amount_in_remaining]
  <2>3. Fields(on) /\ on.at # "submit"
    <3>1. sweep.at = "order"
      BY <1>9 DEF Fetched
    <3>2. on = [sweep EXCEPT !.at = "route",
                             !.remaining = book.orders[id].amount_in_remaining]
      OBVIOUS
    <3> HIDE DEF on
    <3> QED
      BY <1>1, <3>1, <3>2, FieldsKept
  <2> HIDE DEF on
  <2>4. Fields(sweep') /\ sweep'.at # "submit"
    <3>1. sweep' = NextOrder \/ sweep' = on
      BY <2>2 DEF on
    <3> QED
      BY <1>2, <2>3, <3>1
  <2> QED
    BY <1>1, <2>1, <2>4 DEF SweepInv, Fields
<1>10. ASSUME NEW id \in OrderIds(book), SubmitRoute(id)
       PROVE  SweepInv' /\ UNCHANGED allVars
  <2>1. /\ sweep.at = "submit" /\ UNCHANGED allVars
        /\ inflight' = inflight \union {[id |-> id, legs |-> sweep.legs]}
        /\ sweep' = [sweep EXCEPT !.at = "wait"]
    BY <1>10 DEF SubmitRoute
  <2>2. sweep.legs \in Segments
    BY <2>1 DEF SweepInv
  <2>3. \A tx \in inflight' : tx.legs \in Segments
    BY <1>1, <2>1, <2>2
  <2>4. Fields(sweep') /\ sweep'.at = "wait"
    BY <1>1, <2>1 DEF Fields
  <2> QED
    BY <2>1, <2>3, <2>4 DEF SweepInv, Fields
<1>11. ASSUME NEW id \in OrderIds(book), NEW legs \in Segments, RouteFound(id, legs)
       PROVE  SweepInv' /\ UNCHANGED allVars
  <2>1. /\ UNCHANGED <<allVars, inflight>>
        /\ sweep' = [sweep EXCEPT !.at = "submit", !.legs = legs]
    BY <1>11 DEF RouteFound
  <2>2. Fields(sweep') /\ sweep'.legs = legs
    BY <1>1, <2>1 DEF Fields
  <2> QED
    BY <1>1, <2>1, <2>2 DEF SweepInv, Fields
<1> QED
  BY <1>4, <1>5, <1>6, <1>8, <1>9, <1>10, <1>11 DEF SweepStep

LEMMA SweepNextInv ==
  ASSUME SweepInv, [SweepNext]_allSweepVars
  PROVE  SweepInv' /\ [RouterNext]_allVars
<1>1. ASSUME UNCHANGED sweepVars PROVE SweepInv'
  BY <1>1 DEF SweepInv, sweepVars, Fields
<1>2. ASSUME UNCHANGED sweep, inflight' = {} PROVE SweepInv'
  BY <1>2 DEF SweepInv, Fields
<1>3. CASE SweepStep
  BY <1>3, SweepStepInv
<1>4. CASE LandsInVain \/ TransactionExpires
  BY <1>2, <1>4 DEF LandsInVain, TransactionExpires
<1>5. ASSUME NEW id \in OrderIds(book), Lands(id)
      PROVE  SweepInv' /\ RouterNext
  <2>1. PICK tx \in inflight : RouteExpiredOrder(id, tx.legs)
    BY <1>5 DEF Lands
  <2>2. tx.legs \in Segments
    BY DEF SweepInv
  <2>3. RouterNext
    BY <2>1, <2>2 DEF RouterNext
  <2> QED
    BY <1>2, <1>5, <2>3 DEF Lands
<1>6. CASE RouterNext /\ UNCHANGED sweepVars
  BY <1>1, <1>6
<1>7. CASE UNCHANGED allSweepVars
  BY <1>1, <1>7 DEF allSweepVars
<1> QED
  BY <1>3, <1>4, <1>5, <1>6, <1>7 DEF SweepNext, NetworkStep

(* The keeper's sweep, with its stale reads, lost transactions and late     *)
(* landings, does nothing to the Router or the book that the Router's own   *)
(* specification does not allow, so all of the above holds with it too.     *)
THEOREM SweepIsRouter == SweepSpec => RouterSpec
<1>1. SweepInit => RouterInit /\ SweepInv
  BY DEF SweepInit, SweepInv, Sleeping, Fields
<1>2. SweepInv /\ [SweepNext]_allSweepVars => SweepInv' /\ [RouterNext]_allVars
  BY SweepNextInv
<1> QED
  BY <1>1, <1>2, PTL DEF SweepSpec, RouterSpec
=============================================================================
