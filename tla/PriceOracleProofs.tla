------------------------- MODULE PriceOracleProofs -------------------------
(***************************************************************************)
(* What the contracts' rounding guarantees, for all amounts and rates; the  *)
(* two ways in which amounts are added up: a fold over a function, and a    *)
(* set of units counted by its cardinality; and what a price that has been  *)
(* read is, for every feed, report and push.                                *)
(***************************************************************************)
EXTENDS PriceOracle, FiniteSetTheorems, TLAPS

(* Floor division is the largest quotient that does not exceed.             *)
LEMMA DivBounds ==
  ASSUME NEW a \in Int, NEW d \in Int, d > 0
  PROVE  /\ a \div d \in Int
         /\ d * (a \div d) <= a
         /\ a < d * (a \div d) + d
  BY SMT

LEMMA ProductNat ==
  ASSUME NEW a \in Nat, NEW b \in Nat
  PROVE  a * b \in Nat
  BY SMT

LEMMA ProductMonotone ==
  ASSUME NEW a \in Int, NEW b \in Int, NEW c \in Nat, a <= b
  PROVE  c * a <= c * b
  BY SMT

(* Cancelling a positive factor from a bound with slack less than it.       *)
LEMMA Cancel ==
  ASSUME NEW a \in Int, NEW b \in Int, NEW d \in Int, d > 0, d * a < d * b + d
  PROVE  a <= b
<1>1. SUFFICES ASSUME a >= b + 1 PROVE FALSE
  BY SMT
<1>2. d * (b + 1) <= d * a
  BY <1>1, ProductMonotone
<1>3. d * (b + 1) = d * b + d
  BY SMT
<1> QED
  BY <1>2, <1>3, SMT

(* MulDivCeil rounds up: it covers the quotient, and by less than one unit. *)
LEMMA CeilBounds ==
  ASSUME NEW a \in Nat, NEW b \in Nat, NEW d \in Nat, d > 0
  PROVE  /\ MulDivCeil(a, b, d) \in Nat
         /\ a * b <= d * MulDivCeil(a, b, d)
         /\ d * MulDivCeil(a, b, d) < a * b + d
<1>1. a * b \in Nat
  BY ProductNat
<1> DEFINE x == a * b + (d - 1)
           q == x \div d
<1>2. x \in Nat
  BY <1>1
<1>3. q \in Int /\ d * q <= x /\ x < d * q + d
  BY <1>2, DivBounds
<1> HIDE DEF q
<1>4. q >= 0
  <2>1. d * 0 < d * q + d
    BY <1>2, <1>3, SMT
  <2> QED
    BY <2>1, <1>3, Cancel
<1>5. d * q \in Int
  BY <1>3
<1>6. q \in Nat /\ a * b <= d * q /\ d * q < a * b + d
  BY <1>1, <1>3, <1>4, <1>5, SMT
<1> QED
  BY <1>6 DEF MulDivCeil, q

(* MulDivFloor rounds down, by less than one unit.                          *)
LEMMA FloorBounds ==
  ASSUME NEW a \in Nat, NEW b \in Nat, NEW d \in Nat, d > 0
  PROVE  /\ MulDivFloor(a, b, d) \in Nat
         /\ d * MulDivFloor(a, b, d) <= a * b
         /\ a * b < d * MulDivFloor(a, b, d) + d
<1> DEFINE q == (a * b) \div d
<1>1. a * b \in Nat
  BY ProductNat
<1>2. q \in Int /\ d * q <= a * b /\ a * b < d * q + d
  BY <1>1, DivBounds
<1> HIDE DEF q
<1>3. d * 0 < d * q + d
  BY <1>1, <1>2, SMT
<1>4. q >= 0
  BY <1>2, <1>3, Cancel
<1> QED
  BY <1>2, <1>4 DEF MulDivFloor, q

(* A rounded-up quotient is at most k exactly when k covers the product.    *)
LEMMA CeilAdjunction ==
  ASSUME NEW a \in Nat, NEW b \in Nat, NEW d \in Nat, d > 0, NEW k \in Int
  PROVE  MulDivCeil(a, b, d) <= k <=> a * b <= d * k
<1> DEFINE q == MulDivCeil(a, b, d)
<1>1. q \in Nat /\ a * b <= d * q /\ d * q < a * b + d /\ a * b \in Nat
  BY CeilBounds, ProductNat
<1> HIDE DEF q
<1>2. ASSUME q <= k PROVE a * b <= d * k
  <2>1. d * q <= d * k
    BY <1>1, <1>2, ProductMonotone
  <2> QED
    BY <2>1, <1>1
<1>3. ASSUME a * b <= d * k PROVE q <= k
  <2>1. d * q < d * k + d
    BY <1>1, <1>3
  <2> QED
    BY <2>1, <1>1, Cancel
<1> QED
  BY <1>2, <1>3 DEF q

(* A fee below 100% never exceeds the payment it comes out of.              *)
LEMMA FeeBounds ==
  ASSUME NEW amount \in Nat, NEW rate \in Nat, NEW denom \in Nat, rate < denom
  PROVE  /\ CalculateFee(amount, rate, denom) \in 0..amount
         /\ NetOfFee(amount, rate, denom) \in 0..amount
<1> DEFINE fee == CalculateFee(amount, rate, denom)
<1>1. fee \in Nat
  BY CeilBounds DEF CalculateFee
<1>2. amount * rate <= denom * amount
  <2>1. amount * rate <= amount * denom
    BY ProductMonotone
  <2> QED
    BY <2>1, SMT
<1>3. fee <= amount
  BY <1>2, CeilAdjunction DEF CalculateFee
<1> QED
  BY <1>1, <1>3 DEF NetOfFee

(* A fair price rounded down and a tolerance rounded up cost less than one  *)
(* unit between them.                                                       *)
LEMMA PeggedFloor ==
  ASSUME NEW fill \in Nat, NEW num \in Nat, NEW den \in Nat \ {0},
         NEW bps \in Nat \ {0}, NEW slip \in Nat, NEW net \in Nat,
         net >= MulDivCeil(MulDivFloor(fill, num, den), bps - slip, bps)
  PROVE  (net + 1) * den * bps > fill * num * (bps - slip)
<1> DEFINE fair == MulDivFloor(fill, num, den)
           keep == bps - slip
           product == fill * num
<1>1. product \in Nat /\ keep \in Int
  BY ProductNat
<1>2. fair \in Nat /\ product < den * fair + den
  BY FloorBounds
<1>3. net >= MulDivCeil(fair, keep, bps)
  OBVIOUS
<1>4. (net + 1) * den * bps = den * (bps * net) + den * bps
  BY SMT
<1>5. /\ bps * net \in Nat /\ den * (bps * net) \in Nat
      /\ den * bps \in Nat /\ den * bps > 0
  <2>1. bps * net \in Nat /\ den * bps \in Nat
    BY ProductNat
  <2>2. den * (bps * net) \in Nat
    BY <2>1, ProductNat
  <2>3. den * bps > 0
    BY SMT
  <2> QED
    BY <2>1, <2>2, <2>3
<1> HIDE DEF fair, product
<1>6. CASE keep > 0
  <2> HIDE DEF keep
  <2>1. fair * keep \in Nat /\ fair * keep <= bps * MulDivCeil(fair, keep, bps)
        /\ MulDivCeil(fair, keep, bps) \in Nat
    <3>1. keep \in Nat
      BY <1>1, <1>6
    <3>2. fair * keep \in Nat
      BY <1>2, <3>1, ProductNat
    <3>3. fair \in Nat /\ bps \in Nat /\ bps > 0
      BY <1>2
    <3>4. fair * keep <= bps * MulDivCeil(fair, keep, bps)
          /\ MulDivCeil(fair, keep, bps) \in Nat
      BY <3>1, <3>3, CeilBounds, Zenon
    <3> QED
      BY <3>2, <3>4
  <2>2. bps * MulDivCeil(fair, keep, bps) <= bps * net
    BY <1>3, <2>1, ProductMonotone
  <2>3. fair * keep <= bps * net
    BY <1>5, <2>1, <2>2
  <2>4. den * (fair * keep) <= den * (bps * net)
    BY <1>5, <2>1, <2>3, ProductMonotone
  <2>5. den * fair \in Nat /\ den * fair + den \in Nat
    BY <1>2, ProductNat
  <2>6. keep * (product + 1) <= keep * (den * fair + den)
    <3> DEFINE top == den * fair + den
    <3>1. keep \in Nat /\ product + 1 \in Int /\ top \in Int /\ product + 1 <= top
      BY <1>1, <1>2, <1>6, <2>5
    <3> HIDE DEF top
    <3>2. keep * (product + 1) <= keep * top
      BY <3>1, ProductMonotone
    <3> QED
      BY <3>2 DEF top
  <2>7. keep * (product + 1) = product * keep + keep
    BY <1>1, SMT
  <2>8. keep * (den * fair + den) = den * (fair * keep) + den * keep
    BY <1>1, <1>2, SMT
  <2>9. den * keep <= den * bps
    <3>1. keep <= bps
      BY DEF keep
    <3> QED
      BY <1>1, <3>1, ProductMonotone
  <2>10. product * keep \in Int /\ den * (fair * keep) \in Int /\ den * keep \in Int
    BY <1>1, <2>1, SMT
  <2> QED
    BY <1>1, <1>4, <1>5, <1>6, <2>4, <2>6, <2>7, <2>8, <2>9, <2>10 DEF product, keep
<1>7. CASE keep <= 0
  <2>1. product * (-keep) \in Nat
    BY <1>1, <1>7, ProductNat
  <2> HIDE DEF keep
  <2>2. product * keep = -(product * (-keep))
    BY <1>1, SMT
  <2> QED
    BY <1>4, <1>5, <2>1, <2>2 DEF product, keep
<1> QED
  BY <1>1, <1>6, <1>7

(* An amount within slack of fair, in bps and rounded up, is within slack   *)
(* of the exact value that fair was rounded down from.                      *)
LEMMA BandBounds ==
  ASSUME NEW value \in Nat, NEW den \in Nat \ {0}, NEW fair \in Nat \ {0},
         den * fair <= value, value < den * fair + den,
         NEW bps \in Nat \ {0}, NEW slack \in Nat, NEW out \in Nat \ {0},
         NEW gap \in Nat, out <= fair + gap, fair <= out + gap,
         MulDivCeil(gap, bps, fair) <= slack
  PROVE  /\ out * den * bps <= value * (bps + slack)
         /\ out * den * bps > (value - den) * (bps - slack)
<1>1. gap * bps <= fair * slack
  <2>1. fair \in Nat /\ bps \in Nat /\ slack \in Int /\ fair > 0
    OBVIOUS
  <2> QED
    BY <2>1, CeilAdjunction
<1>2. /\ gap * bps \in Nat /\ fair * slack \in Nat /\ out * bps \in Nat /\ fair * bps \in Nat
      /\ den * fair \in Nat
  BY ProductNat
<1>3. out * bps <= fair * (bps + slack)
  <2>1. bps * out <= bps * (fair + gap)
    BY ProductMonotone
  <2>2. bps * (fair + gap) = fair * bps + gap * bps /\ bps * out = out * bps
    BY SMT
  <2>3. fair * (bps + slack) = fair * bps + fair * slack
    BY SMT
  <2> QED
    BY <1>1, <1>2, <2>1, <2>2, <2>3
<1>4. fair * (bps - slack) <= out * bps
  <2>1. bps * fair <= bps * (out + gap)
    BY ProductMonotone
  <2>2. bps * (out + gap) = out * bps + gap * bps /\ bps * fair = fair * bps
    BY SMT
  <2>3. fair * (bps - slack) = fair * bps - fair * slack
    BY SMT
  <2> QED
    BY <1>1, <1>2, <2>1, <2>2, <2>3
<1>5. out * den * bps = den * (out * bps) /\ den * (out * bps) \in Nat
      /\ den * (out * bps) > 0
  <2>1. out * den * bps = den * (out * bps)
    BY SMT
  <2>2. out * bps > 0
    BY SMT
  <2>3. den * (out * bps) > 0
    BY <1>2, <2>2, SMT
  <2> QED
    BY <1>2, <2>1, <2>3, ProductNat
<1>6. out * den * bps <= value * (bps + slack)
  <2>1. den * (out * bps) <= den * (fair * (bps + slack))
    <3>1. fair * (bps + slack) \in Nat
      BY ProductNat
    <3> QED
      BY <1>2, <1>3, <3>1, ProductMonotone
  <2>2. (bps + slack) * (den * fair) <= (bps + slack) * value
    BY <1>2, ProductMonotone
  <2>3. /\ den * (fair * (bps + slack)) = (bps + slack) * (den * fair)
        /\ (bps + slack) * value = value * (bps + slack)
    BY SMT
  <2>4. (bps + slack) * (den * fair) \in Nat /\ value * (bps + slack) \in Nat
    BY <1>2, ProductNat
  <2> QED
    BY <1>5, <2>1, <2>2, <2>3, <2>4
<1>7. out * den * bps > (value - den) * (bps - slack)
  <2> DEFINE keep == bps - slack
             less == value - den
  <2>1. /\ keep \in Int /\ less \in Int /\ less < den * fair
    BY <1>2
  <2>2. less >= 0
    <3>1. den * 1 <= den * fair
      BY ProductMonotone
    <3> QED
      BY <1>2, <3>1
  <2>3. fair * keep <= out * bps
    BY <1>4
  <2> HIDE DEF keep, less
  <2>4. CASE keep > 0
    <3>1. keep * (less + 1) <= keep * (den * fair)
      BY <1>2, <2>1, <2>4, ProductMonotone
    <3>2. keep * (less + 1) = less * keep + keep
          /\ keep * (den * fair) = den * (fair * keep)
      BY <2>1, SMT
    <3>3. fair * keep \in Int /\ less * keep \in Int
      BY <2>1, SMT
    <3>4. den * (fair * keep) <= den * (out * bps)
      BY <1>2, <2>3, <3>3, ProductMonotone
    <3>5. den * (fair * keep) \in Int
      BY <3>3, SMT
    <3> QED
      BY <1>5, <2>1, <2>4, <3>1, <3>2, <3>3, <3>4, <3>5 DEF keep, less
  <2>5. CASE keep <= 0
    <3>1. less * (-keep) \in Nat
      BY <2>1, <2>2, <2>5, ProductNat
    <3>2. less * keep = -(less * (-keep))
      BY <2>1, SMT
    <3> QED
      BY <1>5, <3>1, <3>2 DEF keep, less
  <2> QED
    BY <2>1, <2>4, <2>5
<1> QED
  BY <1>6, <1>7

(* gross_for_net is exact: a payment leaves the maker net after the fee     *)
(* exactly when it is at least GrossForNet(net), so the figure quote_fill   *)
(* reports is accepted by fill_inner and nothing smaller is.                *)
THEOREM GrossForNetExact ==
  ASSUME NEW net \in Nat, NEW gross \in Nat,
         NEW rate \in Nat, NEW denom \in Nat, rate < denom
  PROVE  NetOfFee(gross, rate, denom) >= net <=> gross >= GrossForNet(net, rate, denom)
<1> DEFINE fee == CalculateFee(gross, rate, denom)
           least == GrossForNet(net, rate, denom)
<1>1. fee \in Nat /\ denom - rate \in Nat /\ denom - rate > 0
  BY FeeBounds
<1>2. least \in Nat
  BY <1>1, CeilBounds DEF GrossForNet
<1>3. fee <= gross - net <=> gross * rate <= denom * (gross - net)
  BY CeilAdjunction DEF CalculateFee
<1>4. least <= gross <=> net * denom <= (denom - rate) * gross
  BY <1>1, CeilAdjunction DEF GrossForNet
<1>5. gross * rate <= denom * (gross - net) <=> net * denom <= (denom - rate) * gross
  <2>1. denom * (gross - net) = denom * gross - net * denom
    BY SMT
  <2>2. (denom - rate) * gross = denom * gross - gross * rate
    BY SMT
  <2>3. denom * gross \in Int /\ net * denom \in Int /\ gross * rate \in Int
    OBVIOUS
  <2> QED
    BY <2>1, <2>2, <2>3, SMT
<1> HIDE DEF fee, least
<1>6. fee <= gross - net <=> gross - fee >= net
  BY <1>1
<1> QED
  BY <1>2, <1>3, <1>4, <1>5, <1>6 DEF NetOfFee, fee, least

-----------------------------------------------------------------------------
(* Induction.  A library theorem with a predicate for parameter cannot be   *)
(* instantiated; that a well-founded order has minimal elements needs none. *)

(* Induction over the naturals, as the existence of a least counterexample. *)
LEMMA LeastNatural ==
  ASSUME NEW T, T \subseteq Nat, T # {}
  PROVE  \E n \in T : \A m \in T : n <= m
<1> DEFINE less == OpToRel(<, Nat)
<1>1. \A m, n \in Nat : m < n => <<m, n>> \in less
  BY DEF OpToRel
<1>2. IsWellFoundedOn(less, Nat)
  BY NatLessThanWellFounded
<1> HIDE DEF less
<1>3. PICK n \in T : \A m \in T : ~ (<<m, n>> \in less)
  BY <1>2, WFMin
<1>4. ASSUME NEW m \in T PROVE n <= m
  <2>1. m \in Nat /\ n \in Nat /\ ~ (m < n)
    BY <1>1, <1>3
  <2> QED
    BY <2>1
<1> QED
  BY <1>4

(* Induction over the subsets of a finite set, as the existence of a least  *)
(* counterexample.                                                          *)
LEMMA LeastSubset ==
  ASSUME NEW S, IsFiniteSet(S), NEW T, T \subseteq SUBSET S, T # {}
  PROVE  \E U \in T : \A V \in T : V \subseteq U => V = U
<1>1. IsWellFoundedOn(StrictSubsetOrdering(S), SUBSET S)
  BY FS_StrictSubsetOrderingWellFounded, FS_FiniteSubsetsOfFinite
<1>2. \E U \in T : \A V \in T : ~ (<<V, U>> \in StrictSubsetOrdering(S))
  BY <1>1, WFMin
<1> QED
  BY <1>2 DEF StrictSubsetOrdering

-----------------------------------------------------------------------------
(* Numbers in order: such a list exists, so that is what CHOOSE gives.      *)
Enumerates(s, ids) ==
  /\ s \in [1..Cardinality(ids) -> ids]
  /\ \A i, j \in DOMAIN s : i < j => s[i] < s[j]

Unordered(ids) == {u \in SUBSET ids : ~ \E s : Enumerates(s, u)}

LEMMA InOrderAscends ==
  ASSUME NEW ids, ids \subseteq Nat, IsFiniteSet(ids)
  PROVE  Enumerates(InOrder(ids), ids)
<1>1. SUFFICES ASSUME Unordered(ids) # {} PROVE FALSE
  BY DEF InOrder, Enumerates, Unordered
<1>2. PICK u \in Unordered(ids) : \A v \in Unordered(ids) : v \subseteq u => v = u
  <2>1. Unordered(ids) \subseteq SUBSET ids
    BY DEF Unordered
  <2> QED
    BY <1>1, <2>1, LeastSubset
<1>3. u \subseteq ids /\ IsFiniteSet(u) /\ u \subseteq Nat /\ ~ \E s : Enumerates(s, u)
  BY <1>2, FS_Subset DEF Unordered
<1>4. u # {}
  <2>1. ASSUME u = {} PROVE FALSE
    <3>1. Cardinality(u) = 0
      BY <2>1, FS_EmptySet
    <3>2. Enumerates(<<>>, u)
      BY <3>1 DEF Enumerates
    <3> QED
      BY <1>3, <3>2
  <2> QED
    BY <2>1
<1>5. PICK m \in u : \A x \in u : m <= x
  BY <1>3, <1>4, LeastNatural
<1> DEFINE rest == u \ {m}
<1>6. rest \notin Unordered(ids)
  BY <1>2, <1>5
<1>7. PICK s : Enumerates(s, rest)
  BY <1>3, <1>6 DEF Unordered
<1>8. /\ Cardinality(u) \in Nat /\ Cardinality(rest) = Cardinality(u) - 1
      /\ Cardinality(rest) \in Nat
  <2>1. IsFiniteSet(rest) /\ Cardinality(rest) = Cardinality(u) - 1
    BY <1>3, <1>5, FS_RemoveElement
  <2> QED
    BY <1>3, <2>1, FS_CardinalityType
<1> DEFINE n == Cardinality(u)
           t == [i \in 1..n |-> IF i = 1 THEN m ELSE s[i - 1]]
<1>9. s \in [1..(n - 1) -> rest] /\ \A i, j \in 1..(n - 1) : i < j => s[i] < s[j]
  BY <1>7, <1>8 DEF Enumerates
<1>10. \A x \in rest : x \in u /\ x \in Nat /\ m < x
  BY <1>3, <1>5
<1>11. n \in Nat /\ m \in Nat
  BY <1>3, <1>5, <1>8
<1> HIDE DEF n, rest
<1>12. \A i \in 1..n : i # 1 => i - 1 \in 1..(n - 1) /\ t[i] = s[i - 1] /\ t[i] \in rest
  BY <1>9, <1>11
<1>13. t \in [1..n -> u]
  BY <1>5, <1>10, <1>12
<1>14. ASSUME NEW i \in 1..n, NEW j \in 1..n, i < j PROVE t[i] < t[j]
  <2>1. j # 1 /\ t[j] = s[j - 1] /\ t[j] \in rest /\ j - 1 \in 1..(n - 1)
    BY <1>11, <1>12, <1>14
  <2>2. CASE i = 1
    BY <1>10, <2>1, <2>2
  <2>3. CASE i # 1
    <3>1. t[i] = s[i - 1] /\ i - 1 \in 1..(n - 1) /\ i - 1 < j - 1
      BY <1>11, <1>12, <1>14, <2>3
    <3> QED
      BY <1>9, <2>1, <3>1
  <2> QED
    BY <2>2, <2>3
<1>15. Enumerates(t, u)
  BY <1>13, <1>14 DEF Enumerates, n
<1> QED
  BY <1>3, <1>15

LEMMA InOrderTyped ==
  ASSUME NEW ids, ids \subseteq Nat, IsFiniteSet(ids)
  PROVE  InOrder(ids) \in [1..Cardinality(ids) -> ids]
  BY InOrderAscends DEF Enumerates

(* Powers of ten: the recursive function is well defined, and adds up.      *)

PowersTo(n) == {g \in [0..n -> Nat] : g[0] = 1 /\ \A k \in 1..n : g[k] = 10 * g[k - 1]}

LEMMA PowersExist ==
  ASSUME NEW n \in Nat
  PROVE  PowersTo(n) # {}
<1> DEFINE bad == {k \in Nat : PowersTo(k) = {}}
<1>1. SUFFICES ASSUME bad # {} PROVE FALSE
  OBVIOUS
<1>2. PICK m \in bad : \A k \in bad : m <= k
  <2>1. bad \subseteq Nat
    OBVIOUS
  <2> HIDE DEF bad
  <2> QED
    BY <1>1, <2>1, LeastNatural
<1>3. m \in Nat /\ PowersTo(m) = {} /\ \A k \in Nat : k < m => PowersTo(k) # {}
  BY <1>2
<1>4. CASE m = 0
  <2> DEFINE g == [k \in 0..0 |-> 1]
  <2>1. g \in [0..0 -> Nat] /\ g[0] = 1 /\ \A k \in 1..0 : g[k] = 10 * g[k - 1]
    OBVIOUS
  <2> HIDE DEF g
  <2> QED
    BY <1>3, <1>4, <2>1 DEF PowersTo
<1>5. CASE m # 0
  <2>1. m - 1 \in Nat /\ PowersTo(m - 1) # {}
    BY <1>3, <1>5
  <2>2. PICK h : h \in PowersTo(m - 1)
    BY <2>1
  <2>3. /\ h \in [0..(m - 1) -> Nat] /\ h[0] = 1
        /\ \A k \in 1..(m - 1) : h[k] = 10 * h[k - 1]
    BY <2>2 DEF PowersTo
  <2> DEFINE g == [k \in 0..m |-> IF k = m THEN 10 * h[m - 1] ELSE h[k]]
  <2>4. g \in [0..m -> Nat] /\ g[0] = 1
    BY <1>3, <1>5, <2>1, <2>3
  <2>5. \A k \in 1..m : g[k] = 10 * g[k - 1]
    BY <1>3, <1>5, <2>1, <2>3
  <2> HIDE DEF g
  <2> QED
    BY <1>3, <2>4, <2>5 DEF PowersTo
<1> QED
  BY <1>4, <1>5

LEMMA PowersAgree ==
  ASSUME NEW m \in Nat, NEW n \in Nat, m <= n, NEW g \in PowersTo(m), NEW h \in PowersTo(n)
  PROVE  g[m] = h[m]
<1> DEFINE bad == {k \in 0..m : g[k] # h[k]}
<1>1. SUFFICES ASSUME bad # {} PROVE FALSE
  OBVIOUS
<1>2. PICK u \in bad : \A k \in bad : u <= k
  <2>1. bad \subseteq Nat
    OBVIOUS
  <2> HIDE DEF bad
  <2> QED
    BY <1>1, <2>1, LeastNatural
<1>3. u \in 0..m /\ g[u] # h[u] /\ \A k \in 0..m : k < u => g[k] = h[k]
  BY <1>2
<1>4. /\ g[0] = 1 /\ \A k \in 1..m : g[k] = 10 * g[k - 1]
      /\ h[0] = 1 /\ \A k \in 1..n : h[k] = 10 * h[k - 1]
  BY DEF PowersTo
<1>5. u # 0 /\ u \in 1..m /\ u \in 1..n /\ u - 1 \in 0..m /\ u - 1 < u
  BY <1>3, <1>4
<1>6. g[u - 1] = h[u - 1] /\ g[u] = 10 * g[u - 1] /\ h[u] = 10 * h[u - 1]
  BY <1>3, <1>4, <1>5
<1> QED
  BY <1>3, <1>6

LEMMA Pow10Unfolds ==
  Pow10 = [n \in Nat |-> IF n = 0 THEN 1 ELSE 10 * Pow10[n - 1]]
<1> DEFINE of(n) == CHOOSE g : g \in PowersTo(n)
           f == [n \in Nat |-> of(n)[n]]
<1>1. ASSUME NEW n \in Nat PROVE of(n) \in PowersTo(n)
  BY PowersExist
<1> HIDE DEF of
<1>2. ASSUME NEW n \in Nat
      PROVE  f[n] = IF n = 0 THEN 1 ELSE 10 * f[n - 1]
  <2>1. CASE n = 0
    BY <1>1, <2>1 DEF PowersTo
  <2>2. CASE n # 0
    <3>1. n - 1 \in Nat /\ n - 1 <= n /\ n \in 1..n
      BY <2>2
    <3>2. of(n)[n] = 10 * of(n)[n - 1]
      BY <1>1, <3>1 DEF PowersTo
    <3>3. of(n - 1)[n - 1] = of(n)[n - 1]
      BY <1>1, <3>1, PowersAgree
    <3> QED
      BY <2>2, <3>1, <3>2, <3>3
  <2> QED
    BY <2>1, <2>2
<1>3. f = [n \in Nat |-> IF n = 0 THEN 1 ELSE 10 * f[n - 1]]
  <2>1. f = [n \in Nat |-> f[n]]
    OBVIOUS
  <2> HIDE DEF f
  <2> QED
    BY <1>2, <2>1
<1> HIDE DEF f
<1>4. \E g : g = [n \in Nat |-> IF n = 0 THEN 1 ELSE 10 * g[n - 1]]
  BY <1>3
<1> QED
  BY <1>4 DEF Pow10

LEMMA Pow10Positive ==
  ASSUME NEW n \in Nat
  PROVE  Pow10[n] \in Nat \ {0}
<1> DEFINE bad == {k \in Nat : Pow10[k] \notin Nat \ {0}}
<1>1. SUFFICES ASSUME bad # {} PROVE FALSE
  OBVIOUS
<1>2. PICK m \in bad : \A k \in bad : m <= k
  <2>1. bad \subseteq Nat
    OBVIOUS
  <2> HIDE DEF bad
  <2> QED
    BY <1>1, <2>1, LeastNatural
<1>3. m \in Nat /\ Pow10[m] \notin Nat \ {0} /\ \A k \in Nat : k < m => Pow10[k] \in Nat \ {0}
  BY <1>2
<1>4. Pow10[m] = IF m = 0 THEN 1 ELSE 10 * Pow10[m - 1]
  BY <1>3, Pow10Unfolds
<1>5. m # 0 => m - 1 \in Nat /\ Pow10[m - 1] \in Nat \ {0}
  BY <1>3
<1> QED
  BY <1>3, <1>4, <1>5

LEMMA Pow10Adds ==
  ASSUME NEW m \in Nat, NEW n \in Nat
  PROVE  Pow10[m + n] = Pow10[m] * Pow10[n]
<1> DEFINE bad == {k \in Nat : Pow10[m + k] # Pow10[m] * Pow10[k]}
<1>1. SUFFICES ASSUME bad # {} PROVE FALSE
  OBVIOUS
<1>2. PICK u \in bad : \A k \in bad : u <= k
  <2>1. bad \subseteq Nat
    OBVIOUS
  <2> HIDE DEF bad
  <2> QED
    BY <1>1, <2>1, LeastNatural
<1>3. /\ u \in Nat /\ Pow10[m + u] # Pow10[m] * Pow10[u]
      /\ \A k \in Nat : k < u => Pow10[m + k] = Pow10[m] * Pow10[k]
  BY <1>2
<1>4. Pow10[0] = 1 /\ Pow10[m] \in Nat
  BY Pow10Unfolds, Pow10Positive
<1>5. u # 0
  BY <1>3, <1>4
<1>6. u - 1 \in Nat /\ m + u \in Nat /\ m + u # 0 /\ (m + u) - 1 = m + (u - 1) /\ Pow10[u - 1] \in Nat
  BY <1>3, <1>5, Pow10Positive
<1>7. Pow10[u] = 10 * Pow10[u - 1]
  BY <1>3, <1>5, Pow10Unfolds
<1>8. Pow10[m + u] = 10 * Pow10[m + (u - 1)]
  BY <1>6, Pow10Unfolds
<1>9. Pow10[m + (u - 1)] = Pow10[m] * Pow10[u - 1]
  BY <1>3, <1>6
<1>10. 10 * (Pow10[m] * Pow10[u - 1]) = Pow10[m] * (10 * Pow10[u - 1])
  BY <1>4, <1>6, SMT
<1> QED
  BY <1>3, <1>7, <1>8, <1>9, <1>10

-----------------------------------------------------------------------------
(* Sums: what the community modules' folds with + come to.                  *)

Picked(s) == CHOOSE x \in s : TRUE
Rest(s) == s \ {Picked(s)}

(* The table of partial sums that a fold consults.                          *)
IsTable(g, fun, S) ==
  g = [s \in SUBSET S |-> IF s = {} THEN 0 ELSE fun[Picked(s)] + g[Rest(s)]]
Table(fun, S) == CHOOSE g : IsTable(g, fun, S)

LEMMA SumIsTable ==
  ASSUME NEW fun, NEW S
  PROVE  SumFunctionOnSet(fun, S) = Table(fun, S)[S]
  BY DEF SumFunctionOnSet, FoldFunctionOnSet, MapThenFoldSet, Table, IsTable, Picked, Rest

LEMMA RestSmaller ==
  ASSUME NEW s, s # {}
  PROVE  Picked(s) \in s /\ Rest(s) \subseteq s /\ Rest(s) # s
  BY DEF Picked, Rest

LEMMA TableUnique ==
  ASSUME NEW fun, NEW S, NEW T, IsFiniteSet(S), T \subseteq S,
         NEW g, NEW h, IsTable(g, fun, S), IsTable(h, fun, T)
  PROVE  g[T] = h[T]
<1> DEFINE bad == {s \in SUBSET T : g[s] # h[s]}
<1>1. SUFFICES ASSUME bad # {} PROVE FALSE
  OBVIOUS
<1>2. PICK U \in bad : \A V \in bad : V \subseteq U => V = U
  <2>1. IsFiniteSet(T) /\ bad \subseteq SUBSET T
    BY FS_Subset
  <2> HIDE DEF bad
  <2> QED
    BY <1>1, <2>1, LeastSubset
<1>3. U \in SUBSET T /\ U \in SUBSET S /\ g[U] # h[U]
  OBVIOUS
<1>4. g[U] = (IF U = {} THEN 0 ELSE fun[Picked(U)] + g[Rest(U)])
  BY <1>3 DEF IsTable
<1>5. h[U] = (IF U = {} THEN 0 ELSE fun[Picked(U)] + h[Rest(U)])
  BY <1>3 DEF IsTable
<1>6. U # {}
  BY <1>3, <1>4, <1>5
<1>7. g[Rest(U)] = h[Rest(U)]
  BY <1>2, <1>3, <1>6, RestSmaller
<1> QED
  BY <1>3, <1>4, <1>5, <1>6, <1>7

LEMMA TableExists ==
  ASSUME NEW fun, NEW S, IsFiniteSet(S)
  PROVE  IsTable(Table(fun, S), fun, S)
<1> DEFINE bad == {s \in SUBSET S : ~ IsTable(Table(fun, s), fun, s)}
<1>1. SUFFICES ASSUME bad # {} PROVE FALSE
  OBVIOUS
<1>2. PICK U \in bad : \A V \in bad : V \subseteq U => V = U
  <2>1. bad \subseteq SUBSET S
    OBVIOUS
  <2> HIDE DEF bad
  <2> QED
    BY <1>1, <2>1, LeastSubset
<1>3. U \in SUBSET S /\ ~ IsTable(Table(fun, U), fun, U)
  OBVIOUS
<1>4. ASSUME NEW V \in SUBSET U, V # U
      PROVE  IsTable(Table(fun, V), fun, V)
  BY <1>2, <1>3, <1>4
<1> DEFINE whole == IF U = {} THEN 0 ELSE fun[Picked(U)] + Table(fun, Rest(U))[Rest(U)]
           h == [s \in SUBSET U |-> IF s = U THEN whole ELSE Table(fun, s)[s]]
<1>5. ASSUME NEW s \in SUBSET U
      PROVE  h[s] = IF s = {} THEN 0 ELSE fun[Picked(s)] + h[Rest(s)]
  <2>1. CASE s = {}
    <3>1. CASE U = {}
      BY <2>1, <3>1
    <3>2. CASE U # {}
      <4>1. IsTable(Table(fun, s), fun, s)
        BY <1>4, <2>1, <3>2
      <4>2. Table(fun, s)[s] = 0
        BY <2>1, <4>1 DEF IsTable
      <4> QED
        BY <2>1, <3>2, <4>2
    <3> QED
      BY <3>1, <3>2
  <2>2. CASE s # {}
    <3>1. /\ Rest(s) \in SUBSET U /\ Rest(s) \in SUBSET s /\ Rest(s) # U
          /\ Rest(s) # s
      BY <2>2, RestSmaller
    <3>2. h[Rest(s)] = Table(fun, Rest(s))[Rest(s)]
      BY <3>1
    <3>3. CASE s = U
      BY <2>2, <3>2, <3>3
    <3>4. CASE s # U
      <4>1. IsTable(Table(fun, s), fun, s) /\ IsTable(Table(fun, Rest(s)), fun, Rest(s))
        BY <1>4, <3>1, <3>4
      <4>2. Table(fun, s)[s] = fun[Picked(s)] + Table(fun, s)[Rest(s)]
        BY <2>2, <4>1, <3>1 DEF IsTable
      <4>3. Table(fun, s)[Rest(s)] = Table(fun, Rest(s))[Rest(s)]
        <5>1. IsFiniteSet(s)
          BY <1>3, FS_Subset
        <5> QED
          BY <3>1, <4>1, <5>1, TableUnique
      <4> QED
        BY <2>2, <3>2, <3>4, <4>2, <4>3
    <3> QED
      BY <3>3, <3>4
  <2> QED
    BY <2>1, <2>2
<1>6. IsTable(h, fun, U)
  <2>1. h = [s \in SUBSET U |-> h[s]]
    OBVIOUS
  <2> HIDE DEF h
  <2> QED
    BY <1>5, <2>1 DEF IsTable
<1> HIDE DEF h
<1>7. \E g : IsTable(g, fun, U)
  BY <1>6
<1> QED
  BY <1>3, <1>7 DEF Table

(* What a fold computes: nothing of nothing, and one value and the fold of  *)
(* the rest, in an order that the fold chooses.                             *)
LEMMA SumUnfolds ==
  ASSUME NEW fun, NEW S, IsFiniteSet(S)
  PROVE  SumFunctionOnSet(fun, S) =
           IF S = {} THEN 0 ELSE fun[Picked(S)] + SumFunctionOnSet(fun, Rest(S))
<1>1. IsTable(Table(fun, S), fun, S)
  BY TableExists
<1>2. CASE S = {}
  <2>1. Table(fun, S)[S] = 0
    BY <1>1, <1>2 DEF IsTable
  <2> QED
    BY <1>2, <2>1, SumIsTable
<1>3. CASE S # {}
  <2>1. Rest(S) \in SUBSET S /\ IsFiniteSet(Rest(S))
    BY <1>3, RestSmaller, FS_Subset
  <2>2. IsTable(Table(fun, Rest(S)), fun, Rest(S))
    BY <2>1, TableExists
  <2>3. Table(fun, S)[Rest(S)] = Table(fun, Rest(S))[Rest(S)]
    BY <1>1, <2>1, <2>2, TableUnique
  <2>4. Table(fun, S)[S] = fun[Picked(S)] + Table(fun, S)[Rest(S)]
    BY <1>1, <1>3, <2>1 DEF IsTable
  <2> QED
    BY <1>3, <2>3, <2>4, SumIsTable
<1> QED
  BY <1>2, <1>3

LEMMA SumTyped ==
  ASSUME NEW fun, NEW S, IsFiniteSet(S), \A x \in S : fun[x] \in Nat
  PROVE  SumFunctionOnSet(fun, S) \in Nat
<1> DEFINE sum(s) == SumFunctionOnSet(fun, s)
           bad == {s \in SUBSET S : sum(s) \notin Nat}
<1>1. SUFFICES ASSUME bad # {} PROVE FALSE
  OBVIOUS
<1>2. PICK U \in bad : \A V \in bad : V \subseteq U => V = U
  <2>1. bad \subseteq SUBSET S
    OBVIOUS
  <2> HIDE DEF bad
  <2> QED
    BY <1>1, <2>1, LeastSubset
<1>3. U \in SUBSET S /\ sum(U) \notin Nat /\ IsFiniteSet(U)
  BY FS_Subset
<1>4. sum(U) = IF U = {} THEN 0 ELSE fun[Picked(U)] + sum(Rest(U))
  BY <1>3, SumUnfolds
<1>5. U # {}
  BY <1>3, <1>4
<1>6. Rest(U) \in SUBSET S /\ Rest(U) \subseteq U /\ Rest(U) # U /\ Picked(U) \in S
  BY <1>3, <1>5, RestSmaller
<1>7. sum(Rest(U)) \in Nat
  BY <1>2, <1>6
<1> HIDE DEF sum
<1> QED
  BY <1>3, <1>4, <1>5, <1>6, <1>7

(* The order does not matter: any element may be taken first.               *)
LEMMA SumSplits ==
  ASSUME NEW fun, NEW S, IsFiniteSet(S), \A y \in S : fun[y] \in Nat, NEW x \in S
  PROVE  SumFunctionOnSet(fun, S) = fun[x] + SumFunctionOnSet(fun, S \ {x})
<1> DEFINE sum(s) == SumFunctionOnSet(fun, s)
           Splits(s) == \A y \in s : sum(s) = fun[y] + sum(s \ {y})
           bad == {s \in SUBSET S : ~ Splits(s)}
<1>1. SUFFICES ASSUME bad # {} PROVE FALSE
  OBVIOUS
<1>2. PICK U \in bad : \A V \in bad : V \subseteq U => V = U
  <2>1. bad \subseteq SUBSET S
    OBVIOUS
  <2> HIDE DEF bad
  <2> QED
    BY <1>1, <2>1, LeastSubset
<1>3. U \in SUBSET S /\ IsFiniteSet(U)
  BY FS_Subset
<1>4. PICK y \in U : sum(U) # fun[y] + sum(U \ {y})
  OBVIOUS
<1>5. ASSUME NEW V, V \subseteq U, V # U PROVE Splits(V)
  BY <1>2, <1>3, <1>5
<1>6. ASSUME NEW V \in SUBSET U PROVE sum(V) \in Nat
  <2>1. IsFiniteSet(V) /\ \A v \in V : fun[v] \in Nat
    BY <1>3, FS_Subset
  <2> QED
    BY <2>1, SumTyped
<1> DEFINE c == Picked(U)
           both == U \ {c, y}
<1>7. c \in U /\ Rest(U) = U \ {c}
  BY <1>4, RestSmaller DEF Rest
<1>8. sum(U) = fun[c] + sum(U \ {c})
  BY <1>3, <1>4, <1>7, SumUnfolds
<1> HIDE DEF c
<1>9. y # c
  BY <1>4, <1>8
<1>10. sum(U \ {c}) = fun[y] + sum(both)
  <2>1. Splits(U \ {c})
    BY <1>5, <1>7
  <2>2. y \in U \ {c} /\ (U \ {c}) \ {y} = both
    BY <1>4, <1>9
  <2> HIDE DEF both, sum
  <2> QED
    BY <2>1, <2>2
<1>11. sum(U \ {y}) = fun[c] + sum(both)
  <2>1. Splits(U \ {y})
    BY <1>4, <1>5
  <2>2. c \in U \ {y} /\ (U \ {y}) \ {c} = both
    BY <1>7, <1>9
  <2> HIDE DEF both, sum
  <2> QED
    BY <2>1, <2>2
<1>12. fun[c] \in Nat /\ fun[y] \in Nat /\ sum(both) \in Nat
  BY <1>3, <1>4, <1>6, <1>7
<1> HIDE DEF sum, both
<1> QED
  BY <1>4, <1>8, <1>10, <1>11, <1>12

LEMMA SumSame ==
  ASSUME NEW f, NEW g, NEW S, IsFiniteSet(S), \A x \in S : f[x] = g[x]
  PROVE  SumFunctionOnSet(f, S) = SumFunctionOnSet(g, S)
<1> DEFINE bad == {s \in SUBSET S : SumFunctionOnSet(f, s) # SumFunctionOnSet(g, s)}
<1>1. SUFFICES ASSUME bad # {} PROVE FALSE
  OBVIOUS
<1>2. PICK U \in bad : \A V \in bad : V \subseteq U => V = U
  <2>1. bad \subseteq SUBSET S
    OBVIOUS
  <2> HIDE DEF bad
  <2> QED
    BY <1>1, <2>1, LeastSubset
<1>3. /\ U \in SUBSET S /\ IsFiniteSet(U)
      /\ SumFunctionOnSet(f, U) # SumFunctionOnSet(g, U)
  BY FS_Subset
<1>4. U # {} =>
        /\ Picked(U) \in S
        /\ SumFunctionOnSet(f, Rest(U)) = SumFunctionOnSet(g, Rest(U))
  BY <1>2, <1>3, RestSmaller
<1> QED
  BY <1>3, <1>4, SumUnfolds

-----------------------------------------------------------------------------
(* Units.  An amount for every id, as a set: changing or adding one amount  *)
(* changes the number of units by as much.                                  *)

Block(size, id) == {id} \X (1..size[id])
Units(size, ids) == UNION {Block(size, id) : id \in ids}

LEMMA BlockSize ==
  ASSUME NEW size, NEW id, size[id] \in Nat
  PROVE  /\ IsFiniteSet(Block(size, id))
         /\ Cardinality(Block(size, id)) = size[id]
<1> DEFINE n == size[id]
<1>0. n \in Nat
  OBVIOUS
<1> HIDE DEF n
<1>1. IsFiniteSet(1..n) /\ Cardinality(1..n) = n
  <2>1. IsFiniteSet(1..n) /\ Cardinality(1..n) = IF 1 > n THEN 0 ELSE n - 1 + 1
    BY <1>0, FS_Interval
  <2> QED
    BY <1>0, <2>1
<1>2. IsFiniteSet({id}) /\ Cardinality({id}) = 1
  BY FS_Singleton
<1>3. /\ IsFiniteSet({id} \X (1..n))
      /\ Cardinality({id} \X (1..n)) = Cardinality({id}) * Cardinality(1..n)
  BY <1>1, <1>2, FS_Product
<1> QED
  BY <1>0, <1>1, <1>2, <1>3 DEF Block, n

LEMMA UnitsFinite ==
  ASSUME NEW size, NEW ids, IsFiniteSet(ids), \A i \in ids : size[i] \in Nat
  PROVE  IsFiniteSet(Units(size, ids)) /\ Cardinality(Units(size, ids)) \in Nat
<1> DEFINE all == {Block(size, id) : id \in ids}
<1>1. \A B \in all : IsFiniteSet(B)
  BY BlockSize
<1>2. IsFiniteSet(all)
  <2> DEFINE f == [i \in ids |-> Block(size, i)]
  <2>1. f \in Surjection(ids, all)
    BY DEF Surjection
  <2> QED
    BY <2>1, FS_Surjection
<1>3. IsFiniteSet(Units(size, ids))
  BY <1>1, <1>2, FS_UNION DEF Units
<1> QED
  BY <1>3, FS_CardinalityType

LEMMA UnitsSplit ==
  ASSUME NEW size, NEW ids, NEW id \in ids, IsFiniteSet(ids), \A i \in ids : size[i] \in Nat
  PROVE  Cardinality(Units(size, ids)) = Cardinality(Units(size, ids \ {id})) + size[id]
<1> DEFINE rest == Units(size, ids \ {id})
           block == Block(size, id)
<1>1. Units(size, ids) = rest \union block
  BY DEF Units
<1>2. rest \intersect block = {}
  BY DEF Units, Block
<1>3. IsFiniteSet(ids \ {id})
  BY FS_RemoveElement
<1>4. IsFiniteSet(rest)
  BY <1>3, UnitsFinite
<1>5. IsFiniteSet(block) /\ Cardinality(block) = size[id]
  BY BlockSize
<1> HIDE DEF rest, block
<1>6. /\ Cardinality(rest \union block)
           = Cardinality(rest) + Cardinality(block) - Cardinality(rest \intersect block)
  BY <1>4, <1>5, FS_Union, Zenon
<1>7. Cardinality({}) = 0 /\ Cardinality(rest) \in Nat
  BY <1>4, FS_EmptySet, FS_CardinalityType
<1>8. Cardinality(rest \union block) = Cardinality(rest) + size[id]
  <2>1. Cardinality(rest \intersect block) = 0
    BY <1>2, <1>7, Zenon
  <2>2. size[id] \in Nat /\ Cardinality(block) \in Nat
    BY <1>5
  <2> QED
    BY <1>5, <1>6, <1>7, <2>1, <2>2
<1> QED
  BY <1>1, <1>8 DEF rest

LEMMA UnitsSame ==
  ASSUME NEW size, NEW other, NEW ids, \A i \in ids : size[i] = other[i]
  PROVE  Units(size, ids) = Units(other, ids)
  BY DEF Units, Block

(* One amount among several changes: the units change by the difference.    *)
OneDiffers(size, other, ids, id) ==
  /\ IsFiniteSet(ids) /\ id \in ids
  /\ \A i \in ids : size[i] \in Nat
  /\ other[id] \in Nat
  /\ \A i \in ids \ {id} : other[i] = size[i]

LEMMA UnitsUpdated ==
  ASSUME NEW size, NEW other, NEW ids, NEW id, OneDiffers(size, other, ids, id)
  PROVE  Cardinality(Units(other, ids)) = Cardinality(Units(size, ids)) - size[id] + other[id]
<1> DEFINE rest == Units(size, ids \ {id})
<1> USE DEF OneDiffers
<1>1. Cardinality(Units(size, ids)) = Cardinality(rest) + size[id]
  BY UnitsSplit
<1>2. Cardinality(Units(other, ids)) = Cardinality(rest) + other[id]
  <2>1. \A i \in ids : other[i] \in Nat
    OBVIOUS
  <2>2. Units(other, ids \ {id}) = rest
    BY UnitsSame
  <2>3. Cardinality(Units(other, ids)) = Cardinality(Units(other, ids \ {id})) + other[id]
    BY <2>1, UnitsSplit
  <2> QED
    BY <2>2, <2>3
<1>3. Cardinality(rest) \in Nat
  <2>1. IsFiniteSet(ids \ {id}) /\ \A i \in ids \ {id} : size[i] \in Nat
    BY FS_RemoveElement
  <2> QED
    BY <2>1, UnitsFinite
<1> HIDE DEF rest
<1> QED
  BY <1>1, <1>2, <1>3

-----------------------------------------------------------------------------
LEMMA OracleInitTyped ==
  ASSUME OracleInit
  PROVE  OracleTypeOK
  BY OracleAssumption DEF OracleInit, OracleTypeOK, OracleState

LEMMA OracleStepTyped ==
  ASSUME OracleTypeOK, OracleNext
  PROVE  OracleTypeOK'
<1>1. /\ oracle \in OracleState /\ reports \in [Tokens -> Reports \union {None}]
      /\ seq \in 0..MaxLedger /\ MaxLedger \in Nat
  BY OracleAssumption DEF OracleTypeOK
<1>2. ASSUME NEW admin \in OracleAdmins, SetOracleAdmin(admin)
      PROVE  OracleTypeOK'
  BY <1>1, <1>2 DEF SetOracleAdmin, OracleTypeOK, OracleState
<1>3. ASSUME NEW pair \in PushedPairs, NEW p \in PushedPrices,
             UpdateOraclePrice(pair[1], pair[2], p[1], p[2])
      PROVE  OracleTypeOK'
  <2> DEFINE price == [num |-> p[1], den |-> p[2], updated_at |-> seq]
             pushed == [oracle.pushed EXCEPT ![<<pair[1], pair[2]>>] = price]
  <2>1. p[1] \in Int /\ p[2] \in Int /\ <<pair[1], pair[2]>> \in Tokens \X Tokens
    BY OracleAssumption
  <2>2. price \in Price
    BY <1>1, <1>3, <2>1 DEF Price, UpdateOraclePrice
  <2>3. /\ oracle' = [oracle EXCEPT !.pushed = pushed]
        /\ UNCHANGED <<reports, seq>>
    BY <1>3 DEF UpdateOraclePrice
  <2> HIDE DEF price
  <2>4. pushed \in [Tokens \X Tokens -> Price \union {None}]
    BY <1>1, <2>1, <2>2 DEF OracleState
  <2> HIDE DEF pushed
  <2> QED
    BY <1>1, <2>3, <2>4 DEF OracleTypeOK, OracleState
<1>4. ASSUME NEW age \in MaxAges, SetSep40MaxAge(age)
      PROVE  OracleTypeOK'
  BY <1>1, <1>4 DEF SetSep40MaxAge, OracleTypeOK, OracleState
<1>5. ASSUME NEW token \in Tokens, NEW feed \in FeedConfigs \union {None},
             oracle' = [oracle EXCEPT !.feeds[token] = feed], UNCHANGED <<reports, seq>>
      PROVE  OracleTypeOK'
  <2> DEFINE feeds == [oracle.feeds EXCEPT ![token] = feed]
  <2>1. feeds \in [Tokens -> FeedConfigs \union {None}]
    BY <1>1 DEF OracleState
  <2>2. oracle' = [oracle EXCEPT !.feeds = feeds]
    BY <1>5
  <2> HIDE DEF feeds
  <2> QED
    BY <1>1, <1>5, <2>1, <2>2 DEF OracleTypeOK, OracleState
<1>6. ASSUME NEW token \in Tokens, NEW report \in Reports \union {None},
             Report(token, report)
      PROVE  OracleTypeOK'
  BY <1>1, <1>6 DEF Report, OracleTypeOK
<1>7. ASSUME CloseLedger
      PROVE  OracleTypeOK'
  BY <1>1, <1>7 DEF CloseLedger, OracleTypeOK
<1> QED
  BY <1>2, <1>3, <1>4, <1>5, <1>6, <1>7
     DEF OracleNext, OracleStep, SetSep40Feed, RemoveSep40Feed

-----------------------------------------------------------------------------
(* Reading                                                                  *)

(* The two feeds of a pair that is priced from them.                        *)
LEMMA FeedsAnswer ==
  ASSUME OracleTypeOK, NEW in \in Tokens, NEW out \in Tokens,
         FedPair(in, out), HasPrice(in, out)
  PROVE  /\ ReadOracle(in, out) = CrossRate(in, out)
         /\ reports[in].price \in Nat \ {0} /\ reports[out].price \in Nat \ {0}
         /\ TokenDecimals[in] + oracle.feeds[in].oracle_decimals \in Nat
         /\ TokenDecimals[out] + oracle.feeds[out].oracle_decimals \in Nat
<1>1. /\ Sep40Answers(in) /\ Sep40Answers(out)
      /\ ReadOracle(in, out) = CrossRate(in, out)
  BY DEF HasPrice, ReadOracle
<1>2. ASSUME NEW t \in Tokens, oracle.feeds[t] # None, Sep40Answers(t)
      PROVE  /\ reports[t].price \in Nat \ {0}
             /\ TokenDecimals[t] + oracle.feeds[t].oracle_decimals \in Nat
  <2>1. oracle.feeds \in [Tokens -> FeedConfigs \union {None}]
        /\ reports \in [Tokens -> Reports \union {None}]
    BY DEF OracleTypeOK, OracleState
  <2>2. reports[t] \in Reports /\ reports[t].price > 0 /\ oracle.feeds[t] \in FeedConfigs
    BY <1>2, <2>1 DEF Sep40Answers
  <2>3. reports[t] \in [price : Int, timestamp : Nat] /\ TokenDecimals[t] \in Nat
        /\ oracle.feeds[t] \in [max_age_secs : Nat, oracle_decimals : Nat]
    BY <2>2, OracleAssumption
  <2>4. reports[t].price \in Int /\ oracle.feeds[t].oracle_decimals \in Nat
    BY <2>3
  <2> QED
    BY <2>2, <2>3, <2>4
<1> QED
  BY <1>1, <1>2 DEF FedPair

(* A price that may be acted on is a positive fraction, whichever source.   *)
LEMMA PricePositive ==
  ASSUME OracleTypeOK, NEW in \in Tokens, NEW out \in Tokens, HasPrice(in, out)
  PROVE  /\ ReadOracle(in, out).num \in Nat \ {0}
         /\ ReadOracle(in, out).den \in Nat \ {0}
<1>1. CASE FedPair(in, out)
  <2> DEFINE e_num == TokenDecimals[out] + oracle.feeds[out].oracle_decimals
             e_den == TokenDecimals[in] + oracle.feeds[in].oracle_decimals
             common == IF e_num < e_den THEN e_num ELSE e_den
  <2>1. /\ ReadOracle(in, out).num = reports[in].price * Pow10[e_num - common]
        /\ ReadOracle(in, out).den = reports[out].price * Pow10[e_den - common]
    BY <1>1, FeedsAnswer DEF CrossRate
  <2>2. /\ reports[in].price \in Nat \ {0} /\ reports[out].price \in Nat \ {0}
        /\ e_num \in Nat /\ e_den \in Nat
    BY <1>1, FeedsAnswer
  <2> HIDE DEF e_num, e_den
  <2>3. e_num - common \in Nat /\ e_den - common \in Nat
    BY <2>2
  <2> HIDE DEF common
  <2>4. ASSUME NEW a \in Nat \ {0}, NEW b \in Nat \ {0} PROVE a * b \in Nat \ {0}
    BY SMT
  <2> QED
    BY <2>1, <2>2, <2>3, <2>4, Pow10Positive
<1>2. CASE ~FedPair(in, out)
  <2>1. ReadOracle(in, out) = oracle.pushed[<<in, out>>] /\ ReadOracle(in, out) # None
    BY <1>2 DEF ReadOracle, HasPrice
  <2>2. oracle.pushed \in [Tokens \X Tokens -> Price \union {None}]
    BY DEF OracleTypeOK, OracleState
  <2>3. ReadOracle(in, out) \in Price
    BY <2>1, <2>2
  <2> QED
    BY <2>3 DEF Price
<1> QED
  BY <1>1, <1>2

(* read_oracle normalises by both tokens' and both feeds' decimals and      *)
(* cancels the shared power of ten before it multiplies: the rate is still  *)
(* the ratio of the reported values, however the decimals differ.           *)
LEMMA CrossRateNormalised ==
  ASSUME OracleTypeOK
  PROVE  CrossRateIsValueRatio
<1>1. SUFFICES ASSUME NEW in \in Tokens, NEW out \in Tokens,
                      FedPair(in, out), HasPrice(in, out)
      PROVE  ReadOracle(in, out).num * reports[out].price
               * Pow10[TokenDecimals[in] + oracle.feeds[in].oracle_decimals]
             = ReadOracle(in, out).den * reports[in].price
               * Pow10[TokenDecimals[out] + oracle.feeds[out].oracle_decimals]
  BY DEF CrossRateIsValueRatio
<1> DEFINE e_num == TokenDecimals[out] + oracle.feeds[out].oracle_decimals
           e_den == TokenDecimals[in] + oracle.feeds[in].oracle_decimals
           common == IF e_num < e_den THEN e_num ELSE e_den
           x == Pow10[e_num - common]
           y == Pow10[e_den - common]
           c == Pow10[common]
           given == reports[in].price
           taken == reports[out].price
<1>2. ReadOracle(in, out).num = given * x /\ ReadOracle(in, out).den = taken * y
  BY <1>1, FeedsAnswer DEF CrossRate
<1>3. given \in Nat /\ taken \in Nat /\ e_num \in Nat /\ e_den \in Nat
  BY <1>1, FeedsAnswer
<1>4. /\ common \in Nat /\ e_num - common \in Nat /\ e_den - common \in Nat
      /\ e_num = (e_num - common) + common /\ e_den = (e_den - common) + common
  <2> HIDE DEF e_num, e_den
  <2> QED
    BY <1>3
<1> HIDE DEF common
<1>5. x \in Nat /\ y \in Nat /\ c \in Nat
  BY <1>4, Pow10Positive
<1>6. Pow10[e_num] = x * c /\ Pow10[e_den] = y * c
  <2> HIDE DEF e_num, e_den
  <2>1. /\ Pow10[(e_num - common) + common] = Pow10[e_num - common] * Pow10[common]
        /\ Pow10[(e_den - common) + common] = Pow10[e_den - common] * Pow10[common]
    BY <1>4, Pow10Adds
  <2> QED
    BY <1>4, <2>1
<1> HIDE DEF x, y, c, given, taken
<1>7. given * x * taken * (y * c) = taken * y * given * (x * c)
  BY <1>3, <1>5, SMT
<1> QED
  BY <1>2, <1>6, <1>7 DEF given, taken, e_num, e_den

(* Whatever feeds the admins register and remove and whatever they report,  *)
(* every rate read_oracle crosses is the ratio of the two reported values.  *)
THEOREM CrossRateSafe ==
  OracleInit /\ [][OracleNext]_oracleVars => []CrossRateIsValueRatio
<1>1. OracleInit => OracleTypeOK
  BY OracleInitTyped
<1>2. OracleTypeOK /\ [OracleNext]_oracleVars => OracleTypeOK'
  <2>1. OracleTypeOK /\ UNCHANGED oracleVars => OracleTypeOK'
    BY DEF OracleTypeOK, oracleVars
  <2> QED
    BY <2>1, OracleStepTyped
<1>3. OracleTypeOK => CrossRateIsValueRatio
  BY CrossRateNormalised
<1> QED
  BY <1>1, <1>2, <1>3, PTL
=============================================================================
