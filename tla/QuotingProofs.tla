---------------------------- MODULE QuotingProofs ----------------------------
(***************************************************************************)
(* Nothing the cache answers is more than the pool itself would have given  *)
(* within the time to live: whatever pools there are, however often they    *)
(* trade, whatever was asked, remembered, forgotten or failed.  And the     *)
(* quote a form shows at last is for what the form says.                    *)
(***************************************************************************)
EXTENDS Quoting, SwapWidget, FiniteSetTheorems, TLAPS

-----------------------------------------------------------------------------
(* Numbers.  (The contracts' proofs have these lemmas too, of modules with  *)
(* other variables.)                                                        *)

(* Floor division is the largest quotient that does not exceed.             *)
LEMMA DivBounds ==
  ASSUME NEW a \in Int, NEW d \in Int, d > 0
  PROVE  /\ a \div d \in Int
         /\ d * (a \div d) <= a
         /\ a < d * (a \div d) + d
  BY SMT

(* A factor keeps an order.                                                 *)
LEMMA ProductMonotone ==
  ASSUME NEW a \in Int, NEW b \in Int, NEW c \in Nat, a <= b
  PROVE  c * a <= c * b
  BY SMT

(* Cancelling a positive factor from a bound with slack less than it.       *)
LEMMA Cancel ==
  ASSUME NEW a \in Int, NEW b \in Int, NEW d \in Int, d > 0, d * a < d * b + d
  PROVE  a <= b
<1>1. SUFFICES ASSUME a >= b + 1 PROVE FALSE
  BY SMT
<1>2. d * (b + 1) <= d * a
  BY <1>1, ProductMonotone
<1>3. d * (b + 1) = d * b + d
  BY SMT
<1> QED
  BY <1>2, <1>3, SMT

(* Induction over the naturals, as the existence of a least counterexample. *)
LEMMA LeastNatural ==
  ASSUME NEW T, T \subseteq Nat, T # {}
  PROVE  \E n \in T : \A m \in T : n <= m
<1> DEFINE less == OpToRel(<, Nat)
<1>1. \A m, n \in Nat : m < n => <<m, n>> \in less
  BY DEF OpToRel
<1>2. IsWellFoundedOn(less, Nat)
  BY NatLessThanWellFounded
<1> HIDE DEF less
<1>3. PICK n \in T : \A m \in T : ~ (<<m, n>> \in less)
  BY <1>2, WFMin
<1>4. ASSUME NEW m \in T PROVE n <= m
  <2>1. m \in Nat /\ n \in Nat /\ ~ (m < n)
    BY <1>1, <1>3
  <2> QED
    BY <2>1
<1> QED
  BY <1>4

(* Induction over the subsets of a finite set, as the existence of a least  *)
(* counterexample.                                                          *)
LEMMA LeastSubset ==
  ASSUME NEW S, IsFiniteSet(S), NEW T, T \subseteq SUBSET S, T # {}
  PROVE  \E U \in T : \A V \in T : V \subseteq U => V = U
<1>1. IsWellFoundedOn(StrictSubsetOrdering(S), SUBSET S)
  BY FS_StrictSubsetOrderingWellFounded, FS_FiniteSubsetsOfFinite
<1>2. \E U \in T : \A V \in T : ~ (<<V, U>> \in StrictSubsetOrdering(S))
  BY <1>1, WFMin
<1> QED
  BY <1>2 DEF StrictSubsetOrdering

(* Numbers in order: such a list exists, so that is what CHOOSE gives.      *)
Enumerates(s, ids) ==
  /\ s \in [1..Cardinality(ids) -> ids]
  /\ \A i, j \in DOMAIN s : i < j => s[i] < s[j]

Unordered(ids) == {u \in SUBSET ids : ~ \E s : Enumerates(s, u)}

LEMMA InOrderTyped ==
  ASSUME NEW ids, ids \subseteq Nat, IsFiniteSet(ids)
  PROVE  InOrder(ids) \in [1..Cardinality(ids) -> ids]
<1>1. SUFFICES ASSUME Unordered(ids) # {} PROVE FALSE
  BY DEF InOrder, Enumerates, Unordered
<1>2. PICK u \in Unordered(ids) : \A v \in Unordered(ids) : v \subseteq u => v = u
  <2>1. Unordered(ids) \subseteq SUBSET ids
    BY DEF Unordered
  <2> QED
    BY <1>1, <2>1, LeastSubset
<1>3. u \subseteq ids /\ IsFiniteSet(u) /\ u \subseteq Nat /\ ~ \E s : Enumerates(s, u)
  BY <1>2, FS_Subset DEF Unordered
<1>4. u # {}
  <2>1. ASSUME u = {} PROVE FALSE
    <3>1. Cardinality(u) = 0
      BY <2>1, FS_EmptySet
    <3>2. Enumerates(<<>>, u)
      BY <3>1 DEF Enumerates
    <3> QED
      BY <1>3, <3>2
  <2> QED
    BY <2>1
<1>5. PICK m \in u : \A x \in u : m <= x
  BY <1>3, <1>4, LeastNatural
<1> DEFINE rest == u \ {m}
<1>6. rest \notin Unordered(ids)
  BY <1>2, <1>5
<1>7. PICK s : Enumerates(s, rest)
  BY <1>3, <1>6 DEF Unordered
<1>8. /\ Cardinality(u) \in Nat /\ Cardinality(rest) = Cardinality(u) - 1
      /\ Cardinality(rest) \in Nat
  <2>1. IsFiniteSet(rest) /\ Cardinality(rest) = Cardinality(u) - 1
    BY <1>3, <1>5, FS_RemoveElement
  <2> QED
    BY <1>3, <2>1, FS_CardinalityType
<1> DEFINE n == Cardinality(u)
           t == [i \in 1..n |-> IF i = 1 THEN m ELSE s[i - 1]]
<1>9. s \in [1..(n - 1) -> rest] /\ \A i, j \in 1..(n - 1) : i < j => s[i] < s[j]
  BY <1>7, <1>8 DEF Enumerates
<1>10. \A x \in rest : x \in u /\ x \in Nat /\ m < x
  BY <1>3, <1>5
<1>11. n \in Nat /\ m \in Nat
  BY <1>3, <1>5, <1>8
<1> HIDE DEF n, rest
<1>12. \A i \in 1..n : i # 1 => i - 1 \in 1..(n - 1) /\ t[i] = s[i - 1] /\ t[i] \in rest
  BY <1>9, <1>11
<1>13. t \in [1..n -> u]
  BY <1>5, <1>10, <1>12
<1>14. ASSUME NEW i \in 1..n, NEW j \in 1..n, i < j PROVE t[i] < t[j]
  <2>1. j # 1 /\ t[j] = s[j - 1] /\ t[j] \in rest /\ j - 1 \in 1..(n - 1)
    BY <1>11, <1>12, <1>14
  <2>2. CASE i = 1
    BY <1>10, <2>1, <2>2
  <2>3. CASE i # 1
    <3>1. t[i] = s[i - 1] /\ i - 1 \in 1..(n - 1) /\ i - 1 < j - 1
      BY <1>11, <1>12, <1>14, <2>3
    <3> QED
      BY <1>9, <2>1, <3>1
  <2> QED
    BY <2>2, <2>3
<1>15. Enumerates(t, u)
  BY <1>13, <1>14 DEF Enumerates, n
<1> QED
  BY <1>3, <1>15

-----------------------------------------------------------------------------
(* Reading off.  An answer is a point's own, a zero, an average rate shaved *)
(* by a unit's worth, or a chord.                                           *)

LEMMA AboveOne ==
  ASSUME NEW pts, NEW x, \A p \in pts : p.in \in Nat, NEW a \in pts, a.in > x
  PROVE  Above(pts, x) \in pts /\ Above(pts, x).in > x
<1> DEFINE T == {p.in : p \in {q \in pts : q.in > x}}
<1>1. T \subseteq Nat /\ T # {}
  OBVIOUS
<1>2. PICK n \in T : \A m \in T : n <= m
  BY <1>1, LeastNatural
<1>3. \E p \in pts : p.in > x /\ \A q \in pts : q.in > x => q.in >= p.in
  <2>1. PICK p \in pts : p.in > x /\ p.in = n
    BY <1>2
  <2>2. ASSUME NEW q \in pts, q.in > x PROVE q.in >= p.in
    BY <1>1, <1>2, <2>1, <2>2
  <2> QED
    BY <2>1, <2>2
<1> QED
  BY <1>3 DEF Above

LEMMA BelowOne ==
  ASSUME NEW pts, NEW x \in Nat, \A p \in pts : p.in \in Nat, NEW a \in pts, a.in < x
  PROVE  Below(pts, x) \in pts /\ Below(pts, x).in < x
<1> DEFINE T == {x - p.in : p \in {q \in pts : q.in < x}}
<1>1. T \subseteq Nat /\ T # {}
  OBVIOUS
<1>2. PICK n \in T : \A m \in T : n <= m
  BY <1>1, LeastNatural
<1>3. \E p \in pts : p.in < x /\ \A q \in pts : q.in < x => q.in <= p.in
  <2>1. PICK p \in pts : p.in < x /\ x - p.in = n
    BY <1>2
  <2>2. ASSUME NEW q \in pts, q.in < x PROVE q.in <= p.in
    <3>1. x - q.in \in T
      BY <2>2
    <3>2. n <= x - q.in
      BY <1>2, <3>1
    <3> HIDE DEF T
    <3> QED
      BY <2>1, <2>2, <3>2
  <2> QED
    BY <2>1, <2>2
<1> QED
  BY <1>3 DEF Below

IsPoints(pts) == \A p \in pts : p.in \in Nat /\ p.out \in Nat

LEMMA ReadsFrom ==
  ASSUME NEW pts, IsPoints(pts), NEW x \in Nat, ReadOff(pts, x) # None
  PROVE  \/ \E p \in pts : p.in = x /\ ReadOff(pts, x) = p.out
         \/ pts # {} /\ ReadOff(pts, x) = 0
         \/ \E hi \in pts : hi.in > x /\ hi.out > 0 /\ ReadOff(pts, x) = ScaledBelow(hi, x)
         \/ \E lo, hi \in pts :
              /\ lo.in < x /\ x < hi.in /\ lo.out > 0 /\ hi.out > 0 /\ lo.out <= hi.out
              /\ ReadOff(pts, x) = Chord(lo, hi, x)
<1> DEFINE hi == Above(pts, x)
           lo == Below(pts, x)
<1>1. \A p \in pts : p.in \in Nat /\ p.out \in Nat
  BY DEF IsPoints
<1>2. CASE \E p \in pts : p.in = x
  <2>1. ReadOff(pts, x) = (CHOOSE p \in pts : p.in = x).out
    BY <1>2 DEF ReadOff
  <2> QED
    BY <1>2, <2>1
<1>3. CASE ~ \E p \in pts : p.in = x
  <2>1. ~ \A p \in pts : p.in < x
    BY <1>3 DEF ReadOff
  <2>2. PICK a \in pts : a.in > x
    BY <1>1, <1>3, <2>1
  <2>3. hi \in pts /\ hi.in > x /\ hi.out \in Nat
    BY <1>1, <2>2, AboveOne
  <2>4. CASE \A p \in pts : p.in > x
    <3>1. ReadOff(pts, x) = IF hi.out = 0 THEN 0 ELSE ScaledBelow(hi, x)
      BY <1>3, <2>1, <2>4 DEF ReadOff
    <3>2. CASE hi.out = 0
      BY <2>3, <3>1, <3>2
    <3>3. CASE hi.out # 0
      BY <2>3, <3>1, <3>3
    <3> QED
      BY <3>2, <3>3
  <2>5. CASE ~ \A p \in pts : p.in > x
    <3>1. PICK b \in pts : b.in < x
      BY <1>1, <1>3, <2>5
    <3>2. lo \in pts /\ lo.in < x /\ lo.out \in Nat
      BY <1>1, <3>1, BelowOne
    <3>3. /\ lo.out # 0 /\ hi.out # 0 /\ ~ (hi.out < lo.out)
          /\ ReadOff(pts, x) = Chord(lo, hi, x)
      BY <1>3, <2>1, <2>5 DEF ReadOff
    <3>4. lo.out > 0 /\ hi.out > 0 /\ lo.out <= hi.out
      BY <2>3, <3>2, <3>3
    <3> HIDE DEF lo, hi
    <3> QED
      BY <2>3, <3>2, <3>3, <3>4
  <2> QED
    BY <2>4, <2>5
<1> QED
  BY <1>2, <1>3

(* The shave makes up for the rounding of the fee.                          *)
LEMMA ScaledUnder ==
  ASSUME NEW pt, pt.in \in Nat, pt.in > 0, pt.out \in Nat, NEW x \in Nat
  PROVE  /\ ScaledBelow(pt, x) \in Nat
         /\ \A y \in Nat : x * pt.out < (y + 1) * pt.in + pt.out => ScaledBelow(pt, x) <= y
<1> DEFINE n == pt.in
           o == pt.out
           scaled == (x * o) \div n
           unit == (o + n - 1) \div n
<1>1. n \in Nat /\ n > 0 /\ o \in Nat /\ x * o \in Int /\ o + n - 1 \in Int
  OBVIOUS
<1>2. ScaledBelow(pt, x) = IF scaled > unit THEN scaled - unit ELSE 0
  BY DEF ScaledBelow
<1> HIDE DEF n, o
<1>3. scaled \in Int /\ n * scaled <= x * o
  BY <1>1, DivBounds
<1>4. unit \in Int /\ o + n - 1 < n * unit + n
  BY <1>1, DivBounds
<1> HIDE DEF scaled, unit
<1>5. ScaledBelow(pt, x) \in Nat
  BY <1>2, <1>3, <1>4
<1>6. ASSUME NEW y \in Nat, x * o < (y + 1) * n + o PROVE ScaledBelow(pt, x) <= y
  <2>1. /\ (y + 1) * n = n * y + n
        /\ n * (y + unit) = n * y + n * unit
        /\ n * y \in Int /\ n * unit \in Int /\ n * scaled \in Int
    BY <1>1, <1>4, <1>3, SMT
  <2>2. o <= n * unit
    BY <1>1, <1>4, <2>1
  <2>3. n * scaled < n * (y + unit) + n
    BY <1>1, <1>3, <1>6, <2>1, <2>2
  <2>4. scaled <= y + unit
    BY <1>1, <1>3, <1>4, <2>3, Cancel
  <2> QED
    BY <1>2, <1>3, <1>4, <2>4
<1> QED
  BY <1>5, <1>6 DEF n, o

(* A chord of lower points is lower.                                        *)
LEMMA ChordUnder ==
  ASSUME NEW lo, NEW hi, lo.in \in Nat, lo.out \in Nat, hi.in \in Nat, hi.out \in Nat,
         NEW x \in Nat, lo.in < x, x < hi.in, lo.out <= hi.out
  PROVE  /\ Chord(lo, hi, x) \in Nat
         /\ \A a, b, y \in Nat :
              /\ lo.out <= a /\ hi.out <= b
              /\ (hi.in - x) * a + (x - lo.in) * b < (y + 1) * (hi.in - lo.in)
              => Chord(lo, hi, x) <= y
<1> DEFINE u == x - lo.in
           w == hi.in - x
           d == hi.in - lo.in
           l == lo.out
           h == hi.out
           c == (u * (h - l)) \div d
<1>1. /\ u \in Nat /\ w \in Nat /\ d \in Nat /\ d > 0 /\ d = u + w
      /\ l \in Nat /\ h \in Nat /\ l <= h
  OBVIOUS
<1>2. Chord(lo, hi, x) = l + c
  BY DEF Chord
<1> HIDE DEF u, w, d, l, h
<1>3. u * (h - l) \in Int /\ u * 0 <= u * (h - l)
  BY <1>1, ProductMonotone
<1>4. c \in Int /\ d * c <= u * (h - l) /\ u * (h - l) < d * c + d
  BY <1>1, <1>3, DivBounds
<1> HIDE DEF c
<1>5. 0 <= c
  <2>1. d * 0 < d * c + d
    BY <1>1, <1>3, <1>4
  <2> QED
    BY <1>1, <1>4, <2>1, Cancel
<1>6. ASSUME NEW a \in Nat, NEW b \in Nat, NEW y \in Nat, l <= a, h <= b,
             w * a + u * b < (y + 1) * d
      PROVE  l + c <= y
  <2>1. w * l <= w * a /\ u * h <= u * b
    BY <1>1, <1>6, ProductMonotone
  <2>2. /\ u * (h - l) = u * h - u * l
        /\ d * (l + c) = d * l + d * c
        /\ (y + 1) * d = d * y + d
        /\ u * h \in Int /\ u * l \in Int /\ d * l \in Int /\ d * c \in Int /\ d * y \in Int
    BY <1>1, <1>4, SMT
  <2>3. d * l = u * l + w * l
    BY <1>1, SMT
  <2>4. w * l \in Int /\ w * a \in Int /\ u * b \in Int
    BY <1>1, <1>6, SMT
  <2>5. d * (l + c) <= u * l + w * l + (u * h - u * l)
    BY <1>4, <2>2, <2>3
  <2>6. d * (l + c) <= w * l + u * h
    BY <2>2, <2>4, <2>5
  <2>7. w * l + u * h <= w * a + u * b
    BY <2>1, <2>2, <2>4
  <2>8. w * a + u * b < d * y + d
    BY <1>6, <2>2
  <2>9. d * (l + c) \in Int /\ w * l + u * h \in Int /\ w * a + u * b \in Int /\ d * y + d \in Int
    BY <1>1, <1>4, <2>2, <2>4, SMT
  <2>10. d * (l + c) < d * y + d
    BY <2>6, <2>7, <2>8, <2>9
  <2>11. l + c \in Int /\ y \in Int /\ d \in Int /\ d > 0
    BY <1>1, <1>4
  <2> QED
    BY <2>10, <2>11, Cancel
<1> QED
  BY <1>1, <1>2, <1>4, <1>5, <1>6 DEF u, w, d, l, h

(* An answer is an amount.                                                  *)
LEMMA ReadsTyped ==
  ASSUME NEW pts, IsPoints(pts), NEW x \in Nat
  PROVE  ReadOff(pts, x) \in Nat \union {None}
<1>1. SUFFICES ASSUME ReadOff(pts, x) # None PROVE ReadOff(pts, x) \in Nat
  OBVIOUS
<1>2. ASSUME NEW hi \in pts, hi.in > x PROVE ScaledBelow(hi, x) \in Nat
  <2>1. hi.in \in Nat /\ hi.in > 0 /\ hi.out \in Nat
    BY <1>2 DEF IsPoints
  <2> QED
    BY <2>1, ScaledUnder
<1>3. ASSUME NEW lo \in pts, NEW hi \in pts, lo.in < x, x < hi.in, lo.out <= hi.out
      PROVE  Chord(lo, hi, x) \in Nat
  <2>1. lo.in \in Nat /\ lo.out \in Nat /\ hi.in \in Nat /\ hi.out \in Nat
    BY DEF IsPoints
  <2> QED
    BY <1>3, <2>1, ChordUnder
<1>4. \/ \E p \in pts : p.in = x /\ ReadOff(pts, x) = p.out
      \/ pts # {} /\ ReadOff(pts, x) = 0
      \/ \E hi \in pts : hi.in > x /\ hi.out > 0 /\ ReadOff(pts, x) = ScaledBelow(hi, x)
      \/ \E lo, hi \in pts :
           /\ lo.in < x /\ x < hi.in /\ lo.out > 0 /\ hi.out > 0 /\ lo.out <= hi.out
           /\ ReadOff(pts, x) = Chord(lo, hi, x)
  BY <1>1, ReadsFrom
<1>5. \A p \in pts : p.out \in Nat
  BY DEF IsPoints
<1> QED
  BY <1>2, <1>3, <1>4, <1>5

-----------------------------------------------------------------------------
(* The invariant.                                                           *)

(* The market's history reaches back a time to live.                        *)
MarketOK ==
  /\ now \in Nat /\ market \in [AllPools -> Nat] /\ recent \in [AllPools -> SUBSET (Nat \X Nat)]
  /\ \A p \in AllPools :
       /\ market[p] \in DOMAIN Quotes[p] /\ <<market[p], now>> \in recent[p]
       /\ \A r \in recent[p] : r[1] \in DOMAIN Quotes[p]

(* A point that counts is a zero, or what its pool gave in a state that it  *)
(* was in when the point was taken.                                         *)
Given(p, pt) ==
  \/ pt.out = 0
  \/ \E r \in recent[p] : r[2] >= pt.ts /\ pt.out = Quotes[p][r[1]][pt.in]

PointsIn(pts) ==
  /\ pts \in [AllPools -> SUBSET [in : Nat, out : Nat, ts : Nat]]
  /\ \A p \in AllPools : \A pt \in pts[p] :
       pt.in \in Sizes(p) /\ pt.ts <= now /\ (pt.ts >= now - TTL => Given(p, pt))

PointsOK == PointsIn(points)

AnswersOf(v) == [pool : 0..Len(Pools[v]), out : Nat \union {None}]

LevelsOK(levels) == levels \in Seq(Nat) /\ \A i \in DOMAIN levels : levels[i] \in Probed

AnswersOK(levels, answers) ==
  /\ DOMAIN answers \in SUBSET Venues /\ answers = [v \in DOMAIN answers |-> answers[v]]
  /\ \A v \in DOMAIN answers : answers[v] \in [DOMAIN levels -> AnswersOf(v)]

(* Whatever is under way, a request waits for it.                           *)
RequestOK ==
  /\ request = None => flights = {}
  /\ request # None =>
       /\ request = [amount |-> request.amount, levels |-> request.levels,
                     answers |-> request.answers]
       /\ request.amount \in Requested
       /\ LevelsOK(request.levels) /\ AnswersOK(request.levels, request.answers)
       /\ flights \subseteq Awaited(request.levels, request.answers)

CacheInv == MarketOK /\ PointsOK /\ RequestOK

-----------------------------------------------------------------------------
(* What is asked, and what is answered.                                     *)

LEMMA ProbedTyped ==
  Probed \subseteq Nat \ {0}
<1>1. Requested \subseteq Nat \ {0} /\ DEPTH_LEVELS \subseteq Nat \ {0}
  BY QuotingAssumption
<1> QED
  BY <1>1 DEF Probed, Price

LEMMA AskedTyped ==
  ASSUME NEW v, NEW x \in Probed
  PROVE  AskedOf(v, x) \in Probed
BY DEF AskedOf, Probed

LEMMA PoolTyped ==
  ASSUME NEW v \in Venues, NEW k \in 1..Len(Pools[v])
  PROVE  Pools[v][k] \in AllPools
<1>1. Pools[v] \in Seq(AllPools)
  BY QuotingAssumption
<1> QED
  BY <1>1

LEMMA QuoteTyped ==
  ASSUME NEW p \in AllPools, NEW s \in DOMAIN Quotes[p]
  PROVE  /\ Quotes[p][s] \in [Sizes(p) -> Nat]
         /\ Sizes(p) \subseteq Nat \ {0} /\ Probed \subseteq Sizes(p)
         /\ DOMAIN Quotes[p] \subseteq Nat /\ 1 \in DOMAIN Quotes[p]
<1>1. /\ Quotes[p] # <<>> /\ Quotes[p] \in Seq([Sizes(p) -> Nat])
      /\ Sizes(p) \subseteq Nat \ {0} /\ Probed \subseteq Sizes(p)
  BY SizesAssumption
<1> QED
  BY <1>1

LEMMA LevelsTyped ==
  ASSUME NEW amount \in Requested
  PROVE  LevelsOK(Levels(amount))
<1> DEFINE ids == {d \in DEPTH_LEVELS : d <= 2 * amount} \union {amount}
<1>1. ids \subseteq Probed
  BY DEF Probed
<1>2. ids \subseteq Nat
  BY <1>1, ProbedTyped
<1>3. IsFiniteSet({d \in DEPTH_LEVELS : d <= 2 * amount})
  BY QuotingAssumption, FS_Subset
<1>4. IsFiniteSet(ids)
  BY <1>3, FS_AddElement
<1>5. Cardinality(ids) \in Nat
  BY <1>4, FS_CardinalityType
<1>6. Levels(amount) = InOrder(ids)
  BY DEF Levels
<1> HIDE DEF ids
<1>7. InOrder(ids) \in [1..Cardinality(ids) -> ids]
  BY <1>2, <1>4, InOrderTyped
<1>8. InOrder(ids) \in Seq(Nat)
  <2> DEFINE n == Cardinality(ids)
             s == InOrder(ids)
  <2>1. n \in Nat /\ s \in [1..n -> Nat]
    BY <1>2, <1>5, <1>7
  <2> HIDE DEF n, s
  <2>2. s \in Seq(Nat)
    BY <2>1
  <2> QED
    BY <2>2 DEF s
<1>9. \A i \in DOMAIN InOrder(ids) : InOrder(ids)[i] \in Probed
  BY <1>1, <1>7
<1> QED
  BY <1>6, <1>8, <1>9 DEF LevelsOK

LEMMA FreshPoints ==
  ASSUME PointsOK, NEW p \in AllPools
  PROVE  Fresh(p) \subseteq points[p] /\ IsPoints(Fresh(p))
BY DEF PointsOK, PointsIn, Fresh, IsPoints

(* The pool that is asked is one of the venue's.                            *)
LEMMA ConsultTyped ==
  ASSUME PointsOK, NEW v \in Venues, NEW k \in 1..Len(Pools[v]), NEW x \in Nat
  PROVE  Consult(v, k, x) \in AnswersOf(v) /\ Consult(v, k, x).pool # 0
<1> DEFINE n == Len(Pools[v])
           out(j) == ReadOff(Fresh(Pools[v][j]), x)
           stops == {j \in k..n : out(j) # 0 \/ j = n}
           asked == CHOOSE j \in stops : \A i \in stops : j <= i
<1>1. n \in Nat /\ k \in 1..n
  <2>1. Pools[v] \in Seq(AllPools)
    BY QuotingAssumption
  <2> QED
    BY <2>1
<1>2. n \in stops /\ stops \subseteq Nat /\ stops \subseteq 1..n
  BY <1>1
<1>3. \E j \in stops : \A i \in stops : j <= i
  <2> HIDE DEF stops
  <2> QED
    BY <1>2, LeastNatural
<1>4. asked \in stops
  <2> HIDE DEF stops
  <2> QED
    BY <1>3
<1>5. asked \in 1..n
  BY <1>2, <1>4
<1>6. Consult(v, k, x) = [pool |-> asked, out |-> out(asked)]
  BY DEF Consult
<1> HIDE DEF asked, stops
<1>7. Pools[v][asked] \in AllPools
  BY <1>5, PoolTyped
<1>8. IsPoints(Fresh(Pools[v][asked]))
  BY <1>7, FreshPoints
<1>9. out(asked) \in Nat \union {None}
  BY <1>8, ReadsTyped
<1> HIDE DEF out
<1> QED
  BY <1>1, <1>5, <1>6, <1>9 DEF AnswersOf

(* Going on leaves what waits alone.                                        *)
LEMMA ProceedTyped ==
  ASSUME PointsOK, NEW v \in Venues, NEW levels, LevelsOK(levels),
         NEW answers \in [DOMAIN levels -> AnswersOf(v)]
  PROVE  /\ Proceed(v, levels, answers) \in [DOMAIN levels -> AnswersOf(v)]
         /\ \A i \in DOMAIN levels :
              Waits(answers[i]) => Proceed(v, levels, answers)[i] = answers[i]
<1> DEFINE asked == [i \in DOMAIN levels |-> Asked(v, levels[i], answers[i])]
           waits(i) == v \in Sequential /\ \E j \in 1..(i - 1) : asked[j].out = None
<1>1. ASSUME NEW i \in DOMAIN levels
      PROVE  /\ Asked(v, levels[i], answers[i]) \in AnswersOf(v)
             /\ Waits(answers[i]) => Asked(v, levels[i], answers[i]) = answers[i]
  <2>1. AskedOf(v, levels[i]) \in Nat
    BY AskedTyped, ProbedTyped DEF LevelsOK
  <2>2. 1 \in 1..Len(Pools[v])
    <3>1. Pools[v] \in Seq(AllPools) /\ Pools[v] # <<>>
      BY QuotingAssumption
    <3> QED
      BY <3>1
  <2>3. Consult(v, 1, AskedOf(v, levels[i])) \in AnswersOf(v)
    BY <2>1, <2>2, ConsultTyped
  <2>4. Waits(answers[i]) => answers[i] # Unasked
    BY DEF Waits, Unasked
  <2> QED
    BY <2>3, <2>4 DEF Asked
<1>2. Proceed(v, levels, answers) = [i \in DOMAIN levels |-> IF waits(i) THEN answers[i] ELSE asked[i]]
  BY DEF Proceed
<1> HIDE DEF waits
<1> QED
  BY <1>1, <1>2

(* Who waited for a simulation has its outcome or waits for the next pool;  *)
(* who waits for another one still does.                                    *)
LEMMA ToldTyped ==
  ASSUME PointsOK, NEW v \in Venues, NEW levels, LevelsOK(levels),
         NEW answers \in [DOMAIN levels -> AnswersOf(v)], NEW flight, NEW out \in Nat
  PROVE  /\ Told(v, levels, answers, flight, out) \in [DOMAIN levels -> AnswersOf(v)]
         /\ \A i \in DOMAIN levels :
              /\ Waits(answers[i])
              /\ <<Pools[v][answers[i].pool], AskedOf(v, levels[i])>> # flight
              => Told(v, levels, answers, flight, out)[i] = answers[i]
<1> DEFINE told(i) ==
      LET a == answers[i]
      IN IF ~(Waits(a) /\ <<Pools[v][a.pool], AskedOf(v, levels[i])>> = flight) THEN a
         ELSE IF out = 0 /\ a.pool < Len(Pools[v])
              THEN Consult(v, a.pool + 1, AskedOf(v, levels[i]))
         ELSE [a EXCEPT !.out = out]
<1>1. Told(v, levels, answers, flight, out) = [i \in DOMAIN levels |-> told(i)]
  BY DEF Told
<1>2. ASSUME NEW i \in DOMAIN levels PROVE told(i) \in AnswersOf(v)
  <2> DEFINE a == answers[i]
  <2>1. a \in AnswersOf(v)
    OBVIOUS
  <2>2. [a EXCEPT !.out = out] \in AnswersOf(v)
    <3> HIDE DEF a
    <3> QED
      BY <2>1 DEF AnswersOf
  <2>3. AskedOf(v, levels[i]) \in Nat
    BY AskedTyped, ProbedTyped DEF LevelsOK
  <2>4. ASSUME a.pool < Len(Pools[v])
        PROVE  Consult(v, a.pool + 1, AskedOf(v, levels[i])) \in AnswersOf(v)
    <3>1. Len(Pools[v]) \in Nat
      <4>1. Pools[v] \in Seq(AllPools)
        BY QuotingAssumption
      <4> QED
        BY <4>1
    <3>2. a.pool + 1 \in 1..Len(Pools[v])
      BY <2>1, <2>4, <3>1 DEF AnswersOf
    <3> QED
      BY <2>3, <3>2, ConsultTyped
  <2> QED
    BY <2>1, <2>2, <2>4
<1>3. ASSUME NEW i \in DOMAIN levels,
             <<Pools[v][answers[i].pool], AskedOf(v, levels[i])>> # flight
      PROVE  told(i) = answers[i]
  BY <1>3
<1> HIDE DEF told
<1> QED
  BY <1>1, <1>2, <1>3

LEMMA AwaitedTyped ==
  ASSUME NEW levels, LevelsOK(levels), NEW answers, AnswersOK(levels, answers)
  PROVE  Awaited(levels, answers) \subseteq AllPools \X Probed
<1> SUFFICES ASSUME NEW v \in DOMAIN answers, NEW i \in DOMAIN levels, Waits(answers[v][i])
             PROVE  <<Pools[v][answers[v][i].pool], AskedOf(v, levels[i])>> \in AllPools \X Probed
  BY DEF Awaited
<1>1. v \in Venues /\ answers[v][i] \in AnswersOf(v)
  BY DEF AnswersOK
<1>2. Len(Pools[v]) \in Nat
  <2>1. Pools[v] \in Seq(AllPools)
    BY <1>1, QuotingAssumption
  <2> QED
    BY <2>1
<1>3. answers[v][i].pool \in 1..Len(Pools[v])
  BY <1>1, <1>2 DEF Waits, AnswersOf
<1>4. Pools[v][answers[v][i].pool] \in AllPools
  BY <1>1, <1>3, PoolTyped
<1>5. AskedOf(v, levels[i]) \in Probed
  BY AskedTyped DEF LevelsOK
<1> QED
  BY <1>4, <1>5

-----------------------------------------------------------------------------
(* The steps.                                                               *)

LEMMA CacheInit ==
  QuotingInit => CacheInv
<1> SUFFICES ASSUME QuotingInit PROVE CacheInv
  OBVIOUS
<1>1. MarketOK
  <2>1. ASSUME NEW p \in AllPools PROVE 1 \in DOMAIN Quotes[p]
    <3>1. Quotes[p] # <<>> /\ Quotes[p] \in Seq([Sizes(p) -> Nat])
      BY SizesAssumption
    <3> QED
      BY <3>1
  <2> QED
    BY <2>1 DEF QuotingInit, MarketOK
<1>2. PointsOK
  BY DEF QuotingInit, PointsOK, PointsIn
<1>3. RequestOK
  BY DEF QuotingInit, RequestOK
<1> QED
  BY <1>1, <1>2, <1>3 DEF CacheInv

(* Fewer points.                                                            *)
LEMMA FewerPoints ==
  ASSUME NEW more, PointsIn(more), NEW pts, pts = [p \in AllPools |-> pts[p]],
         \A p \in AllPools : pts[p] \subseteq more[p]
  PROVE  PointsIn(pts)
<1>1. pts \in [AllPools -> SUBSET [in : Nat, out : Nat, ts : Nat]]
  BY DEF PointsIn
<1> QED
  BY <1>1 DEF PointsIn

(* The same market.                                                         *)
LEMMA SameMarket ==
  ASSUME MarketOK, UNCHANGED <<now, market, recent>>, PointsIn(points')
  PROVE  MarketOK' /\ PointsOK'
<1>1. MarketOK'
  BY DEF MarketOK
<1>2. \A p, pt : Given(p, pt)' = Given(p, pt)
  BY DEF Given
<1> QED
  BY <1>1, <1>2 DEF PointsIn, PointsOK

(* What the market forgets is longer ago than a time to live.               *)
Remembers(p, r, t) == \E s \in recent'[p] : s[1] = r[1] /\ s[2] >= t

LEMMA TickRemembers ==
  ASSUME MarketOK, Tick
  PROVE  /\ MarketOK'
         /\ \A p \in AllPools : \A r \in recent[p] : \A t \in Nat :
              r[2] >= t /\ t <= now /\ t >= now' - TTL => Remembers(p, r, t)
<1>1. /\ now \in Nat /\ market \in [AllPools -> Nat]
      /\ recent \in [AllPools -> SUBSET (Nat \X Nat)]
      /\ \A p \in AllPools :
           /\ market[p] \in DOMAIN Quotes[p]
           /\ \A r \in recent[p] : r[1] \in DOMAIN Quotes[p]
  BY DEF MarketOK
<1>2. /\ now' = now + 1 /\ market' = market
      /\ recent' = [p \in AllPools |->
            {s \in recent[p] : s[1] # market[p] /\ s[2] >= now' - TTL}
              \union {<<market[p], now'>>}]
  BY DEF Tick
<1>3. now' \in Nat /\ TTL \in Nat
  BY <1>1, <1>2, QuotingAssumption
<1>4. MarketOK'
  <2>1. recent' \in [AllPools -> SUBSET (Nat \X Nat)] /\ now' \in Nat
    BY <1>1, <1>2
  <2>2. ASSUME NEW p \in AllPools
        PROVE  /\ market'[p] \in DOMAIN Quotes[p] /\ <<market'[p], now'>> \in recent'[p]
               /\ \A r \in recent'[p] : r[1] \in DOMAIN Quotes[p]
    BY <1>1, <1>2
  <2> QED
    BY <1>1, <1>2, <2>1, <2>2 DEF MarketOK
<1>5. ASSUME NEW p \in AllPools, NEW r \in recent[p], NEW t \in Nat,
             r[2] >= t, t <= now, t >= now' - TTL
      PROVE  Remembers(p, r, t)
  <2>1. r[1] \in Nat /\ r[2] \in Nat
    BY <1>1
  <2>2. CASE r[1] = market[p]
    <3>1. <<market[p], now'>> \in recent'[p] /\ now' >= t
      BY <1>1, <1>2, <1>5
    <3> QED
      BY <2>2, <3>1 DEF Remembers
  <2>3. CASE r[1] # market[p]
    <3>1. r[2] >= now' - TTL
      BY <1>1, <1>2, <1>3, <1>5, <2>1
    <3>2. r \in recent'[p]
      BY <1>2, <2>3, <3>1
    <3> QED
      BY <1>5, <3>2 DEF Remembers
  <2> QED
    BY <2>2, <2>3
<1> QED
  BY <1>4, <1>5

LEMMA MoveRemembers ==
  ASSUME MarketOK, NEW pool \in AllPools, NEW state \in DOMAIN Quotes[pool], Move(pool, state)
  PROVE  /\ MarketOK'
         /\ \A p \in AllPools : \A r \in recent[p] : \A t \in Nat :
              r[2] >= t /\ t <= now /\ t >= now' - TTL => Remembers(p, r, t)
<1> DEFINE left == {s \in recent[pool] : s[1] \notin {state, market[pool]}}
           after == left \union {<<market[pool], now>>, <<state, now>>}
<1>1. /\ now \in Nat /\ market \in [AllPools -> Nat]
      /\ recent \in [AllPools -> SUBSET (Nat \X Nat)]
      /\ \A p \in AllPools :
           /\ market[p] \in DOMAIN Quotes[p] /\ <<market[p], now>> \in recent[p]
           /\ \A r \in recent[p] : r[1] \in DOMAIN Quotes[p]
  BY DEF MarketOK
<1>2. now' = now /\ market' = [market EXCEPT ![pool] = state] /\ recent' = [recent EXCEPT ![pool] = after]
  BY DEF Move
<1>3. state \in Nat
  <2>1. DOMAIN Quotes[pool] \subseteq Nat
    BY <1>1, QuoteTyped
  <2> QED
    BY <2>1
<1>4. after \in SUBSET (Nat \X Nat)
  <2>1. recent[pool] \subseteq Nat \X Nat
    BY <1>1
  <2>2. <<market[pool], now>> \in Nat \X Nat /\ <<state, now>> \in Nat \X Nat
    BY <1>1, <1>3
  <2> QED
    BY <2>1, <2>2
<1>5. /\ <<state, now>> \in after /\ <<market[pool], now>> \in after
      /\ \A r \in after : r[1] \in DOMAIN Quotes[pool]
  <2>1. market[pool] \in DOMAIN Quotes[pool] /\ \A r \in left : r[1] \in DOMAIN Quotes[pool]
    BY <1>1
  <2> HIDE DEF left
  <2> QED
    BY <2>1
<1>6. \A r \in recent[pool] : r[1] \in {state, market[pool]} \/ r \in after
  OBVIOUS
<1> HIDE DEF after
<1>7. MarketOK'
  <2>1. /\ recent' \in [AllPools -> SUBSET (Nat \X Nat)] /\ market' \in [AllPools -> Nat]
    BY <1>1, <1>2, <1>3, <1>4
  <2>2. ASSUME NEW p \in AllPools
        PROVE  /\ market'[p] \in DOMAIN Quotes[p] /\ <<market'[p], now'>> \in recent'[p]
               /\ \A r \in recent'[p] : r[1] \in DOMAIN Quotes[p]
    BY <1>1, <1>2, <1>5
  <2> QED
    BY <1>1, <1>2, <2>1, <2>2 DEF MarketOK
<1>8. ASSUME NEW p \in AllPools, NEW r \in recent[p], NEW t \in Nat,
             r[2] >= t, t <= now, t >= now' - TTL
      PROVE  Remembers(p, r, t)
  <2>1. CASE p # pool
    <3>1. r \in recent'[p]
      BY <1>1, <1>2, <2>1
    <3> QED
      BY <1>8, <3>1 DEF Remembers
  <2>2. CASE p = pool
    <3>1. recent'[p] = after
      BY <1>1, <1>2, <2>2
    <3>2. CASE r \in after
      BY <1>8, <3>1, <3>2 DEF Remembers
    <3>3. CASE r[1] \in {state, market[pool]}
      <4>1. <<r[1], now>> \in recent'[p] /\ now >= t
        BY <1>1, <1>5, <1>8, <3>1, <3>3
      <4> QED
        BY <4>1 DEF Remembers
    <3> QED
      BY <1>6, <2>2, <3>2, <3>3
  <2> QED
    BY <2>1, <2>2
<1> QED
  BY <1>7, <1>8

LEMMA MarketStep ==
  ASSUME CacheInv, Tick \/ \E pool \in AllPools : \E state \in DOMAIN Quotes[pool] : Move(pool, state)
  PROVE  CacheInv'
<1>1. /\ MarketOK'
      /\ \A p \in AllPools : \A r \in recent[p] : \A t \in Nat :
           r[2] >= t /\ t <= now /\ t >= now' - TTL => Remembers(p, r, t)
  <2>1. CASE Tick
    BY <2>1, TickRemembers DEF CacheInv
  <2>2. CASE \E pool \in AllPools : \E state \in DOMAIN Quotes[pool] : Move(pool, state)
    BY <2>2, MoveRemembers DEF CacheInv
  <2> QED
    BY <2>1, <2>2
<1>2. UNCHANGED <<points, flights, request>> /\ now \in Nat /\ now' \in Nat /\ now <= now'
  BY DEF Tick, Move, cacheVars, CacheInv, MarketOK
<1>3. RequestOK'
  BY <1>2 DEF CacheInv, RequestOK
<1>4. PointsOK'
  <2>1. points' \in [AllPools -> SUBSET [in : Nat, out : Nat, ts : Nat]]
    BY <1>2 DEF CacheInv, PointsOK, PointsIn
  <2>2. ASSUME NEW p \in AllPools, NEW pt \in points'[p]
        PROVE  pt.in \in Sizes(p) /\ pt.ts <= now' /\ (pt.ts >= now' - TTL => Given(p, pt)')
    <3>1. pt \in points[p] /\ pt.ts \in Nat
      BY <1>2, <2>1
    <3>2. pt.in \in Sizes(p) /\ pt.ts <= now /\ (pt.ts >= now - TTL => Given(p, pt))
      BY <3>1 DEF CacheInv, PointsOK, PointsIn
    <3>3. ASSUME pt.ts >= now' - TTL PROVE Given(p, pt)'
      <4>1. Given(p, pt)
        BY <1>2, <3>1, <3>2, <3>3, QuotingAssumption
      <4>2. CASE pt.out = 0
        BY <4>2 DEF Given
      <4>3. CASE pt.out # 0
        <5>1. PICK r \in recent[p] : r[2] >= pt.ts /\ pt.out = Quotes[p][r[1]][pt.in]
          BY <4>1, <4>3 DEF Given
        <5>2. Remembers(p, r, pt.ts)
          BY <1>1, <3>1, <3>2, <3>3, <5>1
        <5>3. PICK s \in recent'[p] : s[1] = r[1] /\ s[2] >= pt.ts
          BY <5>2 DEF Remembers
        <5> QED
          BY <5>1, <5>3 DEF Given
      <4> QED
        BY <4>2, <4>3
    <3> QED
      BY <1>2, <3>1, <3>2, <3>3
  <2> QED
    BY <2>1, <2>2 DEF PointsOK, PointsIn
<1> QED
  BY <1>1, <1>3, <1>4 DEF CacheInv

LEMMA RequestTyped ==
  ASSUME NEW amount \in Requested, NEW levels, LevelsOK(levels),
         NEW answers, AnswersOK(levels, answers)
  PROVE  [amount |-> amount, levels |-> levels, answers |-> answers] # None
<1> DEFINE states == [pool : Nat, out : Nat \union {None}]
           up == DOMAIN answers
<1>1. levels \in Seq(Nat) /\ up \in SUBSET Venues
  BY DEF LevelsOK, AnswersOK
<1>2. ASSUME NEW v \in up PROVE answers[v] \in Seq(states)
  <2>1. answers[v] \in [DOMAIN levels -> AnswersOf(v)] /\ v \in Venues
    BY <1>1, <1>2 DEF AnswersOK
  <2>2. Len(levels) \in Nat /\ DOMAIN levels = 1..Len(levels)
    BY <1>1
  <2>3. AnswersOf(v) \subseteq states
    BY DEF AnswersOf
  <2> HIDE DEF states
  <2>4. answers[v] \in [1..Len(levels) -> states]
    BY <2>1, <2>2, <2>3
  <2> QED
    BY <2>2, <2>4
<1>3. answers \in [up -> Seq(states)]
  BY <1>2 DEF AnswersOK
<1>4. answers \in UNION {[venues -> Seq(states)] : venues \in SUBSET Venues}
  <2> HIDE DEF states, up
  <2> QED
    BY <1>1, <1>3
<1>5. [amount |-> amount, levels |-> levels, answers |-> answers] \in RequestState
  BY <1>1, <1>4 DEF RequestState
<1> QED
  BY <1>5, RequestAssumption

LEMMA RouteStep ==
  ASSUME CacheInv, NEW amount \in Requested, NEW up \in Reachable, RequestRoute(amount, up)
  PROVE  CacheInv'
<1> DEFINE levels == Levels(amount)
           unasked == [i \in DOMAIN levels |-> Unasked]
           answers == [v \in up |-> Proceed(v, levels, unasked)]
           begun == [amount |-> amount, levels |-> levels, answers |-> answers]
<1>1. /\ request = None /\ points' = Prune
      /\ request' = (IF up = {} THEN None ELSE begun)
      /\ flights' = flights \union Awaited(levels, answers)
      /\ UNCHANGED <<now, market, recent>>
  BY DEF RequestRoute, marketVars
<1>2. MarketOK /\ PointsOK /\ flights = {} /\ now \in Nat /\ up \in SUBSET Venues
  BY <1>1, QuotingAssumption DEF CacheInv, MarketOK, RequestOK
<1>3. MarketOK' /\ PointsOK'
  <2>1. ASSUME NEW p \in AllPools PROVE Prune[p] \subseteq points[p]
    BY <1>2, FreshPoints DEF Prune
  <2>2. Prune = [p \in AllPools |-> Prune[p]]
    BY DEF Prune
  <2>3. PointsIn(Prune)
    BY <1>2, <2>1, <2>2, FewerPoints DEF PointsOK
  <2> QED
    BY <1>1, <1>2, <2>3, SameMarket
<1>4. LevelsOK(levels)
  BY LevelsTyped
<1>5. AnswersOK(levels, answers)
  <2> HIDE DEF levels
  <2>1. ASSUME NEW v \in up PROVE answers[v] \in [DOMAIN levels -> AnswersOf(v)]
    <3>1. v \in Venues
      BY <1>2
    <3>2. Pools[v] \in Seq(AllPools)
      BY <3>1, QuotingAssumption
    <3>3. Unasked \in AnswersOf(v)
      BY <3>2 DEF Unasked, AnswersOf
    <3>4. unasked \in [DOMAIN levels -> AnswersOf(v)]
      BY <3>3
    <3> HIDE DEF unasked
    <3>5. Proceed(v, levels, unasked) \in [DOMAIN levels -> AnswersOf(v)]
      BY <1>2, <1>4, <3>1, <3>4, ProceedTyped
    <3> QED
      BY <3>5
  <2> QED
    BY <1>2, <2>1 DEF AnswersOK
<1> HIDE DEF levels, answers
<1>6. begun # None
  BY <1>2, <1>4, <1>5, RequestTyped
<1>7. RequestOK'
  <2>1. CASE up = {}
    <3>1. Awaited(levels, answers) = {}
      <4>1. DOMAIN answers = {}
        BY <2>1 DEF answers
      <4> QED
        BY <4>1 DEF Awaited
    <3> QED
      BY <1>1, <1>2, <2>1, <3>1 DEF RequestOK
  <2>2. CASE up # {}
    <3>1. request' = begun /\ flights' = Awaited(levels, answers) /\ now' = now
      BY <1>1, <1>2, <2>2
    <3>2. /\ begun.amount = amount /\ begun.levels = levels /\ begun.answers = answers
          /\ begun = [amount |-> begun.amount, levels |-> begun.levels,
                      answers |-> begun.answers]
      OBVIOUS
    <3> HIDE DEF begun
    <3> QED
      BY <1>2, <1>4, <1>5, <1>6, <3>1, <3>2 DEF RequestOK
  <2> QED
    BY <2>1, <2>2
<1> QED
  BY <1>3, <1>7 DEF CacheInv

(* An insertion leaves every pool with a part of what it had then.          *)
LEMMA LandedPoints ==
  ASSUME MarketOK, PointsOK, NEW pool \in AllPools, NEW x \in Sizes(pool), NEW out \in Nat,
         out = 0 \/ out = Quotes[pool][market[pool]][x],
         NEW ok, NEW pts \in Remembered(pool, x, out, ok)
  PROVE  PointsIn(pts)
<1> DEFINE point == [in |-> x, out |-> out, ts |-> now]
           more == [points EXCEPT ![pool] = Kept(points[pool], point)]
<1>1. CASE pts = points
  BY <1>1 DEF PointsOK
<1>2. CASE pts # points
  <2>1. pts \in Evicted(more)
    BY <1>2 DEF Remembered
  <2>2. point \in [in : Nat, out : Nat, ts : Nat] /\ point.ts <= now /\ point.in \in Sizes(pool)
    <3>1. Sizes(pool) \subseteq Nat \ {0}
      BY SizesAssumption
    <3>2. x \in Nat /\ now \in Nat
      BY <3>1 DEF MarketOK
    <3> QED
      BY <3>2
  <2>3. Given(pool, point)
    <3>1. <<market[pool], now>> \in recent[pool] /\ now >= now
      BY DEF MarketOK
    <3> QED
      BY <3>1 DEF Given
  <2> HIDE DEF point
  <2>4. more \in [AllPools -> SUBSET [in : Nat, out : Nat, ts : Nat]]
    BY <2>2 DEF PointsOK, PointsIn, Kept
  <2>5. ASSUME NEW p \in AllPools, NEW pt \in more[p]
        PROVE  pt.in \in Sizes(p) /\ pt.ts <= now /\ (pt.ts >= now - TTL => Given(p, pt))
    <3>1. pt \in points[p] \/ (p = pool /\ pt = point)
      BY <2>5 DEF PointsOK, PointsIn, Kept
    <3> QED
      BY <2>2, <2>3, <3>1 DEF PointsOK, PointsIn
  <2>6. PointsIn(more)
    BY <2>4, <2>5 DEF PointsIn
  <2>7. more = [p \in AllPools |-> more[p]]
    BY <2>4
  <2> HIDE DEF more
  <2>8. \/ pts = more
        \/ \E gone : pts = [p \in AllPools |-> IF p \in gone THEN {} ELSE more[p]]
    BY <2>1 DEF Evicted
  <2>9. pts = [p \in AllPools |-> pts[p]] /\ \A p \in AllPools : pts[p] \subseteq more[p]
    BY <2>7, <2>8
  <2> QED
    BY <2>6, <2>9, FewerPoints
<1> QED
  BY <1>1, <1>2

LEMMA LandStep ==
  ASSUME CacheInv, NEW flight \in flights, NEW ok \in BOOLEAN, Land(flight, ok)
  PROVE  CacheInv'
<1> DEFINE pool == flight[1]
           x == flight[2]
           out == IF ok THEN Quotes[pool][market[pool]][x] ELSE 0
           levels == request.levels
           before == request.answers
           told == [v \in DOMAIN before |-> Told(v, levels, before[v], flight, out)]
           answers == [v \in DOMAIN told |-> Proceed(v, levels, told[v])]
<1>1. /\ points' \in Remembered(pool, x, out, ok)
      /\ request' = [request EXCEPT !.answers = answers]
      /\ flights' = (flights \ {flight}) \union Awaited(levels, answers)
      /\ UNCHANGED <<now, market, recent>>
  BY DEF Land, marketVars
<1>2. MarketOK /\ PointsOK /\ request # None
  BY DEF CacheInv, RequestOK
<1>3. /\ request = [amount |-> request.amount, levels |-> levels, answers |-> before]
      /\ request.amount \in Requested
      /\ LevelsOK(levels) /\ AnswersOK(levels, before)
      /\ flights \subseteq Awaited(levels, before)
  BY <1>2 DEF CacheInv, RequestOK
<1> HIDE DEF levels, before
<1>4. pool \in AllPools /\ x \in Probed
  <2>1. flight \in AllPools \X Probed
    BY <1>3, AwaitedTyped
  <2> QED
    BY <2>1
<1>5. x \in Sizes(pool) /\ out \in Nat
  <2>1. market[pool] \in DOMAIN Quotes[pool]
    BY <1>2, <1>4 DEF MarketOK
  <2>2. Quotes[pool][market[pool]] \in [Sizes(pool) -> Nat] /\ x \in Sizes(pool)
    BY <1>4, <2>1, QuoteTyped
  <2> QED
    BY <2>2
<1>6. out = 0 \/ out = Quotes[pool][market[pool]][x]
  OBVIOUS
<1> HIDE DEF pool, x, out
<1>7. MarketOK' /\ PointsOK'
  <2>1. PointsIn(points')
    BY <1>1, <1>2, <1>4, <1>5, <1>6, LandedPoints
  <2> QED
    BY <1>1, <1>2, <2>1, SameMarket
<1>8. ASSUME NEW v \in DOMAIN before
      PROVE  /\ answers[v] \in [DOMAIN levels -> AnswersOf(v)]
             /\ \A i \in DOMAIN levels :
                  /\ Waits(before[v][i])
                  /\ <<Pools[v][before[v][i].pool], AskedOf(v, levels[i])>> # flight
                  => answers[v][i] = before[v][i]
  <2>1. v \in Venues /\ before[v] \in [DOMAIN levels -> AnswersOf(v)]
    BY <1>3 DEF AnswersOK
  <2> DEFINE t == Told(v, levels, before[v], flight, out)
  <2>2. /\ t \in [DOMAIN levels -> AnswersOf(v)]
        /\ \A i \in DOMAIN levels :
             /\ Waits(before[v][i])
             /\ <<Pools[v][before[v][i].pool], AskedOf(v, levels[i])>> # flight
             => t[i] = before[v][i]
    BY <1>2, <1>3, <1>5, <2>1, ToldTyped
  <2>3. answers[v] = Proceed(v, levels, t)
    OBVIOUS
  <2> HIDE DEF t, answers
  <2>4. /\ Proceed(v, levels, t) \in [DOMAIN levels -> AnswersOf(v)]
        /\ \A i \in DOMAIN levels : Waits(t[i]) => Proceed(v, levels, t)[i] = t[i]
    BY <1>2, <1>3, <2>1, <2>2, ProceedTyped
  <2> QED
    BY <2>2, <2>3, <2>4
<1>9. AnswersOK(levels, answers) /\ DOMAIN answers = DOMAIN before
      /\ answers = [v \in DOMAIN answers |-> answers[v]]
  <2>1. DOMAIN answers = DOMAIN before /\ answers = [v \in DOMAIN answers |-> answers[v]]
    OBVIOUS
  <2> HIDE DEF answers
  <2> QED
    BY <1>3, <1>8, <2>1 DEF AnswersOK
<1> HIDE DEF answers
<1>10. flights' \subseteq Awaited(levels, answers)
  <2>1. ASSUME NEW f \in flights, f # flight PROVE f \in Awaited(levels, answers)
    <3>1. PICK v \in DOMAIN before, i \in DOMAIN levels :
            Waits(before[v][i]) /\ f = <<Pools[v][before[v][i].pool], AskedOf(v, levels[i])>>
      BY <1>3 DEF Awaited
    <3>2. answers[v][i] = before[v][i]
      BY <1>8, <2>1, <3>1
    <3> QED
      BY <1>9, <3>1, <3>2 DEF Awaited
  <2> QED
    BY <1>1, <2>1
<1>11. RequestOK'
  <2> DEFINE after == [amount |-> request.amount, levels |-> levels, answers |-> answers]
  <2>1. request' = after
    BY <1>1, <1>3
  <2>2. after # None
    BY <1>3, <1>9, RequestTyped
  <2>3. /\ after.amount = request.amount /\ after.levels = levels /\ after.answers = answers
        /\ after = [amount |-> after.amount, levels |-> after.levels,
                    answers |-> after.answers]
    OBVIOUS
  <2> HIDE DEF after
  <2> QED
    BY <1>1, <1>3, <1>9, <1>10, <2>1, <2>2, <2>3 DEF RequestOK
<1> QED
  BY <1>7, <1>11 DEF CacheInv

(* A route is computed once nothing is awaited.                             *)
LEMMA ComputeStep ==
  ASSUME CacheInv, Compute
  PROVE  CacheInv'
<1>1. /\ request # None /\ Answered /\ request' = None
      /\ UNCHANGED <<points, flights, now, market, recent>>
  BY DEF Compute, marketVars
<1>2. Awaited(request.levels, request.answers) = {}
  BY <1>1 DEF Awaited, Answered, Waits
<1>3. flights' = {}
  BY <1>1, <1>2 DEF CacheInv, RequestOK
<1>4. MarketOK' /\ PointsOK'
  BY <1>1, SameMarket DEF CacheInv, PointsOK
<1> QED
  BY <1>1, <1>3, <1>4 DEF CacheInv, RequestOK

LEMMA CacheStep ==
  CacheInv /\ [QuotingNext]_quotingVars => CacheInv'
<1> SUFFICES ASSUME CacheInv, [QuotingNext]_quotingVars PROVE CacheInv'
  OBVIOUS
<1>1. CASE UNCHANGED quotingVars
  <2>1. UNCHANGED <<points, flights, request, now, market, recent>>
    BY <1>1 DEF quotingVars, marketVars
  <2>2. MarketOK' /\ PointsOK'
    BY <2>1, SameMarket DEF CacheInv, PointsOK
  <2> QED
    BY <2>1, <2>2 DEF CacheInv, RequestOK
<1>2. CASE QuotingNext
  BY <1>2, RouteStep, LandStep, ComputeStep, MarketStep DEF QuotingNext
<1> QED
  BY <1>1, <1>2

-----------------------------------------------------------------------------
(* The theorem.                                                             *)

LEMMA AnswersGiven ==
  ASSUME CacheInv, NEW v \in Venues \ Spot, NEW k \in DOMAIN Pools[v],
         NEW x \in Sizes(Pools[v][k]), ReadOff(Fresh(Pools[v][k]), x) # None
  PROVE  GaveSince(now - TTL, Pools[v][k], x, ReadOff(Fresh(Pools[v][k]), x))
<1> DEFINE p == Pools[v][k]
           pts == Fresh(p)
           out == ReadOff(pts, x)
           q(r) == Quotes[p][r[1]]
<1>1. p \in AllPools /\ p \in Range(Pools[v])
  <2>1. Pools[v] \in Seq(AllPools)
    BY QuotingAssumption
  <2> QED
    BY <2>1 DEF Range
<1>2. MarketOK /\ PointsOK /\ now \in Nat /\ TTL \in Nat
  BY QuotingAssumption DEF CacheInv, MarketOK
<1>3. \A s \in DOMAIN Quotes[p] : Concave(Quotes[p][s])
  BY <1>1, CurvesAssumption
<1>4. \A s, t \in DOMAIN Quotes[p] : Comparable(Quotes[p][s], Quotes[p][t])
  BY <1>1, CurvesAssumption
<1> HIDE DEF p
<1>5. \A r \in recent[p] : r[1] \in DOMAIN Quotes[p] /\ q(r) \in [Sizes(p) -> Nat]
  BY <1>1, <1>2, QuoteTyped DEF MarketOK
<1>6. Sizes(p) \subseteq Nat \ {0} /\ x \in Sizes(p) /\ x \in Nat /\ x > 0
  <2>1. Sizes(p) \subseteq Nat \ {0}
    BY <1>1, SizesAssumption
  <2> QED
    BY <2>1 DEF p
<1>7. ASSUME NEW pt \in pts
      PROVE  /\ pt.in \in Sizes(p) /\ pt.in \in Nat /\ pt.in > 0 /\ pt.out \in Nat
             /\ pt.out # 0 => \E r \in recent[p] : r[2] >= now - TTL /\ pt.out = q(r)[pt.in]
  <2>1. pt \in points[p] /\ pt.ts >= now - TTL /\ points[p] \subseteq [in : Nat, out : Nat, ts : Nat]
    BY <1>1, <1>2 DEF Fresh, PointsOK, PointsIn
  <2>2. pt.in \in Sizes(p) /\ Given(p, pt)
    BY <1>1, <1>2, <2>1 DEF PointsOK, PointsIn
  <2>3. pt.in \in Nat /\ pt.in > 0 /\ pt.out \in Nat /\ pt.ts \in Nat
    BY <1>6, <2>1, <2>2
  <2>4. ASSUME pt.out # 0
        PROVE  \E r \in recent[p] : r[2] >= now - TTL /\ pt.out = q(r)[pt.in]
    <3>1. PICK r \in recent[p] : r[2] >= pt.ts /\ pt.out = Quotes[p][r[1]][pt.in]
      BY <2>2, <2>4 DEF Given
    <3>2. r[2] \in Nat
      BY <1>1, <1>2 DEF MarketOK
    <3>3. r[2] >= now - TTL
      BY <1>2, <2>1, <2>3, <3>1, <3>2
    <3> QED
      BY <3>1, <3>3
  <2> QED
    BY <2>2, <2>3, <2>4
<1> SUFFICES GaveSince(now - TTL, p, x, out)
  BY DEF p
<1>8. out # None
  BY DEF p
<1>9. IsPoints(pts)
  BY <1>7 DEF IsPoints
<1>10. \/ \E pt \in pts : pt.in = x /\ out = pt.out
       \/ pts # {} /\ out = 0
       \/ \E hi \in pts : hi.in > x /\ hi.out > 0 /\ out = ScaledBelow(hi, x)
       \/ \E lo, hi \in pts :
            /\ lo.in < x /\ x < hi.in /\ lo.out > 0 /\ hi.out > 0 /\ lo.out <= hi.out
            /\ out = Chord(lo, hi, x)
  BY <1>6, <1>8, <1>9, ReadsFrom
<1> HIDE DEF pts, out, q
<1>11. ASSUME out = 0 PROVE GaveSince(now - TTL, p, x, out)
  <2> DEFINE r == <<market[p], now>>
  <2>1. r \in recent[p] /\ r[2] >= now - TTL
    BY <1>1, <1>2 DEF MarketOK
  <2>2. q(r) \in [Sizes(p) -> Nat]
    BY <1>5, <2>1
  <2> HIDE DEF r
  <2> QED
    BY <1>6, <1>11, <2>1, <2>2 DEF GaveSince, q
<1>12. ASSUME NEW r \in recent[p], r[2] >= now - TTL, out <= q(r)[x]
       PROVE  GaveSince(now - TTL, p, x, out)
  BY <1>12 DEF GaveSince, q
<1>13. ASSUME NEW pt \in pts, pt.in = x, out = pt.out PROVE GaveSince(now - TTL, p, x, out)
  <2>1. CASE pt.out = 0
    BY <1>11, <1>13, <2>1
  <2>2. CASE pt.out # 0
    <3>1. PICK r \in recent[p] : r[2] >= now - TTL /\ pt.out = q(r)[pt.in]
      BY <1>7, <2>2
    <3>2. out <= q(r)[x]
      BY <1>7, <1>13, <3>1
    <3> QED
      BY <1>12, <3>1, <3>2
  <2> QED
    BY <2>1, <2>2
<1>14. ASSUME NEW hi \in pts, hi.in > x, hi.out > 0, out = ScaledBelow(hi, x)
       PROVE  GaveSince(now - TTL, p, x, out)
  <2>1. PICK r \in recent[p] : r[2] >= now - TTL /\ hi.out = q(r)[hi.in]
    BY <1>7, <1>14
  <2>2. hi.in \in Sizes(p) /\ hi.in \in Nat /\ hi.in > 0 /\ hi.out \in Nat
    BY <1>7
  <2>3. Concave(q(r)) /\ q(r) \in [Sizes(p) -> Nat]
    BY <1>3, <1>5 DEF q
  <2> DEFINE curve == q(r)
             y == curve[x]
  <2>4. y \in Nat
    BY <1>6, <2>3
  <2>5. x * hi.out < (y + 1) * hi.in + hi.out
    <3>1. DOMAIN curve = Sizes(p) /\ curve[hi.in] = hi.out
      BY <2>1, <2>3
    <3> HIDE DEF curve
    <3>2. x * curve[hi.in] < (curve[x] + 1) * hi.in + curve[hi.in]
      BY <1>6, <1>14, <2>2, <2>3, <3>1 DEF Concave, curve
    <3> QED
      BY <3>1, <3>2
  <2> HIDE DEF y
  <2>6. ScaledBelow(hi, x) <= y
    BY <1>6, <2>2, <2>4, <2>5, ScaledUnder
  <2> QED
    BY <1>12, <1>14, <2>1, <2>6 DEF y
<1>15. ASSUME NEW lo \in pts, NEW hi \in pts, lo.in < x, x < hi.in, lo.out > 0, hi.out > 0,
              lo.out <= hi.out, out = Chord(lo, hi, x)
       PROVE  GaveSince(now - TTL, p, x, out)
  <2>1. /\ lo.in \in Sizes(p) /\ lo.in \in Nat /\ lo.in > 0 /\ lo.out \in Nat
        /\ hi.in \in Sizes(p) /\ hi.in \in Nat /\ hi.in > 0 /\ hi.out \in Nat
    BY <1>7
  <2>2. PICK low \in recent[p] : low[2] >= now - TTL /\ lo.out = q(low)[lo.in]
    BY <1>7, <1>15, <2>1
  <2>3. PICK high \in recent[p] : high[2] >= now - TTL /\ hi.out = q(high)[hi.in]
    BY <1>7, <1>15, <2>1
  <2>4. q(low) \in [Sizes(p) -> Nat] /\ q(high) \in [Sizes(p) -> Nat]
    BY <1>5
  <2>5. Comparable(q(low), q(high))
    BY <1>4, <1>5 DEF q
  <2>6. \E r \in recent[p] : r[2] >= now - TTL /\ lo.out <= q(r)[lo.in] /\ hi.out <= q(r)[hi.in]
    <3>1. CASE \A z \in Sizes(p) : q(low)[z] <= q(high)[z]
      <4>1. lo.out <= q(high)[lo.in] /\ hi.out <= q(high)[hi.in]
        BY <2>1, <2>2, <2>3, <2>4, <3>1
      <4> QED
        BY <2>3, <4>1
    <3>2. CASE \A z \in Sizes(p) : q(high)[z] <= q(low)[z]
      <4>1. lo.out <= q(low)[lo.in] /\ hi.out <= q(low)[hi.in]
        BY <2>1, <2>2, <2>3, <2>4, <3>2
      <4> QED
        BY <2>2, <4>1
    <3> QED
      BY <2>4, <2>5, <3>1, <3>2 DEF Comparable
  <2>7. PICK r \in recent[p] :
          r[2] >= now - TTL /\ lo.out <= q(r)[lo.in] /\ hi.out <= q(r)[hi.in]
    BY <2>6
  <2>8. Concave(q(r)) /\ q(r) \in [Sizes(p) -> Nat]
    BY <1>3, <1>5 DEF q
  <2> DEFINE curve == q(r)
             a == curve[lo.in]
             b == curve[hi.in]
             y == curve[x]
  <2>9. a \in Nat /\ b \in Nat /\ y \in Nat /\ lo.out <= a /\ hi.out <= b
    BY <1>6, <2>1, <2>7, <2>8
  <2>10. (hi.in - x) * a + (x - lo.in) * b < (y + 1) * (hi.in - lo.in)
    <3>1. a > 0 /\ b > 0
      BY <1>15, <2>1, <2>9
    <3>2. DOMAIN curve = Sizes(p)
      BY <2>8
    <3> HIDE DEF curve
    <3> QED
      BY <1>6, <1>15, <2>1, <2>8, <3>1, <3>2 DEF Concave, curve
  <2> HIDE DEF a, b, y
  <2>11. Chord(lo, hi, x) <= y
    BY <1>6, <1>15, <2>1, <2>9, <2>10, ChordUnder
  <2> QED
    BY <1>12, <1>15, <2>7, <2>11 DEF y
<1> QED
  BY <1>10, <1>11, <1>13, <1>14, <1>15

(* "Never over-quotes": what the cache answers, from points of whatever     *)
(* ages and from whichever states of the pool, is no more than the pool     *)
(* itself would have given for that very amount within the time to live.    *)
THEOREM QuotesSafe ==
  QuotingSpec => []NeverOverQuotes
<1>1. CacheInv => NeverOverQuotes
  BY AnswersGiven DEF NeverOverQuotes, Sizes
<1> QED
  BY <1>1, CacheInit, CacheStep, PTL DEF QuotingSpec

-----------------------------------------------------------------------------
(* The quote on screen.  What may still change it is the reply to the last  *)
(* fetch, and that fetch was for what the form says, unless the pause before*)
(* the next one runs or the form asks for no quote at all.                  *)

IsInput(i) == i = [token_in |-> i.token_in, token_out |-> i.token_out, amount |-> i.amount]

IsFetch(f, last) ==
  /\ f = [seq |-> f.seq, for |-> f.for, fast |-> f.fast, full |-> f.full]
  /\ f.seq \in Nat /\ f.seq <= last

Asking == Quotable /\ input.amount > 0 /\ ~timer

FormInv ==
  /\ IsInput(input) /\ quoteSeq \in Nat
  /\ \A f \in fetches : IsFetch(f, quoteSeq)
  /\ Asking =>
       /\ \A f \in fetches : Current(f) => f.for = input
       /\ ~loading /\ quote # None => quote.for = input

LEMMA FormInit ==
  ASSUME WidgetInit
  PROVE  FormInv
<1>1. input = Input(StartPair, 0) /\ quoteSeq = 0 /\ fetches = {} /\ quote = None
  BY DEF WidgetInit
<1>2. IsInput(input)
  BY <1>1 DEF IsInput, Input
<1> QED
  BY <1>1, <1>2 DEF FormInv

LEMMA FormRests ==
  ASSUME FormInv, UNCHANGED <<form, quotes>>
  PROVE  FormInv'
<1>1. UNCHANGED <<input, mode, timer, quoteSeq, fetches, quote, loading>>
  BY DEF form, quotes
<1> QED
  BY <1>1 DEF FormInv, Asking, Quotable, Current

(* A change of what the form shows starts the pause, or it asks no more.    *)
LEMMA EditKeeps ==
  ASSUME FormInv, NEW next, IsInput(next), NEW tab, NEW shown \in {quote, None},
         Edit(next, tab, shown)
  PROVE  FormInv'
<1>1. /\ input' = next /\ mode' = tab
      /\ quoteSeq' = quoteSeq /\ fetches' = fetches /\ loading' = loading
  BY DEF Edit
<1>2. IsInput(input') /\ quoteSeq' \in Nat /\ \A f \in fetches' : IsFetch(f, quoteSeq')
  BY <1>1 DEF FormInv
<1>3. CASE <<next, tab>> = <<input, mode>>
  <2>1. input' = input /\ mode' = mode /\ timer' = timer /\ quote' \in {quote, None}
    BY <1>1, <1>3 DEF Edit
  <2> QED
    BY <1>1, <1>2, <2>1 DEF FormInv, Asking, Quotable, Current
<1>4. CASE <<next, tab>> # <<input, mode>> /\ tab = "p2p"
  BY <1>1, <1>2, <1>4 DEF FormInv, Asking, Quotable
<1>5. CASE <<next, tab>> # <<input, mode>> /\ tab # "p2p"
  <2>1. timer' = (next.amount > 0)
    BY <1>5 DEF Edit
  <2>2. ~ Asking'
    BY <1>1, <2>1 DEF Asking
  <2> QED
    BY <1>2, <2>2 DEF FormInv
<1> QED
  BY <1>3, <1>4, <1>5

LEMMA FormKeeps ==
  ASSUME FormInv,
         \/ \E amount \in Amounts \union {0} : Type(amount) \/ (amount > 0 /\ FillMaxBalance(amount))
         \/ \E token \in Tokens \ {input.token_in} : TokenSelect(token)
         \/ HandleSwapTokens
         \/ \E tab \in DOMAIN Kind : SetMode(tab)
  PROVE  FormInv'
<1>1. \A amount : IsInput([input EXCEPT !.amount = amount])
  BY DEF FormInv, IsInput
<1>2. \A pair, amount : IsInput(Input(pair, amount))
  BY DEF IsInput, Input
<1>3. ASSUME NEW amount, Type(amount) \/ FillMaxBalance(amount) PROVE FormInv'
  BY <1>1, <1>3, EditKeeps DEF Type, FillMaxBalance
<1>4. ASSUME NEW token, TokenSelect(token) PROVE FormInv'
  <2> DEFINE out == IF token = input.token_out THEN input.token_in ELSE input.token_out
  <2>1. Edit(Input(<<token, out>>, input.amount), mode, None)
    BY <1>4 DEF TokenSelect
  <2> HIDE DEF out
  <2> QED
    BY <1>2, <2>1, EditKeeps
<1>5. ASSUME NEW tab, SetMode(tab) PROVE FormInv'
  <2>1. PICK next \in {input, Input(TwapPair, input.amount)} : Edit(next, tab, None)
    BY <1>5 DEF SetMode
  <2>2. IsInput(next)
    BY <1>2, <2>1 DEF FormInv
  <2> QED
    BY <2>1, <2>2, EditKeeps
<1> QED
  BY <1>3, <1>4, <1>5 DEF HandleSwapTokens

LEMMA FetchKeeps ==
  ASSUME FormInv, DebounceFires
  PROVE  FormInv'
<1> DEFINE fetch == [seq |-> quoteSeq + 1, for |-> input, fast |-> "waiting", full |-> "waiting"]
<1>1. /\ input' = input /\ loading' = TRUE /\ quoteSeq' = quoteSeq + 1
      /\ fetches' = fetches \union {fetch}
  BY DEF DebounceFires
<1>2. /\ IsInput(input) /\ quoteSeq \in Nat /\ quoteSeq' \in Nat
      /\ \A f \in fetches : IsFetch(f, quoteSeq)
  BY <1>1 DEF FormInv
<1>3. IsFetch(fetch, quoteSeq') /\ fetch.for = input
  BY <1>1, <1>2 DEF IsFetch
<1> HIDE DEF fetch
<1>4. \A f \in fetches : IsFetch(f, quoteSeq') /\ f.seq # quoteSeq'
  BY <1>1, <1>2 DEF IsFetch
<1> QED
  BY <1>1, <1>2, <1>3, <1>4 DEF FormInv, Current

(* A reply is for what its fetch asked, and leaves no other fetch behind.   *)
LEMMA HeardFrom ==
  ASSUME FormInv, NEW f \in fetches, NEW next, Heard(f, next), quoteSeq' = quoteSeq,
         \/ next = [f EXCEPT !.fast = "got"]
         \/ next = [f EXCEPT !.full = "got"]
         \/ next = [f EXCEPT !.full = "failed"]
  PROVE  \A g \in fetches' :
           /\ IsFetch(g, quoteSeq')
           /\ \E h \in fetches : h.seq = g.seq /\ h.for = g.for
<1>1. fetches' \subseteq fetches \union {next}
  BY DEF Heard
<1>2. IsFetch(f, quoteSeq)
  BY DEF FormInv
<1>3. IsFetch(next, quoteSeq) /\ next.seq = f.seq /\ next.for = f.for
  BY <1>2 DEF IsFetch
<1> QED
  BY <1>1, <1>3 DEF FormInv

(* What remains to show of a reply is what it leaves on screen.             *)
LEMMA ReplyKeeps ==
  ASSUME FormInv, UNCHANGED <<input, mode, timer, quoteSeq>>,
         \A g \in fetches' :
           IsFetch(g, quoteSeq') /\ \E h \in fetches : h.seq = g.seq /\ h.for = g.for,
         Asking /\ ~loading' /\ quote' # None => quote'.for = input
  PROVE  FormInv'
<1>1. Asking' => Asking
  BY DEF Asking, Quotable
<1>2. Asking => \A f \in fetches : f.seq = quoteSeq => f.for = input
  BY DEF FormInv, Current
<1>3. Asking' => \A g \in fetches' : g.seq = quoteSeq' => g.for = input'
  BY <1>1, <1>2
<1> QED
  BY <1>1, <1>3 DEF FormInv, Current

LEMMA RepliesFor ==
  ASSUME NEW f, NEW fast, NEW reply \in Replies(f, fast), reply # None
  PROVE  reply.for = f.for
  BY DEF Replies

LEMMA FastKeeps ==
  ASSUME FormInv, NEW f \in fetches, FastAnswers(f)
  PROVE  FormInv'
<1>1. /\ UNCHANGED <<input, mode, timer, quoteSeq, loading>>
      /\ Heard(f, [f EXCEPT !.fast = "got"])
  BY DEF FastAnswers, form
<1>2. \A g \in fetches' :
        IsFetch(g, quoteSeq') /\ \E h \in fetches : h.seq = g.seq /\ h.for = g.for
  BY <1>1, HeardFrom
<1>3. PICK reply \in Replies(f, TRUE) :
        quote' = IF reply # None /\ Current(f) /\ f.full # "got" THEN reply ELSE quote
  BY DEF FastAnswers
<1>4. quote' = quote \/ (Current(f) /\ (quote' # None => quote'.for = f.for))
  BY <1>3, RepliesFor
<1>5. Asking /\ ~loading' /\ quote' # None => quote'.for = input
  BY <1>1, <1>4 DEF FormInv
<1> QED
  BY <1>1, <1>2, <1>5, ReplyKeeps

LEMMA FullKeeps ==
  ASSUME FormInv, NEW f \in fetches, FullAnswers(f)
  PROVE  FormInv'
<1>1. /\ UNCHANGED <<input, mode, timer, quoteSeq>>
      /\ loading' = IF Current(f) THEN FALSE ELSE loading
  BY DEF FullAnswers, form
<1>2. PICK reply \in Replies(f, FALSE) :
        /\ quote' = IF Current(f) THEN reply ELSE quote
        /\ Heard(f, [f EXCEPT !.full = IF reply = None THEN "failed" ELSE "got"])
  BY DEF FullAnswers
<1>3. \A g \in fetches' :
        IsFetch(g, quoteSeq') /\ \E h \in fetches : h.seq = g.seq /\ h.for = g.for
  <2>1. CASE reply = None
    BY <1>1, <1>2, <2>1, HeardFrom
  <2>2. CASE reply # None
    BY <1>1, <1>2, <2>2, HeardFrom
  <2> QED
    BY <2>1, <2>2
<1>4. CASE Current(f)
  <2>1. quote' # None => quote'.for = f.for
    BY <1>2, <1>4, RepliesFor
  <2>2. Asking => f.for = input
    BY <1>4 DEF FormInv
  <2> QED
    BY <1>1, <1>3, <2>1, <2>2, ReplyKeeps
<1>5. CASE ~ Current(f)
  <2>1. quote' = quote /\ loading' = loading
    BY <1>1, <1>2, <1>5
  <2>2. Asking /\ ~loading /\ quote # None => quote.for = input
    BY DEF FormInv
  <2>3. ASSUME Asking, ~loading', quote' # None PROVE quote'.for = input
    <3>1. ~loading /\ quote # None
      BY <2>1, <2>3
    <3> QED
      BY <2>1, <2>2, <2>3, <3>1
  <2> QED
    BY <1>1, <1>3, <2>3, ReplyKeeps
<1> QED
  BY <1>4, <1>5

(* A task that ends empties the form, or takes the quote away, or neither.  *)
LEMMA EndKeeps ==
  ASSUME FormInv, NEW t, NEW outcome, End(t, outcome)
  PROVE  FormInv'
<1>1. quoteSeq' = quoteSeq /\ fetches' = fetches /\ loading' = loading
  BY DEF End
<1>2. CASE outcome = "success"
  <2>1. input' = [input EXCEPT !.amount = 0]
    BY <1>2 DEF End
  <2>2. IsInput(input') /\ input'.amount = 0
    BY <2>1 DEF FormInv, IsInput
  <2>3. ~ Asking'
    BY <2>2 DEF Asking
  <2> QED
    BY <1>1, <2>2, <2>3 DEF FormInv
<1>3. CASE outcome # "success"
  <2>1. UNCHANGED <<input, mode, timer>> /\ quote' \in {quote, None}
    BY <1>3 DEF End, form
  <2> QED
    BY <1>1, <2>1 DEF FormInv, Asking, Quotable, Current
<1> QED
  BY <1>2, <1>3

LEMMA ErrorKeeps ==
  ASSUME FormInv, NEW t, Error(t)
  PROVE  FormInv'
  BY EndKeeps DEF Error

LEMMA ContinueKeeps ==
  ASSUME FormInv, NEW t, Continue(t)
  PROVE  FormInv'
<1>1. End(t, "success") \/ Error(t) \/ UNCHANGED <<form, quotes>>
  BY DEF Continue
<1> QED
  BY <1>1, EndKeeps, ErrorKeeps, FormRests

LEMMA TaskKeeps ==
  ASSUME FormInv,
         \/ Click \/ BuildAnswers \/ Rebuilt
         \/ \E ok \in BOOLEAN : SignTransaction(ok)
         \/ SubmitSettles \/ SubmitRefused \/ SubmitUnconfirmed
  PROVE  FormInv'
<1>1. CASE Click
  BY <1>1, FormRests DEF Click
<1>2. CASE BuildAnswers
  <2>1. (\E t : Error(t)) \/ (\E t : Continue(t))
    BY <1>2 DEF BuildAnswers
  <2> QED
    BY <2>1, ErrorKeeps, ContinueKeeps
<1>3. CASE Rebuilt
  <2>1. (\E t : Error(t)) \/ (\E t : Continue(t)) \/ UNCHANGED <<form, quotes>>
    BY <1>3 DEF Rebuilt
  <2> QED
    BY <2>1, ErrorKeeps, ContinueKeeps, FormRests
<1>4. ASSUME NEW ok, SignTransaction(ok) PROVE FormInv'
  BY <1>4, ErrorKeeps, FormRests DEF SignTransaction
<1>5. CASE SubmitSettles
  <2>1. (\E t : Error(t)) \/ (\E t : Continue(t))
    BY <1>5 DEF SubmitSettles
  <2> QED
    BY <2>1, ErrorKeeps, ContinueKeeps
<1>6. CASE SubmitRefused \/ SubmitUnconfirmed
  BY <1>6, ErrorKeeps DEF SubmitRefused, SubmitUnconfirmed
<1> QED
  BY <1>1, <1>2, <1>3, <1>4, <1>5, <1>6

LEMMA FormStep ==
  ASSUME FormInv, [WidgetNext]_widgetVars
  PROVE  FormInv'
<1>1. CASE UNCHANGED widgetVars
  BY <1>1, FormRests DEF widgetVars
<1>2. CASE PendingLands \/ SignedElsewhere \/ \E m \in Markets : MarketMoves(m)
  BY <1>2, FormRests DEF PendingLands, SignedElsewhere, MarketMoves
<1> QED
  BY <1>1, <1>2, FormKeeps, FetchKeeps, FastKeeps, FullKeeps, TaskKeeps DEF WidgetNext

(* A quote that had time to arrive is for what the form says, for any       *)
(* tokens, markets and answers: replies that come late, out of order or     *)
(* never, changes of tab and pair and swaps under way notwithstanding.      *)
THEOREM ScreenSafe ==
  WidgetSpec => []QuoteSettles
<1>1. FormInv => QuoteSettles
  BY DEF FormInv, Asking, QuoteSettles
<1> QED
  BY <1>1, FormInit, FormStep, PTL DEF WidgetSpec

=============================================================================
