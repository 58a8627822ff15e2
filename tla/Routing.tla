------------------------------ MODULE Routing -------------------------------
(***************************************************************************)
(* The routing algorithms.  The engine splits an amount over venues: it     *)
(* turns each venue's quotes at a ladder of depths into tranches of falling *)
(* marginal price and fills the cheapest first.  The pathfinder walks the   *)
(* graph of discovered pools for chains of swaps, ranks them without asking *)
(* anybody, and has the engine quote the best ranked ones hop by hop.       *)
(***************************************************************************)
EXTENDS FixedPoint, FiniteSets, Sequences, SequencesExt

CONSTANTS
  None,                       \* no answer, no quote, nothing under way
  BPS_DENOMINATOR,
  DEPTH_LEVELS,               \* the ladder, already in the input's decimals
  FEE_NUMERATOR, FEE_DENOMINATOR,
  PRICE_IMPACT_MAX_BPS,
  MAX_HOPS, BRANCH_CAP, CANDIDATE_CAP, VERIFY_TOP

Greatest(s) == CHOOSE x \in s : \A y \in s : y <= x
Sum(f, s) == FoldSeq(LAMBDA x, acc : f[x] + acc, 0, s)
Trunc(a, b) == IF a >= 0 THEN a \div b ELSE -((-a) \div b)   \* BigInt division

-----------------------------------------------------------------------------
(* The engine.  A profile is a venue with its answer at each level; an      *)
(* answer of zero is a quote that failed.                                   *)

Levels(amount) == InOrder({d \in DEPTH_LEVELS : d <= 2 * amount} \union {amount})

Good(outs) == {i \in DOMAIN outs : outs[i] > 0}

LastGood(outs, i) == Greatest({0} \union {j \in Good(outs) : j < i})

(* Faulty: whatever a level adds is taken for depth.                        *)
TrancheUncapped(profile, levels, i) ==
  LET outs == profile.outs
      last == LastGood(outs, i)
      from == IF last = 0 THEN 0 ELSE levels[last]
      amount == levels[i] - from
      out == outs[i] - IF last = 0 THEN 0 ELSE outs[last]
  IN [venue |-> profile.venue, at |-> i, from |-> from, to |-> levels[i], amount |-> amount,
      out |-> out, bps |-> Trunc((amount - out) * BPS_DENOMINATOR, amount)]

(* The tranches of a venue: what each level adds to the last one that       *)
(* answered, never at a better rate than the smallest probe's.              *)
Tranche(profile, levels, i) ==
  LET outs == profile.outs
      last == LastGood(outs, i)
      first == CHOOSE j \in Good(outs) : \A k \in Good(outs) : j <= k
      from == IF last = 0 THEN 0 ELSE levels[last]
      amount == levels[i] - from
      added == outs[i] - IF last = 0 THEN 0 ELSE outs[last]
      cap == (amount * outs[first]) \div levels[first]
      out == IF added > cap THEN cap ELSE added
  IN [venue |-> profile.venue, at |-> i, from |-> from, to |-> levels[i], amount |-> amount,
      out |-> out, bps |-> Trunc((amount - out) * BPS_DENOMINATOR, amount)]

(* Faulty: a venue is used up before the next one is tried.                 *)
VenueByVenue(s, t) == s.venue < t.venue \/ (s.venue = t.venue /\ s.at < t.at)

Before(s, t) ==
  \/ s.bps < t.bps
  \/ s.bps = t.bps /\ (s.venue < t.venue \/ (s.venue = t.venue /\ s.at < t.at))

Cheapest(profiles, levels) ==
  SetToSortSeq(UNION {{Tranche(p, levels, i) : i \in Good(p.outs)} : p \in profiles}, Before)

OutFor(t, fill) == (t.out * fill) \div t.amount

(* One tranche of the greedy pass.                                          *)
Fill(done, t) ==
  LET consumed == done.taken[t.venue]
      available == t.to - (IF consumed > t.from THEN consumed ELSE t.from)
      fill == IF done.left < available THEN done.left ELSE available
  IN IF done.left <= 0 \/ consumed >= t.to \/ fill <= 0 THEN done
     ELSE [left |-> done.left - fill,
           taken |-> [done.taken EXCEPT ![t.venue] = @ + fill],
           out |-> [done.out EXCEPT ![t.venue] = @ + OutFor(t, fill)]]

Allocate(profiles, levels, amount) ==
  LET ids == {p.venue : p \in profiles}
  IN FoldLeft(Fill, [left |-> amount, taken |-> [v \in ids |-> 0], out |-> [v \in ids |-> 0]],
              Cheapest(profiles, levels))

Segments(filled, paying, amount) ==
  LET largest == CHOOSE v \in paying : \A w \in paying : filled.taken[w] <= filled.taken[v]
      others == SetToSeq(paying \ {largest})
  IN [v \in paying |->
        [amount_in |-> IF v = largest THEN amount - Sum(filled.taken, others)
                       ELSE filled.taken[v],
         out |-> filled.out[v]]]

Paying(filled) == {v \in DOMAIN filled.out : filled.out[v] > 0}

RouteOf(filled, paying, amount) ==
  LET gross == Sum(filled.out, SetToSeq(paying))
  IN [amount_in |-> amount,
      segments |-> IF paying = {} THEN <<>> ELSE Segments(filled, paying, amount),
      gross |-> gross,
      net |-> gross - MulDivCeil(gross, FEE_NUMERATOR, FEE_DENOMINATOR)]

ComputeRoute(profiles, amount) ==
  LET filled == Allocate(profiles, Levels(amount), amount)
  IN RouteOf(filled, Paying(filled), amount)

MinOut(out, slippage) == (out * (BPS_DENOMINATOR - slippage)) \div BPS_DENOMINATOR

(* Execution rate against the best small-size rate of any venue, in bps.    *)
PriceImpact(profiles, route) ==
  LET first == Levels(route.amount_in)[1]
      spot == Greatest({p.outs[1] : p \in profiles})
  IN IF spot <= 0 \/ route.gross <= 0 THEN 0
     ELSE Greatest({0, BPS_DENOMINATOR
            - (route.gross * first * BPS_DENOMINATOR) \div (route.amount_in * spot)})

ImpactViolation(bps) == bps > PRICE_IMPACT_MAX_BPS

-----------------------------------------------------------------------------
(* The pathfinder.  An edge is a pool's pair of tokens;                *)
(* profilesOf[<<in, out, amount>>] is what the venues answer for a hop.      *)

Touches(e, t) == t \in {e.a, e.b}
PoolTokens(edges) == UNION {{e.a, e.b} : e \in Range(edges)}
Other(e, t) == IF e.a = t THEN e.b ELSE e.a

(* Every Sushi and Curve edge of a token, but of Aqua's the most liquid.    *)
Adjacency(edges, t) ==
  LET mine == SelectSeq(edges, LAMBDA e : Touches(e, t))
      aqua == SortSeq(SelectSeq(mine, LAMBDA e : e.venue = "aqua"),
                      LAMBDA x, y : x.liquidity > y.liquidity)
  IN SubSeq(aqua, 1, IF Len(aqua) < BRANCH_CAP THEN Len(aqua) ELSE BRANCH_CAP)
       \o SelectSeq(mine, LAMBDA e : e.venue # "aqua")

LongEnough(path) == Len(path) - 1 >= MAX_HOPS

(* Depth first, from a path and what was found so far.                      *)
Walk(edges, in, out) ==
  LET tokens == {in} \union PoolTokens(edges)
      walk[at \in Seq(tokens) \X Seq(Seq(tokens))] ==
        LET path == at[1]
            found == at[2]
        IN IF Len(found) >= CANDIDATE_CAP \/ LongEnough(path) THEN found
           ELSE FoldLeft(LAMBDA acc, e :
                  LET next == Other(e, Last(path))
                  IN IF next \in Range(path) \/ Len(acc) >= CANDIDATE_CAP THEN acc
                     ELSE IF next = out THEN Append(acc, Append(path, next))
                     ELSE walk[<<Append(path, next), acc>>],
                  found, Adjacency(edges, Last(path)))
  IN walk[<<<<in>>, <<>>>>]

CandidatePaths(edges, in, out) ==
  SelectSeq(Walk(edges, in, out), LAMBDA p : Len(p) > 2)

EdgeScore(edges, a, b) ==
  Greatest({0} \union {e.liquidity : e \in {x \in Range(Adjacency(edges, a)) : Other(x, a) = b}})

(* The sum of logarithms, compared as the product it is the logarithm of.   *)
PathScore(edges, path) ==
  FoldLeft(LAMBDA acc, i : acc * (EdgeScore(edges, path[i], path[i + 1]) + 1), 1,
           [i \in 1..(Len(path) - 1) |-> i])

RankPaths(edges, paths) ==
  LET scored == {i \in DOMAIN paths :
                   \A k \in 1..(Len(paths[i]) - 1) :
                     EdgeScore(edges, paths[i][k], paths[i][k + 1]) > 0}
      better(i, j) ==
        \/ Len(paths[i]) < Len(paths[j])
        \/ /\ Len(paths[i]) = Len(paths[j])
           /\ LET si == PathScore(edges, paths[i])
                  sj == PathScore(edges, paths[j])
              IN si > sj \/ (si = sj /\ i < j)
      order == SetToSortSeq(scored, better)
  IN [k \in 1..(IF Len(order) < VERIFY_TOP THEN Len(order) ELSE VERIFY_TOP) |-> paths[order[k]]]

NoPath == [hops |-> <<>>, net |-> 0]

(* A hop is sized from what the hop before guarantees.                     *)
NextHop(acc, in, out, slippage, profiles, route) ==
  LET min == MinOut(route.net, slippage)
  IN [amount |-> min,
      hops |-> Append(acc.hops,
        [token_in |-> in, token_out |-> out, amount_in |-> acc.amount, min_out |-> min,
         route |-> route, impact |-> PriceImpact(profiles, route)])]

Chain(quoted) ==
  IF quoted.amount = 0 THEN NoPath
  ELSE [hops |-> quoted.hops, net |-> Last(quoted.hops).route.net]

QuotePath(path, amount, slippage, profilesOf) ==
  LET step(acc, i) ==
        IF acc.amount = 0 THEN acc
        ELSE LET profiles == profilesOf[<<path[i], path[i + 1], acc.amount>>]
             IN NextHop(acc, path[i], path[i + 1], slippage, profiles,
                        ComputeRoute(profiles, acc.amount))
  IN Chain(FoldLeft(step, [amount |-> amount, hops |-> <<>>], [i \in 1..(Len(path) - 1) |-> i]))

KeepBetter(best, next) == IF next.net > best.net THEN next ELSE best

BestPath(edges, in, out, amount, slippage, profilesOf) ==
  LET ranked == RankPaths(edges, CandidatePaths(edges, in, out))
  IN FoldLeft(KeepBetter, NoPath,
       [i \in DOMAIN ranked |-> QuotePath(ranked[i], amount, slippage, profilesOf)])
=============================================================================
