----------------------------- MODULE RouterTerms -----------------------------
(* What the Router contract asks of a call before it moves anything.        *)
EXTENDS Integers, Sequences, Functions

CONSTANTS MAX_PATH_HOPS, WEIGHT_DENOMINATOR

Total(legs) == SumFunction([i \in DOMAIN legs |-> legs[i].part])

LegsPositive(legs) ==
  /\ Len(legs) > 0
  /\ \A i \in DOMAIN legs : legs[i].part > 0 /\ legs[i].min_amount_out >= 0

ValidSegments(legs, amount) == LegsPositive(legs) /\ Total(legs) = amount

ValidPath(token_in, hops) ==
  /\ Len(hops) \in 1..MAX_PATH_HOPS
  /\ \A i \in DOMAIN hops :
       /\ hops[i].token_out # (IF i = 1 THEN token_in ELSE hops[i - 1].token_out)
       /\ LegsPositive(hops[i].legs)
       /\ Total(hops[i].legs) = WEIGHT_DENOMINATOR

(* An estimate below the caller's own floor would make honest output a      *)
(* surplus.                                                                 *)
ValidAmounts(o) ==
  /\ o.amount_in > 0 /\ o.min_amount_out > 0
  /\ o.estimated_out > 0 => o.estimated_out >= o.min_amount_out
=============================================================================
