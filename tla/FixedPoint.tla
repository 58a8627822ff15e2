----------------------------- MODULE FixedPoint -----------------------------
(***************************************************************************)
(* The integer arithmetic every ufama contract shares: mul-div with the     *)
(* rounding direction spelled out, the protocol fee, and the gross payment  *)
(* that leaves a given net after the fee; and numbers put in order.         *)
(***************************************************************************)
EXTENDS Integers, FiniteSets

(* Products go through 256-bit integers in the contracts, so the only       *)
(* rounding is the division's.  Operands are never negative there.          *)
MulDivFloor(a, b, d) == (a * b) \div d
MulDivCeil(a, b, d) == (a * b + (d - 1)) \div d

(* The protocol fee on a payment: rate/denom of it, rounded up.             *)
CalculateFee(amount, rate, denom) == MulDivCeil(amount, rate, denom)
NetOfFee(amount, rate, denom) == amount - CalculateFee(amount, rate, denom)

(* What a taker sends so that the maker is left with net.                   *)
GrossForNet(net, rate, denom) == MulDivCeil(net, denom, denom - rate)

(* A set of numbers in ascending order.                                     *)
InOrder(ids) ==
  CHOOSE s \in [1..Cardinality(ids) -> ids] : \A i, j \in DOMAIN s : i < j => s[i] < s[j]

(* What brings whole tokens to base units.                                  *)
Pow10[exp \in Nat] == IF exp = 0 THEN 1 ELSE 10 * Pow10[exp - 1]
=============================================================================
