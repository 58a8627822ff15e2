----------------------------- MODULE MCQuoting ------------------------------
(* A venue with two pools and its adapter's own, the classic order book, and*)
(* a venue that gives a price.  The levels are 10, 12 and 18 of up to 20; a  *)
(* bp is a tenth, which is more than a unit of any of them.                 *)
EXTENDS Quoting, TLC

CONSTANTS p1, p2, reg, dex, sdex

Grid == {1} \union {2 * n : n \in 1..10}
Product(in, out, x) == (out * x) \div (in + x)      \* a constant product pool

MCReachable == {{}, {1}, {1, 2}, {1, 3}}
MCPools == (1 :> <<p1, p2, reg>>) @@ (2 :> <<sdex>>) @@ (3 :> <<dex>>)
MCQuotes ==
  (p1 :> <<[x \in Grid |-> Product(60, 66, x)], [x \in Grid |-> Product(80, 60, x)]>>) @@
  (p2 :> <<[x \in Grid |-> IF x > 14 THEN 0 ELSE Product(40, 40, x)]>>) @@
  (reg :> <<[x \in Grid |-> IF x > 10 THEN 0 ELSE Product(18, 18, x)]>>) @@
  (sdex :> <<[x \in Grid |-> 9], [x \in Grid |-> 12]>>) @@
  (dex :> <<[x \in Grid |-> Product(100, 128, x)], [x \in Grid |-> 0]>>)
=============================================================================
