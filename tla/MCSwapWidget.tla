---------------------------- MODULE MCSwapWidget -----------------------------
(* A pool and the classic order book between tA and tB, and a way round by  *)
(* tM.  In the first market the way round pays, in the second the book and  *)
(* the pool together; there the second hop is the book's, or a pool's that  *)
(* no adapter knows.                                                        *)
EXTENDS SwapWidget, TLC

CONSTANTS tA, tM, tB

Product(in, out, x) == (out * x) \div (in + x)

MCGives(v, i, o, x, m) ==
  CASE <<i, o, v>> = <<tA, tM, 1>> -> Product(20, IF m = 1 THEN 60 ELSE 55, x)
    [] <<i, o, v>> = <<tA, tM, 2>> -> Product(20, 50, x)
    [] <<i, o, v>> = <<tM, tB, 1>> -> IF m = 1 THEN Product(60, 400, x) ELSE 0
    [] <<i, o, v>> = <<tM, tB, 2>> -> IF m = 2 THEN Product(60, 330, x) ELSE 0
    [] <<i, o, v>> = <<tM, tB, 3>> -> IF m = 2 THEN Product(60, 350, x) ELSE 0
    [] <<i, o, v>> = <<tA, tB, 1>> -> Product(30, 250, x)
    [] <<i, o, v>> = <<tA, tB, 3>> -> IF m = 2 THEN Product(30, 240, x) ELSE 0
    [] OTHER -> 0
E1(a, b, v, l) == [a |-> a, b |-> b, venue |-> v, liquidity |-> l]
MCEdges == <<E1(tA, tM, "aqua", 4), E1(tM, tB, "aqua", 2), E1(tA, tB, "aqua", 1)>>
MCPairs == {<<tA, tB>>, <<tB, tA>>, <<tM, tB>>}
MCStartPair == <<tA, tB>>
MCTwapPair == <<tM, tB>>
MCConfigs == {[v12 |-> FALSE, surplus |-> FALSE], [v12 |-> TRUE, surplus |-> TRUE]}
MCNewest == {c \in MCConfigs : c.v12}
MCWallets == {(tA :> 9) @@ (tM :> 4) @@ (tB :> 0)}
MCUnregistered == {<<2, tM, tB>>}
=============================================================================
