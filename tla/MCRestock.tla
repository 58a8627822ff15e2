------------------------------ MODULE MCRestock ------------------------------
(* Two bonds and two ticks that overlap; no call fails.                     *)
EXTENDS Restock

CONSTANTS b1, b2
TwoBonds == <<b1, b2>>
=============================================================================
