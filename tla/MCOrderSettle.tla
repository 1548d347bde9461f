--------------------------- MODULE MCOrderSettle ---------------------------
(* A small instance of OrderSettle: one order of two units meets two of    *)
(* one unit, as their maker or as their taker.                             *)
EXTENDS OrderSettle, TLC

CONSTANTS s1, b1, b2, p1, p2
MCQty == s1 :> 2 @@ b1 :> 1 @@ b2 :> 1
MCSymmetry == Permutations({b1, b2}) \cup Permutations({p1, p2})
=============================================================================
