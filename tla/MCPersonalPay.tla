--------------------------- MODULE MCPersonalPay ---------------------------
(* A small instance of PersonalPay: sends of two processes, of which two   *)
(* are for the same request.                                               *)
EXTENDS PersonalPay, TLC

CONSTANTS t1, t2, t3, r1

\* Two sends compete for one request; a third is for none.
MCThreeSends == (t1 :> r1) @@ (t2 :> r1) @@ (t3 :> NoRequest)

CONSTANTS c1, c2
MCSymmetry == Permutations({c1, c2}) \cup Permutations({t1, t2})
=============================================================================
