-------------------------- MODULE MCMatchingEngine --------------------------
(* A small instance of MatchingEngine: of one account an order that rests  *)
(* and a trailing stop, of another an order that may take the first.       *)
EXTENDS MatchingEngine

CONSTANTS s1, t1, b1, alice, bob
MCAccount == [o \in Orders |-> IF o = b1 THEN bob ELSE alice]
=============================================================================
