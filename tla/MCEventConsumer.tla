-------------------------- MODULE MCEventConsumer --------------------------
(* A small instance of EventConsumer: two messages, each with its key.     *)
EXTENDS EventConsumer, TLC

CONSTANTS m1, m2, k1, k2, p1, p2
MCOwnKey == m1 :> k1 @@ m2 :> k2
=============================================================================
