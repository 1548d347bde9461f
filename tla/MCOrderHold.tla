---------------------------- MODULE MCOrderHold ----------------------------
(* A small instance of OrderHold.  Orders share nothing here, so one order  *)
(* and the processes that work on it meet every interleaving of theirs.    *)
EXTENDS OrderHold, TLC

CONSTANTS o1, c1, c2, c3
MCSymmetry == Permutations(Callers)
=============================================================================
