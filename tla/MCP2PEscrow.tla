---------------------------- MODULE MCP2PEscrow ----------------------------
(* Small instances of P2PEscrow: one trade, one worker or two.             *)
EXTENDS P2PEscrow, TLC

CONSTANTS w1, w2
Workers == Permutations(Callers)
=============================================================================
