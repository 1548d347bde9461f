-------------------------- MODULE MCJournalWriters --------------------------
(* A small instance of JournalWriters: two processes with one pid and one  *)
(* with another.                                                           *)
EXTENDS JournalWriters, TLC

CONSTANTS a, b, c, i1, i2
MCPids == [p \in Procs |-> IF p \in {a, b} THEN 1 ELSE 2]
=============================================================================
