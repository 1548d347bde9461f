----------------------------- MODULE DurableLog -----------------------------
(***************************************************************************)
(* What EngineJournal promises the matching engine                         *)
(* (services/svc-matching/src/engine/journal-codec.ts, journal-io.ts): an  *)
(* input that was admitted keeps its place whatever crashes, an input that *)
(* was refused is never seen again, and an input whose append ended in     *)
(* doubt stops the journal until the next open, which takes it or not.     *)
(***************************************************************************)
EXTENDS Sequences

CONSTANT Inputs

VARIABLES
  log,      \* inputs admitted, in order
  refused,  \* inputs whose append was refused
  open      \* inputs may be admitted

vars == <<log, refused, open>>

Init == log = <<>> /\ refused = {} /\ open = FALSE

Fresh(c) == c \notin refused /\ \A i \in DOMAIN log : log[i] # c

Admit(c) ==
  /\ open /\ Fresh(c)
  /\ log' = Append(log, c)
  /\ UNCHANGED <<refused, open>>

Refuse(c) ==
  /\ open /\ Fresh(c)
  /\ refused' = refused \cup {c}
  /\ UNCHANGED <<log, open>>

Stop == open /\ open' = FALSE /\ UNCHANGED <<log, refused>>

\* The next open, with the input that was in doubt or without it.
Open ==
  /\ ~open /\ open' = TRUE
  /\ \/ UNCHANGED log
     \/ \E c \in Inputs : Fresh(c) /\ log' = Append(log, c)
  /\ UNCHANGED refused

Next == Stop \/ Open \/ \E c \in Inputs : Admit(c) \/ Refuse(c)

Spec == Init /\ [][Next]_vars
=============================================================================
