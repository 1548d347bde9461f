-------------------------- MODULE MCPostingFreeze --------------------------
(* A small instance of PostingFreeze: two people, one of them spelled two  *)
(* ways, and a blank id.                                                   *)
EXTENDS PostingFreeze, TLC

CONSTANTS alice, ALICE, bob, blank

MCActors == {alice, ALICE, bob, blank}
MCPeople == {"alice", "bob"}
MCCanon == (alice :> "alice") @@ (ALICE :> "alice") @@ (bob :> "bob") @@ (blank :> Nobody)

CONSTANTS c1, c2
=============================================================================
