-------------------------- MODULE MCPostgresLedger --------------------------
(* A small instance of PostgresLedger.  Alice holds 2 and the posts race for *)
(* them: a spend of it all, a reservation of half of it, and under the      *)
(* reservation's key a retry with its entries in another order, the same    *)
(* lines twice, the same movement for another reason, and a post that does  *)
(* not balance.                                                             *)
EXTENDS PostgresLedger, TLC

CONSTANTS c1, c2, d1

MCOwnerIds == {"a-uuid", "b-uuid", "mint"}
MCUuids == {"a-uuid", "b-uuid"}
MCSlugs == {"mint"}
MCTrimmed == ("" :> "") @@ ("order:x" :> "order:x") @@ ("order:x " :> "order:x")

Pot(type, id, kind, purpose) ==
  [ownerType |-> type, ownerId |-> id, asset |-> "usd", kind |-> kind, purpose |-> purpose]

Mint == Pot("treasury", "mint", "available", "")
Alice == Pot("user", "a-uuid", "available", "")
AliceHold == Pot("user", "a-uuid", "hold", "order:x")
Padded == Pot("user", "a-uuid", "hold", "order:x ")

MCAccounts == {Mint, Alice, AliceHold}
MCInitBalance == (Mint :> -2) @@ (Alice :> 2) @@ (AliceHold :> 0)

In(account, n) == [account |-> account, direction |-> "debit", amount |-> n]
Out(account, n) == [account |-> account, direction |-> "credit", amount |-> n]
Req(k, es) == [key |-> k, reason |-> "transfer", entries |-> es]

Withdraw == Req("k1", <<Out(Alice, 2), In(Mint, 2)>>)
Reserve == Req("k2", <<Out(Alice, 1), In(AliceHold, 1)>>)
ReserveAgain == Req("k2", <<In(Padded, 1), Out(Alice, 1)>>)
ReserveRenamed == [Reserve EXCEPT !.reason = "fee"]
ReserveTwice == Req("k2", <<Out(Alice, 1), In(AliceHold, 1), Out(Alice, 1), In(AliceHold, 1)>>)
Lopsided == Req("k2", <<Out(Alice, 1), In(AliceHold, 2)>>)

MCRequests == {Withdraw, Reserve, ReserveAgain, ReserveTwice, ReserveRenamed, Lopsided}
=============================================================================
