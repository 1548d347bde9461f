----------------------------- MODULE P2PEscrow -----------------------------
(***************************************************************************)
(* One trade of svc-p2p from the take to the stamp: the claimed escrow     *)
(* lock, the payment, the dispute, the decision, its settlement and the    *)
(* sweeps that repeat them (services/svc-p2p/src/p2p-service.ts, state.ts, *)
(* drizzle/0003 and 0014), over the ledger calls of PostClient.            *)
(*                                                                         *)
(* A worker runs one request or one pass of a sweep; a transaction under   *)
(* the row's lock is one step, except the one that posts the escrow lock   *)
(* while it holds the row.  Deadlines may pass at any moment.  The ledger  *)
(* is given no help: it may book a release without a lock.  Left out: the  *)
(* rules that admit a take, reputation, notices and escalations.           *)
(***************************************************************************)
EXTENDS PostClient

CONSTANTS
  NoWorker,     \* nobody holds the trade's row
  MaxCrashes    \* bound: ends of a worker's process

ASSUME P2PEscrowConstants ==
  /\ NoWorker \notin Callers
  /\ Keys = {"lock", "release", "refund"}
  /\ MaxAttempts = 1                \* ledger-client.ts: a post is not retried in the client
  /\ MaxCrashes \in Nat

VARIABLES
  trade,      \* the row of p2p_trades
  dispute,    \* the row of p2p_disputes: "none", "open", "resolved"
  paid,       \* history: the buyer marked the fiat sent: "no", "yes", "raced"
  left,       \* remaining_amt of the offer, in trades
  holder,     \* who holds the trade's row while it posts
  job,        \* per worker: the step it is at
  told,       \* settlements announced
  crashes

rows == <<trade, dispute, paid, left>>
rest == <<rows, holder, job, told, crashes>>   \* what a step of PostClient leaves alone
vars == <<postVars, rest>>

Statuses == {"none", "created", "escrowed", "fiat_sent", "disputed", "released", "cancelled"}
Resolutions == {"released", "refunded", "voided"}
Steps == {"idle", "claim", "lock", "posting", "confirm", "decide", "settle", "settling", "tell", "stamp"}

\* A second attempt and every later one are alike.
Ordinals == 0 .. 2
Total == 2

Idle == [step |-> "idle", unwinds |-> FALSE, expect |-> "none", ordinal |-> 0]

Init ==
  /\ PostInit
  /\ trade = [status |-> "none", resolution |-> "none", attempts |-> 0, settled |-> FALSE]
  /\ dispute = "none" /\ paid = "no" /\ left = Total
  /\ holder = NoWorker
  /\ job = [w \in Callers |-> Idle]
  /\ told = {} /\ crashes = 0

-----------------------------------------------------------------------------
(* The trade's state machine                                               *)

Edges ==
  [s \in Statuses |->
     CASE s = "created"   -> {"escrowed", "cancelled"}
       [] s = "escrowed"  -> {"fiat_sent", "released", "cancelled", "disputed"}
       [] s = "fiat_sent" -> {"released", "cancelled", "disputed"}
       [] s = "disputed"  -> {"released", "cancelled"}
       [] OTHER           -> {}]

HoldsEscrow(s) == s \in {"escrowed", "fiat_sent", "disputed"}
Free == holder = NoWorker
At(w, s) == job[w].step = s
Go(w, s) == job' = [job EXCEPT ![w].step = s]
Done(w) == job' = [job EXCEPT ![w] = Idle]

\* The trigger on the terminal write: a disputed trade ends on a ruling.
Ruled == dispute # "open"

\* writeDecision: the trade's end, and an amount that did not trade is on offer again.
WriteDecision(to, resolution) ==
  /\ trade' = [trade EXCEPT !.status = to, !.resolution = resolution]
  /\ left' = IF resolution = "released" THEN left ELSE IF left < Total THEN left + 1 ELSE Total

-----------------------------------------------------------------------------
(* The take, and the escrow lock                                           *)

\* takeOffer: reserveTrade; a second take of the id is refused whole.
Take(w) ==
  /\ At(w, "idle") /\ trade.status = "none"
  /\ trade' = [trade EXCEPT !.status = "created"]
  /\ left' = left - 1
  /\ Go(w, "claim")
  /\ UNCHANGED <<postVars, dispute, paid, holder, told, crashes>>

\* claimEscrowLockAttempt, committed before the post
ClaimEscrowLockAttempt(w) ==
  /\ At(w, "claim") /\ Free
  /\ LET n == IF trade.attempts = 2 THEN 2 ELSE trade.attempts + 1 IN
       IF trade.status = "created"
         THEN /\ trade' = [trade EXCEPT !.attempts = n]
              /\ job' = [job EXCEPT ![w].step = "lock", ![w].ordinal = n]
         ELSE Go(w, "lock") /\ UNCHANGED trade
  /\ UNCHANGED <<postVars, dispute, paid, left, holder, told, crashes>>

\* A worker that came to know the trade is escrowed, or is past it.
Known(w, status) ==
  job' = [job EXCEPT ![w] = IF @.unwinds THEN [@ EXCEPT !.step = "decide", !.expect = status] ELSE Idle]

\* ensureEscrowed takes the row and posts while it holds it.
PostEscrowLock(w) ==
  /\ At(w, "lock") /\ Free /\ trade.status = "created"
  /\ holder' = w
  /\ BeginPost(w, "lock")
  /\ Go(w, "posting")
  /\ UNCHANGED <<rows, told, crashes>>

EscrowLockMoot(w) ==
  /\ At(w, "lock") /\ Free /\ trade.status # "created"
  /\ Known(w, trade.status)
  /\ UNCHANGED <<postVars, rows, holder, told, crashes>>

\* advanceToEscrowed, then the event: a publish that throws ends the request.
EscrowLocked(w) ==
  /\ At(w, "posting") /\ call[w].st = "ok"
  /\ LetGo(w)
  /\ trade' = [trade EXCEPT !.status = "escrowed"]
  /\ holder' = NoWorker
  /\ Known(w, "escrowed") \/ Done(w)
  /\ UNCHANGED <<dispute, paid, left, told, crashes>>

\* Mutant of Voids: other attempts are not looked at.
VoidsByOrdinal(w) == job[w].ordinal = 1

\* Only the first and only attempt's refusal proves that nothing was locked.
Voids(w) == job[w].ordinal = 1 /\ trade.attempts = 1

\* The seller has not the funds.
EscrowLockRefused(w) ==
  /\ At(w, "posting") /\ call[w].st = "err" /\ call[w].err = "refused"
  /\ LetGo(w)
  /\ Voids(w)
  /\ WriteDecision("cancelled", "voided")
  /\ job' = [job EXCEPT ![w] = [Idle EXCEPT !.step = "settle"]]
  /\ holder' = NoWorker
  /\ UNCHANGED <<dispute, paid, told, crashes>>

\* Mutant of EscrowLockUncertain: a call that timed out is taken to have locked.
EscrowLockAssumed(w) ==
  /\ At(w, "posting") /\ call[w].st = "err"
  /\ LetGo(w)
  /\ trade' = IF call[w].err = "lost" THEN [trade EXCEPT !.status = "escrowed"] ELSE trade
  /\ holder' = NoWorker
  /\ Done(w)
  /\ UNCHANGED <<dispute, paid, left, told, crashes>>

\* Every other error, and a refusal that proves nothing: the row stays created.
EscrowLockUncertain(w) ==
  /\ At(w, "posting") /\ call[w].st = "err"
  /\ ~(call[w].err = "refused" /\ Voids(w))
  /\ LetGo(w)
  /\ holder' = NoWorker
  /\ Done(w)
  /\ UNCHANGED <<rows, told, crashes>>

-----------------------------------------------------------------------------
(* The parties, the moderator, the timeout                                 *)

\* An unwind that read the order as created has not read it again.
UnwindsFromCreated == \E w \in Callers : job[w].unwinds /\ job[w].step \in {"claim", "lock", "posting"}

\* markFiatSent
MarkFiatSent ==
  /\ Free /\ "fiat_sent" \in Edges[trade.status]
  /\ trade' = [trade EXCEPT !.status = "fiat_sent"]
  /\ paid' = IF UnwindsFromCreated THEN "raced" ELSE "yes"
  /\ UNCHANGED <<postVars, dispute, left, holder, job, told, crashes>>

\* confirmFiatReceived reads the trade ...
ConfirmFiatReceived(w) ==
  /\ At(w, "idle") /\ trade.status \in {"escrowed", "fiat_sent"}
  /\ Go(w, "confirm")
  /\ UNCHANGED <<postVars, rows, holder, told, crashes>>

\* ... and records its decision under the lock.
Release(w) ==
  /\ At(w, "confirm") /\ Free
  /\ IF "released" \in Edges[trade.status] /\ HoldsEscrow(trade.status) /\ Ruled
       THEN WriteDecision("released", "released") /\ Go(w, "settle")
       ELSE Done(w) /\ UNCHANGED <<trade, left>>
  /\ UNCHANGED <<postVars, dispute, paid, holder, told, crashes>>

\* Mutant of Unwind: no timeout of an order in escrow.
UnwindCreatedOnly(w) ==
  /\ At(w, "idle") /\ trade.status = "created"
  /\ job' = [job EXCEPT ![w] = [Idle EXCEPT !.step = "claim", !.unwinds = TRUE]]
  /\ UNCHANGED <<postVars, rows, holder, told, crashes>>

\* cancelTrade and the two timeouts that refund: unwind.
Unwind(w) ==
  /\ At(w, "idle")
  /\ \/ /\ trade.status = "created"
        /\ job' = [job EXCEPT ![w] = [Idle EXCEPT !.step = "claim", !.unwinds = TRUE]]
     \/ /\ trade.status = "escrowed"
        /\ job' = [job EXCEPT ![w] = [Idle EXCEPT !.step = "decide", !.unwinds = TRUE, !.expect = "escrowed"]]
  /\ UNCHANGED <<postVars, rows, holder, told, crashes>>

\* Mutant of AsExpected: the status the decision was made on is not looked at again.
AsExpectedEdge(w) == "cancelled" \in Edges[trade.status]

AsExpected(w) == "cancelled" \in Edges[trade.status] /\ trade.status = job[w].expect

Refund(w) ==
  /\ At(w, "decide") /\ Free
  /\ IF AsExpected(w) /\ HoldsEscrow(trade.status) /\ Ruled
       THEN WriteDecision("cancelled", "refunded") /\ Go(w, "settle")
       ELSE Done(w) /\ UNCHANGED <<trade, left>>
  /\ UNCHANGED <<postVars, dispute, paid, holder, told, crashes>>

\* openDispute by a party, or by the timeout of an order marked paid
OpenDispute ==
  /\ Free /\ "disputed" \in Edges[trade.status] /\ dispute = "none"
  /\ dispute' = "open"
  /\ trade' = [trade EXCEPT !.status = "disputed"]
  /\ UNCHANGED <<postVars, paid, left, holder, job, told, crashes>>

\* resolveDispute: a publish that throws leaves the settlement to the sweep.
ResolveDispute(w) ==
  /\ At(w, "idle") /\ Free /\ dispute = "open" /\ trade.status = "disputed"
  /\ dispute' = "resolved"
  /\ WriteDecision("released", "released") \/ WriteDecision("cancelled", "refunded")
  /\ Go(w, "settle") \/ Done(w)
  /\ UNCHANGED <<postVars, paid, holder, told, crashes>>

-----------------------------------------------------------------------------
(* The settlement                                                          *)

\* Mutant of SweepSettlements: refunds are not on its list.
SweepReleases(w) ==
  /\ At(w, "idle") /\ trade.resolution = "released" /\ ~trade.settled
  /\ Go(w, "settle")
  /\ UNCHANGED <<postVars, rows, holder, told, crashes>>

SweepSettlements(w) ==
  /\ At(w, "idle") /\ trade.resolution # "none" /\ ~trade.settled
  /\ Go(w, "settle")
  /\ UNCHANGED <<postVars, rows, holder, told, crashes>>

\* settleOnce: a stamped trade is left alone; a void posts nothing.
Settle(w) ==
  /\ At(w, "settle")
  /\ \/ trade.settled /\ Done(w) /\ UNCHANGED postVars
     \/ ~trade.settled /\ trade.resolution = "voided" /\ Go(w, "tell") /\ UNCHANGED postVars
     \/ ~trade.settled /\ trade.resolution = "released" /\ BeginPost(w, "release") /\ Go(w, "settling")
     \/ ~trade.settled /\ trade.resolution = "refunded" /\ BeginPost(w, "refund") /\ Go(w, "settling")
  /\ UNCHANGED <<rows, holder, told, crashes>>

SettlePosted(w) ==
  /\ At(w, "settling") /\ call[w].st \in {"ok", "err"}
  /\ LetGo(w)
  /\ IF call[w].st = "ok" THEN Go(w, "tell") ELSE Done(w)
  /\ UNCHANGED <<rows, holder, told, crashes>>

\* announceSettlement, before the stamp
AnnounceSettlement(w) ==
  /\ At(w, "tell")
  /\ told' = IF trade.resolution = "voided" THEN told ELSE told \cup {trade.resolution}
  /\ Go(w, "stamp")
  /\ UNCHANGED <<postVars, rows, holder, crashes>>

AnnounceFails(w) ==
  /\ At(w, "tell") /\ trade.resolution # "voided"
  /\ Done(w)
  /\ UNCHANGED <<postVars, rows, holder, told, crashes>>

Stamp(w) ==
  /\ At(w, "stamp")
  /\ trade' = [trade EXCEPT !.settled = TRUE]
  /\ Done(w)
  /\ UNCHANGED <<postVars, dispute, paid, left, holder, told, crashes>>

\* The process ends: a transaction of its own is rolled back.
Crash(w) ==
  /\ ~At(w, "idle") /\ crashes < MaxCrashes
  /\ crashes' = crashes + 1
  /\ LetGo(w)
  /\ Done(w)
  /\ holder' = IF holder = w THEN NoWorker ELSE holder
  /\ UNCHANGED <<rows, told>>

-----------------------------------------------------------------------------
Step(w) ==
  \/ ClaimEscrowLockAttempt(w) \/ PostEscrowLock(w) \/ EscrowLockMoot(w)
  \/ EscrowLocked(w) \/ EscrowLockRefused(w) \/ EscrowLockUncertain(w)
  \/ Release(w) \/ Refund(w)
  \/ Settle(w) \/ SettlePosted(w) \/ AnnounceSettlement(w) \/ AnnounceFails(w) \/ Stamp(w)

Next ==
  \/ \E w \in Callers :
       \/ Take(w) \/ ConfirmFiatReceived(w) \/ Unwind(w) \/ ResolveDispute(w) \/ SweepSettlements(w)
       \/ Step(w) \/ Crash(w)
  \/ MarkFiatSent \/ OpenDispute
  \/ PostStep /\ UNCHANGED rest

Spec == Init /\ [][Next]_vars

CallStep(w) ==
  /\ NeverSent(w) \/ AttemptAbandoned(w) \/ Reply(w) \/ ReplyLost(w) \/ GiveUp(w)
     \/ LedgerBooks(w) \/ LedgerRefuses(w) \/ DoorRefuses(w)
  /\ UNCHANGED rest

\* Workers and calls go on; the sweeps run again and again; posts made again and
\* again are answered by the ledger's engine and the answers heard.  A release or a
\* refund is then booked at last, since the lock funds it; a lock is at the mercy of
\* the seller's funds.
Fairness ==
  /\ \A w \in Callers :
       /\ WF_vars(Step(w)) /\ WF_vars(CallStep(w))
       /\ SF_vars(Unwind(w)) /\ SF_vars(SweepSettlements(w))
       /\ SF_vars((LedgerBooks(w) \/ LedgerRefuses(w)) /\ UNCHANGED rest)
       /\ SF_vars(call[w].key # "lock" /\ LedgerBooks(w) /\ UNCHANGED rest)
       /\ SF_vars(Reply(w) /\ call[w].err # "door" /\ UNCHANGED rest)
       /\ SF_vars(call[w].key # "lock" /\ Reply(w) /\ call[w].err = "none" /\ UNCHANGED rest)
       /\ SF_vars(AnnounceSettlement(w))
  /\ SF_vars(trade.status = "fiat_sent" /\ OpenDispute)

FairSpec == Spec /\ Fairness

-----------------------------------------------------------------------------
(* Properties                                                              *)

\* Trade, dispute and calls keep their types; the offer never gives out more
\* than it has.
TypeOK ==
  /\ PostTypeOK
  /\ trade \in [status : Statuses, resolution : Resolutions \cup {"none"}, attempts : Ordinals, settled : BOOLEAN]
  /\ dispute \in {"none", "open", "resolved"} /\ paid \in {"no", "yes", "raced"} /\ left \in 0 .. Total
  /\ holder \in Callers \cup {NoWorker}
  /\ job \in [Callers -> [step : Steps, unwinds : BOOLEAN, expect : Statuses, ordinal : Ordinals]]
  /\ told \subseteq Resolutions /\ crashes \in 0 .. MaxCrashes

\* state.ts: "voided" says that nothing was ever locked; no attempt, however late,
\* books a lock for a voided trade.
VoidedNeverLocks == trade.resolution = "voided" => "lock" \notin book

\* escrowIntegrity: a trade that holds escrow has its lock booked, and what is
\* paid out of it is what its decision says, of the two at most one.
EscrowAccounted ==
  /\ HoldsEscrow(trade.status) \/ trade.resolution \in {"released", "refunded"} => "lock" \in book
  /\ "release" \in book => trade.resolution = "released"
  /\ "refund" \in book => trade.resolution = "refunded"

\* recordDecision: an order the buyer has marked paid is refunded by a moderator's
\* ruling only, whatever a cancel or a timeout had read of it.  Outside: an unwind
\* that found the order created makes sure of the escrow, takes the status it finds
\* there for the one it decides on, and refunds an order marked paid meanwhile.
PaidIsNotRefunded == paid = "yes" /\ trade.resolution = "refunded" => dispute = "resolved"

\* drizzle/0003: a disputed escrow ends on a ruling only, also when the seller's
\* confirmation had read the trade before the dispute.
DisputeEndsByRuling == dispute # "none" /\ trade.resolution # "none" => dispute = "resolved"

\* settleOnce: a trade that is stamped, and so left by the sweep, has its money
\* moved and its settlement announced.
StampedIsDone ==
  trade.settled =>
    \/ trade.resolution = "voided"
    \/ trade.resolution = "released" /\ "release" \in book /\ "released" \in told
    \/ trade.resolution = "refunded" /\ "refund" \in book /\ "refunded" \in told

\* Trade and book agree: what is locked, paid out and stamped is what the trade
\* says, and a dispute is ended by its ruling.
EscrowConsistent == TypeOK /\ EscrowAccounted /\ StampedIsDone /\ DisputeEndsByRuling

\* sweepSettlements: every decision is settled in the end, through failed posts,
\* failed announcements and crashes.
DecidedIsSettled == trade.resolution # "none" ~> trade.settled

\* sweepDeadlines: an order in escrow does not stay there unless it is disputed.
EscrowStallsEnd == trade.status \in {"escrowed", "fiat_sent"} ~> trade.status \notin {"escrowed", "fiat_sent"}
=============================================================================
