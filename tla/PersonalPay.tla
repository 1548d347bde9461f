---------------------------- MODULE PersonalPay ----------------------------
(***************************************************************************)
(* Personal sends and payment requests of svc-bank                         *)
(* (services/svc-bank/src/transfers/personal-pay.ts) over the ledger call  *)
(* of PostClient, whose keys are here the ids of the sends.                *)
(*                                                                         *)
(* One payer and one asset.  Every send has the amount 1, so the daily     *)
(* limit counts sends.  A request asks for one payment; a send may be for  *)
(* a request.  A call of send runs in a process of its own and may stop    *)
(* at any step: its process dies, or a read it makes throws.  The notices  *)
(* of requests and reminders, notes and handles are left out.              *)
(***************************************************************************)
EXTENDS PostClient, FiniteSets

CONSTANTS
  Requests,    \* payment requests, open at first
  NoRequest,   \* a send that settles no request
  RequestOf,   \* per send: the request it settles
  DailyLimit,  \* published daily limit
  MaxTries,    \* bound: calls of send
  NoSend       \* an unclaimed request

Sends == Keys

ASSUME PersonalPayConstants ==
  /\ RequestOf \in [Sends -> Requests \cup {NoRequest}]
  /\ NoRequest \notin Requests /\ NoSend \notin Sends
  /\ DailyLimit \in Nat /\ MaxTries \in Nat

VARIABLES
  rows,      \* bank.personal_transfers: [st, age]
  requests,  \* bank.personal_requests: [st, claim, expired]
  pay,       \* per caller: [pc, send, todo, cur], a call of send
  freed,     \* history: why the reservation of a send was last given up
  tried,     \* history: was a send tried again while an earlier try was unsettled?
  tries      \* calls of send so far

payVars == <<rows, requests, pay, freed, tried, tries>>
vars == <<postVars, payVars>>

\* "quiet": so long since the send that the in-flight bound of its first call
\* has passed.  "stale": older than STALE_RESERVATION_MS.
Ages == {"new", "quiet", "stale"}
NoRow == [st |-> "none", age |-> "new"]
NoPay == [pc |-> "idle", send |-> NoSend, todo |-> {}, cur |-> NoSend]
PayStates ==
  {"idle", "sweep", "adopt", "adoptFinish", "drop", "dropRelease", "reserve", "policy", "post",
   "lookup", "mark", "finish", "abandon", "release"}

Init ==
  /\ PostInit
  /\ rows = [t \in Sends |-> NoRow]
  /\ requests = [r \in Requests |-> [st |-> "open", claim |-> NoSend, expired |-> FALSE]]
  /\ pay = [c \in Callers |-> NoPay]
  /\ freed = [t \in Sends |-> "no"]
  /\ tried = [t \in Sends |-> "no"]
  /\ tries = 0

At(c, pc) == pay[c].pc = pc
Goto(c, pc) == pay' = [pay EXCEPT ![c].pc = pc]
End(c) == pay' = [pay EXCEPT ![c] = NoPay]
Mine(c) == pay[c].send

-----------------------------------------------------------------------------
(* Statements on the two tables.                                           *)

\* UPDATE ... SET status = 'posted' WHERE status = 'reserved'
MarkRow(t) == rows' = IF rows[t].st = "reserved" THEN [rows EXCEPT ![t].st = "posted"] ELSE rows

\* abandon, first statement: DELETE ... WHERE status = 'reserved'
DeleteReservation(t, why) ==
  /\ rows' = IF rows[t].st = "reserved" THEN [rows EXCEPT ![t] = NoRow] ELSE rows
  /\ freed' = IF rows[t].st = "reserved" THEN [freed EXCEPT ![t] = why] ELSE freed

\* abandon, second statement: the claim is cleared only if it is this send's.
ReleaseClaim(t) ==
  requests' = [r \in Requests |->
    IF r = RequestOf[t] /\ requests[r].claim = t /\ requests[r].st = "open"
      THEN [requests[r] EXCEPT !.claim = NoSend] ELSE requests[r]]

\* finishRequest: paid, by the send that claims it
FinishRequest(t) ==
  requests' = [r \in Requests |->
    IF r = RequestOf[t] /\ requests[r].claim = t /\ requests[r].st = "open"
      THEN [requests[r] EXCEPT !.st = "paid"] ELSE requests[r]]

\* claim, and the unique index on request_id
ClaimOpen(r, t) ==
  /\ requests[r].st = "open" /\ ~requests[r].expired
  /\ requests[r].claim \in {NoSend, t}
  /\ \A u \in Sends \ {t} : RequestOf[u] = r => rows[u].st = "none"

\* Mutant of WithinTerms: reservations do not count, only posted sends do.
WithinPosted == Cardinality({u \in Sends : rows[u].st = "posted"}) < DailyLimit

\* assertWithinTerms: posted and reserved sends count toward the daily limit.
WithinTerms == Cardinality({u \in Sends : rows[u].st # "none"}) < DailyLimit

-----------------------------------------------------------------------------
(* send, part 1: sweepStale                                                *)

Stale == {t \in Sends : rows[t].st = "reserved" /\ rows[t].age = "stale"}

\* Is a call sending t, or sweeping its reservation?
Busy(t) == \E c \in Callers : t \in {pay[c].send, pay[c].cur} \cup pay[c].todo

\* A try is settled once its reservation was given up and no call handles it
\* any more.
Settled(t) == freed[t] # "no" /\ ~Busy(t)

Send(c, t) ==
  /\ At(c, "idle")
  /\ tries < MaxTries
  /\ tries' = tries + 1
  /\ pay' = [pay EXCEPT ![c] = [pc |-> "sweep", send |-> t, todo |-> Stale, cur |-> NoSend]]
  /\ tried' = [tried EXCEPT ![t] =
       CASE @ = "no" -> "once" [] Settled(t) -> @ [] OTHER -> "again"]
  /\ UNCHANGED <<postVars, rows, requests, freed>>

\* getTxByKey of one stale reservation: what is booked is adopted, what is
\* not is dropped.
SweepLook(c) ==
  /\ At(c, "sweep")
  /\ \E t \in pay[c].todo :
       pay' = [pay EXCEPT ![c].pc = IF t \in book THEN "adopt" ELSE "drop",
                          ![c].todo = @ \ {t}, ![c].cur = t]
  /\ UNCHANGED <<postVars, rows, requests, freed, tried, tries>>

SweepAdopt(c) ==
  /\ At(c, "adopt")
  /\ MarkRow(pay[c].cur)
  /\ Goto(c, "adoptFinish")
  /\ UNCHANGED <<postVars, requests, freed, tried, tries>>

SweepAdoptFinish(c) ==
  /\ At(c, "adoptFinish")
  /\ FinishRequest(pay[c].cur)
  /\ Goto(c, "sweep")
  /\ UNCHANGED <<postVars, rows, freed, tried, tries>>

SweepDrop(c) ==
  /\ At(c, "drop")
  /\ DeleteReservation(pay[c].cur, "swept")
  /\ Goto(c, "dropRelease")
  /\ UNCHANGED <<postVars, requests, tried, tries>>

SweepDropRelease(c) ==
  /\ At(c, "dropRelease")
  /\ ReleaseClaim(pay[c].cur)
  /\ Goto(c, "sweep")
  /\ UNCHANGED <<postVars, rows, freed, tried, tries>>

SweepDone(c) ==
  /\ At(c, "sweep") /\ pay[c].todo = {}
  /\ Goto(c, "reserve")
  /\ UNCHANGED <<postVars, rows, requests, freed, tried, tries>>

-----------------------------------------------------------------------------
(* send, part 2: the reservation, under the payer's advisory lock          *)

\* A known send goes on where it stopped.
ReserveExisting(c) ==
  /\ At(c, "reserve") /\ rows[Mine(c)].st # "none"
  /\ Goto(c, IF rows[Mine(c)].st = "posted" THEN "finish" ELSE "policy")
  /\ UNCHANGED <<postVars, rows, requests, freed, tried, tries>>

MayReserve(t) == (RequestOf[t] # NoRequest => ClaimOpen(RequestOf[t], t)) /\ WithinTerms

ReserveNew(c) ==
  LET t == Mine(c) IN
  /\ At(c, "reserve") /\ rows[t].st = "none"
  /\ MayReserve(t)
  /\ rows' = [rows EXCEPT ![t] = [NoRow EXCEPT !.st = "reserved"]]
  /\ requests' = [r \in Requests |->
       IF r = RequestOf[t] THEN [requests[r] EXCEPT !.claim = t] ELSE requests[r]]
  /\ freed' = [freed EXCEPT ![t] = "no"]
  /\ Goto(c, "policy")
  /\ UNCHANGED <<postVars, tried, tries>>

ReserveRefused(c) ==
  /\ At(c, "reserve") /\ rows[Mine(c)].st = "none"
  /\ ~MayReserve(Mine(c))
  /\ End(c)
  /\ UNCHANGED <<postVars, rows, requests, freed, tried, tries>>

-----------------------------------------------------------------------------
(* send, part 3: transferToUser and what its failure means                 *)

\* A BankError before the post: the space is locked or archived, the
\* recipient cannot receive.
PolicyRefuses(c) ==
  /\ At(c, "policy")
  /\ Goto(c, "abandon")
  /\ UNCHANGED <<postVars, rows, requests, freed, tried, tries>>

PolicyPasses(c) ==
  /\ At(c, "policy")
  /\ BeginPost(c, Mine(c))
  /\ Goto(c, "post")
  /\ UNCHANGED <<rows, requests, freed, tried, tries>>

PostReturned(c) ==
  /\ At(c, "post") /\ call[c].st = "ok"
  /\ LetGo(c)
  /\ Goto(c, "mark")
  /\ UNCHANGED <<rows, requests, freed, tried, tries>>

\* isDefinitePersonalRefusal: a proof gives the claim up, anything else is
\* looked up.
PostThrew(c) ==
  /\ At(c, "post") /\ call[c].st = "err"
  /\ LetGo(c)
  /\ Goto(c, IF ProvesPostNotCommitted(call[c].err, call[c].attempts) THEN "abandon" ELSE "lookup")
  /\ UNCHANGED <<rows, requests, freed, tried, tries>>

\* getTxByKey: not there yet is no answer; the reservation and the claim stay.
Lookup(c) ==
  /\ At(c, "lookup")
  /\ IF Mine(c) \in book THEN Goto(c, "mark") ELSE End(c)
  /\ UNCHANGED <<postVars, rows, requests, freed, tried, tries>>

\* The row may be gone: mustTransfer then throws.
MarkPosted(c) ==
  /\ At(c, "mark")
  /\ MarkRow(Mine(c))
  /\ IF rows[Mine(c)].st = "none" THEN End(c) ELSE Goto(c, "finish")
  /\ UNCHANGED <<postVars, requests, freed, tried, tries>>

Finish(c) ==
  /\ At(c, "finish")
  /\ FinishRequest(Mine(c))
  /\ End(c)
  /\ UNCHANGED <<postVars, rows, freed, tried, tries>>

\* Mutant of Abandon: the claim is released before the row is deleted.
AbandonClaimFirst(c) ==
  /\ At(c, "abandon")
  /\ ReleaseClaim(Mine(c))
  /\ Goto(c, "release")
  /\ UNCHANGED <<postVars, rows, freed, tried, tries>>

Abandon(c) ==
  /\ At(c, "abandon")
  /\ DeleteReservation(Mine(c), "refused")
  /\ Goto(c, "release")
  /\ UNCHANGED <<postVars, requests, tried, tries>>

Release(c) ==
  /\ At(c, "release")
  /\ ReleaseClaim(Mine(c))
  /\ End(c)
  /\ UNCHANGED <<postVars, rows, freed, tried, tries>>

\* The process dies, or a read or a publish throws, at any step of send.
Stop(c) ==
  /\ ~At(c, "idle")
  /\ LetGo(c)
  /\ End(c)
  /\ UNCHANGED <<rows, requests, freed, tried, tries>>

-----------------------------------------------------------------------------
(* Requests and the passing of time.                                       *)

\* closeRequest: cancelled by the payee, declined by the payer; the guard is
\* repeated in the UPDATE.
CloseRequest(r) ==
  /\ requests[r].st = "open" /\ ~requests[r].expired /\ requests[r].claim = NoSend
  /\ requests' = [requests EXCEPT ![r].st = "closed"]
  /\ UNCHANGED <<postVars, rows, pay, freed, tried, tries>>

\* Expiry is looked at while a request is open.
Expire(r) ==
  /\ requests[r].st = "open" /\ ~requests[r].expired
  /\ requests' = [requests EXCEPT ![r].expired = TRUE]
  /\ UNCHANGED <<postVars, rows, pay, freed, tried, tries>>

\* The age counts from the row's creation.  Before it grows stale every call
\* that created it is long over and its attempts are taken to be dead
\* (POST_IN_FLIGHT_BOUND_SECONDS); a later try of the same send is not.
Age(t) ==
  /\ rows[t].st = "reserved"
  /\ \/ /\ rows[t].age = "new"
        /\ t \notin queued /\ ~Busy(t)
        /\ rows' = [rows EXCEPT ![t].age = "quiet"]
     \/ /\ rows[t].age = "quiet"
        /\ rows' = [rows EXCEPT ![t].age = "stale"]
  /\ UNCHANGED <<postVars, requests, pay, freed, tried, tries>>

-----------------------------------------------------------------------------
CallStep(c) ==
  \/ SweepLook(c) \/ SweepAdopt(c) \/ SweepAdoptFinish(c)
  \/ SweepDrop(c) \/ SweepDropRelease(c) \/ SweepDone(c)
  \/ ReserveExisting(c) \/ ReserveNew(c) \/ ReserveRefused(c)
  \/ PolicyRefuses(c) \/ PolicyPasses(c) \/ PostReturned(c) \/ PostThrew(c)
  \/ Lookup(c) \/ MarkPosted(c) \/ Finish(c)
  \/ Abandon(c) \/ Release(c) \/ Stop(c)

Next ==
  \/ \E c \in Callers : CallStep(c) \/ \E t \in Sends : Send(c, t)
  \/ PostStep /\ UNCHANGED payVars
  \/ \E t \in Sends : Age(t)
  \/ \E r \in Requests : Expire(r) \/ CloseRequest(r)

Spec == Init /\ [][Next]_vars

-----------------------------------------------------------------------------
(* Properties                                                              *)

\* Rows, requests, calls and histories keep their types, and no call makes
\* more attempts than the transport's budget has.
TypeOK ==
  /\ PostTypeOK
  /\ rows \in [Sends -> [st : {"none", "reserved", "posted"}, age : Ages]]
  /\ requests \in [Requests -> [st : {"open", "paid", "closed"},
                                claim : Sends \cup {NoSend}, expired : BOOLEAN]]
  /\ pay \in [Callers -> [pc : PayStates, send : Sends \cup {NoSend}, todo : SUBSET Sends,
                          cur : Sends \cup {NoSend}]]
  /\ freed \in [Sends -> {"no", "refused", "swept"}]
  /\ tried \in [Sends -> {"no", "once", "again"}]
  /\ tries \in 0 .. MaxTries

\* No try of the send began while an earlier one could still reach the ledger.
\* One that did can be refused, or swept by its first try's age, and the earlier
\* or later try books after the reservation is gone: post-outcome.ts warns that
\* such a caller must not use the proof at all, personal-pay.ts does.
OneTry(t) == tried[t] # "again"

\* The book holds what the payer's terms and the requests allow, whichever
\* replies are lost and whichever calls die: never two sends for one request, nor
\* one for a request that was cancelled or declined, nor more than the daily limit.
BookedWithinTerms ==
  /\ \A r \in Requests :
       LET paid == {t \in book : RequestOf[t] = r} IN
       (\A t \in Sends : RequestOf[t] = r => OneTry(t)) =>
         /\ Cardinality(paid) <= 1
         /\ requests[r].st = "closed" => paid = {}
  /\ (\A t \in Sends : OneTry(t)) => Cardinality(book) <= DailyLimit

\* personal-pay.ts: "A typed refusal proved this send did not post", and a
\* reservation swept as stale was dead: a send given up does not book afterwards.
GivenUpNeverBooks == \A t \in book : OneTry(t) => freed[t] = "no"

\* The tables never claim more than the book: a posted send is booked, and a
\* paid request was paid by the booked send that claims it.
TablesTellTheBook ==
  /\ \A t \in Sends : rows[t].st = "posted" => t \in book
  /\ \A r \in Requests : requests[r].st = "paid" =>
       /\ requests[r].claim \in book
       /\ RequestOf[requests[r].claim] = r

\* While a send for an open request has a row, the request is claimed by that
\* send: nobody else can pay it and nobody can close it.
ReservationHoldsClaim ==
  \A t \in Sends : (rows[t].st # "none" /\ RequestOf[t] # NoRequest /\ OneTry(t)) =>
    requests[RequestOf[t]].claim = t

\* The tables agree with one another and claim nothing the book has not: a posted
\* send is booked, a paid request names the send that paid it, and a reservation
\* keeps others off its request.
TablesConsistent == TypeOK /\ TablesTellTheBook /\ ReservationHoldsClaim
=============================================================================
