-------------------------- MODULE PersonalPay_proofs --------------------------
(***************************************************************************)
(* Safety of personal sends for every set of sends, requests and calls,    *)
(* every limit and number of attempts.  The argument follows one try of a  *)
(* send (TryInv): until its reservation is given up nobody else works on   *)
(* it, and it is given up only when nothing of it is booked or still on    *)
(* its way to the ledger, by the refusal of a single attempt (ProofInv) or *)
(* by its age (AgedInv, SweptInv).                                         *)
(***************************************************************************)
EXTENDS PersonalPay, FiniteSetTheorems, TLAPS

\* Before the reservation, and once it was given up.
Early == {"sweep", "adopt", "adoptFinish", "drop", "dropRelease", "reserve"}
Adopting == {"adopt", "adoptFinish"}
Dropping == {"drop", "dropRelease"}

Sending(c, t) == pay[c].send = t
Sweeping(c, t) == t \in pay[c].todo \cup {pay[c].cur}

\* Nothing of t is at the ledger or on its way to it from a call that ended.
Clear(t) == t \notin book /\ t \notin queued

\* A call of send has a post under way just while it waits for it, of its send,
\* and what it takes for booked is booked.
PayInv ==
  \A c \in Callers :
    /\ pay[c].pc = "idle" => pay[c].send = NoSend /\ pay[c].todo = {} /\ pay[c].cur = NoSend
    /\ pay[c].pc # "idle" => pay[c].send \in Sends
    /\ pay[c].pc = "post" <=> call[c].st # "idle"
    /\ pay[c].pc = "post" => call[c].key = pay[c].send /\ call[c].attempts > 0
    /\ call[c].st = "sent" => call[c].err = "none"
    /\ call[c].st = "ok" \/ (call[c].st = "answered" /\ call[c].err = "none") => call[c].key \in book
    /\ pay[c].pc \in Adopting \cup Dropping => pay[c].cur \in Sends
    /\ pay[c].pc \in Adopting => pay[c].cur \in book
    /\ pay[c].pc \in {"mark", "finish"} => pay[c].send \in book

\* A row that is gone leaves no trace; a send that was given up has none.
RowInv ==
  \A t \in Sends :
    /\ rows[t].st = "none" => rows[t].age = "new"
    /\ freed[t] # "no" => rows[t].st = "none"
    /\ tried[t] = "no" => Clear(t) /\ rows[t].st = "none" /\ freed[t] = "no" /\ ~Busy(t)

\* A request that was closed is claimed by nobody.
ClosedInv == \A r \in Requests : requests[r].st = "closed" => requests[r].claim = NoSend

\* No more rows than the daily limit.
LimitInv ==
  LET taken == {t \in Sends : rows[t].st # "none"} IN
  IsFiniteSet(taken) /\ Cardinality(taken) <= DailyLimit

-----------------------------------------------------------------------------
(* What is true of a send that was not tried again while it was unsettled. *)

\* One call sends it.
LoneInv == \A t \in Sends : OneTry(t) => \A c, d \in Callers : Sending(c, t) /\ Sending(d, t) => c = d

\* A row that has aged, or that a sweep has seen, is nobody's, and nothing of it
\* is on its way.
AgedInv ==
  \A t \in Sends : OneTry(t) /\ (rows[t].age # "new" \/ \E c \in Callers : Sweeping(c, t)) =>
    t \notin queued /\ \A c \in Callers : ~Sending(c, t)

\* Until its call posts it, and when its call gives it up, nothing was booked; it
\* has a row from the reservation until then.
TryInv ==
  \A t \in Sends, c \in Callers : OneTry(t) /\ Sending(c, t) =>
    /\ pay[c].pc \in Early \cup {"policy", "abandon", "release"} => Clear(t)
    /\ pay[c].pc \in Early \cup {"release"} <=> rows[t].st = "none"

\* So it is while its first attempt has not ended, or ended in a refusal.
Proving(c) ==
  call[c].attempts = 1 /\ (call[c].st = "sent" \/ call[c].err \in {"refused", "unsent"})
ProofInv ==
  \A t \in Sends, c \in Callers :
    OneTry(t) /\ Sending(c, t) /\ pay[c].pc = "post" /\ Proving(c) => Clear(t)

\* A sweep drops what is not booked, and will not be.
SweptInv ==
  \A t \in Sends, c \in Callers : OneTry(t) /\ pay[c].cur = t =>
    /\ pay[c].pc \in Dropping => t \notin book
    /\ pay[c].pc = "dropRelease" => rows[t].st = "none"

\* What was given up is not booked and not on its way; what is has a row.
FreedInv ==
  \A t \in Sends : OneTry(t) =>
    /\ freed[t] # "no" => Clear(t)
    /\ ~Clear(t) => rows[t].st # "none"

PayingInv ==
  /\ TypeOK /\ PayInv /\ RowInv /\ ClosedInv /\ LimitInv
  /\ TablesTellTheBook /\ ReservationHoldsClaim
  /\ LoneInv /\ AgedInv /\ TryInv /\ ProofInv /\ SweptInv /\ FreedInv

-----------------------------------------------------------------------------
(* What a step does to the state, field by field                           *)

RowType == [st : {"none", "reserved", "posted"}, age : Ages]
RequestType == [st : {"open", "paid", "closed"}, claim : Sends \cup {NoSend}, expired : BOOLEAN]
PayType ==
  [pc : PayStates, send : Sends \cup {NoSend}, todo : SUBSET Sends, cur : Sends \cup {NoSend}]

\* The fields whose values the arguments enumerate.
FieldTypes ==
  /\ \A c \in Callers : call[c].attempts \in Nat /\ pay[c].todo \subseteq Sends
  /\ \A t \in Sends : tried[t] \in {"no", "once", "again"} /\ rows[t].st \in {"none", "reserved", "posted"}
  /\ \A r \in Requests : requests[r].claim \in Sends \cup {NoSend}

\* The call of send of c changes and no other.
OnePay(c) == pay' \in [Callers -> PayType] /\ \A d \in Callers : d # c => pay'[d] = pay[d]

\* It goes on to pc, or is over.
Moves(c, pc) ==
  /\ OnePay(c)
  /\ pay'[c].pc = pc /\ pay'[c].send = pay[c].send
  /\ pay'[c].todo = pay[c].todo /\ pay'[c].cur = pay[c].cur
Ends(c) == OnePay(c) /\ pay'[c] = NoPay

\* The post of c changes and no other.
OneCall(c) == call' \in [Callers -> CallType] /\ \A d \in Callers : d # c => call'[d] = call[d]

\* c has a post no longer; what it had sent may still arrive.
Hangs(c) ==
  /\ OneCall(c) /\ call'[c] = NoCall
  /\ queued' = IF call[c].st = "sent" THEN queued \cup {call[c].key} ELSE queued
  /\ queued' \in SUBSET Keys
  /\ UNCHANGED book

\* c posts under the key k.
Posts(c, k) ==
  /\ OneCall(c)
  /\ call'[c].st = "sent" /\ call'[c].key = k /\ call'[c].attempts = 1 /\ call'[c].err = "none"
  /\ UNCHANGED <<queued, book>>

\* The post of c goes on.
Goes(c, st, err) ==
  /\ OneCall(c) /\ call'[c].st = st /\ call'[c].err = err
  /\ call'[c].key = call[c].key /\ call'[c].attempts = call[c].attempts

\* Of the rows at most that of t changes.
OneRow(t) == rows' \in [Sends -> RowType] /\ \A u \in Sends : u # t => rows'[u] = rows[u]

\* A reservation of t is marked posted.
Marked(t) ==
  /\ OneRow(t)
  /\ rows'[t].st = IF rows[t].st = "reserved" THEN "posted" ELSE rows[t].st
  /\ rows'[t].age = rows[t].age

\* A reservation of t is given up.
Deleted(t, why) ==
  /\ OneRow(t)
  /\ IF rows[t].st = "reserved"
       THEN rows'[t].st = "none" /\ rows'[t].age = "new" ELSE rows'[t] = rows[t]
  /\ freed' \in [Sends -> {"no", "refused", "swept"}]
  /\ \A u \in Sends : freed'[u] = IF u = t /\ rows[t].st = "reserved" THEN why ELSE freed[u]

\* The request of t changes if t claims it and it is open: its claim is cleared,
\* or it is paid.
Claims(t, r) == r = RequestOf[t] /\ requests[r].claim = t /\ requests[r].st = "open"
Released(t) ==
  /\ requests' \in [Requests -> RequestType]
  /\ \A r \in Requests :
       /\ requests'[r].st = requests[r].st
       /\ requests'[r].claim = IF Claims(t, r) THEN NoSend ELSE requests[r].claim
Paid(t) ==
  /\ requests' \in [Requests -> RequestType]
  /\ \A r \in Requests :
       /\ requests'[r].st = IF Claims(t, r) THEN "paid" ELSE requests[r].st
       /\ requests'[r].claim = requests[r].claim

LEMMA TypesOfFields == ASSUME TypeOK PROVE FieldTypes
BY DEF TypeOK, PostTypeOK, CallType, FieldTypes

LEMMA TypesOfState ==
  ASSUME TypeOK
  PROVE  /\ rows \in [Sends -> RowType] /\ requests \in [Requests -> RequestType]
         /\ pay \in [Callers -> PayType] /\ call \in [Callers -> CallType]
         /\ queued \in SUBSET Keys /\ book \in SUBSET Keys
         /\ freed \in [Sends -> {"no", "refused", "swept"}]
         /\ tried \in [Sends -> {"no", "once", "again"}] /\ tries \in 0 .. MaxTries
BY DEF TypeOK, PostTypeOK, RowType, RequestType, PayType

LEMMA TypesOfSteps ==
  ASSUME rows' \in [Sends -> RowType], requests' \in [Requests -> RequestType],
         pay' \in [Callers -> PayType], call' \in [Callers -> CallType],
         queued' \in SUBSET Keys, book' \in SUBSET Keys,
         freed' \in [Sends -> {"no", "refused", "swept"}],
         tried' \in [Sends -> {"no", "once", "again"}], tries' \in 0 .. MaxTries
  PROVE  TypeOK'
BY DEF TypeOK, PostTypeOK, RowType, RequestType, PayType

LEMMA GotoMoves ==
  ASSUME TypeOK, NEW c \in Callers, NEW pc \in PayStates, Goto(c, pc)
  PROVE  Moves(c, pc)
<1>1. pay \in [Callers -> PayType]
  BY TypesOfState
<1>2. pay[c] \in PayType /\ pay' = [pay EXCEPT ![c] = [pay[c] EXCEPT !.pc = pc]]
  BY <1>1 DEF Goto
<1>3. [pay[c] EXCEPT !.pc = pc] \in PayType
  BY <1>2 DEF PayType
<1> QED
  BY <1>1, <1>2, <1>3 DEF Moves, OnePay, PayType

LEMMA NoPayIsPay ==
  /\ NoPay \in PayType
  /\ NoPay.pc = "idle" /\ NoPay.send = NoSend /\ NoPay.todo = {} /\ NoPay.cur = NoSend
BY DEF NoPay, PayType, PayStates

LEMMA EndEnds ==
  ASSUME TypeOK, NEW c \in Callers, End(c)
  PROVE  Ends(c)
BY NoPayIsPay DEF TypeOK, End, Ends, OnePay, PayType

LEMMA NoCallIsCall ==
  /\ NoCall \in CallType
  /\ NoCall.st = "idle" /\ NoCall.key = NoKey /\ NoCall.attempts = 0 /\ NoCall.err = "none"
BY PostClientConstants DEF NoCall, CallType, CallStates, Errors

LEMMA LetGoHangs ==
  ASSUME TypeOK, NEW c \in Callers, LetGo(c), call[c].st = "sent" => call[c].key \in Keys
  PROVE  Hangs(c)
BY NoCallIsCall DEF TypeOK, PostTypeOK, LetGo, Hangs, OneCall

LEMMA BeginPostPosts ==
  ASSUME TypeOK, NEW c \in Callers, NEW k \in Keys, BeginPost(c, k)
  PROVE  Posts(c, k)
<1>1. [st |-> "sent", key |-> k, attempts |-> 1, err |-> "none"] \in CallType
  BY PostClientConstants DEF CallType, CallStates, Errors
<1> QED
  BY <1>1 DEF TypeOK, PostTypeOK, BeginPost, Posts, OneCall

LEMMA CallGoes ==
  ASSUME TypeOK, NEW c \in Callers, NEW st \in CallStates, NEW err \in Errors \cup {"none"},
         call' = [call EXCEPT ![c].st = st, ![c].err = err]
  PROVE  Goes(c, st, err)
<1>1. call \in [Callers -> CallType] /\ call[c] \in CallType
  BY DEF TypeOK, PostTypeOK
<1>2. [call[c] EXCEPT !.st = st, !.err = err] \in CallType
  BY <1>1 DEF CallType
<1>3. call' = [call EXCEPT ![c] = [call[c] EXCEPT !.st = st, !.err = err]]
  BY <1>1
<1> QED
  BY <1>1, <1>2, <1>3 DEF Goes, OneCall, CallType

LEMMA MarkRowMarks ==
  ASSUME TypeOK, NEW t \in Sends, MarkRow(t)
  PROVE  Marked(t)
BY DEF TypeOK, MarkRow, Marked, OneRow, RowType

LEMMA NoRowIsRow == NoRow \in RowType /\ NoRow.st = "none" /\ NoRow.age = "new"
BY DEF NoRow, RowType, Ages

LEMMA DeleteReservationDeletes ==
  ASSUME TypeOK, NEW t \in Sends, NEW why \in {"refused", "swept"}, DeleteReservation(t, why)
  PROVE  Deleted(t, why)
<1>1. rows \in [Sends -> RowType]
  BY TypesOfState
<1> QED
  BY <1>1, NoRowIsRow DEF TypeOK, DeleteReservation, Deleted, OneRow

LEMMA ReleaseClaimReleases ==
  ASSUME TypeOK, NEW t \in Sends, ReleaseClaim(t)
  PROVE  Released(t)
BY DEF TypeOK, ReleaseClaim, Released, Claims, RequestType

LEMMA FinishRequestPays ==
  ASSUME TypeOK, NEW t \in Sends, FinishRequest(t)
  PROVE  Paid(t)
BY DEF TypeOK, FinishRequest, Paid, Claims, RequestType

\* Rows that are only marked or deleted stay within the limit.
LEMMA LimitStays ==
  ASSUME LimitInv, \A t \in Sends : rows'[t].st # "none" => rows[t].st # "none"
  PROVE  LimitInv'
<1> DEFINE taken == {t \in Sends : rows[t].st # "none"}
<1> PICK was : was = taken
  OBVIOUS
<1> PICK is : is = {t \in Sends : rows'[t].st # "none"}
  OBVIOUS
<1>1. is \subseteq was
  OBVIOUS
<1>2. IsFiniteSet(was) /\ Cardinality(was) <= DailyLimit
  BY DEF LimitInv
<1>3. IsFiniteSet(is) /\ Cardinality(is) <= Cardinality(was)
  BY <1>1, <1>2, FS_Subset
<1>4. Cardinality(is) \in Nat /\ Cardinality(was) \in Nat
  BY <1>2, <1>3, FS_CardinalityType
<1>5. Cardinality(is) <= DailyLimit
  BY <1>2, <1>3, <1>4, PersonalPayConstants
<1> QED
  BY <1>3, <1>5 DEF LimitInv

\* A post moves on with the error it has.
LEMMA PostMoves ==
  ASSUME TypeOK, NEW c \in Callers, NEW st \in CallStates, call' = [call EXCEPT ![c].st = st]
  PROVE  Goes(c, st, call[c].err)
<1>1. call \in [Callers -> CallType] /\ call[c] \in CallType
  BY DEF TypeOK, PostTypeOK
<1>2. [call[c] EXCEPT !.st = st] \in CallType
  BY <1>1 DEF CallType
<1> QED
  BY <1>1, <1>2 DEF Goes, OneCall, CallType

\* Another attempt of the same post, while the budget lasts.
LEMMA AttemptsGrow ==
  ASSUME TypeOK, NEW c \in Callers, Retry(c)
  PROVE  /\ OneCall(c)
         /\ call'[c].st = "sent" /\ call'[c].err = "none" /\ call'[c].key = call[c].key
         /\ call'[c].attempts = call[c].attempts + 1
<1>1. call \in [Callers -> CallType] /\ call[c] \in CallType
  BY DEF TypeOK, PostTypeOK
<1>2. call[c].attempts + 1 \in 0 .. MaxAttempts
  BY <1>1, PostClientConstants DEF CallType, Retry
<1> DEFINE next == [call[c] EXCEPT !.st = "sent", !.attempts = call[c].attempts + 1, !.err = "none"]
<1>3. next \in CallType
  BY <1>1, <1>2 DEF CallType, CallStates
<1>4. /\ next.st = "sent" /\ next.err = "none" /\ next.key = call[c].key
      /\ next.attempts = call[c].attempts + 1
  BY <1>1 DEF CallType
<1>5. call' = [call EXCEPT ![c] = next]
  BY <1>1 DEF Retry
<1> HIDE DEF next
<1> QED
  BY <1>1, <1>3, <1>4, <1>5 DEF OneCall

\* A new call of send.
LEMMA NewPay ==
  ASSUME TypeOK, NEW c \in Callers, NEW t \in Sends, Send(c, t)
  PROVE  /\ OnePay(c) /\ pay'[c].pc = "sweep"
         /\ pay'[c].send = t /\ pay'[c].todo = Stale /\ pay'[c].cur = NoSend
<1> DEFINE p == [pc |-> "sweep", send |-> t, todo |-> Stale, cur |-> NoSend]
<1>1. /\ p \in PayType
      /\ p.pc = "sweep" /\ p.send = t /\ p.todo = Stale /\ p.cur = NoSend
  BY DEF PayType, PayStates, Stale
<1>2. pay \in [Callers -> PayType] /\ pay' = [pay EXCEPT ![c] = p]
  BY TypesOfState DEF Send
<1> HIDE DEF p
<1> QED
  BY <1>1, <1>2 DEF OnePay

\* What a new try counts as: a send that was never tried was not given up.
LEMMA NewTry ==
  ASSUME TypeOK, RowInv, NEW c \in Callers, NEW t \in Sends, Send(c, t)
  PROVE  /\ tried' \in [Sends -> {"no", "once", "again"}]
         /\ \A u \in Sends :
              tried'[u] = IF u # t THEN tried[u]
                          ELSE IF tried[t] = "no" THEN "once"
                          ELSE IF Settled(t) THEN tried[t] ELSE "again"
<1> DEFINE v == CASE tried[t] = "no" -> "once" [] Settled(t) -> tried[t] [] OTHER -> "again"
<1>1. tried[t] = "no" => ~Settled(t)
  BY DEF RowInv, Settled
<1>2. v = IF tried[t] = "no" THEN "once" ELSE IF Settled(t) THEN tried[t] ELSE "again"
  BY <1>1
<1>3. v \in {"no", "once", "again"}
  BY <1>2 DEF TypeOK
<1>4. tried' = [tried EXCEPT ![t] = v]
  BY DEF Send
<1> HIDE DEF v
<1>5. \A u \in Sends : tried'[u] = IF u # t THEN tried[u] ELSE v
  BY <1>4 DEF TypeOK
<1> QED
  BY <1>2, <1>3, <1>4, <1>5 DEF TypeOK

LEMMA NewRow ==
  ASSUME TypeOK, NEW t \in Sends, rows' = [rows EXCEPT ![t] = [NoRow EXCEPT !.st = "reserved"]]
  PROVE  OneRow(t) /\ rows'[t].st = "reserved" /\ rows'[t].age = "new"
<1> DEFINE row == [NoRow EXCEPT !.st = "reserved"]
<1>1. row \in RowType /\ row.st = "reserved" /\ row.age = "new"
  BY NoRowIsRow DEF RowType
<1>2. rows \in [Sends -> RowType] /\ rows' = [rows EXCEPT ![t] = row]
  BY TypesOfState
<1> HIDE DEF row
<1> QED
  BY <1>1, <1>2 DEF OneRow

LEMMA RowAges ==
  ASSUME TypeOK, NEW t \in Sends, Age(t)
  PROVE  /\ OneRow(t) /\ rows'[t].st = rows[t].st /\ rows[t].st = "reserved"
         /\ \/ rows[t].age = "new" /\ rows'[t].age = "quiet" /\ t \notin queued /\ ~Busy(t)
            \/ rows[t].age = "quiet" /\ rows'[t].age = "stale"
<1>1. rows \in [Sends -> RowType] /\ rows[t] \in RowType
  BY TypesOfState
<1>2. ASSUME NEW a \in Ages, rows' = [rows EXCEPT ![t].age = a]
      PROVE  OneRow(t) /\ rows'[t].st = rows[t].st /\ rows'[t].age = a
  <2>1. [rows[t] EXCEPT !.age = a] \in RowType
    BY <1>1 DEF RowType
  <2> QED
    BY <1>1, <1>2, <2>1 DEF OneRow, RowType
<1>3. "quiet" \in Ages /\ "stale" \in Ages
  BY DEF Ages
<1> QED
  BY <1>2, <1>3 DEF Age

LEMMA NewClaim ==
  ASSUME TypeOK, NEW t \in Sends,
         requests' = [r \in Requests |->
           IF r = RequestOf[t] THEN [requests[r] EXCEPT !.claim = t] ELSE requests[r]]
  PROVE  /\ requests' \in [Requests -> RequestType]
         /\ \A r \in Requests :
              /\ requests'[r].st = requests[r].st
              /\ requests'[r].claim = IF r = RequestOf[t] THEN t ELSE requests[r].claim
BY DEF TypeOK, RequestType

\* A row that is added within the terms is within the limit.
LEMMA LimitGrows ==
  ASSUME LimitInv, WithinTerms, NEW t \in Sends, OneRow(t)
  PROVE  LimitInv'
<1> PICK was : was = {u \in Sends : rows[u].st # "none"}
  OBVIOUS
<1> PICK is : is = {u \in Sends : rows'[u].st # "none"}
  OBVIOUS
<1>1. is \subseteq was \cup {t}
  BY DEF OneRow
<1>2. IsFiniteSet(was) /\ Cardinality(was) < DailyLimit
  BY DEF LimitInv, WithinTerms
<1>3. IsFiniteSet(was \cup {t}) /\ Cardinality(was \cup {t}) <= Cardinality(was) + 1
  <2>1. /\ IsFiniteSet(was \cup {t})
        /\ Cardinality(was \cup {t}) = IF t \in was THEN Cardinality(was) ELSE Cardinality(was) + 1
    BY <1>2, FS_AddElement
  <2>2. Cardinality(was) \in Nat
    BY <1>2, FS_CardinalityType
  <2> QED
    BY <2>1, <2>2
<1>4. IsFiniteSet(is) /\ Cardinality(is) <= Cardinality(was \cup {t})
  BY <1>1, <1>3, FS_Subset
<1>5. Cardinality(is) \in Nat /\ Cardinality(was) \in Nat /\ Cardinality(was \cup {t}) \in Nat
  BY <1>2, <1>3, <1>4, FS_CardinalityType
<1>6. Cardinality(is) <= DailyLimit
  BY <1>2, <1>3, <1>4, <1>5, PersonalPayConstants
<1> QED
  BY <1>4, <1>6 DEF LimitInv

USE PersonalPayConstants, PostClientConstants
  DEF At, NoPay, NoCall, OnePay, Moves, Ends, OneCall, Hangs, Posts, Goes, OneRow, Marked, Deleted,
      Claims, Released, Paid, Mine, OneTry, Sending, Sweeping, Clear, Proving, Early, Adopting, Dropping

-----------------------------------------------------------------------------
(* Every step keeps the invariant                                          *)

\* A new try of a send is a first one, or follows one that was given up and left nothing.
LEMMA SendKeeps ==
  ASSUME PayingInv, NEW c \in Callers, NEW t \in Sends, Send(c, t)
  PROVE  PayingInv'
<1> USE DEF PayingInv
<1>1. /\ tried' \in [Sends -> {"no", "once", "again"}]
      /\ \A u \in Sends :
           tried'[u] = IF u # t THEN tried[u]
                       ELSE IF tried[t] = "no" THEN "once"
                       ELSE IF Settled(t) THEN tried[t] ELSE "again"
  BY NewTry
<1>2. tries' \in 0 .. MaxTries
  BY DEF Send, TypeOK
<1>3. /\ At(c, "idle") /\ OnePay(c)
      /\ pay'[c].pc = "sweep" /\ pay'[c].send = t /\ pay'[c].todo = Stale /\ pay'[c].cur = NoSend
      /\ UNCHANGED <<call, queued, book, rows, requests, freed>>
  BY <1>1, <1>2, NewPay DEF Send, postVars
<1>4. FieldTypes
  BY TypesOfFields
<1>5. TypeOK'
  BY <1>1, <1>2, <1>3, TypesOfState, TypesOfSteps
<1>6. LimitInv'
  BY <1>1, <1>2, <1>3, LimitStays
<1>7. PayInv' /\ RowInv' /\ ClosedInv' /\ TablesTellTheBook'
  BY <1>1, <1>2, <1>3, <1>4 DEF FieldTypes, PayInv, RowInv, Busy, ClosedInv, TablesTellTheBook,
    Sends, Stale, Settled
<1>8. ReservationHoldsClaim' /\ ProofInv' /\ SweptInv' /\ FreedInv'
  BY <1>1, <1>2, <1>3, <1>4 DEF FieldTypes, ReservationHoldsClaim, ProofInv, SweptInv, FreedInv,
    Sends, Stale, Settled
<1>9. LoneInv'
  BY <1>1, <1>2, <1>3, <1>4 DEF FieldTypes, LoneInv, RowInv, Busy, Sends, Stale, Settled
<1>10. AgedInv'
  BY <1>1, <1>2, <1>3, <1>4 DEF FieldTypes, AgedInv, RowInv, Busy, Sends, Stale, Settled
<1>11. TryInv'
  BY <1>1, <1>2, <1>3, <1>4 DEF FieldTypes, TryInv, RowInv, Busy, FreedInv, Sends, Stale, Settled
<1> QED
  BY <1>5, <1>6, <1>7, <1>8, <1>9, <1>10, <1>11

LEMMA SweepLookKeeps ==
  ASSUME PayingInv, NEW c \in Callers, SweepLook(c)
  PROVE  PayingInv'
<1> USE DEF PayingInv
<1>1. PICK t \in pay[c].todo :
        pay' = [pay EXCEPT ![c].pc = IF t \in book THEN "adopt" ELSE "drop",
                           ![c].todo = @ \ {t}, ![c].cur = t]
  BY DEF SweepLook
<1>2. /\ t \in pay[c].todo /\ At(c, "sweep") /\ OnePay(c)
      /\ pay'[c].pc = (IF t \in book THEN "adopt" ELSE "drop") /\ pay'[c].send = pay[c].send
      /\ pay'[c].todo = pay[c].todo \ {t} /\ pay'[c].cur = t
      /\ UNCHANGED <<call, queued, book, tried, tries, rows, requests, freed>>
  BY <1>1, TypesOfState DEF SweepLook, TypeOK, postVars, PayType, PayStates
<1>3. FieldTypes
  BY TypesOfFields
<1>4. TypeOK'
  BY <1>1, <1>2, TypesOfState, TypesOfSteps
<1>5. LimitInv'
  BY <1>1, <1>2, LimitStays
<1>6. /\ PayInv' /\ RowInv' /\ ClosedInv' /\ TablesTellTheBook' /\ ReservationHoldsClaim'
      /\ LoneInv' /\ AgedInv' /\ TryInv' /\ ProofInv' /\ SweptInv' /\ FreedInv'
  <2>1. PayInv'
    BY <1>2, <1>3 DEF FieldTypes, PayInv, Sends
  <2>2. RowInv'
    BY <1>2, <1>3 DEF FieldTypes, RowInv, Busy, Sends
  <2>3. ClosedInv' /\ TablesTellTheBook'
    BY <1>2, <1>3 DEF FieldTypes, ClosedInv, TablesTellTheBook, Sends
  <2>4. ReservationHoldsClaim'
    BY <1>2, <1>3 DEF FieldTypes, ReservationHoldsClaim, Sends
  <2>5. LoneInv'
    BY <1>2, <1>3 DEF FieldTypes, LoneInv, Sends
  <2>6. AgedInv'
    BY <1>2, <1>3 DEF FieldTypes, AgedInv, Sends
  <2>7. TryInv'
    BY <1>2, <1>3 DEF FieldTypes, TryInv, Sends
  <2>8. ProofInv'
    BY <1>2, <1>3 DEF FieldTypes, ProofInv, Sends
  <2>9. SweptInv'
    BY <1>2, <1>3 DEF FieldTypes, SweptInv, Sends
  <2>10. FreedInv'
    BY <1>2, <1>3 DEF FieldTypes, FreedInv, Sends
  <2> QED
    BY <2>1, <2>2, <2>3, <2>4, <2>5, <2>6, <2>7, <2>8, <2>9, <2>10
<1> QED
  BY <1>4, <1>5, <1>6

\* What is adopted is booked.
LEMMA SweepAdoptKeeps ==
  ASSUME PayingInv, NEW c \in Callers, SweepAdopt(c)
  PROVE  PayingInv'
<1> USE DEF PayingInv
<1>1. PICK t \in Sends : pay[c].cur = t
  BY DEF PayInv, SweepAdopt
<1>2. /\ At(c, "adopt") /\ Marked(t) /\ Moves(c, "adoptFinish")
      /\ UNCHANGED <<call, queued, book, requests, freed, tried, tries>>
  BY <1>1, MarkRowMarks, GotoMoves DEF SweepAdopt, postVars, PayStates
<1>3. FieldTypes
  BY TypesOfFields
<1>4. TypeOK'
  BY <1>1, <1>2, TypesOfState, TypesOfSteps
<1>5. LimitInv'
  BY <1>1, <1>2, LimitStays
<1>6. /\ PayInv' /\ RowInv' /\ ClosedInv' /\ ReservationHoldsClaim' /\ LoneInv'
      /\ AgedInv' /\ TryInv' /\ ProofInv' /\ SweptInv' /\ FreedInv'
  <2>1. PayInv' /\ RowInv'
    BY <1>1, <1>2, <1>3 DEF FieldTypes, PayInv, RowInv, Busy, Sends
  <2>2. ClosedInv' /\ ReservationHoldsClaim'
    BY <1>1, <1>2, <1>3 DEF FieldTypes, ClosedInv, ReservationHoldsClaim, Sends
  <2>3. LoneInv' /\ AgedInv' /\ TryInv' /\ ProofInv'
    BY <1>1, <1>2, <1>3 DEF FieldTypes, LoneInv, AgedInv, TryInv, ProofInv, Sends
  <2>4. SweptInv' /\ FreedInv'
    BY <1>1, <1>2, <1>3 DEF FieldTypes, SweptInv, FreedInv, Sends
  <2> QED
    BY <2>1, <2>2, <2>3, <2>4
<1>7. TablesTellTheBook'
  BY <1>1, <1>2, <1>3 DEF FieldTypes, TablesTellTheBook, PayInv, Sends
<1> QED
  BY <1>4, <1>5, <1>6, <1>7

LEMMA SweepAdoptFinishKeeps ==
  ASSUME PayingInv, NEW c \in Callers, SweepAdoptFinish(c)
  PROVE  PayingInv'
<1> USE DEF PayingInv
<1>1. PICK t \in Sends : pay[c].cur = t
  BY DEF PayInv, SweepAdoptFinish
<1>2. /\ At(c, "adoptFinish") /\ Paid(t) /\ Moves(c, "sweep")
      /\ UNCHANGED <<call, queued, book, rows, freed, tried, tries>>
  BY <1>1, FinishRequestPays, GotoMoves DEF SweepAdoptFinish, postVars, PayStates
<1>3. FieldTypes
  BY TypesOfFields
<1>4. TypeOK'
  BY <1>1, <1>2, TypesOfState, TypesOfSteps
<1>5. LimitInv'
  BY <1>1, <1>2, LimitStays
<1>6. /\ PayInv' /\ RowInv' /\ ClosedInv' /\ ReservationHoldsClaim' /\ LoneInv'
      /\ AgedInv' /\ TryInv' /\ ProofInv' /\ SweptInv' /\ FreedInv'
  <2>1. PayInv' /\ RowInv' /\ ClosedInv' /\ ReservationHoldsClaim'
    BY <1>1, <1>2, <1>3 DEF FieldTypes, PayInv, RowInv, Busy, ClosedInv, ReservationHoldsClaim, Sends
  <2>2. LoneInv' /\ AgedInv' /\ TryInv' /\ ProofInv'
    BY <1>1, <1>2, <1>3 DEF FieldTypes, LoneInv, AgedInv, TryInv, ProofInv, Sends
  <2>3. SweptInv' /\ FreedInv'
    BY <1>1, <1>2, <1>3 DEF FieldTypes, SweptInv, FreedInv, Sends
  <2> QED
    BY <2>1, <2>2, <2>3
<1>7. TablesTellTheBook'
  BY <1>1, <1>2, <1>3 DEF FieldTypes, TablesTellTheBook, PayInv, Sends
<1> QED
  BY <1>4, <1>5, <1>6, <1>7

\* A row that is dropped is nobody's: its send is not booked and not on its way.
LEMMA SweepDropKeeps ==
  ASSUME PayingInv, NEW c \in Callers, SweepDrop(c)
  PROVE  PayingInv'
<1> USE DEF PayingInv
<1>1. PICK t \in Sends : pay[c].cur = t
  BY DEF PayInv, SweepDrop
<1>2. /\ At(c, "drop") /\ Deleted(t, "swept") /\ Moves(c, "dropRelease")
      /\ UNCHANGED <<call, queued, book, requests, tried, tries>>
  BY <1>1, DeleteReservationDeletes, GotoMoves DEF SweepDrop, postVars, PayStates
<1>3. FieldTypes
  BY TypesOfFields
<1>4. TypeOK'
  BY <1>1, <1>2, TypesOfState, TypesOfSteps
<1>5. LimitInv'
  BY <1>1, <1>2, LimitStays
<1>6. /\ PayInv' /\ RowInv' /\ ClosedInv' /\ TablesTellTheBook' /\ ReservationHoldsClaim'
      /\ LoneInv' /\ AgedInv' /\ ProofInv'
  <2>1. PayInv' /\ RowInv'
    BY <1>1, <1>2, <1>3 DEF FieldTypes, PayInv, RowInv, Busy, Sends
  <2>2. ClosedInv' /\ TablesTellTheBook'
    BY <1>1, <1>2, <1>3 DEF FieldTypes, ClosedInv, TablesTellTheBook, Sends
  <2>3. ReservationHoldsClaim'
    BY <1>1, <1>2, <1>3 DEF FieldTypes, ReservationHoldsClaim, Sends
  <2>4. LoneInv'
    BY <1>1, <1>2, <1>3 DEF FieldTypes, LoneInv, Sends
  <2>5. AgedInv'
    BY <1>1, <1>2, <1>3 DEF FieldTypes, AgedInv, Sends
  <2>6. ProofInv'
    BY <1>1, <1>2, <1>3 DEF FieldTypes, ProofInv, Sends
  <2> QED
    BY <2>1, <2>2, <2>3, <2>4, <2>5, <2>6
<1>7. TryInv'
  BY <1>1, <1>2, <1>3 DEF FieldTypes, TryInv, AgedInv, Sends
<1>8. SweptInv'
  BY <1>1, <1>2, <1>3 DEF FieldTypes, SweptInv, TablesTellTheBook, Sends
<1>9. FreedInv'
  BY <1>1, <1>2, <1>3 DEF FieldTypes, FreedInv, AgedInv, SweptInv, Sends
<1> QED
  BY <1>4, <1>5, <1>6, <1>7, <1>8, <1>9

\* The claim goes after the row.
LEMMA SweepDropReleaseKeeps ==
  ASSUME PayingInv, NEW c \in Callers, SweepDropRelease(c)
  PROVE  PayingInv'
<1> USE DEF PayingInv
<1>1. PICK t \in Sends : pay[c].cur = t
  BY DEF PayInv, SweepDropRelease
<1>2. /\ At(c, "dropRelease") /\ Released(t) /\ Moves(c, "sweep")
      /\ UNCHANGED <<call, queued, book, rows, freed, tried, tries>>
  BY <1>1, ReleaseClaimReleases, GotoMoves DEF SweepDropRelease, postVars, PayStates
<1>3. FieldTypes
  BY TypesOfFields
<1>4. TypeOK'
  BY <1>1, <1>2, TypesOfState, TypesOfSteps
<1>5. LimitInv'
  BY <1>1, <1>2, LimitStays
<1>6. /\ PayInv' /\ RowInv' /\ ClosedInv' /\ TablesTellTheBook' /\ LoneInv'
      /\ AgedInv' /\ TryInv' /\ ProofInv' /\ SweptInv' /\ FreedInv'
  <2>1. PayInv'
    BY <1>1, <1>2, <1>3 DEF FieldTypes, PayInv, Sends
  <2>2. RowInv'
    BY <1>1, <1>2, <1>3 DEF FieldTypes, RowInv, Busy, Sends
  <2>3. ClosedInv'
    BY <1>1, <1>2, <1>3 DEF FieldTypes, ClosedInv, Sends
  <2>4. TablesTellTheBook'
    BY <1>1, <1>2, <1>3 DEF FieldTypes, TablesTellTheBook, Sends
  <2>5. LoneInv' /\ AgedInv' /\ TryInv' /\ ProofInv'
    BY <1>1, <1>2, <1>3 DEF FieldTypes, LoneInv, AgedInv, TryInv, ProofInv, Sends
  <2>6. SweptInv' /\ FreedInv'
    BY <1>1, <1>2, <1>3 DEF FieldTypes, SweptInv, FreedInv, Sends
  <2> QED
    BY <2>1, <2>2, <2>3, <2>4, <2>5, <2>6
<1>7. ReservationHoldsClaim'
  BY <1>1, <1>2, <1>3 DEF FieldTypes, ReservationHoldsClaim, SweptInv, Sends
<1> QED
  BY <1>4, <1>5, <1>6, <1>7

LEMMA SweepDoneKeeps ==
  ASSUME PayingInv, NEW c \in Callers, SweepDone(c)
  PROVE  PayingInv'
<1> USE DEF PayingInv
<1>1. /\ At(c, "sweep") /\ Moves(c, "reserve")
      /\ UNCHANGED <<call, queued, book, tried, tries, rows, requests, freed>>
  BY GotoMoves DEF SweepDone, postVars, PayStates
<1>2. FieldTypes
  BY TypesOfFields
<1>3. TypeOK'
  BY <1>1, TypesOfState, TypesOfSteps
<1>4. LimitInv'
  BY <1>1, LimitStays
<1>5. /\ PayInv' /\ RowInv' /\ ClosedInv' /\ TablesTellTheBook' /\ ReservationHoldsClaim'
      /\ LoneInv' /\ AgedInv' /\ TryInv' /\ ProofInv' /\ SweptInv' /\ FreedInv'
  <2>1. PayInv' /\ RowInv'
    BY <1>1, <1>2 DEF FieldTypes, PayInv, RowInv, Busy, Sends
  <2>2. ClosedInv' /\ TablesTellTheBook'
    BY <1>1, <1>2 DEF FieldTypes, ClosedInv, TablesTellTheBook, Sends
  <2>3. ReservationHoldsClaim' /\ LoneInv' /\ AgedInv' /\ TryInv'
    BY <1>1, <1>2 DEF FieldTypes, ReservationHoldsClaim, LoneInv, AgedInv, TryInv, Sends
  <2>4. ProofInv' /\ SweptInv' /\ FreedInv'
    BY <1>1, <1>2 DEF FieldTypes, ProofInv, SweptInv, FreedInv, Sends
  <2> QED
    BY <2>1, <2>2, <2>3, <2>4
<1> QED
  BY <1>3, <1>4, <1>5

\* A row that is there, posted or reserved.
LEMMA ReserveExistingPostedKeeps ==
  ASSUME PayingInv, NEW c \in Callers, ReserveExisting(c), rows[Mine(c)].st = "posted"
  PROVE  PayingInv'
<1> USE DEF PayingInv
<1>1. PICK t \in Sends : pay[c].send = t
  BY DEF PayInv, ReserveExisting
<1>2. /\ At(c, "reserve") /\ rows[t].st = "posted" /\ Moves(c, "finish")
      /\ UNCHANGED <<call, queued, book, tried, tries, rows, requests, freed>>
  BY <1>1, GotoMoves DEF ReserveExisting, postVars, PayStates
<1>3. FieldTypes
  BY TypesOfFields
<1>4. TypeOK'
  BY <1>1, <1>2, TypesOfState, TypesOfSteps
<1>5. LimitInv'
  BY <1>1, <1>2, LimitStays
<1>6. /\ RowInv' /\ ClosedInv' /\ TablesTellTheBook' /\ ReservationHoldsClaim' /\ LoneInv'
      /\ AgedInv' /\ TryInv' /\ ProofInv' /\ SweptInv' /\ FreedInv'
  BY <1>1, <1>2, <1>3 DEF FieldTypes, RowInv, Busy, ClosedInv, TablesTellTheBook,
    ReservationHoldsClaim, LoneInv, AgedInv, TryInv, ProofInv, SweptInv, FreedInv, Sends
<1>7. PayInv'
  BY <1>1, <1>2, <1>3 DEF FieldTypes, PayInv, TablesTellTheBook, Sends
<1> QED
  BY <1>4, <1>5, <1>6, <1>7

LEMMA ReserveExistingReservedKeeps ==
  ASSUME PayingInv, NEW c \in Callers, ReserveExisting(c), rows[Mine(c)].st # "posted"
  PROVE  PayingInv'
<1> USE DEF PayingInv
<1>1. PICK t \in Sends : pay[c].send = t
  BY DEF PayInv, ReserveExisting
<1>2. /\ At(c, "reserve") /\ rows[t].st \notin {"none", "posted"} /\ Moves(c, "policy")
      /\ UNCHANGED <<call, queued, book, tried, tries, rows, requests, freed>>
  BY <1>1, GotoMoves DEF ReserveExisting, postVars, PayStates
<1>3. FieldTypes
  BY TypesOfFields
<1>4. TypeOK'
  BY <1>1, <1>2, TypesOfState, TypesOfSteps
<1>5. LimitInv'
  BY <1>1, <1>2, LimitStays
<1>6. /\ PayInv' /\ RowInv' /\ ClosedInv' /\ TablesTellTheBook' /\ ReservationHoldsClaim'
      /\ LoneInv' /\ AgedInv' /\ TryInv' /\ ProofInv' /\ SweptInv' /\ FreedInv'
  <2>1. PayInv' /\ RowInv'
    BY <1>1, <1>2, <1>3 DEF FieldTypes, PayInv, RowInv, Busy, Sends
  <2>2. ClosedInv' /\ TablesTellTheBook'
    BY <1>1, <1>2, <1>3 DEF FieldTypes, ClosedInv, TablesTellTheBook, Sends
  <2>3. ReservationHoldsClaim' /\ LoneInv' /\ AgedInv' /\ TryInv'
    BY <1>1, <1>2, <1>3 DEF FieldTypes, ReservationHoldsClaim, LoneInv, AgedInv, TryInv, Sends
  <2>4. ProofInv' /\ SweptInv' /\ FreedInv'
    BY <1>1, <1>2, <1>3 DEF FieldTypes, ProofInv, SweptInv, FreedInv, Sends
  <2> QED
    BY <2>1, <2>2, <2>3, <2>4
<1> QED
  BY <1>4, <1>5, <1>6

\* A new row: the request it is for is open, and no other send has a row for it.
LEMMA ReserveNewKeeps ==
  ASSUME PayingInv, NEW c \in Callers, ReserveNew(c)
  PROVE  PayingInv'
<1> USE DEF PayingInv
<1>1. PICK t \in Sends : pay[c].send = t
  BY DEF PayInv, ReserveNew
<1>2. OneRow(t) /\ rows'[t].st = "reserved" /\ rows'[t].age = "new"
  BY <1>1, NewRow DEF ReserveNew
<1>3. /\ requests' \in [Requests -> RequestType]
      /\ \A r \in Requests :
           /\ requests'[r].st = requests[r].st
           /\ requests'[r].claim = IF r = RequestOf[t] THEN t ELSE requests[r].claim
  BY <1>1, NewClaim DEF ReserveNew
<1>4. /\ freed' \in [Sends -> {"no", "refused", "swept"}]
      /\ \A u \in Sends : freed'[u] = IF u = t THEN "no" ELSE freed[u]
  BY <1>1 DEF ReserveNew, TypeOK
<1>5. /\ At(c, "reserve") /\ rows[t].st = "none" /\ WithinTerms
      /\ RequestOf[t] # NoRequest => ClaimOpen(RequestOf[t], t)
      /\ Moves(c, "policy")
      /\ UNCHANGED <<call, queued, book, tried, tries>>
  BY <1>1, <1>2, <1>3, <1>4, GotoMoves DEF ReserveNew, MayReserve, postVars, PayStates
<1>6. FieldTypes
  BY TypesOfFields
<1>7. TypeOK'
  BY <1>1, <1>2, <1>3, <1>4, <1>5, TypesOfState, TypesOfSteps
<1>8. LimitInv'
  BY <1>2, <1>5, LimitGrows
<1>9. PayInv' /\ RowInv' /\ ClosedInv' /\ TablesTellTheBook' /\ ReservationHoldsClaim'
  <2>1. PayInv'
    BY <1>1, <1>2, <1>3, <1>4, <1>5, <1>6 DEF FieldTypes, PayInv, Sends
  <2>2. RowInv'
    BY <1>1, <1>2, <1>3, <1>4, <1>5, <1>6 DEF FieldTypes, RowInv, Busy, Sends
  <2>3. ClosedInv'
    BY <1>1, <1>2, <1>3, <1>4, <1>5, <1>6 DEF FieldTypes, ClosedInv, Sends, ClaimOpen
  <2>4. TablesTellTheBook'
    BY <1>1, <1>2, <1>3, <1>4, <1>5, <1>6 DEF FieldTypes, TablesTellTheBook, RowInv, Sends, ClaimOpen
  <2>5. ReservationHoldsClaim'
    BY <1>1, <1>2, <1>3, <1>4, <1>5, <1>6 DEF FieldTypes, ReservationHoldsClaim, Sends, ClaimOpen
  <2> QED
    BY <2>1, <2>2, <2>3, <2>4, <2>5
<1>10. LoneInv' /\ AgedInv' /\ ProofInv' /\ FreedInv'
  <2>1. LoneInv' /\ AgedInv'
    BY <1>1, <1>2, <1>3, <1>4, <1>5, <1>6 DEF FieldTypes, LoneInv, AgedInv, Sends
  <2>2. ProofInv' /\ FreedInv'
    BY <1>1, <1>2, <1>3, <1>4, <1>5, <1>6 DEF FieldTypes, ProofInv, FreedInv, Sends
  <2> QED
    BY <2>1, <2>2
<1>11. TryInv'
  BY <1>1, <1>2, <1>3, <1>4, <1>5, <1>6 DEF FieldTypes, TryInv, LoneInv, Sends, ClaimOpen
<1>12. SweptInv'
  BY <1>1, <1>2, <1>3, <1>4, <1>5, <1>6 DEF FieldTypes, SweptInv, AgedInv, Sends, ClaimOpen
<1> QED
  BY <1>7, <1>8, <1>9, <1>10, <1>11, <1>12

LEMMA ReserveRefusedKeeps ==
  ASSUME PayingInv, NEW c \in Callers, ReserveRefused(c)
  PROVE  PayingInv'
<1> USE DEF PayingInv
<1>1. /\ pay[c].pc \notin {"idle", "post"} /\ Ends(c)
      /\ UNCHANGED <<call, queued, book, tried, tries, rows, requests, freed>>
  BY EndEnds DEF ReserveRefused, postVars
<1>2. FieldTypes
  BY TypesOfFields
<1>3. TypeOK'
  BY <1>1, TypesOfState, TypesOfSteps
<1>4. LimitInv'
  BY <1>1, LimitStays
<1>5. /\ PayInv' /\ RowInv' /\ ClosedInv' /\ TablesTellTheBook' /\ ReservationHoldsClaim'
      /\ LoneInv' /\ AgedInv' /\ TryInv' /\ ProofInv' /\ SweptInv' /\ FreedInv'
  <2>1. PayInv' /\ RowInv'
    BY <1>1, <1>2 DEF FieldTypes, PayInv, RowInv, Busy, Sends
  <2>2. ClosedInv' /\ TablesTellTheBook'
    BY <1>1, <1>2 DEF FieldTypes, ClosedInv, TablesTellTheBook, Sends
  <2>3. ReservationHoldsClaim' /\ LoneInv' /\ AgedInv' /\ TryInv'
    BY <1>1, <1>2 DEF FieldTypes, ReservationHoldsClaim, LoneInv, AgedInv, TryInv, Sends
  <2>4. ProofInv' /\ SweptInv' /\ FreedInv'
    BY <1>1, <1>2 DEF FieldTypes, ProofInv, SweptInv, FreedInv, Sends
  <2> QED
    BY <2>1, <2>2, <2>3, <2>4
<1> QED
  BY <1>3, <1>4, <1>5

LEMMA PolicyRefusesKeeps ==
  ASSUME PayingInv, NEW c \in Callers, PolicyRefuses(c)
  PROVE  PayingInv'
<1> USE DEF PayingInv
<1>1. /\ At(c, "policy") /\ Moves(c, "abandon")
      /\ UNCHANGED <<call, queued, book, tried, tries, rows, requests, freed>>
  BY GotoMoves DEF PolicyRefuses, postVars, PayStates
<1>2. FieldTypes
  BY TypesOfFields
<1>3. TypeOK'
  BY <1>1, TypesOfState, TypesOfSteps
<1>4. LimitInv'
  BY <1>1, LimitStays
<1>5. /\ PayInv' /\ RowInv' /\ ClosedInv' /\ TablesTellTheBook' /\ ReservationHoldsClaim'
      /\ LoneInv' /\ AgedInv' /\ TryInv' /\ ProofInv' /\ SweptInv' /\ FreedInv'
  <2>1. PayInv' /\ RowInv' /\ ClosedInv' /\ TablesTellTheBook'
    BY <1>1, <1>2 DEF FieldTypes, PayInv, RowInv, Busy, ClosedInv, TablesTellTheBook, Sends
  <2>2. ReservationHoldsClaim' /\ LoneInv' /\ AgedInv' /\ TryInv'
    BY <1>1, <1>2 DEF FieldTypes, ReservationHoldsClaim, LoneInv, AgedInv, TryInv, Sends
  <2>3. ProofInv' /\ SweptInv' /\ FreedInv'
    BY <1>1, <1>2 DEF FieldTypes, ProofInv, SweptInv, FreedInv, Sends
  <2> QED
    BY <2>1, <2>2, <2>3
<1> QED
  BY <1>3, <1>4, <1>5

\* The first attempt: nothing was booked before it.
LEMMA PolicyPassesKeeps ==
  ASSUME PayingInv, NEW c \in Callers, PolicyPasses(c)
  PROVE  PayingInv'
<1> USE DEF PayingInv
<1>1. /\ At(c, "policy") /\ Posts(c, pay[c].send) /\ Moves(c, "post")
      /\ UNCHANGED <<tried, tries, rows, requests, freed>>
  BY BeginPostPosts, GotoMoves DEF PolicyPasses, PayStates, PayInv, Sends
<1>2. FieldTypes
  BY TypesOfFields
<1>3. TypeOK'
  BY <1>1, TypesOfState, TypesOfSteps
<1>4. LimitInv'
  BY <1>1, LimitStays
<1>5. /\ PayInv' /\ RowInv' /\ ClosedInv' /\ TablesTellTheBook' /\ ReservationHoldsClaim'
      /\ LoneInv' /\ AgedInv' /\ TryInv' /\ SweptInv' /\ FreedInv'
  <2>1. PayInv' /\ RowInv' /\ ClosedInv' /\ TablesTellTheBook'
    BY <1>1, <1>2 DEF FieldTypes, PayInv, RowInv, Busy, ClosedInv, TablesTellTheBook, Sends
  <2>2. ReservationHoldsClaim' /\ LoneInv' /\ AgedInv' /\ TryInv'
    BY <1>1, <1>2 DEF FieldTypes, ReservationHoldsClaim, LoneInv, AgedInv, TryInv, Sends
  <2>3. SweptInv' /\ FreedInv'
    BY <1>1, <1>2 DEF FieldTypes, SweptInv, FreedInv, Sends
  <2> QED
    BY <2>1, <2>2, <2>3
<1>6. ProofInv'
  BY <1>1, <1>2 DEF FieldTypes, ProofInv, TryInv, Sends
<1> QED
  BY <1>3, <1>4, <1>5, <1>6

LEMMA PostReturnedKeeps ==
  ASSUME PayingInv, NEW c \in Callers, PostReturned(c)
  PROVE  PayingInv'
<1> USE DEF PayingInv
<1>1. /\ At(c, "post") /\ call[c].st = "ok"
      /\ Hangs(c) /\ Moves(c, "mark")
      /\ UNCHANGED <<tried, tries, rows, requests, freed>>
  BY LetGoHangs, GotoMoves DEF PostReturned, PayStates
<1>2. FieldTypes
  BY TypesOfFields
<1>3. TypeOK'
  BY <1>1, TypesOfState, TypesOfSteps
<1>4. LimitInv'
  BY <1>1, LimitStays
<1>5. /\ PayInv' /\ RowInv' /\ ClosedInv' /\ TablesTellTheBook' /\ ReservationHoldsClaim'
      /\ LoneInv' /\ AgedInv' /\ TryInv' /\ ProofInv' /\ SweptInv' /\ FreedInv'
  <2>1. PayInv'
    BY <1>1, <1>2 DEF FieldTypes, PayInv, Sends
  <2>2. RowInv'
    BY <1>1, <1>2 DEF FieldTypes, RowInv, Busy, Sends
  <2>3. ClosedInv' /\ TablesTellTheBook'
    BY <1>1, <1>2 DEF FieldTypes, ClosedInv, TablesTellTheBook, Sends
  <2>4. ReservationHoldsClaim'
    BY <1>1, <1>2 DEF FieldTypes, ReservationHoldsClaim, Sends
  <2>5. LoneInv'
    BY <1>1, <1>2 DEF FieldTypes, LoneInv, Sends
  <2>6. AgedInv'
    BY <1>1, <1>2 DEF FieldTypes, AgedInv, Sends
  <2>7. TryInv'
    BY <1>1, <1>2 DEF FieldTypes, TryInv, Sends
  <2>8. ProofInv' /\ SweptInv' /\ FreedInv'
    BY <1>1, <1>2 DEF FieldTypes, ProofInv, SweptInv, FreedInv, Sends
  <2> QED
    BY <2>1, <2>2, <2>3, <2>4, <2>5, <2>6, <2>7, <2>8
<1> QED
  BY <1>3, <1>4, <1>5

\* The proof: the only attempt was refused, or never sent.
LEMMA PostThrewProofKeeps ==
  ASSUME PayingInv, NEW c \in Callers, PostThrew(c),
         ProvesPostNotCommitted(call[c].err, call[c].attempts)
  PROVE  PayingInv'
<1> USE DEF PayingInv
<1>1. /\ At(c, "post") /\ call[c].st = "err"
      /\ call[c].err \in {"refused", "unsent"} /\ call[c].attempts = 1
      /\ Hangs(c) /\ Moves(c, "abandon")
      /\ UNCHANGED <<tried, tries, rows, requests, freed>>
  BY LetGoHangs, GotoMoves DEF PostThrew, ProvesPostNotCommitted, ClassifyPostOutcome, PayStates
<1>2. FieldTypes
  BY TypesOfFields
<1>3. TypeOK'
  BY <1>1, TypesOfState, TypesOfSteps
<1>4. LimitInv'
  BY <1>1, LimitStays
<1>5. /\ PayInv' /\ RowInv' /\ ClosedInv' /\ TablesTellTheBook' /\ ReservationHoldsClaim'
      /\ LoneInv' /\ AgedInv' /\ ProofInv' /\ SweptInv' /\ FreedInv'
  <2>1. PayInv'
    BY <1>1, <1>2 DEF FieldTypes, PayInv, Sends
  <2>2. RowInv'
    BY <1>1, <1>2 DEF FieldTypes, RowInv, Busy, Sends
  <2>3. ClosedInv' /\ TablesTellTheBook'
    BY <1>1, <1>2 DEF FieldTypes, ClosedInv, TablesTellTheBook, Sends
  <2>4. ReservationHoldsClaim' /\ LoneInv' /\ AgedInv' /\ ProofInv'
    BY <1>1, <1>2 DEF FieldTypes, ReservationHoldsClaim, LoneInv, AgedInv, ProofInv, Sends
  <2>5. SweptInv' /\ FreedInv'
    BY <1>1, <1>2 DEF FieldTypes, SweptInv, FreedInv, Sends
  <2> QED
    BY <2>1, <2>2, <2>3, <2>4, <2>5
<1>6. TryInv'
  BY <1>1, <1>2 DEF FieldTypes, TryInv, ProofInv, Sends
<1> QED
  BY <1>3, <1>4, <1>5, <1>6

LEMMA PostThrewUnknownKeeps ==
  ASSUME PayingInv, NEW c \in Callers, PostThrew(c),
         ~ProvesPostNotCommitted(call[c].err, call[c].attempts)
  PROVE  PayingInv'
<1> USE DEF PayingInv
<1>1. /\ At(c, "post") /\ call[c].st = "err"
      /\ Hangs(c) /\ Moves(c, "lookup")
      /\ UNCHANGED <<tried, tries, rows, requests, freed>>
  BY LetGoHangs, GotoMoves DEF PostThrew, PayStates
<1>2. FieldTypes
  BY TypesOfFields
<1>3. TypeOK'
  BY <1>1, TypesOfState, TypesOfSteps
<1>4. LimitInv'
  BY <1>1, LimitStays
<1>5. /\ PayInv' /\ RowInv' /\ ClosedInv' /\ TablesTellTheBook' /\ ReservationHoldsClaim'
      /\ LoneInv' /\ AgedInv' /\ TryInv' /\ ProofInv' /\ SweptInv' /\ FreedInv'
  <2>1. PayInv'
    BY <1>1, <1>2 DEF FieldTypes, PayInv, Sends
  <2>2. RowInv'
    BY <1>1, <1>2 DEF FieldTypes, RowInv, Busy, Sends
  <2>3. ClosedInv' /\ TablesTellTheBook'
    BY <1>1, <1>2 DEF FieldTypes, ClosedInv, TablesTellTheBook, Sends
  <2>4. ReservationHoldsClaim' /\ LoneInv' /\ AgedInv' /\ TryInv'
    BY <1>1, <1>2 DEF FieldTypes, ReservationHoldsClaim, LoneInv, AgedInv, TryInv, Sends
  <2>5. ProofInv' /\ SweptInv' /\ FreedInv'
    BY <1>1, <1>2 DEF FieldTypes, ProofInv, SweptInv, FreedInv, Sends
  <2> QED
    BY <2>1, <2>2, <2>3, <2>4, <2>5
<1> QED
  BY <1>3, <1>4, <1>5

LEMMA LookupBookedKeeps ==
  ASSUME PayingInv, NEW c \in Callers, Lookup(c), Mine(c) \in book
  PROVE  PayingInv'
<1> USE DEF PayingInv
<1>1. /\ At(c, "lookup") /\ pay[c].send \in book /\ Moves(c, "mark")
      /\ UNCHANGED <<call, queued, book, tried, tries, rows, requests, freed>>
  BY GotoMoves DEF Lookup, postVars, PayStates
<1>2. FieldTypes
  BY TypesOfFields
<1>3. TypeOK'
  BY <1>1, TypesOfState, TypesOfSteps
<1>4. LimitInv'
  BY <1>1, LimitStays
<1>5. /\ PayInv' /\ RowInv' /\ ClosedInv' /\ TablesTellTheBook' /\ ReservationHoldsClaim'
      /\ LoneInv' /\ AgedInv' /\ TryInv' /\ ProofInv' /\ SweptInv' /\ FreedInv'
  <2>1. PayInv' /\ RowInv'
    BY <1>1, <1>2 DEF FieldTypes, PayInv, RowInv, Busy, Sends
  <2>2. ClosedInv' /\ TablesTellTheBook'
    BY <1>1, <1>2 DEF FieldTypes, ClosedInv, TablesTellTheBook, Sends
  <2>3. ReservationHoldsClaim' /\ LoneInv' /\ AgedInv' /\ TryInv'
    BY <1>1, <1>2 DEF FieldTypes, ReservationHoldsClaim, LoneInv, AgedInv, TryInv, Sends
  <2>4. ProofInv' /\ SweptInv' /\ FreedInv'
    BY <1>1, <1>2 DEF FieldTypes, ProofInv, SweptInv, FreedInv, Sends
  <2> QED
    BY <2>1, <2>2, <2>3, <2>4
<1> QED
  BY <1>3, <1>4, <1>5

LEMMA LookupGoneKeeps ==
  ASSUME PayingInv, NEW c \in Callers, Lookup(c), Mine(c) \notin book
  PROVE  PayingInv'
<1> USE DEF PayingInv
<1>1. /\ pay[c].pc \notin {"idle", "post"} /\ Ends(c)
      /\ UNCHANGED <<call, queued, book, tried, tries, rows, requests, freed>>
  BY EndEnds DEF Lookup, postVars
<1>2. FieldTypes
  BY TypesOfFields
<1>3. TypeOK'
  BY <1>1, TypesOfState, TypesOfSteps
<1>4. LimitInv'
  BY <1>1, LimitStays
<1>5. /\ PayInv' /\ RowInv' /\ ClosedInv' /\ TablesTellTheBook' /\ ReservationHoldsClaim'
      /\ LoneInv' /\ AgedInv' /\ TryInv' /\ ProofInv' /\ SweptInv' /\ FreedInv'
  <2>1. PayInv' /\ RowInv' /\ ClosedInv' /\ TablesTellTheBook'
    BY <1>1, <1>2 DEF FieldTypes, PayInv, RowInv, Busy, ClosedInv, TablesTellTheBook, Sends
  <2>2. ReservationHoldsClaim' /\ LoneInv' /\ AgedInv' /\ TryInv'
    BY <1>1, <1>2 DEF FieldTypes, ReservationHoldsClaim, LoneInv, AgedInv, TryInv, Sends
  <2>3. ProofInv' /\ SweptInv' /\ FreedInv'
    BY <1>1, <1>2 DEF FieldTypes, ProofInv, SweptInv, FreedInv, Sends
  <2> QED
    BY <2>1, <2>2, <2>3
<1> QED
  BY <1>3, <1>4, <1>5

\* What is marked posted is booked.
LEMMA MarkPostedKeeps ==
  ASSUME PayingInv, NEW c \in Callers, MarkPosted(c), rows[Mine(c)].st # "none"
  PROVE  PayingInv'
<1> USE DEF PayingInv
<1>1. PICK t \in Sends : pay[c].send = t
  BY DEF PayInv, MarkPosted
<1>2. /\ At(c, "mark") /\ Marked(t) /\ rows[t].st # "none" /\ Moves(c, "finish")
      /\ UNCHANGED <<call, queued, book, requests, freed, tried, tries>>
  BY <1>1, MarkRowMarks, GotoMoves DEF MarkPosted, postVars, PayStates
<1>3. FieldTypes
  BY TypesOfFields
<1>4. TypeOK'
  BY <1>1, <1>2, TypesOfState, TypesOfSteps
<1>5. LimitInv'
  BY <1>1, <1>2, LimitStays
<1>6. /\ PayInv' /\ RowInv' /\ ClosedInv' /\ ReservationHoldsClaim' /\ LoneInv'
      /\ AgedInv' /\ TryInv' /\ ProofInv' /\ SweptInv' /\ FreedInv'
  <2>1. PayInv'
    BY <1>1, <1>2, <1>3 DEF FieldTypes, PayInv, Sends
  <2>2. RowInv'
    BY <1>1, <1>2, <1>3 DEF FieldTypes, RowInv, Busy, Sends
  <2>3. ClosedInv' /\ ReservationHoldsClaim'
    BY <1>1, <1>2, <1>3 DEF FieldTypes, ClosedInv, ReservationHoldsClaim, Sends
  <2>4. LoneInv' /\ AgedInv' /\ TryInv' /\ ProofInv'
    BY <1>1, <1>2, <1>3 DEF FieldTypes, LoneInv, AgedInv, TryInv, ProofInv, Sends
  <2>5. SweptInv' /\ FreedInv'
    BY <1>1, <1>2, <1>3 DEF FieldTypes, SweptInv, FreedInv, Sends
  <2> QED
    BY <2>1, <2>2, <2>3, <2>4, <2>5
<1>7. TablesTellTheBook'
  BY <1>1, <1>2, <1>3 DEF FieldTypes, TablesTellTheBook, PayInv, Sends
<1> QED
  BY <1>4, <1>5, <1>6, <1>7

LEMMA MarkPostedGoneKeeps ==
  ASSUME PayingInv, NEW c \in Callers, MarkPosted(c), rows[Mine(c)].st = "none"
  PROVE  PayingInv'
<1> USE DEF PayingInv
<1>1. PICK t \in Sends : pay[c].send = t
  BY DEF PayInv, MarkPosted
<1>2. /\ At(c, "mark") /\ Marked(t) /\ rows[t].st = "none" /\ Ends(c)
      /\ UNCHANGED <<call, queued, book, requests, freed, tried, tries>>
  BY <1>1, MarkRowMarks, EndEnds DEF MarkPosted, postVars, PayStates
<1>3. FieldTypes
  BY TypesOfFields
<1>4. TypeOK'
  BY <1>1, <1>2, TypesOfState, TypesOfSteps
<1>5. LimitInv'
  BY <1>1, <1>2, LimitStays
<1>6. /\ PayInv' /\ RowInv' /\ ClosedInv' /\ TablesTellTheBook' /\ ReservationHoldsClaim'
      /\ LoneInv' /\ AgedInv' /\ TryInv' /\ ProofInv' /\ SweptInv' /\ FreedInv'
  <2>1. PayInv'
    BY <1>1, <1>2, <1>3 DEF FieldTypes, PayInv, Sends
  <2>2. RowInv'
    BY <1>1, <1>2, <1>3 DEF FieldTypes, RowInv, Busy, Sends
  <2>3. ClosedInv' /\ TablesTellTheBook'
    BY <1>1, <1>2, <1>3 DEF FieldTypes, ClosedInv, TablesTellTheBook, Sends
  <2>4. ReservationHoldsClaim' /\ LoneInv' /\ AgedInv' /\ TryInv'
    BY <1>1, <1>2, <1>3 DEF FieldTypes, ReservationHoldsClaim, LoneInv, AgedInv, TryInv, Sends
  <2>5. ProofInv' /\ SweptInv' /\ FreedInv'
    BY <1>1, <1>2, <1>3 DEF FieldTypes, ProofInv, SweptInv, FreedInv, Sends
  <2> QED
    BY <2>1, <2>2, <2>3, <2>4, <2>5
<1> QED
  BY <1>4, <1>5, <1>6

LEMMA FinishKeeps ==
  ASSUME PayingInv, NEW c \in Callers, Finish(c)
  PROVE  PayingInv'
<1> USE DEF PayingInv
<1>1. PICK t \in Sends : pay[c].send = t
  BY DEF PayInv, Finish
<1>2. /\ At(c, "finish") /\ Paid(t) /\ Ends(c)
      /\ UNCHANGED <<call, queued, book, rows, freed, tried, tries>>
  BY <1>1, FinishRequestPays, EndEnds DEF Finish, postVars, PayStates
<1>3. FieldTypes
  BY TypesOfFields
<1>4. TypeOK'
  BY <1>1, <1>2, TypesOfState, TypesOfSteps
<1>5. LimitInv'
  BY <1>1, <1>2, LimitStays
<1>6. PayInv' /\ RowInv' /\ ClosedInv' /\ ReservationHoldsClaim' /\ LoneInv'
  BY <1>1, <1>2, <1>3 DEF FieldTypes, PayInv, RowInv, Busy, ClosedInv, ReservationHoldsClaim,
    LoneInv, Sends
<1>7. AgedInv' /\ TryInv' /\ ProofInv' /\ SweptInv' /\ FreedInv'
  <2>1. AgedInv' /\ TryInv' /\ ProofInv' /\ SweptInv'
    BY <1>1, <1>2, <1>3 DEF FieldTypes, AgedInv, TryInv, ProofInv, SweptInv, Sends
  <2>2. FreedInv'
    BY <1>1, <1>2, <1>3 DEF FieldTypes, FreedInv, Sends
  <2> QED
    BY <2>1, <2>2
<1>8. TablesTellTheBook'
  BY <1>1, <1>2, <1>3 DEF FieldTypes, TablesTellTheBook, PayInv, Sends
<1> QED
  BY <1>4, <1>5, <1>6, <1>7, <1>8

\* A reservation is abandoned when nothing of its send is booked or on its way.
LEMMA AbandonKeeps ==
  ASSUME PayingInv, NEW c \in Callers, Abandon(c)
  PROVE  PayingInv'
<1> USE DEF PayingInv
<1>1. PICK t \in Sends : pay[c].send = t
  BY DEF PayInv, Abandon
<1>2. /\ At(c, "abandon") /\ Deleted(t, "refused") /\ Moves(c, "release")
      /\ UNCHANGED <<call, queued, book, requests, tried, tries>>
  BY <1>1, DeleteReservationDeletes, GotoMoves DEF Abandon, postVars, PayStates
<1>3. FieldTypes
  BY TypesOfFields
<1>4. TypeOK'
  BY <1>1, <1>2, TypesOfState, TypesOfSteps
<1>5. LimitInv'
  BY <1>1, <1>2, LimitStays
<1>6. /\ PayInv' /\ RowInv' /\ ClosedInv' /\ TablesTellTheBook' /\ ReservationHoldsClaim'
      /\ LoneInv' /\ AgedInv' /\ ProofInv' /\ SweptInv'
  <2>1. PayInv' /\ RowInv'
    BY <1>1, <1>2, <1>3 DEF FieldTypes, PayInv, RowInv, Busy, Sends
  <2>2. ClosedInv' /\ TablesTellTheBook'
    BY <1>1, <1>2, <1>3 DEF FieldTypes, ClosedInv, TablesTellTheBook, Sends
  <2>3. ReservationHoldsClaim' /\ LoneInv' /\ AgedInv' /\ ProofInv'
    BY <1>1, <1>2, <1>3 DEF FieldTypes, ReservationHoldsClaim, LoneInv, AgedInv, ProofInv, Sends
  <2>4. SweptInv'
    BY <1>1, <1>2, <1>3 DEF FieldTypes, SweptInv, Sends
  <2> QED
    BY <2>1, <2>2, <2>3, <2>4
<1>7. TryInv'
  BY <1>1, <1>2, <1>3 DEF FieldTypes, TryInv, TablesTellTheBook, LoneInv, Sends
<1>8. FreedInv'
  BY <1>1, <1>2, <1>3 DEF FieldTypes, FreedInv, TryInv, Sends
<1> QED
  BY <1>4, <1>5, <1>6, <1>7, <1>8

\* The claim goes after the row.
LEMMA ReleaseKeeps ==
  ASSUME PayingInv, NEW c \in Callers, Release(c)
  PROVE  PayingInv'
<1> USE DEF PayingInv
<1>1. PICK t \in Sends : pay[c].send = t
  BY DEF PayInv, Release
<1>2. /\ At(c, "release") /\ Released(t) /\ Ends(c)
      /\ UNCHANGED <<call, queued, book, rows, freed, tried, tries>>
  BY <1>1, ReleaseClaimReleases, EndEnds DEF Release, postVars, PayStates
<1>3. FieldTypes
  BY TypesOfFields
<1>4. TypeOK'
  BY <1>1, <1>2, TypesOfState, TypesOfSteps
<1>5. LimitInv'
  BY <1>1, <1>2, LimitStays
<1>6. /\ PayInv' /\ RowInv' /\ ClosedInv' /\ TablesTellTheBook' /\ LoneInv'
      /\ AgedInv' /\ TryInv' /\ ProofInv' /\ SweptInv' /\ FreedInv'
  <2>1. PayInv' /\ RowInv' /\ ClosedInv' /\ TablesTellTheBook'
    BY <1>1, <1>2, <1>3 DEF FieldTypes, PayInv, RowInv, Busy, ClosedInv, TablesTellTheBook, Sends
  <2>2. LoneInv' /\ AgedInv' /\ TryInv' /\ ProofInv'
    BY <1>1, <1>2, <1>3 DEF FieldTypes, LoneInv, AgedInv, TryInv, ProofInv, Sends
  <2>3. SweptInv' /\ FreedInv'
    BY <1>1, <1>2, <1>3 DEF FieldTypes, SweptInv, FreedInv, Sends
  <2> QED
    BY <2>1, <2>2, <2>3
<1>7. ReservationHoldsClaim'
  BY <1>1, <1>2, <1>3 DEF FieldTypes, ReservationHoldsClaim, TryInv, Sends
<1> QED
  BY <1>4, <1>5, <1>6, <1>7

\* What a call that stops had sent may still be booked: its row stays.
LEMMA StopKeeps ==
  ASSUME PayingInv, NEW c \in Callers, Stop(c)
  PROVE  PayingInv'
<1> USE DEF PayingInv
<1>1. /\ ~At(c, "idle") /\ Hangs(c) /\ Ends(c)
      /\ UNCHANGED <<tried, tries, rows, requests, freed>>
  BY LetGoHangs, EndEnds DEF Stop, PayInv, Sends
<1>2. FieldTypes
  BY TypesOfFields
<1>3. TypeOK'
  BY <1>1, TypesOfState, TypesOfSteps
<1>4. LimitInv'
  BY <1>1, LimitStays
<1>5. /\ PayInv' /\ ClosedInv' /\ TablesTellTheBook' /\ ReservationHoldsClaim' /\ LoneInv'
      /\ SweptInv'
  BY <1>1, <1>2 DEF FieldTypes, PayInv, ClosedInv, TablesTellTheBook, ReservationHoldsClaim,
    LoneInv, SweptInv, Sends
<1>6. RowInv'
  BY <1>1, <1>2 DEF FieldTypes, RowInv, Busy, PayInv, Sends
<1>7. AgedInv'
  BY <1>1, <1>2 DEF FieldTypes, AgedInv, PayInv, Sends
<1>8. TryInv'
  BY <1>1, <1>2 DEF FieldTypes, TryInv, PayInv, LoneInv, Sends
<1>9. ProofInv'
  BY <1>1, <1>2 DEF FieldTypes, ProofInv, PayInv, LoneInv, Sends
<1>10. FreedInv'
  BY <1>1, <1>2 DEF FieldTypes, FreedInv, PayInv, RowInv, Busy, TryInv, Sends
<1> QED
  BY <1>3, <1>4, <1>5, <1>6, <1>7, <1>8, <1>9, <1>10

\* A request is closed while nobody claims it.
LEMMA CloseRequestKeeps ==
  ASSUME PayingInv, NEW q \in Requests, CloseRequest(q)
  PROVE  PayingInv'
<1> USE DEF PayingInv
<1>1. /\ requests[q].st = "open" /\ requests[q].claim = NoSend
      /\ requests' \in [Requests -> RequestType]
      /\ \A r \in Requests :
           /\ requests'[r].st = IF r = q THEN "closed" ELSE requests[r].st
           /\ requests'[r].claim = requests[r].claim
      /\ UNCHANGED <<call, queued, book, pay, rows, freed, tried, tries>>
  BY DEF CloseRequest, TypeOK, RequestType, postVars
<1>2. FieldTypes
  BY TypesOfFields
<1>3. TypeOK'
  BY <1>1, TypesOfState, TypesOfSteps
<1>4. LimitInv'
  BY <1>1, LimitStays
<1>5. /\ PayInv' /\ RowInv' /\ ClosedInv' /\ TablesTellTheBook' /\ ReservationHoldsClaim'
      /\ LoneInv' /\ AgedInv' /\ TryInv' /\ ProofInv' /\ SweptInv' /\ FreedInv'
  <2>1. PayInv' /\ RowInv' /\ ClosedInv' /\ TablesTellTheBook'
    BY <1>1, <1>2 DEF FieldTypes, PayInv, RowInv, Busy, ClosedInv, TablesTellTheBook, Sends
  <2>2. ReservationHoldsClaim' /\ LoneInv' /\ AgedInv' /\ TryInv'
    BY <1>1, <1>2 DEF FieldTypes, ReservationHoldsClaim, LoneInv, AgedInv, TryInv, Sends
  <2>3. ProofInv' /\ SweptInv' /\ FreedInv'
    BY <1>1, <1>2 DEF FieldTypes, ProofInv, SweptInv, FreedInv, Sends
  <2> QED
    BY <2>1, <2>2, <2>3
<1> QED
  BY <1>3, <1>4, <1>5

LEMMA ExpireKeeps ==
  ASSUME PayingInv, NEW q \in Requests, Expire(q)
  PROVE  PayingInv'
<1> USE DEF PayingInv
<1>1. /\ requests' \in [Requests -> RequestType]
      /\ \A r \in Requests : requests'[r].st = requests[r].st /\ requests'[r].claim = requests[r].claim
      /\ UNCHANGED <<call, queued, book, pay, rows, freed, tried, tries>>
  <2>1. requests \in [Requests -> RequestType] /\ requests[q] \in RequestType
    BY TypesOfState
  <2>2. requests' = [requests EXCEPT ![q] = [requests[q] EXCEPT !.expired = TRUE]]
    BY DEF Expire
  <2>3. [requests[q] EXCEPT !.expired = TRUE] \in RequestType
    BY <2>1 DEF RequestType
  <2>4. UNCHANGED <<call, queued, book, pay, rows, freed, tried, tries>>
    BY DEF Expire, postVars
  <2> QED
    BY <2>1, <2>2, <2>3, <2>4 DEF RequestType
<1>2. FieldTypes
  BY TypesOfFields
<1>3. TypeOK'
  BY <1>1, TypesOfState, TypesOfSteps
<1>4. LimitInv'
  BY <1>1, LimitStays
<1>5. /\ PayInv' /\ RowInv' /\ ClosedInv' /\ TablesTellTheBook' /\ ReservationHoldsClaim'
      /\ LoneInv' /\ AgedInv' /\ TryInv' /\ ProofInv' /\ SweptInv' /\ FreedInv'
  <2>1. PayInv' /\ RowInv' /\ ClosedInv' /\ TablesTellTheBook'
    BY <1>1, <1>2 DEF FieldTypes, PayInv, RowInv, Busy, ClosedInv, TablesTellTheBook, Sends
  <2>2. ReservationHoldsClaim' /\ LoneInv' /\ AgedInv' /\ TryInv'
    BY <1>1, <1>2 DEF FieldTypes, ReservationHoldsClaim, LoneInv, AgedInv, TryInv, Sends
  <2>3. ProofInv' /\ SweptInv' /\ FreedInv'
    BY <1>1, <1>2 DEF FieldTypes, ProofInv, SweptInv, FreedInv, Sends
  <2> QED
    BY <2>1, <2>2, <2>3
<1> QED
  BY <1>3, <1>4, <1>5

\* A row grows old once nobody sends it and nothing of it is on its way.
LEMMA AgeQuietKeeps ==
  ASSUME PayingInv, NEW t \in Sends, Age(t), rows[t].age = "new"
  PROVE  PayingInv'
<1> USE DEF PayingInv
<1>1. /\ rows[t].st = "reserved" /\ t \notin queued /\ ~Busy(t)
      /\ OneRow(t) /\ rows'[t].st = rows[t].st /\ rows'[t].age = "quiet"
      /\ UNCHANGED <<call, queued, book, pay, requests, freed, tried, tries>>
  BY RowAges DEF Age, postVars
<1>2. FieldTypes
  BY TypesOfFields
<1>3. TypeOK'
  BY <1>1, TypesOfState, TypesOfSteps
<1>4. LimitInv'
  BY <1>1, LimitStays
<1>5. /\ PayInv' /\ RowInv' /\ ClosedInv' /\ TablesTellTheBook' /\ ReservationHoldsClaim'
      /\ LoneInv' /\ AgedInv' /\ TryInv' /\ ProofInv' /\ SweptInv' /\ FreedInv'
  <2>1. PayInv'
    BY <1>1, <1>2 DEF FieldTypes, PayInv, Sends
  <2>2. RowInv'
    BY <1>1, <1>2 DEF FieldTypes, RowInv, Busy, Sends, Busy
  <2>3. ClosedInv' /\ TablesTellTheBook'
    BY <1>1, <1>2 DEF FieldTypes, ClosedInv, TablesTellTheBook, Sends
  <2>4. ReservationHoldsClaim' /\ LoneInv' /\ TryInv' /\ ProofInv'
    BY <1>1, <1>2 DEF FieldTypes, ReservationHoldsClaim, LoneInv, TryInv, ProofInv, Sends
  <2>5. AgedInv'
    BY <1>1, <1>2 DEF FieldTypes, RowInv, Busy, AgedInv, Sends, Busy
  <2>6. SweptInv' /\ FreedInv'
    BY <1>1, <1>2 DEF FieldTypes, SweptInv, FreedInv, Sends
  <2> QED
    BY <2>1, <2>2, <2>3, <2>4, <2>5, <2>6
<1> QED
  BY <1>3, <1>4, <1>5

LEMMA AgeStaleKeeps ==
  ASSUME PayingInv, NEW t \in Sends, Age(t), rows[t].age # "new"
  PROVE  PayingInv'
<1> USE DEF PayingInv
<1>1. /\ rows[t].st = "reserved" /\ rows[t].age = "quiet"
      /\ OneRow(t) /\ rows'[t].st = rows[t].st /\ rows'[t].age = "stale"
      /\ UNCHANGED <<call, queued, book, pay, requests, freed, tried, tries>>
  BY RowAges DEF Age, postVars
<1>2. FieldTypes
  BY TypesOfFields
<1>3. TypeOK'
  BY <1>1, TypesOfState, TypesOfSteps
<1>4. LimitInv'
  BY <1>1, LimitStays
<1>5. /\ PayInv' /\ RowInv' /\ ClosedInv' /\ TablesTellTheBook' /\ ReservationHoldsClaim'
      /\ LoneInv' /\ AgedInv' /\ TryInv' /\ ProofInv' /\ SweptInv' /\ FreedInv'
  <2>1. PayInv'
    BY <1>1, <1>2 DEF FieldTypes, PayInv, Sends
  <2>2. RowInv'
    BY <1>1, <1>2 DEF FieldTypes, RowInv, Busy, Sends
  <2>3. ClosedInv'
    BY <1>1, <1>2 DEF FieldTypes, ClosedInv, Sends
  <2>4. TablesTellTheBook'
    BY <1>1, <1>2 DEF FieldTypes, TablesTellTheBook, Sends
  <2>5. ReservationHoldsClaim'
    BY <1>1, <1>2 DEF FieldTypes, ReservationHoldsClaim, Sends
  <2>6. LoneInv'
    BY <1>1, <1>2 DEF FieldTypes, LoneInv, Sends
  <2>7. AgedInv'
    BY <1>1, <1>2 DEF FieldTypes, AgedInv, Sends
  <2>8. TryInv'
    BY <1>1, <1>2 DEF FieldTypes, TryInv, Sends
  <2>9. ProofInv'
    BY <1>1, <1>2 DEF FieldTypes, ProofInv, Sends
  <2>10. SweptInv'
    BY <1>1, <1>2 DEF FieldTypes, SweptInv, Sends
  <2>11. FreedInv'
    BY <1>1, <1>2 DEF FieldTypes, FreedInv, Sends
  <2> QED
    BY <2>1, <2>2, <2>3, <2>4, <2>5, <2>6, <2>7, <2>8, <2>9, <2>10, <2>11
<1> QED
  BY <1>3, <1>4, <1>5

LEMMA NeverSentKeeps ==
  ASSUME PayingInv, NEW c \in Callers, NeverSent(c), UNCHANGED payVars
  PROVE  PayingInv'
<1> USE DEF PayingInv
<1>1. /\ call[c].st = "sent"
      /\ Goes(c, "failed", "unsent")
      /\ UNCHANGED <<queued, book>>
      /\ UNCHANGED <<pay, tried, tries, rows, requests, freed>>
  BY CallGoes DEF NeverSent, payVars, CallStates, Errors, Fail
<1>2. FieldTypes
  BY TypesOfFields
<1>3. TypeOK'
  BY <1>1, TypesOfState, TypesOfSteps
<1>4. LimitInv'
  BY <1>1, LimitStays
<1>5. /\ PayInv' /\ RowInv' /\ ClosedInv' /\ TablesTellTheBook' /\ ReservationHoldsClaim'
      /\ LoneInv' /\ AgedInv' /\ TryInv' /\ ProofInv' /\ SweptInv' /\ FreedInv'
  <2>1. PayInv' /\ RowInv'
    BY <1>1, <1>2 DEF FieldTypes, PayInv, RowInv, Busy, Sends
  <2>2. ClosedInv' /\ TablesTellTheBook'
    BY <1>1, <1>2 DEF FieldTypes, ClosedInv, TablesTellTheBook, Sends
  <2>3. ReservationHoldsClaim' /\ LoneInv' /\ AgedInv' /\ TryInv'
    BY <1>1, <1>2 DEF FieldTypes, ReservationHoldsClaim, LoneInv, AgedInv, TryInv, Sends
  <2>4. ProofInv' /\ SweptInv' /\ FreedInv'
    BY <1>1, <1>2 DEF FieldTypes, ProofInv, SweptInv, FreedInv, Sends
  <2> QED
    BY <2>1, <2>2, <2>3, <2>4
<1> QED
  BY <1>3, <1>4, <1>5

\* An attempt is left to the ledger: it is of the one call that sends.
LEMMA AttemptAbandonedKeeps ==
  ASSUME PayingInv, NEW c \in Callers, AttemptAbandoned(c), UNCHANGED payVars
  PROVE  PayingInv'
<1> USE DEF PayingInv
<1>1. call[c].key \in Keys /\ queued \cup {call[c].key} \in SUBSET Keys
  BY TypesOfState DEF AttemptAbandoned, PayInv, Sends
<1>2. /\ call[c].st = "sent"
      /\ Goes(c, "failed", "lost")
      /\ queued' = queued \cup {call[c].key} /\ queued' \in SUBSET Keys
      /\ UNCHANGED book
      /\ UNCHANGED <<pay, tried, tries, rows, requests, freed>>
  BY <1>1, CallGoes DEF AttemptAbandoned, payVars, CallStates, Errors, Fail
<1>3. FieldTypes
  BY TypesOfFields
<1>4. TypeOK'
  BY <1>1, <1>2, TypesOfState, TypesOfSteps
<1>5. LimitInv'
  BY <1>1, <1>2, LimitStays
<1>6. /\ PayInv' /\ ClosedInv' /\ TablesTellTheBook' /\ ReservationHoldsClaim' /\ LoneInv'
      /\ SweptInv'
  <2>1. PayInv'
    BY <1>1, <1>2, <1>3 DEF FieldTypes, PayInv, Sends
  <2>2. ClosedInv'
    BY <1>1, <1>2, <1>3 DEF FieldTypes, ClosedInv, Sends
  <2>3. TablesTellTheBook'
    BY <1>1, <1>2, <1>3 DEF FieldTypes, TablesTellTheBook, Sends
  <2>4. ReservationHoldsClaim'
    BY <1>1, <1>2, <1>3 DEF FieldTypes, ReservationHoldsClaim, Sends
  <2>5. LoneInv'
    BY <1>1, <1>2, <1>3 DEF FieldTypes, LoneInv, Sends
  <2>6. SweptInv'
    BY <1>1, <1>2, <1>3 DEF FieldTypes, SweptInv, Sends
  <2> QED
    BY <2>1, <2>2, <2>3, <2>4, <2>5, <2>6
<1>7. RowInv'
  BY <1>1, <1>2, <1>3 DEF FieldTypes, RowInv, Busy, PayInv, Sends
<1>8. AgedInv'
  BY <1>1, <1>2, <1>3 DEF FieldTypes, AgedInv, PayInv, Sends
<1>9. TryInv'
  BY <1>1, <1>2, <1>3 DEF FieldTypes, TryInv, PayInv, LoneInv, Sends
<1>10. ProofInv'
  BY <1>1, <1>2, <1>3 DEF FieldTypes, ProofInv, PayInv, LoneInv, Sends
<1>11. FreedInv'
  BY <1>1, <1>2, <1>3 DEF FieldTypes, FreedInv, PayInv, RowInv, Busy, TryInv, Sends
<1> QED
  BY <1>4, <1>5, <1>6, <1>7, <1>8, <1>9, <1>10, <1>11

LEMMA ReplyKeeps ==
  ASSUME PayingInv, NEW c \in Callers, Reply(c), UNCHANGED payVars
  PROVE  PayingInv'
<1> USE DEF PayingInv
<1>1. /\ call[c].st = "answered"
      /\ Goes(c, IF call[c].err = "none" THEN "ok" ELSE "err", call[c].err)
      /\ UNCHANGED <<queued, book>>
      /\ UNCHANGED <<pay, tried, tries, rows, requests, freed>>
  BY TypesOfState, PostMoves DEF Reply, payVars, CallStates, Errors
<1>2. FieldTypes
  BY TypesOfFields
<1>3. TypeOK'
  BY <1>1, TypesOfState, TypesOfSteps
<1>4. LimitInv'
  BY <1>1, LimitStays
<1>5. /\ PayInv' /\ RowInv' /\ ClosedInv' /\ TablesTellTheBook' /\ ReservationHoldsClaim'
      /\ LoneInv' /\ AgedInv' /\ TryInv' /\ ProofInv' /\ SweptInv' /\ FreedInv'
  <2>1. PayInv'
    BY <1>1, <1>2 DEF FieldTypes, PayInv, Sends
  <2>2. RowInv'
    BY <1>1, <1>2 DEF FieldTypes, RowInv, Busy, Sends
  <2>3. ClosedInv' /\ TablesTellTheBook'
    BY <1>1, <1>2 DEF FieldTypes, ClosedInv, TablesTellTheBook, Sends
  <2>4. ReservationHoldsClaim' /\ LoneInv' /\ AgedInv' /\ TryInv'
    BY <1>1, <1>2 DEF FieldTypes, ReservationHoldsClaim, LoneInv, AgedInv, TryInv, Sends
  <2>5. ProofInv' /\ SweptInv' /\ FreedInv'
    BY <1>1, <1>2 DEF FieldTypes, ProofInv, SweptInv, FreedInv, Sends
  <2> QED
    BY <2>1, <2>2, <2>3, <2>4, <2>5
<1> QED
  BY <1>3, <1>4, <1>5

LEMMA ReplyLostKeeps ==
  ASSUME PayingInv, NEW c \in Callers, ReplyLost(c), UNCHANGED payVars
  PROVE  PayingInv'
<1> USE DEF PayingInv
<1>1. /\ call[c].st = "answered"
      /\ Goes(c, "failed", "lost")
      /\ UNCHANGED <<queued, book>>
      /\ UNCHANGED <<pay, tried, tries, rows, requests, freed>>
  BY CallGoes DEF ReplyLost, payVars, CallStates, Errors, Fail
<1>2. FieldTypes
  BY TypesOfFields
<1>3. TypeOK'
  BY <1>1, TypesOfState, TypesOfSteps
<1>4. LimitInv'
  BY <1>1, LimitStays
<1>5. /\ PayInv' /\ RowInv' /\ ClosedInv' /\ TablesTellTheBook' /\ ReservationHoldsClaim'
      /\ LoneInv' /\ AgedInv' /\ TryInv' /\ ProofInv' /\ SweptInv' /\ FreedInv'
  <2>1. PayInv'
    BY <1>1, <1>2 DEF FieldTypes, PayInv, Sends
  <2>2. RowInv'
    BY <1>1, <1>2 DEF FieldTypes, RowInv, Busy, Sends
  <2>3. ClosedInv' /\ TablesTellTheBook'
    BY <1>1, <1>2 DEF FieldTypes, ClosedInv, TablesTellTheBook, Sends
  <2>4. ReservationHoldsClaim' /\ LoneInv' /\ AgedInv' /\ TryInv'
    BY <1>1, <1>2 DEF FieldTypes, ReservationHoldsClaim, LoneInv, AgedInv, TryInv, Sends
  <2>5. ProofInv' /\ SweptInv' /\ FreedInv'
    BY <1>1, <1>2 DEF FieldTypes, ProofInv, SweptInv, FreedInv, Sends
  <2> QED
    BY <2>1, <2>2, <2>3, <2>4, <2>5
<1> QED
  BY <1>3, <1>4, <1>5

LEMMA RetryKeeps ==
  ASSUME PayingInv, NEW c \in Callers, Retry(c), UNCHANGED payVars
  PROVE  PayingInv'
<1> USE DEF PayingInv
<1>1. /\ call[c].st = "failed"
      /\ OneCall(c)
      /\ call'[c].st = "sent" /\ call'[c].err = "none" /\ call'[c].key = call[c].key
      /\ call'[c].attempts = call[c].attempts + 1
      /\ UNCHANGED <<queued, book>>
      /\ UNCHANGED <<pay, tried, tries, rows, requests, freed>>
  BY TypesOfState, AttemptsGrow DEF Retry, payVars, CallStates, Errors
<1>2. FieldTypes
  BY TypesOfFields
<1>3. TypeOK'
  BY <1>1, TypesOfState, TypesOfSteps
<1>4. LimitInv'
  BY <1>1, LimitStays
<1>5. /\ PayInv' /\ RowInv' /\ ClosedInv' /\ TablesTellTheBook' /\ ReservationHoldsClaim'
      /\ LoneInv' /\ AgedInv' /\ TryInv' /\ SweptInv' /\ FreedInv'
  <2>1. PayInv' /\ RowInv'
    BY <1>1, <1>2 DEF FieldTypes, PayInv, RowInv, Busy, Sends
  <2>2. ClosedInv' /\ TablesTellTheBook'
    BY <1>1, <1>2 DEF FieldTypes, ClosedInv, TablesTellTheBook, Sends
  <2>3. ReservationHoldsClaim' /\ LoneInv' /\ AgedInv' /\ TryInv'
    BY <1>1, <1>2 DEF FieldTypes, ReservationHoldsClaim, LoneInv, AgedInv, TryInv, Sends
  <2>4. SweptInv' /\ FreedInv'
    BY <1>1, <1>2 DEF FieldTypes, SweptInv, FreedInv, Sends
  <2> QED
    BY <2>1, <2>2, <2>3, <2>4
<1>6. ProofInv'
  BY <1>1, <1>2 DEF FieldTypes, ProofInv, PayInv, Sends
<1> QED
  BY <1>3, <1>4, <1>5, <1>6

LEMMA GiveUpKeeps ==
  ASSUME PayingInv, NEW c \in Callers, GiveUp(c), UNCHANGED payVars
  PROVE  PayingInv'
<1> USE DEF PayingInv
<1>1. /\ call[c].st = "failed"
      /\ Goes(c, "err", call[c].err)
      /\ UNCHANGED <<queued, book>>
      /\ UNCHANGED <<pay, tried, tries, rows, requests, freed>>
  BY TypesOfState, PostMoves DEF GiveUp, payVars, CallStates, Errors
<1>2. FieldTypes
  BY TypesOfFields
<1>3. TypeOK'
  BY <1>1, TypesOfState, TypesOfSteps
<1>4. LimitInv'
  BY <1>1, LimitStays
<1>5. /\ PayInv' /\ RowInv' /\ ClosedInv' /\ TablesTellTheBook' /\ ReservationHoldsClaim'
      /\ LoneInv' /\ AgedInv' /\ TryInv' /\ ProofInv' /\ SweptInv' /\ FreedInv'
  <2>1. PayInv' /\ RowInv'
    BY <1>1, <1>2 DEF FieldTypes, PayInv, RowInv, Busy, Sends
  <2>2. ClosedInv' /\ TablesTellTheBook'
    BY <1>1, <1>2 DEF FieldTypes, ClosedInv, TablesTellTheBook, Sends
  <2>3. ReservationHoldsClaim' /\ LoneInv' /\ AgedInv' /\ TryInv'
    BY <1>1, <1>2 DEF FieldTypes, ReservationHoldsClaim, LoneInv, AgedInv, TryInv, Sends
  <2>4. ProofInv' /\ SweptInv' /\ FreedInv'
    BY <1>1, <1>2 DEF FieldTypes, ProofInv, SweptInv, FreedInv, Sends
  <2> QED
    BY <2>1, <2>2, <2>3, <2>4
<1> QED
  BY <1>3, <1>4, <1>5

\* A send is booked by the one call that sends it, which has its row.
LEMMA LedgerBooksKeeps ==
  ASSUME PayingInv, NEW c \in Callers, LedgerBooks(c), UNCHANGED payVars
  PROVE  PayingInv'
<1> USE DEF PayingInv
<1>1. call[c].key \in Keys /\ book \cup {call[c].key} \in SUBSET Keys
  BY TypesOfState DEF LedgerBooks, PayInv, Sends
<1>2. /\ call[c].st = "sent"
      /\ Goes(c, "answered", call[c].err)
      /\ book' = book \cup {call[c].key} /\ book' \in SUBSET Keys
      /\ UNCHANGED queued
      /\ UNCHANGED <<pay, tried, tries, rows, requests, freed>>
  BY <1>1, TypesOfState, PostMoves DEF LedgerBooks, payVars, CallStates, Errors
<1>3. FieldTypes
  BY TypesOfFields
<1>4. TypeOK'
  BY <1>1, <1>2, TypesOfState, TypesOfSteps
<1>5. LimitInv'
  BY <1>1, <1>2, LimitStays
<1>6. /\ PayInv' /\ ClosedInv' /\ TablesTellTheBook' /\ ReservationHoldsClaim' /\ LoneInv'
      /\ AgedInv'
  <2>1. PayInv'
    BY <1>1, <1>2, <1>3 DEF FieldTypes, PayInv, Sends
  <2>2. ClosedInv'
    BY <1>1, <1>2, <1>3 DEF FieldTypes, ClosedInv, Sends
  <2>3. TablesTellTheBook'
    BY <1>1, <1>2, <1>3 DEF FieldTypes, TablesTellTheBook, Sends
  <2>4. ReservationHoldsClaim'
    BY <1>1, <1>2, <1>3 DEF FieldTypes, ReservationHoldsClaim, Sends
  <2>5. LoneInv'
    BY <1>1, <1>2, <1>3 DEF FieldTypes, LoneInv, Sends
  <2>6. AgedInv'
    BY <1>1, <1>2, <1>3 DEF FieldTypes, AgedInv, Sends
  <2> QED
    BY <2>1, <2>2, <2>3, <2>4, <2>5, <2>6
<1>7. RowInv'
  BY <1>1, <1>2, <1>3 DEF FieldTypes, RowInv, Busy, PayInv, Sends
<1>8. TryInv'
  BY <1>1, <1>2, <1>3 DEF FieldTypes, TryInv, PayInv, LoneInv, Sends
<1>9. ProofInv'
  BY <1>1, <1>2, <1>3 DEF FieldTypes, ProofInv, PayInv, LoneInv, Sends
<1>10. SweptInv'
  BY <1>1, <1>2, <1>3 DEF FieldTypes, SweptInv, PayInv, AgedInv, Sends
<1>11. FreedInv'
  BY <1>1, <1>2, <1>3 DEF FieldTypes, FreedInv, PayInv, RowInv, Busy, TryInv, Sends
<1> QED
  BY <1>4, <1>5, <1>6, <1>7, <1>8, <1>9, <1>10, <1>11

LEMMA LedgerRefusesKeeps ==
  ASSUME PayingInv, NEW c \in Callers, LedgerRefuses(c), UNCHANGED payVars
  PROVE  PayingInv'
<1> USE DEF PayingInv
<1>1. /\ call[c].st = "sent" /\ call[c].key \notin book
      /\ Goes(c, "answered", "refused")
      /\ UNCHANGED <<queued, book>>
      /\ UNCHANGED <<pay, tried, tries, rows, requests, freed>>
  BY CallGoes DEF LedgerRefuses, payVars, CallStates, Errors
<1>2. FieldTypes
  BY TypesOfFields
<1>3. TypeOK'
  BY <1>1, TypesOfState, TypesOfSteps
<1>4. LimitInv'
  BY <1>1, LimitStays
<1>5. /\ PayInv' /\ RowInv' /\ ClosedInv' /\ TablesTellTheBook' /\ ReservationHoldsClaim'
      /\ LoneInv' /\ AgedInv' /\ TryInv' /\ ProofInv' /\ SweptInv' /\ FreedInv'
  <2>1. PayInv'
    BY <1>1, <1>2 DEF FieldTypes, PayInv, Sends
  <2>2. RowInv'
    BY <1>1, <1>2 DEF FieldTypes, RowInv, Busy, Sends
  <2>3. ClosedInv' /\ TablesTellTheBook'
    BY <1>1, <1>2 DEF FieldTypes, ClosedInv, TablesTellTheBook, Sends
  <2>4. ReservationHoldsClaim' /\ LoneInv' /\ AgedInv' /\ TryInv'
    BY <1>1, <1>2 DEF FieldTypes, ReservationHoldsClaim, LoneInv, AgedInv, TryInv, Sends
  <2>5. ProofInv' /\ SweptInv' /\ FreedInv'
    BY <1>1, <1>2 DEF FieldTypes, ProofInv, SweptInv, FreedInv, Sends
  <2> QED
    BY <2>1, <2>2, <2>3, <2>4, <2>5
<1> QED
  BY <1>3, <1>4, <1>5

LEMMA DoorRefusesKeeps ==
  ASSUME PayingInv, NEW c \in Callers, DoorRefuses(c), UNCHANGED payVars
  PROVE  PayingInv'
<1> USE DEF PayingInv
<1>1. /\ call[c].st = "sent"
      /\ Goes(c, "answered", "door")
      /\ UNCHANGED <<queued, book>>
      /\ UNCHANGED <<pay, tried, tries, rows, requests, freed>>
  BY CallGoes DEF DoorRefuses, payVars, CallStates, Errors
<1>2. FieldTypes
  BY TypesOfFields
<1>3. TypeOK'
  BY <1>1, TypesOfState, TypesOfSteps
<1>4. LimitInv'
  BY <1>1, LimitStays
<1>5. /\ PayInv' /\ RowInv' /\ ClosedInv' /\ TablesTellTheBook' /\ ReservationHoldsClaim'
      /\ LoneInv' /\ AgedInv' /\ TryInv' /\ ProofInv' /\ SweptInv' /\ FreedInv'
  <2>1. PayInv'
    BY <1>1, <1>2 DEF FieldTypes, PayInv, Sends
  <2>2. RowInv'
    BY <1>1, <1>2 DEF FieldTypes, RowInv, Busy, Sends
  <2>3. ClosedInv' /\ TablesTellTheBook'
    BY <1>1, <1>2 DEF FieldTypes, ClosedInv, TablesTellTheBook, Sends
  <2>4. ReservationHoldsClaim' /\ LoneInv' /\ AgedInv' /\ TryInv'
    BY <1>1, <1>2 DEF FieldTypes, ReservationHoldsClaim, LoneInv, AgedInv, TryInv, Sends
  <2>5. ProofInv' /\ SweptInv' /\ FreedInv'
    BY <1>1, <1>2 DEF FieldTypes, ProofInv, SweptInv, FreedInv, Sends
  <2> QED
    BY <2>1, <2>2, <2>3, <2>4, <2>5
<1> QED
  BY <1>3, <1>4, <1>5

LEMMA QueuedPostBooksKeeps ==
  ASSUME PayingInv, NEW k \in Keys, QueuedPostBooks(k), UNCHANGED payVars
  PROVE  PayingInv'
<1> USE DEF PayingInv
<1>1. /\ k \in queued
      /\ book' = book \cup {k} /\ book' \in SUBSET Keys
      /\ UNCHANGED <<call, queued>>
      /\ UNCHANGED <<pay, tried, tries, rows, requests, freed>>
  BY DEF QueuedPostBooks, payVars, TypeOK, PostTypeOK
<1>2. FieldTypes
  BY TypesOfFields
<1>3. TypeOK'
  BY <1>1, TypesOfState, TypesOfSteps
<1>4. LimitInv'
  BY <1>1, LimitStays
<1>5. /\ PayInv' /\ RowInv' /\ ClosedInv' /\ TablesTellTheBook' /\ ReservationHoldsClaim'
      /\ LoneInv' /\ AgedInv' /\ TryInv' /\ ProofInv' /\ FreedInv'
  <2>1. PayInv' /\ RowInv'
    BY <1>1, <1>2 DEF FieldTypes, PayInv, RowInv, Busy, Sends
  <2>2. ClosedInv' /\ TablesTellTheBook'
    BY <1>1, <1>2 DEF FieldTypes, ClosedInv, TablesTellTheBook, Sends
  <2>3. ReservationHoldsClaim' /\ LoneInv' /\ AgedInv' /\ TryInv'
    BY <1>1, <1>2 DEF FieldTypes, ReservationHoldsClaim, LoneInv, AgedInv, TryInv, Sends
  <2>4. ProofInv' /\ FreedInv'
    BY <1>1, <1>2 DEF FieldTypes, ProofInv, FreedInv, Sends
  <2> QED
    BY <2>1, <2>2, <2>3, <2>4
<1>6. SweptInv'
  BY <1>1, <1>2 DEF FieldTypes, SweptInv, AgedInv, Sends
<1> QED
  BY <1>3, <1>4, <1>5, <1>6

LEMMA QueuedPostsEndKeeps ==
  ASSUME PayingInv, NEW k \in Keys, QueuedPostsEnd(k), UNCHANGED payVars
  PROVE  PayingInv'
<1> USE DEF PayingInv
<1>1. /\ k \in queued
      /\ queued' = queued \ {k} /\ queued' \in SUBSET Keys
      /\ UNCHANGED <<call, book>>
      /\ UNCHANGED <<pay, tried, tries, rows, requests, freed>>
  BY DEF QueuedPostsEnd, payVars, TypeOK, PostTypeOK
<1>2. FieldTypes
  BY TypesOfFields
<1>3. TypeOK'
  BY <1>1, TypesOfState, TypesOfSteps
<1>4. LimitInv'
  BY <1>1, LimitStays
<1>5. /\ PayInv' /\ RowInv' /\ ClosedInv' /\ TablesTellTheBook' /\ ReservationHoldsClaim'
      /\ LoneInv' /\ AgedInv' /\ TryInv' /\ ProofInv' /\ SweptInv' /\ FreedInv'
  <2>1. PayInv' /\ RowInv'
    BY <1>1, <1>2 DEF FieldTypes, PayInv, RowInv, Busy, Sends
  <2>2. ClosedInv' /\ TablesTellTheBook'
    BY <1>1, <1>2 DEF FieldTypes, ClosedInv, TablesTellTheBook, Sends
  <2>3. ReservationHoldsClaim' /\ LoneInv' /\ AgedInv' /\ TryInv'
    BY <1>1, <1>2 DEF FieldTypes, ReservationHoldsClaim, LoneInv, AgedInv, TryInv, Sends
  <2>4. ProofInv' /\ SweptInv' /\ FreedInv'
    BY <1>1, <1>2 DEF FieldTypes, ProofInv, SweptInv, FreedInv, Sends
  <2> QED
    BY <2>1, <2>2, <2>3, <2>4
<1> QED
  BY <1>3, <1>4, <1>5

-----------------------------------------------------------------------------
(* The invariant                                                           *)

LEMMA InitPaying == Init => PayingInv
<1> SUFFICES ASSUME Init
             PROVE  PayingInv
  OBVIOUS
<1>1. /\ \A c \in Callers : /\ pay[c].pc = "idle" /\ pay[c].send = NoSend
                            /\ pay[c].todo = {} /\ pay[c].cur = NoSend
                            /\ call[c].st = "idle"
      /\ queued = {} /\ book = {}
      /\ \A t \in Sends : rows[t].st = "none" /\ rows[t].age = "new" /\ freed[t] = "no" /\ tried[t] = "no"
      /\ \A r \in Requests : requests[r].st = "open" /\ requests[r].claim = NoSend
  BY NoPayIsPay, NoCallIsCall, NoRowIsRow DEF Init, PostInit
<1>2. TypeOK
  <2>1. pay \in [Callers -> PayType] /\ call \in [Callers -> CallType] /\ rows \in [Sends -> RowType]
    BY NoPayIsPay, NoCallIsCall, NoRowIsRow DEF Init, PostInit
  <2>2. requests \in [Requests -> RequestType]
    BY DEF Init, RequestType
  <2> QED
    BY <1>1, <2>1, <2>2 DEF TypeOK, PostTypeOK, PayType, RowType, RequestType, Init
<1>3. LimitInv
  <2>1. {t \in Sends : rows[t].st # "none"} = {}
    BY <1>1
  <2> QED
    BY <2>1, FS_EmptySet DEF LimitInv
<1>4. PayInv /\ RowInv /\ ClosedInv /\ TablesTellTheBook /\ ReservationHoldsClaim
  BY <1>1 DEF PayInv, RowInv, Busy, ClosedInv, TablesTellTheBook, ReservationHoldsClaim
<1>5. LoneInv /\ AgedInv /\ TryInv /\ ProofInv /\ SweptInv /\ FreedInv
  BY <1>1 DEF LoneInv, AgedInv, TryInv, ProofInv, SweptInv, FreedInv
<1> QED
  BY <1>2, <1>3, <1>4, <1>5 DEF PayingInv

LEMMA CallStepKeeps == ASSUME PayingInv, NEW c \in Callers, CallStep(c) PROVE PayingInv'
<1>1. CASE SweepLook(c)
  BY <1>1, SweepLookKeeps
<1>2. CASE SweepAdopt(c)
  BY <1>2, SweepAdoptKeeps
<1>3. CASE SweepAdoptFinish(c)
  BY <1>3, SweepAdoptFinishKeeps
<1>4. CASE SweepDrop(c)
  BY <1>4, SweepDropKeeps
<1>5. CASE SweepDropRelease(c)
  BY <1>5, SweepDropReleaseKeeps
<1>6. CASE SweepDone(c)
  BY <1>6, SweepDoneKeeps
<1>7. CASE ReserveExisting(c)
  BY <1>7, ReserveExistingPostedKeeps, ReserveExistingReservedKeeps
<1>8. CASE ReserveNew(c)
  BY <1>8, ReserveNewKeeps
<1>9. CASE ReserveRefused(c)
  BY <1>9, ReserveRefusedKeeps
<1>10. CASE PolicyRefuses(c)
  BY <1>10, PolicyRefusesKeeps
<1>11. CASE PolicyPasses(c)
  BY <1>11, PolicyPassesKeeps
<1>12. CASE PostReturned(c)
  BY <1>12, PostReturnedKeeps
<1>13. CASE PostThrew(c)
  BY <1>13, PostThrewProofKeeps, PostThrewUnknownKeeps
<1>14. CASE Lookup(c)
  BY <1>14, LookupBookedKeeps, LookupGoneKeeps
<1>15. CASE MarkPosted(c)
  BY <1>15, MarkPostedKeeps, MarkPostedGoneKeeps
<1>16. CASE Finish(c)
  BY <1>16, FinishKeeps
<1>17. CASE Abandon(c)
  BY <1>17, AbandonKeeps
<1>18. CASE Release(c)
  BY <1>18, ReleaseKeeps
<1>19. CASE Stop(c)
  BY <1>19, StopKeeps
<1> QED
  BY <1>1, <1>2, <1>3, <1>4, <1>5, <1>6, <1>7, <1>8, <1>9, <1>10, <1>11, <1>12, <1>13,
    <1>14, <1>15, <1>16, <1>17, <1>18, <1>19 DEF CallStep

LEMMA PostStepKeeps == ASSUME PayingInv, PostStep, UNCHANGED payVars PROVE PayingInv'
<1>1. ASSUME NEW c \in Callers,
             \/ NeverSent(c) \/ AttemptAbandoned(c) \/ Reply(c) \/ ReplyLost(c)
             \/ Retry(c) \/ GiveUp(c) \/ LedgerBooks(c) \/ LedgerRefuses(c) \/ DoorRefuses(c)
      PROVE  PayingInv'
  BY <1>1, NeverSentKeeps, AttemptAbandonedKeeps, ReplyKeeps, ReplyLostKeeps, RetryKeeps,
     GiveUpKeeps,
    LedgerBooksKeeps, LedgerRefusesKeeps, DoorRefusesKeeps, Zenon
<1>2. ASSUME NEW k \in Keys, QueuedPostBooks(k) \/ QueuedPostsEnd(k)
      PROVE  PayingInv'
  BY <1>2, QueuedPostBooksKeeps, QueuedPostsEndKeeps, Zenon
<1> QED
  BY <1>1, <1>2, Zenon DEF PostStep

LEMMA StutterKeeps == ASSUME PayingInv, UNCHANGED vars PROVE PayingInv'
<1> USE DEF PayingInv
<1>1. UNCHANGED <<call, queued, book, rows, requests, pay, freed, tried, tries>>
  BY DEF vars, postVars, payVars
<1>2. TypeOK' /\ LimitInv'
  BY <1>1, TypesOfState, TypesOfSteps, LimitStays
<1>3. PayInv' /\ RowInv' /\ ClosedInv' /\ TablesTellTheBook' /\ ReservationHoldsClaim'
  BY <1>1 DEF PayInv, RowInv, Busy, ClosedInv, TablesTellTheBook, ReservationHoldsClaim
<1>4. LoneInv' /\ AgedInv' /\ TryInv' /\ ProofInv' /\ SweptInv' /\ FreedInv'
  BY <1>1 DEF LoneInv, AgedInv, TryInv, ProofInv, SweptInv, FreedInv
<1> QED
  BY <1>2, <1>3, <1>4

LEMMA NextKeeps == PayingInv /\ [Next]_vars => PayingInv'
<1> SUFFICES ASSUME PayingInv, [Next]_vars
             PROVE  PayingInv'
  OBVIOUS
<1>1. ASSUME NEW c \in Callers, CallStep(c)
      PROVE  PayingInv'
  BY <1>1, CallStepKeeps
<1>2. ASSUME NEW c \in Callers, NEW t \in Sends, Send(c, t)
      PROVE  PayingInv'
  BY <1>2, SendKeeps
<1>3. CASE PostStep /\ UNCHANGED payVars
  BY <1>3, PostStepKeeps
<1>4. ASSUME NEW t \in Sends, Age(t)
      PROVE  PayingInv'
  BY <1>4, AgeQuietKeeps, AgeStaleKeeps
<1>5. ASSUME NEW r \in Requests, Expire(r) \/ CloseRequest(r)
      PROVE  PayingInv'
  BY <1>5, ExpireKeeps, CloseRequestKeeps
<1>6. CASE UNCHANGED vars
  BY <1>6, StutterKeeps
<1> QED
  BY <1>1, <1>2, <1>3, <1>4, <1>5, <1>6 DEF Next

\* The inductive invariant holds of every behaviour of the sends and requests.
THEOREM PayingInvariant == Spec => []PayingInv
<1> QED
  BY InitPaying, NextKeeps, PTL DEF Spec

-----------------------------------------------------------------------------
(* What it says of the tables and of the book                              *)

\* personal_transfers and personal_requests agree with one another and claim
\* nothing the book has not: a posted send is booked, a paid request names the
\* send that paid it, and a reservation keeps others off its request.
THEOREM TablesStayConsistent == Spec => []TablesConsistent
<1>1. PayingInv => TablesConsistent
  BY DEF PayingInv, TablesConsistent
<1> QED
  BY <1>1, PayingInvariant, PTL

\* A send whose reservation was given up, by a refusal taken for a proof or by the
\* sweep of stale ones, is not booked afterwards.
THEOREM GivenUpStaysUnbooked == Spec => []GivenUpNeverBooks
<1>1. PayingInv => GivenUpNeverBooks
  <2> SUFFICES ASSUME PayingInv, NEW t \in book, tried[t] # "again", freed[t] # "no"
               PROVE  FALSE
    BY DEF GivenUpNeverBooks
  <2>1. t \in Sends
    BY DEF PayingInv, TypeOK, PostTypeOK, Sends
  <2> QED
    BY <2>1 DEF PayingInv, FreedInv
<1> QED
  BY <1>1, PayingInvariant, PTL

\* The sends for one request that are booked are the one that claims it.
LEMMA BookedClaims ==
  ASSUME PayingInv, NEW r \in Requests, \A t \in Sends : RequestOf[t] = r => OneTry(t),
         NEW t \in book, RequestOf[t] = r
  PROVE  requests[r].claim = t /\ t \in Sends
<1>1. t \in Sends /\ r # NoRequest
  BY DEF PayingInv, TypeOK, PostTypeOK, Sends
<1>2. rows[t].st # "none"
  BY <1>1 DEF PayingInv, FreedInv
<1> QED
  BY <1>1, <1>2 DEF PayingInv, ReservationHoldsClaim

\* The book holds what the payer's terms and the requests allow: never two sends
\* for one request, nor one for a request that was cancelled or declined, nor more
\* than the daily limit.
THEOREM BookStaysWithinTerms == Spec => []BookedWithinTerms
<1>1. ASSUME PayingInv, NEW r \in Requests, \A t \in Sends : RequestOf[t] = r => OneTry(t)
      PROVE  /\ Cardinality({t \in book : RequestOf[t] = r}) <= 1
             /\ requests[r].st = "closed" => {t \in book : RequestOf[t] = r} = {}
  <2> DEFINE paid == {t \in book : RequestOf[t] = r}
  <2>1. \A t \in paid : requests[r].claim = t /\ t \in Sends
    BY <1>1, BookedClaims
  <2>2. requests[r].st = "closed" => paid = {}
    BY <1>1, <2>1 DEF PayingInv, ClosedInv
  <2>3. Cardinality(paid) <= 1
    <3>1. paid = {} \/ paid = {requests[r].claim}
      BY <2>1
    <3>2. Cardinality({}) = 0 /\ Cardinality({requests[r].claim}) = 1
      BY FS_EmptySet, FS_Singleton, Zenon
    <3> HIDE DEF paid
    <3>3. Cardinality(paid) = 0 \/ Cardinality(paid) = 1
      BY <3>1, <3>2
    <3> QED
      BY <3>3
  <2> QED
    BY <2>2, <2>3
<1>2. ASSUME PayingInv, \A t \in Sends : OneTry(t)
      PROVE  Cardinality(book) <= DailyLimit
  <2> DEFINE taken == {t \in Sends : rows[t].st # "none"}
  <2>1. book \subseteq taken
    BY <1>2 DEF PayingInv, FreedInv, TypeOK, PostTypeOK, Sends
  <2>2. IsFiniteSet(taken) /\ Cardinality(taken) <= DailyLimit
    BY <1>2 DEF PayingInv, LimitInv
  <2> HIDE DEF taken
  <2>3. IsFiniteSet(book) /\ Cardinality(book) <= Cardinality(taken)
    BY <2>1, <2>2, FS_Subset
  <2>4. Cardinality(book) \in Nat /\ Cardinality(taken) \in Nat
    BY <2>2, <2>3, FS_CardinalityType
  <2> QED
    BY <2>2, <2>3, <2>4
<1>3. PayingInv => BookedWithinTerms
  BY <1>1, <1>2 DEF BookedWithinTerms
<1> QED
  BY <1>3, PayingInvariant, PTL
=============================================================================
