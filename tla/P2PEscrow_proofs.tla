-------------------------- MODULE P2PEscrow_proofs --------------------------
(***************************************************************************)
(* Safety of one P2P trade for every set of workers and every number of    *)
(* crashes.  None of the checked invariants is inductive: that a void has  *)
(* locked nothing follows from who may still post a lock (LoneAttempt),    *)
(* and that a decision pays out once follows from which calls are under    *)
(* way and for which decision (CallsMatch).                                *)
(***************************************************************************)
EXTENDS P2PEscrow, TLAPS

\* The post of a decision.
KeyOf(resolution) ==
  IF resolution = "released" THEN "release" ELSE IF resolution = "refunded" THEN "refund" ELSE NoKey

\* The row's status, its decision and its dispute belong together.
RowInv ==
  /\ trade.status \in {"released", "cancelled"} <=> trade.resolution # "none"
  /\ trade.status = "none" => left = Total /\ trade.attempts = 0
  /\ dispute = "open" <=> trade.status = "disputed"
  /\ dispute = "resolved" => trade.resolution # "none"
  /\ trade.attempts = 0 => "lock" \notin book \cup queued
  /\ trade.settled => trade.resolution # "none"

\* Who holds the row is posting the lock of a created trade.
HolderInv ==
  \A w \in Callers :
    /\ holder = w <=> At(w, "posting")
    /\ At(w, "posting") => trade.status = "created"

\* A worker's ordinal is a claim the row has counted; only a worker that came
\* too late has none.
OrdinalInv ==
  \A w \in Callers :
    /\ At(w, "idle") => job[w] = Idle
    /\ At(w, "claim") => job[w].ordinal = 0 /\ trade.status # "none"
    /\ At(w, "lock") /\ job[w].ordinal = 0 => trade.status \notin {"none", "created"}
    /\ job[w].ordinal <= trade.attempts
    /\ At(w, "posting") => job[w].ordinal # 0

\* While there has been one attempt, one worker has it, and until its post is
\* out, or when the engine has refused it, no lock is booked or on its way.
LoneAttempt ==
  trade.attempts = 1 =>
    \A w \in Callers : job[w].step \in {"lock", "posting"} /\ job[w].ordinal = 1 =>
      /\ \A v \in Callers : job[v].step \in {"lock", "posting"} /\ job[v].ordinal = 1 => v = w
      /\ At(w, "lock") /\ trade.status = "created" => "lock" \notin book \cup queued
      /\ At(w, "posting") /\ (call[w].st = "sent" \/ call[w].err = "refused") => "lock" \notin book \cup queued

\* A call under way belongs to a step that waits for it, and posts what that
\* step is for; what it was told is in the book is there.
CallsMatch ==
  \A w \in Callers :
    /\ call[w].st = "idle" <=> job[w].step \notin {"posting", "settling"}
    /\ At(w, "posting") => call[w].key = "lock"
    /\ At(w, "settling") => trade.resolution \in {"released", "refunded"} /\ call[w].key = KeyOf(trade.resolution)
    /\ call[w].st # "idle" => call[w].attempts = 1
    /\ call[w].st = "failed" => call[w].err \in {"unsent", "lost"}
    /\ call[w].st = "sent" => call[w].err = "none"
    /\ call[w].st = "ok" \/ (call[w].st = "answered" /\ call[w].err = "none") => call[w].key \in book

\* A payout that is booked or on its way is the one that was decided.
PayoutInv ==
  /\ "release" \in book \cup queued => trade.resolution = "released"
  /\ "refund" \in book \cup queued => trade.resolution = "refunded"
  /\ trade.resolution = "voided" => "lock" \notin book \cup queued
  /\ HoldsEscrow(trade.status) \/ trade.resolution \in {"released", "refunded"} => "lock" \in book

\* A worker past the decision has one, past the post has it booked, past the
\* announcement has it told.
SettlementInv ==
  \A w \in Callers :
    /\ job[w].step \in {"settle", "settling", "tell", "stamp"} => trade.resolution # "none"
    /\ job[w].step \in {"tell", "stamp"} => trade.resolution = "voided" \/ KeyOf(trade.resolution) \in book
    /\ At(w, "stamp") => trade.resolution \in told \cup {"voided"}

\* An order is marked paid out of escrow; unless an unwind was under way that
\* found it created, no unwind has read it as paid.
PaidInv ==
  /\ trade.status \in {"none", "created", "escrowed"} => paid = "no"
  /\ trade.status = "fiat_sent" => paid # "no"
  /\ paid = "yes" => ~UnwindsFromCreated
  /\ paid # "raced" => \A w \in Callers : At(w, "decide") => job[w].expect # "fiat_sent"

\* The inductive invariant.
IInv ==
  /\ TypeOK
  /\ RowInv /\ HolderInv /\ OrdinalInv /\ LoneAttempt /\ CallsMatch
  /\ PayoutInv /\ SettlementInv /\ PaidInv
  /\ StampedIsDone /\ PaidIsNotRefunded

-----------------------------------------------------------------------------
(* What a step does to the state, field by field                           *)

TradeType == [status : Statuses, resolution : Resolutions \cup {"none"}, attempts : Ordinals, settled : BOOLEAN]
JobType == [step : Steps, unwinds : BOOLEAN, expect : Statuses, ordinal : Ordinals]

\* The fields whose values the arguments enumerate.
FieldTypes ==
  /\ trade.attempts \in {0, 1, 2} /\ trade.resolution \in {"none", "released", "refunded", "voided"}
  /\ paid \in {"no", "yes", "raced"}
  /\ \A v \in Callers : job[v].ordinal \in {0, 1, 2}

\* The job of w changes and no other.
OneJob(w) == job' \in [Callers -> JobType] /\ \A v \in Callers : v # w => job'[v] = job[v]

\* Of the job of w the step changes.
Moves(w, s) ==
  /\ OneJob(w)
  /\ job'[w].step = s /\ job'[w].unwinds = job[w].unwinds
  /\ job'[w].expect = job[w].expect /\ job'[w].ordinal = job[w].ordinal

\* w has nothing more to do.
Rests(w) == OneJob(w) /\ job'[w] = Idle

\* The call of w changes and no other.
OneCall(w) == call' \in [Callers -> CallType] /\ \A v \in Callers : v # w => call'[v] = call[v]

\* w has a call no longer; what it had sent may still arrive.
Hangs(w) ==
  /\ OneCall(w) /\ call'[w] = NoCall
  /\ queued' = IF call[w].st = "sent" THEN queued \cup {call[w].key} ELSE queued
  /\ queued' \in SUBSET Keys
  /\ UNCHANGED book

\* w posts under the key k.
Posts(w, k) ==
  /\ OneCall(w) /\ call'[w] = [st |-> "sent", key |-> k, attempts |-> 1, err |-> "none"]
  /\ UNCHANGED <<queued, book>>

\* The call of w goes on.
Goes(w, st, err) ==
  /\ OneCall(w) /\ call'[w].st = st /\ call'[w].err = err
  /\ call'[w].key = call[w].key /\ call'[w].attempts = call[w].attempts

\* The row's status and decision change.
Becomes(status, resolution) ==
  /\ trade' \in TradeType
  /\ trade'.status = status /\ trade'.resolution = resolution
  /\ trade'.attempts = trade.attempts /\ trade'.settled = trade.settled

LEMMA TypesOfFields == ASSUME TypeOK PROVE FieldTypes
BY DEF TypeOK, FieldTypes, Ordinals, Resolutions

LEMMA TypesOfState ==
  ASSUME TypeOK
  PROVE  /\ job \in [Callers -> JobType] /\ trade \in TradeType /\ call \in [Callers -> CallType]
         /\ queued \in SUBSET Keys /\ book \in SUBSET Keys /\ holder \in Callers \cup {NoWorker}
         /\ dispute \in {"none", "open", "resolved"} /\ paid \in {"no", "yes", "raced"} /\ left \in 0 .. Total
         /\ told \subseteq Resolutions /\ crashes \in 0 .. MaxCrashes
BY DEF TypeOK, PostTypeOK, JobType, TradeType

LEMMA GoMoves ==
  ASSUME TypeOK, NEW w \in Callers, NEW s \in Steps, Go(w, s)
  PROVE  Moves(w, s)
BY DEF TypeOK, Go, Moves, OneJob, JobType

LEMMA DoneRests ==
  ASSUME TypeOK, NEW w \in Callers, Done(w)
  PROVE  Rests(w)
<1>1. Idle \in JobType
  BY DEF Idle, JobType, Steps, Statuses, Ordinals
<1> QED
  BY <1>1 DEF TypeOK, Done, Rests, OneJob, JobType

LEMMA LetGoHangs ==
  ASSUME TypeOK, NEW w \in Callers, LetGo(w), call[w].st = "sent" => call[w].key \in Keys
  PROVE  Hangs(w)
<1>1. NoCall \in CallType
  BY PostClientConstants DEF NoCall, CallType, CallStates, Errors
<1> QED
  BY <1>1 DEF TypeOK, PostTypeOK, LetGo, Hangs, OneCall

LEMMA BeginPostPosts ==
  ASSUME TypeOK, NEW w \in Callers, NEW k \in Keys, BeginPost(w, k)
  PROVE  Posts(w, k)
<1>1. [st |-> "sent", key |-> k, attempts |-> 1, err |-> "none"] \in CallType
  BY P2PEscrowConstants DEF CallType, CallStates, Errors
<1> QED
  BY <1>1 DEF TypeOK, PostTypeOK, BeginPost, Posts, OneCall

LEMMA StatusBecomes ==
  ASSUME TypeOK, NEW s \in Statuses, trade' = [trade EXCEPT !.status = s]
  PROVE  Becomes(s, trade.resolution)
BY DEF TypeOK, Becomes, TradeType

LEMMA DecisionBecomes ==
  ASSUME TypeOK, NEW s \in Statuses, NEW r \in Resolutions, WriteDecision(s, r)
  PROVE  Becomes(s, r) /\ left' \in 0 .. Total
<1>1. Becomes(s, r)
  BY DEF TypeOK, WriteDecision, Becomes, TradeType
<1>2. left' \in 0 .. Total
  BY DEF TypeOK, WriteDecision, Total
<1> QED
  BY <1>1, <1>2

LEMMA IdleIsJob == Idle \in JobType /\ ~Idle.unwinds /\ Idle.expect = "none" /\ Idle.ordinal = 0
BY DEF Idle, JobType, Steps, Statuses, Ordinals

\* The jobs that are given anew.
LEMMA NewJobs ==
  ASSUME TypeOK, NEW w \in Callers
  PROVE  /\ job' = [job EXCEPT ![w] = [Idle EXCEPT !.step = "settle"]] =>
              OneJob(w) /\ job'[w].step = "settle" /\ ~job'[w].unwinds /\ job'[w].ordinal = 0
         /\ job' = [job EXCEPT ![w] = [Idle EXCEPT !.step = "claim", !.unwinds = TRUE]] =>
              OneJob(w) /\ job'[w].step = "claim" /\ job'[w].unwinds /\ job'[w].expect = "none" /\ job'[w].ordinal = 0
         /\ job' = [job EXCEPT ![w] = [Idle EXCEPT !.step = "decide", !.unwinds = TRUE, !.expect = "escrowed"]] =>
              OneJob(w) /\ job'[w].step = "decide" /\ job'[w].unwinds /\ job'[w].expect = "escrowed" /\ job'[w].ordinal = 0
<1>1. ASSUME job' = [job EXCEPT ![w] = [Idle EXCEPT !.step = "settle"]]
      PROVE  OneJob(w) /\ job'[w].step = "settle" /\ ~job'[w].unwinds /\ job'[w].ordinal = 0
  <2> DEFINE j == [Idle EXCEPT !.step = "settle"]
  <2>1. j \in JobType /\ j.step = "settle" /\ ~j.unwinds /\ j.ordinal = 0
    BY IdleIsJob DEF JobType, Steps, Statuses
  <2>2. OneJob(w) /\ job'[w] = j
    BY <1>1, <2>1, TypesOfState DEF OneJob
  <2> QED
    BY <2>1, <2>2
<1>2. ASSUME job' = [job EXCEPT ![w] = [Idle EXCEPT !.step = "claim", !.unwinds = TRUE]]
      PROVE  OneJob(w) /\ job'[w].step = "claim" /\ job'[w].unwinds /\ job'[w].expect = "none" /\ job'[w].ordinal = 0
  <2> DEFINE j == [Idle EXCEPT !.step = "claim", !.unwinds = TRUE]
  <2>1. j \in JobType /\ j.step = "claim" /\ j.unwinds /\ j.expect = "none" /\ j.ordinal = 0
    BY IdleIsJob DEF JobType, Steps, Statuses
  <2>2. OneJob(w) /\ job'[w] = j
    BY <1>2, <2>1, TypesOfState DEF OneJob
  <2> QED
    BY <2>1, <2>2
<1>3. ASSUME job' = [job EXCEPT ![w] = [Idle EXCEPT !.step = "decide", !.unwinds = TRUE, !.expect = "escrowed"]]
      PROVE  OneJob(w) /\ job'[w].step = "decide" /\ job'[w].unwinds /\ job'[w].expect = "escrowed" /\ job'[w].ordinal = 0
  <2> DEFINE j == [Idle EXCEPT !.step = "decide", !.unwinds = TRUE, !.expect = "escrowed"]
  <2>1. j \in JobType /\ j.step = "decide" /\ j.unwinds /\ j.expect = "escrowed" /\ j.ordinal = 0
    BY IdleIsJob DEF JobType, Steps, Statuses
  <2>2. OneJob(w) /\ job'[w] = j
    BY <1>3, <2>1, TypesOfState DEF OneJob
  <2> QED
    BY <2>1, <2>2
<1> QED
  BY <1>1, <1>2, <1>3

LEMMA CallGoes ==
  ASSUME TypeOK, NEW w \in Callers, NEW st \in CallStates, NEW err \in Errors,
         call' = [call EXCEPT ![w].st = st, ![w].err = err]
  PROVE  Goes(w, st, err)
<1>1. call \in [Callers -> CallType] /\ call[w] \in CallType
  BY DEF TypeOK, PostTypeOK
<1>2. [call[w] EXCEPT !.st = st, !.err = err] \in CallType
  BY <1>1 DEF CallType
<1>3. call' = [call EXCEPT ![w] = [call[w] EXCEPT !.st = st, !.err = err]]
  BY <1>1
<1> QED
  BY <1>1, <1>2, <1>3 DEF Goes, OneCall, CallType

LEMMA CallTurns ==
  ASSUME TypeOK, NEW w \in Callers, NEW st \in CallStates, call' = [call EXCEPT ![w].st = st]
  PROVE  Goes(w, st, call[w].err)
<1>1. call \in [Callers -> CallType] /\ call[w] \in CallType
  BY DEF TypeOK, PostTypeOK
<1>2. [call[w] EXCEPT !.st = st] \in CallType
  BY <1>1 DEF CallType
<1>3. call' = [call EXCEPT ![w] = [call[w] EXCEPT !.st = st]]
  BY <1>1
<1> QED
  BY <1>1, <1>2, <1>3 DEF Goes, OneCall, CallType

LEMMA KnownGets ==
  ASSUME TypeOK, NEW w \in Callers, NEW s \in Statuses, Known(w, s)
  PROVE  /\ OneJob(w)
         /\ IF job[w].unwinds
              THEN /\ job'[w].step = "decide" /\ job'[w].unwinds /\ job'[w].expect = s
                   /\ job'[w].ordinal = job[w].ordinal
              ELSE job'[w] = Idle
<1>1. CASE job[w].unwinds
  BY <1>1 DEF TypeOK, Known, OneJob, JobType, Steps
<1>2. CASE ~job[w].unwinds
  <2>1. Done(w)
    BY <1>2 DEF Known, Done, TypeOK
  <2> QED
    BY <1>2, <2>1, DoneRests DEF Rests
<1> QED
  BY <1>1, <1>2

\* A worker rests or moves, and a call is made or ended: nothing but its own
\* conditions is asked of the types.
LEMMA TypesOfSteps ==
  ASSUME TypeOK,
         job' \in [Callers -> JobType], trade' \in TradeType, call' \in [Callers -> CallType],
         queued' \in SUBSET Keys, book' \in SUBSET Keys, holder' \in Callers \cup {NoWorker},
         dispute' \in {"none", "open", "resolved"}, paid' \in {"no", "yes", "raced"}, left' \in 0 .. Total,
         told' \subseteq Resolutions, crashes' \in 0 .. MaxCrashes
  PROVE  TypeOK'
BY DEF TypeOK, PostTypeOK, JobType, TradeType


USE P2PEscrowConstants, PostClientConstants
  DEF At, Free, Idle, NoCall, OneJob, Moves, Rests, OneCall, Hangs, Posts, Goes, Becomes

-----------------------------------------------------------------------------
(* Every step keeps the invariant                                          *)

\* A take: no attempt has been counted yet.
LEMMA TakeKeeps ==
  ASSUME IInv, NEW w \in Callers, Take(w)
  PROVE  IInv'
<1> USE DEF IInv
<1>1. /\ At(w, "idle") /\ trade.status = "none"
      /\ Moves(w, "claim")
      /\ Becomes("created", trade.resolution)
      /\ left' \in 0 .. Total
      /\ UNCHANGED <<call, queued, book, dispute, paid, holder, told, crashes>>
  BY GoMoves, StatusBecomes DEF Take, postVars, TypeOK, RowInv, Total, Steps, Statuses
<1>2. FieldTypes
  BY TypesOfFields
<1>3. TypeOK'
  BY <1>1, TypesOfState, TypesOfSteps
<1>4. RowInv' /\ HolderInv' /\ OrdinalInv' /\ CallsMatch' /\ PayoutInv'
      /\ SettlementInv' /\ PaidInv' /\ StampedIsDone' /\ PaidIsNotRefunded'
  <2>1. RowInv'
    BY <1>1, <1>2 DEF FieldTypes, RowInv
  <2>2. HolderInv'
    BY <1>1, <1>2 DEF FieldTypes, HolderInv
  <2>3. OrdinalInv'
    BY <1>1, <1>2 DEF FieldTypes, OrdinalInv
  <2>4. CallsMatch'
    BY <1>1, <1>2 DEF FieldTypes, CallsMatch, KeyOf
  <2>5. PayoutInv'
    BY <1>1, <1>2 DEF FieldTypes, PayoutInv, HoldsEscrow
  <2>6. SettlementInv'
    BY <1>1, <1>2 DEF FieldTypes, KeyOf, SettlementInv
  <2>7. PaidInv'
    BY <1>1, <1>2 DEF FieldTypes, PaidInv, UnwindsFromCreated
  <2>8. StampedIsDone'
    BY <1>1, <1>2 DEF FieldTypes, StampedIsDone
  <2>9. PaidIsNotRefunded'
    BY <1>1, <1>2 DEF FieldTypes, PaidIsNotRefunded
  <2> QED
    BY <2>1, <2>2, <2>3, <2>4, <2>5, <2>6, <2>7, <2>8, <2>9
<1>5. LoneAttempt'
  BY <1>1, <1>2 DEF FieldTypes, LoneAttempt, RowInv
<1> QED
  BY <1>3, <1>4, <1>5

\* A claim: the first of them finds no lock booked or on its way, and no other holder of one.
LEMMA ClaimEscrowLockAttemptKeeps ==
  ASSUME IInv, NEW w \in Callers, ClaimEscrowLockAttempt(w), trade.status = "created"
  PROVE  IInv'
<1> USE DEF IInv
<1>1. /\ At(w, "claim") /\ Free /\ trade.status = "created"
      /\ OneJob(w)
      /\ job'[w].step = "lock" /\ job'[w].unwinds = job[w].unwinds /\ job'[w].ordinal = trade'.attempts
      /\ trade' \in TradeType
      /\ trade'.status = trade.status /\ trade'.resolution = trade.resolution /\ trade'.settled = trade.settled
      /\ trade'.attempts = IF trade.attempts = 2 THEN 2 ELSE trade.attempts + 1
      /\ UNCHANGED <<call, queued, book, dispute, paid, left, holder, told, crashes>>
  BY DEF ClaimEscrowLockAttempt, postVars, TypeOK, TradeType, JobType, Ordinals, Steps
<1>2. FieldTypes
  BY TypesOfFields
<1>3. TypeOK'
  BY <1>1, TypesOfState, TypesOfSteps
<1>4. RowInv' /\ HolderInv' /\ OrdinalInv' /\ CallsMatch' /\ PayoutInv'
      /\ SettlementInv' /\ PaidInv' /\ StampedIsDone' /\ PaidIsNotRefunded'
  <2>1. RowInv'
    BY <1>1, <1>2 DEF FieldTypes, RowInv
  <2>2. HolderInv'
    BY <1>1, <1>2 DEF FieldTypes, HolderInv
  <2>3. OrdinalInv'
    BY <1>1, <1>2 DEF FieldTypes, OrdinalInv
  <2>4. CallsMatch'
    BY <1>1, <1>2 DEF FieldTypes, CallsMatch, KeyOf
  <2>5. PayoutInv'
    BY <1>1, <1>2 DEF FieldTypes, PayoutInv, HoldsEscrow
  <2>6. SettlementInv'
    BY <1>1, <1>2 DEF FieldTypes, KeyOf, SettlementInv
  <2>7. PaidInv'
    BY <1>1, <1>2 DEF FieldTypes, PaidInv, UnwindsFromCreated
  <2>8. StampedIsDone'
    BY <1>1, <1>2 DEF FieldTypes, StampedIsDone
  <2>9. PaidIsNotRefunded'
    BY <1>1, <1>2 DEF FieldTypes, PaidIsNotRefunded
  <2> QED
    BY <2>1, <2>2, <2>3, <2>4, <2>5, <2>6, <2>7, <2>8, <2>9
<1>5. LoneAttempt'
  BY <1>1, <1>2 DEF FieldTypes, LoneAttempt, RowInv, OrdinalInv
<1> QED
  BY <1>3, <1>4, <1>5

\* A claim that comes when the trade is past the lock is not counted.
LEMMA ClaimLateKeeps ==
  ASSUME IInv, NEW w \in Callers, ClaimEscrowLockAttempt(w), trade.status # "created"
  PROVE  IInv'
<1> USE DEF IInv
<1>1. /\ At(w, "claim") /\ Free /\ trade.status # "created"
      /\ Moves(w, "lock")
      /\ UNCHANGED <<call, queued, book, trade, dispute, paid, left, holder, told, crashes>>
  BY GoMoves DEF ClaimEscrowLockAttempt, postVars, Steps
<1>2. FieldTypes
  BY TypesOfFields
<1>3. TypeOK'
  BY <1>1, TypesOfState, TypesOfSteps
<1>4. RowInv' /\ HolderInv' /\ OrdinalInv' /\ CallsMatch' /\ PayoutInv'
      /\ SettlementInv' /\ PaidInv' /\ StampedIsDone' /\ PaidIsNotRefunded'
  <2>1. RowInv'
    BY <1>1, <1>2 DEF FieldTypes, RowInv
  <2>2. HolderInv'
    BY <1>1, <1>2 DEF FieldTypes, HolderInv
  <2>3. OrdinalInv'
    BY <1>1, <1>2 DEF FieldTypes, OrdinalInv
  <2>4. CallsMatch'
    BY <1>1, <1>2 DEF FieldTypes, CallsMatch, KeyOf
  <2>5. PayoutInv'
    BY <1>1, <1>2 DEF FieldTypes, PayoutInv, HoldsEscrow
  <2>6. SettlementInv'
    BY <1>1, <1>2 DEF FieldTypes, KeyOf, SettlementInv
  <2>7. PaidInv'
    BY <1>1, <1>2 DEF FieldTypes, PaidInv, UnwindsFromCreated
  <2>8. StampedIsDone'
    BY <1>1, <1>2 DEF FieldTypes, StampedIsDone
  <2>9. PaidIsNotRefunded'
    BY <1>1, <1>2 DEF FieldTypes, PaidIsNotRefunded
  <2> QED
    BY <2>1, <2>2, <2>3, <2>4, <2>5, <2>6, <2>7, <2>8, <2>9
<1>5. LoneAttempt'
  BY <1>1, <1>2 DEF FieldTypes, LoneAttempt, OrdinalInv
<1> QED
  BY <1>3, <1>4, <1>5

LEMMA PostEscrowLockKeeps ==
  ASSUME IInv, NEW w \in Callers, PostEscrowLock(w)
  PROVE  IInv'
<1> USE DEF IInv
<1>1. /\ At(w, "lock") /\ Free /\ trade.status = "created"
      /\ holder' = w
      /\ Posts(w, "lock")
      /\ Moves(w, "posting")
      /\ UNCHANGED <<trade, dispute, paid, left, told, crashes>>
  BY GoMoves, BeginPostPosts DEF PostEscrowLock, rows, Steps
<1>2. FieldTypes
  BY TypesOfFields
<1>3. TypeOK'
  BY <1>1, TypesOfState, TypesOfSteps
<1>4. RowInv'
  BY <1>1, <1>2 DEF FieldTypes, RowInv
<1>5. HolderInv'
  BY <1>1, <1>2 DEF FieldTypes, HolderInv
<1>6. OrdinalInv'
  BY <1>1, <1>2 DEF FieldTypes, OrdinalInv
<1>7. LoneAttempt'
  BY <1>1, <1>2 DEF FieldTypes, LoneAttempt
<1>8. CallsMatch'
  BY <1>1, <1>2 DEF FieldTypes, CallsMatch, KeyOf
<1>9. PayoutInv'
  BY <1>1, <1>2 DEF FieldTypes, PayoutInv, HoldsEscrow
<1>10. SettlementInv'
  BY <1>1, <1>2 DEF FieldTypes, SettlementInv, KeyOf
<1>11. PaidInv'
  BY <1>1, <1>2 DEF FieldTypes, PaidInv, UnwindsFromCreated
<1>12. StampedIsDone'
  BY <1>1, <1>2 DEF FieldTypes, StampedIsDone
<1>13. PaidIsNotRefunded'
  BY <1>1, <1>2 DEF FieldTypes, PaidIsNotRefunded
<1> QED
  BY <1>3, <1>4, <1>5, <1>6, <1>7, <1>8, <1>9, <1>10, <1>11, <1>12, <1>13

\* A worker that has no call under way may end at any step.
LEMMA RestKeeps ==
  ASSUME IInv, NEW w \in Callers, job[w].step \notin {"posting", "settling"}, Done(w),
         UNCHANGED <<call, queued, book, trade, dispute, paid, left, holder, told, crashes>>
  PROVE  IInv'
<1> USE DEF IInv
<1>1. /\ Rests(w)
  BY DoneRests DEF TypeOK
<1>2. FieldTypes
  BY TypesOfFields
<1>3. TypeOK'
  BY <1>1, TypesOfState, TypesOfSteps
<1>4. RowInv' /\ HolderInv' /\ LoneAttempt' /\ PayoutInv' /\ SettlementInv'
      /\ PaidInv' /\ StampedIsDone' /\ PaidIsNotRefunded'
  BY <1>1, <1>2 DEF FieldTypes, RowInv, HolderInv, LoneAttempt, PayoutInv, HoldsEscrow,
    SettlementInv, KeyOf, PaidInv, UnwindsFromCreated, StampedIsDone, PaidIsNotRefunded
<1>5. OrdinalInv'
  BY <1>1, <1>2 DEF FieldTypes, OrdinalInv
<1>6. CallsMatch'
  BY <1>1, <1>2 DEF FieldTypes, CallsMatch, KeyOf
<1> QED
  BY <1>3, <1>4, <1>5, <1>6

\* The unwind goes on with the status it finds; an order marked paid is among them only after a race.
LEMMA EscrowLockMootKeeps ==
  ASSUME IInv, NEW w \in Callers, EscrowLockMoot(w), job[w].unwinds
  PROVE  IInv'
<1> USE DEF IInv
<1>1. /\ At(w, "lock") /\ job[w].unwinds
      /\ OneJob(w)
      /\ job'[w].step = "decide" /\ job'[w].unwinds
      /\ job'[w].expect = trade.status /\ job'[w].ordinal = job[w].ordinal
      /\ UNCHANGED <<call, queued, book, trade, dispute, paid, left, holder, told, crashes>>
  BY KnownGets DEF EscrowLockMoot, rows, postVars, TypeOK, TradeType
<1>2. FieldTypes
  BY TypesOfFields
<1>3. TypeOK'
  BY <1>1, TypesOfState, TypesOfSteps
<1>4. RowInv' /\ HolderInv' /\ LoneAttempt' /\ CallsMatch' /\ PayoutInv'
      /\ SettlementInv' /\ StampedIsDone' /\ PaidIsNotRefunded'
  BY <1>1, <1>2 DEF FieldTypes, RowInv, HolderInv, LoneAttempt, CallsMatch, KeyOf, PayoutInv,
    HoldsEscrow, SettlementInv, StampedIsDone, PaidIsNotRefunded
<1>5. OrdinalInv'
  BY <1>1, <1>2 DEF FieldTypes, OrdinalInv
<1>6. PaidInv'
  BY <1>1, <1>2 DEF FieldTypes, PaidInv, UnwindsFromCreated
<1> QED
  BY <1>3, <1>4, <1>5, <1>6

\* The lock is booked before the row says so.
LEMMA EscrowLockedKeeps ==
  ASSUME IInv, NEW w \in Callers, EscrowLocked(w)
  PROVE  IInv'
<1> USE DEF IInv
<1>1. /\ At(w, "posting") /\ call[w].st = "ok"
      /\ Hangs(w)
      /\ Becomes("escrowed", trade.resolution)
      /\ holder' = NoWorker
      /\ OneJob(w)
      /\ \/ job'[w] = Idle
         \/ /\ job'[w].step = "decide" /\ job'[w].unwinds
            /\ job'[w].expect = "escrowed" /\ job'[w].ordinal = job[w].ordinal
      /\ UNCHANGED <<dispute, paid, left, told, crashes>>
  BY LetGoHangs, StatusBecomes, KnownGets, DoneRests DEF EscrowLocked, Statuses, CallsMatch
<1>2. FieldTypes
  BY TypesOfFields
<1>3. TypeOK'
  BY <1>1, TypesOfState, TypesOfSteps
<1>4. HolderInv' /\ OrdinalInv' /\ LoneAttempt' /\ CallsMatch' /\ SettlementInv'
      /\ StampedIsDone' /\ PaidIsNotRefunded'
  <2>1. HolderInv'
    BY <1>1, <1>2 DEF FieldTypes, HolderInv
  <2>2. OrdinalInv'
    BY <1>1, <1>2 DEF FieldTypes, OrdinalInv
  <2>3. LoneAttempt'
    BY <1>1, <1>2 DEF FieldTypes, LoneAttempt
  <2>4. CallsMatch'
    BY <1>1, <1>2 DEF FieldTypes, CallsMatch, KeyOf
  <2>5. SettlementInv'
    BY <1>1, <1>2 DEF FieldTypes, KeyOf, SettlementInv
  <2>6. StampedIsDone'
    BY <1>1, <1>2 DEF FieldTypes, StampedIsDone
  <2>7. PaidIsNotRefunded'
    BY <1>1, <1>2 DEF FieldTypes, PaidIsNotRefunded
  <2> QED
    BY <2>1, <2>2, <2>3, <2>4, <2>5, <2>6, <2>7
<1>5. RowInv'
  BY <1>1, <1>2 DEF FieldTypes, RowInv, HolderInv
<1>6. PayoutInv'
  BY <1>1, <1>2 DEF FieldTypes, PayoutInv, HoldsEscrow, CallsMatch, KeyOf
<1>7. PaidInv'
  BY <1>1, <1>2 DEF FieldTypes, PaidInv, UnwindsFromCreated, HolderInv
<1> QED
  BY <1>3, <1>4, <1>5, <1>6, <1>7

\* The first and only attempt was refused: no lock is booked and none is on its way.
LEMMA EscrowLockRefusedKeeps ==
  ASSUME IInv, NEW w \in Callers, EscrowLockRefused(w)
  PROVE  IInv'
<1> USE DEF IInv
<1>1. /\ At(w, "posting") /\ call[w].st = "err" /\ call[w].err = "refused"
      /\ job[w].ordinal = 1 /\ trade.attempts = 1
      /\ Hangs(w)
      /\ Becomes("cancelled", "voided") /\ left' \in 0 .. Total
      /\ holder' = NoWorker
      /\ OneJob(w) /\ job'[w].step = "settle" /\ ~job'[w].unwinds /\ job'[w].ordinal = 0
      /\ UNCHANGED <<dispute, paid, told, crashes>>
  BY LetGoHangs, DecisionBecomes, NewJobs DEF EscrowLockRefused, Voids, Statuses, Resolutions,
    Steps, Idle
<1>2. FieldTypes
  BY TypesOfFields
<1>3. TypeOK'
  BY <1>1, TypesOfState, TypesOfSteps
<1>4. HolderInv' /\ OrdinalInv' /\ LoneAttempt' /\ SettlementInv' /\ PaidInv'
      /\ StampedIsDone' /\ PaidIsNotRefunded'
  BY <1>1, <1>2 DEF FieldTypes, HolderInv, OrdinalInv, LoneAttempt, SettlementInv, KeyOf,
    PaidInv, UnwindsFromCreated, StampedIsDone, PaidIsNotRefunded
<1>5. RowInv'
  BY <1>1, <1>2 DEF FieldTypes, RowInv, LoneAttempt, PayoutInv, HoldsEscrow
<1>6. CallsMatch'
  BY <1>1, <1>2 DEF FieldTypes, CallsMatch, KeyOf, LoneAttempt, PayoutInv, HoldsEscrow
<1>7. PayoutInv'
  BY <1>1, <1>2 DEF FieldTypes, PayoutInv, HoldsEscrow, LoneAttempt
<1> QED
  BY <1>3, <1>4, <1>5, <1>6, <1>7

\* A post whose outcome is not known, or whose worker dies: what it sent may be booked at any later time.
LEMMA LetsGoKeeps ==
  ASSUME IInv, NEW w \in Callers, job[w].step \in {"posting", "settling"}, LetGo(w), Done(w),
         holder' = IF holder = w THEN NoWorker ELSE holder, UNCHANGED <<trade, dispute, paid, left, told>>, crashes' \in 0 .. MaxCrashes
  PROVE  IInv'
<1> USE DEF IInv
<1>1. /\ Hangs(w)
      /\ Rests(w)
  BY LetGoHangs, DoneRests DEF CallsMatch, KeyOf
<1>2. FieldTypes
  BY TypesOfFields
<1>3. TypeOK'
  BY <1>1, TypesOfState, TypesOfSteps
<1>4. HolderInv' /\ SettlementInv' /\ PaidInv' /\ StampedIsDone' /\ PaidIsNotRefunded'
  BY <1>1, <1>2 DEF FieldTypes, HolderInv, SettlementInv, KeyOf, PaidInv, UnwindsFromCreated,
    StampedIsDone, PaidIsNotRefunded
<1>5. RowInv'
  BY <1>1, <1>2 DEF FieldTypes, RowInv, OrdinalInv, CallsMatch, KeyOf
<1>6. OrdinalInv'
  BY <1>1, <1>2 DEF FieldTypes, OrdinalInv
<1>7. LoneAttempt'
  BY <1>1, <1>2 DEF FieldTypes, LoneAttempt, OrdinalInv, CallsMatch, KeyOf
<1>8. CallsMatch'
  BY <1>1, <1>2 DEF FieldTypes, CallsMatch, KeyOf
<1>9. PayoutInv'
  BY <1>1, <1>2 DEF FieldTypes, PayoutInv, HoldsEscrow, RowInv, HolderInv, CallsMatch, KeyOf
<1> QED
  BY <1>3, <1>4, <1>5, <1>6, <1>7, <1>8, <1>9

LEMMA ConfirmFiatReceivedKeeps ==
  ASSUME IInv, NEW w \in Callers, ConfirmFiatReceived(w)
  PROVE  IInv'
<1> USE DEF IInv
<1>1. /\ At(w, "idle")
      /\ Moves(w, "confirm")
      /\ UNCHANGED <<call, queued, book, trade, dispute, paid, left, holder, told, crashes>>
  BY GoMoves DEF ConfirmFiatReceived, rows, postVars, Steps
<1>2. FieldTypes
  BY TypesOfFields
<1>3. TypeOK'
  BY <1>1, TypesOfState, TypesOfSteps
<1>4. RowInv' /\ HolderInv' /\ OrdinalInv' /\ LoneAttempt' /\ CallsMatch'
      /\ PayoutInv' /\ SettlementInv' /\ PaidInv' /\ StampedIsDone' /\ PaidIsNotRefunded'
  <2>1. RowInv'
    BY <1>1, <1>2 DEF FieldTypes, RowInv
  <2>2. HolderInv'
    BY <1>1, <1>2 DEF FieldTypes, HolderInv
  <2>3. OrdinalInv'
    BY <1>1, <1>2 DEF FieldTypes, OrdinalInv
  <2>4. LoneAttempt'
    BY <1>1, <1>2 DEF FieldTypes, LoneAttempt
  <2>5. CallsMatch'
    BY <1>1, <1>2 DEF FieldTypes, CallsMatch, KeyOf
  <2>6. PayoutInv'
    BY <1>1, <1>2 DEF FieldTypes, PayoutInv, HoldsEscrow
  <2>7. SettlementInv'
    BY <1>1, <1>2 DEF FieldTypes, KeyOf, SettlementInv
  <2>8. PaidInv'
    BY <1>1, <1>2 DEF FieldTypes, PaidInv, UnwindsFromCreated
  <2>9. StampedIsDone'
    BY <1>1, <1>2 DEF FieldTypes, StampedIsDone
  <2>10. PaidIsNotRefunded'
    BY <1>1, <1>2 DEF FieldTypes, PaidIsNotRefunded
  <2> QED
    BY <2>1, <2>2, <2>3, <2>4, <2>5, <2>6, <2>7, <2>8, <2>9, <2>10
<1> QED
  BY <1>3, <1>4

\* A release is decided once, of an order that has its lock booked and is not in dispute.
LEMMA ReleaseKeeps ==
  ASSUME IInv, NEW w \in Callers, Release(w),
         "released" \in Edges[trade.status] /\ HoldsEscrow(trade.status) /\ Ruled
  PROVE  IInv'
<1> USE DEF IInv
<1>1. /\ At(w, "confirm") /\ Free /\ trade.status \in {"escrowed", "fiat_sent"}
      /\ Becomes("released", "released") /\ left' \in 0 .. Total
      /\ Moves(w, "settle")
      /\ UNCHANGED <<call, queued, book, dispute, paid, holder, told, crashes>>
  BY GoMoves, DecisionBecomes DEF Release, Edges, HoldsEscrow, Ruled, RowInv, postVars,
    Statuses, Resolutions, Steps
<1>2. FieldTypes
  BY TypesOfFields
<1>3. TypeOK'
  BY <1>1, TypesOfState, TypesOfSteps
<1>4. RowInv' /\ HolderInv' /\ OrdinalInv' /\ LoneAttempt' /\ PaidInv' /\ PaidIsNotRefunded'
  BY <1>1, <1>2 DEF FieldTypes, RowInv, HolderInv, OrdinalInv, LoneAttempt, PaidInv,
    UnwindsFromCreated, PaidIsNotRefunded
<1>5. CallsMatch'
  BY <1>1, <1>2 DEF FieldTypes, CallsMatch, KeyOf, RowInv
<1>6. PayoutInv'
  BY <1>1, <1>2 DEF FieldTypes, PayoutInv, HoldsEscrow, RowInv
<1>7. SettlementInv'
  BY <1>1, <1>2 DEF FieldTypes, SettlementInv, KeyOf, RowInv
<1>8. StampedIsDone'
  BY <1>1, <1>2 DEF FieldTypes, StampedIsDone, RowInv
<1> QED
  BY <1>3, <1>4, <1>5, <1>6, <1>7, <1>8

LEMMA UnwindCreatedKeeps ==
  ASSUME IInv, NEW w \in Callers, Unwind(w), trade.status = "created"
  PROVE  IInv'
<1> USE DEF IInv
<1>1. /\ At(w, "idle") /\ trade.status = "created"
      /\ OneJob(w)
      /\ job'[w].step = "claim" /\ job'[w].unwinds /\ job'[w].expect = "none" /\ job'[w].ordinal = 0
      /\ UNCHANGED <<call, queued, book, trade, dispute, paid, left, holder, told, crashes>>
  BY NewJobs DEF Unwind, rows, postVars, Steps, Statuses, Idle
<1>2. FieldTypes
  BY TypesOfFields
<1>3. TypeOK'
  BY <1>1, TypesOfState, TypesOfSteps
<1>4. RowInv' /\ HolderInv' /\ OrdinalInv' /\ LoneAttempt' /\ CallsMatch'
      /\ PayoutInv' /\ SettlementInv' /\ PaidInv' /\ StampedIsDone' /\ PaidIsNotRefunded'
  BY <1>1, <1>2 DEF FieldTypes, RowInv, HolderInv, OrdinalInv, LoneAttempt, CallsMatch, KeyOf,
    PayoutInv, HoldsEscrow, SettlementInv, PaidInv, UnwindsFromCreated, StampedIsDone,
    PaidIsNotRefunded
<1> QED
  BY <1>3, <1>4

LEMMA UnwindEscrowedKeeps ==
  ASSUME IInv, NEW w \in Callers, Unwind(w), trade.status # "created"
  PROVE  IInv'
<1> USE DEF IInv
<1>1. /\ At(w, "idle") /\ trade.status = "escrowed"
      /\ OneJob(w)
      /\ job'[w].step = "decide" /\ job'[w].unwinds
      /\ job'[w].expect = "escrowed" /\ job'[w].ordinal = 0
      /\ UNCHANGED <<call, queued, book, trade, dispute, paid, left, holder, told, crashes>>
  BY NewJobs DEF Unwind, rows, postVars, Steps, Statuses, Idle
<1>2. FieldTypes
  BY TypesOfFields
<1>3. TypeOK'
  BY <1>1, TypesOfState, TypesOfSteps
<1>4. RowInv' /\ HolderInv' /\ OrdinalInv' /\ LoneAttempt' /\ CallsMatch'
      /\ PayoutInv' /\ SettlementInv' /\ PaidInv' /\ StampedIsDone' /\ PaidIsNotRefunded'
  <2>1. RowInv'
    BY <1>1, <1>2 DEF FieldTypes, RowInv
  <2>2. HolderInv'
    BY <1>1, <1>2 DEF FieldTypes, HolderInv
  <2>3. OrdinalInv'
    BY <1>1, <1>2 DEF FieldTypes, OrdinalInv
  <2>4. LoneAttempt'
    BY <1>1, <1>2 DEF FieldTypes, LoneAttempt
  <2>5. CallsMatch'
    BY <1>1, <1>2 DEF FieldTypes, CallsMatch, KeyOf
  <2>6. PayoutInv'
    BY <1>1, <1>2 DEF FieldTypes, PayoutInv, HoldsEscrow
  <2>7. SettlementInv'
    BY <1>1, <1>2 DEF FieldTypes, KeyOf, SettlementInv
  <2>8. PaidInv'
    BY <1>1, <1>2 DEF FieldTypes, PaidInv, UnwindsFromCreated
  <2>9. StampedIsDone'
    BY <1>1, <1>2 DEF FieldTypes, StampedIsDone
  <2>10. PaidIsNotRefunded'
    BY <1>1, <1>2 DEF FieldTypes, PaidIsNotRefunded
  <2> QED
    BY <2>1, <2>2, <2>3, <2>4, <2>5, <2>6, <2>7, <2>8, <2>9, <2>10
<1> QED
  BY <1>3, <1>4

\* A refund is decided of the status the decision was made on, and that is not paid unless an unwind raced the mark.
LEMMA RefundKeeps ==
  ASSUME IInv, NEW w \in Callers, Refund(w), AsExpected(w) /\ HoldsEscrow(trade.status) /\ Ruled
  PROVE  IInv'
<1> USE DEF IInv
<1>1. /\ At(w, "decide") /\ Free /\ trade.status \in {"escrowed", "fiat_sent"}
      /\ trade.status = job[w].expect
      /\ Becomes("cancelled", "refunded") /\ left' \in 0 .. Total
      /\ Moves(w, "settle")
      /\ UNCHANGED <<call, queued, book, dispute, paid, holder, told, crashes>>
  BY GoMoves, DecisionBecomes DEF Refund, AsExpected, Edges, HoldsEscrow, Ruled, RowInv,
    postVars, Statuses, Resolutions, Steps
<1>2. FieldTypes
  BY TypesOfFields
<1>3. TypeOK'
  BY <1>1, TypesOfState, TypesOfSteps
<1>4. RowInv' /\ HolderInv' /\ OrdinalInv' /\ LoneAttempt' /\ PaidInv'
  BY <1>1, <1>2 DEF FieldTypes, RowInv, HolderInv, OrdinalInv, LoneAttempt, PaidInv,
    UnwindsFromCreated
<1>5. CallsMatch'
  BY <1>1, <1>2 DEF FieldTypes, CallsMatch, KeyOf, RowInv
<1>6. PayoutInv'
  BY <1>1, <1>2 DEF FieldTypes, PayoutInv, HoldsEscrow, RowInv
<1>7. SettlementInv'
  BY <1>1, <1>2 DEF FieldTypes, SettlementInv, KeyOf, RowInv
<1>8. StampedIsDone'
  BY <1>1, <1>2 DEF FieldTypes, StampedIsDone, RowInv
<1>9. PaidIsNotRefunded'
  BY <1>1, <1>2 DEF FieldTypes, PaidIsNotRefunded, PaidInv, UnwindsFromCreated
<1> QED
  BY <1>3, <1>4, <1>5, <1>6, <1>7, <1>8, <1>9

\* A ruling ends the dispute and the trade at once.
LEMMA ResolveDisputeKeeps ==
  ASSUME IInv, NEW w \in Callers, ResolveDispute(w)
  PROVE  IInv'
<1> USE DEF IInv
<1>1. /\ At(w, "idle") /\ Free /\ trade.status = "disputed" /\ dispute = "open"
      /\ dispute' = "resolved"
      /\ Becomes("released", "released") \/ Becomes("cancelled", "refunded")
      /\ left' \in 0 .. Total
      /\ Moves(w, "settle") \/ Rests(w)
      /\ trade.resolution = "none" /\ ~trade.settled
      /\ UNCHANGED <<call, queued, book, paid, holder, told, crashes>>
  BY GoMoves, DoneRests, DecisionBecomes DEF ResolveDispute, RowInv, postVars, Statuses,
    Resolutions, Steps
<1>2. FieldTypes
  BY TypesOfFields
<1>3. TypeOK'
  BY <1>1, TypesOfState, TypesOfSteps
<1>4. RowInv' /\ HolderInv' /\ OrdinalInv' /\ LoneAttempt' /\ PaidInv' /\ PaidIsNotRefunded'
  BY <1>1, <1>2 DEF FieldTypes, RowInv, HolderInv, OrdinalInv, LoneAttempt, PaidInv,
    UnwindsFromCreated, PaidIsNotRefunded
<1>5. CallsMatch'
  BY <1>1, <1>2 DEF FieldTypes, CallsMatch, KeyOf, RowInv
<1>6. PayoutInv'
  BY <1>1, <1>2 DEF FieldTypes, PayoutInv, HoldsEscrow, RowInv
<1>7. SettlementInv'
  BY <1>1, <1>2 DEF FieldTypes, SettlementInv, KeyOf, RowInv
<1>8. StampedIsDone'
  BY <1>1, <1>2 DEF FieldTypes, StampedIsDone
<1> QED
  BY <1>3, <1>4, <1>5, <1>6, <1>7, <1>8

LEMMA SweepSettlementsKeeps ==
  ASSUME IInv, NEW w \in Callers, SweepSettlements(w)
  PROVE  IInv'
<1> USE DEF IInv
<1>1. /\ At(w, "idle") /\ trade.resolution # "none"
      /\ Moves(w, "settle")
      /\ UNCHANGED <<call, queued, book, trade, dispute, paid, left, holder, told, crashes>>
  BY GoMoves DEF SweepSettlements, rows, postVars, Steps
<1>2. FieldTypes
  BY TypesOfFields
<1>3. TypeOK'
  BY <1>1, TypesOfState, TypesOfSteps
<1>4. RowInv' /\ HolderInv' /\ OrdinalInv' /\ LoneAttempt' /\ CallsMatch'
      /\ PayoutInv' /\ SettlementInv' /\ PaidInv' /\ StampedIsDone' /\ PaidIsNotRefunded'
  <2>1. RowInv' /\ HolderInv' /\ OrdinalInv' /\ LoneAttempt'
    BY <1>1, <1>2 DEF FieldTypes, RowInv, HolderInv, OrdinalInv, LoneAttempt
  <2>2. CallsMatch' /\ PayoutInv' /\ SettlementInv' /\ PaidInv'
    BY <1>1, <1>2 DEF FieldTypes, CallsMatch, KeyOf, PayoutInv, HoldsEscrow, SettlementInv, PaidInv,
       UnwindsFromCreated
  <2>3. StampedIsDone' /\ PaidIsNotRefunded'
    BY <1>1, <1>2 DEF FieldTypes, StampedIsDone, PaidIsNotRefunded
  <2> QED
    BY <2>1, <2>2, <2>3
<1> QED
  BY <1>3, <1>4

LEMMA SettleVoidKeeps ==
  ASSUME IInv, NEW w \in Callers, Settle(w), Go(w, "tell"), trade.resolution = "voided",
         UNCHANGED postVars
  PROVE  IInv'
<1> USE DEF IInv
<1>1. /\ At(w, "settle") /\ trade.resolution = "voided"
      /\ Moves(w, "tell")
      /\ UNCHANGED <<call, queued, book, trade, dispute, paid, left, holder, told, crashes>>
  BY GoMoves DEF Settle, rows, postVars, Steps
<1>2. FieldTypes
  BY TypesOfFields
<1>3. TypeOK'
  BY <1>1, TypesOfState, TypesOfSteps
<1>4. RowInv' /\ HolderInv' /\ OrdinalInv' /\ LoneAttempt' /\ CallsMatch'
      /\ PayoutInv' /\ SettlementInv' /\ PaidInv' /\ StampedIsDone' /\ PaidIsNotRefunded'
  <2>1. RowInv'
    BY <1>1, <1>2 DEF FieldTypes, RowInv
  <2>2. HolderInv'
    BY <1>1, <1>2 DEF FieldTypes, HolderInv
  <2>3. OrdinalInv'
    BY <1>1, <1>2 DEF FieldTypes, OrdinalInv
  <2>4. LoneAttempt'
    BY <1>1, <1>2 DEF FieldTypes, LoneAttempt
  <2>5. CallsMatch'
    BY <1>1, <1>2 DEF FieldTypes, CallsMatch, KeyOf
  <2>6. PayoutInv'
    BY <1>1, <1>2 DEF FieldTypes, PayoutInv, HoldsEscrow
  <2>7. SettlementInv'
    BY <1>1, <1>2 DEF FieldTypes, KeyOf, SettlementInv
  <2>8. PaidInv'
    BY <1>1, <1>2 DEF FieldTypes, PaidInv, UnwindsFromCreated
  <2>9. StampedIsDone'
    BY <1>1, <1>2 DEF FieldTypes, StampedIsDone
  <2>10. PaidIsNotRefunded'
    BY <1>1, <1>2 DEF FieldTypes, PaidIsNotRefunded
  <2> QED
    BY <2>1, <2>2, <2>3, <2>4, <2>5, <2>6, <2>7, <2>8, <2>9, <2>10
<1> QED
  BY <1>3, <1>4

\* A settlement posts what was decided.
LEMMA SettlePostKeeps ==
  ASSUME IInv, NEW w \in Callers, Settle(w), BeginPost(w, KeyOf(trade.resolution)), Go(w, "settling"),
         trade.resolution \in {"released", "refunded"}
  PROVE  IInv'
<1> USE DEF IInv
<1>1. /\ At(w, "settle") /\ trade.resolution \in {"released", "refunded"}
      /\ Posts(w, KeyOf(trade.resolution))
      /\ Moves(w, "settling")
      /\ UNCHANGED <<trade, dispute, paid, left, holder, told, crashes>>
  BY GoMoves, BeginPostPosts DEF Settle, rows, KeyOf, Steps
<1>2. FieldTypes
  BY TypesOfFields
<1>3. TypeOK'
  BY <1>1, TypesOfState, TypesOfSteps
<1>4. RowInv' /\ HolderInv' /\ OrdinalInv' /\ LoneAttempt' /\ CallsMatch'
      /\ PayoutInv' /\ SettlementInv' /\ PaidInv' /\ StampedIsDone' /\ PaidIsNotRefunded'
  <2>1. RowInv' /\ HolderInv' /\ OrdinalInv' /\ LoneAttempt'
    BY <1>1, <1>2 DEF FieldTypes, RowInv, HolderInv, OrdinalInv, LoneAttempt
  <2>2. CallsMatch' /\ PayoutInv' /\ SettlementInv' /\ PaidInv'
    BY <1>1, <1>2 DEF FieldTypes, CallsMatch, KeyOf, PayoutInv, HoldsEscrow, SettlementInv, PaidInv,
       UnwindsFromCreated
  <2>3. StampedIsDone' /\ PaidIsNotRefunded'
    BY <1>1, <1>2 DEF FieldTypes, StampedIsDone, PaidIsNotRefunded
  <2> QED
    BY <2>1, <2>2, <2>3
<1> QED
  BY <1>3, <1>4

LEMMA SettlePostedKeeps ==
  ASSUME IInv, NEW w \in Callers, SettlePosted(w), call[w].st = "ok"
  PROVE  IInv'
<1> USE DEF IInv
<1>1. /\ At(w, "settling") /\ call[w].st = "ok"
      /\ Hangs(w)
      /\ Moves(w, "tell")
      /\ UNCHANGED <<trade, dispute, paid, left, holder, told, crashes>>
  BY GoMoves, LetGoHangs DEF SettlePosted, rows, Steps
<1>2. FieldTypes
  BY TypesOfFields
<1>3. TypeOK'
  BY <1>1, TypesOfState, TypesOfSteps
<1>4. RowInv' /\ HolderInv' /\ OrdinalInv' /\ LoneAttempt' /\ CallsMatch'
      /\ PayoutInv' /\ PaidInv' /\ StampedIsDone' /\ PaidIsNotRefunded'
  <2>1. RowInv'
    BY <1>1, <1>2 DEF FieldTypes, RowInv
  <2>2. HolderInv'
    BY <1>1, <1>2 DEF FieldTypes, HolderInv
  <2>3. OrdinalInv'
    BY <1>1, <1>2 DEF FieldTypes, OrdinalInv
  <2>4. LoneAttempt'
    BY <1>1, <1>2 DEF FieldTypes, LoneAttempt
  <2>5. CallsMatch'
    BY <1>1, <1>2 DEF FieldTypes, CallsMatch, KeyOf
  <2>6. PayoutInv'
    BY <1>1, <1>2 DEF FieldTypes, PayoutInv, HoldsEscrow
  <2>7. PaidInv'
    BY <1>1, <1>2 DEF FieldTypes, PaidInv, UnwindsFromCreated
  <2>8. StampedIsDone'
    BY <1>1, <1>2 DEF FieldTypes, StampedIsDone
  <2>9. PaidIsNotRefunded'
    BY <1>1, <1>2 DEF FieldTypes, PaidIsNotRefunded
  <2> QED
    BY <2>1, <2>2, <2>3, <2>4, <2>5, <2>6, <2>7, <2>8, <2>9
<1>5. SettlementInv'
  BY <1>1, <1>2 DEF FieldTypes, SettlementInv, KeyOf, CallsMatch
<1> QED
  BY <1>3, <1>4, <1>5

LEMMA AnnounceSettlementKeeps ==
  ASSUME IInv, NEW w \in Callers, AnnounceSettlement(w)
  PROVE  IInv'
<1> USE DEF IInv
<1>1. /\ At(w, "tell")
      /\ told' = IF trade.resolution = "voided" THEN told ELSE told \cup {trade.resolution}
      /\ told' \subseteq Resolutions
      /\ Moves(w, "stamp")
      /\ UNCHANGED <<call, queued, book, trade, dispute, paid, left, holder, crashes>>
  BY GoMoves, TypesOfFields DEF AnnounceSettlement, rows, postVars, Steps, TypeOK, FieldTypes,
    Resolutions, SettlementInv
<1>2. FieldTypes
  BY TypesOfFields
<1>3. TypeOK'
  BY <1>1, TypesOfState, TypesOfSteps
<1>4. RowInv' /\ HolderInv' /\ OrdinalInv' /\ LoneAttempt' /\ CallsMatch'
      /\ PayoutInv' /\ SettlementInv' /\ PaidInv' /\ StampedIsDone' /\ PaidIsNotRefunded'
  <2>1. RowInv' /\ HolderInv' /\ OrdinalInv' /\ LoneAttempt'
    BY <1>1, <1>2 DEF FieldTypes, RowInv, HolderInv, OrdinalInv, LoneAttempt
  <2>2. CallsMatch' /\ PayoutInv' /\ SettlementInv' /\ PaidInv'
    BY <1>1, <1>2 DEF FieldTypes, CallsMatch, KeyOf, PayoutInv, HoldsEscrow, SettlementInv, PaidInv,
       UnwindsFromCreated
  <2>3. StampedIsDone' /\ PaidIsNotRefunded'
    BY <1>1, <1>2 DEF FieldTypes, StampedIsDone, PaidIsNotRefunded
  <2> QED
    BY <2>1, <2>2, <2>3
<1> QED
  BY <1>3, <1>4

\* A stamp comes after the post and the announcement.
LEMMA StampKeeps ==
  ASSUME IInv, NEW w \in Callers, Stamp(w)
  PROVE  IInv'
<1> USE DEF IInv
<1>1. /\ At(w, "stamp")
      /\ trade' \in TradeType
      /\ trade'.status = trade.status /\ trade'.resolution = trade.resolution
      /\ trade'.attempts = trade.attempts /\ trade'.settled
      /\ Rests(w)
      /\ UNCHANGED <<call, queued, book, dispute, paid, left, holder, told, crashes>>
  BY DoneRests DEF Stamp, postVars, TypeOK, TradeType
<1>2. FieldTypes
  BY TypesOfFields
<1>3. TypeOK'
  BY <1>1, TypesOfState, TypesOfSteps
<1>4. HolderInv' /\ LoneAttempt' /\ PayoutInv' /\ SettlementInv' /\ PaidInv' /\ PaidIsNotRefunded'
  BY <1>1, <1>2 DEF FieldTypes, HolderInv, LoneAttempt, PayoutInv, HoldsEscrow, SettlementInv,
    KeyOf, PaidInv, UnwindsFromCreated, PaidIsNotRefunded
<1>5. RowInv'
  BY <1>1, <1>2 DEF FieldTypes, RowInv, SettlementInv, KeyOf
<1>6. OrdinalInv'
  BY <1>1, <1>2 DEF FieldTypes, OrdinalInv
<1>7. CallsMatch'
  BY <1>1, <1>2 DEF FieldTypes, CallsMatch, KeyOf
<1>8. StampedIsDone'
  BY <1>1, <1>2 DEF FieldTypes, StampedIsDone, SettlementInv, KeyOf
<1> QED
  BY <1>3, <1>4, <1>5, <1>6, <1>7, <1>8

\* An order is marked paid out of escrow, so no decision has read it as paid.
LEMMA MarkFiatSentKeeps ==
  ASSUME IInv, MarkFiatSent
  PROVE  IInv'
<1> USE DEF IInv
<1>1. /\ Free /\ trade.status = "escrowed"
      /\ Becomes("fiat_sent", trade.resolution)
      /\ paid' = IF UnwindsFromCreated THEN "raced" ELSE "yes"
      /\ UNCHANGED <<call, queued, book, dispute, left, job, holder, told, crashes>>
  BY StatusBecomes DEF MarkFiatSent, Edges, postVars, TypeOK, Statuses
<1>2. FieldTypes
  BY TypesOfFields
<1>3. TypeOK'
  BY <1>1, TypesOfState, TypesOfSteps
<1>4. RowInv' /\ HolderInv' /\ OrdinalInv' /\ LoneAttempt' /\ CallsMatch'
      /\ PayoutInv' /\ SettlementInv' /\ PaidInv' /\ StampedIsDone'
  <2>1. RowInv'
    BY <1>1, <1>2 DEF FieldTypes, RowInv
  <2>2. HolderInv'
    BY <1>1, <1>2 DEF FieldTypes, HolderInv
  <2>3. OrdinalInv'
    BY <1>1, <1>2 DEF FieldTypes, OrdinalInv
  <2>4. LoneAttempt'
    BY <1>1, <1>2 DEF FieldTypes, LoneAttempt
  <2>5. CallsMatch'
    BY <1>1, <1>2 DEF FieldTypes, CallsMatch, KeyOf
  <2>6. PayoutInv'
    BY <1>1, <1>2 DEF FieldTypes, PayoutInv, HoldsEscrow
  <2>7. SettlementInv'
    BY <1>1, <1>2 DEF FieldTypes, KeyOf, SettlementInv
  <2>8. PaidInv'
    BY <1>1, <1>2 DEF FieldTypes, PaidInv, UnwindsFromCreated
  <2>9. StampedIsDone'
    BY <1>1, <1>2 DEF FieldTypes, StampedIsDone
  <2> QED
    BY <2>1, <2>2, <2>3, <2>4, <2>5, <2>6, <2>7, <2>8, <2>9
<1>5. PaidIsNotRefunded'
  BY <1>1, <1>2 DEF FieldTypes, PaidIsNotRefunded, RowInv
<1> QED
  BY <1>3, <1>4, <1>5

LEMMA OpenDisputeKeeps ==
  ASSUME IInv, OpenDispute
  PROVE  IInv'
<1> USE DEF IInv
<1>1. /\ Free /\ trade.status \in {"escrowed", "fiat_sent"} /\ dispute = "none"
      /\ dispute' = "open"
      /\ Becomes("disputed", trade.resolution)
      /\ UNCHANGED <<call, queued, book, paid, left, job, holder, told, crashes>>
  BY StatusBecomes DEF OpenDispute, Edges, postVars, TypeOK, Statuses
<1>2. FieldTypes
  BY TypesOfFields
<1>3. TypeOK'
  BY <1>1, TypesOfState, TypesOfSteps
<1>4. RowInv' /\ HolderInv' /\ OrdinalInv' /\ LoneAttempt' /\ CallsMatch'
      /\ PayoutInv' /\ SettlementInv' /\ PaidInv' /\ StampedIsDone' /\ PaidIsNotRefunded'
  BY <1>1, <1>2 DEF FieldTypes, RowInv, HolderInv, OrdinalInv, LoneAttempt, CallsMatch, KeyOf,
    PayoutInv, HoldsEscrow, SettlementInv, PaidInv, UnwindsFromCreated, StampedIsDone,
    PaidIsNotRefunded
<1> QED
  BY <1>3, <1>4

LEMMA NeverSentKeeps ==
  ASSUME IInv, NEW w \in Callers, NeverSent(w), UNCHANGED rest
  PROVE  IInv'
<1> USE DEF IInv
<1>1. /\ call[w].st = "sent"
      /\ Goes(w, "failed", "unsent")
      /\ UNCHANGED <<queued, book, trade, dispute, paid, left, job, holder, told, crashes>>
  BY CallGoes DEF NeverSent, Fail, rest, rows, TypeOK, PostTypeOK, CallType, CallStates, Errors
<1>2. FieldTypes
  BY TypesOfFields
<1>3. TypeOK'
  BY <1>1, TypesOfState, TypesOfSteps
<1>4. RowInv' /\ HolderInv' /\ OrdinalInv' /\ LoneAttempt' /\ CallsMatch'
      /\ PayoutInv' /\ SettlementInv' /\ PaidInv' /\ StampedIsDone' /\ PaidIsNotRefunded'
  <2>1. RowInv' /\ HolderInv' /\ OrdinalInv' /\ LoneAttempt'
    BY <1>1, <1>2 DEF FieldTypes, RowInv, HolderInv, OrdinalInv, LoneAttempt
  <2>2. CallsMatch' /\ PayoutInv' /\ SettlementInv' /\ PaidInv'
    BY <1>1, <1>2 DEF FieldTypes, CallsMatch, KeyOf, PayoutInv, HoldsEscrow, SettlementInv, PaidInv,
       UnwindsFromCreated
  <2>3. StampedIsDone' /\ PaidIsNotRefunded'
    BY <1>1, <1>2 DEF FieldTypes, StampedIsDone, PaidIsNotRefunded
  <2> QED
    BY <2>1, <2>2, <2>3
<1> QED
  BY <1>3, <1>4

\* An attempt nobody waits for is of a key that may be booked.
LEMMA AttemptAbandonedKeeps ==
  ASSUME IInv, NEW w \in Callers, AttemptAbandoned(w), UNCHANGED rest
  PROVE  IInv'
<1> USE DEF IInv
<1>1. /\ call[w].st = "sent"
      /\ Goes(w, "failed", "lost")
      /\ queued' = queued \cup {call[w].key}
      /\ queued' \in SUBSET Keys
      /\ UNCHANGED <<book, trade, dispute, paid, left, job, holder, told, crashes>>
  BY CallGoes DEF AttemptAbandoned, Fail, rest, rows, TypeOK, PostTypeOK, CallType, CallStates,
    Errors, CallsMatch, KeyOf
<1>2. FieldTypes
  BY TypesOfFields
<1>3. TypeOK'
  BY <1>1, TypesOfState, TypesOfSteps
<1>4. HolderInv' /\ OrdinalInv' /\ CallsMatch' /\ SettlementInv' /\ PaidInv'
      /\ StampedIsDone' /\ PaidIsNotRefunded'
  <2>1. HolderInv'
    BY <1>1, <1>2 DEF FieldTypes, HolderInv
  <2>2. OrdinalInv'
    BY <1>1, <1>2 DEF FieldTypes, OrdinalInv
  <2>3. CallsMatch'
    BY <1>1, <1>2 DEF FieldTypes, CallsMatch, KeyOf
  <2>4. SettlementInv'
    BY <1>1, <1>2 DEF FieldTypes, KeyOf, SettlementInv
  <2>5. PaidInv'
    BY <1>1, <1>2 DEF FieldTypes, PaidInv, UnwindsFromCreated
  <2>6. StampedIsDone'
    BY <1>1, <1>2 DEF FieldTypes, StampedIsDone
  <2>7. PaidIsNotRefunded'
    BY <1>1, <1>2 DEF FieldTypes, PaidIsNotRefunded
  <2> QED
    BY <2>1, <2>2, <2>3, <2>4, <2>5, <2>6, <2>7
<1>5. RowInv'
  BY <1>1, <1>2 DEF FieldTypes, RowInv, OrdinalInv, CallsMatch, KeyOf
<1>6. LoneAttempt'
  BY <1>1, <1>2 DEF FieldTypes, LoneAttempt, OrdinalInv, CallsMatch, KeyOf
<1>7. PayoutInv'
  BY <1>1, <1>2 DEF FieldTypes, PayoutInv, HoldsEscrow, RowInv, HolderInv, CallsMatch, KeyOf
<1> QED
  BY <1>3, <1>4, <1>5, <1>6, <1>7

LEMMA ReplyKeeps ==
  ASSUME IInv, NEW w \in Callers, Reply(w), UNCHANGED rest
  PROVE  IInv'
<1> USE DEF IInv
<1>1. /\ call[w].st = "answered"
      /\ Goes(w, IF call[w].err = "none" THEN "ok" ELSE "err", call[w].err)
      /\ UNCHANGED <<queued, book, trade, dispute, paid, left, job, holder, told, crashes>>
  BY CallTurns DEF Reply, rest, rows, CallStates
<1>2. FieldTypes
  BY TypesOfFields
<1>3. TypeOK'
  BY <1>1, TypesOfState, TypesOfSteps
<1>4. RowInv' /\ HolderInv' /\ OrdinalInv' /\ LoneAttempt' /\ CallsMatch'
      /\ PayoutInv' /\ SettlementInv' /\ PaidInv' /\ StampedIsDone' /\ PaidIsNotRefunded'
  <2>1. RowInv' /\ HolderInv' /\ OrdinalInv' /\ LoneAttempt'
    BY <1>1, <1>2 DEF FieldTypes, RowInv, HolderInv, OrdinalInv, LoneAttempt
  <2>2. CallsMatch' /\ PayoutInv' /\ SettlementInv' /\ PaidInv'
    BY <1>1, <1>2 DEF FieldTypes, CallsMatch, KeyOf, PayoutInv, HoldsEscrow, SettlementInv, PaidInv,
       UnwindsFromCreated
  <2>3. StampedIsDone' /\ PaidIsNotRefunded'
    BY <1>1, <1>2 DEF FieldTypes, StampedIsDone, PaidIsNotRefunded
  <2> QED
    BY <2>1, <2>2, <2>3
<1> QED
  BY <1>3, <1>4

LEMMA ReplyLostKeeps ==
  ASSUME IInv, NEW w \in Callers, ReplyLost(w), UNCHANGED rest
  PROVE  IInv'
<1> USE DEF IInv
<1>1. /\ call[w].st = "answered"
      /\ Goes(w, "failed", "lost")
      /\ UNCHANGED <<queued, book, trade, dispute, paid, left, job, holder, told, crashes>>
  BY CallGoes DEF ReplyLost, Fail, rest, rows, TypeOK, PostTypeOK, CallType, CallStates, Errors
<1>2. FieldTypes
  BY TypesOfFields
<1>3. TypeOK'
  BY <1>1, TypesOfState, TypesOfSteps
<1>4. RowInv' /\ HolderInv' /\ OrdinalInv' /\ LoneAttempt' /\ CallsMatch'
      /\ PayoutInv' /\ SettlementInv' /\ PaidInv' /\ StampedIsDone' /\ PaidIsNotRefunded'
  <2>1. RowInv' /\ HolderInv' /\ OrdinalInv' /\ LoneAttempt'
    BY <1>1, <1>2 DEF FieldTypes, RowInv, HolderInv, OrdinalInv, LoneAttempt
  <2>2. CallsMatch' /\ PayoutInv' /\ SettlementInv' /\ PaidInv'
    BY <1>1, <1>2 DEF FieldTypes, CallsMatch, KeyOf, PayoutInv, HoldsEscrow, SettlementInv, PaidInv,
       UnwindsFromCreated
  <2>3. StampedIsDone' /\ PaidIsNotRefunded'
    BY <1>1, <1>2 DEF FieldTypes, StampedIsDone, PaidIsNotRefunded
  <2> QED
    BY <2>1, <2>2, <2>3
<1> QED
  BY <1>3, <1>4

LEMMA GiveUpKeeps ==
  ASSUME IInv, NEW w \in Callers, GiveUp(w), UNCHANGED rest
  PROVE  IInv'
<1> USE DEF IInv
<1>1. /\ call[w].st = "failed"
      /\ Goes(w, "err", call[w].err)
      /\ UNCHANGED <<queued, book, trade, dispute, paid, left, job, holder, told, crashes>>
  BY CallTurns DEF GiveUp, rest, rows, CallStates
<1>2. FieldTypes
  BY TypesOfFields
<1>3. TypeOK'
  BY <1>1, TypesOfState, TypesOfSteps
<1>4. RowInv' /\ HolderInv' /\ OrdinalInv' /\ LoneAttempt' /\ CallsMatch'
      /\ PayoutInv' /\ SettlementInv' /\ PaidInv' /\ StampedIsDone' /\ PaidIsNotRefunded'
  <2>1. RowInv' /\ HolderInv' /\ OrdinalInv' /\ LoneAttempt'
    BY <1>1, <1>2 DEF FieldTypes, RowInv, HolderInv, OrdinalInv, LoneAttempt
  <2>2. CallsMatch' /\ PayoutInv' /\ SettlementInv' /\ PaidInv'
    BY <1>1, <1>2 DEF FieldTypes, CallsMatch, KeyOf, PayoutInv, HoldsEscrow, SettlementInv, PaidInv,
       UnwindsFromCreated
  <2>3. StampedIsDone' /\ PaidIsNotRefunded'
    BY <1>1, <1>2 DEF FieldTypes, StampedIsDone, PaidIsNotRefunded
  <2> QED
    BY <2>1, <2>2, <2>3
<1> QED
  BY <1>3, <1>4

\* What the ledger books was posted by a worker that may post it.
LEMMA LedgerBooksKeeps ==
  ASSUME IInv, NEW w \in Callers, LedgerBooks(w), UNCHANGED rest
  PROVE  IInv'
<1> USE DEF IInv
<1>1. /\ call[w].st = "sent"
      /\ Goes(w, "answered", call[w].err)
      /\ book' = book \cup {call[w].key}
      /\ book' \in SUBSET Keys
      /\ UNCHANGED <<queued, trade, dispute, paid, left, job, holder, told, crashes>>
  BY DEF LedgerBooks, Fail, rest, rows, TypeOK, PostTypeOK, CallType, CallStates, Errors,
    CallsMatch, KeyOf
<1>2. FieldTypes
  BY TypesOfFields
<1>3. TypeOK'
  BY <1>1, TypesOfState, TypesOfSteps
<1>4. HolderInv' /\ OrdinalInv' /\ CallsMatch' /\ SettlementInv' /\ PaidInv'
      /\ StampedIsDone' /\ PaidIsNotRefunded'
  <2>1. HolderInv' /\ OrdinalInv'
    BY <1>1, <1>2 DEF FieldTypes, HolderInv, OrdinalInv
  <2>2. CallsMatch' /\ SettlementInv'
    BY <1>1, <1>2 DEF FieldTypes, CallsMatch, KeyOf, SettlementInv
  <2>3. PaidInv' /\ StampedIsDone' /\ PaidIsNotRefunded'
    BY <1>1, <1>2 DEF FieldTypes, PaidInv, UnwindsFromCreated, StampedIsDone, PaidIsNotRefunded
  <2> QED
    BY <2>1, <2>2, <2>3
<1>5. RowInv'
  BY <1>1, <1>2 DEF FieldTypes, RowInv, OrdinalInv, CallsMatch, KeyOf
<1>6. LoneAttempt'
  BY <1>1, <1>2 DEF FieldTypes, LoneAttempt, OrdinalInv, CallsMatch, KeyOf
<1>7. PayoutInv'
  BY <1>1, <1>2 DEF FieldTypes, PayoutInv, HoldsEscrow, RowInv, HolderInv, CallsMatch, KeyOf
<1> QED
  BY <1>3, <1>4, <1>5, <1>6, <1>7

\* The engine's refusal says that the key is not in the book; a lone attempt's is not queued either.
LEMMA LedgerRefusesKeeps ==
  ASSUME IInv, NEW w \in Callers, LedgerRefuses(w), UNCHANGED rest
  PROVE  IInv'
<1> USE DEF IInv
<1>1. /\ call[w].st = "sent"
      /\ Goes(w, "answered", "refused")
      /\ call[w].key \notin book
      /\ UNCHANGED <<queued, book, trade, dispute, paid, left, job, holder, told, crashes>>
  BY CallGoes DEF LedgerRefuses, Fail, rest, rows, TypeOK, PostTypeOK, CallType, CallStates,
    Errors, CallsMatch, KeyOf
<1>2. FieldTypes
  BY TypesOfFields
<1>3. TypeOK'
  BY <1>1, TypesOfState, TypesOfSteps
<1>4. RowInv' /\ HolderInv' /\ OrdinalInv' /\ LoneAttempt' /\ CallsMatch'
      /\ PayoutInv' /\ SettlementInv' /\ PaidInv' /\ StampedIsDone' /\ PaidIsNotRefunded'
  <2>1. RowInv' /\ HolderInv' /\ OrdinalInv' /\ LoneAttempt'
    BY <1>1, <1>2 DEF FieldTypes, RowInv, HolderInv, OrdinalInv, LoneAttempt
  <2>2. CallsMatch' /\ PayoutInv' /\ SettlementInv' /\ PaidInv'
    BY <1>1, <1>2 DEF FieldTypes, CallsMatch, KeyOf, PayoutInv, HoldsEscrow, SettlementInv, PaidInv,
       UnwindsFromCreated
  <2>3. StampedIsDone' /\ PaidIsNotRefunded'
    BY <1>1, <1>2 DEF FieldTypes, StampedIsDone, PaidIsNotRefunded
  <2> QED
    BY <2>1, <2>2, <2>3
<1> QED
  BY <1>3, <1>4

LEMMA DoorRefusesKeeps ==
  ASSUME IInv, NEW w \in Callers, DoorRefuses(w), UNCHANGED rest
  PROVE  IInv'
<1> USE DEF IInv
<1>1. /\ call[w].st = "sent"
      /\ Goes(w, "answered", "door")
      /\ UNCHANGED <<queued, book, trade, dispute, paid, left, job, holder, told, crashes>>
  BY CallGoes DEF DoorRefuses, Fail, rest, rows, TypeOK, PostTypeOK, CallType, CallStates,
    Errors
<1>2. FieldTypes
  BY TypesOfFields
<1>3. TypeOK'
  BY <1>1, TypesOfState, TypesOfSteps
<1>4. RowInv' /\ HolderInv' /\ OrdinalInv' /\ LoneAttempt' /\ CallsMatch'
      /\ PayoutInv' /\ SettlementInv' /\ PaidInv' /\ StampedIsDone' /\ PaidIsNotRefunded'
  <2>1. RowInv' /\ HolderInv' /\ OrdinalInv' /\ LoneAttempt'
    BY <1>1, <1>2 DEF FieldTypes, RowInv, HolderInv, OrdinalInv, LoneAttempt
  <2>2. CallsMatch' /\ PayoutInv' /\ SettlementInv' /\ PaidInv'
    BY <1>1, <1>2 DEF FieldTypes, CallsMatch, KeyOf, PayoutInv, HoldsEscrow, SettlementInv, PaidInv,
       UnwindsFromCreated
  <2>3. StampedIsDone' /\ PaidIsNotRefunded'
    BY <1>1, <1>2 DEF FieldTypes, StampedIsDone, PaidIsNotRefunded
  <2> QED
    BY <2>1, <2>2, <2>3
<1> QED
  BY <1>3, <1>4

LEMMA QueuedPostBooksKeeps ==
  ASSUME IInv, NEW k \in Keys, QueuedPostBooks(k), UNCHANGED rest
  PROVE  IInv'
<1> USE DEF IInv
<1>1. /\ k \in queued
      /\ book' = book \cup {k} /\ book' \in SUBSET Keys
      /\ UNCHANGED <<call, queued, trade, dispute, paid, left, job, holder, told, crashes>>
  BY DEF QueuedPostBooks, rest, rows, TypeOK, PostTypeOK
<1>2. FieldTypes
  BY TypesOfFields
<1>3. TypeOK'
  BY <1>1, TypesOfState, TypesOfSteps
<1>4. RowInv' /\ HolderInv' /\ OrdinalInv' /\ LoneAttempt' /\ CallsMatch'
      /\ PayoutInv' /\ SettlementInv' /\ PaidInv' /\ StampedIsDone' /\ PaidIsNotRefunded'
  <2>1. RowInv' /\ HolderInv' /\ OrdinalInv' /\ LoneAttempt'
    BY <1>1, <1>2 DEF FieldTypes, RowInv, HolderInv, OrdinalInv, LoneAttempt
  <2>2. CallsMatch' /\ PayoutInv' /\ SettlementInv' /\ PaidInv'
    BY <1>1, <1>2 DEF FieldTypes, CallsMatch, KeyOf, PayoutInv, HoldsEscrow, SettlementInv, PaidInv,
       UnwindsFromCreated
  <2>3. StampedIsDone' /\ PaidIsNotRefunded'
    BY <1>1, <1>2 DEF FieldTypes, StampedIsDone, PaidIsNotRefunded
  <2> QED
    BY <2>1, <2>2, <2>3
<1> QED
  BY <1>3, <1>4

LEMMA QueuedPostsEndKeeps ==
  ASSUME IInv, NEW k \in Keys, QueuedPostsEnd(k), UNCHANGED rest
  PROVE  IInv'
<1> USE DEF IInv
<1>1. /\ k \in queued
      /\ queued' = queued \ {k} /\ queued' \in SUBSET Keys
      /\ UNCHANGED <<call, book, trade, dispute, paid, left, job, holder, told, crashes>>
  BY DEF QueuedPostsEnd, rest, rows, TypeOK, PostTypeOK
<1>2. FieldTypes
  BY TypesOfFields
<1>3. TypeOK'
  BY <1>1, TypesOfState, TypesOfSteps
<1>4. RowInv' /\ HolderInv' /\ OrdinalInv' /\ LoneAttempt' /\ CallsMatch'
      /\ PayoutInv' /\ SettlementInv' /\ PaidInv' /\ StampedIsDone' /\ PaidIsNotRefunded'
  <2>1. RowInv' /\ HolderInv' /\ OrdinalInv' /\ LoneAttempt'
    BY <1>1, <1>2 DEF FieldTypes, RowInv, HolderInv, OrdinalInv, LoneAttempt
  <2>2. CallsMatch' /\ PayoutInv' /\ SettlementInv' /\ PaidInv'
    BY <1>1, <1>2 DEF FieldTypes, CallsMatch, KeyOf, PayoutInv, HoldsEscrow, SettlementInv, PaidInv,
       UnwindsFromCreated
  <2>3. StampedIsDone' /\ PaidIsNotRefunded'
    BY <1>1, <1>2 DEF FieldTypes, StampedIsDone, PaidIsNotRefunded
  <2> QED
    BY <2>1, <2>2, <2>3
<1> QED
  BY <1>3, <1>4

LEMMA InitIInv == Init => IInv
<1> SUFFICES ASSUME Init PROVE IInv
  OBVIOUS
<1>1. Idle \in JobType /\ NoCall \in CallType
  BY DEF JobType, Steps, Statuses, Ordinals, CallType, CallStates, Errors
<1>2. TypeOK
  BY <1>1 DEF Init, PostInit, TypeOK, PostTypeOK, JobType, Statuses, Resolutions, Ordinals, Total
<1>3. RowInv /\ HolderInv /\ OrdinalInv /\ LoneAttempt /\ CallsMatch
  BY DEF Init, PostInit, RowInv, HolderInv, OrdinalInv, LoneAttempt, CallsMatch
<1>4. PayoutInv /\ SettlementInv /\ PaidInv /\ StampedIsDone /\ PaidIsNotRefunded
  BY DEF Init, PostInit, PayoutInv, HoldsEscrow, SettlementInv, PaidInv, UnwindsFromCreated,
    StampedIsDone, PaidIsNotRefunded
<1> QED
  BY <1>2, <1>3, <1>4 DEF IInv

\* The steps that belong to no lemma of their own: where a worker has nothing
\* left to do, or its post is given up.
LEMMA StepKeeps == ASSUME IInv, NEW w \in Callers, Step(w) PROVE IInv'
<1> TypeOK
  BY DEF IInv
<1>1. CASE ClaimEscrowLockAttempt(w)
  BY <1>1, ClaimEscrowLockAttemptKeeps, ClaimLateKeeps
<1>2. CASE PostEscrowLock(w)
  BY <1>2, PostEscrowLockKeeps
<1>3. CASE EscrowLockMoot(w)
  <2>1. CASE job[w].unwinds
    BY <1>3, <2>1, EscrowLockMootKeeps
  <2>2. CASE ~job[w].unwinds
    <3>1. Done(w)
      BY <1>3, <2>2 DEF EscrowLockMoot, Known, Done, TypeOK
    <3> QED
      BY <1>3, <3>1, RestKeeps DEF EscrowLockMoot, postVars, rows
  <2> QED
    BY <2>1, <2>2
<1>4. CASE EscrowLocked(w)
  BY <1>4, EscrowLockedKeeps
<1>5. CASE EscrowLockRefused(w)
  BY <1>5, EscrowLockRefusedKeeps
<1>6. CASE EscrowLockUncertain(w)
  <2>1. holder = w
    BY <1>6 DEF EscrowLockUncertain, IInv, HolderInv
  <2> QED
    BY <1>6, <2>1, LetsGoKeeps DEF EscrowLockUncertain, rows, TypeOK
<1>7. CASE Release(w)
  <2>1. CASE "released" \in Edges[trade.status] /\ HoldsEscrow(trade.status) /\ Ruled
    BY <1>7, <2>1, ReleaseKeeps
  <2>2. CASE ~("released" \in Edges[trade.status] /\ HoldsEscrow(trade.status) /\ Ruled)
    BY <1>7, <2>2, RestKeeps DEF Release, postVars
  <2> QED
    BY <2>1, <2>2
<1>8. CASE Refund(w)
  <2>1. CASE AsExpected(w) /\ HoldsEscrow(trade.status) /\ Ruled
    BY <1>8, <2>1, RefundKeeps
  <2>2. CASE ~(AsExpected(w) /\ HoldsEscrow(trade.status) /\ Ruled)
    BY <1>8, <2>2, RestKeeps DEF Refund, postVars
  <2> QED
    BY <2>1, <2>2
<1>9. CASE Settle(w)
  <2>1. CASE trade.settled /\ Done(w) /\ UNCHANGED postVars
    BY <1>9, <2>1, RestKeeps DEF Settle, rows, postVars
  <2>2. CASE trade.resolution = "voided" /\ Go(w, "tell") /\ UNCHANGED postVars
    BY <1>9, <2>2, SettleVoidKeeps
  <2>3. CASE trade.resolution = "released" /\ BeginPost(w, "release") /\ Go(w, "settling")
    BY <1>9, <2>3, SettlePostKeeps DEF KeyOf
  <2>4. CASE trade.resolution = "refunded" /\ BeginPost(w, "refund") /\ Go(w, "settling")
    BY <1>9, <2>4, SettlePostKeeps DEF KeyOf
  <2> QED
    BY <1>9, <2>1, <2>2, <2>3, <2>4 DEF Settle
<1>10. CASE SettlePosted(w)
  <2>1. CASE call[w].st = "ok"
    BY <1>10, <2>1, SettlePostedKeeps
  <2>2. CASE call[w].st # "ok"
    <3>1. holder # w
      BY <1>10 DEF SettlePosted, IInv, HolderInv
    <3> QED
      BY <1>10, <2>2, <3>1, LetsGoKeeps DEF SettlePosted, rows, TypeOK
  <2> QED
    BY <2>1, <2>2
<1>11. CASE AnnounceSettlement(w)
  BY <1>11, AnnounceSettlementKeeps
<1>12. CASE AnnounceFails(w)
  BY <1>12, RestKeeps DEF AnnounceFails, rows, postVars
<1>13. CASE Stamp(w)
  BY <1>13, StampKeeps
<1> QED
  BY <1>1, <1>2, <1>3, <1>4, <1>5, <1>6, <1>7, <1>8, <1>9, <1>10, <1>11, <1>12, <1>13 DEF Step

LEMMA CrashKeeps == ASSUME IInv, NEW w \in Callers, Crash(w) PROVE IInv'
<1>1. TypeOK
  BY DEF IInv
<1>2. crashes' \in 0 .. MaxCrashes
  BY <1>1 DEF Crash, TypeOK
<1>3. CASE job[w].step \in {"posting", "settling"}
  BY <1>2, <1>3, LetsGoKeeps DEF Crash, rows
<1>4. CASE job[w].step \notin {"posting", "settling"}
  <2>1. holder # w /\ call[w].st = "idle"
    BY <1>4 DEF IInv, HolderInv, CallsMatch
  <2>2. Rests(w) /\ Hangs(w) /\ queued' = queued
    BY <1>1, <2>1, DoneRests, LetGoHangs DEF Crash
  <2>3. TypeOK'
    BY <1>1, <1>2, <2>1, <2>2, TypesOfState, TypesOfSteps DEF Crash, rows
  <2>4. UNCHANGED <<queued, book, trade, dispute, paid, left, holder, told>>
    BY <2>1, <2>2 DEF Crash, rows
  <2>5. FieldTypes
    BY <1>1, TypesOfFields
  <2>6. RowInv' /\ HolderInv' /\ LoneAttempt' /\ PayoutInv' /\ SettlementInv' /\ StampedIsDone' /\ PaidIsNotRefunded'
    BY <2>2, <2>4, <1>4 DEF IInv, RowInv, HolderInv, LoneAttempt, PayoutInv, HoldsEscrow,
      SettlementInv, KeyOf, StampedIsDone, PaidIsNotRefunded
  <2>7. OrdinalInv'
    BY <2>2, <2>4, <2>5 DEF IInv, OrdinalInv, FieldTypes
  <2>8. CallsMatch'
    BY <2>2, <2>4, <1>4 DEF IInv, CallsMatch, KeyOf
  <2>9. PaidInv'
    BY <2>2, <2>4 DEF IInv, PaidInv, UnwindsFromCreated
  <2> QED
    BY <2>3, <2>6, <2>7, <2>8, <2>9 DEF IInv
<1> QED
  BY <1>3, <1>4

LEMMA PostStepKeeps == ASSUME IInv, PostStep, UNCHANGED rest PROVE IInv'
<1>1. ASSUME NEW w \in Callers, Retry(w) PROVE FALSE
  <2>1. call[w].attempts = 1
    BY <1>1 DEF Retry, IInv, CallsMatch
  <2> QED
    BY <1>1, <2>1 DEF Retry
<1> QED
  BY <1>1, NeverSentKeeps, AttemptAbandonedKeeps, ReplyKeeps, ReplyLostKeeps, GiveUpKeeps,
    LedgerBooksKeeps, LedgerRefusesKeeps, DoorRefusesKeeps, QueuedPostBooksKeeps, QueuedPostsEndKeeps
    DEF PostStep

LEMMA NextIInv == IInv /\ [Next]_vars => IInv'
<1> SUFFICES ASSUME IInv, [Next]_vars PROVE IInv'
  OBVIOUS
<1>1. ASSUME NEW w \in Callers, Take(w) PROVE IInv'
  BY <1>1, TakeKeeps
<1>2. ASSUME NEW w \in Callers, ConfirmFiatReceived(w) PROVE IInv'
  BY <1>2, ConfirmFiatReceivedKeeps
<1>3. ASSUME NEW w \in Callers, Unwind(w) PROVE IInv'
  BY <1>3, UnwindCreatedKeeps, UnwindEscrowedKeeps
<1>4. ASSUME NEW w \in Callers, ResolveDispute(w) PROVE IInv'
  BY <1>4, ResolveDisputeKeeps
<1>5. ASSUME NEW w \in Callers, SweepSettlements(w) PROVE IInv'
  BY <1>5, SweepSettlementsKeeps
<1>6. ASSUME NEW w \in Callers, Step(w) PROVE IInv'
  BY <1>6, StepKeeps
<1>7. ASSUME NEW w \in Callers, Crash(w) PROVE IInv'
  BY <1>7, CrashKeeps
<1>8. CASE MarkFiatSent
  BY <1>8, MarkFiatSentKeeps
<1>9. CASE OpenDispute
  BY <1>9, OpenDisputeKeeps
<1>10. CASE PostStep /\ UNCHANGED rest
  BY <1>10, PostStepKeeps
<1>11. CASE UNCHANGED vars
  <2>1. TypeOK' /\ RowInv'
    BY <1>11 DEF vars, postVars, rest, rows, IInv, TypeOK, PostTypeOK, RowInv
  <2>2. HolderInv' /\ OrdinalInv' /\ LoneAttempt' /\ CallsMatch'
    BY <1>11 DEF vars, postVars, rest, rows, IInv, HolderInv, OrdinalInv, LoneAttempt, CallsMatch
  <2>3. PayoutInv' /\ SettlementInv'
    BY <1>11 DEF vars, postVars, rest, rows, IInv, PayoutInv, SettlementInv, UnwindsFromCreated
  <2>4. PaidInv' /\ StampedIsDone' /\ PaidIsNotRefunded'
    <3>1. UNCHANGED <<call, queued, book, trade, dispute, paid, left, holder, job, told, crashes>>
      BY <1>11 DEF vars, postVars, rest, rows
    <3>2. PaidInv'
      BY <3>1 DEF IInv, PaidInv, UnwindsFromCreated
    <3>3. StampedIsDone' /\ PaidIsNotRefunded'
      BY <3>1 DEF IInv, StampedIsDone, PaidIsNotRefunded
    <3> QED
      BY <3>2, <3>3
  <2> QED
    BY <2>1, <2>2, <2>3, <2>4 DEF IInv
<1> QED
  BY <1>1, <1>2, <1>3, <1>4, <1>5, <1>6, <1>7, <1>8, <1>9, <1>10, <1>11 DEF Next

-----------------------------------------------------------------------------
\* The invariant holds in every state of every behaviour of the trade: claims,
\* posts, decisions and sweeps of any number of workers, and their crashes.
THEOREM TradeInvariant == Spec => []IInv
BY InitIInv, NextIInv, PTL DEF Spec

\* escrowIntegrity, settleOnce and the trigger of drizzle/0003: a trade that holds
\* escrow has its lock booked, only what was decided is paid out of it, a stamp
\* comes after the money and its announcement, a disputed trade ends on a ruling.
THEOREM EscrowStaysConsistent == Spec => []EscrowConsistent
<1>1. IInv => EscrowConsistent
  <2> SUFFICES ASSUME IInv PROVE EscrowConsistent
    OBVIOUS
  <2>1. EscrowAccounted
    BY DEF IInv, PayoutInv, EscrowAccounted
  <2>2. DisputeEndsByRuling
    BY DEF IInv, TypeOK, RowInv, DisputeEndsByRuling
  <2> QED
    BY <2>1, <2>2 DEF IInv, EscrowConsistent
<1> QED
  BY <1>1, TradeInvariant, PTL

\* state.ts, "voided": an order is voided on the refusal of its first and only
\* attempt, and no attempt, however late it arrives, books a lock for it.
THEOREM VoidLocksNothing == Spec => []VoidedNeverLocks
<1>1. IInv => VoidedNeverLocks
  BY DEF IInv, VoidedNeverLocks, PayoutInv
<1> QED
  BY <1>1, TradeInvariant, PTL

\* recordDecision: unless an unwind raced the mark, an order marked paid is
\* refunded by a moderator's ruling only.
THEOREM PaidIsRefundedByRulingOnly == Spec => []PaidIsNotRefunded
<1>1. IInv => PaidIsNotRefunded
  BY DEF IInv
<1> QED
  BY <1>1, TradeInvariant, PTL
=============================================================================
