--------------------------- MODULE OrderHold_proofs ---------------------------
(***************************************************************************)
(* Safety of an order and its hold for every set of orders and processes   *)
(* and every number of attempts and placements.  The argument follows the  *)
(* process that placed the order first (FirstInv, ProofInv): its row stays *)
(* until the process gives it up, and it is given up only when nothing is  *)
(* booked and nothing on its way.  A cancel that was not raced works on an *)
(* order nobody else works on (ChangeInv), and a row is dropped by its age *)
(* only while nothing of its hold is at the ledger (PastInv).              *)
(***************************************************************************)
EXTENDS OrderHold, TLAPS

On(c, o) == job[c].order = o
Posting(c) == job[c].pc \in {"postHold", "hold"}
Unlost(o) == "cancel" \notin raced[o]
Funded(o) == "crash" \notin raced[o] /\ "cancel" \notin raced[o]

\* Of o nothing was taken for more than it was, and its hold was not released.
Clean(o) == "proof" \notin raced[o] /\ "cancel" \notin raced[o] /\ o \notin released

\* Before o was claimed by the process that submits or ends it, and after.
Early == {"none", "pending", "hold_unknown"}
Claimed(o) == rows[o].st \in {"open", "recovery_required", "cancelled", "rejected"}

\* A process is in the placement that wrote the row, up to what the ledger said.
FirstTry(c) ==
  job[c].pc \in {"delete", "mark"} \/ (Posting(c) /\ job[c].end # "repost")

\* A process has a post under way just while it waits for it, of its order; what
\* it takes for booked is booked.
CallInv ==
  \A c \in Callers :
    /\ job[c].pc = "idle" => job[c].order = NoOrder /\ job[c].src = "none"
    /\ job[c].pc # "idle" => job[c].order \in Orders /\ job[c].src # "none"
    /\ job[c].pc = "hold" <=> call[c].st # "idle"
    /\ call[c].st # "idle" => call[c].key = job[c].order /\ call[c].attempts > 0
    /\ call[c].st = "idle" => call[c].key = NoKey
    /\ call[c].st = "sent" => call[c].err = "none"
    /\ call[c].st = "ok" \/ (call[c].st = "answered" /\ call[c].err = "none") => call[c].key \in book

\* Which process is where, and how its order may end.
RoleInv ==
  \A c \in Callers :
    /\ FirstTry(c) \/ Posting(c) \/ job[c].pc \in {"insert", "read", "touch"} => job[c].src = "place"
    /\ job[c].pc \in {"open", "gates", "submit"} => job[c].src \in {"place", "sweep"}
    /\ job[c].pc \in {"engine", "list"} => job[c].src \in {"cancel", "reconcile"}
    /\ job[c].pc = "resume" => job[c].src # "reconcile"
    /\ job[c].src \in {"cancel", "reconcile"} \/ job[c].pc \in {"resume", "claim", "finalize", "insert", "find"} =>
         job[c].end \in {"none", "cancelled", "rejected"}
    /\ job[c].pc \in {"claim", "finalize"} \/ job[c].src \in {"cancel", "reconcile"} => job[c].end # "none"

\* An order is opened, submitted and claimed for its end on a booked hold.
BookedInv ==
  /\ OpenIsBooked
  /\ \A c \in Callers : job[c].pc \in {"open", "gates", "claim", "submit"} => job[c].order \in book

\* An order is submitted by the one process that opened its row.
OrderSubmits ==
  \A o \in Orders :
    /\ submits[o] <= 1
    /\ submits[o] = 0 => o \notin live
    /\ ~Claimed(o) => submits[o] = 0
JobSubmits ==
  \A c \in Callers :
    /\ job[c].pc = "submit" => submits[job[c].order] = 0
    /\ job[c].pc = "submit" \/ (job[c].pc \in {"recover", "finalize"} /\ job[c].src \in {"place", "sweep"})
         => Claimed(job[c].order)
LoneSubmit ==
  \A c, d \in Callers :
    job[c].pc = "submit" /\ job[d].pc = "submit" /\ job[c].order = job[d].order => c = d
SubmitInv == OrderSubmits /\ JobSubmits /\ LoneSubmit

\* A row beyond the bound has no post of its hold at the ledger; what was looked
\* at before it is dropped is still so.
PastInv ==
  \A o \in Orders : rows[o].past =>
    /\ o \notin queued
    /\ \A c \in Callers : On(c, o) =>
         /\ ~Posting(c)
         /\ job[c].pc \in {"wait", "drop"} => o \notin book \ released

\* What is booked or may still be has a row somebody works on.
MoneyInv ==
  \A o \in Orders :
    Clean(o) /\ (o \in book \cup queued \/ \E c \in Callers : On(c, o) /\ Posting(c)) =>
      rows[o].st \in Working \cup {"hold_unknown"}

\* While the first placement is under way its row is there, and pending until the
\* hold is booked; nobody else places or ends the order.
FirstInv ==
  \A o \in Orders, c \in Callers : Unlost(o) /\ On(c, o) /\ FirstTry(c) =>
    /\ rows[o].st \notin {"none", "hold_unknown"}
    /\ rows[o].st # "pending" => o \in book
    /\ \A d \in Callers : On(d, o) /\ FirstTry(d) => c = d
    /\ ~Changing(o)

\* Until its first attempt has ended, and when that was refused, nothing of the
\* hold is booked or on its way.
Proving(c) ==
  call[c].attempts = 1 /\ (call[c].st = "sent" \/ call[c].err \in {"refused", "unsent"})
ProofInv ==
  \A o \in Orders, c \in Callers : Clean(o) /\ On(c, o) /\ FirstTry(c) =>
    /\ \A d \in Callers : On(d, o) /\ Posting(d) => c = d
    /\ job[c].pc \in {"postHold", "delete"} \/ (job[c].pc = "hold" /\ Proving(c)) => o \notin book \cup queued

\* Nobody places or resolves the order, and nobody will while it is changed.
Alone(o) ==
  /\ rows[o].st # "hold_unknown" /\ o \notin queued
  /\ \A d \in Callers : On(d, o) /\ job[d].src \in {"place", "sweep"} => job[d].pc \in {"find", "insert"}

\* A cancel and a reconcile that were not raced have the order to themselves, or
\* have claimed a booked one.
ChangeInv ==
  \A o \in Orders, c \in Callers : Unlost(o) /\ On(c, o) =>
    /\ job[c].pc \in {"engine", "list"} => Alone(o)
    /\ job[c].pc = "finalize" => Alone(o) \/ (Claimed(o) /\ o \in book)

\* The hold goes back when the order is not and will not be in the engine, and
\* its row ends with it.
FinalInv ==
  \A o \in Orders : Funded(o) =>
    /\ \A c \in Callers : On(c, o) /\ job[c].pc = "finalize" =>
         o \notin live /\ \A d \in Callers : ~(On(d, o) /\ job[d].pc = "submit")
    /\ o \in live \/ (\E d \in Callers : On(d, o) /\ job[d].pc = "submit") => o \in book \ released
    /\ o \in released => rows[o].st \in {"cancelled", "rejected"}

HoldInv ==
  /\ TypeOK /\ CallInv /\ RoleInv /\ BookedInv /\ SubmitInv /\ PastInv
  /\ MoneyInv /\ FirstInv /\ ProofInv /\ ChangeInv /\ FinalInv

-----------------------------------------------------------------------------
(* What a step does to the state, field by field                           *)

RowType == [st : Statuses, past : BOOLEAN]
JobType ==
  [pc : Steps, order : Orders \cup {NoOrder},
   src : {"none", "place", "sweep", "cancel", "reconcile"},
   end : {"none", "cancelled", "rejected", "repost"}]

\* The fields whose values the arguments enumerate.
FieldTypes ==
  /\ \A c \in Callers :
       /\ call[c].attempts \in Nat
       /\ job[c].src \in {"none", "place", "sweep", "cancel", "reconcile"}
  /\ \A o \in Orders : rows[o].st \in Statuses /\ submits[o] \in {0, 1, 2}

\* The job of c changes and no other.
OneJob(c) == job' \in [Callers -> JobType] /\ \A d \in Callers : d # c => job'[d] = job[d]

\* It goes on to pc, with an end for its order, or is over.
MovesTo(c, pc, end) ==
  /\ OneJob(c)
  /\ job'[c].pc = pc /\ job'[c].order = job[c].order
  /\ job'[c].src = job[c].src /\ job'[c].end = end
Moves(c, pc) == MovesTo(c, pc, job[c].end)
Ends(c) ==
  /\ OneJob(c)
  /\ job'[c].pc = "idle" /\ job'[c].order = NoOrder
  /\ job'[c].src = "none" /\ job'[c].end = "none"

\* The post of c changes and no other.
OneCall(c) == call' \in [Callers -> CallType] /\ \A d \in Callers : d # c => call'[d] = call[d]

\* c has a post no longer; what it had sent may still arrive.
Hangs(c) ==
  /\ OneCall(c) /\ call'[c].st = "idle" /\ call'[c].key = NoKey
  /\ queued' = IF call[c].st = "sent" THEN queued \cup {call[c].key} ELSE queued
  /\ queued' \in SUBSET Keys
  /\ UNCHANGED book

\* c posts under the key k.
Posts(c, k) ==
  /\ OneCall(c)
  /\ call'[c].st = "sent" /\ call'[c].key = k /\ call'[c].attempts = 1 /\ call'[c].err = "none"
  /\ UNCHANGED <<queued, book>>

\* The post of c goes on.
Goes(c, st, err) ==
  /\ OneCall(c) /\ call'[c].st = st /\ call'[c].err = err
  /\ call'[c].key = call[c].key /\ call'[c].attempts = call[c].attempts

\* Of the rows that of o changes, and is young again.
RowTo(o, st) ==
  /\ rows' \in [Orders -> RowType]
  /\ rows'[o].st = st /\ ~rows'[o].past
  /\ \A u \in Orders : u # o => rows'[u] = rows[u]

\* One race of o is noted, or races may be.
Noted(o, race, happens) ==
  /\ raced' \in [Orders -> SUBSET Races]
  /\ \A u \in Orders : raced'[u] = IF u = o /\ happens THEN raced[u] \cup {race} ELSE raced[u]
MayNote == raced' \in [Orders -> SUBSET Races] /\ \A u \in Orders : raced[u] \subseteq raced'[u]

LEMMA TypesOfFields == ASSUME TypeOK PROVE FieldTypes
BY DEF TypeOK, PostTypeOK, CallType, FieldTypes

LEMMA TypesOfState ==
  ASSUME TypeOK
  PROVE  /\ rows \in [Orders -> RowType] /\ job \in [Callers -> JobType]
         /\ call \in [Callers -> CallType] /\ queued \in SUBSET Keys /\ book \in SUBSET Keys
         /\ live \in SUBSET Orders /\ released \in SUBSET Orders
         /\ submits \in [Orders -> 0 .. 2] /\ places \in [Orders -> 0 .. MaxPlaces]
         /\ raced \in [Orders -> SUBSET Races]
BY DEF TypeOK, PostTypeOK, RowType, JobType

LEMMA TypesOfSteps ==
  ASSUME rows' \in [Orders -> RowType], job' \in [Callers -> JobType],
         call' \in [Callers -> CallType], queued' \in SUBSET Keys, book' \in SUBSET Keys,
         live' \in SUBSET Orders, released' \in SUBSET Orders,
         submits' \in [Orders -> 0 .. 2], places' \in [Orders -> 0 .. MaxPlaces],
         raced' \in [Orders -> SUBSET Races]
  PROVE  TypeOK'
BY DEF TypeOK, PostTypeOK, RowType, JobType

LEMMA GotoMoves ==
  ASSUME TypeOK, NEW c \in Callers, NEW pc \in Steps, Goto(c, pc)
  PROVE  Moves(c, pc)
BY DEF TypeOK, Goto, Moves, MovesTo, OneJob, JobType

\* A job that goes on with an end of its own.
LEMMA GotoMovesTo ==
  ASSUME TypeOK, NEW c \in Callers, NEW pc \in Steps,
         NEW end \in {"none", "cancelled", "rejected", "repost"},
         job' = [job EXCEPT ![c].pc = pc, ![c].end = end]
  PROVE  MovesTo(c, pc, end)
<1>1. job \in [Callers -> JobType] /\ job[c] \in JobType
  BY TypesOfState
<1> DEFINE j == [job[c] EXCEPT !.pc = pc, !.end = end]
<1>2. j \in JobType /\ j.pc = pc /\ j.order = job[c].order /\ j.src = job[c].src /\ j.end = end
  BY <1>1 DEF JobType
<1>3. job' = [job EXCEPT ![c] = j]
  BY <1>1
<1> HIDE DEF j
<1> QED
  BY <1>1, <1>2, <1>3 DEF MovesTo, OneJob

LEMMA NoJobIsJob ==
  /\ NoJob \in JobType
  /\ NoJob.pc = "idle" /\ NoJob.order = NoOrder /\ NoJob.src = "none" /\ NoJob.end = "none"
BY DEF NoJob, JobType, Steps

LEMMA EndEnds ==
  ASSUME TypeOK, NEW c \in Callers, End(c)
  PROVE  Ends(c)
BY TypesOfState, NoJobIsJob DEF End, Ends, OneJob

\* A process takes an order up.
LEMMA StartStarts ==
  ASSUME TypeOK, NEW c \in Callers, NEW o \in Orders,
         NEW src \in {"place", "sweep", "cancel", "reconcile"}, Start(c, o, src)
  PROVE  /\ job[c].pc = "idle" /\ OneJob(c)
         /\ job'[c].pc = "find" /\ job'[c].order = o /\ job'[c].src = src /\ job'[c].end = "cancelled"
<1> DEFINE j == [pc |-> "find", order |-> o, src |-> src, end |-> "cancelled"]
<1>1. j \in JobType /\ j.pc = "find" /\ j.order = o /\ j.src = src /\ j.end = "cancelled"
  BY DEF JobType, Steps
<1>2. job \in [Callers -> JobType] /\ job' = [job EXCEPT ![c] = j] /\ job[c].pc = "idle"
  BY TypesOfState DEF Start, At
<1> HIDE DEF j
<1> QED
  BY <1>1, <1>2 DEF OneJob

LEMMA NoCallIsCall ==
  /\ NoCall \in CallType
  /\ NoCall.st = "idle" /\ NoCall.key = NoKey /\ NoCall.attempts = 0 /\ NoCall.err = "none"
BY PostClientConstants DEF NoCall, CallType, CallStates, Errors

LEMMA LetGoHangs ==
  ASSUME TypeOK, NEW c \in Callers, LetGo(c), call[c].st = "sent" => call[c].key \in Keys
  PROVE  Hangs(c)
BY NoCallIsCall DEF TypeOK, PostTypeOK, LetGo, Hangs, OneCall

LEMMA BeginPostPosts ==
  ASSUME TypeOK, NEW c \in Callers, NEW k \in Keys, BeginPost(c, k)
  PROVE  Posts(c, k)
<1>1. [st |-> "sent", key |-> k, attempts |-> 1, err |-> "none"] \in CallType
  BY PostClientConstants DEF CallType, CallStates, Errors
<1> QED
  BY <1>1 DEF TypeOK, PostTypeOK, BeginPost, Posts, OneCall

LEMMA CallGoes ==
  ASSUME TypeOK, NEW c \in Callers, NEW st \in CallStates, NEW err \in Errors \cup {"none"},
         call' = [call EXCEPT ![c].st = st, ![c].err = err]
  PROVE  Goes(c, st, err)
<1>1. call \in [Callers -> CallType] /\ call[c] \in CallType
  BY DEF TypeOK, PostTypeOK
<1>2. [call[c] EXCEPT !.st = st, !.err = err] \in CallType
  BY <1>1 DEF CallType
<1>3. call' = [call EXCEPT ![c] = [call[c] EXCEPT !.st = st, !.err = err]]
  BY <1>1
<1> QED
  BY <1>1, <1>2, <1>3 DEF Goes, OneCall, CallType

\* A post moves on with the error it has.
LEMMA PostMoves ==
  ASSUME TypeOK, NEW c \in Callers, NEW st \in CallStates, call' = [call EXCEPT ![c].st = st]
  PROVE  Goes(c, st, call[c].err)
<1>1. call \in [Callers -> CallType] /\ call[c] \in CallType
  BY DEF TypeOK, PostTypeOK
<1>2. [call[c] EXCEPT !.st = st] \in CallType
  BY <1>1 DEF CallType
<1> QED
  BY <1>1, <1>2 DEF Goes, OneCall, CallType

\* Another attempt of the same post, while the budget lasts.
LEMMA AttemptsGrow ==
  ASSUME TypeOK, NEW c \in Callers, Retry(c)
  PROVE  /\ OneCall(c)
         /\ call'[c].st = "sent" /\ call'[c].err = "none" /\ call'[c].key = call[c].key
         /\ call'[c].attempts = call[c].attempts + 1
<1>1. call \in [Callers -> CallType] /\ call[c] \in CallType
  BY DEF TypeOK, PostTypeOK
<1>2. call[c].attempts + 1 \in 0 .. MaxAttempts
  BY <1>1, PostClientConstants DEF CallType, Retry
<1> DEFINE next == [call[c] EXCEPT !.st = "sent", !.attempts = call[c].attempts + 1, !.err = "none"]
<1>3. next \in CallType
  BY <1>1, <1>2 DEF CallType, CallStates
<1>4. /\ next.st = "sent" /\ next.err = "none" /\ next.key = call[c].key
      /\ next.attempts = call[c].attempts + 1
  BY <1>1 DEF CallType
<1>5. call' = [call EXCEPT ![c] = next]
  BY <1>1 DEF Retry
<1> HIDE DEF next
<1> QED
  BY <1>1, <1>3, <1>4, <1>5 DEF OneCall

\* The statements on the row.
LEMMA WriteWrites ==
  ASSUME TypeOK, NEW o \in Orders, NEW st \in Statuses, Write(o, st)
  PROVE  RowTo(o, st)
<1> DEFINE r == [st |-> st, past |-> FALSE]
<1>1. r \in RowType /\ r.st = st /\ ~r.past
  BY DEF RowType
<1>2. rows \in [Orders -> RowType] /\ rows' = [rows EXCEPT ![o] = r]
  BY TypesOfState DEF Write
<1> HIDE DEF r
<1> QED
  BY <1>1, <1>2 DEF RowTo

LEMMA DeleteDeletes ==
  ASSUME TypeOK, NEW o \in Orders, rows' = [rows EXCEPT ![o] = NoRow]
  PROVE  RowTo(o, "none")
<1>1. NoRow \in RowType /\ NoRow.st = "none" /\ ~NoRow.past
  BY DEF NoRow, RowType, Statuses
<1>2. rows \in [Orders -> RowType]
  BY TypesOfState
<1> QED
  BY <1>1, <1>2 DEF RowTo

LEMMA NoteNotes ==
  ASSUME TypeOK, NEW o \in Orders, NEW race \in Races, NEW happens \in BOOLEAN,
         Note(o, race, happens)
  PROVE  Noted(o, race, happens) /\ MayNote
<1>1. raced \in [Orders -> SUBSET Races]
  BY TypesOfState
<1>2. CASE happens
  BY <1>1, <1>2 DEF Note, Noted, MayNote
<1>3. CASE ~happens
  BY <1>1, <1>3 DEF Note, Noted, MayNote
<1> QED
  BY <1>2, <1>3

LEMMA SubmitsGrow ==
  ASSUME TypeOK, NEW o \in Orders, submits' = [submits EXCEPT ![o] = Bump(@)]
  PROVE  /\ submits' \in [Orders -> 0 .. 2]
         /\ \A u \in Orders : submits'[u] = IF u = o THEN Bump(submits[u]) ELSE submits[u]
<1>1. submits \in [Orders -> 0 .. 2]
  BY TypesOfState
<1>2. Bump(submits[o]) \in 0 .. 2
  BY <1>1 DEF Bump
<1> QED
  BY <1>1, <1>2

LEMMA RowAges ==
  ASSUME TypeOK, NEW o \in Orders, Age(o)
  PROVE  /\ rows' \in [Orders -> RowType]
         /\ \A u \in Orders : rows'[u].st = rows[u].st /\ (rows'[u].past <=> (u = o \/ rows[u].past))
<1>1. rows \in [Orders -> RowType] /\ \A u \in Orders : rows[u] \in RowType
  BY TypesOfState
<1> DEFINE r == [rows[o] EXCEPT !.past = TRUE]
<1>2. r \in RowType /\ r.st = rows[o].st /\ r.past
  BY <1>1 DEF RowType
<1>3. rows' = [rows EXCEPT ![o] = r]
  BY <1>1 DEF Age
<1> HIDE DEF r
<1> QED
  BY <1>1, <1>2, <1>3

USE OrderHoldConstants, PostClientConstants
  DEF At, OneJob, MovesTo, Moves, Ends, OneCall, Hangs, Posts, Goes, RowTo, Noted, MayNote, Of, St,
      On, Posting, Unlost, Funded, Clean, Claimed, FirstTry, Proving, Orders, Statuses, Working,
      FieldTypes, OrderSubmits, JobSubmits, LoneSubmit

-----------------------------------------------------------------------------
(* Every step keeps the invariant                                          *)

\* A process that gives up, with nothing else done, leaves its order to others.
LEMMA RestKeeps ==
  ASSUME HoldInv, NEW c \in Callers, ~At(c, "hold"), Ends(c), MayNote,
         UNCHANGED <<call, queued, book, rows, live, released, submits, places>>
  PROVE  HoldInv'
<1> USE DEF HoldInv
<1>1. TypeOK' /\ FieldTypes
  BY TypesOfState, TypesOfSteps, TypesOfFields
<1>2. CallInv' /\ RoleInv' /\ BookedInv' /\ SubmitInv'
  <2>1. CallInv'
    BY <1>1 DEF CallInv
  <2>2. RoleInv'
    BY <1>1 DEF RoleInv
  <2>3. BookedInv'
    BY <1>1 DEF BookedInv, OpenIsBooked
  <2>4. SubmitInv'
    <3>1. OrderSubmits'
      BY <1>1 DEF SubmitInv
    <3>2. JobSubmits'
      BY <1>1 DEF SubmitInv
    <3>3. LoneSubmit'
      BY <1>1 DEF SubmitInv
    <3> QED
      BY <3>1, <3>2, <3>3 DEF SubmitInv
  <2> QED
    BY <2>1, <2>2, <2>3, <2>4
<1>3. PastInv' /\ MoneyInv' /\ FirstInv' /\ ProofInv'
  BY <1>1 DEF PastInv, MoneyInv, FirstInv, Changing, ProofInv
<1>4. ChangeInv' /\ FinalInv'
  BY <1>1 DEF ChangeInv, Alone, FinalInv
<1> QED
  BY <1>1, <1>2, <1>3, <1>4

\* A process that takes an order up has done nothing with it yet.
LEMMA StartKeeps ==
  ASSUME HoldInv, NEW c \in Callers, NEW o \in Orders,
         NEW src \in {"place", "sweep", "cancel", "reconcile"}, Start(c, o, src),
         places' \in [Orders -> 0 .. MaxPlaces],
         UNCHANGED <<call, queued, book, rows, live, released, submits, raced>>
  PROVE  HoldInv'
<1> USE DEF HoldInv
<1>1. /\ At(c, "idle") /\ OneJob(c)
      /\ job'[c].pc = "find" /\ job'[c].order = o
      /\ job'[c].src = src /\ job'[c].end = "cancelled"
      /\ UNCHANGED <<call, queued, book, rows, live, released, submits, raced>>
  BY StartStarts DEF postVars
<1>2. TypeOK' /\ FieldTypes
  BY <1>1, TypesOfState, TypesOfSteps, TypesOfFields
<1>3. CallInv' /\ RoleInv' /\ BookedInv' /\ SubmitInv'
  <2>1. CallInv' /\ RoleInv'
    BY <1>1, <1>2 DEF CallInv, RoleInv
  <2>2. BookedInv' /\ SubmitInv'
    BY <1>1, <1>2 DEF BookedInv, OpenIsBooked, SubmitInv
  <2> QED
    BY <2>1, <2>2
<1>4. PastInv' /\ MoneyInv' /\ FirstInv' /\ ProofInv'
  <2>1. PastInv'
    BY <1>1, <1>2 DEF PastInv
  <2>2. MoneyInv'
    BY <1>1, <1>2 DEF MoneyInv
  <2>3. FirstInv'
    BY <1>1, <1>2 DEF FirstInv, Changing
  <2>4. ProofInv'
    BY <1>1, <1>2 DEF ProofInv
  <2> QED
    BY <2>1, <2>2, <2>3, <2>4
<1>5. ChangeInv' /\ FinalInv'
  BY <1>1, <1>2 DEF ChangeInv, Alone, FinalInv
<1> QED
  BY <1>2, <1>3, <1>4, <1>5

LEMMA FindInsertKeeps ==
  ASSUME HoldInv, NEW c \in Callers, NEW o \in Orders, On(c, o), FindForPlace(c), St(c) = "none"
  PROVE  HoldInv'
<1> USE DEF HoldInv
<1>1. /\ At(c, "find") /\ job[c].src = "place"
      /\ Moves(c, "insert")
      /\ UNCHANGED <<call, queued, book, rows, live, released, submits, places, raced>>
  BY GotoMoves DEF FindForPlace, JobOnly, Steps, postVars
<1>2. TypeOK' /\ FieldTypes
  BY <1>1, TypesOfState, TypesOfSteps, TypesOfFields
<1>3. /\ CallInv' /\ RoleInv' /\ BookedInv' /\ SubmitInv' /\ PastInv' /\ MoneyInv'
      /\ FirstInv' /\ ProofInv' /\ ChangeInv' /\ FinalInv'
  <2>1. CallInv' /\ RoleInv'
    BY <1>1, <1>2 DEF CallInv, RoleInv
  <2>2. BookedInv' /\ SubmitInv'
    BY <1>1, <1>2 DEF BookedInv, OpenIsBooked, SubmitInv
  <2>3. PastInv' /\ MoneyInv' /\ FirstInv' /\ ProofInv'
    BY <1>1, <1>2 DEF PastInv, MoneyInv, FirstInv, Changing, ProofInv
  <2>4. ChangeInv' /\ FinalInv'
    BY <1>1, <1>2 DEF ChangeInv, Alone, FinalInv
  <2> QED
    BY <2>1, <2>2, <2>3, <2>4
<1> QED
  BY <1>2, <1>3

LEMMA FindResumeKeeps ==
  ASSUME HoldInv, NEW c \in Callers, NEW o \in Orders, On(c, o), At(c, "find"),
         job[c].src \in {"place", "sweep", "cancel"}, St(c) = "hold_unknown", Goto(c, "resume"),
         MayNote, UNCHANGED <<call, queued, book, rows, live, released, submits, places>>
  PROVE  HoldInv'
<1> USE DEF HoldInv
<1>1. /\ Moves(c, "resume")
      /\ UNCHANGED <<call, queued, book, rows, live, released, submits, places>>
  BY GotoMoves DEF Steps, postVars
<1>2. TypeOK' /\ FieldTypes
  BY <1>1, TypesOfState, TypesOfSteps, TypesOfFields
<1>3. CallInv' /\ RoleInv' /\ BookedInv' /\ SubmitInv'
  <2>1. CallInv'
    BY <1>1, <1>2 DEF CallInv
  <2>2. RoleInv'
    BY <1>1, <1>2 DEF RoleInv
  <2>3. BookedInv' /\ SubmitInv'
    BY <1>1, <1>2 DEF BookedInv, OpenIsBooked, SubmitInv
  <2> QED
    BY <2>1, <2>2, <2>3
<1>4. PastInv' /\ MoneyInv' /\ FirstInv' /\ ProofInv'
  <2>1. PastInv'
    BY <1>1, <1>2 DEF PastInv
  <2>2. MoneyInv'
    BY <1>1, <1>2 DEF MoneyInv
  <2>3. FirstInv'
    BY <1>1, <1>2 DEF FirstInv, Changing
  <2>4. ProofInv'
    BY <1>1, <1>2 DEF ProofInv
  <2> QED
    BY <2>1, <2>2, <2>3, <2>4
<1>5. ChangeInv' /\ FinalInv'
  BY <1>1, <1>2 DEF ChangeInv, Alone, FinalInv
<1> QED
  BY <1>2, <1>3, <1>4, <1>5

\* A cancel that finds a working order nobody places has it to itself.
LEMMA FindEngineKeeps ==
  ASSUME HoldInv, NEW c \in Callers, NEW o \in Orders, On(c, o), FindForCancel(c),
         St(c) \in Working
  PROVE  HoldInv'
<1> USE DEF HoldInv
<1>1. /\ raced' \in [Orders -> SUBSET Races]
      /\ \A u \in Orders :
           raced'[u] = IF u = o /\ (rows[o].st # "hold_unknown" /\ Unsettled(o))
                         THEN raced[u] \cup {"cancel"} ELSE raced[u]
  BY TypesOfState DEF FindForCancel, Note, Races, NoteFind
<1>2. /\ At(c, "find") /\ job[c].src = "cancel"
      /\ Moves(c, "engine")
      /\ Noted(o, "cancel", rows[o].st # "hold_unknown" /\ Unsettled(o))
      /\ UNCHANGED <<call, queued, book, rows, live, released, submits, places>>
  BY <1>1, GotoMoves DEF FindForCancel, Steps, postVars
<1>3. TypeOK' /\ FieldTypes
  BY <1>2, TypesOfState, TypesOfSteps, TypesOfFields
<1>4. CallInv' /\ RoleInv' /\ BookedInv'
  BY <1>2, <1>3 DEF CallInv, RoleInv, BookedInv, OpenIsBooked, Unsettled
<1>5. SubmitInv' /\ PastInv' /\ MoneyInv'
  BY <1>2, <1>3 DEF SubmitInv, PastInv, MoneyInv, Unsettled
<1>6. ProofInv' /\ ChangeInv' /\ FinalInv'
  BY <1>2, <1>3 DEF ProofInv, ChangeInv, Alone, FinalInv, Unsettled
<1>7. FirstInv'
  BY <1>2, <1>3 DEF FirstInv, Changing, RoleInv, Unsettled
<1> QED
  BY <1>3, <1>4, <1>5, <1>6, <1>7

LEMMA FindDropKeeps ==
  ASSUME HoldInv, NEW c \in Callers, NEW o \in Orders, On(c, o), FindForReconcile(c),
         St(c) = "pending", ~Held(o)
  PROVE  HoldInv'
<1> USE DEF HoldInv
<1>1. /\ raced' \in [Orders -> SUBSET Races]
      /\ \A u \in Orders :
           raced'[u] = IF u = o /\ (rows[o].st # "hold_unknown" /\ Unsettled(o))
                         THEN raced[u] \cup {"cancel"} ELSE raced[u]
  BY TypesOfState DEF FindForReconcile, Note, Races, NoteFind
<1>2. /\ At(c, "find") /\ job[c].src = "reconcile"
      /\ Moves(c, "drop")
      /\ Noted(o, "cancel", rows[o].st # "hold_unknown" /\ Unsettled(o))
      /\ UNCHANGED <<call, queued, book, rows, live, released, submits, places>>
  BY <1>1, GotoMoves DEF FindForReconcile, Steps, postVars
<1>3. TypeOK' /\ FieldTypes
  BY <1>2, TypesOfState, TypesOfSteps, TypesOfFields
<1>4. /\ CallInv' /\ RoleInv' /\ BookedInv' /\ SubmitInv' /\ PastInv' /\ MoneyInv'
      /\ ProofInv' /\ ChangeInv' /\ FinalInv'
  <2>1. CallInv' /\ RoleInv'
    BY <1>2, <1>3 DEF CallInv, RoleInv
  <2>2. BookedInv' /\ SubmitInv'
    BY <1>2, <1>3 DEF BookedInv, OpenIsBooked, SubmitInv
  <2>3. PastInv'
    BY <1>2, <1>3 DEF PastInv, Held
  <2>4. MoneyInv' /\ ProofInv' /\ ChangeInv' /\ FinalInv'
    BY <1>2, <1>3 DEF MoneyInv, ProofInv, ChangeInv, Alone, FinalInv
  <2> QED
    BY <2>1, <2>2, <2>3, <2>4
<1>5. FirstInv'
  BY <1>2, <1>3 DEF FirstInv, Changing, RoleInv, Unsettled, Held
<1> QED
  BY <1>3, <1>4, <1>5

LEMMA FindListKeeps ==
  ASSUME HoldInv, NEW c \in Callers, NEW o \in Orders, On(c, o), FindForReconcile(c),
         St(c) \in Working, St(c) # "pending" \/ Held(o)
  PROVE  HoldInv'
<1> USE DEF HoldInv
<1>1. /\ raced' \in [Orders -> SUBSET Races]
      /\ \A u \in Orders :
           raced'[u] = IF u = o /\ (rows[o].st # "hold_unknown" /\ Unsettled(o))
                         THEN raced[u] \cup {"cancel"} ELSE raced[u]
  BY TypesOfState DEF FindForReconcile, Note, Races, NoteFind
<1>2. /\ At(c, "find") /\ job[c].src = "reconcile"
      /\ Moves(c, "list")
      /\ Noted(o, "cancel", rows[o].st # "hold_unknown" /\ Unsettled(o))
      /\ UNCHANGED <<call, queued, book, rows, live, released, submits, places>>
  BY <1>1, GotoMoves DEF FindForReconcile, Steps, postVars
<1>3. TypeOK' /\ FieldTypes
  BY <1>2, TypesOfState, TypesOfSteps, TypesOfFields
<1>4. CallInv' /\ RoleInv' /\ BookedInv'
  BY <1>2, <1>3 DEF CallInv, RoleInv, BookedInv, OpenIsBooked, Unsettled
<1>5. SubmitInv' /\ PastInv' /\ MoneyInv'
  BY <1>2, <1>3 DEF SubmitInv, PastInv, MoneyInv, Unsettled
<1>6. ProofInv' /\ ChangeInv' /\ FinalInv'
  BY <1>2, <1>3 DEF ProofInv, ChangeInv, Alone, FinalInv, Unsettled
<1>7. FirstInv'
  BY <1>2, <1>3 DEF FirstInv, Changing, RoleInv, Unsettled
<1> QED
  BY <1>3, <1>4, <1>5, <1>6, <1>7

\* The row is new: nothing of the order is booked or on its way, and no one else has it.
LEMMA InsertNewKeeps ==
  ASSUME HoldInv, NEW c \in Callers, NEW o \in Orders, On(c, o), Insert(c), St(c) = "none"
  PROVE  HoldInv'
<1> USE DEF HoldInv
<1>1. /\ raced' \in [Orders -> SUBSET Races]
      /\ \A u \in Orders :
           raced'[u] = IF u = o /\ Changing(o)
                         THEN raced[u] \cup {"cancel"} ELSE raced[u]
  BY TypesOfState DEF Insert, Note, Races
<1>2. /\ At(c, "insert")
      /\ RowTo(o, "pending") /\ Moves(c, "postHold")
      /\ Noted(o, "cancel", Changing(o))
      /\ UNCHANGED <<call, queued, book, live, released, submits, places>>
  BY <1>1, GotoMoves, WriteWrites DEF Insert, Where, Steps, postVars
<1>3. TypeOK' /\ FieldTypes
  BY <1>2, TypesOfState, TypesOfSteps, TypesOfFields
<1>4. /\ CallInv' /\ RoleInv' /\ BookedInv' /\ PastInv' /\ MoneyInv' /\ FirstInv'
      /\ FinalInv'
  <2>1. CallInv' /\ RoleInv'
    BY <1>2, <1>3 DEF CallInv, RoleInv
  <2>2. BookedInv' /\ PastInv'
    BY <1>2, <1>3 DEF BookedInv, OpenIsBooked, PastInv
  <2>3. MoneyInv' /\ FirstInv' /\ FinalInv'
    BY <1>2, <1>3 DEF MoneyInv, FirstInv, Changing, FinalInv, Changing
  <2> QED
    BY <2>1, <2>2, <2>3
<1>5. SubmitInv'
  <2>1. OrderSubmits'
    BY <1>2, <1>3 DEF SubmitInv, CallInv, PastInv, MoneyInv, Changing
  <2>2. JobSubmits'
    BY <1>2, <1>3 DEF SubmitInv, CallInv, PastInv, MoneyInv, Changing
  <2>3. LoneSubmit'
    BY <1>2, <1>3 DEF SubmitInv, CallInv, PastInv, MoneyInv, Changing
  <2> QED
    BY <2>1, <2>2, <2>3 DEF SubmitInv
<1>6. ProofInv'
  BY <1>2, <1>3 DEF ProofInv, MoneyInv, FirstInv, Changing, Changing
<1>7. ChangeInv'
  BY <1>2, <1>3 DEF ChangeInv, Alone, CallInv, RoleInv, SubmitInv, Changing
<1> QED
  BY <1>3, <1>4, <1>5, <1>6, <1>7

LEMMA PostHoldKeeps ==
  ASSUME HoldInv, NEW c \in Callers, NEW o \in Orders, On(c, o), PostHold(c)
  PROVE  HoldInv'
<1> USE DEF HoldInv
<1>1. /\ At(c, "postHold")
      /\ Posts(c, o) /\ Moves(c, "hold")
      /\ UNCHANGED <<rows, live, released, submits, places, raced>>
  BY GotoMoves, BeginPostPosts DEF PostHold, Steps, postVars
<1>2. TypeOK' /\ FieldTypes
  BY <1>1, TypesOfState, TypesOfSteps, TypesOfFields
<1>3. /\ CallInv' /\ RoleInv' /\ BookedInv' /\ SubmitInv' /\ PastInv' /\ MoneyInv'
      /\ FirstInv' /\ ProofInv' /\ ChangeInv' /\ FinalInv'
  <2>1. CallInv' /\ RoleInv'
    BY <1>1, <1>2 DEF CallInv, RoleInv
  <2>2. BookedInv' /\ SubmitInv'
    BY <1>1, <1>2 DEF BookedInv, OpenIsBooked, SubmitInv
  <2>3. PastInv' /\ MoneyInv' /\ FirstInv' /\ ProofInv'
    BY <1>1, <1>2 DEF PastInv, MoneyInv, FirstInv, Changing, ProofInv
  <2>4. ChangeInv' /\ FinalInv'
    BY <1>1, <1>2 DEF ChangeInv, Alone, FinalInv
  <2> QED
    BY <2>1, <2>2, <2>3, <2>4
<1> QED
  BY <1>2, <1>3

LEMMA HoldPostedFirstKeeps ==
  ASSUME HoldInv, NEW c \in Callers, NEW o \in Orders, On(c, o), HoldPosted(c),
         job[c].end # "repost"
  PROVE  HoldInv'
<1> USE DEF HoldInv
<1>1. /\ At(c, "hold") /\ call[c].st = "ok"
      /\ Hangs(c) /\ Moves(c, "open")
      /\ UNCHANGED <<rows, live, released, submits, places, raced>>
  BY GotoMoves, LetGoHangs DEF HoldPosted, Steps, postVars
<1>2. TypeOK' /\ FieldTypes
  BY <1>1, TypesOfState, TypesOfSteps, TypesOfFields
<1>3. CallInv' /\ RoleInv' /\ SubmitInv'
  <2>1. CallInv'
    BY <1>1, <1>2 DEF CallInv
  <2>2. RoleInv'
    BY <1>1, <1>2 DEF RoleInv
  <2>3. SubmitInv'
    <3>1. OrderSubmits'
      BY <1>1, <1>2 DEF SubmitInv
    <3>2. JobSubmits'
      BY <1>1, <1>2 DEF SubmitInv
    <3>3. LoneSubmit'
      BY <1>1, <1>2 DEF SubmitInv
    <3> QED
      BY <3>1, <3>2, <3>3 DEF SubmitInv
  <2> QED
    BY <2>1, <2>2, <2>3
<1>4. PastInv' /\ MoneyInv' /\ FirstInv'
  BY <1>1, <1>2 DEF PastInv, MoneyInv, FirstInv, Changing
<1>5. ProofInv' /\ ChangeInv' /\ FinalInv'
  BY <1>1, <1>2 DEF ProofInv, ChangeInv, Alone, FinalInv
<1>6. BookedInv'
  BY <1>1, <1>2 DEF BookedInv, OpenIsBooked, CallInv
<1> QED
  BY <1>2, <1>3, <1>4, <1>5, <1>6

LEMMA HoldPostedRepostKeeps ==
  ASSUME HoldInv, NEW c \in Callers, NEW o \in Orders, On(c, o), HoldPosted(c),
         job[c].end = "repost"
  PROVE  HoldInv'
<1> USE DEF HoldInv
<1>1. /\ At(c, "hold") /\ call[c].st = "ok"
      /\ Hangs(c) /\ Moves(c, "gates")
      /\ UNCHANGED <<rows, live, released, submits, places, raced>>
  BY GotoMoves, LetGoHangs DEF HoldPosted, Steps, postVars
<1>2. TypeOK' /\ FieldTypes
  BY <1>1, TypesOfState, TypesOfSteps, TypesOfFields
<1>3. CallInv' /\ RoleInv' /\ SubmitInv'
  <2>1. CallInv'
    BY <1>1, <1>2 DEF CallInv
  <2>2. RoleInv' /\ SubmitInv'
    BY <1>1, <1>2 DEF RoleInv, SubmitInv
  <2> QED
    BY <2>1, <2>2
<1>4. PastInv' /\ MoneyInv' /\ FirstInv'
  BY <1>1, <1>2 DEF PastInv, MoneyInv, FirstInv, Changing
<1>5. ProofInv' /\ ChangeInv' /\ FinalInv'
  BY <1>1, <1>2 DEF ProofInv, ChangeInv, Alone, FinalInv
<1>6. BookedInv'
  BY <1>1, <1>2 DEF BookedInv, OpenIsBooked, CallInv
<1> QED
  BY <1>2, <1>3, <1>4, <1>5, <1>6

LEMMA HoldFailedRepostKeeps ==
  ASSUME HoldInv, NEW c \in Callers, NEW o \in Orders, On(c, o), HoldFailed(c),
         job[c].end = "repost"
  PROVE  HoldInv'
<1> USE DEF HoldInv
<1>1. /\ At(c, "hold") /\ call[c].st = "err"
      /\ Hangs(c) /\ Ends(c) /\ MayNote
      /\ UNCHANGED <<rows, live, released, submits, places>>
  BY EndEnds, NoteNotes, LetGoHangs DEF HoldFailed, Races, postVars
<1>2. TypeOK' /\ FieldTypes
  BY <1>1, TypesOfState, TypesOfSteps, TypesOfFields
<1>3. CallInv' /\ RoleInv' /\ BookedInv' /\ SubmitInv'
  <2>1. CallInv'
    BY <1>1, <1>2 DEF CallInv
  <2>2. RoleInv'
    BY <1>1, <1>2 DEF RoleInv
  <2>3. BookedInv'
    BY <1>1, <1>2 DEF BookedInv, OpenIsBooked
  <2>4. SubmitInv'
    <3>1. OrderSubmits'
      BY <1>1, <1>2 DEF SubmitInv
    <3>2. JobSubmits'
      BY <1>1, <1>2 DEF SubmitInv
    <3>3. LoneSubmit'
      BY <1>1, <1>2 DEF SubmitInv
    <3> QED
      BY <3>1, <3>2, <3>3 DEF SubmitInv
  <2> QED
    BY <2>1, <2>2, <2>3, <2>4
<1>4. PastInv' /\ MoneyInv' /\ FirstInv' /\ ProofInv'
  BY <1>1, <1>2 DEF PastInv, MoneyInv, FirstInv, Changing, ProofInv
<1>5. ChangeInv' /\ FinalInv'
  BY <1>1, <1>2 DEF ChangeInv, Alone, FinalInv
<1> QED
  BY <1>2, <1>3, <1>4, <1>5

LEMMA HoldFailedUnknownKeeps ==
  ASSUME HoldInv, NEW c \in Callers, NEW o \in Orders, On(c, o), HoldFailed(c),
         job[c].end # "repost", ClassifyHoldPostError(call[c].err) = "unknown"
  PROVE  HoldInv'
<1> USE DEF HoldInv
<1>1. /\ At(c, "hold") /\ call[c].st = "err"
      /\ Hangs(c) /\ Moves(c, "mark") /\ MayNote
      /\ UNCHANGED <<rows, live, released, submits, places>>
  BY GotoMoves, NoteNotes, LetGoHangs DEF HoldFailed, Races, Steps, postVars
<1>2. TypeOK' /\ FieldTypes
  BY <1>1, TypesOfState, TypesOfSteps, TypesOfFields
<1>3. CallInv' /\ RoleInv'
  BY <1>1, <1>2 DEF CallInv, RoleInv
<1>4. BookedInv' /\ SubmitInv'
  BY <1>1, <1>2 DEF BookedInv, OpenIsBooked, SubmitInv
<1>5. PastInv' /\ MoneyInv'
  BY <1>1, <1>2 DEF PastInv, MoneyInv
<1>6. FirstInv' /\ ProofInv'
  BY <1>1, <1>2 DEF FirstInv, Changing, ProofInv
<1>7. ChangeInv' /\ FinalInv'
  BY <1>1, <1>2 DEF ChangeInv, Alone, FinalInv
<1> QED
  BY <1>2, <1>3, <1>4, <1>5, <1>6, <1>7

\* A refusal of the only attempt proves that nothing is booked; any other is noted.
LEMMA HoldFailedRefusedKeeps ==
  ASSUME HoldInv, NEW c \in Callers, NEW o \in Orders, On(c, o), HoldFailed(c),
         job[c].end # "repost", ClassifyHoldPostError(call[c].err) # "unknown"
  PROVE  HoldInv'
<1> USE DEF HoldInv
<1>1. /\ raced' \in [Orders -> SUBSET Races]
      /\ \A u \in Orders :
           raced'[u] = IF u = o /\ ~(call[c].err \in {"refused", "unsent"} /\ call[c].attempts = 1)
                         THEN raced[u] \cup {"proof"} ELSE raced[u]
  BY TypesOfState DEF HoldFailed, Note, Races, ProvesPostNotCommitted, ClassifyPostOutcome
<1>2. /\ At(c, "hold") /\ call[c].st = "err"
      /\ Hangs(c) /\ Moves(c, "delete")
      /\ Noted(o, "proof", ~(call[c].err \in {"refused", "unsent"} /\ call[c].attempts = 1))
      /\ UNCHANGED <<rows, live, released, submits, places>>
  BY <1>1, GotoMoves, LetGoHangs DEF HoldFailed, Steps, postVars
<1>3. TypeOK' /\ FieldTypes
  BY <1>2, TypesOfState, TypesOfSteps, TypesOfFields
<1>4. CallInv' /\ RoleInv' /\ BookedInv' /\ SubmitInv'
  <2>1. CallInv'
    BY <1>2, <1>3 DEF CallInv
  <2>2. RoleInv'
    BY <1>2, <1>3 DEF RoleInv
  <2>3. BookedInv'
    BY <1>2, <1>3 DEF BookedInv, OpenIsBooked
  <2>4. SubmitInv'
    <3>1. OrderSubmits'
      BY <1>2, <1>3 DEF SubmitInv
    <3>2. JobSubmits'
      BY <1>2, <1>3 DEF SubmitInv
    <3>3. LoneSubmit'
      BY <1>2, <1>3 DEF SubmitInv
    <3> QED
      BY <3>1, <3>2, <3>3 DEF SubmitInv
  <2> QED
    BY <2>1, <2>2, <2>3, <2>4
<1>5. PastInv' /\ MoneyInv' /\ FirstInv' /\ ProofInv'
  <2>1. PastInv'
    BY <1>2, <1>3 DEF PastInv
  <2>2. MoneyInv'
    BY <1>2, <1>3 DEF MoneyInv
  <2>3. FirstInv'
    BY <1>2, <1>3 DEF FirstInv, Changing
  <2>4. ProofInv'
    BY <1>2, <1>3 DEF ProofInv
  <2> QED
    BY <2>1, <2>2, <2>3, <2>4
<1>6. ChangeInv' /\ FinalInv'
  BY <1>2, <1>3 DEF ChangeInv, Alone, FinalInv
<1> QED
  BY <1>3, <1>4, <1>5, <1>6

\* The row that is deleted points at no money: the refusal was the proof.
LEMMA DeleteRefusedKeeps ==
  ASSUME HoldInv, NEW c \in Callers, NEW o \in Orders, On(c, o), DeleteRefused(c),
         St(c) = "pending"
  PROVE  HoldInv'
<1> USE DEF HoldInv
<1>1. /\ At(c, "delete") /\ rows[o].st = "pending"
      /\ RowTo(o, "none") /\ Ends(c)
      /\ UNCHANGED <<call, queued, book, live, released, submits, places, raced>>
  BY EndEnds, DeleteDeletes DEF DeleteRefused, Where, RowsOnly, postVars
<1>2. TypeOK' /\ FieldTypes
  BY <1>1, TypesOfState, TypesOfSteps, TypesOfFields
<1>3. CallInv' /\ RoleInv' /\ BookedInv'
  BY <1>1, <1>2 DEF CallInv, RoleInv, BookedInv, OpenIsBooked
<1>4. PastInv' /\ FirstInv' /\ ProofInv'
  BY <1>1, <1>2 DEF PastInv, FirstInv, Changing, ProofInv
<1>5. ChangeInv' /\ FinalInv'
  BY <1>1, <1>2 DEF ChangeInv, Alone, FinalInv
<1>6. SubmitInv'
  <2>1. OrderSubmits'
    BY <1>1, <1>2 DEF SubmitInv, CallInv
  <2>2. JobSubmits'
    BY <1>1, <1>2 DEF SubmitInv, CallInv
  <2>3. LoneSubmit'
    BY <1>1, <1>2 DEF SubmitInv, CallInv
  <2> QED
    BY <2>1, <2>2, <2>3 DEF SubmitInv
<1>7. MoneyInv'
  BY <1>1, <1>2 DEF MoneyInv, ProofInv
<1> QED
  BY <1>2, <1>3, <1>4, <1>5, <1>6, <1>7

LEMMA MarkHoldUnknownKeeps ==
  ASSUME HoldInv, NEW c \in Callers, NEW o \in Orders, On(c, o), MarkHoldUnknown(c),
         St(c) = "pending"
  PROVE  HoldInv'
<1> USE DEF HoldInv
<1>1. /\ At(c, "mark") /\ rows[o].st = "pending"
      /\ RowTo(o, "hold_unknown") /\ Moves(c, "read")
      /\ UNCHANGED <<call, queued, book, live, released, submits, places, raced>>
  BY GotoMoves, WriteWrites DEF MarkHoldUnknown, Where, RowsOnly, Steps, postVars
<1>2. TypeOK' /\ FieldTypes
  BY <1>1, TypesOfState, TypesOfSteps, TypesOfFields
<1>3. /\ CallInv' /\ RoleInv' /\ BookedInv' /\ PastInv' /\ MoneyInv' /\ FirstInv'
      /\ ProofInv' /\ FinalInv'
  <2>1. CallInv' /\ RoleInv' /\ BookedInv' /\ PastInv'
    BY <1>1, <1>2 DEF CallInv, RoleInv, BookedInv, OpenIsBooked, PastInv
  <2>2. MoneyInv' /\ FirstInv' /\ ProofInv' /\ FinalInv'
    BY <1>1, <1>2 DEF MoneyInv, FirstInv, Changing, ProofInv, FinalInv
  <2> QED
    BY <2>1, <2>2
<1>4. SubmitInv'
  <2>1. OrderSubmits'
    BY <1>1, <1>2 DEF SubmitInv, CallInv
  <2>2. JobSubmits'
    BY <1>1, <1>2 DEF SubmitInv, CallInv
  <2>3. LoneSubmit'
    BY <1>1, <1>2 DEF SubmitInv, CallInv
  <2> QED
    BY <2>1, <2>2, <2>3 DEF SubmitInv
<1>5. ChangeInv'
  BY <1>1, <1>2 DEF ChangeInv, Alone, RoleInv
<1> QED
  BY <1>2, <1>3, <1>4, <1>5

LEMMA MarkGoneKeeps ==
  ASSUME HoldInv, NEW c \in Callers, NEW o \in Orders, On(c, o), MarkHoldUnknown(c),
         St(c) # "pending"
  PROVE  HoldInv'
<1> USE DEF HoldInv
<1>1. /\ At(c, "mark")
      /\ Moves(c, "read")
      /\ UNCHANGED <<call, queued, book, rows, live, released, submits, places, raced>>
  BY GotoMoves DEF MarkHoldUnknown, Where, RowsOnly, Steps, postVars
<1>2. TypeOK' /\ FieldTypes
  BY <1>1, TypesOfState, TypesOfSteps, TypesOfFields
<1>3. CallInv' /\ RoleInv' /\ BookedInv' /\ SubmitInv'
  <2>1. CallInv' /\ RoleInv'
    BY <1>1, <1>2 DEF CallInv, RoleInv
  <2>2. BookedInv' /\ SubmitInv'
    BY <1>1, <1>2 DEF BookedInv, OpenIsBooked, SubmitInv
  <2> QED
    BY <2>1, <2>2
<1>4. PastInv' /\ MoneyInv' /\ FirstInv' /\ ProofInv'
  BY <1>1, <1>2 DEF PastInv, MoneyInv, FirstInv, Changing, ProofInv
<1>5. ChangeInv' /\ FinalInv'
  BY <1>1, <1>2 DEF ChangeInv, Alone, FinalInv
<1> QED
  BY <1>2, <1>3, <1>4, <1>5

LEMMA ReadBookedKeeps ==
  ASSUME HoldInv, NEW c \in Callers, NEW o \in Orders, On(c, o), ReadHold(c), o \in book
  PROVE  HoldInv'
<1> USE DEF HoldInv
<1>1. /\ At(c, "read")
      /\ Moves(c, "open")
      /\ UNCHANGED <<call, queued, book, rows, live, released, submits, places, raced>>
  BY GotoMoves DEF ReadHold, JobOnly, Steps, postVars
<1>2. TypeOK' /\ FieldTypes
  BY <1>1, TypesOfState, TypesOfSteps, TypesOfFields
<1>3. /\ CallInv' /\ RoleInv' /\ BookedInv' /\ SubmitInv' /\ PastInv' /\ MoneyInv'
      /\ FirstInv' /\ ProofInv' /\ ChangeInv' /\ FinalInv'
  <2>1. CallInv' /\ RoleInv'
    BY <1>1, <1>2 DEF CallInv, RoleInv
  <2>2. BookedInv' /\ SubmitInv'
    BY <1>1, <1>2 DEF BookedInv, OpenIsBooked, SubmitInv
  <2>3. PastInv' /\ MoneyInv' /\ FirstInv' /\ ProofInv'
    BY <1>1, <1>2 DEF PastInv, MoneyInv, FirstInv, Changing, ProofInv
  <2>4. ChangeInv' /\ FinalInv'
    BY <1>1, <1>2 DEF ChangeInv, Alone, FinalInv
  <2> QED
    BY <2>1, <2>2, <2>3, <2>4
<1> QED
  BY <1>2, <1>3

\* The one process that opens the row submits the order, and its hold is booked.
LEMMA OpenRowKeeps ==
  ASSUME HoldInv, NEW c \in Callers, NEW o \in Orders, On(c, o), Open(c),
         St(c) \in {"pending", "hold_unknown"}
  PROVE  HoldInv'
<1> USE DEF HoldInv
<1>1. /\ At(c, "open")
      /\ RowTo(o, "open") /\ Moves(c, "submit")
      /\ UNCHANGED <<call, queued, book, live, released, submits, places, raced>>
  BY GotoMoves, WriteWrites DEF Open, Where, RowsOnly, Steps, postVars
<1>2. TypeOK' /\ FieldTypes
  BY <1>1, TypesOfState, TypesOfSteps, TypesOfFields
<1>3. /\ CallInv' /\ RoleInv' /\ BookedInv' /\ PastInv' /\ MoneyInv' /\ ProofInv'
      /\ ChangeInv'
  <2>1. CallInv' /\ RoleInv'
    BY <1>1, <1>2 DEF CallInv, RoleInv
  <2>2. BookedInv' /\ PastInv'
    BY <1>1, <1>2 DEF BookedInv, OpenIsBooked, PastInv
  <2>3. MoneyInv'
    BY <1>1, <1>2 DEF MoneyInv
  <2>4. ProofInv' /\ ChangeInv'
    BY <1>1, <1>2 DEF ProofInv, ChangeInv, Alone
  <2> QED
    BY <2>1, <2>2, <2>3, <2>4
<1>4. SubmitInv'
  <2>1. OrderSubmits'
    BY <1>1, <1>2 DEF SubmitInv, CallInv
  <2>2. JobSubmits'
    BY <1>1, <1>2 DEF SubmitInv, CallInv
  <2>3. LoneSubmit'
    BY <1>1, <1>2 DEF SubmitInv, CallInv
  <2> QED
    BY <2>1, <2>2, <2>3 DEF SubmitInv
<1>5. FirstInv'
  BY <1>1, <1>2 DEF FirstInv, Changing, BookedInv, OpenIsBooked
<1>6. FinalInv'
  BY <1>1, <1>2 DEF FinalInv, RoleInv, BookedInv, OpenIsBooked, ChangeInv, Alone
<1> QED
  BY <1>2, <1>3, <1>4, <1>5, <1>6

LEMMA SubmitAcceptedKeeps ==
  ASSUME HoldInv, NEW c \in Callers, NEW o \in Orders, On(c, o), Submit(c), live' = live \cup {o},
         End(c)
  PROVE  HoldInv'
<1> USE DEF HoldInv
<1>1. /\ At(c, "submit")
      /\ submits' \in [Orders -> 0 .. 2]
      /\ \A u \in Orders : submits'[u] = IF u = o THEN Bump(submits[u]) ELSE submits[u]
      /\ live' = live \cup {o}
      /\ Ends(c)
      /\ UNCHANGED <<call, queued, book, rows, released, places, raced>>
  BY EndEnds, SubmitsGrow DEF Submit, Steps, postVars
<1>2. TypeOK' /\ FieldTypes
  BY <1>1, TypesOfState, TypesOfSteps, TypesOfFields
<1>3. CallInv' /\ RoleInv' /\ BookedInv'
  BY <1>1, <1>2 DEF CallInv, RoleInv, BookedInv, OpenIsBooked, Bump
<1>4. PastInv' /\ MoneyInv' /\ FirstInv'
  BY <1>1, <1>2 DEF PastInv, MoneyInv, FirstInv, Changing, Bump
<1>5. ProofInv' /\ ChangeInv' /\ FinalInv'
  BY <1>1, <1>2 DEF ProofInv, ChangeInv, Alone, FinalInv, Bump
<1>6. SubmitInv'
  <2>1. OrderSubmits'
    BY <1>1, <1>2 DEF SubmitInv, CallInv, Bump
  <2>2. JobSubmits'
    BY <1>1, <1>2 DEF SubmitInv, CallInv, Bump
  <2>3. LoneSubmit'
    BY <1>1, <1>2 DEF SubmitInv, CallInv, Bump
  <2> QED
    BY <2>1, <2>2, <2>3 DEF SubmitInv
<1> QED
  BY <1>2, <1>3, <1>4, <1>5, <1>6

LEMMA SubmitRejectedKeeps ==
  ASSUME HoldInv, NEW c \in Callers, NEW o \in Orders, On(c, o), Submit(c), live' = live,
         job' = [job EXCEPT ![c].pc = "finalize", ![c].end = "rejected"]
  PROVE  HoldInv'
<1> USE DEF HoldInv
<1>1. /\ At(c, "submit")
      /\ submits' \in [Orders -> 0 .. 2]
      /\ \A u \in Orders : submits'[u] = IF u = o THEN Bump(submits[u]) ELSE submits[u]
      /\ MovesTo(c, "finalize", "rejected")
      /\ UNCHANGED <<call, queued, book, rows, live, released, places, raced>>
  BY GotoMovesTo, SubmitsGrow DEF Submit, Steps, postVars
<1>2. TypeOK' /\ FieldTypes
  BY <1>1, TypesOfState, TypesOfSteps, TypesOfFields
<1>3. /\ CallInv' /\ RoleInv' /\ BookedInv' /\ PastInv' /\ MoneyInv' /\ FirstInv'
      /\ ProofInv'
  <2>1. CallInv'
    BY <1>1, <1>2 DEF CallInv
  <2>2. RoleInv'
    BY <1>1, <1>2 DEF RoleInv
  <2>3. BookedInv' /\ PastInv'
    BY <1>1, <1>2 DEF BookedInv, OpenIsBooked, PastInv
  <2>4. MoneyInv' /\ ProofInv'
    BY <1>1, <1>2 DEF MoneyInv, ProofInv
  <2>5. FirstInv'
    BY <1>1, <1>2 DEF BookedInv, OpenIsBooked, FirstInv, Changing
  <2> QED
    BY <2>1, <2>2, <2>3, <2>4, <2>5
<1>4. SubmitInv'
  <2>1. OrderSubmits'
    BY <1>1, <1>2 DEF SubmitInv, Bump
  <2>2. ASSUME NEW d \in Callers, job'[d].pc = "submit"
        PROVE  /\ job'[d] = job[d] /\ job[d].order \in Orders
               /\ submits'[job[d].order] = submits[job[d].order]
    BY <1>1, <2>2 DEF CallInv, SubmitInv
  <2>3. \A d \in Callers : job'[d].pc = "submit" => submits'[job'[d].order] = 0
    BY <2>2 DEF SubmitInv
  <2>4. JobSubmits'
    BY <1>1, <2>3 DEF SubmitInv
  <2>5. LoneSubmit'
    BY <1>1, <1>2 DEF SubmitInv
  <2> QED
    BY <2>1, <2>4, <2>5 DEF SubmitInv
<1>5. ChangeInv'
  BY <1>1, <1>2 DEF ChangeInv, Alone, BookedInv, OpenIsBooked, SubmitInv, Bump
<1>6. FinalInv'
  BY <1>1, <1>2 DEF FinalInv, SubmitInv, Bump
<1> QED
  BY <1>2, <1>3, <1>4, <1>5, <1>6

\* A submit that lost its answer is not sent again.
LEMMA SubmitLostKeeps ==
  ASSUME HoldInv, NEW c \in Callers, NEW o \in Orders, On(c, o), Submit(c),
         live' \in {live, live \cup {o}}, Goto(c, "recover")
  PROVE  HoldInv'
<1> USE DEF HoldInv
<1>1. /\ At(c, "submit")
      /\ submits' \in [Orders -> 0 .. 2]
      /\ \A u \in Orders : submits'[u] = IF u = o THEN Bump(submits[u]) ELSE submits[u]
      /\ live' \in {live, live \cup {o}}
      /\ Moves(c, "recover")
      /\ UNCHANGED <<call, queued, book, rows, released, places, raced>>
  <2>1. Moves(c, "recover")
    BY GotoMoves DEF Steps
  <2>2. /\ submits' \in [Orders -> 0 .. 2]
        /\ \A u \in Orders : submits'[u] = IF u = o THEN Bump(submits[u]) ELSE submits[u]
    BY SubmitsGrow DEF Submit
  <2> QED
    BY <2>1, <2>2 DEF Submit, postVars
<1>2. TypeOK' /\ FieldTypes
  BY <1>1, TypesOfState, TypesOfSteps, TypesOfFields
<1>3. CallInv' /\ RoleInv' /\ BookedInv'
  <2>1. CallInv'
    BY <1>1, <1>2 DEF CallInv, Bump
  <2>2. RoleInv'
    BY <1>1, <1>2 DEF RoleInv, Bump
  <2>3. BookedInv'
    BY <1>1, <1>2 DEF BookedInv, OpenIsBooked, Bump
  <2> QED
    BY <2>1, <2>2, <2>3
<1>4. PastInv' /\ MoneyInv' /\ FirstInv'
  BY <1>1, <1>2 DEF PastInv, MoneyInv, FirstInv, Changing, Bump
<1>5. ProofInv' /\ ChangeInv' /\ FinalInv'
  BY <1>1, <1>2 DEF ProofInv, ChangeInv, Alone, FinalInv, Bump
<1>6. SubmitInv'
  <2>1. OrderSubmits'
    BY <1>1, <1>2 DEF SubmitInv, CallInv, Bump
  <2>2. JobSubmits'
    BY <1>1, <1>2 DEF SubmitInv, CallInv, Bump
  <2>3. LoneSubmit'
    BY <1>1, <1>2 DEF SubmitInv, CallInv, Bump
  <2> QED
    BY <2>1, <2>2, <2>3 DEF SubmitInv
<1> QED
  BY <1>2, <1>3, <1>4, <1>5, <1>6

LEMMA RecoverRowKeeps ==
  ASSUME HoldInv, NEW c \in Callers, NEW o \in Orders, On(c, o), Recover(c), St(c) \in Working
  PROVE  HoldInv'
<1> USE DEF HoldInv
<1>1. /\ At(c, "recover")
      /\ RowTo(o, "recovery_required") /\ Ends(c)
      /\ UNCHANGED <<call, queued, book, live, released, submits, places, raced>>
  BY EndEnds, WriteWrites DEF Recover, Where, RowsOnly, postVars
<1>2. TypeOK' /\ FieldTypes
  BY <1>1, TypesOfState, TypesOfSteps, TypesOfFields
<1>3. /\ CallInv' /\ RoleInv' /\ BookedInv' /\ PastInv' /\ MoneyInv' /\ ProofInv'
      /\ ChangeInv' /\ FinalInv'
  <2>1. CallInv' /\ RoleInv' /\ BookedInv' /\ PastInv'
    BY <1>1, <1>2 DEF CallInv, RoleInv, BookedInv, OpenIsBooked, PastInv
  <2>2. MoneyInv' /\ ProofInv' /\ ChangeInv' /\ FinalInv'
    BY <1>1, <1>2 DEF MoneyInv, ProofInv, ChangeInv, Alone, FinalInv
  <2> QED
    BY <2>1, <2>2
<1>4. SubmitInv'
  <2>1. OrderSubmits'
    BY <1>1, <1>2 DEF SubmitInv, CallInv
  <2>2. JobSubmits'
    BY <1>1, <1>2 DEF SubmitInv, CallInv
  <2>3. LoneSubmit'
    BY <1>1, <1>2 DEF SubmitInv, CallInv
  <2> QED
    BY <2>1, <2>2, <2>3 DEF SubmitInv
<1>5. FirstInv'
  BY <1>1, <1>2 DEF FirstInv, Changing, CallInv, RoleInv, SubmitInv
<1> QED
  BY <1>2, <1>3, <1>4, <1>5

LEMMA ResumeWaitKeeps ==
  ASSUME HoldInv, NEW c \in Callers, NEW o \in Orders, On(c, o), Resume(c), o \notin book,
         Goto(c, "wait")
  PROVE  HoldInv'
<1> USE DEF HoldInv
<1>1. /\ At(c, "resume")
      /\ Moves(c, "wait")
      /\ UNCHANGED <<call, queued, book, rows, live, released, submits, places, raced>>
  BY GotoMoves DEF Resume, JobOnly, Steps, postVars
<1>2. TypeOK' /\ FieldTypes
  BY <1>1, TypesOfState, TypesOfSteps, TypesOfFields
<1>3. /\ CallInv' /\ RoleInv' /\ BookedInv' /\ SubmitInv' /\ PastInv' /\ MoneyInv'
      /\ FirstInv' /\ ProofInv' /\ ChangeInv' /\ FinalInv'
  <2>1. CallInv' /\ RoleInv'
    BY <1>1, <1>2 DEF CallInv, RoleInv
  <2>2. BookedInv' /\ SubmitInv'
    BY <1>1, <1>2 DEF BookedInv, OpenIsBooked, SubmitInv
  <2>3. PastInv' /\ MoneyInv'
    BY <1>1, <1>2 DEF PastInv, MoneyInv
  <2>4. FirstInv' /\ ProofInv'
    BY <1>1, <1>2 DEF FirstInv, Changing, ProofInv
  <2>5. ChangeInv' /\ FinalInv'
    BY <1>1, <1>2 DEF ChangeInv, Alone, FinalInv
  <2> QED
    BY <2>1, <2>2, <2>3, <2>4, <2>5
<1> QED
  BY <1>2, <1>3

LEMMA ResumeClaimKeeps ==
  ASSUME HoldInv, NEW c \in Callers, NEW o \in Orders, On(c, o), Resume(c), o \in book,
         job[c].src = "cancel"
  PROVE  HoldInv'
<1> USE DEF HoldInv
<1>1. /\ At(c, "resume")
      /\ Moves(c, "claim")
      /\ UNCHANGED <<call, queued, book, rows, live, released, submits, places, raced>>
  BY GotoMoves DEF Resume, JobOnly, Steps, postVars
<1>2. TypeOK' /\ FieldTypes
  BY <1>1, TypesOfState, TypesOfSteps, TypesOfFields
<1>3. /\ CallInv' /\ RoleInv' /\ BookedInv' /\ SubmitInv' /\ PastInv' /\ MoneyInv'
      /\ FirstInv' /\ ProofInv' /\ ChangeInv' /\ FinalInv'
  <2>1. CallInv' /\ RoleInv'
    BY <1>1, <1>2 DEF CallInv, RoleInv
  <2>2. BookedInv' /\ SubmitInv'
    BY <1>1, <1>2 DEF BookedInv, OpenIsBooked, SubmitInv
  <2>3. PastInv' /\ MoneyInv'
    BY <1>1, <1>2 DEF PastInv, MoneyInv
  <2>4. FirstInv' /\ ProofInv'
    BY <1>1, <1>2 DEF FirstInv, Changing, ProofInv
  <2>5. ChangeInv' /\ FinalInv'
    BY <1>1, <1>2 DEF ChangeInv, Alone, FinalInv
  <2> QED
    BY <2>1, <2>2, <2>3, <2>4, <2>5
<1> QED
  BY <1>2, <1>3

LEMMA ResumeGatesKeeps ==
  ASSUME HoldInv, NEW c \in Callers, NEW o \in Orders, On(c, o), Resume(c), o \in book,
         job[c].src # "cancel"
  PROVE  HoldInv'
<1> USE DEF HoldInv
<1>1. /\ At(c, "resume")
      /\ Moves(c, "gates")
      /\ UNCHANGED <<call, queued, book, rows, live, released, submits, places, raced>>
  BY GotoMoves DEF Resume, JobOnly, Steps, postVars
<1>2. TypeOK' /\ FieldTypes
  BY <1>1, TypesOfState, TypesOfSteps, TypesOfFields
<1>3. /\ CallInv' /\ BookedInv' /\ SubmitInv' /\ PastInv' /\ MoneyInv' /\ FirstInv'
      /\ ProofInv' /\ ChangeInv' /\ FinalInv'
  <2>1. CallInv' /\ BookedInv'
    BY <1>1, <1>2 DEF CallInv, BookedInv, OpenIsBooked
  <2>2. SubmitInv' /\ PastInv'
    BY <1>1, <1>2 DEF SubmitInv, PastInv
  <2>3. MoneyInv' /\ FirstInv'
    BY <1>1, <1>2 DEF MoneyInv, FirstInv, Changing
  <2>4. ProofInv' /\ ChangeInv'
    BY <1>1, <1>2 DEF ProofInv, ChangeInv, Alone
  <2>5. FinalInv'
    BY <1>1, <1>2 DEF FinalInv
  <2> QED
    BY <2>1, <2>2, <2>3, <2>4, <2>5
<1>4. RoleInv'
  BY <1>1, <1>2 DEF RoleInv, CallInv
<1> QED
  BY <1>2, <1>3, <1>4

LEMMA WaitDropKeeps ==
  ASSUME HoldInv, NEW c \in Callers, NEW o \in Orders, On(c, o), Wait(c), Goto(c, "drop")
  PROVE  HoldInv'
<1> USE DEF HoldInv
<1>1. /\ At(c, "wait")
      /\ Moves(c, "drop")
      /\ UNCHANGED <<call, queued, book, rows, live, released, submits, places, raced>>
  BY GotoMoves DEF Wait, JobOnly, Steps, postVars
<1>2. TypeOK' /\ FieldTypes
  BY <1>1, TypesOfState, TypesOfSteps, TypesOfFields
<1>3. /\ CallInv' /\ RoleInv' /\ BookedInv' /\ SubmitInv' /\ PastInv' /\ MoneyInv'
      /\ FirstInv' /\ ProofInv' /\ ChangeInv' /\ FinalInv'
  <2>1. CallInv'
    BY <1>1, <1>2 DEF CallInv
  <2>2. RoleInv'
    BY <1>1, <1>2 DEF RoleInv
  <2>3. BookedInv' /\ SubmitInv'
    BY <1>1, <1>2 DEF BookedInv, OpenIsBooked, SubmitInv
  <2>4. PastInv' /\ MoneyInv'
    BY <1>1, <1>2 DEF PastInv, MoneyInv
  <2>5. FirstInv' /\ ProofInv'
    BY <1>1, <1>2 DEF FirstInv, Changing, ProofInv
  <2>6. ChangeInv' /\ FinalInv'
    BY <1>1, <1>2 DEF ChangeInv, Alone, FinalInv
  <2> QED
    BY <2>1, <2>2, <2>3, <2>4, <2>5, <2>6
<1> QED
  BY <1>2, <1>3

LEMMA WaitTouchKeeps ==
  ASSUME HoldInv, NEW c \in Callers, NEW o \in Orders, On(c, o), Wait(c), job[c].src = "place",
         Goto(c, "touch")
  PROVE  HoldInv'
<1> USE DEF HoldInv
<1>1. /\ At(c, "wait")
      /\ Moves(c, "touch")
      /\ UNCHANGED <<call, queued, book, rows, live, released, submits, places, raced>>
  BY GotoMoves DEF Wait, JobOnly, Steps, postVars
<1>2. TypeOK' /\ FieldTypes
  BY <1>1, TypesOfState, TypesOfSteps, TypesOfFields
<1>3. /\ CallInv' /\ RoleInv' /\ BookedInv' /\ SubmitInv' /\ PastInv' /\ MoneyInv'
      /\ FirstInv' /\ ProofInv' /\ ChangeInv' /\ FinalInv'
  <2>1. CallInv' /\ RoleInv'
    BY <1>1, <1>2 DEF CallInv, RoleInv
  <2>2. BookedInv' /\ SubmitInv'
    BY <1>1, <1>2 DEF BookedInv, OpenIsBooked, SubmitInv
  <2>3. PastInv' /\ MoneyInv' /\ FirstInv' /\ ProofInv'
    BY <1>1, <1>2 DEF PastInv, MoneyInv, FirstInv, Changing, ProofInv
  <2>4. ChangeInv' /\ FinalInv'
    BY <1>1, <1>2 DEF ChangeInv, Alone, FinalInv
  <2> QED
    BY <2>1, <2>2, <2>3, <2>4
<1> QED
  BY <1>2, <1>3

\* A hold that is posted again is posted under a young row.
LEMMA TouchRowKeeps ==
  ASSUME HoldInv, NEW c \in Callers, NEW o \in Orders, On(c, o), Touch(c), St(c) = "hold_unknown",
         Write(o, "hold_unknown"), job' = [job EXCEPT ![c].pc = "postHold", ![c].end = "repost"]
  PROVE  HoldInv'
<1> USE DEF HoldInv
<1>1. /\ At(c, "touch")
      /\ RowTo(o, "hold_unknown") /\ MovesTo(c, "postHold", "repost")
      /\ UNCHANGED <<call, queued, book, live, released, submits, places, raced>>
  <2>1. MovesTo(c, "postHold", "repost")
    BY GotoMovesTo DEF Steps
  <2>2. RowTo(o, "hold_unknown")
    BY WriteWrites
  <2> QED
    BY <2>1, <2>2 DEF Touch, RowsOnly, postVars
<1>2. TypeOK' /\ FieldTypes
  BY <1>1, TypesOfState, TypesOfSteps, TypesOfFields
<1>3. CallInv' /\ RoleInv' /\ BookedInv'
  <2>1. CallInv'
    BY <1>1, <1>2 DEF CallInv, BookedInv, OpenIsBooked
  <2>2. RoleInv'
    BY <1>1, <1>2 DEF RoleInv, PastInv
  <2>3. BookedInv'
    BY <1>1, <1>2 DEF BookedInv, OpenIsBooked
  <2> QED
    BY <2>1, <2>2, <2>3
<1>4. PastInv' /\ MoneyInv' /\ FirstInv'
  <2>1. PastInv' /\ MoneyInv'
    BY <1>1, <1>2 DEF PastInv, MoneyInv
  <2>2. FirstInv'
    BY <1>1, <1>2 DEF FirstInv, Changing, BookedInv
  <2> QED
    BY <2>1, <2>2
<1>5. ChangeInv' /\ FinalInv'
  <2>1. ChangeInv'
    BY <1>1, <1>2 DEF ChangeInv, Alone
  <2>2. FinalInv'
    BY <1>1, <1>2 DEF FinalInv
  <2> QED
    BY <2>1, <2>2
<1>6. SubmitInv'
  <2>1. OrderSubmits'
    BY <1>1, <1>2 DEF SubmitInv
  <2>2. ASSUME NEW d \in Callers, job'[d].pc \in {"submit", "recover", "finalize"}
        PROVE  job'[d] = job[d] /\ job[d].order \in Orders
    BY <1>1, <2>2 DEF CallInv
  <2>3. JobSubmits'
    BY <1>1, <2>2 DEF SubmitInv
  <2>4. LoneSubmit'
    BY <1>1, <1>2 DEF SubmitInv
  <2> QED
    BY <2>1, <2>3, <2>4 DEF SubmitInv
<1>7. ProofInv'
  BY <1>1, <1>2 DEF ProofInv, FirstInv, Changing
<1> QED
  BY <1>2, <1>3, <1>4, <1>5, <1>6, <1>7

\* What is dropped by its age has nothing booked and nothing on its way.
LEMMA DropRowKeeps ==
  ASSUME HoldInv, NEW c \in Callers, NEW o \in Orders, On(c, o), NEW st \in Statuses, Drop(c),
         rows[o].past, St(c) = (IF job[c].src = "reconcile" THEN "pending" ELSE "hold_unknown"),
         st = (IF job[c].src = "cancel" THEN "cancelled" ELSE "none"), RowTo(o, st), End(c)
  PROVE  HoldInv'
<1> USE DEF HoldInv
<1>1. /\ At(c, "drop")
      /\ Ends(c)
      /\ UNCHANGED <<call, queued, book, live, released, submits, places, raced>>
  BY EndEnds DEF Drop, RowsOnly, postVars
<1>2. TypeOK' /\ FieldTypes
  BY <1>1, TypesOfState, TypesOfSteps, TypesOfFields
<1>3. /\ CallInv' /\ RoleInv' /\ BookedInv' /\ PastInv' /\ FirstInv' /\ ProofInv'
      /\ ChangeInv' /\ FinalInv'
  <2>1. CallInv'
    BY <1>1, <1>2 DEF CallInv
  <2>2. RoleInv'
    BY <1>1, <1>2 DEF RoleInv
  <2>3. BookedInv' /\ PastInv'
    BY <1>1, <1>2 DEF BookedInv, OpenIsBooked, PastInv
  <2>4. FirstInv'
    BY <1>1, <1>2 DEF FirstInv, Changing
  <2>5. ProofInv'
    BY <1>1, <1>2 DEF ProofInv
  <2>6. ChangeInv' /\ FinalInv'
    BY <1>1, <1>2 DEF ChangeInv, Alone, FinalInv
  <2> QED
    BY <2>1, <2>2, <2>3, <2>4, <2>5, <2>6
<1>4. SubmitInv'
  <2>1. OrderSubmits'
    BY <1>1, <1>2 DEF SubmitInv, CallInv
  <2>2. JobSubmits'
    BY <1>1, <1>2 DEF SubmitInv, CallInv
  <2>3. LoneSubmit'
    BY <1>1, <1>2 DEF SubmitInv, CallInv
  <2> QED
    BY <2>1, <2>2, <2>3 DEF SubmitInv
<1>5. MoneyInv'
  BY <1>1, <1>2 DEF MoneyInv, PastInv
<1> QED
  BY <1>2, <1>3, <1>4, <1>5

LEMMA GatesOpenKeeps ==
  ASSUME HoldInv, NEW c \in Callers, NEW o \in Orders, On(c, o), Gates(c), Goto(c, "open")
  PROVE  HoldInv'
<1> USE DEF HoldInv
<1>1. /\ At(c, "gates")
      /\ Moves(c, "open")
      /\ UNCHANGED <<call, queued, book, rows, live, released, submits, places, raced>>
  BY GotoMoves DEF Gates, JobOnly, Steps, postVars
<1>2. TypeOK' /\ FieldTypes
  BY <1>1, TypesOfState, TypesOfSteps, TypesOfFields
<1>3. /\ CallInv' /\ RoleInv' /\ BookedInv' /\ SubmitInv' /\ PastInv' /\ MoneyInv'
      /\ FirstInv' /\ ProofInv' /\ ChangeInv' /\ FinalInv'
  <2>1. CallInv'
    BY <1>1, <1>2 DEF CallInv
  <2>2. RoleInv'
    BY <1>1, <1>2 DEF RoleInv
  <2>3. BookedInv' /\ SubmitInv'
    BY <1>1, <1>2 DEF BookedInv, OpenIsBooked, SubmitInv
  <2>4. PastInv' /\ MoneyInv'
    BY <1>1, <1>2 DEF PastInv, MoneyInv
  <2>5. FirstInv' /\ ProofInv'
    BY <1>1, <1>2 DEF FirstInv, Changing, ProofInv
  <2>6. ChangeInv' /\ FinalInv'
    BY <1>1, <1>2 DEF ChangeInv, Alone, FinalInv
  <2> QED
    BY <2>1, <2>2, <2>3, <2>4, <2>5, <2>6
<1> QED
  BY <1>2, <1>3

LEMMA GatesRefuseKeeps ==
  ASSUME HoldInv, NEW c \in Callers, NEW o \in Orders, On(c, o), Gates(c),
         job' = [job EXCEPT ![c].pc = "claim", ![c].end = "rejected"]
  PROVE  HoldInv'
<1> USE DEF HoldInv
<1>1. /\ At(c, "gates")
      /\ MovesTo(c, "claim", "rejected")
      /\ UNCHANGED <<call, queued, book, rows, live, released, submits, places, raced>>
  BY GotoMovesTo DEF Gates, JobOnly, Steps, postVars
<1>2. TypeOK' /\ FieldTypes
  BY <1>1, TypesOfState, TypesOfSteps, TypesOfFields
<1>3. /\ CallInv' /\ RoleInv' /\ BookedInv' /\ SubmitInv' /\ PastInv' /\ MoneyInv'
      /\ FirstInv' /\ ProofInv' /\ ChangeInv' /\ FinalInv'
  <2>1. CallInv'
    BY <1>1, <1>2 DEF CallInv
  <2>2. RoleInv'
    BY <1>1, <1>2 DEF RoleInv
  <2>3. BookedInv' /\ PastInv'
    BY <1>1, <1>2 DEF BookedInv, OpenIsBooked, PastInv
  <2>4. SubmitInv'
    <3>1. OrderSubmits'
      BY <1>1, <1>2 DEF SubmitInv
    <3>2. JobSubmits'
      BY <1>1, <1>2 DEF SubmitInv
    <3>3. LoneSubmit'
      BY <1>1, <1>2 DEF SubmitInv
    <3> QED
      BY <3>1, <3>2, <3>3 DEF SubmitInv
  <2>5. MoneyInv'
    BY <1>1, <1>2 DEF MoneyInv
  <2>6. FirstInv'
    BY <1>1, <1>2 DEF FirstInv, Changing
  <2>7. ProofInv'
    BY <1>1, <1>2 DEF ProofInv
  <2>8. ChangeInv'
    BY <1>1, <1>2 DEF ChangeInv, Alone
  <2>9. FinalInv'
    BY <1>1, <1>2 DEF FinalInv
  <2> QED
    BY <2>1, <2>2, <2>3, <2>4, <2>5, <2>6, <2>7, <2>8, <2>9
<1> QED
  BY <1>2, <1>3

\* A booked row is claimed for its end as it is for its submit: one process gets it.
LEMMA ClaimRowKeeps ==
  ASSUME HoldInv, NEW c \in Callers, NEW o \in Orders, On(c, o), Claim(c), St(c) = "hold_unknown"
  PROVE  HoldInv'
<1> USE DEF HoldInv
<1>1. /\ At(c, "claim")
      /\ RowTo(o, "open") /\ Moves(c, "finalize")
      /\ UNCHANGED <<call, queued, book, live, released, submits, places, raced>>
  BY GotoMoves, WriteWrites DEF Claim, Where, RowsOnly, Steps, postVars
<1>2. TypeOK' /\ FieldTypes
  BY <1>1, TypesOfState, TypesOfSteps, TypesOfFields
<1>3. /\ CallInv' /\ RoleInv' /\ BookedInv' /\ PastInv' /\ MoneyInv' /\ FirstInv'
      /\ ProofInv'
  <2>1. CallInv'
    BY <1>1, <1>2 DEF CallInv
  <2>2. RoleInv'
    BY <1>1, <1>2 DEF RoleInv
  <2>3. BookedInv' /\ PastInv'
    BY <1>1, <1>2 DEF BookedInv, OpenIsBooked, PastInv
  <2>4. MoneyInv'
    BY <1>1, <1>2 DEF MoneyInv
  <2>5. FirstInv' /\ ProofInv'
    BY <1>1, <1>2 DEF FirstInv, Changing, ProofInv
  <2> QED
    BY <2>1, <2>2, <2>3, <2>4, <2>5
<1>4. SubmitInv'
  <2>1. OrderSubmits'
    BY <1>1, <1>2 DEF SubmitInv, CallInv
  <2>2. ASSUME NEW d \in Callers, job'[d].pc \in {"submit", "recover", "finalize"}
        PROVE  /\ job'[d].order = job[d].order /\ job'[d].src = job[d].src /\ job[d].order \in Orders
               /\ d = c \/ job'[d] = job[d]
    BY <1>1, <2>2 DEF CallInv
  <2>3. JobSubmits'
    BY <1>1, <2>2 DEF SubmitInv
  <2>4. LoneSubmit'
    BY <1>1, <1>2 DEF SubmitInv
  <2> QED
    BY <2>1, <2>3, <2>4 DEF SubmitInv
<1>5. ChangeInv'
  BY <1>1, <1>2 DEF ChangeInv, Alone, BookedInv, OpenIsBooked
<1>6. FinalInv'
  BY <1>1, <1>2 DEF FinalInv, SubmitInv
<1> QED
  BY <1>2, <1>3, <1>4, <1>5, <1>6

LEMMA EngineCancelledKeeps ==
  ASSUME HoldInv, NEW c \in Callers, NEW o \in Orders, On(c, o), EngineCancel(c), o \in live,
         live' = live \ {o}, Goto(c, "finalize")
  PROVE  HoldInv'
<1> USE DEF HoldInv
<1>1. /\ At(c, "engine")
      /\ Moves(c, "finalize")
      /\ UNCHANGED <<call, queued, book, rows, released, submits, places, raced>>
  BY GotoMoves DEF EngineCancel, Steps, postVars
<1>2. TypeOK' /\ FieldTypes
  BY <1>1, TypesOfState, TypesOfSteps, TypesOfFields
<1>3. /\ CallInv' /\ RoleInv' /\ BookedInv' /\ SubmitInv' /\ PastInv' /\ MoneyInv'
      /\ FirstInv' /\ ProofInv' /\ ChangeInv'
  <2>1. CallInv'
    BY <1>1, <1>2 DEF CallInv
  <2>2. RoleInv'
    BY <1>1, <1>2 DEF RoleInv
  <2>3. BookedInv' /\ SubmitInv'
    BY <1>1, <1>2 DEF BookedInv, OpenIsBooked, SubmitInv
  <2>4. PastInv' /\ MoneyInv'
    BY <1>1, <1>2 DEF PastInv, MoneyInv
  <2>5. FirstInv'
    BY <1>1, <1>2 DEF FirstInv, Changing
  <2>6. ProofInv'
    BY <1>1, <1>2 DEF ProofInv
  <2>7. ChangeInv'
    BY <1>1, <1>2 DEF ChangeInv, Alone
  <2> QED
    BY <2>1, <2>2, <2>3, <2>4, <2>5, <2>6, <2>7
<1>4. FinalInv'
  BY <1>1, <1>2 DEF FinalInv, SubmitInv
<1> QED
  BY <1>2, <1>3, <1>4

LEMMA EngineMissedCancelKeeps ==
  ASSUME HoldInv, NEW c \in Callers, NEW o \in Orders, On(c, o), EngineCancel(c), o \notin live,
         live' = live, Goto(c, "list")
  PROVE  HoldInv'
<1> USE DEF HoldInv
<1>1. /\ At(c, "engine")
      /\ Moves(c, "list")
      /\ UNCHANGED <<call, queued, book, rows, live, released, submits, places, raced>>
  BY GotoMoves DEF EngineCancel, Steps, postVars
<1>2. TypeOK' /\ FieldTypes
  BY <1>1, TypesOfState, TypesOfSteps, TypesOfFields
<1>3. /\ CallInv' /\ RoleInv' /\ BookedInv' /\ SubmitInv' /\ PastInv' /\ MoneyInv'
      /\ FirstInv' /\ ProofInv' /\ ChangeInv' /\ FinalInv'
  <2>1. CallInv'
    BY <1>1, <1>2 DEF CallInv
  <2>2. RoleInv'
    BY <1>1, <1>2 DEF RoleInv
  <2>3. BookedInv' /\ SubmitInv'
    BY <1>1, <1>2 DEF BookedInv, OpenIsBooked, SubmitInv
  <2>4. PastInv' /\ MoneyInv'
    BY <1>1, <1>2 DEF PastInv, MoneyInv
  <2>5. FirstInv' /\ ProofInv'
    BY <1>1, <1>2 DEF FirstInv, Changing, ProofInv
  <2>6. ChangeInv' /\ FinalInv'
    BY <1>1, <1>2 DEF ChangeInv, Alone, FinalInv
  <2> QED
    BY <2>1, <2>2, <2>3, <2>4, <2>5, <2>6
<1> QED
  BY <1>2, <1>3

LEMMA EngineMissedReconcileKeeps ==
  ASSUME HoldInv, NEW c \in Callers, NEW o \in Orders, On(c, o), EngineCancel(c), o \notin live,
         live' = live, Goto(c, "finalize")
  PROVE  HoldInv'
<1> USE DEF HoldInv
<1>1. /\ At(c, "engine")
      /\ Moves(c, "finalize")
      /\ UNCHANGED <<call, queued, book, rows, live, released, submits, places, raced>>
  BY GotoMoves DEF EngineCancel, Steps, postVars
<1>2. TypeOK' /\ FieldTypes
  BY <1>1, TypesOfState, TypesOfSteps, TypesOfFields
<1>3. /\ CallInv' /\ RoleInv' /\ BookedInv' /\ PastInv' /\ MoneyInv' /\ FirstInv'
      /\ ProofInv' /\ ChangeInv'
  <2>1. CallInv' /\ RoleInv'
    BY <1>1, <1>2 DEF CallInv, RoleInv
  <2>2. BookedInv' /\ PastInv'
    BY <1>1, <1>2 DEF BookedInv, OpenIsBooked, PastInv
  <2>3. MoneyInv' /\ FirstInv'
    BY <1>1, <1>2 DEF MoneyInv, FirstInv, Changing
  <2>4. ProofInv'
    BY <1>1, <1>2 DEF ProofInv
  <2>5. ChangeInv'
    BY <1>1, <1>2 DEF ChangeInv, Alone
  <2> QED
    BY <2>1, <2>2, <2>3, <2>4, <2>5
<1>4. SubmitInv'
  <2>1. OrderSubmits'
    BY <1>1, <1>2 DEF SubmitInv, RoleInv
  <2>2. JobSubmits'
    BY <1>1, <1>2 DEF SubmitInv, RoleInv
  <2>3. LoneSubmit'
    BY <1>1, <1>2 DEF SubmitInv, RoleInv
  <2> QED
    BY <2>1, <2>2, <2>3 DEF SubmitInv
<1>5. FinalInv'
  BY <1>1, <1>2 DEF FinalInv, RoleInv, ChangeInv, Alone
<1> QED
  BY <1>2, <1>3, <1>4, <1>5

LEMMA EngineLostCancelKeeps ==
  ASSUME HoldInv, NEW c \in Callers, NEW o \in Orders, On(c, o), EngineCancel(c),
         live' \in {live, live \ {o}}, job[c].src = "cancel", Goto(c, "recover")
  PROVE  HoldInv'
<1> USE DEF HoldInv
<1>1. /\ At(c, "engine")
      /\ Moves(c, "recover")
      /\ UNCHANGED <<call, queued, book, rows, released, submits, places, raced>>
  BY GotoMoves DEF EngineCancel, Steps, postVars
<1>2. TypeOK' /\ FieldTypes
  BY <1>1, TypesOfState, TypesOfSteps, TypesOfFields
<1>3. /\ CallInv' /\ RoleInv' /\ BookedInv' /\ SubmitInv' /\ PastInv' /\ MoneyInv'
      /\ FirstInv' /\ ProofInv' /\ ChangeInv' /\ FinalInv'
  <2>1. CallInv' /\ RoleInv'
    BY <1>1, <1>2 DEF CallInv, RoleInv
  <2>2. BookedInv' /\ SubmitInv'
    BY <1>1, <1>2 DEF BookedInv, OpenIsBooked, SubmitInv
  <2>3. PastInv' /\ MoneyInv'
    BY <1>1, <1>2 DEF PastInv, MoneyInv
  <2>4. FirstInv' /\ ProofInv'
    BY <1>1, <1>2 DEF FirstInv, Changing, ProofInv
  <2>5. ChangeInv' /\ FinalInv'
    BY <1>1, <1>2 DEF ChangeInv, Alone, FinalInv
  <2> QED
    BY <2>1, <2>2, <2>3, <2>4, <2>5
<1> QED
  BY <1>2, <1>3

LEMMA EngineLostReconcileKeeps ==
  ASSUME HoldInv, NEW c \in Callers, NEW o \in Orders, On(c, o), EngineCancel(c),
         live' \in {live, live \ {o}}, End(c)
  PROVE  HoldInv'
<1> USE DEF HoldInv
<1>1. /\ At(c, "engine")
      /\ Ends(c)
      /\ UNCHANGED <<call, queued, book, rows, released, submits, places, raced>>
  BY EndEnds DEF EngineCancel, postVars
<1>2. TypeOK' /\ FieldTypes
  BY <1>1, TypesOfState, TypesOfSteps, TypesOfFields
<1>3. CallInv' /\ RoleInv' /\ BookedInv' /\ SubmitInv'
  <2>1. CallInv'
    BY <1>1, <1>2 DEF CallInv
  <2>2. RoleInv'
    BY <1>1, <1>2 DEF RoleInv
  <2>3. BookedInv' /\ SubmitInv'
    BY <1>1, <1>2 DEF BookedInv, OpenIsBooked, SubmitInv
  <2> QED
    BY <2>1, <2>2, <2>3
<1>4. PastInv' /\ MoneyInv' /\ FirstInv' /\ ProofInv'
  BY <1>1, <1>2 DEF PastInv, MoneyInv, FirstInv, Changing, ProofInv
<1>5. ChangeInv' /\ FinalInv'
  BY <1>1, <1>2 DEF ChangeInv, Alone, FinalInv
<1> QED
  BY <1>2, <1>3, <1>4, <1>5

\* An order that is gone and nobody submits stays gone.
LEMMA ListGoneKeeps ==
  ASSUME HoldInv, NEW c \in Callers, NEW o \in Orders, On(c, o), List(c), o \notin live,
         Goto(c, "finalize")
  PROVE  HoldInv'
<1> USE DEF HoldInv
<1>1. /\ At(c, "list")
      /\ Moves(c, "finalize")
      /\ UNCHANGED <<call, queued, book, rows, live, released, submits, places, raced>>
  BY GotoMoves DEF List, JobOnly, Steps, postVars
<1>2. TypeOK' /\ FieldTypes
  BY <1>1, TypesOfState, TypesOfSteps, TypesOfFields
<1>3. /\ CallInv' /\ RoleInv' /\ BookedInv' /\ PastInv' /\ MoneyInv' /\ FirstInv'
      /\ ProofInv' /\ ChangeInv'
  <2>1. CallInv'
    BY <1>1, <1>2 DEF CallInv
  <2>2. RoleInv'
    BY <1>1, <1>2 DEF RoleInv
  <2>3. BookedInv' /\ PastInv'
    BY <1>1, <1>2 DEF BookedInv, OpenIsBooked, PastInv
  <2>4. MoneyInv' /\ FirstInv'
    BY <1>1, <1>2 DEF MoneyInv, FirstInv, Changing
  <2>5. ProofInv' /\ ChangeInv'
    BY <1>1, <1>2 DEF ProofInv, ChangeInv, Alone
  <2> QED
    BY <2>1, <2>2, <2>3, <2>4, <2>5
<1>4. SubmitInv'
  <2>1. OrderSubmits'
    BY <1>1, <1>2 DEF SubmitInv, RoleInv
  <2>2. JobSubmits'
    BY <1>1, <1>2 DEF SubmitInv, RoleInv
  <2>3. LoneSubmit'
    BY <1>1, <1>2 DEF SubmitInv, RoleInv
  <2> QED
    BY <2>1, <2>2, <2>3 DEF SubmitInv
<1>5. FinalInv'
  BY <1>1, <1>2 DEF FinalInv, RoleInv, ChangeInv, Alone
<1> QED
  BY <1>2, <1>3, <1>4, <1>5

LEMMA ListRecoverKeeps ==
  ASSUME HoldInv, NEW c \in Callers, NEW o \in Orders, On(c, o), List(c), job[c].src = "cancel",
         Goto(c, "recover")
  PROVE  HoldInv'
<1> USE DEF HoldInv
<1>1. /\ At(c, "list")
      /\ Moves(c, "recover")
      /\ UNCHANGED <<call, queued, book, rows, live, released, submits, places, raced>>
  BY GotoMoves DEF List, JobOnly, Steps, postVars
<1>2. TypeOK' /\ FieldTypes
  BY <1>1, TypesOfState, TypesOfSteps, TypesOfFields
<1>3. /\ CallInv' /\ RoleInv' /\ BookedInv' /\ SubmitInv' /\ PastInv' /\ MoneyInv'
      /\ FirstInv' /\ ProofInv' /\ ChangeInv' /\ FinalInv'
  <2>1. CallInv' /\ RoleInv'
    BY <1>1, <1>2 DEF CallInv, RoleInv
  <2>2. BookedInv' /\ SubmitInv'
    BY <1>1, <1>2 DEF BookedInv, OpenIsBooked, SubmitInv
  <2>3. PastInv' /\ MoneyInv'
    BY <1>1, <1>2 DEF PastInv, MoneyInv
  <2>4. FirstInv' /\ ProofInv'
    BY <1>1, <1>2 DEF FirstInv, Changing, ProofInv
  <2>5. ChangeInv' /\ FinalInv'
    BY <1>1, <1>2 DEF ChangeInv, Alone, FinalInv
  <2> QED
    BY <2>1, <2>2, <2>3, <2>4, <2>5
<1> QED
  BY <1>2, <1>3

LEMMA ListUnheldKeeps ==
  ASSUME HoldInv, NEW c \in Callers, NEW o \in Orders, On(c, o), List(c), ~Held(o),
         Goto(c, "finalize")
  PROVE  HoldInv'
<1> USE DEF HoldInv
<1>1. /\ At(c, "list")
      /\ Moves(c, "finalize")
      /\ UNCHANGED <<call, queued, book, rows, live, released, submits, places, raced>>
  BY GotoMoves DEF List, JobOnly, Steps, postVars
<1>2. TypeOK' /\ FieldTypes
  BY <1>1, TypesOfState, TypesOfSteps, TypesOfFields
<1>3. /\ CallInv' /\ RoleInv' /\ BookedInv' /\ PastInv' /\ MoneyInv' /\ FirstInv'
      /\ ProofInv' /\ ChangeInv' /\ FinalInv'
  <2>1. CallInv' /\ RoleInv'
    BY <1>1, <1>2 DEF CallInv, RoleInv
  <2>2. BookedInv' /\ PastInv'
    BY <1>1, <1>2 DEF BookedInv, OpenIsBooked, PastInv
  <2>3. MoneyInv' /\ FirstInv'
    BY <1>1, <1>2 DEF MoneyInv, FirstInv, Changing
  <2>4. ProofInv' /\ ChangeInv'
    BY <1>1, <1>2 DEF ProofInv, ChangeInv, Alone
  <2>5. FinalInv'
    BY <1>1, <1>2 DEF FinalInv, Held
  <2> QED
    BY <2>1, <2>2, <2>3, <2>4, <2>5
<1>4. SubmitInv'
  <2>1. OrderSubmits'
    BY <1>1, <1>2 DEF SubmitInv, RoleInv
  <2>2. JobSubmits'
    BY <1>1, <1>2 DEF SubmitInv, RoleInv
  <2>3. LoneSubmit'
    BY <1>1, <1>2 DEF SubmitInv, RoleInv
  <2> QED
    BY <2>1, <2>2, <2>3 DEF SubmitInv
<1> QED
  BY <1>2, <1>3, <1>4

LEMMA ListEngineKeeps ==
  ASSUME HoldInv, NEW c \in Callers, NEW o \in Orders, On(c, o), List(c), Goto(c, "engine")
  PROVE  HoldInv'
<1> USE DEF HoldInv
<1>1. /\ At(c, "list")
      /\ Moves(c, "engine")
      /\ UNCHANGED <<call, queued, book, rows, live, released, submits, places, raced>>
  BY GotoMoves DEF List, JobOnly, Steps, postVars
<1>2. TypeOK' /\ FieldTypes
  BY <1>1, TypesOfState, TypesOfSteps, TypesOfFields
<1>3. /\ CallInv' /\ RoleInv' /\ BookedInv' /\ SubmitInv' /\ PastInv' /\ MoneyInv'
      /\ FirstInv' /\ ProofInv' /\ ChangeInv' /\ FinalInv'
  <2>1. CallInv'
    BY <1>1, <1>2 DEF CallInv
  <2>2. RoleInv'
    BY <1>1, <1>2 DEF RoleInv
  <2>3. BookedInv' /\ SubmitInv'
    BY <1>1, <1>2 DEF BookedInv, OpenIsBooked, SubmitInv
  <2>4. PastInv' /\ MoneyInv'
    BY <1>1, <1>2 DEF PastInv, MoneyInv
  <2>5. FirstInv' /\ ProofInv'
    BY <1>1, <1>2 DEF FirstInv, Changing, ProofInv
  <2>6. ChangeInv' /\ FinalInv'
    BY <1>1, <1>2 DEF ChangeInv, Alone, FinalInv
  <2> QED
    BY <2>1, <2>2, <2>3, <2>4, <2>5, <2>6
<1> QED
  BY <1>2, <1>3

\* The release and the end of the row are one, unless the process dies between them.
LEMMA FinalizeCommitsKeeps ==
  ASSUME HoldInv, NEW c \in Callers, NEW o \in Orders, On(c, o), Finalize(c), St(c) \in Working,
         Write(o, job[c].end)
  PROVE  HoldInv'
<1> USE DEF HoldInv
<1>1. /\ At(c, "finalize") /\ rows[o].st \in Working
      /\ released' = released \cup (book \cap {o})
      /\ RowTo(o, job[c].end) /\ Ends(c)
      /\ UNCHANGED <<call, queued, book, live, submits, places, raced>>
  BY EndEnds, WriteWrites DEF Finalize, RoleInv, Note, postVars
<1>2. TypeOK' /\ FieldTypes
  BY <1>1, TypesOfState, TypesOfSteps, TypesOfFields
<1>3. CallInv' /\ RoleInv' /\ PastInv' /\ ProofInv'
  <2>1. CallInv'
    BY <1>1, <1>2 DEF CallInv
  <2>2. RoleInv'
    BY <1>1, <1>2 DEF RoleInv
  <2>3. PastInv' /\ ProofInv'
    BY <1>1, <1>2 DEF PastInv, ProofInv
  <2> QED
    BY <2>1, <2>2, <2>3
<1>4. BookedInv'
  BY <1>1, <1>2 DEF BookedInv, OpenIsBooked, RoleInv
<1>5. SubmitInv'
  <2>1. OrderSubmits'
    BY <1>1, <1>2 DEF SubmitInv, CallInv, RoleInv
  <2>2. ASSUME NEW d \in Callers, job'[d].pc \in {"submit", "recover", "finalize"}
        PROVE  job'[d] = job[d] /\ job[d].order \in Orders
    BY <1>1, <2>2 DEF CallInv
  <2>3. job[c].end \in {"cancelled", "rejected"}
    BY <1>1 DEF RoleInv
  <2>4. JobSubmits'
    BY <1>1, <2>2, <2>3 DEF SubmitInv
  <2>5. LoneSubmit'
    BY <1>1, <1>2 DEF SubmitInv
  <2> QED
    BY <2>1, <2>4, <2>5 DEF SubmitInv
<1>6. MoneyInv'
  BY <1>1, <1>2 DEF MoneyInv, RoleInv, ChangeInv, Alone
<1>7. FirstInv'
  BY <1>1, <1>2 DEF FirstInv, Changing, RoleInv, ChangeInv, Alone
<1>8. ChangeInv'
  BY <1>1, <1>2 DEF ChangeInv, Alone, RoleInv
<1>9. FinalInv'
  BY <1>1, <1>2 DEF FinalInv, RoleInv
<1> QED
  BY <1>2, <1>3, <1>4, <1>5, <1>6, <1>7, <1>8, <1>9

LEMMA FinalizeCrashesKeeps ==
  ASSUME HoldInv, NEW c \in Callers, NEW o \in Orders, On(c, o), Finalize(c), St(c) \in Working,
         rows' = rows
  PROVE  HoldInv'
<1> USE DEF HoldInv
<1>1. /\ At(c, "finalize") /\ rows[o].st \in Working
      /\ released' = released \cup (book \cap {o})
      /\ Noted(o, "crash", TRUE) /\ Ends(c)
      /\ UNCHANGED <<call, queued, book, rows, live, submits, places>>
  BY EndEnds, NoteNotes DEF Finalize, Races, postVars
<1>2. TypeOK' /\ FieldTypes
  BY <1>1, TypesOfState, TypesOfSteps, TypesOfFields
<1>3. CallInv' /\ RoleInv' /\ BookedInv' /\ SubmitInv'
  <2>1. CallInv'
    BY <1>1, <1>2 DEF CallInv
  <2>2. RoleInv'
    BY <1>1, <1>2 DEF RoleInv
  <2>3. BookedInv' /\ SubmitInv'
    BY <1>1, <1>2 DEF BookedInv, OpenIsBooked, SubmitInv
  <2> QED
    BY <2>1, <2>2, <2>3
<1>4. PastInv' /\ MoneyInv' /\ FirstInv' /\ ProofInv'
  BY <1>1, <1>2 DEF PastInv, MoneyInv, FirstInv, Changing, ProofInv
<1>5. ChangeInv' /\ FinalInv'
  BY <1>1, <1>2 DEF ChangeInv, Alone, FinalInv
<1> QED
  BY <1>2, <1>3, <1>4, <1>5

\* What a process that stops had sent may still be booked: its row stays.
LEMMA StopKeeps ==
  ASSUME HoldInv, NEW c \in Callers, NEW o \in Orders, On(c, o), Stop(c)
  PROVE  HoldInv'
<1> USE DEF HoldInv
<1>1. /\ ~At(c, "idle") /\ Hangs(c) /\ Ends(c)
      /\ UNCHANGED <<rows, live, released, submits, places, raced>>
  BY EndEnds, LetGoHangs DEF Stop, CallInv, postVars
<1>2. TypeOK' /\ FieldTypes
  BY <1>1, TypesOfState, TypesOfSteps, TypesOfFields
<1>3. CallInv' /\ RoleInv' /\ BookedInv' /\ SubmitInv' /\ FirstInv' /\ FinalInv'
  <2>1. CallInv'
    BY <1>1, <1>2 DEF CallInv
  <2>2. RoleInv'
    BY <1>1, <1>2 DEF RoleInv
  <2>3. BookedInv' /\ SubmitInv'
    BY <1>1, <1>2 DEF BookedInv, OpenIsBooked, SubmitInv
  <2>4. FirstInv' /\ FinalInv'
    BY <1>1, <1>2 DEF FirstInv, Changing, FinalInv
  <2> QED
    BY <2>1, <2>2, <2>3, <2>4
<1>4. PastInv'
  BY <1>1, <1>2 DEF PastInv, CallInv
<1>5. MoneyInv'
  BY <1>1, <1>2 DEF MoneyInv, CallInv
<1>6. ProofInv'
  BY <1>1, <1>2 DEF ProofInv, CallInv
<1>7. ChangeInv'
  BY <1>1, <1>2 DEF ChangeInv, Alone, CallInv, RoleInv
<1> QED
  BY <1>2, <1>3, <1>4, <1>5, <1>6, <1>7

\* A row grows old once nobody posts its hold and nothing of it is on its way.
LEMMA AgeKeeps ==
  ASSUME HoldInv, NEW o \in Orders, Age(o)
  PROVE  HoldInv'
<1> USE DEF HoldInv
<1>1. /\ rows[o].st \in {"pending", "hold_unknown"} /\ o \notin queued
      /\ \A d \in Callers :
           call[d].key # o /\ ~(job[d].order = o /\ job[d].pc \in {"postHold", "wait", "drop"})
      /\ rows' \in [Orders -> RowType]
      /\ \A u \in Orders : rows'[u].st = rows[u].st /\ (rows'[u].past <=> (u = o \/ rows[u].past))
      /\ UNCHANGED job
      /\ UNCHANGED <<call, queued, book, live, released, submits, places, raced>>
  BY RowAges DEF Age, postVars
<1>2. TypeOK' /\ FieldTypes
  BY <1>1, TypesOfState, TypesOfSteps, TypesOfFields
<1>3. /\ CallInv' /\ RoleInv' /\ BookedInv' /\ MoneyInv' /\ FirstInv' /\ ProofInv'
      /\ ChangeInv' /\ FinalInv'
  <2>1. CallInv'
    BY <1>1, <1>2 DEF CallInv
  <2>2. RoleInv'
    BY <1>1, <1>2 DEF RoleInv
  <2>3. BookedInv' /\ MoneyInv'
    BY <1>1, <1>2 DEF BookedInv, OpenIsBooked, MoneyInv
  <2>4. FirstInv' /\ ProofInv'
    BY <1>1, <1>2 DEF FirstInv, Changing, ProofInv
  <2>5. ChangeInv' /\ FinalInv'
    BY <1>1, <1>2 DEF ChangeInv, Alone, FinalInv
  <2> QED
    BY <2>1, <2>2, <2>3, <2>4, <2>5
<1>4. SubmitInv'
  <2>1. OrderSubmits'
    BY <1>1, <1>2 DEF SubmitInv, CallInv
  <2>2. JobSubmits'
    BY <1>1, <1>2 DEF SubmitInv, CallInv
  <2>3. LoneSubmit'
    BY <1>1, <1>2 DEF SubmitInv, CallInv
  <2> QED
    BY <2>1, <2>2, <2>3 DEF SubmitInv
<1>5. PastInv'
  BY <1>1, <1>2 DEF PastInv, CallInv
<1> QED
  BY <1>2, <1>3, <1>4, <1>5

LEMMA NeverSentKeeps ==
  ASSUME HoldInv, NEW c \in Callers, NeverSent(c), UNCHANGED orderVars
  PROVE  HoldInv'
<1> USE DEF HoldInv
<1>1. /\ call[c].st = "sent"
      /\ Goes(c, "failed", "unsent")
      /\ UNCHANGED <<queued, book>>
      /\ UNCHANGED job
      /\ UNCHANGED <<rows, live, released, submits, places, raced>>
  BY CallGoes DEF NeverSent, orderVars, CallStates, Errors, Fail, postVars
<1>2. TypeOK' /\ FieldTypes
  BY <1>1, TypesOfState, TypesOfSteps, TypesOfFields
<1>3. /\ CallInv' /\ RoleInv' /\ BookedInv' /\ SubmitInv' /\ PastInv' /\ MoneyInv'
      /\ FirstInv' /\ ProofInv' /\ ChangeInv' /\ FinalInv'
  <2>1. CallInv'
    BY <1>1, <1>2 DEF CallInv
  <2>2. RoleInv'
    BY <1>1, <1>2 DEF RoleInv
  <2>3. BookedInv' /\ SubmitInv'
    BY <1>1, <1>2 DEF BookedInv, OpenIsBooked, SubmitInv
  <2>4. PastInv' /\ MoneyInv'
    BY <1>1, <1>2 DEF PastInv, MoneyInv
  <2>5. FirstInv' /\ ProofInv'
    BY <1>1, <1>2 DEF FirstInv, Changing, ProofInv
  <2>6. ChangeInv' /\ FinalInv'
    BY <1>1, <1>2 DEF ChangeInv, Alone, FinalInv
  <2> QED
    BY <2>1, <2>2, <2>3, <2>4, <2>5, <2>6
<1> QED
  BY <1>2, <1>3

\* An attempt is left to the ledger: it is of a process that has a row for it.
LEMMA AttemptAbandonedKeeps ==
  ASSUME HoldInv, NEW c \in Callers, AttemptAbandoned(c), UNCHANGED orderVars
  PROVE  HoldInv'
<1> USE DEF HoldInv
<1>1. call[c].key \in Keys /\ queued \cup {call[c].key} \in SUBSET Keys
  BY TypesOfState DEF AttemptAbandoned, CallInv
<1>2. /\ call[c].st = "sent"
      /\ Goes(c, "failed", "lost")
      /\ queued' = queued \cup {call[c].key} /\ queued' \in SUBSET Keys
      /\ UNCHANGED book
      /\ UNCHANGED job
      /\ UNCHANGED <<rows, live, released, submits, places, raced>>
  BY <1>1, CallGoes, TypesOfState DEF AttemptAbandoned, orderVars, CallStates, Errors, Fail,
    postVars
<1>3. TypeOK' /\ FieldTypes
  BY <1>2, TypesOfState, TypesOfSteps, TypesOfFields
<1>4. CallInv' /\ RoleInv' /\ BookedInv' /\ SubmitInv' /\ FirstInv' /\ FinalInv'
  <2>1. CallInv'
    BY <1>2, <1>3 DEF CallInv
  <2>2. RoleInv'
    BY <1>2, <1>3 DEF RoleInv
  <2>3. BookedInv' /\ SubmitInv'
    BY <1>2, <1>3 DEF BookedInv, OpenIsBooked, SubmitInv
  <2>4. FirstInv'
    BY <1>2, <1>3 DEF FirstInv, Changing
  <2>5. FinalInv'
    BY <1>2, <1>3 DEF FinalInv
  <2> QED
    BY <2>1, <2>2, <2>3, <2>4, <2>5
<1>5. PastInv'
  BY <1>2, <1>3 DEF PastInv, CallInv
<1>6. MoneyInv'
  BY <1>2, <1>3 DEF MoneyInv, CallInv
<1>7. ProofInv'
  BY <1>2, <1>3 DEF ProofInv, CallInv
<1>8. ChangeInv'
  BY <1>2, <1>3 DEF ChangeInv, Alone, CallInv, RoleInv
<1> QED
  BY <1>3, <1>4, <1>5, <1>6, <1>7, <1>8

LEMMA ReplyKeeps ==
  ASSUME HoldInv, NEW c \in Callers, Reply(c), UNCHANGED orderVars
  PROVE  HoldInv'
<1> USE DEF HoldInv
<1>1. /\ call[c].st = "answered"
      /\ Goes(c, IF call[c].err = "none" THEN "ok" ELSE "err", call[c].err)
      /\ UNCHANGED <<queued, book>>
      /\ UNCHANGED job
      /\ UNCHANGED <<rows, live, released, submits, places, raced>>
  BY PostMoves, TypesOfState DEF Reply, orderVars, CallStates, Errors, postVars
<1>2. TypeOK' /\ FieldTypes
  BY <1>1, TypesOfState, TypesOfSteps, TypesOfFields
<1>3. /\ CallInv' /\ RoleInv' /\ BookedInv' /\ SubmitInv' /\ PastInv' /\ MoneyInv'
      /\ FirstInv' /\ ProofInv' /\ ChangeInv' /\ FinalInv'
  <2>1. CallInv'
    BY <1>1, <1>2 DEF CallInv
  <2>2. RoleInv'
    BY <1>1, <1>2 DEF RoleInv
  <2>3. BookedInv' /\ SubmitInv'
    BY <1>1, <1>2 DEF BookedInv, OpenIsBooked, SubmitInv
  <2>4. PastInv' /\ MoneyInv'
    BY <1>1, <1>2 DEF PastInv, MoneyInv
  <2>5. FirstInv'
    BY <1>1, <1>2 DEF FirstInv, Changing
  <2>6. ProofInv'
    BY <1>1, <1>2 DEF ProofInv
  <2>7. ChangeInv'
    BY <1>1, <1>2 DEF ChangeInv, Alone
  <2>8. FinalInv'
    BY <1>1, <1>2 DEF FinalInv
  <2> QED
    BY <2>1, <2>2, <2>3, <2>4, <2>5, <2>6, <2>7, <2>8
<1> QED
  BY <1>2, <1>3

LEMMA ReplyLostKeeps ==
  ASSUME HoldInv, NEW c \in Callers, ReplyLost(c), UNCHANGED orderVars
  PROVE  HoldInv'
<1> USE DEF HoldInv
<1>1. /\ call[c].st = "answered"
      /\ Goes(c, "failed", "lost")
      /\ UNCHANGED <<queued, book>>
      /\ UNCHANGED job
      /\ UNCHANGED <<rows, live, released, submits, places, raced>>
  BY CallGoes DEF ReplyLost, orderVars, CallStates, Errors, Fail, postVars
<1>2. TypeOK' /\ FieldTypes
  BY <1>1, TypesOfState, TypesOfSteps, TypesOfFields
<1>3. /\ CallInv' /\ RoleInv' /\ BookedInv' /\ SubmitInv' /\ PastInv' /\ MoneyInv'
      /\ FirstInv' /\ ProofInv' /\ ChangeInv' /\ FinalInv'
  <2>1. CallInv'
    BY <1>1, <1>2 DEF CallInv
  <2>2. RoleInv'
    BY <1>1, <1>2 DEF RoleInv
  <2>3. BookedInv' /\ SubmitInv'
    BY <1>1, <1>2 DEF BookedInv, OpenIsBooked, SubmitInv
  <2>4. PastInv' /\ MoneyInv'
    BY <1>1, <1>2 DEF PastInv, MoneyInv
  <2>5. FirstInv'
    BY <1>1, <1>2 DEF FirstInv, Changing
  <2>6. ProofInv'
    BY <1>1, <1>2 DEF ProofInv
  <2>7. ChangeInv'
    BY <1>1, <1>2 DEF ChangeInv, Alone
  <2>8. FinalInv'
    BY <1>1, <1>2 DEF FinalInv
  <2> QED
    BY <2>1, <2>2, <2>3, <2>4, <2>5, <2>6, <2>7, <2>8
<1> QED
  BY <1>2, <1>3

LEMMA RetryKeeps ==
  ASSUME HoldInv, NEW c \in Callers, Retry(c), UNCHANGED orderVars
  PROVE  HoldInv'
<1> USE DEF HoldInv
<1>1. /\ call[c].st = "failed"
      /\ OneCall(c)
      /\ call'[c].st = "sent" /\ call'[c].err = "none" /\ call'[c].key = call[c].key
      /\ call'[c].attempts = call[c].attempts + 1
      /\ UNCHANGED <<queued, book>>
      /\ UNCHANGED job
      /\ UNCHANGED <<rows, live, released, submits, places, raced>>
  BY AttemptsGrow, TypesOfState DEF Retry, orderVars, CallStates, Errors, postVars
<1>2. TypeOK' /\ FieldTypes
  BY <1>1, TypesOfState, TypesOfSteps, TypesOfFields
<1>3. /\ CallInv' /\ RoleInv' /\ BookedInv' /\ SubmitInv' /\ PastInv' /\ MoneyInv'
      /\ FirstInv' /\ ChangeInv' /\ FinalInv'
  <2>1. CallInv'
    BY <1>1, <1>2 DEF CallInv
  <2>2. RoleInv'
    BY <1>1, <1>2 DEF RoleInv
  <2>3. BookedInv' /\ SubmitInv'
    BY <1>1, <1>2 DEF BookedInv, OpenIsBooked, SubmitInv
  <2>4. PastInv' /\ MoneyInv'
    BY <1>1, <1>2 DEF PastInv, MoneyInv
  <2>5. FirstInv' /\ ChangeInv'
    BY <1>1, <1>2 DEF FirstInv, Changing, ChangeInv, Alone
  <2>6. FinalInv'
    BY <1>1, <1>2 DEF FinalInv
  <2> QED
    BY <2>1, <2>2, <2>3, <2>4, <2>5, <2>6
<1>4. ProofInv'
  BY <1>1, <1>2 DEF ProofInv, CallInv
<1> QED
  BY <1>2, <1>3, <1>4

LEMMA GiveUpKeeps ==
  ASSUME HoldInv, NEW c \in Callers, GiveUp(c), UNCHANGED orderVars
  PROVE  HoldInv'
<1> USE DEF HoldInv
<1>1. /\ call[c].st = "failed"
      /\ Goes(c, "err", call[c].err)
      /\ UNCHANGED <<queued, book>>
      /\ UNCHANGED job
      /\ UNCHANGED <<rows, live, released, submits, places, raced>>
  BY PostMoves, TypesOfState DEF GiveUp, orderVars, CallStates, Errors, postVars
<1>2. TypeOK' /\ FieldTypes
  BY <1>1, TypesOfState, TypesOfSteps, TypesOfFields
<1>3. /\ CallInv' /\ RoleInv' /\ BookedInv' /\ SubmitInv' /\ PastInv' /\ MoneyInv'
      /\ FirstInv' /\ ProofInv' /\ ChangeInv' /\ FinalInv'
  <2>1. CallInv'
    BY <1>1, <1>2 DEF CallInv
  <2>2. RoleInv'
    BY <1>1, <1>2 DEF RoleInv
  <2>3. BookedInv' /\ SubmitInv'
    BY <1>1, <1>2 DEF BookedInv, OpenIsBooked, SubmitInv
  <2>4. PastInv' /\ MoneyInv'
    BY <1>1, <1>2 DEF PastInv, MoneyInv
  <2>5. FirstInv' /\ ProofInv'
    BY <1>1, <1>2 DEF FirstInv, Changing, ProofInv
  <2>6. ChangeInv' /\ FinalInv'
    BY <1>1, <1>2 DEF ChangeInv, Alone, FinalInv
  <2> QED
    BY <2>1, <2>2, <2>3, <2>4, <2>5, <2>6
<1> QED
  BY <1>2, <1>3

\* A hold is booked for a process that has a row for it.
LEMMA LedgerBooksKeeps ==
  ASSUME HoldInv, NEW c \in Callers, LedgerBooks(c), UNCHANGED orderVars
  PROVE  HoldInv'
<1> USE DEF HoldInv
<1>1. call[c].key \in Keys /\ book \cup {call[c].key} \in SUBSET Keys
  BY TypesOfState DEF LedgerBooks, CallInv
<1>2. /\ call[c].st = "sent"
      /\ Goes(c, "answered", call[c].err)
      /\ book' = book \cup {call[c].key} /\ book' \in SUBSET Keys
      /\ UNCHANGED queued
      /\ UNCHANGED job
      /\ UNCHANGED <<rows, live, released, submits, places, raced>>
  BY <1>1, PostMoves, TypesOfState DEF LedgerBooks, orderVars, CallStates, Errors, postVars
<1>3. TypeOK' /\ FieldTypes
  BY <1>2, TypesOfState, TypesOfSteps, TypesOfFields
<1>4. /\ CallInv' /\ RoleInv' /\ BookedInv' /\ SubmitInv' /\ FirstInv' /\ ChangeInv'
      /\ FinalInv'
  <2>1. CallInv'
    BY <1>2, <1>3 DEF CallInv
  <2>2. RoleInv'
    BY <1>2, <1>3 DEF RoleInv
  <2>3. BookedInv' /\ SubmitInv'
    BY <1>2, <1>3 DEF BookedInv, OpenIsBooked, SubmitInv
  <2>4. FirstInv'
    BY <1>2, <1>3 DEF FirstInv, Changing
  <2>5. ChangeInv' /\ FinalInv'
    BY <1>2, <1>3 DEF ChangeInv, Alone, FinalInv
  <2> QED
    BY <2>1, <2>2, <2>3, <2>4, <2>5
<1>5. PastInv'
  BY <1>2, <1>3 DEF PastInv, CallInv
<1>6. MoneyInv'
  BY <1>2, <1>3 DEF MoneyInv, CallInv
<1>7. ProofInv'
  BY <1>2, <1>3 DEF ProofInv, CallInv
<1> QED
  BY <1>3, <1>4, <1>5, <1>6, <1>7

LEMMA LedgerRefusesKeeps ==
  ASSUME HoldInv, NEW c \in Callers, LedgerRefuses(c), UNCHANGED orderVars
  PROVE  HoldInv'
<1> USE DEF HoldInv
<1>1. /\ call[c].st = "sent" /\ call[c].key \notin book
      /\ Goes(c, "answered", "refused")
      /\ UNCHANGED <<queued, book>>
      /\ UNCHANGED job
      /\ UNCHANGED <<rows, live, released, submits, places, raced>>
  BY CallGoes DEF LedgerRefuses, orderVars, CallStates, Errors, postVars
<1>2. TypeOK' /\ FieldTypes
  BY <1>1, TypesOfState, TypesOfSteps, TypesOfFields
<1>3. /\ CallInv' /\ RoleInv' /\ BookedInv' /\ SubmitInv' /\ PastInv' /\ MoneyInv'
      /\ FirstInv' /\ ProofInv' /\ ChangeInv' /\ FinalInv'
  <2>1. CallInv'
    BY <1>1, <1>2 DEF CallInv
  <2>2. RoleInv'
    BY <1>1, <1>2 DEF RoleInv
  <2>3. BookedInv' /\ SubmitInv'
    BY <1>1, <1>2 DEF BookedInv, OpenIsBooked, SubmitInv
  <2>4. PastInv' /\ MoneyInv'
    BY <1>1, <1>2 DEF PastInv, MoneyInv
  <2>5. FirstInv'
    BY <1>1, <1>2 DEF FirstInv, Changing
  <2>6. ProofInv'
    BY <1>1, <1>2 DEF ProofInv
  <2>7. ChangeInv' /\ FinalInv'
    BY <1>1, <1>2 DEF ChangeInv, Alone, FinalInv
  <2> QED
    BY <2>1, <2>2, <2>3, <2>4, <2>5, <2>6, <2>7
<1> QED
  BY <1>2, <1>3

LEMMA DoorRefusesKeeps ==
  ASSUME HoldInv, NEW c \in Callers, DoorRefuses(c), UNCHANGED orderVars
  PROVE  HoldInv'
<1> USE DEF HoldInv
<1>1. /\ call[c].st = "sent"
      /\ Goes(c, "answered", "door")
      /\ UNCHANGED <<queued, book>>
      /\ UNCHANGED job
      /\ UNCHANGED <<rows, live, released, submits, places, raced>>
  BY CallGoes DEF DoorRefuses, orderVars, CallStates, Errors, postVars
<1>2. TypeOK' /\ FieldTypes
  BY <1>1, TypesOfState, TypesOfSteps, TypesOfFields
<1>3. /\ CallInv' /\ RoleInv' /\ BookedInv' /\ SubmitInv' /\ PastInv' /\ MoneyInv'
      /\ FirstInv' /\ ProofInv' /\ ChangeInv' /\ FinalInv'
  <2>1. CallInv'
    BY <1>1, <1>2 DEF CallInv
  <2>2. RoleInv'
    BY <1>1, <1>2 DEF RoleInv
  <2>3. BookedInv' /\ SubmitInv'
    BY <1>1, <1>2 DEF BookedInv, OpenIsBooked, SubmitInv
  <2>4. PastInv' /\ MoneyInv'
    BY <1>1, <1>2 DEF PastInv, MoneyInv
  <2>5. FirstInv'
    BY <1>1, <1>2 DEF FirstInv, Changing
  <2>6. ProofInv'
    BY <1>1, <1>2 DEF ProofInv
  <2>7. ChangeInv' /\ FinalInv'
    BY <1>1, <1>2 DEF ChangeInv, Alone, FinalInv
  <2> QED
    BY <2>1, <2>2, <2>3, <2>4, <2>5, <2>6, <2>7
<1> QED
  BY <1>2, <1>3

LEMMA QueuedPostBooksKeeps ==
  ASSUME HoldInv, NEW k \in Keys, QueuedPostBooks(k), UNCHANGED orderVars
  PROVE  HoldInv'
<1> USE DEF HoldInv
<1>1. /\ k \in queued
      /\ book' = book \cup {k} /\ book' \in SUBSET Keys
      /\ UNCHANGED <<call, queued>>
      /\ UNCHANGED job
      /\ UNCHANGED <<rows, live, released, submits, places, raced>>
  BY TypesOfState DEF QueuedPostBooks, orderVars, postVars
<1>2. TypeOK' /\ FieldTypes
  BY <1>1, TypesOfState, TypesOfSteps, TypesOfFields
<1>3. /\ CallInv' /\ RoleInv' /\ BookedInv' /\ SubmitInv' /\ PastInv' /\ MoneyInv'
      /\ FirstInv' /\ ProofInv' /\ ChangeInv' /\ FinalInv'
  <2>1. CallInv'
    BY <1>1, <1>2 DEF CallInv
  <2>2. RoleInv'
    BY <1>1, <1>2 DEF RoleInv
  <2>3. BookedInv' /\ SubmitInv'
    BY <1>1, <1>2 DEF BookedInv, OpenIsBooked, SubmitInv
  <2>4. PastInv' /\ MoneyInv'
    BY <1>1, <1>2 DEF PastInv, MoneyInv
  <2>5. FirstInv' /\ ProofInv'
    BY <1>1, <1>2 DEF FirstInv, Changing, ProofInv
  <2>6. ChangeInv' /\ FinalInv'
    BY <1>1, <1>2 DEF ChangeInv, Alone, FinalInv
  <2> QED
    BY <2>1, <2>2, <2>3, <2>4, <2>5, <2>6
<1> QED
  BY <1>2, <1>3

LEMMA QueuedPostsEndKeeps ==
  ASSUME HoldInv, NEW k \in Keys, QueuedPostsEnd(k), UNCHANGED orderVars
  PROVE  HoldInv'
<1> USE DEF HoldInv
<1>1. /\ k \in queued
      /\ queued' = queued \ {k} /\ queued' \in SUBSET Keys
      /\ UNCHANGED <<call, book>>
      /\ UNCHANGED job
      /\ UNCHANGED <<rows, live, released, submits, places, raced>>
  BY TypesOfState DEF QueuedPostsEnd, orderVars, postVars
<1>2. TypeOK' /\ FieldTypes
  BY <1>1, TypesOfState, TypesOfSteps, TypesOfFields
<1>3. /\ CallInv' /\ RoleInv' /\ BookedInv' /\ SubmitInv' /\ PastInv' /\ MoneyInv'
      /\ FirstInv' /\ ProofInv' /\ ChangeInv' /\ FinalInv'
  <2>1. CallInv'
    BY <1>1, <1>2 DEF CallInv
  <2>2. RoleInv'
    BY <1>1, <1>2 DEF RoleInv
  <2>3. BookedInv' /\ SubmitInv'
    BY <1>1, <1>2 DEF BookedInv, OpenIsBooked, SubmitInv
  <2>4. PastInv' /\ MoneyInv'
    BY <1>1, <1>2 DEF PastInv, MoneyInv
  <2>5. FirstInv' /\ ProofInv'
    BY <1>1, <1>2 DEF FirstInv, Changing, ProofInv
  <2>6. ChangeInv' /\ FinalInv'
    BY <1>1, <1>2 DEF ChangeInv, Alone, FinalInv
  <2> QED
    BY <2>1, <2>2, <2>3, <2>4, <2>5, <2>6
<1> QED
  BY <1>2, <1>3

-----------------------------------------------------------------------------
(* The invariant                                                           *)

\* Only a process that is idle has no order.
LEMMA AtWork ==
  ASSUME HoldInv, NEW c \in Callers, ~At(c, "idle")
  PROVE  \E o \in Orders : On(c, o)
BY DEF HoldInv, CallInv

\* A job that ends without a write changes nothing but the job.
LEMMA EndRests ==
  ASSUME HoldInv, NEW c \in Callers, ~At(c, "hold"), End(c), MayNote,
         UNCHANGED <<postVars, rows, live, released, submits, places>>
  PROVE  HoldInv'
BY RestKeeps, EndEnds DEF HoldInv, postVars

LEMMA NothingNoted == ASSUME TypeOK, UNCHANGED raced PROVE MayNote
BY TypesOfState

LEMMA FindKeeps ==
  ASSUME HoldInv, NEW c \in Callers, NEW o \in Orders, On(c, o),
         FindForPlace(c) \/ FindForSweep(c) \/ FindForCancel(c) \/ FindForReconcile(c)
  PROVE  HoldInv'
<1>1. TypeOK
  BY DEF HoldInv
<1>2. CASE FindForPlace(c)
  <2>1. MayNote
    BY <1>1, <1>2, NothingNoted DEF FindForPlace, JobOnly
  <2>2. CASE St(c) = "none"
    BY <1>2, <2>2, FindInsertKeeps
  <2>3. CASE St(c) = "hold_unknown"
    BY <1>2, <2>1, <2>3, FindResumeKeeps DEF FindForPlace, JobOnly, postVars
  <2>4. CASE St(c) \notin {"none", "hold_unknown"}
    BY <1>2, <2>1, <2>4, EndRests DEF FindForPlace, JobOnly
  <2> QED
    BY <2>2, <2>3, <2>4
<1>3. CASE FindForSweep(c)
  <2>1. MayNote
    BY <1>1, <1>3, NothingNoted DEF FindForSweep, JobOnly
  <2>2. CASE St(c) = "hold_unknown"
    BY <1>3, <2>1, <2>2, FindResumeKeeps DEF FindForSweep, JobOnly, postVars
  <2>3. CASE St(c) # "hold_unknown"
    BY <1>3, <2>1, <2>3, EndRests DEF FindForSweep, JobOnly
  <2> QED
    BY <2>2, <2>3
<1>4. CASE FindForCancel(c)
  <2>1. MayNote
    BY <1>1, <1>4, TypesOfState DEF FindForCancel, NoteFind, Note, Races
  <2>2. CASE St(c) = "hold_unknown"
    BY <1>4, <2>1, <2>2, FindResumeKeeps DEF FindForCancel, postVars
  <2>3. CASE St(c) \in Working
    BY <1>4, <2>3, FindEngineKeeps
  <2>4. CASE St(c) \notin Working \cup {"hold_unknown"}
    BY <1>4, <2>1, <2>4, EndRests DEF FindForCancel
  <2> QED
    BY <2>2, <2>3, <2>4
<1>5. CASE FindForReconcile(c)
  <2>1. MayNote
    BY <1>1, <1>5, TypesOfState DEF FindForReconcile, NoteFind, Note, Races
  <2>2. CASE St(c) = "pending" /\ ~Held(o)
    BY <1>5, <2>2, FindDropKeeps
  <2>3. CASE St(c) \in Working /\ (St(c) # "pending" \/ Held(o))
    BY <1>5, <2>3, FindListKeeps
  <2>4. CASE St(c) \notin Working
    BY <1>5, <2>1, <2>4, EndRests DEF FindForReconcile
  <2> QED
    BY <2>2, <2>3, <2>4
<1> QED
  BY <1>2, <1>3, <1>4, <1>5

LEMMA PlacementKeeps ==
  ASSUME HoldInv, NEW c \in Callers, NEW o \in Orders, On(c, o),
         \/ Insert(c) \/ PostHold(c) \/ HoldPosted(c) \/ HoldFailed(c)
         \/ DeleteRefused(c) \/ MarkHoldUnknown(c) \/ ReadHold(c)
  PROVE  HoldInv'
<1>1. TypeOK
  BY DEF HoldInv
<1>2. CASE Insert(c)
  <2>1. CASE St(c) = "none"
    BY <1>2, <2>1, InsertNewKeeps
  <2>2. CASE St(c) # "none"
    <3>1. MayNote
      BY <1>1, <1>2, TypesOfState DEF Insert, Note, Races
    <3> QED
      BY <1>2, <2>2, <3>1, EndRests DEF Insert, Where
  <2> QED
    BY <2>1, <2>2
<1>3. CASE PostHold(c)
  BY <1>3, PostHoldKeeps
<1>4. CASE HoldPosted(c)
  BY <1>4, HoldPostedFirstKeeps, HoldPostedRepostKeeps
<1>5. CASE HoldFailed(c)
  BY <1>5, HoldFailedRepostKeeps, HoldFailedUnknownKeeps, HoldFailedRefusedKeeps
<1>6. CASE DeleteRefused(c)
  <2>1. CASE St(c) = "pending"
    BY <1>6, <2>1, DeleteRefusedKeeps
  <2>2. CASE St(c) # "pending"
    BY <1>1, <1>6, <2>2, NothingNoted, EndRests DEF DeleteRefused, Where, RowsOnly
  <2> QED
    BY <2>1, <2>2
<1>7. CASE MarkHoldUnknown(c)
  BY <1>7, MarkHoldUnknownKeeps, MarkGoneKeeps
<1>8. CASE ReadHold(c)
  <2>1. CASE o \in book
    BY <1>8, <2>1, ReadBookedKeeps
  <2>2. CASE o \notin book
    BY <1>1, <1>8, <2>2, NothingNoted, EndRests DEF ReadHold, JobOnly
  <2> QED
    BY <2>1, <2>2
<1> QED
  BY <1>2, <1>3, <1>4, <1>5, <1>6, <1>7, <1>8

LEMMA SubmitKeeps ==
  ASSUME HoldInv, NEW c \in Callers, NEW o \in Orders, On(c, o), Open(c) \/ Submit(c) \/ Recover(c)
  PROVE  HoldInv'
<1>1. TypeOK
  BY DEF HoldInv
<1>2. CASE Open(c)
  <2>1. CASE St(c) \in {"pending", "hold_unknown"}
    BY <1>2, <2>1, OpenRowKeeps
  <2>2. CASE St(c) \notin {"pending", "hold_unknown"}
    BY <1>1, <1>2, <2>2, NothingNoted, EndRests DEF Open, Where, RowsOnly
  <2> QED
    BY <2>1, <2>2
<1>3. CASE Submit(c)
  <2>1. CASE live' = live \cup {o} /\ End(c)
    BY <1>3, <2>1, SubmitAcceptedKeeps
  <2>2. CASE live' = live /\ job' = [job EXCEPT ![c].pc = "finalize", ![c].end = "rejected"]
    BY <1>3, <2>2, SubmitRejectedKeeps
  <2>3. CASE live' \in {live, live \cup {o}} /\ Goto(c, "recover")
    BY <1>3, <2>3, SubmitLostKeeps
  <2> QED
    BY <1>3, <2>1, <2>2, <2>3 DEF Submit
<1>4. CASE Recover(c)
  <2>1. CASE St(c) \in Working
    BY <1>4, <2>1, RecoverRowKeeps
  <2>2. CASE St(c) \notin Working
    BY <1>1, <1>4, <2>2, NothingNoted, EndRests DEF Recover, Where, RowsOnly
  <2> QED
    BY <2>1, <2>2
<1> QED
  BY <1>2, <1>3, <1>4

LEMMA ResumingKeeps ==
  ASSUME HoldInv, NEW c \in Callers, NEW o \in Orders, On(c, o),
         Resume(c) \/ Wait(c) \/ Touch(c) \/ Drop(c) \/ Gates(c) \/ Claim(c)
  PROVE  HoldInv'
<1>1. TypeOK
  BY DEF HoldInv
<1>2. CASE Resume(c)
  <2>1. CASE o \notin book
    <3>1. Goto(c, "wait")
      BY <1>2, <2>1 DEF Resume
    <3> QED
      BY <1>2, <2>1, <3>1, ResumeWaitKeeps
  <2>2. CASE o \in book
    BY <1>2, <2>2, ResumeClaimKeeps, ResumeGatesKeeps
  <2> QED
    BY <2>1, <2>2
<1>3. CASE Wait(c)
  <2>1. CASE Goto(c, "drop")
    BY <1>3, <2>1, WaitDropKeeps
  <2>2. CASE job[c].src = "place" /\ Goto(c, "touch")
    BY <1>3, <2>2, WaitTouchKeeps
  <2>3. CASE End(c)
    BY <1>1, <1>3, <2>3, NothingNoted, EndRests DEF Wait, JobOnly
  <2> QED
    BY <1>3, <2>1, <2>2, <2>3 DEF Wait
<1>4. CASE Touch(c)
  <2>1. CASE /\ St(c) = "hold_unknown" /\ Write(o, "hold_unknown")
             /\ job' = [job EXCEPT ![c].pc = "postHold", ![c].end = "repost"]
    BY <1>4, <2>1, TouchRowKeeps
  <2>2. CASE End(c) /\ UNCHANGED rows
    BY <1>1, <1>4, <2>2, NothingNoted, EndRests DEF Touch, RowsOnly
  <2> QED
    BY <1>4, <2>1, <2>2 DEF Touch, Where
<1>5. CASE Drop(c)
  <2> DEFINE from == IF job[c].src = "reconcile" THEN "pending" ELSE "hold_unknown"
             st == IF job[c].src = "cancel" THEN "cancelled" ELSE "none"
  <2>1. CASE rows[o].past /\ St(c) = from
    <3>1. RowTo(o, st)
      BY <1>1, <1>5, <2>1, WriteWrites, DeleteDeletes DEF Drop, Where
    <3>2. End(c)
      BY <1>5, <2>1 DEF Drop, Where
    <3> QED
      BY <1>5, <2>1, <3>1, <3>2, DropRowKeeps
  <2>2. CASE ~(rows[o].past /\ St(c) = from)
    BY <1>1, <1>5, <2>2, NothingNoted, EndRests DEF Drop, Where, RowsOnly
  <2> QED
    BY <2>1, <2>2
<1>6. CASE Gates(c)
  BY <1>6, GatesOpenKeeps, GatesRefuseKeeps DEF Gates
<1>7. CASE Claim(c)
  <2>1. CASE St(c) = "hold_unknown"
    BY <1>7, <2>1, ClaimRowKeeps
  <2>2. CASE St(c) # "hold_unknown"
    BY <1>1, <1>7, <2>2, NothingNoted, EndRests DEF Claim, Where, RowsOnly
  <2> QED
    BY <2>1, <2>2
<1> QED
  BY <1>2, <1>3, <1>4, <1>5, <1>6, <1>7

LEMMA EndingKeeps ==
  ASSUME HoldInv, NEW c \in Callers, NEW o \in Orders, On(c, o),
         EngineCancel(c) \/ List(c) \/ Finalize(c)
  PROVE  HoldInv'
<1>1. TypeOK
  BY DEF HoldInv
<1>2. CASE EngineCancel(c)
  <2>1. CASE o \in live /\ live' = live \ {o} /\ Goto(c, "finalize")
    BY <1>2, <2>1, EngineCancelledKeeps
  <2>2. CASE o \notin live /\ live' = live /\ (Goto(c, "list") \/ Goto(c, "finalize"))
    BY <1>2, <2>2, EngineMissedCancelKeeps, EngineMissedReconcileKeeps
  <2>3. CASE live' \in {live, live \ {o}} /\ job[c].src = "cancel" /\ Goto(c, "recover")
    BY <1>2, <2>3, EngineLostCancelKeeps
  <2>4. CASE live' \in {live, live \ {o}} /\ End(c)
    BY <1>2, <2>4, EngineLostReconcileKeeps
  <2> QED
    BY <1>2, <2>1, <2>2, <2>3, <2>4 DEF EngineCancel
<1>3. CASE List(c)
  <2>1. CASE o \notin live
    <3>1. Goto(c, "finalize")
      BY <1>3, <2>1 DEF List
    <3> QED
      BY <1>3, <2>1, <3>1, ListGoneKeeps
  <2>2. CASE job[c].src = "cancel" /\ Goto(c, "recover")
    BY <1>3, <2>2, ListRecoverKeeps
  <2>3. CASE ~Held(o) /\ Goto(c, "finalize")
    BY <1>3, <2>3, ListUnheldKeeps
  <2>4. CASE Goto(c, "engine")
    BY <1>3, <2>4, ListEngineKeeps
  <2>5. CASE End(c)
    BY <1>1, <1>3, <2>5, NothingNoted, EndRests DEF List, JobOnly
  <2> QED
    BY <1>3, <2>1, <2>2, <2>3, <2>4, <2>5 DEF List
<1>4. CASE Finalize(c)
  <2>1. CASE St(c) \in Working
    BY <1>4, <2>1, FinalizeCommitsKeeps, FinalizeCrashesKeeps DEF Finalize
  <2>2. CASE St(c) \notin Working
    BY <1>1, <1>4, <2>2, NothingNoted, EndRests DEF Finalize
  <2> QED
    BY <2>1, <2>2
<1> QED
  BY <1>2, <1>3, <1>4

LEMMA JobStepKeeps == ASSUME HoldInv, NEW c \in Callers, JobStep(c) PROVE HoldInv'
<1>1. ~At(c, "idle")
  <2>1. CASE FindForPlace(c) \/ FindForSweep(c) \/ FindForCancel(c) \/ FindForReconcile(c)
    BY <2>1 DEF FindForPlace, FindForSweep, FindForCancel, FindForReconcile
  <2>2. CASE \/ Insert(c) \/ PostHold(c) \/ HoldPosted(c) \/ HoldFailed(c)
             \/ DeleteRefused(c) \/ MarkHoldUnknown(c) \/ ReadHold(c)
    BY <2>2 DEF Insert, PostHold, HoldPosted, HoldFailed, DeleteRefused, MarkHoldUnknown, ReadHold
  <2>3. CASE Open(c) \/ Submit(c) \/ Recover(c)
    BY <2>3 DEF Open, Submit, Recover
  <2>4. CASE Resume(c) \/ Wait(c) \/ Touch(c) \/ Drop(c) \/ Gates(c) \/ Claim(c)
    BY <2>4 DEF Resume, Wait, Touch, Drop, Gates, Claim
  <2>5. CASE EngineCancel(c) \/ List(c) \/ Finalize(c)
    BY <2>5 DEF EngineCancel, List, Finalize
  <2> QED
    BY <2>1, <2>2, <2>3, <2>4, <2>5, Zenon DEF JobStep
<1>2. PICK o \in Orders : On(c, o)
  BY <1>1, AtWork
<1> QED
  BY <1>2, FindKeeps, PlacementKeeps, SubmitKeeps, ResumingKeeps, EndingKeeps, Zenon DEF JobStep

LEMMA TakeUpKeeps ==
  ASSUME HoldInv, NEW c \in Callers, NEW o \in Orders,
         Place(c, o) \/ Sweep(c, o) \/ \E src \in {"cancel", "reconcile"} : Cancel(c, o, src)
  PROVE  HoldInv'
<1>1. TypeOK /\ places \in [Orders -> 0 .. MaxPlaces]
  BY TypesOfState DEF HoldInv
<1>2. CASE Place(c, o)
  <2>1. places' \in [Orders -> 0 .. MaxPlaces]
    BY <1>1, <1>2 DEF Place
  <2> QED
    BY <1>2, <2>1, StartKeeps DEF Place, postVars
<1>3. CASE Sweep(c, o)
  BY <1>1, <1>3, StartKeeps DEF Sweep, JobOnly, postVars
<1>4. CASE \E src \in {"cancel", "reconcile"} : Cancel(c, o, src)
  BY <1>1, <1>4, StartKeeps DEF Cancel, JobOnly, postVars
<1> QED
  BY <1>2, <1>3, <1>4

LEMMA PostStepKeeps == ASSUME HoldInv, PostStep, UNCHANGED orderVars PROVE HoldInv'
<1>1. ASSUME NEW c \in Callers,
             \/ NeverSent(c) \/ AttemptAbandoned(c) \/ Reply(c) \/ ReplyLost(c)
             \/ Retry(c) \/ GiveUp(c) \/ LedgerBooks(c) \/ LedgerRefuses(c) \/ DoorRefuses(c)
      PROVE  HoldInv'
  BY <1>1, NeverSentKeeps, AttemptAbandonedKeeps, ReplyKeeps, ReplyLostKeeps, RetryKeeps,
     GiveUpKeeps,
    LedgerBooksKeeps, LedgerRefusesKeeps, DoorRefusesKeeps, Zenon
<1>2. ASSUME NEW k \in Keys, QueuedPostBooks(k) \/ QueuedPostsEnd(k)
      PROVE  HoldInv'
  BY <1>2, QueuedPostBooksKeeps, QueuedPostsEndKeeps, Zenon
<1> QED
  BY <1>1, <1>2, Zenon DEF PostStep

LEMMA StutterKeeps == ASSUME HoldInv, UNCHANGED vars PROVE HoldInv'
<1> USE DEF HoldInv
<1>1. UNCHANGED <<call, queued, book, rows, job, live, released, submits, places, raced>>
  BY DEF vars, postVars, orderVars
<1>2. TypeOK'
  BY <1>1, TypesOfState, TypesOfSteps
<1>3. CallInv' /\ RoleInv' /\ BookedInv' /\ SubmitInv' /\ PastInv'
  <2>1. CallInv'
    BY <1>1 DEF CallInv
  <2>2. RoleInv'
    BY <1>1 DEF RoleInv
  <2>3. BookedInv'
    BY <1>1 DEF BookedInv, OpenIsBooked
  <2>4. SubmitInv'
    <3>1. OrderSubmits'
      BY <1>1 DEF SubmitInv
    <3>2. JobSubmits'
      BY <1>1 DEF SubmitInv
    <3>3. LoneSubmit'
      BY <1>1 DEF SubmitInv
    <3> QED
      BY <3>1, <3>2, <3>3 DEF SubmitInv
  <2>5. PastInv'
    BY <1>1 DEF PastInv
  <2> QED
    BY <2>1, <2>2, <2>3, <2>4, <2>5
<1>4. MoneyInv' /\ FirstInv' /\ ProofInv' /\ ChangeInv' /\ FinalInv'
  <2>1. MoneyInv' /\ FirstInv'
    BY <1>1 DEF MoneyInv, FirstInv, Changing
  <2>2. ProofInv' /\ ChangeInv'
    BY <1>1 DEF ProofInv, ChangeInv, Alone
  <2>3. FinalInv'
    BY <1>1 DEF FinalInv
  <2> QED
    BY <2>1, <2>2, <2>3
<1> QED
  BY <1>2, <1>3, <1>4

LEMMA InitHolds == Init => HoldInv
<1> SUFFICES ASSUME Init
             PROVE  HoldInv
  OBVIOUS
<1>1. /\ \A c \in Callers : /\ job[c].pc = "idle" /\ job[c].order = NoOrder
                            /\ job[c].src = "none" /\ job[c].end = "none"
                            /\ call[c].st = "idle" /\ call[c].key = NoKey
      /\ queued = {} /\ book = {} /\ live = {} /\ released = {}
      /\ \A o \in Orders : rows[o].st = "none" /\ ~rows[o].past /\ submits[o] = 0 /\ raced[o] = {}
  BY NoJobIsJob, NoCallIsCall DEF Init, PostInit, NoRow
<1>2. TypeOK
  <2>1. /\ job \in [Callers -> JobType] /\ call \in [Callers -> CallType]
        /\ rows \in [Orders -> RowType]
    BY NoJobIsJob, NoCallIsCall DEF Init, PostInit, NoRow, RowType
  <2> QED
    BY <1>1, <2>1 DEF Init, TypeOK, PostTypeOK, JobType, RowType
<1>3. CallInv /\ RoleInv /\ BookedInv /\ SubmitInv /\ PastInv
  BY <1>1 DEF CallInv, RoleInv, BookedInv, OpenIsBooked, SubmitInv, PastInv
<1>4. MoneyInv /\ FirstInv /\ ProofInv /\ ChangeInv /\ FinalInv
  BY <1>1 DEF MoneyInv, FirstInv, Changing, ProofInv, ChangeInv, Alone, FinalInv
<1> QED
  BY <1>2, <1>3, <1>4 DEF HoldInv

LEMMA NextKeeps == HoldInv /\ [Next]_vars => HoldInv'
<1> SUFFICES ASSUME HoldInv, [Next]_vars
             PROVE  HoldInv'
  OBVIOUS
<1>1. ASSUME NEW c \in Callers, JobStep(c)
      PROVE  HoldInv'
  BY <1>1, JobStepKeeps
<1>2. ASSUME NEW c \in Callers, Stop(c)
      PROVE  HoldInv'
  <2>1. PICK o \in Orders : On(c, o)
    BY <1>2, AtWork DEF Stop
  <2> QED
    BY <1>2, <2>1, StopKeeps
<1>3. ASSUME NEW c \in Callers, NEW o \in Orders,
             Place(c, o) \/ Sweep(c, o) \/ \E src \in {"cancel", "reconcile"} : Cancel(c, o, src)
      PROVE  HoldInv'
  BY <1>3, TakeUpKeeps
<1>4. CASE PostStep /\ UNCHANGED orderVars
  BY <1>4, PostStepKeeps
<1>5. ASSUME NEW o \in Orders, Age(o)
      PROVE  HoldInv'
  BY <1>5, AgeKeeps
<1>6. CASE UNCHANGED vars
  BY <1>6, StutterKeeps
<1> QED
  BY <1>1, <1>2, <1>3, <1>4, <1>5, <1>6, Zenon DEF Next

\* The inductive invariant holds of every behaviour of the orders.
THEOREM HoldInvariant == Spec => []HoldInv
<1> QED
  BY InitHolds, NextKeeps, PTL DEF Spec

-----------------------------------------------------------------------------
(* What it says of the orders, their money and the engine                  *)

\* An order is opened on a booked hold only, and submitted at most once, whoever
\* retries, sweeps, cancels or reconciles it.
THEOREM OrdersStayConsistent == Spec => []OrdersConsistent
<1>1. HoldInv => OrdersConsistent
  BY DEF HoldInv, OrdersConsistent, SubmittedOnce, SubmitInv, BookedInv
<1> QED
  BY <1>1, HoldInvariant, PTL

\* A hold that is booked and not released has a row that somebody still works on,
\* unless a refusal was taken for more than it was or a cancel met the placement.
THEOREM MoneyKeepsItsRow == Spec => []MoneyHasLiveRow
<1>1. HoldInv => MoneyHasLiveRow
  <2> SUFFICES ASSUME HoldInv, NEW o \in book \ released, raced[o] \cap {"proof", "cancel"} = {}
               PROVE  rows[o].st \in Working \cup {"hold_unknown"}
    BY DEF MoneyHasLiveRow
  <2>1. o \in Orders
    BY TypesOfState DEF HoldInv
  <2>2. Clean(o)
    OBVIOUS
  <2> QED
    BY <2>1, <2>2 DEF HoldInv, MoneyInv
<1> QED
  BY <1>1, HoldInvariant, PTL

\* The engine has an order on a book only while its hold is booked and not released,
\* unless a process died inside finalize or a cancel met the placement.
THEOREM EngineStaysFunded == Spec => []EngineIsFunded
<1>1. HoldInv => EngineIsFunded
  <2> SUFFICES ASSUME HoldInv, NEW o \in live, raced[o] \cap {"crash", "cancel"} = {}
               PROVE  o \in book \ released
    BY DEF EngineIsFunded
  <2>1. o \in Orders
    BY TypesOfState DEF HoldInv
  <2>2. Funded(o)
    OBVIOUS
  <2> QED
    BY <2>1, <2>2 DEF HoldInv, FinalInv
<1> QED
  BY <1>1, HoldInvariant, PTL
=============================================================================
