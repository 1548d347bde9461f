----------------------------- MODULE OrderHold -----------------------------
(***************************************************************************)
(* An order and its hold in svc-trade, from the intent row to the engine:  *)
(* placement, the unknown outcome of a hold post, the retry of the same    *)
(* order, the sweep, the cancel and the operator's reconcile               *)
(* (services/svc-trade/src/spot/trade-service/order-place.ts, holds.ts,    *)
(* order-change.ts, reconcile.ts, spot/hold-outcome.ts).  The ledger call  *)
(* is that of PostClient; its keys are the ids of the orders, booked means *)
(* the hold is.  Fills are in OrderSettle.                                 *)
(*                                                                         *)
(* The engine is the set of orders it has live.  A call of the engine may  *)
(* lose its answer, and has then happened or not; it does not happen later.*)
(***************************************************************************)
EXTENDS PostClient

CONSTANTS
  NoOrder,            \* a process that works on no order
  MaxPlaces   \* bound: how often the owner places the same order

Orders == Keys

ASSUME OrderHoldConstants ==
  /\ NoOrder \notin Orders
  /\ MaxPlaces \in Nat

VARIABLES
  rows,      \* trade.orders: [st, past]; past: updated_at is beyond the
             \* in-flight bound HOLD_UNKNOWN_IN_FLIGHT_BOUND_SECONDS
  job,       \* per process: [pc, order, src, end]
  live,      \* orders the matching engine has on a book
  released,  \* orders whose hold went back under order.release:<id>:0
  submits,   \* history: how often an order was submitted
  places,    \* how often an order was placed
  raced      \* history: what befell an order, of Races

orderVars == <<rows, job, live, released, submits, places, raced>>
vars == <<postVars, orderVars>>

Statuses == {"none", "pending", "hold_unknown", "open", "recovery_required", "cancelled", "rejected"}
Working == {"pending", "open", "recovery_required"}
\* "cancel": a cancel or a reconcile read the row while a placement was at work.
\* "crash": the process died after the release of finalize, before its commit.
\* "proof": a refusal was taken as proof after a lost attempt or at a door.
Races == {"cancel", "crash", "proof"}
NoRow == [st |-> "none", past |-> FALSE]
NoJob == [pc |-> "idle", order |-> NoOrder, src |-> "none", end |-> "none"]
Steps ==
  {"idle", "find", "insert", "postHold", "hold", "delete", "mark", "read", "open", "submit",
   "resume", "wait", "touch", "drop", "gates", "claim", "engine", "list", "recover", "finalize"}

Init ==
  /\ PostInit
  /\ rows = [o \in Orders |-> NoRow]
  /\ job = [c \in Callers |-> NoJob]
  /\ live = {}
  /\ released = {}
  /\ submits = [o \in Orders |-> 0]
  /\ places = [o \in Orders |-> 0]
  /\ raced = [o \in Orders |-> {}]

At(c, pc) == job[c].pc = pc
Of(c) == job[c].order
St(c) == rows[Of(c)].st
Goto(c, pc) == job' = [job EXCEPT ![c].pc = pc]
End(c) == job' = [job EXCEPT ![c] = NoJob]

\* UPDATE trade.orders SET status = st, updated_at = now()
Write(o, st) == rows' = [rows EXCEPT ![o] = [st |-> st, past |-> FALSE]]

\* UPDATE or DELETE ... WHERE status IN from: what it does and where it leads,
\* or where it leads when no row matches
Where(c, from, st, then, otherwise) ==
  IF St(c) \in from
    THEN (IF st = "none" THEN rows' = [rows EXCEPT ![Of(c)] = NoRow] ELSE Write(Of(c), st)) /\ then
    ELSE UNCHANGED rows /\ otherwise

JobOnly == UNCHANGED <<postVars, rows, live, released, submits, places, raced>>
RowsOnly == UNCHANGED <<postVars, live, released, submits, places, raced>>

-----------------------------------------------------------------------------
(* What a failed hold post is taken for.                                   *)

\* classifyHoldPostError: ledger.unauthenticated is on its list beside the
\* refusals of the engine ("door" here), and the attempts are not counted.
ClassifyHoldPostError(err) ==
  CASE err \in {"refused", "door"} -> "refused"
    [] err = "unsent"              -> "unsent"
    [] OTHER                       -> "unknown"

-----------------------------------------------------------------------------
(* placeOrder: a process takes the order up.                               *)

Start(c, o, src) ==
  /\ At(c, "idle")
  /\ job' = [job EXCEPT ![c] = [pc |-> "find", order |-> o, src |-> src, end |-> "cancelled"]]

Place(c, o) ==
  /\ Start(c, o, "place")
  /\ places[o] < MaxPlaces
  /\ places' = [places EXCEPT ![o] = @ + 1]
  /\ UNCHANGED <<postVars, rows, live, released, submits, raced>>

\* sweepHoldUnknown, at its interval
Sweep(c, o) ==
  /\ rows[o].st = "hold_unknown"
  /\ Start(c, o, "sweep")
  /\ JobOnly

\* cancelOrder by the owner, reconcileOrder by an operator
Cancel(c, o, src) ==
  /\ Start(c, o, src)
  /\ JobOnly

\* findOrder: an order that has a row is not placed again.
FindForPlace(c) ==
  /\ At(c, "find") /\ job[c].src = "place"
  /\ CASE St(c) = "none"         -> Goto(c, "insert")
       [] St(c) = "hold_unknown" -> Goto(c, "resume")
       [] OTHER                  -> End(c)
  /\ JobOnly

FindForSweep(c) ==
  /\ At(c, "find") /\ job[c].src = "sweep"
  /\ IF St(c) = "hold_unknown" THEN Goto(c, "resume") ELSE End(c)
  /\ JobOnly

\* Somebody is placing or resolving o, or a post of its hold is at the ledger.
Unsettled(o) ==
  o \in queued \/ \E c \in Callers : job[c].order = o /\ job[c].src \in {"place", "sweep"}

Changing(o) ==
  \E c \in Callers : job[c].order = o /\ job[c].src \in {"cancel", "reconcile"} /\ ~At(c, "find")

Note(o, race, happens) ==
  raced' = IF happens THEN [raced EXCEPT ![o] = @ \cup {race}] ELSE raced

\* A cancel or a reconcile reads the row of an order somebody is placing.
NoteFind(c) == Note(Of(c), "cancel", rows[Of(c)].st # "hold_unknown" /\ Unsettled(Of(c)))

FindForCancel(c) ==
  /\ At(c, "find") /\ job[c].src = "cancel"
  /\ CASE St(c) = "hold_unknown" -> Goto(c, "resume")
       [] St(c) \in Working      -> Goto(c, "engine")
       [] OTHER                  -> End(c)
  /\ NoteFind(c)
  /\ UNCHANGED <<postVars, rows, live, released, submits, places>>

\* The balance of the order's hold account is not zero.
Held(o) == o \in book \ released

\* reconcileOrder: a pending row without a hold is deleted past the bound,
\* anything else is looked for in the engine first.
FindForReconcile(c) ==
  /\ At(c, "find") /\ job[c].src = "reconcile"
  /\ IF St(c) \in Working
       THEN Goto(c, IF St(c) = "pending" /\ ~Held(Of(c)) THEN "drop" ELSE "list")
       ELSE End(c)
  /\ NoteFind(c)
  /\ UNCHANGED <<postVars, rows, live, released, submits, places>>

\* INSERT ... ON CONFLICT DO NOTHING: the loser of a race returns the row.
Insert(c) ==
  /\ At(c, "insert")
  /\ Where(c, {"none"}, "pending", Goto(c, "postHold"), End(c))
  /\ Note(Of(c), "cancel", Changing(Of(c)))
  /\ UNCHANGED <<postVars, live, released, submits, places>>

\* executeAdmittedOrder and repostAbsentHold
PostHold(c) ==
  /\ At(c, "postHold")
  /\ BeginPost(c, Of(c))
  /\ Goto(c, "hold")
  /\ UNCHANGED <<rows, live, released, submits, places, raced>>

HoldPosted(c) ==
  /\ At(c, "hold") /\ call[c].st = "ok"
  /\ LetGo(c)
  /\ Goto(c, IF job[c].end = "repost" THEN "gates" ELSE "open")
  /\ UNCHANGED <<rows, live, released, submits, places, raced>>

\* A re-post that fails keeps the row whatever the error says.
HoldFailed(c) ==
  /\ At(c, "hold") /\ call[c].st = "err"
  /\ LetGo(c)
  /\ IF job[c].end = "repost" THEN End(c)
     ELSE Goto(c, IF ClassifyHoldPostError(call[c].err) = "unknown" THEN "mark" ELSE "delete")
  /\ Note(Of(c), "proof", /\ ClassifyHoldPostError(call[c].err) # "unknown"
                          /\ ~ProvesPostNotCommitted(call[c].err, call[c].attempts))
  /\ UNCHANGED <<rows, live, released, submits, places>>

DeleteRefused(c) ==
  /\ At(c, "delete")
  /\ Where(c, {"pending"}, "none", End(c), End(c))
  /\ RowsOnly

MarkHoldUnknown(c) ==
  /\ At(c, "mark")
  /\ Where(c, {"pending"}, "hold_unknown", Goto(c, "read"), Goto(c, "read"))
  /\ RowsOnly

\* readHoldByKey: absent says nothing yet.
ReadHold(c) ==
  /\ At(c, "read")
  /\ IF Of(c) \in book THEN Goto(c, "open") ELSE End(c)
  /\ JobOnly

-----------------------------------------------------------------------------
(* openAndSubmit                                                           *)

\* The claim: one process turns the row open.
Open(c) ==
  /\ At(c, "open")
  /\ Where(c, {"pending", "hold_unknown"}, "open", Goto(c, "submit"), End(c))
  /\ RowsOnly

Bump(n) == IF n < 2 THEN n + 1 ELSE n

\* Mutant of Submit: a submit that lost its answer is sent again.
SubmitAgain(c) ==
  /\ At(c, "submit")
  /\ submits' = [submits EXCEPT ![Of(c)] = Bump(@)]
  /\ live' \in {live, live \cup {Of(c)}}
  /\ IF live' = live THEN UNCHANGED job ELSE End(c)
  /\ UNCHANGED <<postVars, rows, released, places, raced>>

\* matching.submit is accepted, is rejected, or loses its answer.
Submit(c) ==
  /\ At(c, "submit")
  /\ submits' = [submits EXCEPT ![Of(c)] = Bump(@)]
  /\ \/ live' = live \cup {Of(c)} /\ End(c)
     \/ live' = live /\ job' = [job EXCEPT ![c].pc = "finalize", ![c].end = "rejected"]
     \/ live' \in {live, live \cup {Of(c)}} /\ Goto(c, "recover")
  /\ UNCHANGED <<postVars, rows, released, places, raced>>

\* markRecoveryRequired
Recover(c) ==
  /\ At(c, "recover")
  /\ Where(c, Working, "recovery_required", End(c), End(c))
  /\ RowsOnly

-----------------------------------------------------------------------------
(* resumeHoldUnknown, and the cancel of such a row                         *)

Resume(c) ==
  /\ At(c, "resume")
  /\ IF Of(c) \notin book THEN Goto(c, "wait")
     ELSE Goto(c, IF job[c].src = "cancel" THEN "claim" ELSE "gates")
  /\ JobOnly

\* holdUnknownWaitSeconds: inside the bound only the owner's retry goes on.
Wait(c) ==
  /\ At(c, "wait")
  /\ IF St(c) # "hold_unknown" \/ rows[Of(c)].past THEN Goto(c, "drop")
     ELSE IF job[c].src = "place" THEN Goto(c, "touch") ELSE End(c)
  /\ JobOnly

\* repostAbsentHold: the gates may refuse; updated_at moves before the post.
Touch(c) ==
  /\ At(c, "touch")
  /\ \/ Where(c, {"hold_unknown"}, "hold_unknown",
              job' = [job EXCEPT ![c].pc = "postHold", ![c].end = "repost"], End(c))
     \/ End(c) /\ UNCHANGED rows
  /\ RowsOnly

\* Mutant of Drop: the age is not looked at again when the row is deleted.
DropUnaged(c) ==
  LET from == IF job[c].src = "reconcile" THEN {"pending"} ELSE {"hold_unknown"} IN
  /\ At(c, "drop")
  /\ Where(c, from, IF job[c].src = "cancel" THEN "cancelled" ELSE "none", End(c), End(c))
  /\ RowsOnly

\* deleteAbsentHoldUnknownPastBound, cancelAbsentHoldUnknownPastBound, and the
\* delete of an orphan pending row: all repeat the bound in the statement.
Drop(c) ==
  LET from == IF job[c].src = "reconcile" THEN {"pending"} ELSE {"hold_unknown"} IN
  /\ At(c, "drop")
  /\ IF rows[Of(c)].past
       THEN Where(c, from, IF job[c].src = "cancel" THEN "cancelled" ELSE "none", End(c), End(c))
       ELSE UNCHANGED rows /\ End(c)
  /\ RowsOnly

\* holdUnknownSubmitRefusal: submitted, or rejected with its hold released.
Gates(c) ==
  /\ At(c, "gates")
  /\ \/ Goto(c, "open")
     \/ job' = [job EXCEPT ![c].pc = "claim", ![c].end = "rejected"]
  /\ JobOnly

\* rejectBookedHoldUnknown and the cancel of a booked hold_unknown row
Claim(c) ==
  /\ At(c, "claim")
  /\ Where(c, {"hold_unknown"}, "open", Goto(c, "finalize"), End(c))
  /\ RowsOnly

-----------------------------------------------------------------------------
(* cancelOrder and reconcileOrder at the engine, and finalize              *)

\* Mutant of EngineCancel: a cancel whose answer is lost is taken for done.
EngineCancelTaken(c) ==
  /\ At(c, "engine")
  /\ \/ Of(c) \notin live /\ live' = live /\ Goto(c, "list")
     \/ live' \in {live, live \ {Of(c)}} /\ Goto(c, "finalize")
  /\ UNCHANGED <<postVars, rows, released, submits, places, raced>>

\* matching.cancel takes the order off the book, misses it, or loses its answer.
EngineCancel(c) ==
  /\ At(c, "engine")
  /\ \/ Of(c) \in live /\ live' = live \ {Of(c)} /\ Goto(c, "finalize")
     \/ Of(c) \notin live /\ live' = live /\ Goto(c, IF job[c].src = "cancel" THEN "list" ELSE "finalize")
     \/ live' \in {live, live \ {Of(c)}} /\ (IF job[c].src = "cancel" THEN Goto(c, "recover") ELSE End(c))
  /\ UNCHANGED <<postVars, rows, released, submits, places, raced>>

\* listOrders: a cancel that missed wants the order gone; a reconcile leaves a
\* live recovery_required order with a hold alone, ends one without, and
\* cancels any other.
List(c) ==
  /\ At(c, "list")
  /\ IF Of(c) \notin live THEN Goto(c, "finalize")
     ELSE IF job[c].src = "cancel" THEN Goto(c, "recover")
     ELSE IF St(c) # "recovery_required" THEN Goto(c, "engine")
     ELSE IF Held(Of(c)) THEN End(c) ELSE Goto(c, "finalize")
  /\ JobOnly

\* finalize: the release, if a hold is booked, then the terminal status.  The
\* release stays booked when the transaction does not commit.
Finalize(c) ==
  /\ At(c, "finalize")
  /\ IF St(c) \in Working
       THEN /\ released' = released \cup (book \cap {Of(c)})
            /\ Write(Of(c), job[c].end) \/ UNCHANGED rows
            /\ Note(Of(c), "crash", rows' = rows)
       ELSE UNCHANGED <<released, rows, raced>>
  /\ End(c)
  /\ UNCHANGED <<postVars, live, submits, places>>

\* A process dies, or a read throws.
Stop(c) ==
  /\ ~At(c, "idle")
  /\ LetGo(c)
  /\ End(c)
  /\ UNCHANGED <<rows, live, released, submits, places, raced>>

\* The in-flight bound passes.  It is taken as the proof the code takes it
\* for: by then no attempt made since updated_at is alive, and the bound's
\* margin is longer than the time from a read of the hold to what follows it.
Age(o) ==
  /\ rows[o].st \in {"pending", "hold_unknown"} /\ ~rows[o].past
  /\ o \notin queued
  /\ \A c \in Callers :
       /\ call[c].key # o
       /\ ~(Of(c) = o /\ job[c].pc \in {"postHold", "wait", "drop"})
  /\ rows' = [rows EXCEPT ![o].past = TRUE]
  /\ UNCHANGED <<postVars, job, live, released, submits, places, raced>>

-----------------------------------------------------------------------------
JobStep(c) ==
  \/ FindForPlace(c) \/ FindForSweep(c) \/ FindForCancel(c) \/ FindForReconcile(c)
  \/ Insert(c) \/ PostHold(c) \/ HoldPosted(c) \/ HoldFailed(c)
  \/ DeleteRefused(c) \/ MarkHoldUnknown(c) \/ ReadHold(c)
  \/ Open(c) \/ Submit(c) \/ Recover(c)
  \/ Resume(c) \/ Wait(c) \/ Touch(c) \/ Drop(c) \/ Gates(c) \/ Claim(c)
  \/ EngineCancel(c) \/ List(c) \/ Finalize(c)

Next ==
  \/ \E c \in Callers :
       \/ JobStep(c) \/ Stop(c)
       \/ \E o \in Orders : Place(c, o) \/ Sweep(c, o) \/ \E src \in {"cancel", "reconcile"} : Cancel(c, o, src)
  \/ PostStep /\ UNCHANGED orderVars
  \/ \E o \in Orders : Age(o)

Spec == Init /\ [][Next]_vars

-----------------------------------------------------------------------------
(* Properties                                                              *)

\* Rows, jobs and calls keep their types, and no hold post makes more attempts
\* than the transport's budget has.
TypeOK ==
  /\ PostTypeOK
  /\ rows \in [Orders -> [st : Statuses, past : BOOLEAN]]
  /\ job \in [Callers -> [pc : Steps, order : Orders \cup {NoOrder},
                          src : {"none", "place", "sweep", "cancel", "reconcile"},
                          end : {"none", "cancelled", "rejected", "repost"}]]
  /\ live \in SUBSET Orders
  /\ released \in SUBSET Orders
  /\ submits \in [Orders -> 0 .. 2]
  /\ places \in [Orders -> 0 .. MaxPlaces]
  /\ raced \in [Orders -> SUBSET Races]

\* order-place.ts: "there is always a row pointing at the money, in every
\* interleaving".  A hold that is booked and not released has a row that
\* somebody still works on.  Two things break it: a refusal taken as proof while
\* an earlier attempt is queued, or at a door (hold-outcome.ts:51), and a cancel
\* that ends the row while the placement's post is under way.
MoneyHasLiveRow ==
  \A o \in book \ released :
    raced[o] \cap {"proof", "cancel"} = {} => rows[o].st \in Working \cup {"hold_unknown"}

\* The engine never has an order on a book without its hold.  Two things break
\* it: a cancel between the claim and the submit of a placement, and a process
\* that dies inside finalize, whose row a reconcile deletes as never funded, so
\* that the same order is placed again and answered by the old hold's key.
EngineIsFunded ==
  \A o \in live : raced[o] \cap {"crash", "cancel"} = {} => o \in book \ released

\* Retries, the sweep and a cancel of the same order submit it at most once.
SubmittedOnce == \A o \in Orders : submits[o] <= 1

\* A row whose hold is unknown is not opened on a guess: an open row's hold
\* has been booked.
OpenIsBooked == \A o \in Orders : rows[o].st = "open" => o \in book

\* An order's row, its hold and the engine go one way: it is opened on a booked
\* hold only and submitted once, whoever retries, sweeps or cancels it.
OrdersConsistent == TypeOK /\ SubmittedOnce /\ OpenIsBooked
=============================================================================
