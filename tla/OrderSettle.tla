---------------------------- MODULE OrderSettle ----------------------------
(***************************************************************************)
(* Orders that are funded and open, from the engine's answer to the end of *)
(* their holds: the fills of a submit response and the same fills as       *)
(* events, cancellations and the release of what is left                   *)
(* (services/svc-trade/src/spot/trade-service/fills.ts, events.ts,         *)
(* holds.ts, order-place.ts).                                              *)
(*                                                                         *)
(* A match is of one unit.  A hold is Qty units and Dust more: what the    *)
(* rounding up of the hold and the rounding down of the fills leave.  An   *)
(* event stays on the bus until a handler of it has ended well, and may be *)
(* handled by two processes at once.  The engine numbers every match once  *)
(* (the guard against one that lost its journal is left out, and so are    *)
(* house orders, OCO legs, paper markets and amends).                      *)
(***************************************************************************)
EXTENDS Integers, FiniteSets, Sequences, FiniteSetsExt, SequencesExt

CONSTANTS
  Sells, Buys,    \* the orders of the two sides
  Qty,            \* their quantities
  Dust,           \* what every hold has beyond the quantity
  Procs,          \* processes of svc-trade
  MaxCancels,     \* bound: cancels by users, and orders pulled
  MaxCrashes      \* bound: handlers and submissions that die

Orders == Sells \cup Buys

ASSUME OrderSettleConstants ==
  /\ IsFiniteSet(Orders) /\ Sells \cap Buys = {} /\ "none" \notin Orders   \* NoOrder
  /\ Qty \in [Orders -> Nat \ {0}]
  /\ Dust \in Nat /\ MaxCancels \in Nat /\ MaxCrashes \in Nat

VARIABLES
  eng,      \* the engine: per order [st, left]
  printed,  \* matches it made: [seq, mk, tk]
  bus,      \* events not yet acknowledged: [kind, of]
  legs,     \* trade.fills: [of, role]
  status,   \* trade.orders.status
  filled,   \* trade.orders.filled_qty
  posted,   \* matches whose trade.fill:<fillId> is booked
  pot,      \* balance of the order's hold account
  freed,    \* amount booked under order.release:<id>:0, or -1
  job,      \* per process
  raced,    \* history: what befell an order, of Races
  cancels, crashes

engine == <<eng, printed, cancels>>
money == <<posted, pot, freed>>
tables == <<legs, status, filled>>
vars == <<engine, money, tables, bus, job, raced, crashes>>

\* "ahead": the release of a user's cancel, or of an order another submission
\* pulled, came before a fill of it was recorded.  "refresh": two updates of its
\* filled_qty overlapped.
Races == {"ahead", "refresh"}

NoOrder == "none"
Match(s, mk, tk) == [seq |-> s, mk |-> mk, tk |-> tk]
Idle == [pc |-> "idle", order |-> NoOrder, todo |-> <<>>, cancels |-> {}, touched |-> {}, ack |-> {}, num |-> 0]

Init ==
  /\ eng = [o \in Orders |-> [st |-> "new", left |-> Qty[o]]]
  /\ printed = {} /\ bus = {} /\ legs = {} /\ posted = {}
  /\ status = [o \in Orders |-> "open"]
  /\ filled = [o \in Orders |-> 0]
  /\ pot = [o \in Orders |-> Qty[o] + Dust]
  /\ freed = [o \in Orders |-> -1]
  /\ job = [p \in Procs |-> Idle]
  /\ raced = [o \in Orders |-> {}]
  /\ cancels = 0 /\ crashes = 0

LegOrder(l) == IF l.role = "maker" THEN l.of.mk ELSE l.of.tk
SumOfFills(o) == Cardinality({l \in legs : LegOrder(l) = o})
FillsOf(o) == {x \in printed : o \in {x.mk, x.tk}}

\* A job settles its fills first, then sees to the orders that ended.
First(fills) == IF fills = <<>> THEN "close" ELSE "maker"

At(p, pc) == job[p].pc = pc
Goto(p, pc) == job' = [job EXCEPT ![p].pc = pc]
End(p) == job' = [job EXCEPT ![p] = Idle]

Note(o, race, happens) ==
  raced' = IF happens THEN [raced EXCEPT ![o] = @ \cup {race}] ELSE raced

-----------------------------------------------------------------------------
(* Placement                                                               *)

Place(p, o) ==
  /\ At(p, "idle")
  /\ eng[o].st = "new"
  /\ \A q \in Procs : job[q].order # o
  /\ job' = [job EXCEPT ![p] = [Idle EXCEPT !.pc = "submit", !.order = o]]
  /\ UNCHANGED <<engine, money, tables, bus, raced, crashes>>

Opposite(o) == IF o \in Sells THEN Buys ELSE Sells
Live == {o \in Orders : eng[o].st = "live"}

\* What the engine does with o: it fills against the resting orders in makers,
\* one unit each, pulls the resting orders in `pulled` (self-trade prevention)
\* and lets the rest of o rest, or cancels it (IOC, market).
Submit(p, makers, pulled, rests) ==
  LET o == job[p].order
      with == Range(makers)
      n == Len(makers)
      fills == [i \in 1 .. n |-> Match(Cardinality(printed) + i, makers[i], o)]
      left == eng[o].left - n
      ended == pulled \cup (IF left > 0 /\ ~rests THEN {o} ELSE {})
      after(q) ==
        CASE q = o          -> [st |-> IF left > 0 /\ rests THEN "live" ELSE "gone", left |-> left]
          [] q \in with     -> [st |-> IF eng[q].left > 1 THEN "live" ELSE "gone", left |-> eng[q].left - 1]
          [] q \in pulled   -> [eng[q] EXCEPT !.st = "gone"]
          [] OTHER          -> eng[q]
  IN
  /\ with \subseteq Live \cap Opposite(o) /\ n <= eng[o].left
  /\ pulled \subseteq (Live \cap Opposite(o)) \ with
  /\ eng' = [q \in Orders |-> after(q)]
  /\ printed' = printed \cup Range(fills)
  /\ bus' = bus \cup {[kind |-> "fill", of |-> x] : x \in Range(fills)}
                \cup {[kind |-> "cancel", of |-> q] : q \in ended}
  /\ job' = [job EXCEPT ![p] =
       [Idle EXCEPT !.pc = First(fills), !.order = o, !.todo = fills, !.cancels = ended,
                    !.touched = (with \cup {o}) \ ended]]
  /\ cancels + Cardinality(pulled) <= MaxCancels
  /\ cancels' = cancels + Cardinality(pulled)
  /\ UNCHANGED <<money, tables, raced, crashes>>

-----------------------------------------------------------------------------
(* settleFill: both legs, both quantities, then the ledger.                *)

Cur(p) == Head(job[p].todo)

\* insertFillLeg: a row that is there is a redelivery's.
InsertFillLeg(p, role, then) ==
  /\ At(p, role)
  /\ legs' = legs \cup {[of |-> Cur(p), role |-> role]}
  /\ Goto(p, then)
  /\ UNCHANGED <<engine, money, status, filled, bus, raced, crashes>>

\* refreshFilledQty is one UPDATE under READ COMMITTED: the sum is of the
\* statement's snapshot, the write waits for the row and does not sum again.
SumFills(p, pc, o, then) ==
  /\ At(p, pc)
  /\ job' = [job EXCEPT ![p].pc = then, ![p].num = SumOfFills(o)]
  /\ Note(o, "refresh", \E q \in Procs \ {p} : \/ At(q, "writeMaker") /\ Cur(q).mk = o
                                               \/ At(q, "writeTaker") /\ Cur(q).tk = o)
  /\ UNCHANGED <<engine, money, tables, bus, crashes>>

WriteFilled(p, pc, o, then) ==
  /\ At(p, pc)
  /\ filled' = [filled EXCEPT ![o] = job[p].num]
  /\ Goto(p, then)
  /\ UNCHANGED <<engine, money, legs, status, bus, raced, crashes>>

\* tradeFill: booked once under its key, out of both holds; refused when one
\* of them is short.
PostFill(p) ==
  LET x == Cur(p)
      known == x \in posted
      funded == pot[x.mk] > 0 /\ pot[x.tk] > 0
  IN
  /\ At(p, "post")
  /\ IF known \/ funded
       THEN job' = [job EXCEPT ![p].pc = First(Tail(job[p].todo)), ![p].todo = Tail(@)]
       ELSE End(p)
  /\ IF ~known /\ funded
       THEN /\ posted' = posted \cup {x}
            /\ pot' = [o \in Orders |-> IF o \in {x.mk, x.tk} THEN pot[o] - 1 ELSE pot[o]]
       ELSE UNCHANGED <<posted, pot>>
  /\ UNCHANGED <<engine, tables, freed, bus, raced, crashes>>

Settle(p) ==
  /\ job[p].todo # <<>>
  /\ \/ InsertFillLeg(p, "maker", "taker")
     \/ InsertFillLeg(p, "taker", "sumMaker")
     \/ SumFills(p, "sumMaker", Cur(p).mk, "writeMaker")
     \/ WriteFilled(p, "writeMaker", Cur(p).mk, "sumTaker")
     \/ SumFills(p, "sumTaker", Cur(p).tk, "writeTaker")
     \/ WriteFilled(p, "writeTaker", Cur(p).tk, "post")
     \/ PostFill(p)

-----------------------------------------------------------------------------
(* finalize                                                                *)

\* remainingHold, capped by the pot; what a crashed attempt booked is repeated.
Releasable(o) ==
  IF freed[o] >= 0 THEN freed[o] ELSE Min({pot[o], Qty[o] + Dust - SumOfFills(o)})

\* Mutant of Finalize: a filled order is taken to have nothing left.
FinalizeFilledKeeps(o, end) ==
  IF status[o] # "open" THEN UNCHANGED <<pot, freed, status>>
  ELSE /\ freed' = [freed EXCEPT ![o] = IF end = "filled" THEN 0 ELSE Releasable(o)]
       /\ pot' = IF freed[o] >= 0 \/ end = "filled" THEN pot ELSE [pot EXCEPT ![o] = @ - Releasable(o)]
       /\ status' = [status EXCEPT ![o] = end]

\* The release, then the terminal status, under the lock of the row; the
\* release stays booked when the process dies in between.
Finalize(o, end) ==
  IF status[o] # "open" THEN UNCHANGED <<pot, freed, status>>
  ELSE /\ freed' = [freed EXCEPT ![o] = Releasable(o)]
       /\ pot' = IF freed[o] >= 0 THEN pot ELSE [pot EXCEPT ![o] = @ - Releasable(o)]
       /\ status' = [status EXCEPT ![o] = IF filled[o] >= Qty[o] THEN "filled" ELSE end]

\* Recorded has fewer fills than the engine made.
Unrecorded(o) == ~(FillsOf(o) \subseteq {l.of : l \in {k \in legs : LegOrder(k) = o}})

\* A release nobody looked at the fills for: the job is neither an event's nor
\* is the order the one it submitted.
NoteAhead(p, o) ==
  Note(o, "ahead", status[o] = "open" /\ job[p].ack = {} /\ job[p].order # o /\ Unrecorded(o))

\* settleOutcome: the cancellations once the fills are settled, then every
\* order the job touched that is complete.
FinalizeCancelled(p, o) ==
  /\ At(p, "close") /\ o \in job[p].cancels
  /\ Finalize(o, "cancelled")
  /\ NoteAhead(p, o)
  /\ job' = [job EXCEPT ![p].cancels = @ \ {o}]
  /\ UNCHANGED <<engine, posted, legs, filled, bus, crashes>>

FinalizeIfComplete(p, o) ==
  /\ At(p, "close") /\ job[p].cancels = {} /\ o \in job[p].touched
  /\ IF filled[o] >= Qty[o] THEN Finalize(o, "filled") ELSE UNCHANGED <<pot, freed, status>>
  /\ job' = [job EXCEPT ![p].touched = @ \ {o}]
  /\ UNCHANGED <<engine, posted, legs, filled, bus, raced, crashes>>

\* The release is booked and the transaction is not: the process died.
CrashInFinalize(p, o) ==
  /\ At(p, "close") /\ crashes < MaxCrashes
  /\ status[o] = "open"
  /\ o \in job[p].cancels \/ (o \in job[p].touched /\ filled[o] >= Qty[o])
  /\ freed' = [freed EXCEPT ![o] = Releasable(o)]
  /\ pot' = IF freed[o] >= 0 THEN pot ELSE [pot EXCEPT ![o] = @ - Releasable(o)]
  /\ NoteAhead(p, o)
  /\ crashes' = crashes + 1
  /\ End(p)
  /\ UNCHANGED <<engine, posted, tables, bus>>

\* The job ends; the event that started it, if any, is acknowledged.
Done(p) ==
  /\ At(p, "close") /\ job[p].cancels = {} /\ job[p].touched = {}
  /\ bus' = bus \ job[p].ack
  /\ End(p)
  /\ UNCHANGED <<engine, money, tables, raced, crashes>>

Crash(p) ==
  /\ ~At(p, "idle") /\ crashes < MaxCrashes
  /\ crashes' = crashes + 1
  /\ End(p)
  /\ UNCHANGED <<engine, money, tables, bus, raced>>

-----------------------------------------------------------------------------
(* Events of the engine, and the cancel a user asks for.                   *)

\* Mutant of FillEvent: only the taker is looked at when the fill is settled.
FillEventTaker(p, e) ==
  /\ At(p, "idle") /\ e.kind = "fill"
  /\ job' = [job EXCEPT ![p] = [Idle EXCEPT !.pc = "maker", !.todo = <<e.of>>, !.touched = {e.of.tk}, !.ack = {e}]]
  /\ UNCHANGED <<engine, money, tables, bus, raced, crashes>>

\* settleFillEvent
FillEvent(p, e) ==
  /\ At(p, "idle") /\ e.kind = "fill"
  /\ job' = [job EXCEPT ![p] =
       [Idle EXCEPT !.pc = "maker", !.todo = <<e.of>>, !.touched = {e.of.mk, e.of.tk}, !.ack = {e}]]
  /\ UNCHANGED <<engine, money, tables, bus, raced, crashes>>

\* Mutant of CancelAheadOfFill: the fills are not looked at.
CancelNeverAhead(o) == FALSE

\* refuseCancelAheadOfFill: the engine filled more than is recorded.
CancelAheadOfFill(o) == status[o] = "open" /\ Qty[o] - eng[o].left > SumOfFills(o)

\* releaseOnCancelEvent; a refused event stays on the bus.
CancelEvent(p, e) ==
  /\ At(p, "idle") /\ e.kind = "cancel"
  /\ ~CancelAheadOfFill(e.of)
  /\ job' = [job EXCEPT ![p] = [Idle EXCEPT !.pc = "close", !.cancels = {e.of}, !.ack = {e}]]
  /\ UNCHANGED <<engine, money, tables, bus, raced, crashes>>

\* The engine ends an order by itself: it expired.
Expire(o) ==
  /\ eng[o].st = "live"
  /\ eng' = [eng EXCEPT ![o].st = "gone"]
  /\ bus' = bus \cup {[kind |-> "cancel", of |-> o]}
  /\ UNCHANGED <<printed, cancels, money, tables, job, raced, crashes>>

\* cancelOrder: taken off the book, or known to be off it, then finalized.
UserCancel(p, o) ==
  /\ cancels < MaxCancels
  /\ cancels' = cancels + 1
  /\ At(p, "idle") /\ status[o] = "open" /\ eng[o].st # "new"
  /\ eng' = [eng EXCEPT ![o].st = "gone"]
  /\ bus' = IF eng[o].st = "live" THEN bus \cup {[kind |-> "cancel", of |-> o]} ELSE bus
  /\ job' = [job EXCEPT ![p] = [Idle EXCEPT !.pc = "close", !.cancels = {o}]]
  /\ UNCHANGED <<printed, money, tables, raced, crashes>>

-----------------------------------------------------------------------------
ProcStep(p) ==
  \/ Settle(p) \/ Done(p)
  \/ At(p, "submit") /\ \E makers \in SetToAllKPermutations(Live), pulled \in SUBSET Live, rests \in BOOLEAN :
       Submit(p, makers, pulled, rests)
  \/ \E o \in Orders : Place(p, o) \/ FinalizeCancelled(p, o) \/ FinalizeIfComplete(p, o)
  \/ \E e \in bus : FillEvent(p, e) \/ CancelEvent(p, e)

Next ==
  \/ \E p \in Procs : ProcStep(p) \/ Crash(p) \/ \E o \in Orders : CrashInFinalize(p, o) \/ UserCancel(p, o)
  \/ \E o \in Orders : Expire(o)

Spec == Init /\ [][Next]_vars

-----------------------------------------------------------------------------
(* Properties                                                              *)

\* The engine's and the service's tables keep their types: no order is filled
\* past its quantity and no hold account runs negative.
TypeOK ==
  /\ eng \in [Orders -> [st : {"new", "live", "gone"}, left : Nat]]
  /\ \A x \in printed : x.seq \in Nat /\ {x.mk, x.tk} \subseteq Orders
  /\ \A l \in legs : l.of \in printed /\ l.role \in {"maker", "taker"}
  /\ status \in [Orders -> {"open", "filled", "cancelled"}]
  /\ \A o \in Orders : filled[o] \in 0 .. Qty[o] /\ pot[o] \in Nat /\ freed[o] \in -1 .. Qty[o] + Dust
  /\ posted \subseteq printed
  /\ raced \in [Orders -> SUBSET Races]

\* settleOutcome: "releasing before the fills are recorded would hand back money
\* a fill is about to spend".  An order's hold has what the matches the engine
\* made of it and the ledger has not booked will take.  It fails when a user's
\* cancel, or a submission that pulled the order, releases ahead of another
\* submission's fill: neither asks refuseCancelAheadOfFill.
MatchIsFunded ==
  \A o \in Orders : "ahead" \notin raced[o] => pot[o] >= Cardinality(FillsOf(o) \ posted)

\* An order that ended has nothing left in its hold but what its recorded fills
\* have still to take: no dust stays behind, whoever ended it.
EndedHoldsOnlyFills ==
  \A o \in Orders : status[o] # "open" /\ "ahead" \notin raced[o] =>
    pot[o] = Cardinality({l \in legs : LegOrder(l) = o /\ l.of \notin posted})

Quiet == bus = {} /\ \A p \in Procs : At(p, "idle")

\* Once every event is handled all is settled, whatever died on the way: every
\* match is booked, every order the engine is done with has ended, and, as
\* settleFill says, "`filled_qty = Σ fills.qty`".  The last two fail for an order
\* two of whose refreshes overlapped: the later write may carry the older sum.
QuietIsSettled ==
  Quiet =>
    /\ printed \subseteq posted
    /\ \A o \in Orders : "refresh" \notin raced[o] =>
         /\ filled[o] = SumOfFills(o)
         /\ eng[o].st = "gone" => status[o] # "open"

\* Tables and holds agree: no order is filled past its quantity, no hold account
\* runs negative, and an order that ended keeps no more than its fills will take.
HoldsConsistent == TypeOK /\ EndedHoldsOnlyFills
=============================================================================
