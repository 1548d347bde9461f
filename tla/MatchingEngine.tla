--------------------------- MODULE MatchingEngine ---------------------------
(***************************************************************************)
(* svc-matching around its book: inputs journalled before they are         *)
(* applied, events published after, a mass cancel done order by order, and *)
(* a boot that replays the journal, tells the fills again and reads the    *)
(* holds (services/svc-matching/src/engine/engine.ts, cod-fence.ts,        *)
(* ifm-crash.ts, ifm.ts, journal-replay.ts, replay-hold.ts), as index.ts   *)
(* wires them.                                                             *)
(*                                                                         *)
(* One market.  An order is one unit at a price that crosses, or a         *)
(* trailing stop that is not reached, and is not submitted again: a retry  *)
(* is answered by the book that has the order.  A session is an account's. *)
(* The journal is the log of DurableLog.                                   *)
(***************************************************************************)
EXTENDS Integers, FiniteSets, Sequences, FiniteSetsExt, SequencesExt

CONSTANTS
  Orders, Buys,      \* the orders; those that buy
  Ioc,               \* those whose remainder does not rest
  Trailing,          \* those that are trailing stops
  Account,           \* their accounts
  MaxControls,       \* bound: mass cancels, dead sessions, marks and maintenance switches
  MaxCancels,        \* bound: cancel records, for a user's cancel
  MaxFailures,       \* bound: appends refused or in doubt, publishes that fail
  MaxCrashes         \* bound: ends of the process

Accounts == {Account[o] : o \in Orders}

ASSUME MatchingEngineConstants ==
  /\ IsFiniteSet(Orders) /\ Buys \subseteq Orders
  /\ Ioc \subseteq Orders /\ Trailing \subseteq Orders \ Ioc
  /\ DOMAIN Account = Orders
  /\ {MaxControls, MaxCancels, MaxFailures, MaxCrashes} \subseteq Nat

VARIABLES
  log,      \* the journal
  doubt,    \* the record of an append that ended in doubt, if any: <<record>>
  live,     \* the engine's state: [book, dead, maint, flight]
  hold,     \* holdHalted
  closed,   \* admissionClosed
  phase,    \* "down", "announce", "check", "up"
  todo,     \* what the phase has left to do
  mass,     \* of the mass cancel under way, if any, the orders left: <<orders>>
  emits,    \* events of inputs applied, to be published
  pub,      \* events published
  booted,   \* length of the journal at the last boot
  bad,      \* orders whose hold this boot did not confirm
  raced,    \* history: "mass", "mark" when the book moved past its journal
  failures, crashes

journal == <<log, doubt>>
boot == <<phase, todo, booted, bad>>
engineVars == <<journal, live, hold, closed, boot, mass, emits, pub, raced, failures, crashes>>

Fault == failures < MaxFailures /\ failures' = failures + 1 /\ UNCHANGED crashes
Stop == crashes < MaxCrashes /\ crashes' = crashes + 1 /\ UNCHANGED <<failures, raced>>
NoFault == UNCHANGED <<failures, crashes>>

-----------------------------------------------------------------------------
(* The book                                                                *)

\* rest: the orders resting and the stops parked, oldest first.  A market without
\* a book is one whose book took no sequence.
EmptyBook == [rest |-> <<>>, seq |-> 0, printed |-> FALSE]
Exists(b) == b.seq > 0
Opposite(o) == IF o \in Trailing THEN {} ELSE (IF o \in Buys THEN Orders \ Buys ELSE Buys) \ Trailing
\* The elements of s that are in S; SelectSeq, as a fold a proof can open.
Only(s, S) == FoldLeft(LAMBDA t, x : IF x \in S THEN Append(t, x) ELSE t, <<>>, s)
Without(s, S) == Only(s, Orders \ S)
Rests(b, o) == o \in Range(b.rest)
Fill(n, mk, tk) == [kind |-> "fill", seq |-> n, of |-> <<mk, tk>>, reason |-> "none"]
Left(n, o, why) == [kind |-> "left", seq |-> n, of |-> <<o>>, reason |-> why]
Result(b, evs) == [book |-> b, evs |-> evs]

\* dropIfNeverTraded: the book is deleted, and the next order opens one at sequence 0.
Dropped(b) == IF b.printed \/ b.rest # <<>> THEN b ELSE EmptyBook
Swept(c) == Result(Dropped(c.book), c.evs)

\* submit: the oldest order of the other side, or rest, or leave.
SubmitTo(b, o) ==
  LET others == Only(b.rest, Opposite(o))
      n == b.seq + 2
  IN  IF others # <<>>
        THEN Result([b EXCEPT !.rest = Without(@, {others[1]}), !.seq = n, !.printed = TRUE],
                    <<Fill(n, others[1], o)>>)
        ELSE IF o \in Ioc
        THEN Result([b EXCEPT !.seq = n], <<Left(n, o, "ioc")>>)
        ELSE Result([b EXCEPT !.rest = Append(@, o), !.seq = n - 1], <<>>)

CancelIn(b, o, why) ==
  IF Rests(b, o)
    THEN Result([b EXCEPT !.rest = Without(@, {o}), !.seq = @ + 1], <<Left(b.seq + 1, o, why)>>)
    ELSE Result(b, <<>>)

\* cancelAccount, cancelSession: oldest first.  Each of ids rests, so each cancel
\* takes it and the next sequence.
Owned(b, a) == Only(b.rest, {x \in Orders : Account[x] = a})
CancelAll(b, ids, why) ==
  Result([b EXCEPT !.rest = Without(@, Range(ids)), !.seq = @ + Len(ids)],
         [i \in DOMAIN ids |-> Left(b.seq + i, ids[i], why)])

\* applyMark: the trailing stops tighten, each under a new sequence.
MarkTo(b) ==
  LET stops == Only(b.rest, Trailing)
  IN  [b EXCEPT !.rest = Without(@, Trailing) \o stops, !.seq = @ + Len(stops)]

-----------------------------------------------------------------------------
(* Replay                                                                  *)

Rec(kind, x, why) == [kind |-> kind, of |-> x, reason |-> why]
NoState == [book |-> EmptyBook, dead |-> {}, maint |-> FALSE, flight |-> {}]

With(r, c) == [r EXCEPT !.st.book = c.book, !.evs = @ \o c.evs]

\* Mutant of ReplayRecord: a mass cancel keeps a book that never printed.
ReplayRecordKeeps(r, x) ==
  CASE x.kind = "submit"   -> IF Account[x.of] \in r.st.dead THEN r ELSE With(r, Swept(SubmitTo(r.st.book, x.of)))
    [] x.kind = "cancel"   -> With([r EXCEPT !.st.flight = @ \ {x.of}], CancelIn(r.st.book, x.of, x.reason))
    [] x.kind = "mass"     -> With(r, CancelAll(r.st.book, Owned(r.st.book, x.of), "requested"))
    [] x.kind = "dead"     -> With([r EXCEPT !.st.dead = @ \cup {x.of}],
                                   Swept(CancelAll(r.st.book, Owned(r.st.book, x.of), "session_dead")))
    [] x.kind = "mark"     -> [r EXCEPT !.st.book = MarkTo(@)]
    [] x.kind = "inflight" -> [r EXCEPT !.st.flight = @ \cup {x.of}]
    [] x.kind = "maint"    -> [r EXCEPT !.st.maint = x.of]

\* replayJournal, with the control states recover() reads from the same records.
ReplayRecord(r, x) ==
  CASE x.kind = "submit"   -> IF Account[x.of] \in r.st.dead THEN r ELSE With(r, Swept(SubmitTo(r.st.book, x.of)))
    [] x.kind = "cancel"   -> With([r EXCEPT !.st.flight = @ \ {x.of}], CancelIn(r.st.book, x.of, x.reason))
    [] x.kind = "mass"     -> With(r, Swept(CancelAll(r.st.book, Owned(r.st.book, x.of), "requested")))
    [] x.kind = "dead"     -> With([r EXCEPT !.st.dead = @ \cup {x.of}],
                                   Swept(CancelAll(r.st.book, Owned(r.st.book, x.of), "session_dead")))
    [] x.kind = "mark"     -> [r EXCEPT !.st.book = MarkTo(@)]
    [] x.kind = "inflight" -> [r EXCEPT !.st.flight = @ \cup {x.of}]
    [] x.kind = "maint"    -> [r EXCEPT !.st.maint = x.of]

Replay(records) == FoldLeft(ReplayRecord, [st |-> NoState, evs |-> <<>>], records)
FillsIn(records) == {e \in Range(Replay(records).evs) : e.kind = "fill"}

-----------------------------------------------------------------------------
EngineInit ==
  /\ log = <<>> /\ doubt = <<>>
  /\ live = NoState /\ hold = FALSE /\ closed = FALSE
  /\ phase = "down" /\ todo = <<>> /\ booted = 0 /\ bad = {}
  /\ mass = <<>> /\ emits = {} /\ pub = {}
  /\ raced = {} /\ failures = 0 /\ crashes = 0

Taken(kinds) == Cardinality({i \in DOMAIN log : log[i].kind \in kinds})
Controls == Taken({"mass", "dead", "mark", "maint"})
Submitted(o) == \E i \in DOMAIN log : log[i].kind = "submit" /\ log[i].of = o

\* The records of one operation reach the journal, or one of them does not: its
\* append is refused, or ends in doubt and no other is taken until the next open.
AppendAll(recs) == doubt = <<>> /\ log' = log \o recs /\ UNCHANGED doubt /\ NoFault
AppendFails(recs, n) ==
  /\ doubt = <<>> /\ n \in 0 .. Len(recs) - 1
  /\ log' = log \o SubSeq(recs, 1, n)
  /\ Fault
  /\ doubt' \in {<<>>, <<recs[n + 1]>>}

Emit(evs) == emits' = IF evs = <<>> THEN emits ELSE emits \cup {evs}

Trading == phase = "up" /\ ~closed /\ ~hold /\ ~live.maint

\* An input does not wait for a mass cancel under way.
Note(kinds) == raced' = raced \cup kinds
Between == IF mass = <<>> THEN {} ELSE {"mass"}

-----------------------------------------------------------------------------
(* Inputs                                                                  *)

\* Mutant of Submit: the outcome is announced before its record is taken.
SubmitTellsFirst(o) ==
  /\ Trading /\ ~Submitted(o)
  /\ Account[o] \notin live.dead /\ o \notin live.flight
  /\ LET c == Swept(SubmitTo(live.book, o)) IN
       /\ Emit(c.evs)
       /\ \/ AppendAll(<<Rec("submit", o, "none")>>) /\ live' = [live EXCEPT !.book = c.book]
          \/ AppendFails(<<Rec("submit", o, "none")>>, 0) /\ UNCHANGED live
  /\ Note(Between)
  /\ UNCHANGED <<hold, closed, boot, mass, pub>>

Submit(o) ==
  /\ Trading /\ ~Submitted(o)
  /\ Account[o] \notin live.dead /\ o \notin live.flight
  /\ \/ /\ AppendAll(<<Rec("submit", o, "none")>>)
        /\ LET c == Swept(SubmitTo(live.book, o)) IN live' = [live EXCEPT !.book = c.book] /\ Emit(c.evs)
     \/ AppendFails(<<Rec("submit", o, "none")>>, 0) /\ UNCHANGED <<live, emits>>
  /\ Note(Between)
  /\ UNCHANGED <<hold, closed, boot, mass, pub>>

\* cancel as ifm-crash.ts installs it: the reason is not handed on.
Handed(reason) == "requested"

CancelRecs(o, why) ==
  (IF Rests(live.book, o) THEN <<Rec("inflight", o, "none")>> ELSE <<>>) \o <<Rec("cancel", o, Handed(why))>>
Cancellable(o) == ~live.maint /\ o \notin live.flight /\ Exists(live.book)

\* The records, those of pre first, then the book, then the event.
CancelDone(pre, o, why) ==
  /\ AppendAll(pre \o CancelRecs(o, why))
  /\ LET c == CancelIn(live.book, o, Handed(why)) IN live' = [live EXCEPT !.book = c.book] /\ Emit(c.evs)

\* A record that was not taken; the mark that was stays in flight.
CancelThrows(pre, o, why) ==
  \E n \in 0 .. 1 :
    /\ AppendFails(pre \o CancelRecs(o, why), Len(pre) + n)
    /\ live' = IF n = 1 THEN [live EXCEPT !.flight = @ \cup {o}] ELSE live
    /\ UNCHANGED emits

Cancel(o) ==
  /\ phase = "up" /\ Submitted(o) /\ Rests(live.book, o) /\ Cancellable(o)
  /\ Taken({"cancel"}) < MaxCancels
  /\ CancelDone(<<>>, o, "expired") \/ CancelThrows(<<>>, o, "expired")
  /\ Note(Between)
  /\ UNCHANGED <<hold, closed, boot, mass, pub>>

\* One order of a mass cancel: cancelled, refused, or failed with its record.
CancelOne(pre, o) ==
  \/ Cancellable(o) /\ CancelDone(pre, o, "requested") /\ UNCHANGED raced
  \/ ~Cancellable(o) /\ AppendAll(pre) /\ Note({"mass"}) /\ UNCHANGED <<live, emits>>
  \/ Cancellable(o) /\ CancelThrows(pre, o, "requested") /\ Note({"mass"})

\* massCancel as cod-fence.ts installs it: one record, then cancel by cancel, then
\* the drop.  The first cancel is made in the same turn; each of the others, and the
\* drop, waits for the publish of the one before it.
MassCancel(a) ==
  LET ids == Owned(live.book, a)
      pre == <<Rec("mass", a, "none")>>
  IN  /\ phase = "up" /\ mass = <<>> /\ Exists(live.book) /\ Controls < MaxControls
      /\ \/ ids # <<>> /\ CancelOne(pre, Head(ids)) /\ mass' = <<Tail(ids)>>
         \/ /\ ids = <<>> /\ AppendAll(pre)
            /\ live' = [live EXCEPT !.book = Dropped(@)] /\ UNCHANGED <<emits, mass, raced>>
         \/ AppendFails(pre, 0) /\ UNCHANGED <<live, emits, mass, raced>>
      /\ UNCHANGED <<hold, closed, boot, pub>>

MassCancelNext ==
  /\ phase = "up" /\ mass # <<>> /\ mass[1] # <<>>
  /\ mass' = <<Tail(mass[1])>>
  /\ CancelOne(<<>>, Head(mass[1]))
  /\ UNCHANGED <<hold, closed, boot, pub>>

MassCancelEnds ==
  /\ phase = "up" /\ mass = << <<>> >>
  /\ mass' = <<>> /\ live' = [live EXCEPT !.book = Dropped(@)]
  /\ UNCHANGED <<journal, hold, closed, boot, emits, pub, raced, failures, crashes>>

\* sessionDead as cod-fence.ts installs it.
SessionDead(a) ==
  /\ phase = "up" /\ a \notin live.dead /\ Controls < MaxControls
  /\ \/ /\ AppendAll(<<Rec("dead", a, "none")>>)
        /\ LET c == Swept(CancelAll(live.book, Owned(live.book, a), "session_dead"))
           IN  live' = [live EXCEPT !.book = c.book, !.dead = @ \cup {a}] /\ Emit(c.evs)
     \/ AppendFails(<<Rec("dead", a, "none")>>, 0) /\ UNCHANGED <<live, emits>>
  /\ Note(Between)
  /\ UNCHANGED <<hold, closed, boot, mass, pub>>

\* markTrailingStops: the stop moves, then the mark is journalled.
Mark ==
  /\ Trading /\ Controls < MaxControls /\ \E o \in Trailing : Rests(live.book, o)
  /\ live' = [live EXCEPT !.book = MarkTo(@)]
  /\ \/ AppendAll(<<Rec("mark", "none", "none")>>) /\ Note(Between)
     \/ AppendFails(<<Rec("mark", "none", "none")>>, 0) /\ Note(Between \cup {"mark"})
  /\ UNCHANGED <<hold, closed, boot, mass, emits, pub>>

\* enterMaintenance, endMaintenance
Maintenance(b) ==
  /\ phase = "up" /\ live.maint # b /\ Controls < MaxControls
  /\ \/ AppendAll(<<Rec("maint", b, "none")>>) /\ live' = [live EXCEPT !.maint = b]
     \/ AppendFails(<<Rec("maint", b, "none")>>, 0) /\ UNCHANGED live
  /\ Note(Between)
  /\ UNCHANGED <<hold, closed, boot, mass, emits, pub>>

-----------------------------------------------------------------------------
(* emit                                                                    *)

Publish(evs) ==
  /\ pub' = pub \cup {Head(evs)}
  /\ emits' = (emits \ {evs}) \cup (IF Len(evs) = 1 THEN {} ELSE {Tail(evs)})
  /\ UNCHANGED <<journal, live, hold, closed, boot, mass, raced, failures, crashes>>

\* A live publish is tried once: the operation throws and the rest is not told.
PublishFails(evs) ==
  /\ phase = "up" /\ Fault
  /\ emits' = emits \ {evs}
  /\ UNCHANGED <<journal, live, hold, closed, boot, mass, pub, raced>>

-----------------------------------------------------------------------------
(* The end of the process, and the boot.                                   *)

Gone ==
  /\ phase' = "down" /\ todo' = <<>> /\ bad' = {}
  /\ live' = NoState /\ hold' = FALSE /\ closed' = FALSE
  /\ mass' = <<>> /\ emits' = {} /\ doubt' = <<>>

\* The record in doubt is in the file or is not.
Crash ==
  /\ phase # "down" /\ Stop
  /\ log' \in {log, log \o doubt}
  /\ Gone
  /\ UNCHANGED <<pub, booted>>

\* Between the mark of a cancel and the cancel.
CrashInCancel(o) ==
  /\ phase \in {"check", "up"} /\ Stop
  /\ doubt = <<>> /\ Rests(live.book, o) /\ Cancellable(o)
  /\ log' = Append(log, Rec("inflight", o, "none"))
  /\ Gone
  /\ UNCHANGED <<pub, booted>>

\* What recover() announces of what replay produced: the trades, as no record has
\* the other reason.  They are in the order it sorts them into, that of sequence,
\* since a book that printed is never deleted.
Told(evs) == Only(evs, {e \in Range(evs) : e.kind = "fill" \/ e.reason = "hold_unconfirmed"})

Recover ==
  /\ phase = "down"
  /\ LET r == Replay(log) IN live' = r.st /\ todo' = Told(r.evs)
  /\ phase' = "announce" /\ booted' = Len(log)
  /\ UNCHANGED <<journal, hold, closed, bad, mass, emits, pub, raced, failures, crashes>>

Announce ==
  /\ phase = "announce"
  /\ IF todo # <<>>
       THEN pub' = pub \cup {Head(todo)} /\ todo' = Tail(todo) /\ UNCHANGED phase
       ELSE phase' = "check" /\ todo' = live.book.rest /\ UNCHANGED pub
  /\ UNCHANGED <<journal, live, hold, closed, booted, bad, mass, emits, raced, failures, crashes>>

Confirmed ==
  /\ phase = "check" /\ todo # <<>>
  /\ todo' = Tail(todo)
  /\ UNCHANGED <<journal, live, hold, closed, phase, booted, bad, mass, emits, pub, raced, failures, crashes>>

\* Mutant of Halts: a refused cancel leaves the market open.
HaltsIfPulled(o) == Cancellable(o) /\ Handed("hold_unconfirmed") # "hold_unconfirmed"

\* The market stays halted unless the cancel came back with its reason.
Halts(o) == ~Cancellable(o) \/ Handed("hold_unconfirmed") # "hold_unconfirmed"

\* Missing, short or unreadable: the order is pulled.  A record refused here ends the
\* process before it listens, which is Crash and CrashInCancel.
Unconfirmed ==
  /\ phase = "check" /\ todo # <<>>
  /\ LET o == Head(todo) IN
       /\ bad' = bad \cup {o}
       /\ hold' = (hold \/ Halts(o))
       /\ IF Cancellable(o) THEN CancelDone(<<>>, o, "hold_unconfirmed") ELSE UNCHANGED <<journal, live, emits, failures, crashes>>
  /\ todo' = Tail(todo)
  /\ UNCHANGED <<closed, phase, booted, mass, pub, raced>>

\* The ledger cannot be asked: the book does not open.
Unreachable ==
  /\ phase = "check" /\ todo # <<>>
  /\ closed' = TRUE /\ phase' = "up" /\ todo' = <<>>
  /\ UNCHANGED <<journal, live, hold, booted, bad, mass, emits, pub, raced, failures, crashes>>

Listen ==
  /\ phase = "check" /\ todo = <<>> /\ emits = {}
  /\ phase' = "up"
  /\ UNCHANGED <<journal, live, hold, closed, todo, booted, bad, mass, emits, pub, raced, failures, crashes>>

-----------------------------------------------------------------------------
EngineNext ==
  \/ \E o \in Orders : Submit(o) \/ Cancel(o) \/ CrashInCancel(o)
  \/ \E a \in Accounts : MassCancel(a) \/ SessionDead(a)
  \/ MassCancelNext \/ MassCancelEnds \/ Mark \/ \E b \in BOOLEAN : Maintenance(b)
  \/ \E evs \in emits : Publish(evs) \/ PublishFails(evs)
  \/ Crash \/ Recover \/ Announce \/ Confirmed \/ Unconfirmed \/ Unreachable \/ Listen

EngineSpec == EngineInit /\ [][EngineNext]_engineVars

-----------------------------------------------------------------------------
(* Properties                                                              *)

\* Book, fence and startup keep their types; no order rests twice and at most
\* one cancel is in doubt.
EngineTypeOK ==
  /\ Range(live.book.rest) \subseteq Orders /\ live.book.seq \in Nat /\ live.book.printed \in BOOLEAN
  /\ live.dead \subseteq Accounts /\ live.maint \in BOOLEAN /\ live.flight \subseteq Orders
  /\ IsInjective(live.book.rest)
  /\ Len(doubt) <= 1 /\ hold \in BOOLEAN /\ closed \in BOOLEAN
  /\ phase \in {"down", "announce", "check", "up"}
  /\ bad \subseteq Orders /\ Len(mass) <= 1 /\ \A i \in DOMAIN mass : Range(mass[i]) \subseteq Orders

\* env.ts: the input is "fsync'd before the book moves, so a cold start replays to
\* exactly the state the process died in": orders, sequence, and whether there is a
\* book at all.  Two cases of the code are outside: an input or a refused cancel
\* before a mass cancel has dropped its book, where replay does all of it at its one
\* record ("mass"), and a mark, which moves the stops before its record is taken
\* ("mark").
ReplayIsLive ==
  raced = {} /\ phase # "down" /\ mass = <<>> =>
    LET r == Replay(log).st IN live.book = r.book /\ live.dead = r.dead /\ live.maint = r.maint

\* A trade the world was told of is one the journal makes again, and "one fill has
\* one sequence, forever" (README.md of svc-matching); an order ends once, in a trade
\* or by leaving, whatever was told again (but for the two cases of ReplayIsLive).
\* Departures do share keys: those of a book that never printed, and was deleted,
\* with those of the next book of the market.  That an order ends once is said of
\* orders not submitted again: a deleted book forgets what it accepted.
ToldIsJournalled ==
  raced = {} =>
    /\ \A e \in pub : e.kind = "fill" => e \in FillsIn(log)
    /\ \A e, f \in pub : e.kind = "fill" /\ f.kind = "fill" /\ e.seq = f.seq => e = f
    /\ \A e, f \in pub : e # f => Range(e.of) \cap Range(f.of) = {}

Before == SubSeq(log, 1, booted)

\* recover(): a boot has told every trade the journal had before it, also those
\* whose publish failed or whose process died first.
BootTellsFills == phase \in {"check", "up"} => FillsIn(Before) \subseteq pub

\* replay-hold.ts: no order trades after a boot that did not confirm its hold.
UnconfirmedNeverFills ==
  \A o \in bad : \A e \in FillsIn(log) \ FillsIn(Before) : o \notin Range(e.of)

\* Journal, engine and world agree on the trades: what was told is journalled, and
\* what was journalled before a boot is told by it.
FillsConsistent == EngineTypeOK /\ ToldIsJournalled /\ BootTellsFills
=============================================================================
