--------------------------- MODULE Reconciliation ---------------------------
(***************************************************************************)
(* The proof of the book: snapshot reconciliation, the scheduled tick of   *)
(* each replica and the operator's on-demand run                           *)
(* (services/svc-ledger/src/ledger/reconcile.ts,                           *)
(* scheduled-reconcile-tick.ts, service.ts).                               *)
(*                                                                         *)
(* A run reads the book in several statements, while posts go on, and each *)
(* statement, insert and commit may fail.  The book is reduced to the      *)
(* number of transactions it holds and to the set of checks a corruption   *)
(* would show in.  The switch keeps who threw it; PostingFreeze has the    *)
(* rest of it.  Init, Next and Spec carry the prefix Recon, so that a      *)
(* module can extend both.                                                 *)
(***************************************************************************)
EXTENDS Integers, FiniteSets, FiniteSetsExt

CONSTANTS
  Replicas,       \* processes with a reconciliation timer
  Operators,      \* on-demand reconcile calls of the operator door
  NoSession,      \* no session holds the advisory lock
  MaxIncomplete,  \* N: RECONCILE_MAX_CONSECUTIVE_INCOMPLETE (3 by default)
  CountCap,       \* bound: counts of incomplete runs saturate here
  MaxPosts        \* bound: transactions the book receives

ASSUME ReconcileConstants ==
  /\ MaxIncomplete \in Nat \ {0}
  /\ CountCap \in Nat /\ CountCap >= MaxIncomplete
  /\ MaxPosts \in Nat
  /\ NoSession \notin Replicas \cup Operators
  /\ Replicas \cap Operators = {}

VARIABLES
  book,      \* [seq, bad]: transactions so far; the checks that would fail
  switch,    \* posting_freeze: "open", or what froze it
  runs,      \* reconcile_runs: [last, streak], the outcome of the last row and
             \* what countConsecutiveIncompleteRuns counts
  anchors,   \* balance_snapshots: [tip, seq, bad] of each set of rows
  advisory,  \* the session that holds the advisory lock
  run,       \* per runner: where its run stands and what it read
  mem        \* per replica: consecutiveIncomplete and skipTicks

reconVars == <<book, switch, runs, anchors, advisory, run, mem>>

Runners == Replicas \cup Operators
Checks == {"balances", "chain", "totals"}
Books == [seq : 0 .. MaxPosts, bad : SUBSET Checks]
Frozen == switch # "open"

Quiet == [pc |-> "idle", snap |-> [seq |-> 0, bad |-> {}], tip |-> 0, last |-> 0,
          staged |-> [seq |-> 0, bad |-> {}]]

Bump(n) == IF n < CountCap THEN n + 1 ELSE CountCap

\* backoffTicks: skip 0, 1, 3, 7, then 8 ticks
BackoffTicks(n) == IF n <= 1 THEN 0 ELSE Min({2 ^ (n - 1) - 1, 8})

-----------------------------------------------------------------------------
ReconInit ==
  /\ book = [seq |-> 0, bad |-> {}]
  /\ switch = "open"
  /\ runs = [last |-> "none", streak |-> 0]
  /\ anchors = {}
  /\ advisory = NoSession
  /\ run = [r \in Runners |-> Quiet]
  /\ mem = [r \in Replicas |-> [count |-> 0, skip |-> 0]]

ReconGoto(r, pc) == run' = [run EXCEPT ![r].pc = pc]

\* Past the proof: what it read is not used again.
Leave(r, pc) == run' = [run EXCEPT ![r] = [Quiet EXCEPT !.pc = pc]]

End(r) == run' = [run EXCEPT ![r] = Quiet]

\* insertRunRow: an ok or a mismatch row ends the streak.
RunRow(outcome) ==
  runs' = [last |-> outcome, streak |-> IF outcome = "incomplete" THEN Bump(runs.streak) ELSE 0]

\* cleanup: the session lets go of the advisory lock.
Unlock(r) == advisory' = IF advisory = r THEN NoSession ELSE advisory

\* writeFreeze under actor reconciliation: an open book is frozen, a frozen one
\* keeps its attribution (ledger.freeze_attributed is swallowed).
Halt(why) == switch' = IF Frozen THEN switch ELSE why

-----------------------------------------------------------------------------
(* The world around: posts, corruption and operators.                      *)

Post ==
  /\ ~Frozen
  /\ book.seq < MaxPosts
  /\ book' = [book EXCEPT !.seq = @ + 1]
  /\ UNCHANGED <<switch, runs, anchors, advisory, run, mem>>

Corrupt ==
  /\ book.bad = {}
  /\ \E bad \in (SUBSET Checks) \ {{}} : book' = [book EXCEPT !.bad = bad]
  /\ UNCHANGED <<switch, runs, anchors, advisory, run, mem>>

OperatorSwitch ==
  /\ switch' = IF Frozen THEN "open" ELSE "operator"
  /\ UNCHANGED <<book, runs, anchors, advisory, run, mem>>

-----------------------------------------------------------------------------
(* runSnapshotReconciliation                                               *)

\* runScheduledReconciliationTick: back off, or run.
Tick(r) ==
  /\ run[r].pc = "idle"
  /\ IF mem[r].skip > 0
       THEN mem' = [mem EXCEPT ![r].skip = @ - 1] /\ UNCHANGED run
       ELSE ReconGoto(r, "gate") /\ UNCHANGED mem
  /\ UNCHANGED <<book, switch, runs, anchors, advisory>>

\* LedgerService.reconcile
AskReconcile(o) ==
  /\ run[o].pc = "idle"
  /\ ReconGoto(o, "gate")
  /\ UNCHANGED <<book, switch, runs, anchors, advisory, mem>>

\* pg_try_advisory_lock, the statement that also takes the snapshot
Acquire(r) ==
  /\ run[r].pc = "gate"
  /\ advisory = NoSession
  /\ advisory' = r
  /\ run' = [run EXCEPT ![r] = [Quiet EXCEPT !.pc = "tip", !.snap = book]]
  /\ UNCHANGED <<book, switch, runs, anchors, mem>>

\* Another run holds it: skipped.
Busy(r) ==
  /\ run[r].pc = "gate"
  /\ advisory # NoSession
  /\ End(r)
  /\ UNCHANGED <<book, switch, runs, anchors, advisory, mem>>

\* Mutant of Seen: READ COMMITTED, every statement sees the live book.
SeenLive(r) == book

\* REPEATABLE READ: every statement of the proof sees the snapshot.
Seen(r) == run[r].snap

ReadTip(r) ==
  /\ run[r].pc = "tip"
  /\ run' = [run EXCEPT ![r].pc = "pages", ![r].tip = Seen(r).seq]
  /\ UNCHANGED <<book, switch, runs, anchors, advisory, mem>>

\* verifyChain pages through ledger_tx to the last row it finds ...
ReadPages(r) ==
  /\ run[r].pc = "pages"
  /\ run' = [run EXCEPT ![r].pc = "verdict", ![r].last = Seen(r).seq]
  /\ UNCHANGED <<book, switch, runs, anchors, advisory, mem>>

\* ... then wants chain_tip to name that row.
Broken(r) == Seen(r).bad \cup (IF run[r].last # Seen(r).seq THEN {"chain"} ELSE {})

\* runReconciliation: the three checks settle, some of them by failing.  One
\* that found a break makes the verdict; otherwise one that failed leaves the
\* run incomplete.
Verdict(r) ==
  /\ run[r].pc = "verdict"
  /\ \E failed \in SUBSET Checks :
       \/ /\ Broken(r) \ failed # {}
          /\ Leave(r, "mismatch")
          /\ UNCHANGED advisory
       \/ /\ Broken(r) \subseteq failed /\ failed # {}
          /\ Leave(r, "incomplete")
          /\ Unlock(r)
       \/ /\ Broken(r) = {} /\ failed = {}
          /\ ReconGoto(r, "stage")
          /\ UNCHANGED advisory
  /\ UNCHANGED <<book, switch, runs, anchors, mem>>

\* Mutant of Stage: the balances are read after the snapshot was committed.
StageAfterCommit(r) ==
  /\ run[r].pc = "stage"
  /\ run' = [run EXCEPT ![r].pc = "anchor", ![r].staged = book]
  /\ UNCHANGED <<book, switch, runs, anchors, advisory, mem>>

\* Still inside the snapshot: copy the balances aside, then commit it.
Stage(r) ==
  /\ run[r].pc = "stage"
  /\ run' = [run EXCEPT ![r].pc = "anchor", ![r].staged = Seen(r)]
  /\ UNCHANGED <<book, switch, runs, anchors, advisory, mem>>

\* The balance_snapshots rows and the ok row, in one transaction
WriteAnchor(r) ==
  /\ run[r].pc = "anchor"
  /\ anchors' = anchors \cup
       {[tip |-> run[r].tip, seq |-> run[r].staged.seq, bad |-> run[r].staged.bad]}
  /\ RunRow("ok")
  /\ Unlock(r)
  /\ UNCHANGED <<book, switch>>

\* The tick forgets its count.
Anchor(r) ==
  /\ WriteAnchor(r)
  /\ mem' = IF r \in Replicas THEN [mem EXCEPT ![r].count = 0] ELSE mem
  /\ End(r)

\* The commit landed and its reply was lost: the catch calls it unfinished.
AnchorUnheard(r) ==
  /\ WriteAnchor(r)
  /\ Leave(r, "incomplete")
  /\ UNCHANGED mem

\* Mutant of WriteMismatch: the row alone, the halt is left to the handler.
WriteMismatchOnly(r) ==
  /\ run[r].pc = "mismatch"
  /\ RunRow("mismatch")
  /\ Unlock(r)
  /\ UNCHANGED <<book, switch, anchors, mem>>

\* freezeMismatch and the mismatch row, in one transaction
WriteMismatch(r) ==
  /\ run[r].pc = "mismatch"
  /\ Halt("mismatch")
  /\ RunRow("mismatch")
  /\ Unlock(r)
  /\ UNCHANGED <<book, anchors, mem>>

RecordMismatch(r) == WriteMismatch(r) /\ Leave(r, "handle")

\* The commit landed and its reply was lost: it is recorded once more.
RecordMismatchUnheard(r) == WriteMismatch(r) /\ Leave(r, "rerecord")

\* The catch: a statement failed.  A mismatch already established stays one; a
\* chain_tip row of the wrong shape is one too; anything else is unfinished, a
\* green proof that could not be anchored included.
RunFails(r) ==
  /\ \/ /\ \/ run[r].pc = "mismatch"
           \/ run[r].pc = "tip" /\ "chain" \in Seen(r).bad
        /\ Leave(r, "rerecord")
     \/ /\ run[r].pc \in {"gate", "tip", "pages", "verdict", "stage", "anchor"}
        /\ Leave(r, "incomplete")
  /\ Unlock(r)
  /\ UNCHANGED <<book, switch, runs, anchors, mem>>

\* recordAfterRollback of a mismatch: halt and row again, best effort
Rerecord(r) ==
  /\ run[r].pc = "rerecord"
  /\ \/ Halt("mismatch") /\ RunRow("mismatch")
     \/ UNCHANGED <<switch, runs>>
  /\ Leave(r, "handle")
  /\ UNCHANGED <<book, anchors, advisory, mem>>

\* Where a run goes on when it ends incomplete, or its handler throws: the
\* operator's call throws to the operator.
NextOf(r, pc) == IF r \in Replicas THEN Leave(r, pc) ELSE End(r)

\* recordAfterRollback of an incomplete run
RecordIncomplete(r) ==
  /\ run[r].pc = "incomplete"
  /\ RunRow("incomplete")
  /\ NextOf(r, "note")
  /\ UNCHANGED <<book, switch, anchors, advisory, mem>>

RecordIncompleteFails(r) ==
  /\ run[r].pc = "incomplete"
  /\ NextOf(r, "note")
  /\ UNCHANGED <<book, switch, runs, anchors, advisory, mem>>

\* handleReconciliationMismatch: freeze, then tell the bus
Handle(r) ==
  /\ run[r].pc = "handle"
  /\ Halt("mismatch")
  /\ End(r)
  /\ UNCHANGED <<book, runs, anchors, advisory, mem>>

\* The freeze did not land, or the bus threw after it did.
HandleFails(r) ==
  /\ run[r].pc = "handle"
  /\ Halt("mismatch") \/ UNCHANGED switch
  /\ NextOf(r, "refreeze")
  /\ UNCHANGED <<book, runs, anchors, advisory, mem>>

-----------------------------------------------------------------------------
(* The tick, once the run has ended.                                       *)

\* ledger.reconcile_freeze_failed: the tick freezes again
Refreeze(r) ==
  /\ run[r].pc = "refreeze"
  /\ Halt("mismatch")
  /\ End(r)
  /\ UNCHANGED <<book, runs, anchors, advisory, mem>>

\* It throws again, or landed and could not be read back: the tick fails, loudly.
RefreezeFails(r) ==
  /\ run[r].pc = "refreeze"
  /\ Halt("mismatch") \/ UNCHANGED switch
  /\ End(r)
  /\ UNCHANGED <<book, runs, anchors, advisory, mem>>

\* Mutant of AnnouncedStreak: only this process's count.
AnnouncedStreakInMemory(count, durable) == {count}

\* announcedStreak: the larger of both counts, or the process's own when the
\* durable one cannot be read
AnnouncedStreak(count, durable) == {count, Max({count, durable})}

\* noteIncomplete, up to the decision to freeze
Note(r) ==
  LET count == Bump(mem[r].count) IN
  /\ run[r].pc = "note"
  /\ \E streak \in AnnouncedStreak(count, runs.streak) :
       IF streak >= MaxIncomplete
         THEN Leave(r, "unproven") /\ mem' = [mem EXCEPT ![r].count = count]
         ELSE /\ End(r)
              /\ mem' = [mem EXCEPT ![r] = [count |-> count, skip |-> BackoffTicks(count)]]
  /\ UNCHANGED <<book, switch, runs, anchors, advisory>>

\* freezeAsReconciliation(reconcile_unproven)
FreezeUnproven(r) ==
  /\ run[r].pc = "unproven"
  /\ Halt("unproven")
  /\ mem' = [mem EXCEPT ![r].skip = BackoffTicks(mem[r].count)]
  /\ End(r)
  /\ UNCHANGED <<book, runs, anchors, advisory>>

\* It throws: unless alreadyHalted finds the book halted, which it may fail to
\* read, the next tick retries.
FreezeUnprovenFails(r) ==
  /\ run[r].pc = "unproven"
  /\ Halt("unproven") \/ UNCHANGED switch
  /\ \E halted \in {FALSE, switch' # "open"} :
       mem' = [mem EXCEPT ![r].skip = IF halted THEN BackoffTicks(mem[r].count) ELSE 0]
  /\ End(r)
  /\ UNCHANGED <<book, runs, anchors, advisory>>

\* The process dies: its session and its counts go with it.
Restart(r) ==
  /\ run' = [run EXCEPT ![r] = Quiet]
  /\ mem' = IF r \in Replicas THEN [mem EXCEPT ![r] = [count |-> 0, skip |-> 0]] ELSE mem
  /\ Unlock(r)
  /\ UNCHANGED <<book, switch, runs, anchors>>

ReconNext ==
  \/ Post
  \/ Corrupt
  \/ OperatorSwitch
  \/ \E o \in Operators : AskReconcile(o)
  \/ \E r \in Replicas : \/ Tick(r)
                         \/ Refreeze(r)
                         \/ RefreezeFails(r)
                         \/ Note(r)
                         \/ FreezeUnproven(r)
                         \/ FreezeUnprovenFails(r)
  \/ \E r \in Runners : \/ Acquire(r)
                        \/ Busy(r)
                        \/ ReadTip(r)
                        \/ ReadPages(r)
                        \/ Verdict(r)
                        \/ Stage(r)
                        \/ Anchor(r)
                        \/ AnchorUnheard(r)
                        \/ RecordMismatch(r)
                        \/ RecordMismatchUnheard(r)
                        \/ RunFails(r)
                        \/ Rerecord(r)
                        \/ RecordIncomplete(r)
                        \/ RecordIncompleteFails(r)
                        \/ Handle(r)
                        \/ HandleFails(r)
                        \/ Restart(r)

ReconSpec == ReconInit /\ [][ReconNext]_reconVars

\* The timer keeps firing.  No step fails, and no process dies, at the same
\* place for ever; a proof may still fail to reach its verdict every time.
ReconFairness ==
  \A r \in Replicas :
    /\ SF_reconVars(Tick(r))
    /\ SF_reconVars(Acquire(r))
    /\ SF_reconVars(Busy(r))
    /\ SF_reconVars(ReadTip(r))
    /\ SF_reconVars(ReadPages(r))
    /\ SF_reconVars(Verdict(r))
    /\ WF_reconVars(Stage(r))
    /\ WF_reconVars(Anchor(r))
    /\ SF_reconVars(RecordMismatch(r))
    /\ WF_reconVars(Rerecord(r))
    /\ SF_reconVars(RecordIncomplete(r))
    /\ SF_reconVars(Handle(r))
    /\ WF_reconVars(Refreeze(r))
    /\ WF_reconVars(Note(r))
    /\ SF_reconVars(Note(r) /\ run'[r].pc = "unproven")
    /\ SF_reconVars(FreezeUnproven(r))

ReconFairSpec == ReconSpec /\ ReconFairness

-----------------------------------------------------------------------------
(* Properties.                                                             *)

\* Type invariant of the book, the switch, the tables and the runners.
ReconTypeOK ==
  /\ book \in Books
  /\ switch \in {"open", "operator", "mismatch", "unproven"}
  /\ runs \in [last : {"none", "ok", "mismatch", "incomplete"}, streak : 0 .. CountCap]
  /\ anchors \subseteq [tip : 0 .. MaxPosts, seq : 0 .. MaxPosts, bad : SUBSET Checks]
  /\ advisory \in Runners \cup {NoSession}
  /\ run \in [Runners -> [pc : {"idle", "gate", "tip", "pages", "verdict", "stage", "anchor",
                                "mismatch", "rerecord", "incomplete", "handle", "refreeze",
                                "note", "unproven"},
                          snap : Books, tip : 0 .. MaxPosts, last : 0 .. MaxPosts,
                          staged : Books]]
  /\ mem \in [Replicas -> [count : 0 .. CountCap, skip : 0 .. 8]]

\* A healthy book is never halted as a mismatch: neither posts that commit
\* while a proof reads, nor a failing statement, nor a green proof whose
\* snapshot cannot be written, make a false alarm.
NoFalseAlarm == switch = "mismatch" => book.bad # {}

\* Every set of balance_snapshots rows holds the balances of a book that was
\* proved whole, at the very tip it names, whatever was posted meanwhile.
AnchorsAreProved == \A a \in anchors : a.seq = a.tip /\ a.bad = {}

\* A mismatch is on record only together with the halt it calls for, however
\* often recording it failed before: no reader of reconcile_runs ever finds one
\* beside a book that nobody has halted.
MismatchHaltsBook ==
  [][runs'.last = "mismatch" /\ runs.last # "mismatch" => switch' # "open"]_reconVars

\* A corrupted book is halted at last: by the proof that sees it, or because
\* proofs that cannot finish are counted across restarts and replicas.
CorruptionHalts == book.bad # {} ~> Frozen
=============================================================================
