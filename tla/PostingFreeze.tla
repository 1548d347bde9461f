--------------------------- MODULE PostingFreeze ---------------------------
(***************************************************************************)
(* The ledger's kill switch: the posting_freeze row, the durable outbox of *)
(* its switches, and the calls of LedgerService that move the one and      *)
(* drain the other (services/svc-ledger/src/ledger/freeze.ts, service.ts). *)
(*                                                                         *)
(* Every call runs concurrently with every other.  A call gives up control *)
(* at each await, so the write of the switch, the read of the outbox, each *)
(* publish and each mark are steps of their own.  The write itself is one  *)
(* database transaction under the row lock, hence one step.                *)
(***************************************************************************)
EXTENDS Integers, Sequences, FiniteSets

CONSTANTS
  Callers,      \* concurrent handlers, boots and ticks of all replicas
  Actors,       \* operator ids as they arrive on the wire
  People,       \* who those ids name once trimmed and case-folded
  Canon,        \* canonicalOperatorId: Actors -> People \cup {Nobody}
  Nobody,       \* null, blank or whitespace
  Reasons,      \* reasons an operator gives
  EnvActor,     \* 'env:LEDGER_POSTING_ENABLED'
  ReconActor,   \* 'reconciliation'
  BootReason,   \* reason of the boot freeze
  DrainLimit,   \* LIMIT of unpublishedFreezeOutbox (100 in the code)
  MaxSwitches,  \* bound: no command arrives once so many switches happened
  MaxStream     \* bound: the broker forgets only while the stream is shorter

ASSUME FreezeConstants ==
  /\ Canon \in [Actors -> People \cup {Nobody}]
  /\ Nobody \notin People \cup Actors
  /\ DrainLimit \in Nat \ {0}
  /\ MaxSwitches \in Nat
  /\ MaxStream \in Nat

VARIABLES
  freeze,   \* the posting_freeze row
  outbox,   \* ledger_freeze_outbox, indexed by switch_seq
  stream,   \* the switch_seq of each ledgerFreezeUpdated the broker stored
  window,   \* the idempotency keys the broker still deduplicates on
  call      \* per caller: where it stands and what it holds

vars == <<freeze, outbox, stream, window, call>>

Names == Actors \cup {EnvActor, ReconActor}
Why == Reasons \cup {BootReason}

Row == [frozen : BOOLEAN, reason : Why \cup {Nobody}, actor : Names \cup {Nobody}]

Command == [frozen : BOOLEAN, reason : Why \cup {Nobody},
            actor : Names \cup {Nobody}, confirm : Actors \cup {Nobody}]

Idle == [pc |-> "idle", cmd |-> [frozen |-> FALSE, reason |-> Nobody,
                                 actor |-> Nobody, confirm |-> Nobody],
         rows |-> {}]

\* canonicalOperatorId, for the ids that are not operators too.
Person(id) == IF id \in Actors THEN Canon[id] ELSE id

-----------------------------------------------------------------------------
(* Decisions taken under the row lock.                                     *)

\* Mutant of DualControlRefuse: ids compared as typed.
DualControlRefuseRaw(actor, confirm) ==
  actor = Nobody \/ confirm = Nobody \/ confirm = actor

\* dualControlRefuse
DualControlRefuse(actor, confirm) ==
  \/ Person(actor) = Nobody
  \/ Person(confirm) = Nobody
  \/ Person(confirm) = Person(actor)

\* unfreezeRefusal, of a book that is frozen
UnfreezeRefusal(current, actor, confirm) ==
  \/ DualControlRefuse(actor, confirm)
  \/ /\ Person(current.actor) # Nobody
     /\ Person(confirm) = Person(current.actor)

\* resolveAttributedFreeze: a repeated freeze is a no-op only with the same
\* reason and the same actor, compared as they were written.
SameAttribution(current, cmd) ==
  current.reason = cmd.reason /\ current.actor = cmd.actor

NoOp(cmd) == \/ cmd.frozen /\ freeze.frozen /\ SameAttribution(freeze, cmd)
             \/ ~cmd.frozen /\ ~freeze.frozen

Moves(cmd) == \/ cmd.frozen /\ ~freeze.frozen
              \/ /\ ~cmd.frozen /\ freeze.frozen
                 /\ ~UnfreezeRefusal(freeze, cmd.actor, cmd.confirm)

NewRow(cmd) == [frozen |-> cmd.frozen,
                reason |-> IF cmd.frozen THEN cmd.reason ELSE Nobody,
                actor |-> cmd.actor]

-----------------------------------------------------------------------------
(* The outbox.                                                             *)

Unpublished == {s \in DOMAIN outbox : ~outbox[s].published}

\* unpublishedFreezeOutbox: the lowest DrainLimit of them, by switch_seq
Oldest(S) == {s \in S : Cardinality({t \in S : t < s}) < DrainLimit}

\* Mutant of IsFirst: rows come in any order.
IsFirstUnordered(s, S) == s \in S

IsFirst(s, S) == s \in S /\ \A t \in S : s <= t

Announced == {stream[i] : i \in DOMAIN stream}

\* The broker keeps a message unless its idempotency key is in the window.
Offer(s) == /\ stream' = IF s \in window THEN stream ELSE Append(stream, s)
            /\ window' = window \cup {s}

-----------------------------------------------------------------------------
Init ==
  /\ freeze = [frozen |-> FALSE, reason |-> Nobody, actor |-> Nobody]
  /\ outbox = <<>>
  /\ stream = <<>>
  /\ window = {}
  /\ call = [c \in Callers |-> Idle]

Goto(c, pc) == call' = [call EXCEPT ![c].pc = pc]

Drain(c) == call' = [call EXCEPT ![c] = [Idle EXCEPT !.pc = "drain"]]

Start(c, cmd) ==
  /\ call[c].pc = "idle"
  /\ Len(outbox) < MaxSwitches
  /\ call' = [call EXCEPT ![c] = [pc |-> "write", cmd |-> cmd, rows |-> {}]]
  /\ UNCHANGED <<freeze, outbox, stream, window>>

\* LedgerService.freeze, from an operator or from reconciliation
AskFreeze(c) ==
  \E reason \in Reasons, actor \in {a \in Actors : Canon[a] # Nobody} \cup {ReconActor} :
    Start(c, [frozen |-> TRUE, reason |-> reason, actor |-> actor, confirm |-> Nobody])

\* LedgerService.unfreeze
AskUnfreeze(c) ==
  \E actor \in Actors, confirm \in Actors \cup {Nobody} :
    Start(c, [frozen |-> FALSE, reason |-> Nobody, actor |-> actor, confirm |-> confirm])

\* applyStartupPolicy of a replica booted with LEDGER_POSTING_ENABLED=false
\* that reads an open book.  Booted with true, or on a frozen book, it does
\* nothing, whatever the row says.
Boot(c) ==
  /\ ~freeze.frozen
  /\ Start(c, [frozen |-> TRUE, reason |-> BootReason, actor |-> EnvActor,
               confirm |-> Nobody])

\* writeFreeze: lock the row, decide, update it and append the outbox row.
\* A refusal throws: the call ends and drains nothing.
WriteFreeze(c) ==
  LET cmd == call[c].cmd IN
  /\ call[c].pc = "write"
  /\ \/ /\ NoOp(cmd)
        /\ Drain(c)
        /\ UNCHANGED <<freeze, outbox>>
     \/ /\ Moves(cmd)
        /\ freeze' = NewRow(cmd)
        /\ outbox' = Append(outbox, [row |-> NewRow(cmd), published |-> FALSE])
        /\ Drain(c)
     \/ /\ ~NoOp(cmd) /\ ~Moves(cmd)
        /\ call' = [call EXCEPT ![c] = Idle]
        /\ UNCHANGED <<freeze, outbox>>
  /\ UNCHANGED <<stream, window>>

\* Mutant of RecoverTick: the recovery drains the transaction outbox only.
RecoverTickTxOnly(c) == call[c].pc = "idle" /\ UNCHANGED vars

\* recoverUnpublishedOutbox, on boot and on every outbox tick
RecoverTick(c) ==
  /\ call[c].pc = "idle"
  /\ Drain(c)
  /\ UNCHANGED <<freeze, outbox, stream, window>>

\* publishUnpublishedFreezeOutbox: the read of the rows
ReadOutbox(c) ==
  /\ call[c].pc = "drain"
  /\ call' = [call EXCEPT ![c] =
                IF Unpublished = {} THEN Idle
                ELSE [call[c] EXCEPT !.pc = "publish", !.rows = Oldest(Unpublished)]]
  /\ UNCHANGED <<freeze, outbox, stream, window>>

\* bus.publish of the first row left, acknowledged
Publish(c) ==
  /\ call[c].pc = "publish"
  /\ \E s \in call[c].rows : IsFirst(s, call[c].rows) /\ Offer(s)
  /\ Goto(c, "mark")
  /\ UNCHANGED <<freeze, outbox>>

\* bus.publish throws, with or without the broker having stored the message;
\* the row stays unpublished and the call ends
PublishFails(c) ==
  /\ call[c].pc = "publish"
  /\ \/ \E s \in call[c].rows : IsFirst(s, call[c].rows) /\ Offer(s)
     \/ UNCHANGED <<stream, window>>
  /\ call' = [call EXCEPT ![c] = Idle]
  /\ UNCHANGED <<freeze, outbox>>

\* markFreezeOutboxPublished, then the next row
Mark(c) ==
  /\ call[c].pc = "mark"
  /\ \E s \in call[c].rows :
       /\ IsFirst(s, call[c].rows)
       /\ outbox' = [outbox EXCEPT ![s].published = TRUE]
       /\ call' = [call EXCEPT ![c] =
                     IF call[c].rows = {s} THEN Idle
                     ELSE [call[c] EXCEPT !.pc = "publish", !.rows = @ \ {s}]]
  /\ UNCHANGED <<freeze, stream, window>>

\* The replica running the call dies.
Crash(c) ==
  /\ call[c].pc # "idle"
  /\ call' = [call EXCEPT ![c] = Idle]
  /\ UNCHANGED <<freeze, outbox, stream, window>>

\* The broker's duplicate window (two minutes) passes for one key.
Forget(s) ==
  /\ s \in window
  /\ Len(stream) < MaxStream
  /\ window' = window \ {s}
  /\ UNCHANGED <<freeze, outbox, stream, call>>

Step(c) ==
  \/ AskFreeze(c)
  \/ AskUnfreeze(c)
  \/ Boot(c)
  \/ WriteFreeze(c)
  \/ RecoverTick(c)
  \/ ReadOutbox(c)
  \/ Publish(c)
  \/ PublishFails(c)
  \/ Mark(c)
  \/ Crash(c)

Next == \/ \E c \in Callers : Step(c)
        \/ \E s \in window : Forget(s)

Spec == Init /\ [][Next]_vars

\* The outbox tick keeps firing and neither the process nor the bus fails at
\* the same point for ever: whatever the drain does next it does at last.
Fairness ==
  \A c \in Callers :
    /\ WF_vars(WriteFreeze(c))
    /\ SF_vars(RecoverTick(c))
    /\ SF_vars(ReadOutbox(c))
    /\ SF_vars(Publish(c))
    /\ SF_vars(Mark(c))

FairSpec == Spec /\ Fairness

-----------------------------------------------------------------------------
(* Properties.                                                             *)

\* Type invariant of the switch, its outbox, the stream and the calls.
TypeOK ==
  /\ freeze \in Row
  /\ outbox \in Seq([row : Row, published : BOOLEAN])
  /\ stream \in Seq(Nat \ {0})
  /\ window \in SUBSET (Nat \ {0})
  /\ call \in [Callers -> [pc : {"idle", "write", "drain", "publish", "mark"},
                           cmd : Command, rows : SUBSET (Nat \ {0})]]

\* No switch is announced before every earlier switch has been: a consumer of
\* ledgerFreezeUpdated never hears of a thaw before the freeze it clears,
\* whichever calls and ticks drain the outbox at once, crash or retry
\* (freeze.ts orders by switch_seq, service.ts marks after the bus accepts).
AnnouncedInOrder ==
  \A i \in DOMAIN stream : \A s \in 1 .. stream[i] : \E j \in 1 .. i : stream[j] = s

\* A row is marked published only once the broker holds its event, so a crash
\* between the two costs a duplicate and never a lost switch (service.ts).
MarkedWasAnnounced ==
  \A s \in DOMAIN outbox : outbox[s].published => s \in Announced

\* The outbox is the history of the switch: its last row is what posting_freeze
\* says, and frozen and open rows alternate.  Every effective switch, and only
\* an effective one, left exactly one intent (writeFreezeInTransaction).
OutboxIsHistory ==
  /\ outbox = <<>> => ~freeze.frozen
  /\ outbox # <<>> => outbox[Len(outbox)].row = freeze
  /\ \A s \in DOMAIN outbox : outbox[s].row.frozen = (s % 2 = 1)

\* While the book stays frozen its reason and its actor stay what the first
\* freeze wrote, whoever else freezes, boots or reconciles meanwhile.
FirstFreezeStands ==
  [][freeze.frozen /\ freeze'.frozen => freeze' = freeze]_vars

\* A thaw takes two people, and the one who confirms it is not the one who
\* froze the book; no spelling of an operator id counts as a second person,
\* and neither a boot nor reconciliation ever thaws.
ThawTakesTwo ==
  [][freeze.frozen /\ ~freeze'.frozen =>
       \E c \in Callers :
         LET who == {Person(call[c].cmd.actor), Person(call[c].cmd.confirm)}
         IN  /\ call[c].pc = "write" /\ call'[c].pc # "write"
             /\ who \subseteq People
             /\ Cardinality(who) = 2
             /\ Person(call[c].cmd.confirm) # Person(freeze.actor)]_vars

\* Every switch is announced at last: the drain of a later call or tick sends
\* what a crash or a bus failure left behind (recoverUnpublishedOutbox).
EverySwitchAnnounced ==
  \A s \in 1 .. MaxSwitches + Cardinality(Callers) :
    s \in DOMAIN outbox ~> s \in Announced

=============================================================================
