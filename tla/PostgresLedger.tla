--------------------------- MODULE PostgresLedger ---------------------------
(***************************************************************************)
(* The posting engine: PostgresLedger.post inside LedgerService.post, with *)
(* the outbox relay (services/svc-ledger/src/ledger/postgres-ledger.ts and *)
(* service.ts, packages/db/src/connection.ts).                             *)
(*                                                                         *)
(* Calls run concurrently on any number of replicas.  Each await of post() *)
(* is a step: the unlocked lookup of the key, the wait for the chain_tip   *)
(* row lock, the second lookup, the read of the switch, the read of the    *)
(* accounts, the application of the entries, the commit, and the publish   *)
(* and mark of the outbox row.  Any of them may be the last one a call     *)
(* takes.  What a transaction writes becomes visible at its commit.        *)
(*                                                                         *)
(* The switch is moved by PostingFreeze's writeFreeze, which locks the     *)
(* posting_freeze row and never chain_tip; here only its committed value   *)
(* matters.                                                                *)
(***************************************************************************)
EXTENDS LedgerRules

CONSTANTS
  Calls,         \* calls of LedgerService.post, each made once
  Relays,        \* concurrent outbox ticks and boots
  Keys,          \* idempotency keys
  Reasons,       \* what a post says it is: its module and its reason
  Requests,      \* [key, reason, entries] records a call may carry
  Accounts,      \* account keys
  InitBalance,   \* balances when the observation starts
  ConflictMode,  \* "refuse" or "detect": IdempotencyConflictMode
  MaxAttempts,   \* attempts of transaction() (10 in the code)
  NoCall,        \* nobody holds the chain_tip row lock
  NoRequest      \* the request of a call not made yet

ASSUME EngineConstants ==
  /\ InitBalance \in [Accounts -> Int]
  /\ ConflictMode \in {"refuse", "detect"}
  /\ MaxAttempts \in Nat \ {0}
  /\ NoCall \notin Calls
  /\ NoRequest \notin Requests
  /\ Requests \subseteq [key : Keys, reason : Reasons, entries : Seq(EntryInput)]
  /\ \A r \in Requests : \A i \in DOMAIN r.entries : AccountKey(r.entries[i].account) \in Accounts
  /\ \A k \in Accounts : k.ownerType # "treasury" => InitBalance[k] >= 0

VARIABLES
  journal,    \* ledger_tx with its entries and its ledger_posted_keys claim
  balance,    \* accounts.balance
  tip,        \* chain_tip.hash
  lock,       \* the call whose transaction holds FOR UPDATE on chain_tip
  frozen,     \* posting_freeze.frozen, as committed
  unsent,     \* tx ids whose ledger_tx_outbox row has no published_at
  announced,  \* tx ids whose ledgerTxPosted event the broker stored
  call,       \* per call: where it stands and its local variables
  relay,      \* per relay: the rows it read and has still to send
  late        \* history: transactions booked since the book was last frozen

ledgerVars == <<journal, balance, tip>>
outboxVars == <<unsent, announced>>
vars == <<journal, balance, tip, lock, frozen, unsent, announced, call, relay, late>>

\* A transaction id is a fresh uuid nobody sees before the commit: 1, 2, ... in
\* commit order.  hashTx covers that id, the entries and the previous hash, so
\* the id stands for the hash; 0 is the null previous hash.
NoTx == 0
NewId == Len(journal) + 1

\* The steps of a call that run inside its database transaction, under the lock.
InTx == {"recheck", "gate", "load", "apply"}

Running == {"fast", "lock", "outbox", "send", "mark"} \cup InTx

\* DEFINITE_POST_REFUSAL_CODES, and the clock-skew refusal raised beside them.
Refusals == {"invalid", "frozen", "clock_skew", "insufficient"}

Answers == {"none", "ok", "conflict", "backstop", "db_error", "bus_error", "lost"} \cup Refusals

Booked(key) == {n \in DOMAIN journal : journal[n].key = key}

-----------------------------------------------------------------------------
Quiet == [pc |-> "idle", req |-> NoRequest, attempt |-> 0, prev |-> NoTx,
          work |-> InitBalance, at |-> 0, tx |-> NoTx, answer |-> "none"]

Asleep == [pc |-> "idle", rows |-> {}, row |-> NoTx]

Init ==
  /\ journal = <<>>
  /\ balance = InitBalance
  /\ tip = NoTx
  /\ lock = NoCall
  /\ frozen = FALSE
  /\ unsent = {}
  /\ announced = {}
  /\ call = [c \in Calls |-> Quiet]
  /\ relay = [d \in Relays |-> Asleep]
  /\ late = 0

Goto(c, pc) == call' = [call EXCEPT ![c].pc = pc]

\* The call ends and its caller is told, or never hears.
Answer(c, what) ==
  call' = [call EXCEPT ![c] = [Quiet EXCEPT !.pc = "done", !.req = call[c].req,
                                            !.tx = call[c].tx, !.answer = what]]

\* The transaction ends, by commit or rollback, and the row lock with it.
Release(c) == lock' = IF lock = c THEN NoCall ELSE lock

\* A caller posts: LedgerService.post.
Begin(c, r) ==
  /\ call[c].pc = "idle"
  /\ call' = [call EXCEPT ![c].pc = "fast", ![c].req = r]
  /\ UNCHANGED <<ledgerVars, lock, frozen, outboxVars, relay, late>>

\* Mutant of ReplayOf: the body is not compared.
ReplayOfAnyBody(c, n) == call' = [call EXCEPT ![c].pc = "outbox", ![c].tx = journal[n].id]

\* replayOf: the key has booked.  The same movement gets the original back,
\* and so does a different one in detect mode; in refuse mode it is told.
ReplayOf(c, n) ==
  IF /\ ConflictMode = "refuse"
     /\ Fingerprint(journal[n]) # Fingerprint(call[c].req)
  THEN Answer(c, "conflict")
  ELSE call' = [call EXCEPT ![c].pc = "outbox", ![c].tx = journal[n].id]

\* The fast path: look the key up without a lock, then validate the body.
FastPath(c) ==
  /\ call[c].pc = "fast"
  /\ \/ \E n \in Booked(call[c].req.key) : ReplayOf(c, n)
     \/ /\ Booked(call[c].req.key) = {}
        /\ IF AssertValidPost(call[c].req.entries)
             THEN call' = [call EXCEPT ![c].pc = "lock", ![c].attempt = 1]
             ELSE Answer(c, "invalid")
  /\ UNCHANGED <<ledgerVars, lock, frozen, outboxVars, relay, late>>

\* Mutant of TakeLock: a plain SELECT, no FOR UPDATE.
TakeLockShared(c) ==
  /\ call[c].pc = "lock"
  /\ lock' = c
  /\ call' = [call EXCEPT ![c].pc = "recheck", ![c].prev = tip]
  /\ UNCHANGED <<ledgerVars, frozen, outboxVars, relay, late>>

\* BEGIN; SELECT ... FROM chain_tip FOR UPDATE, once it is granted
TakeLock(c) ==
  /\ call[c].pc = "lock"
  /\ lock = NoCall
  /\ lock' = c
  /\ call' = [call EXCEPT ![c].pc = "recheck", ![c].prev = tip]
  /\ UNCHANGED <<ledgerVars, frozen, outboxVars, relay, late>>

\* Mutant of Recheck: the fast path's lookup is trusted.
RecheckSkipped(c) ==
  /\ call[c].pc = "recheck"
  /\ Goto(c, "gate")
  /\ UNCHANGED <<ledgerVars, lock, frozen, outboxVars, relay, late>>

\* The key again, inside the lock and before the switch.
Recheck(c) ==
  /\ call[c].pc = "recheck"
  /\ \/ /\ \E n \in Booked(call[c].req.key) : ReplayOf(c, n)
        /\ Release(c)
     \/ /\ Booked(call[c].req.key) = {}
        /\ Goto(c, "gate")
        /\ UNCHANGED lock
  /\ UNCHANGED <<ledgerVars, frozen, outboxVars, relay, late>>

\* refuseNewWriteOnClockSkew: the host's clock has drifted past the bound.
RefuseClockSkew(c) ==
  /\ call[c].pc = "gate"
  /\ Answer(c, "clock_skew")
  /\ Release(c)
  /\ UNCHANGED <<ledgerVars, frozen, outboxVars, relay, late>>

\* SELECT frozen FROM posting_freeze: a plain read of the committed row.
ReadFreeze(c) ==
  /\ call[c].pc = "gate"
  /\ \/ /\ frozen
        /\ Answer(c, "frozen")
        /\ Release(c)
     \/ /\ ~frozen
        /\ Goto(c, "load")
        /\ UNCHANGED lock
  /\ UNCHANGED <<ledgerVars, frozen, outboxVars, relay, late>>

\* upsertAccount for every account of the request.
LoadAccounts(c) ==
  /\ call[c].pc = "load"
  /\ call' = [call EXCEPT ![c].pc = "apply", ![c].work = balance, ![c].at = 0]
  /\ UNCHANGED <<ledgerVars, lock, frozen, outboxVars, relay, late>>

Entry(c) == call[c].req.entries[call[c].at + 1]

\* Mutant of NextBalance: an account named twice starts from its row each time.
NextBalanceOfRow(c) == balance[AccountKey(Entry(c).account)] + SignedDelta(Entry(c))

\* The balance the next entry would leave on its account.
NextBalance(c) == call[c].work[AccountKey(Entry(c).account)] + SignedDelta(Entry(c))

Overdraws(c) == NextBalance(c) < 0 /\ Entry(c).account.ownerType # "treasury"

\* One entry of the request, checked as it is applied.
ApplyEntry(c) ==
  /\ call[c].pc = "apply"
  /\ call[c].at < Len(call[c].req.entries)
  /\ \/ /\ Overdraws(c)
        /\ Answer(c, "insufficient")
        /\ Release(c)
     \/ /\ ~Overdraws(c)
        /\ call' = [call EXCEPT ![c].at = @ + 1,
                                ![c].work[AccountKey(Entry(c).account)] = NextBalance(c)]
        /\ UNCHANGED lock
  /\ UNCHANGED <<ledgerVars, frozen, outboxVars, relay, late>>

Touched(r) == {AccountKey(r.entries[i].account) : i \in DOMAIN r.entries}

Negative(c, k) == k.ownerType # "treasury" /\ call[c].work[k] < 0

\* The database's own refusals: the unique key of ledger_posted_keys and
\* accounts_non_negative_ck.
Backstop(c) == \/ Booked(call[c].req.key) # {}
               \/ \E k \in Touched(call[c].req) : Negative(c, k)

\* Mutant of Write: the outbox row is not inserted.
WriteNoOutbox(c) ==
  LET r == call[c].req IN
  /\ journal' = Append(journal, [id |-> NewId, key |-> r.key, reason |-> r.reason,
                                 entries |-> r.entries, prev |-> call[c].prev])
  /\ balance' = [k \in Accounts |-> IF k \in Touched(r) THEN call[c].work[k] ELSE balance[k]]
  /\ tip' = NewId
  /\ call' = [call EXCEPT ![c] = [Quiet EXCEPT !.pc = "outbox", !.req = r, !.tx = NewId]]
  /\ UNCHANGED <<unsent, late>>

\* The inserts and updates.
Write(c) ==
  LET r == call[c].req IN
  /\ journal' = Append(journal, [id |-> NewId, key |-> r.key, reason |-> r.reason,
                                 entries |-> r.entries, prev |-> call[c].prev])
  /\ balance' = [k \in Accounts |-> IF k \in Touched(r) THEN call[c].work[k] ELSE balance[k]]
  /\ tip' = NewId
  /\ unsent' = unsent \cup {NewId}
  /\ late' = IF frozen THEN late + 1 ELSE late
  /\ call' = [call EXCEPT ![c] = [Quiet EXCEPT !.pc = "outbox", !.req = r, !.tx = NewId]]

\* COMMIT, or the rollback of a write the database refuses.
Commit(c) ==
  /\ call[c].pc = "apply"
  /\ call[c].at = Len(call[c].req.entries)
  /\ IF Backstop(c)
       THEN Answer(c, "backstop") /\ UNCHANGED <<ledgerVars, unsent, late>>
       ELSE Write(c)
  /\ Release(c)
  /\ UNCHANGED <<frozen, announced, relay>>

\* Mutant of Abort: the retry resumes without taking the lock again.
AbortResumes(c) ==
  /\ call[c].pc \in InTx
  /\ call[c].attempt < MaxAttempts
  /\ Release(c)
  /\ call' = [call EXCEPT ![c].pc = "load", ![c].attempt = @ + 1]
  /\ UNCHANGED <<ledgerVars, frozen, outboxVars, relay, late>>

\* A deadlock or serialization failure rolls the transaction back and
\* transaction() runs it again from BEGIN; any other failure (a statement or
\* idle timeout, also while queued for the lock), or the last attempt, throws.
Abort(c) ==
  /\ call[c].pc \in InTx \cup {"lock"}
  /\ Release(c)
  /\ \/ /\ call[c].attempt < MaxAttempts
        /\ call[c].pc \in InTx
        /\ call' = [call EXCEPT ![c] = [Quiet EXCEPT !.pc = "lock", !.req = call[c].req,
                                                     !.attempt = call[c].attempt + 1]]
     \/ Answer(c, "db_error")
  /\ UNCHANGED <<ledgerVars, frozen, outboxVars, relay, late>>

-----------------------------------------------------------------------------
(* After the commit: publishUnpublishedOutbox({txId}), then the answer.    *)

ReadOutbox(c) ==
  /\ call[c].pc = "outbox"
  /\ IF call[c].tx \in unsent THEN Goto(c, "send") ELSE Answer(c, "ok")
  /\ UNCHANGED <<ledgerVars, lock, frozen, outboxVars, relay, late>>

Send(c) ==
  /\ call[c].pc = "send"
  /\ announced' = announced \cup {call[c].tx}
  /\ Goto(c, "mark")
  /\ UNCHANGED <<ledgerVars, lock, frozen, unsent, relay, late>>

\* The bus throws, whether or not the broker stored the event, and so does
\* post(): the movement is booked and the caller sees an error.
SendFails(c) ==
  /\ call[c].pc = "send"
  /\ announced' \in {announced, announced \cup {call[c].tx}}
  /\ Answer(c, "bus_error")
  /\ UNCHANGED <<ledgerVars, lock, frozen, unsent, relay, late>>

MarkSent(c) ==
  /\ call[c].pc = "mark"
  /\ unsent' = unsent \ {call[c].tx}
  /\ Answer(c, "ok")
  /\ UNCHANGED <<ledgerVars, lock, frozen, announced, relay, late>>

\* The replica dies, or the reply is lost: Postgres rolls back an open
\* transaction and the caller never hears.
Crash(c) ==
  /\ call[c].pc \in Running
  /\ Answer(c, "lost")
  /\ Release(c)
  /\ UNCHANGED <<ledgerVars, frozen, outboxVars, relay, late>>

-----------------------------------------------------------------------------
(* recoverUnpublishedOutbox, on boot and on the outbox tick.  Rows come by *)
(* created_at, the start time of their transaction, which orders nothing   *)
(* the model keeps: any unsent row may be next.                            *)

RelayRead(d) ==
  /\ relay[d].pc = "idle"
  /\ unsent # {}
  /\ relay' = [relay EXCEPT ![d] = [pc |-> "send", rows |-> unsent, row |-> NoTx]]
  /\ UNCHANGED <<ledgerVars, lock, frozen, outboxVars, call, late>>

RelaySend(d) ==
  /\ relay[d].pc = "send"
  /\ \E t \in relay[d].rows :
       /\ announced' = announced \cup {t}
       /\ relay' = [relay EXCEPT ![d].pc = "mark", ![d].row = t]
  /\ UNCHANGED <<ledgerVars, lock, frozen, unsent, call, late>>

RelayMark(d) ==
  LET rest == relay[d].rows \ {relay[d].row} IN
  /\ relay[d].pc = "mark"
  /\ unsent' = unsent \ {relay[d].row}
  /\ relay' = [relay EXCEPT ![d] = IF rest = {} THEN Asleep
                                   ELSE [pc |-> "send", rows |-> rest, row |-> NoTx]]
  /\ UNCHANGED <<ledgerVars, lock, frozen, announced, call, late>>

\* The bus throws, whether or not the broker stored the event, or the replica
\* dies.
RelayFails(d) ==
  /\ relay[d].pc # "idle"
  /\ \/ UNCHANGED announced
     \/ /\ relay[d].pc = "send"
        /\ \E t \in relay[d].rows : announced' = announced \cup {t}
  /\ relay' = [relay EXCEPT ![d] = Asleep]
  /\ UNCHANGED <<ledgerVars, lock, frozen, unsent, call, late>>

-----------------------------------------------------------------------------
\* writeFreeze commits a switch.
WriteFreeze ==
  /\ frozen' = ~frozen
  /\ late' = 0
  /\ UNCHANGED <<ledgerVars, lock, outboxVars, call, relay>>

Step(c) ==
  \/ FastPath(c)
  \/ TakeLock(c)
  \/ Recheck(c)
  \/ RefuseClockSkew(c)
  \/ ReadFreeze(c)
  \/ LoadAccounts(c)
  \/ ApplyEntry(c)
  \/ Commit(c)
  \/ ReadOutbox(c)
  \/ Send(c)
  \/ MarkSent(c)

Failure(c) == Abort(c) \/ SendFails(c) \/ Crash(c)

RelayStep(d) == RelayRead(d) \/ RelaySend(d) \/ RelayMark(d)

Next ==
  \/ \E c \in Calls, r \in Requests : Begin(c, r)
  \/ \E c \in Calls : Step(c) \/ Failure(c)
  \/ \E d \in Relays : RelayStep(d) \/ RelayFails(d)
  \/ WriteFreeze

Spec == Init /\ [][Next]_vars

\* A call that is not killed runs on (a statement or idle timeout bounds every
\* wait for the lock), and the outbox tick keeps firing without failing at the
\* same point for ever.
Fairness ==
  /\ \A c \in Calls : WF_vars(Step(c))
  /\ \A d \in Relays : /\ WF_vars(RelayRead(d))
                       /\ SF_vars(RelaySend(d))
                       /\ SF_vars(RelayMark(d))

FairSpec == Spec /\ Fairness

-----------------------------------------------------------------------------
(* Properties.                                                             *)

Ids == Nat \ {NoTx}

\* Type invariant of the tables, the lock, the outbox and the calls.
TypeOK ==
  /\ journal \in Seq([id : Ids, key : Keys, reason : Reasons,
                      entries : Seq(EntryInput), prev : Nat])
  /\ balance \in [Accounts -> Int]
  /\ tip \in Nat
  /\ lock \in Calls \cup {NoCall}
  /\ frozen \in BOOLEAN
  /\ unsent \in SUBSET Ids
  /\ announced \in SUBSET Ids
  /\ call \in [Calls -> [pc : {"idle", "done"} \cup Running, req : Requests \cup {NoRequest},
                         attempt : 0 .. MaxAttempts, prev : Nat,
                         work : [Accounts -> Int], at : Nat, tx : Nat, answer : Answers]]
  /\ relay \in [Relays -> [pc : {"idle", "send", "mark"}, rows : SUBSET Ids, row : Nat]]
  /\ late \in Nat

\* The hash chain is a chain: every transaction names the one committed before
\* it and the tip names the last, however posts interleave, abort and retry.
ChainIsLinked ==
  /\ \A n \in DOMAIN journal : journal[n].id = n /\ journal[n].prev = n - 1
  /\ tip = Len(journal)

\* What f adds up to over S.
Total(f, S) == MapThenSumSet(LAMBDA x : f[x], S)

\* What the nth transaction moved on account k.
Moved(n, k) ==
  LET entries == journal[n].entries
  IN  SumOver(SignedDelta, entries, {i \in DOMAIN entries : AccountKey(entries[i].account) = k})

\* A balance is what it was at first and what the journal has moved since.
BalancesReplay ==
  \A k \in Accounts :
    balance[k] = InitBalance[k] + Total([n \in DOMAIN journal |-> Moved(n, k)], DOMAIN journal)

\* The balances of an asset add up to what they did at first.
Pots(asset) == {k \in Accounts : k.asset = asset}
AssetsConserved ==
  \A asset \in Assets : Total(balance, Pots(asset)) = Total(InitBalance, Pots(asset))

\* A book that only posts have written passes the three checks of reconcile.ts,
\* verifyChain, reconcileBalances and totalsByAsset, at every commit: no
\* interleaving, abort, retry or crash makes or loses money, or forks the chain.
BookProves == ChainIsLinked /\ BalancesReplay /\ AssetsConserved

\* The checks of post() are enough on their own: no request gets as far as a
\* database constraint, so a caller never sees one where a replay or an
\* insufficient-funds answer is due.
BackstopsNeverFire == \A c \in Calls : call[c].answer # "backstop"

\* A caller told ok holds a transaction that is booked under its key, moves
\* what it asked for (unless the engine runs in detect mode), and has been
\* announced on the bus.
OkIsBookedAndAnnounced ==
  \A c \in Calls : call[c].answer = "ok" =>
    \E n \in DOMAIN journal :
      /\ journal[n].id = call[c].tx
      /\ journal[n].key = call[c].req.key
      /\ ConflictMode = "refuse" =>
           Fingerprint(journal[n]) = Fingerprint(call[c].req)
      /\ journal[n].id \in announced

\* The bus never carries a transaction that is not committed, and an outbox
\* row is cleared only once the bus carries it.
OutboxTellsTheBook ==
  /\ announced \cup unsent \subseteq {journal[n].id : n \in DOMAIN journal}
  /\ \A n \in DOMAIN journal : journal[n].id \in announced \cup unsent

\* A freeze can be outrun by the one post that read the switch before it, and
\* by no other: at most one transaction books while the book is frozen.
AtMostOneOutrunsFreeze == frozen => late <= 1

\* One body lists the other's entries in another order, purposes compared without
\* the blanks around them.
Reordering(a, b) ==
  /\ a.reason = b.reason
  /\ \E p \in [DOMAIN a.entries -> DOMAIN b.entries] :
       /\ \A j \in DOMAIN b.entries : \E i \in DOMAIN a.entries : p[i] = j
       /\ \A i, k \in DOMAIN a.entries : p[i] = p[k] => i = k
       /\ \A i \in DOMAIN a.entries :
            [b.entries[p[i]] EXCEPT !.account = AccountKey(@)] =
            [a.entries[i] EXCEPT !.account = AccountKey(@)]

\* postFingerprint, against what it stands for: a second post under a booked key is
\* given the first one's transaction exactly when its body is a reordering of the
\* first one's, so no repeated or missing line hides behind a key and no reordering
\* is refused (in refuse mode).
ReplayIsReordering ==
  ConflictMode = "refuse" =>
    \A c \in Calls : call[c].answer \in {"ok", "conflict"} =>
      \A n \in Booked(call[c].req.key) :
        call[c].answer = "ok" <=> Reordering(journal[n], call[c].req)

\* When a caller is refused, its key has booked nothing at that moment: a retry
\* of a committed post gets its transaction back even if the book is frozen,
\* the funds are gone or the clock has drifted since.
RefusedIsUnbooked ==
  [][\A c \in Calls : call[c].answer = "none" /\ call'[c].answer \in Refusals
        => Booked(call[c].req.key) = {}]_vars

\* Once committed, a transaction is announced at last, whatever became of the
\* call that booked it.
EveryBookingAnnounced ==
  \A n \in 1 .. Cardinality(Calls) : Len(journal) >= n ~> n \in announced

\* What each call was told, in the terms of the abstract ledger.
Told(c) ==
  LET outcome == CASE call[c].answer \in {"ok", "conflict"} -> call[c].answer
                   [] call[c].answer \in Refusals -> "refused"
                   [] OTHER -> "unknown"
  IN  IF call[c].pc = "done" THEN [outcome |-> outcome, req |-> call[c].req]
      ELSE [outcome |-> "none", req |-> NoRequest]

\* The engine implements the atomic ledger: its journal, its balances and its
\* answers are those of a ledger that books one post at a time.
Atomic == INSTANCE AtomicLedger
            WITH book <- [n \in DOMAIN journal |->
                            [key |-> journal[n].key, reason |-> journal[n].reason,
                             entries |-> journal[n].entries]],
                 funds <- balance,
                 told <- [c \in Calls |-> Told(c)]
AtomicSpec == Atomic!AtomicSpec
=============================================================================
