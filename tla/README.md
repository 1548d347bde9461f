# Verification of the money path

TLA+ modules, TLC runs and TLAPS proofs about the part of the repository every
other part stands on, and about the four services in which money waits on a
concurrent protocol: `svc-ledger`, the only store of balances, with the
`ledger-client` its callers use; the event bus; spot orders in `svc-trade`; the
matching engine and its journal in `svc-matching`; escrow trades in `svc-p2p`;
personal payments in `svc-bank`. `docs/ARCHITECTURE.md` states the design: no
service holds a balance; a service decides that something is allowed, then posts
a double-entry transaction under a business key, so that a retry finds the
original.

Run a check with `tlc -config OrderSettle.cfg MCOrderSettle`, the proofs with
`tlapm PostgresLedger_proofs.tla`. `PROJECT.json` maps every definition to the
lines it models and gives every property a mutant that breaks it.

## 1. Inventory

| Part | State it keeps | Operations | Hard behaviours | What makes it correct |
| --- | --- | --- | --- | --- |
| Posting engine (`svc-ledger/src/ledger/postgres-ledger.ts`) | `ledger_tx`, `ledger_entries`, `ledger_posted_keys`, `accounts.balance`, `chain_tip`, `ledger_tx_outbox` | `post`, outbox read and mark | concurrent posts of one key or one balance, retried transactions, an unlocked fast path | one booking per key, no overdraft, an unforked hash chain, true answers |
| Service (`service.ts`, `index.ts`) | none beyond the tables | `post`, `freeze`, `unfreeze`, boot policy, outbox ticks, `reconcile` | crash between commit, publish and mark; ticks overlapping calls | what is committed is announced, what is announced is committed |
| Kill switch (`freeze.ts`, `dual-control.ts`) | `posting_freeze`, `ledger_freeze_outbox` | `writeFreeze`, drain | operators, boots and reconciliation race; broker deduplicates for two minutes only | first attribution stands, thaw takes two people, switches heard in order |
| Reconciliation (`reconcile.ts`, `scheduled-reconcile-tick.ts`) | `reconcile_runs`, `balance_snapshots`, an advisory lock, a count and a backoff in memory | hourly tick, operator's run | posts go on during a proof; any statement can fail; restarts | no false alarm, no lost alarm, proved anchors, an unprovable book is halted |
| `ledger-client` rules (`client.ts`, `types.ts`) | none | validation, fingerprint | a body that passes each rule and still means something else | balanced, paired, purposed posts; a retry is recognised exactly |
| `MemoryLedger` | maps | `post` | none: one synchronous step | the reference the engine must match |
| `ledger-client` transport (`http-client.ts`, `post-outcome.ts`) | attempt count of a call | retry, classify a failure | a late attempt books after a retry was refused | a claim is released only if the post can never book |
| Event bus (`packages/events`) | JetStream streams, keys in flight, a store of seen keys | `publish`, `subscribe`, `idempotent` | redelivery during handling, crash before commit, eviction, give-up | an acknowledged event was handled, repeated only for a reason, and none ends in silence |
| `packages/db` | none | `transaction` | abort and retry of a whole callback | no effect of a failed attempt survives |
| `svc-bank` personal pay (`transfers/personal-pay.ts`) | `personal_transfers`, `personal_requests` | `send`, `sweepStale`, `abandon`, `closeRequest` | lost replies, client retries, a sweep by age, two-statement undo | a request is paid once, the limit holds in the book, what is given up never books |
| `svc-trade` holds (`order-place.ts`, `holds.ts`, `order-change.ts`, `reconcile.ts`, `hold-outcome.ts`) | `trade.orders` | place, sweep of unknown holds, cancel, reconcile | unknown hold outcome, a cancel during a placement, two submitters | every hold has a row, every live order a hold |
| `svc-trade` settlement (`fills.ts`, `events.ts`, `holds.ts`) | `trade.fills`, `filled_qty`, status | settle fills inline and from the bus, release the rest | one fill handled twice, a departure before its fill, a crash in `finalize` | matches stay funded, nothing stays behind an ended order |
| `svc-matching` journal (`engine/journal-io.ts`) | NDJSON file, lock file, recovery gate | open, append, close, take over a dead lock | torn record, failed fsync, power loss, reused pid, two takers | one writer; replay finds what was admitted and nothing else |
| `svc-matching` engine (`engine.ts`, `cod-fence.ts`, `journal-replay.ts`, `replay-hold.ts`) | book, dead sessions, maintenance, cancels in flight | submit, cancel, mass cancel, session death, mark, boot | append in doubt, publish that fails, crash before publish | replay is the live book, every trade is told, no unfunded order trades after a boot |
| `svc-p2p` (`p2p-service.ts`, `state.ts`) | `p2p_trades`, `p2p_disputes`, offers | take, lock escrow, mark paid, confirm, cancel, dispute, rule, settle, sweeps | uncertain lock attempts, stale status, settlement and stamp split by a crash | every escrow ends, once, as decided |

How they interact: services call `svc-ledger` over HTTP with an idempotency key;
the engine commits the movement and an outbox row in one database transaction;
the service publishes the row to JetStream and marks it, in the call or later in
a tick; consumers deduplicate on the same key. The kill switch is a row the
engine reads inside its transaction. Reconciliation reads the engine's tables
from a snapshot and throws the switch. `svc-trade` posts a hold, submits the
order to `svc-matching`, and settles fills from the answer and, again, from the
engine's events; `svc-matching` reads the holds of the orders it replays.
`svc-p2p` and `svc-bank` keep a row that claims what a post will do, and sweep
the rows whose post they lost sight of.

The remaining services (identity, edge, token, ws, fix, execution, pay,
blueprint, agents, academy, notify, support, market, tax, quant, ops,
mining-pool, dex, protocol, indexer), the other packages, the apps and the
tooling are listed in `PROJECT.json` with the reason they are not modelled; see
section 7.

## 2. Modules

| Module | Models | Composition |
| --- | --- | --- |
| `LedgerRules` | `client.ts`, `types.ts`: account keys, the rules of a valid post, the fingerprint, what a post does to balances | used by the next two |
| `AtomicLedger` | `MemoryLedger`: the abstract ledger | extends `LedgerRules` |
| `PostgresLedger` | `post()` step by step, its transaction, the outbox and its relay | instantiates `AtomicLedger` under a refinement mapping |
| `PostingFreeze` | the switch, its outbox, the drains, the broker | on its own; `PostgresLedger.frozen` and `Reconciliation.switch` are its row seen from outside |
| `Reconciliation` | the proof run, its recording and halting, the tick | on its own; `ReconInit`, `ReconNext` and so on, so that one module can extend it and `PostingFreeze` |
| `PostClient` | a call of `ledger.post` over HTTP: attempts, lost and late replies, what a failure proves | extended by the next three; its `book` is the set of booked keys of `AtomicLedger` |
| `PersonalPay` | sends and payment requests of `svc-bank` | extends `PostClient` |
| `OrderHold` | an order from its intent row to the engine | extends `PostClient` |
| `P2PEscrow` | one escrow trade from take to stamp | extends `PostClient` |
| `OrderSettle` | funded orders from the engine's answer to the end of their holds | on its own; starts where `OrderHold` ends |
| `EventConsumer` | a durable consumer and `idempotent()` | on its own; the `bus` of `OrderSettle` is what it promises |
| `DurableLog` | the log `EngineJournal` promises: the abstract journal | |
| `JournalFile` | the file: append, sync, truncate, rewrite, crash | instantiates `DurableLog` |
| `JournalLock` | the exclusive-writer lock and its recovery gate | |
| `JournalWriters` | processes that take the lock and drive the file | instantiates `JournalLock` and `JournalFile` |
| `MatchingEngine` | the engine around one book, its publishing and its boot | its `log` is that of `DurableLog` |
| `MC...` | small instances | |
| `PostgresLedger_proofs`, `PersonalPay_proofs`, `OrderHold_proofs`, `OrderSettle_proofs`, `P2PEscrow_proofs`, `EventConsumer_proofs` | theorems | extend the component |
| `BookHalt_proofs` | theorems on what halts the book | extends `PostingFreeze` and `Reconciliation` |
| `Matching_proofs` | theorems on svc-matching | extends `JournalWriters` and `MatchingEngine` |

### PostgresLedger and LedgerRules

One action per await of `post()`: `FastPath` (lookup without a lock, then
validation), `TakeLock` (`chain_tip FOR UPDATE`), `Recheck`, `RefuseClockSkew`,
`ReadFreeze`, `LoadAccounts`, one `ApplyEntry` per entry, `Commit`, then
`ReadOutbox`, `Send`, `MarkSent` of the service. `Abort` is a failed statement
inside `transaction()`: the work is discarded and the callback runs again, or the
call ends with a database error. `Crash` stops a call anywhere, a transaction in
progress rolls back, and a commit whose reply is lost has still happened. The
database constraints (the unique key, the non-negative balance) are part of
`Commit` as `Backstop`, so that the model can show whether they are ever needed.
Transaction ids are numbers in commit order and stand for the hashes, since
`hashTx` covers the fresh id and the previous hash. Amounts are small integers.
Every `assert...` of `client.ts` is an operator of `LedgerRules`; purposes are
compared trimmed, and the fingerprint is the bag of the normalised lines with the
reason.

### PostingFreeze

`AskFreeze`, `AskUnfreeze` and `Boot` put a command before `WriteFreeze`, one
transaction under the row lock. Every call then drains the outbox: `ReadOutbox`,
`Publish`, `Mark`, each of which can be the last before `Crash` or
`PublishFails`. `RecoverTick` starts a drain of its own. The broker keeps a
window of keys and may `Forget` one at any time. Operator ids are the strings on
the wire; `Canon` says whom they name.

### Reconciliation

A run acquires the advisory lock with the statement that takes its snapshot,
reads the tip, pages through the chain, settles three checks of which any may
fail, then stages and anchors the balances, or records the mismatch together
with the halt. `RunFails` is the catch block. `AnchorUnheard` and
`RecordMismatchUnheard` are commits whose reply was lost. `Rerecord`, `Handle`
and `Refreeze` are the three attempts to halt after a mismatch; `Note`,
`FreezeUnproven` and `FreezeUnprovenFails` are what the tick does with an
incomplete run. The book is the number of its transactions and the set of checks
a corruption would show in; `Corrupt` happens at most once. A tick is taken to
end before the next one of the same process starts (hourly, with statement
timeouts of ten minutes).

### PostClient

An attempt is sent, decided by the ledger, and answered; its caller may stop
waiting at any of these points, and the attempt then stays `queued` and may book
later. Refusals of the ledger come after its two lookups of the key, those of its
HTTP doors before. `classifyPostOutcome` and `provesPostNotCommitted` are
operators over the attempt count that the transport stamps on the error. Times
are left out: every deadline may pass at any moment, so nothing rests on one.
`POST_IN_FLIGHT_BOUND_SECONDS` enters as the action that ends queued posts.

### PersonalPay

One payer, one asset, amount 1, so the daily limit counts sends. `send` is one
action per statement: `Reserve...`, the post, `Lookup` after a lost reply,
`MarkPosted`, `Finish`, or `Abandon` and `Release`. The stale sweep that every
send runs first is `SweepLook`, `SweepAdopt`, `SweepDrop` and their second
halves. A call may stop at any step. The notice to the recipient is left out.

### OrderHold

One action per await of `placeOrder`, `sweepHoldUnknown`, `cancelOrder` and
`reconcileOrder`, with the row's conditional updates as guards. The engine is the
set of orders it has live; a call of it may lose its answer. A process may die
anywhere, also between the release and the commit of `finalize`. Fills are left
to `OrderSettle`.

### OrderSettle

A match is one unit. A hold is the quantity and `Dust`, what rounding leaves.
`Submit` is svc-matching's answer (external): any crossing fills, orders pulled
by self-trade prevention, a remainder that rests or not. `settleFill` is seven
steps, since `refreshFilledQty` sums in its snapshot and writes later. An event
stays on the bus until a handler of it ended well, and two processes may handle
it at once.

### EventConsumer

`Begin`, `HandlerActs`, `HandlerReturns` and `HandlerThrows` are the pump and
`idempotent()`; the server (external) delivers, lets `ack_wait` run out, counts
deliveries and parks. A process has one `MemorySeenStore` and may have an aborted
subscription still inside a handler beside a new one.

### JournalFile, JournalLock, JournalWriters

A file is a sequence of lines, the last of which may be cut; `media` is the set
of contents the disk may come back with after a power loss. `append` is write,
short write or throw, truncate, sync, each of which may fail, and `ioUnknown`
closes the journal. `JournalLock` has one action per file system call of the
lock: create, fill, observe, enter the gate, read again, open, stat, unlink, leave.
Pids are used again, in one pid namespace. In `JournalWriters` whoever believes
to have the lock drives the file, so a lock that fails would tear the file.

### MatchingEngine

One market; an order is one unit at a price that crosses, or a trailing stop that
is parked, and is not submitted again (while its book exists, a retry is answered
as a duplicate; a deleted book has forgotten its orders). A session is an
account's. Inputs are journalled and applied in one step, as the code does between
two awaits; an append is refused, or ends in doubt, in which case the record is in
the file or not at the next boot. A boot replays, tells the trades, and reads the
hold of every resting order before it listens.

A book that is empty and never printed is deleted (`Dropped`), and the next order
of the market opens one at sequence 0: after a submit and a dead session in the
same step, in replay at the record, and after a mass cancel when the last of its
publishes is over. So `MassCancel` is one record and the first cancel,
`MassCancelNext` one more cancel, `mass` the orders left, and `MassCancelEnds` the
deletion; inputs may come between any two of these. A cancel does not delete: the
empty book stays until the next submit, dead session or mass cancel. One mass
cancel is under way at a time.

### P2PEscrow

A worker runs one request or one pass of a sweep; a transaction under the row's
lock is one step, except the escrow lock, which is posted while the row is held.
Deadlines may pass at any moment. The ledger gives no help: it may book a release
without a lock, so `EscrowAccounted` is the service's own merit.

## 3. Runs

| Run | Checks | Bounds and why they are enough |
| --- | --- | --- |
| `ledger` | `BookProves`, `BackstopsNeverFire`, `OkIsBookedAndAnnounced`, `AtMostOneOutrunsFreeze`, `ReplayIsReordering`, `RefusedIsUnbooked`, `AtomicSpec`, `EveryBookingAnnounced` | two calls over six requests: a spend of the whole balance, a reservation, and under its key a reordered retry with a padded purpose, the lines twice, another reason and an unbalanced body; one relay, two attempts per transaction. The refinement has one commit per step, so two calls show every interleaving of a commit with an answer. 81 000 states |
| `freeze` | `AnnouncedInOrder`, `EverySwitchAnnounced`, `ThawTakesTwo` | two callers, two people of whom one has two spellings, a drain limit of two, two stored events. 12 000 states |
| `reconcile` | `NoFalseAlarm`, `AnchorsAreProved`, `MismatchHaltsBook` | a replica and an operator's run, the default of three incomplete runs, one post. 500 000 states |
| `reconcile_live` | `CorruptionHalts` | one replica that may restart at any time, a limit of two incomplete runs. 10 000 states |
| `pay` | `TablesConsistent`, `BookedWithinTerms`, `GivenUpNeverBooks` | two processes, three sends of which two are for one request, three calls of two attempts, a limit of one: two sends compete for the request and for the limit, and one can be tried again. 345 000 states |
| `hold` | `OrdersConsistent`, `MoneyHasLiveRow`, `EngineIsFunded` | three workers on one order, placed up to twice, two attempts per post: a placement, a sweep and a cancel or reconcile at once. 1.3 million states |
| `settle` | `HoldsConsistent`, `MatchIsFunded`, `QuietIsSettled` | an order of two units and two of one unit, as maker or taker, two processes, one cancel or pull, one crash: two fills of one order settled by two processes and from the bus. 2.7 million states |
| `bus` | `DeliveriesConsistent`, `AckedIsHandled`, `RepeatsAreCaused`, `EveryMessageEnds` | two messages, two processes, two deliveries each, a store of one key, and of each fault one: enough for a redelivery to meet its own first delivery, and for an eviction. 855 000 states |
| `journal` | `OneWriter`, `NextOpenFindsLog`, `KeepsPromise`, `AloneIsAdmitted` | three processes of which two have one pid, two inputs, any crashes, and one failed call or power loss: two takers of a third's lock. 770 000 states |
| `engine` | `FillsConsistent`, `ReplayIsLive`, `UnconfirmedNeverFills` | a resting order and a trailing stop of one account and an immediate-or-cancel order of another that may take the first, two controls, one user's cancel, one fault, one crash: the book can be deleted and begun again in each of the ways the code has, with departures under a key given before. 2.5 million states |
| `p2p` | `EscrowConsistent`, `VoidedNeverLocks`, `PaidIsNotRefunded` | two workers, two crashes. One trade is all the state there is. 180 000 states |
| `p2p_live` | `DecidedIsSettled`, `EscrowStallsEnd` | one worker, two crashes. 5 000 states |

`TablesConsistent`, `OrdersConsistent`, `HoldsConsistent`,
`DeliveriesConsistent`, `NextOpenFindsLog`, `FillsConsistent` and
`EscrowConsistent` are conjunctions of named parts, the type invariant among
them, each part with its own comment in the module. The type invariants of
`PostgresLedger` and `PostingFreeze` are proved and not run. `ReconTypeOK` of
`Reconciliation` holds on the instance of `reconcile` (add it to the cfg) but is
in no run.

Symmetry is used for interchangeable calls, workers and orders, in runs without
temporal properties only. The deadlock check is off where inputs run out (`pay`,
`settle`, `bus`, `journal`, `engine`, `p2p`): a finished instance stops.

What they show:

* Posts of one key and of one balance can interleave, abort, retry and crash in
  any order and the book is still the one a single-threaded ledger would have
  (`AtomicSpec`): one booking per key, true balances, true answers. The row lock
  and the second lookup carry it: without either a mutant breaks it.
* At every commit the book passes what `reconcile.ts` checks of it (`BookProves`):
  linked hashes, balances that are the sum of their entries, and no asset that has
  gained or lost anything.
* A refusal can be acted on: when it is given, the key has booked nothing. A
  retry is recognised exactly when it is a reordering of the first body.
* Publish-then-mark loses no event and invents none.
* Reconciliation cannot halt a healthy book as broken, and cannot record a break
  without halting; a corrupted book ends up halted even if no proof ever
  finishes, because incomplete runs are counted in the database.
* `provesPostNotCommitted` is right for a caller that posts a key once, and the
  services that rely on it (`svc-p2p` with its attempt ordinal, personal pay for
  a send tried once) never give up money that then moves.
* The consumer loses no event behind an ack, and repeats one only after a throw,
  a crash or an eviction.
* The journal is the log it promises across short writes, failed syncs, crashes,
  power losses and any number of takers; a short write is undone, and a failed
  sync closes the journal so that no sequence names two inputs.
* Replay deletes the books that the engine deleted, at the same inputs, so the
  engine's sequence after a boot is the one it died with; a trade is told under one
  sequence for ever, and no order is told to have ended twice.
* Once the bus is quiet every match is booked and every order that ended holds
  nothing but what its fills will take, whatever died on the way.

### Fairness

`EveryBookingAnnounced` assumes weak fairness of a running call, which the pool's
statement and idle timeouts justify, and strong fairness of the relay's publish
and mark: the five-second tick keeps firing and the bus does not refuse each
time. `EverySwitchAnnounced` assumes the same of the drain. `CorruptionHalts`
assumes strong fairness of each step of a run, of recording and of halting (no
process dies, and no insert fails, at the same place for ever), and that the
durable count can be read at last. It does not assume that a proof ever reaches
its verdict. `EveryMessageEnds` assumes weak fairness of the server's deliveries
and expiries, of the pump and of subscribing again, since the services subscribe
at boot; handlers that throw are bounded, not fair. `AloneIsAdmitted` assumes weak
fairness of the constructor's own steps, which wait for nobody. `DecidedIsSettled`
and `EscrowStallsEnd` assume weak fairness of a worker's steps and strong fairness
of what the sweeps' timers repeat: picking the row, the ledger's answer and its
arrival, the announcement, the dispute opened at a deadline. No operator, buyer or
seller is assumed to do anything.

## 4. Where the code and its comments part

Each of these is a behaviour of the code that the module has and a comment denies.
The property says what does hold, and names the exception in its own text; a
history variable marks the behaviours it is about, so the property is checked in
all others.

| Comment | What the code does | In the model |
| --- | --- | --- |
| `postgres-ledger.ts:68` "a freeze that a post already in flight can outrun would not be one" | `writeFreeze` does not take the `chain_tip` lock, so a post that has read the open switch commits after the freeze | `AtMostOneOutrunsFreeze`: one transaction, never more (proved) |
| `personal-pay.ts:330` "A typed refusal proved this send did not post" | the refusal of a second call of `send` is taken as proof while the first is still queued; `post-outcome.ts:96` says such a caller "must not use this at all" | `tried = "again"`, excluded by `OneTry` |
| `personal-pay.ts:32` "A reserved send the client never retried" | `sweepStale` (`:886`) counts from the first try, and a later try may still book | `OneTry` |
| `0036_personal_pay.sql:8` "A reserved row is an in-flight claim" | `abandon` (`:951`) deletes the row and clears the claim in two statements; a try in between loses its claim | `OneTry` |
| `order-place.ts:430` "there is always a row pointing at the money" | `hold-outcome.ts:51` ignores the attempt count and takes a door's refusal as definite | `raced` has `"proof"` |
| `order-change.ts:160` "a verified engine absence is now safe to reconcile" | a cancel between the claim `open` and the submit releases the hold; the order is then submitted | `raced` has `"cancel"` |
| `reconcile.ts:62` "orphan pending: intent row, never funded" | a process that died in `finalize` leaves such a row with its hold released; placed again, the old key answers | `raced` has `"crash"` |
| `fills.ts:100` "Fills first, always" | a user's cancel (`order-change.ts:163`), and a submission that pulled an order (`fills.ts:122`), release ahead of another submission's fill | `raced` has `"ahead"` |
| `fills.ts:691` "`filled_qty = Σ fills.qty` is true by definition" | two overlapping refreshes (`trade-service.ts:1966`) may leave the older sum | `raced` has `"refresh"` |
| `bus.ts:43` "prints one structured `bus.message_abandoned` error as it happens" | nothing is printed when the last delivery dies with its process or in an aborted buffer | `dropped` |
| `env.ts:41` "replays to exactly the state the process died in" | a mass cancel is one record and many steps (`cod-fence.ts:229`); an input in between trades with an order that replay has pulled, or, before the last publish is over (`:247`), finds the book that replay has deleted at the record (`journal-replay.ts:172`) | `raced` has `"mass"` |
| svc-matching `README.md:91` "The engine sequence is the business key" (`:88` of a cancellation too), `:140` "One monotonic counter per book" | a book that never printed is deleted when empty (`engine.ts:404`, called at `:803`, `cod-fence.ts:247` and `:274`) and the next starts at 0: two cancellations of a market may carry one key `matching.order.cancelled:<market>:<n>` | `ToldIsJournalled` claims a sequence of its own for trades only (proved); departures are told apart by their orders |
| `engine.ts:1080` "journaled in the same step it is applied" | a mark moves the stop before its append, which may throw | `raced` has `"mark"` |
| `p2p-service.ts:2490` "Closes the window between that read and the decision write" | an unwind of a `created` trade expects the status it finds after the lock, which may be `fiat_sent` | `paid = "raced"` |

Read in the code, and not checked by a run: `assertPairedLocks` (`client.ts:140`)
adds gross sums, so a pot debited and credited the same amount counts as funding a
lock; `canSteal` (`journal-io.ts:65`) takes the lock of a live writer that has the
same pid in another namespace; `recover` (`engine.ts:289`) does not tell again
the departures of orders that did not trade; the `cancel` of `ifm-crash.ts:101`
drops the reason, so a market stays halted although its unconfirmed orders were
pulled; a deleted book forgets the orders it accepted (`hasAccepted`,
`engine.ts:781`), so a retry that comes after the deletion is a new order; a
`created` trade with one uncertain lock attempt whose seller is out of
funds stays `created` (`p2p-service.ts:2193`).

## 5. Proofs

Every theorem is about a specification as the runs check it, for every value of
its constants that satisfies the assumption named in its module. Each component
has one inductive invariant: the initial states satisfy it, a lemma per action
shows that the action keeps it, and the theorems follow from it. Each such
invariant was first checked by TLC on the instance of the component's run.

`PostgresLedger_proofs` is for every set of calls, relays, requests and accounts,
any initial balances and any number of attempts: `EngineTypeCorrect`,
`ChainStaysLinked`, `BookAlwaysProves` (`BookProves`), `ChecksSuffice`
(`BackstopsNeverFire`), `NobodyOverdrawn` (`Solvent`),
`AnswersAndEventsTrue` (`OkIsBookedAndAnnounced` and `OutboxTellsTheBook`),
`FreezeOutrunByOne`, `RefusalsAreTrue`, `EngineIsAtomic` (`AtomicSpec`) and
`ReplaysAreReorderings`. From `EngineConstants`: balances are integers and only
the treasury starts below zero, requests name known accounts, and the markers are
not calls or requests.

The invariant is `IInv`. No property above is inductive alone. `LockHeld` says a
call is between `TakeLock` and its commit exactly if it holds the lock. `AllSound`
says what each call's local variables are worth at each step: the previous hash
it read is still the tip, its key is still unbooked, its working balances are
not negative, and no other post has outrun a freeze since it read the switch. All
of that is true only because nobody else commits while it holds the lock, which
is the argument of the proof: `QuietStep` (a step that leaves the book alone keeps
every other call sound), `CallStep`, `EndingStep`, `ReplayStep`, and `WriteStep`
for the one step that changes the book, where `LockHeld` shows that every other
call is outside its transaction.

`EngineIsAtomic` is the refinement of `AtomicLedger`. It needs two facts more,
`AllPlanned`: a call past its validation has a body that `AssertValidPost`
accepts, and the balances a call has computed under the lock are
`After(balance, entries, n)` for the `n` entries it has applied, each of which
fitted. Then `Commit` is the atomic booking (`CommitSimulates`), an answer is the
atomic reply (`AnswerTells`, `ReplaySimulates`, `RefusalTells`), and every other
step stutters (`NothingMoves`). That applying one entry more is a step of `After`
(`AfterNext`) rests on what a sum over a finite set is. `SumOver` is a fold, whose
definition is by choice, so the proof first shows that a total exists for every
finite set and that it does not depend on the order of the summands
(`TotalsExist`, `TotalsTakeAny`, `TotalsUnique`). These are inductions, done
without the induction theorems: the least counterexample (`LeastNat`,
`SmallestSet`) has a predecessor that is none.

`BookAlwaysProves` says that the checks the reconciliation makes of the book
(`verifyChain`, `reconcileBalances`, `totalsByAsset`) find nothing to report, so an
alarm of theirs is never about what `post` did. Beyond `EngineConstants` it assumes
that there are finitely many accounts, without which a total means nothing. It
rests on `AllPlanned` too: `OnlyCommitWrites` and `CommitBooks` reduce a step to
the booking of one request, whose balances are `After` all its entries. What a
booking adds to a balance is what its row of the journal moves (`BooksReplay`), and
entry by entry the balances of an asset grow by the entries in that asset
(`AfterAddsUp`), which `assertBalanced` makes zero (`AfterConserves`). `Total` is a
fold like `SumOver`; the same induction gives what the proof needs of it
(`TotalSame`, `TotalWith`, `TotalMoves`).

`ReplaysAreReorderings` compares the code's fingerprint, a bag of lines, with what
it stands for, a permutation of the entries. `PrintIsReordering` shows that equal
bags are a permutation: like lines are equally many in both bodies, so there is a
bijection between them for each line, and the bijections together are one
(`AlikeMeansPairs`). `ReplayInv` adds that a key is booked once and that whoever
was told a conflict has one.

`BookHalt_proofs` is about what halts the book. Of `PostingFreeze` it proves
`FreezeTypeCorrect`, `FreezeEventsFaithful`
(`AnnouncedInOrder`, `MarkedWasAnnounced`, `OutboxIsHistory`), `FirstFreezeKept`
(`FirstFreezeStands`) and `ThawIsDual`, for every set of callers and operators,
every drain limit and every behaviour of the broker's window, from
`FreezeConstants`. Order is the hard part: a drain publishes rows it read some
time ago. `RowsComplete` strengthens it: below every row a caller still holds,
each switch is announced or held by that caller too. It is established by reading
the lowest rows first (`OldestIsLowest`) and kept by publishing the lowest first.

Of `Reconciliation` it proves `ReconcileNeverCriesWolf` (`NoFalseAlarm`),
`AnchorsProved` (`AnchorsAreProved`) and `MismatchHalted` (`MismatchHaltsBook`),
for every set of replicas and operators, every limit and every number of posts,
and without using any assumption on the constants. The strengthening is
`SoundRun`, said of each run at each of its steps: what it read belongs to the
one snapshot it took, it is alarmed only if the book is corrupt, and it reaches
the anchor only with a snapshot that is whole. `RunStep` carries it through a
step of one run, `LeaveStep` and `EndStep` through a run that is past its proof.

`PersonalPay_proofs` proves `TablesStayConsistent`, `GivenUpStaysUnbooked` and
`BookStaysWithinTerms`, for every set of sends, requests and calls, every daily
limit and every number of attempts, from `PersonalPayConstants` and
`PostClientConstants`. `PayingInv` follows one try of a send: until its
reservation is given up one call works on it (`LoneInv`, `TryInv`); it is given up
by the refusal of a first and only attempt, and until that ends nothing of the send
is at the ledger or on its way (`ProofInv`); or by the sweep, by its age, when
nobody is sending it and nothing is queued (`AgedInv`, `SweptInv`). Without the
queue in these conjuncts the step of a post that arrives after its caller hung up
is not covered. `BookedClaims` makes an injection from booked sends to rows, and
`LimitInv` counts those.

`OrderHold_proofs` proves `OrdersStayConsistent`, `MoneyKeepsItsRow` and
`EngineStaysFunded`, for every set of orders and processes and every number of
attempts and placements, from `OrderHoldConstants` and `PostClientConstants`.
`HoldInv` has to say who may do what to an order at the same time as whom:
`FirstInv` (while the first placement is under way its row is there and nobody else
places or ends the order), `ProofInv` (a refusal proves that nothing is booked
only while no other post is under way), `SubmitInv` (the one process that opened
the row submits), `ChangeInv` (a cancel or reconcile that was not raced has the
order to itself), `PastInv` (a row is dropped by age only with nothing at the
ledger) and `FinalInv` (the hold goes back only when the order is not and will not
be in the engine). The races of section 4 appear as premises: `Unlost`, `Clean`
and `Funded` name the marks in `raced` under which a conjunct is not claimed.

`OrderSettle_proofs` proves `HoldsStayConsistent`, `MatchStaysFunded` and
`QuietStaysSettled`, for every set of orders and processes, any quantities and
dust, and every number of cancels and crashes, from `OrderSettleConstants`. The
argument is about sets of matches and not about amounts: of an order, the booked
matches are among the recorded ones and those among the ones the engine made
(`MatchSets`), and every amount is the size of one of them (`BookInv`, `MoneyInv`,
`SumInv`; `LegsCounted` makes the bijection from matches to rows of `trade.fills`).
Who releases the hold of a cancelled order has recorded every match of it
(`AheadInv`), which is what refuseCancelAheadOfFill and the order of settleOutcome
are for. What is missing between two of the sets is on the bus until somebody has
seen to it: a match until it is booked (`EventInv`), a cancelled order until it has
ended (`CancelInv`). `RefreshInv` is the delicate one: for every number that
`filled_qty` falls short of what is recorded there is a match on the bus each of
whose handlers will write a larger one, so the last handler to end leaves the sum,
unless two refreshes overlapped (`raced`, section 4).

`P2PEscrow_proofs` proves `EscrowStaysConsistent`, `VoidLocksNothing` and
`PaidIsRefundedByRulingOnly`, for every set of workers and every number of crashes,
from `P2PEscrowConstants` and `PostClientConstants`. That a void locks nothing
follows from `LoneAttempt`: while the row counts one attempt, one worker has it, and
until its post is out, or once the engine refused it, no lock is booked or on its
way. That a decision pays once follows from `CallsMatch`, which ties each call
under way to the step that waits for it and to the decision it was made for.
`PaidInv` says which unwinds may have read a trade as paid.

`EventConsumer_proofs` proves `AckedIsHandledAlways`, `RepeatsAreCausedAlways` and
`DeliveriesStayConsistent`, for every set of messages, keys and processes and every
limit, from `EventConsumerConstants`. `ConsumerInv` says where an effect came
from: a key is remembered, or about to be, only after its handler had its effect
(`SeenInv`, `ActedInv`); a handler is never inside a remembered key (`FreshInv`);
an effect that is not remembered was lost to a handler that threw, a crash or the
limit of the store, each of which is counted (`EffectsInv`); and the last delivery
of a message is with somebody until it is answered (`LastInv`).

`Matching_proofs` is about svc-matching. Of `JournalWriters` it proves
`OneWriterAlways`, `NextOpenFindsLogAlways` and
`JournalKeepsPromise` (the refinement of `DurableLog`), for every number of
processes, every assignment of pids and every number of faults, from
`JournalWritersConstants`. `JournalInv` has two parts. For the lock, that a process
about to unlink a dead writer's file still has that file before it: it read the
nonce inside the gate, only the owner of the gate unlinks another's file, and a
dead writer does not touch its own (`GateInv`, `OwnerInv`). For the file, that
whatever may be on the medium is a file the next open accepts, with every admitted
input in its place and at most one more (`DiskInv`), and that an append starts
with nothing in doubt (`QuietInv`, `AppendInv`): a second append after a failed
one would leave two.

Of `MatchingEngine` it proves `ReplayFindsTheEngine` (`ReplayIsLive`),
`WorldAgreesWithJournal` (`FillsConsistent`) and `UnconfirmedHoldsNeverFill`
(`UnconfirmedNeverFills`), for every set of orders and accounts, any number of
controls, failures and crashes, and without using the assumption on the constants.
`Replay` and `Only` are folds, which the library defines over sets of indices by
choice of a largest one; `ReplayTables` and `OnlyTables` build that table index by
index, and from then on a journal with one record more replays as that record
applied to the replay of the rest (`ReplayAppend`, `OnlyAppend`). `EngineInv` says
three things. Replay never gives two trades one sequence and never ends an order
twice, whatever the record (`Sound`, `RecordSound`): a trade marks its book as
printed, which keeps that book and its counter for good, so a deletion takes
sequences back that only departures had (`OneFill`), and departures are told apart
by their orders, which do not come back (`EndOnce`). The engine is where replay
would be, but for what a mass cancel has left: replay has cancelled these orders
already, under the sequences the engine is still to give them, and has deleted the
book that leaves if it never printed (`Later`, `Dropped`, `LeftOver`, `InStep`).
Each further cancel brings the engine one order nearer (`MassStep`), while its own
record is nothing to replay (`MassOneTrue`), and the deletion at the end makes the
two equal (`MassCancelEndsTrue`). And no
trade is journalled between a boot's replay and its opening, nor after it while a
hold is unconfirmed (`CalmInv`), because every record but a submit is calm
(`GrowMany`) and a submit needs a market that is not halted.

Model-checked only: the liveness properties (`EveryBookingAnnounced`,
`EverySwitchAnnounced`, `CorruptionHalts`, `EveryMessageEnds`, `AloneIsAdmitted`,
`DecidedIsSettled`, `EscrowStallsEnd`), whose proofs need `ENABLED`. Every safety
invariant, action property and refinement that a run checks has a theorem.

## 6. Plan

Done: all modules of section 2 and their runs; the proofs of section 5.

Next: a refinement from `OrderHold`'s engine to `MatchingEngine`, which would
compose the two; then the candidates of section 7.

## 7. Not modelled

The repository has close to a million lines, of which these modules stand for the
few thousand in which several actors change money at once. The rest is left out
for one of these reasons, given per part in `PROJECT.json`:

* product logic over the ledger's recipes (loans, cards, ramps, futures, token,
  market, agents, academy): each posts under a key and rests on what is shown of
  `PostgresLedger` and `PostClient`. The next candidates of this kind are the
  futures positions of `svc-trade` and the loans of `svc-bank`;
* read models, statements, exports, market data fan-out, user interfaces,
  content, build and deployment scripts, which change no state the properties
  are about;
* HTTP doors, authentication, parsing and formatting, in front of the modelled
  operations; decimal arithmetic of amounts and fees;
* Solidity contracts and external venues, outside the custodial book.

Inside the modelled parts, left out: prices and quantities of the book, amends,
stop triggers, auctions, OCO and brackets, the house market maker and paper
orders; reputation, notices, chat and block RFQs of `svc-p2p`; the notice of a
personal send; the sequence guard of `svc-trade` against an engine that lost its
journal; operator-defined reconciliation controls, which never freeze.
