------------------------ MODULE PostgresLedger_proofs ------------------------
(***************************************************************************)
(* Safety of the posting engine for every set of calls, relays, requests   *)
(* and accounts and every number of attempts, and that it implements the   *)
(* atomic ledger.  The argument is the chain_tip lock: whatever a          *)
(* transaction reads under it (the tip, the absence of its key, the        *)
(* balances) still holds when it writes, because only the holder of the    *)
(* lock writes (LockHeld, AllSound, AllPlanned).                           *)
(***************************************************************************)
EXTENDS PostgresLedger, FiniteSetTheorems, WellFoundedInduction, TLAPS

TxRec == [id : Ids, key : Keys, reason : Reasons, entries : Seq(EntryInput), prev : Nat]

CallRec == [pc : {"idle", "done"} \cup Running, req : Requests \cup {NoRequest},
            attempt : 0 .. MaxAttempts, prev : Nat,
            work : [Accounts -> Int], at : Nat, tx : Nat, answer : Answers]

RelayRec == [pc : {"idle", "send", "mark"}, rows : SUBSET Ids, row : Nat]

\* The call whose transaction is open is the one that holds the row lock.
LockHeld == \A c \in Calls : call[c].pc \in InTx <=> lock = c

\* The transaction a call holds is booked under its key, in journal J, and
\* moves what it asked for.
Stands(x, J) ==
  \E n \in DOMAIN J :
    /\ J[n].id = x.tx
    /\ J[n].key = x.req.key
    /\ ConflictMode = "refuse" => Fingerprint(J[n]) = Fingerprint(x.req)

\* What is true of a call's local state x, given journal J, tip t, count l of
\* posts that outran the freeze, and announced transactions A.
SoundIn(x, J, t, l, A) ==
  /\ x.pc \in Running => x.req \in Requests
  /\ x.pc # "done" => x.answer = "none"
  /\ x.pc \in InTx => x.prev = t
  /\ x.pc \in {"gate", "load", "apply"} => \A n \in DOMAIN J : J[n].key # x.req.key
  /\ x.pc \in {"load", "apply"} => l = 0
  /\ x.pc = "apply" => /\ x.at <= Len(x.req.entries)
                       /\ \A k \in Accounts : k.ownerType # "treasury" => x.work[k] >= 0
  /\ x.pc \in {"outbox", "send", "mark"} => Stands(x, J)
  /\ x.pc = "mark" => x.tx \in A
  /\ x.answer = "ok" => Stands(x, J) /\ x.tx \in A
  /\ x.answer # "backstop"

AllSound == \A c \in Calls : SoundIn(call[c], journal, tip, late, announced)

BookIds == {journal[n].id : n \in DOMAIN journal}

\* Only the treasury is below zero.
Solvent == \A k \in Accounts : k.ownerType # "treasury" => balance[k] >= 0

\* A relay holds rows of the book and marks what the bus carries.
RelaySound == \A d \in Relays : /\ relay[d].rows \subseteq BookIds
                                /\ relay[d].pc = "mark" => relay[d].row \in announced

\* The count of transactions that outran the current freeze.
Outrun == late \in {0, 1} /\ (late = 1 => frozen)

\* The inductive invariant.
IInv == /\ TypeOK
        /\ LockHeld
        /\ AllSound
        /\ Solvent
        /\ ChainIsLinked
        /\ OutboxTellsTheBook
        /\ RelaySound
        /\ Outrun

-----------------------------------------------------------------------------
LEMMA QuietTyped == Quiet \in CallRec /\ Asleep \in RelayRec
  BY EngineConstants DEF Quiet, CallRec, Running, Answers, NoTx, Asleep, RelayRec

LEMMA InitIInv == Init => IInv
<1> SUFFICES ASSUME Init PROVE IInv
  OBVIOUS
<1>1. TypeOK
  <2>1. call \in [Calls -> CallRec] /\ relay \in [Relays -> RelayRec]
    BY QuietTyped DEF Init
  <2>2. balance \in [Accounts -> Int] /\ lock \in Calls \cup {NoCall}
    BY EngineConstants DEF Init
  <2>3. journal \in Seq(TxRec)
    BY DEF Init
  <2> QED
    BY <2>1, <2>2, <2>3 DEF Init, TypeOK, CallRec, RelayRec, TxRec, NoTx
<1>2. LockHeld
  BY EngineConstants DEF Init, LockHeld, Quiet, InTx
<1>3. AllSound
  BY DEF Init, AllSound, SoundIn, Quiet, Running, InTx
<1>4. Solvent /\ Outrun
  BY EngineConstants DEF Init, Solvent, Outrun
<1>5. ChainIsLinked /\ OutboxTellsTheBook /\ RelaySound
  BY DEF Init, ChainIsLinked, OutboxTellsTheBook, RelaySound, Asleep, NoTx, BookIds
<1> QED
  BY <1>1, <1>2, <1>3, <1>4, <1>5 DEF IInv

\* Every row of the journal is a transaction.
LEMMA Rows == ASSUME IInv, NEW n \in DOMAIN journal PROVE journal[n] \in TxRec
<1>1. journal \in Seq(TxRec)
  BY DEF IInv, TypeOK, TxRec
<1> QED
  BY <1>1

\* How a step may change the lock when it leaves call c in state x.
LockMoves(c, x) ==
  \/ lock' = lock /\ (x.pc \in InTx <=> call[c].pc \in InTx)
  \/ lock = NoCall /\ lock' = c /\ x.pc \in InTx
  \/ Release(c) /\ x.pc \notin InTx

\* Steps that write neither the book nor the switch: the outbox may be told of
\* more, and one call may move.
LEMMA QuietStep ==
  ASSUME IInv,
         UNCHANGED <<ledgerVars, frozen, late>>,
         announced \subseteq announced', announced' \subseteq BookIds,
         unsent' \subseteq unsent, unsent \subseteq unsent' \cup announced',
         relay' \in [Relays -> RelayRec],
         \A d \in Relays : /\ relay'[d].rows \subseteq BookIds
                           /\ relay'[d].pc = "mark" => relay'[d].row \in announced',
         \/ UNCHANGED <<call, lock>>
         \/ \E c \in Calls, x \in CallRec :
              /\ call' = [call EXCEPT ![c] = x]
              /\ SoundIn(x, journal, tip, late, announced')
              /\ LockMoves(c, x)
  PROVE  IInv'
<1> USE DEF ledgerVars
<1>1. BookIds' = BookIds /\ BookIds \subseteq Ids
  <2>1. BookIds' = BookIds
    BY DEF BookIds
  <2> QED
    BY <2>1, Rows DEF BookIds, TxRec
<1>2. \A x : SoundIn(x, journal, tip, late, announced)
              => SoundIn(x, journal, tip, late, announced')
  BY DEF SoundIn
<1>3. call \in [Calls -> CallRec] /\ lock \in Calls \cup {NoCall} /\ LockHeld
      /\ \A e \in Calls : SoundIn(call[e], journal, tip, late, announced)
  BY DEF IInv, TypeOK, CallRec, AllSound
<1>4. /\ call' \in [Calls -> CallRec] /\ lock' \in Calls \cup {NoCall} /\ LockHeld'
      /\ \A e \in Calls : SoundIn(call'[e], journal, tip, late, announced')
  <2>1. CASE UNCHANGED <<call, lock>>
    BY <2>1, <1>2, <1>3 DEF LockHeld
  <2>2. CASE \E c \in Calls, x \in CallRec :
               /\ call' = [call EXCEPT ![c] = x]
               /\ SoundIn(x, journal, tip, late, announced')
               /\ LockMoves(c, x)
    <3>1. PICK c \in Calls, x \in CallRec :
            /\ call' = [call EXCEPT ![c] = x]
            /\ SoundIn(x, journal, tip, late, announced')
            /\ LockMoves(c, x)
      BY <2>2
    <3>2. call' \in [Calls -> CallRec] /\ call'[c] = x
          /\ \A e \in Calls \ {c} : call'[e] = call[e]
      BY <3>1, <1>3
    <3>3. lock' \in Calls \cup {NoCall} /\ LockHeld'
      BY <3>1, <3>2, <1>3, EngineConstants DEF LockMoves, LockHeld, Release
    <3>4. \A e \in Calls : SoundIn(call'[e], journal, tip, late, announced')
      BY <3>1, <3>2, <1>2, <1>3
    <3> QED
      BY <3>2, <3>3, <3>4
  <2> QED
    BY <2>1, <2>2
<1>5. TypeOK'
  <2>1. unsent' \in SUBSET Ids /\ announced' \in SUBSET Ids
    BY <1>1 DEF IInv, TypeOK
  <2> QED
    BY <1>4, <2>1 DEF IInv, TypeOK, CallRec, RelayRec
<1>6. AllSound'
  BY <1>4 DEF AllSound
<1>7. Solvent' /\ ChainIsLinked' /\ Outrun'
  BY DEF IInv, Solvent, ChainIsLinked, Outrun
<1>8. OutboxTellsTheBook'
  BY <1>1 DEF IInv, OutboxTellsTheBook, BookIds
<1>9. RelaySound'
  BY <1>1 DEF RelaySound
<1> QED
  BY <1>4, <1>5, <1>6, <1>7, <1>8, <1>9 DEF IInv

-----------------------------------------------------------------------------
\* A step of one call that touches no table.
LEMMA CallStep ==
  ASSUME IInv, NEW c \in Calls, NEW x \in CallRec,
         call' = [call EXCEPT ![c] = x],
         SoundIn(x, journal, tip, late, announced),
         LockMoves(c, x),
         UNCHANGED <<ledgerVars, frozen, outboxVars, relay, late>>
  PROVE  IInv'
<1>1. /\ relay \in [Relays -> RelayRec]
      /\ \A d \in Relays : /\ relay[d].rows \subseteq BookIds
                           /\ relay[d].pc = "mark" => relay[d].row \in announced
      /\ announced \subseteq BookIds
  BY DEF IInv, TypeOK, RelayRec, RelaySound, OutboxTellsTheBook, BookIds
<1> QED
  BY <1>1, QuietStep DEF outboxVars

\* What a call leaves behind when it ends, and what it held while it ran.
LEMMA EndOf ==
  ASSUME NEW y \in CallRec, NEW what \in Answers
  PROVE  LET x == [Quiet EXCEPT !.pc = "done", !.req = y.req, !.tx = y.tx, !.answer = what]
         IN  /\ x \in CallRec
             /\ x.pc = "done" /\ x.req = y.req /\ x.tx = y.tx /\ x.answer = what
  BY QuietTyped DEF CallRec, Quiet, Running

LEMMA EndSound ==
  ASSUME NEW y \in CallRec, NEW what \in Answers, NEW A, what # "backstop",
         what = "ok" => Stands(y, journal) /\ y.tx \in A
  PROVE  LET x == [Quiet EXCEPT !.pc = "done", !.req = y.req, !.tx = y.tx, !.answer = what]
         IN  SoundIn(x, journal, tip, late, A)
<1> DEFINE x == [Quiet EXCEPT !.pc = "done", !.req = y.req, !.tx = y.tx, !.answer = what]
<1>1. x.pc = "done" /\ x.req = y.req /\ x.tx = y.tx /\ x.answer = what
  BY EndOf
<1> HIDE DEF x
<1>2. what = "ok" => Stands(x, journal)
  BY <1>1 DEF Stands
<1>3. SoundIn(x, journal, tip, late, A)
  BY <1>1, <1>2 DEF SoundIn, Running, InTx
<1> QED
  BY <1>3 DEF x

\* A call ends as the outbox learns of more.
LEMMA EndingStep ==
  ASSUME IInv, NEW c \in Calls, NEW what \in Answers, what # "backstop",
         what = "ok" => Stands(call[c], journal) /\ call[c].tx \in announced',
         Answer(c, what), Release(c),
         announced \subseteq announced', announced' \subseteq BookIds,
         unsent' \subseteq unsent, unsent \subseteq unsent' \cup announced',
         UNCHANGED <<ledgerVars, frozen, relay, late>>
  PROVE  IInv'
<1> DEFINE x == [Quiet EXCEPT !.pc = "done", !.req = call[c].req,
                              !.tx = call[c].tx, !.answer = what]
<1>1. call[c] \in CallRec
  BY DEF IInv, TypeOK, CallRec
<1>2. x \in CallRec /\ x.pc = "done"
  BY <1>1, EndOf
<1>3. SoundIn(x, journal, tip, late, announced')
  BY <1>1, EndSound
<1>4. call' = [call EXCEPT ![c] = x]
  BY DEF Answer
<1> HIDE DEF x
<1>5. LockMoves(c, x)
  BY <1>2 DEF LockMoves, InTx
<1>6. /\ relay \in [Relays -> RelayRec]
      /\ \A d \in Relays : /\ relay[d].rows \subseteq BookIds
                           /\ relay[d].pc = "mark" => relay[d].row \in announced'
  BY DEF IInv, TypeOK, RelayRec, RelaySound
<1> QED
  BY <1>2, <1>3, <1>4, <1>5, <1>6, QuietStep

\* A call ends without a write.
LEMMA AnswerStep ==
  ASSUME IInv, NEW c \in Calls, NEW what \in Answers, what # "backstop",
         what = "ok" => Stands(call[c], journal) /\ call[c].tx \in announced,
         Answer(c, what), Release(c),
         UNCHANGED <<ledgerVars, frozen, outboxVars, relay, late>>
  PROVE  IInv'
<1> DEFINE x == [Quiet EXCEPT !.pc = "done", !.req = call[c].req,
                              !.tx = call[c].tx, !.answer = what]
<1>1. call[c] \in CallRec
  BY DEF IInv, TypeOK, CallRec
<1>2. x \in CallRec /\ x.pc = "done"
  BY <1>1, EndOf
<1>3. SoundIn(x, journal, tip, late, announced)
  BY <1>1, EndSound
<1>4. call' = [call EXCEPT ![c] = x]
  BY DEF Answer
<1> HIDE DEF x
<1>5. LockMoves(c, x)
  BY <1>2 DEF LockMoves, InTx
<1> QED
  BY <1>2, <1>3, <1>4, <1>5, CallStep

\* replayOf: the call ends in a conflict, or takes the transaction it found.
LEMMA ReplayStep ==
  ASSUME IInv, NEW c \in Calls, call[c].pc \in Running,
         NEW n \in Booked(call[c].req.key), ReplayOf(c, n), Release(c),
         UNCHANGED <<ledgerVars, frozen, outboxVars, relay, late>>
  PROVE  IInv'
<1>1. CASE Answer(c, "conflict")
  BY <1>1, AnswerStep DEF Answers
<1>2. CASE /\ call' = [call EXCEPT ![c].pc = "outbox", ![c].tx = journal[n].id]
           /\ ConflictMode = "refuse" =>
                Fingerprint(journal[n]) = Fingerprint(call[c].req)
  <2> DEFINE x == [call[c] EXCEPT !.pc = "outbox", !.tx = journal[n].id]
  <2>1. /\ call \in [Calls -> CallRec]
        /\ SoundIn(call[c], journal, tip, late, announced)
        /\ n \in DOMAIN journal /\ journal[n].key = call[c].req.key
    BY DEF IInv, TypeOK, CallRec, AllSound, Booked
  <2>2. journal[n].id \in Nat
    BY <2>1, Rows DEF Ids, TxRec
  <2>3. /\ x \in CallRec /\ x.pc = "outbox" /\ x.req = call[c].req /\ x.tx = journal[n].id
        /\ x.answer = call[c].answer
    <3>1. call[c] \in CallRec
      BY <2>1
    <3> QED
      BY <3>1, <2>2 DEF CallRec, Running
  <2>4. call' = [call EXCEPT ![c] = x]
    BY <1>2, <2>1
  <2> HIDE DEF x
  <2>5. Stands(x, journal)
    BY <1>2, <2>1, <2>3 DEF Stands
  <2>6. SoundIn(x, journal, tip, late, announced)
    BY <2>1, <2>3, <2>5 DEF SoundIn, Running, InTx
  <2>7. LockMoves(c, x)
    BY <2>3 DEF LockMoves, InTx
  <2> QED
    BY <2>3, <2>4, <2>6, <2>7, CallStep
<1> QED
  BY <1>1, <1>2 DEF ReplayOf

\* Outside its transaction a call holds no lock.
LEMMA NoLockToRelease ==
  ASSUME IInv, NEW c \in Calls, call[c].pc \notin InTx, UNCHANGED lock
  PROVE  Release(c)
  BY DEF IInv, LockHeld, Release

\* A call moves on to another place in the code, keeping what it holds.
LEMMA GotoRec ==
  ASSUME NEW y \in CallRec, NEW p \in Running
  PROVE  LET x == [y EXCEPT !.pc = p]
         IN  /\ x \in CallRec /\ x.pc = p /\ x.req = y.req /\ x.tx = y.tx /\ x.prev = y.prev
             /\ x.at = y.at /\ x.work = y.work /\ x.answer = y.answer
  BY DEF CallRec

\* The write of a transaction: what was read under the lock still holds.
LEMMA WriteStep ==
  ASSUME IInv, NEW c \in Calls, Commit(c)
  PROVE  IInv'
<1> DEFINE y == call[c]
           r == call[c].req
           rec == [id |-> NewId, key |-> r.key, reason |-> r.reason, entries |-> r.entries,
                   prev |-> y.prev]
           x == [Quiet EXCEPT !.pc = "outbox", !.req = r, !.tx = NewId]
           J == Append(journal, rec)
<1>1. /\ y.pc = "apply" /\ y.at = Len(r.entries) /\ y \in CallRec
      /\ SoundIn(y, journal, tip, late, announced)
      /\ call \in [Calls -> CallRec]
  BY DEF Commit, IInv, TypeOK, CallRec, AllSound
<1>2. /\ lock = c /\ lock' = NoCall
      /\ \A e \in Calls \ {c} : call[e].pc \notin InTx
  BY <1>1 DEF IInv, LockHeld, InTx, Commit, Release
<1>3. /\ r \in Requests /\ y.prev = tip /\ late = 0
      /\ \A n \in DOMAIN journal : journal[n].key # r.key
      /\ \A k \in Accounts : k.ownerType # "treasury" => y.work[k] >= 0
  BY <1>1 DEF SoundIn, Running, InTx
<1>4. Touched(r) \subseteq Accounts
  BY <1>3, EngineConstants DEF Touched
<1>5. y.work \in [Accounts -> Int]
  BY <1>1 DEF CallRec
<1>6. ~Backstop(c)
  BY <1>3, <1>4, <1>5 DEF Backstop, Booked, Negative
<1>7. Write(c) /\ UNCHANGED <<frozen, announced, relay>>
  BY <1>6 DEF Commit
<1>8. /\ journal' = J /\ tip' = NewId /\ unsent' = unsent \cup {NewId}
      /\ balance' = [k \in Accounts |-> IF k \in Touched(r) THEN y.work[k] ELSE balance[k]]
      /\ call' = [call EXCEPT ![c] = x]
      /\ late' = IF frozen THEN 1 ELSE 0
  BY <1>3, <1>7 DEF Write
<1>9. /\ journal \in Seq(TxRec) /\ Len(journal) \in Nat /\ DOMAIN journal = 1 .. Len(journal)
      /\ NewId \in Ids /\ rec \in TxRec
  <2>1. journal \in Seq(TxRec)
    BY DEF IInv, TypeOK, TxRec
  <2>2. Len(journal) \in Nat /\ DOMAIN journal = 1 .. Len(journal)
    BY <2>1
  <2>3. NewId \in Ids
    BY <2>2 DEF NewId, Ids, NoTx
  <2>4. r.key \in Keys /\ r.reason \in Reasons /\ r.entries \in Seq(EntryInput)
    BY <1>3, EngineConstants
  <2>5. y.prev \in Nat
    BY <1>1 DEF CallRec
  <2> QED
    BY <2>1, <2>2, <2>3, <2>4, <2>5 DEF TxRec
<1>10. /\ J \in Seq(TxRec) /\ DOMAIN J = 1 .. NewId /\ Len(J) = NewId
       /\ J[NewId] = rec /\ \A n \in DOMAIN journal : J[n] = journal[n] /\ n \in DOMAIN J
       /\ \A n \in DOMAIN J : n \in DOMAIN journal \/ n = NewId
  <2> HIDE DEF rec
  <2> QED
    BY <1>9 DEF NewId
<1>11. /\ rec.id = NewId /\ rec.key = r.key /\ rec.reason = r.reason
       /\ rec.entries = r.entries /\ rec.prev = tip
  BY <1>3
<1>12. /\ x \in CallRec /\ x.pc = "outbox" /\ x.req = r /\ x.tx = NewId /\ x.answer = "none"
  BY <1>3, <1>9, QuietTyped DEF CallRec, Quiet, Running, Ids
<1> HIDE DEF rec, J, x
<1>13. ChainIsLinked'
  <2>1. \A n \in DOMAIN journal : journal[n].id = n /\ journal[n].prev = n - 1
    BY DEF IInv, ChainIsLinked
  <2>2. tip = Len(journal)
    BY DEF IInv, ChainIsLinked
  <2>3. \A n \in DOMAIN J : J[n].id = n /\ J[n].prev = n - 1
    BY <2>1, <2>2, <1>9, <1>10, <1>11 DEF NewId
  <2>4. tip' = Len(J)
    BY <1>8, <1>10
  <2> QED
    BY <2>3, <2>4, <1>8 DEF ChainIsLinked
<1>14. BookIds' = BookIds \cup {NewId}
  <2>1. BookIds' = {J[n].id : n \in DOMAIN J}
    BY <1>8 DEF BookIds
  <2>2. \A n \in DOMAIN journal : J[n].id = journal[n].id
    BY <1>10
  <2>3. J[NewId].id = NewId /\ NewId \in DOMAIN J
    BY <1>9, <1>10, <1>11 DEF Ids, NoTx
  <2>4. ASSUME NEW i \in BookIds' PROVE i \in BookIds \cup {NewId}
    <3>1. PICK n \in DOMAIN J : i = J[n].id
      BY <2>1
    <3> QED
      BY <3>1, <2>2, <2>3, <1>10 DEF BookIds
  <2>5. ASSUME NEW i \in BookIds PROVE i \in BookIds'
    <3>1. PICK n \in DOMAIN journal : i = journal[n].id
      BY DEF BookIds
    <3> QED
      BY <3>1, <2>1, <2>2, <1>10
  <2>6. NewId \in BookIds'
    BY <2>1, <2>3
  <2> QED
    BY <2>4, <2>5, <2>6
<1>15. OutboxTellsTheBook'
  <2>1. announced \cup unsent = BookIds
    BY DEF IInv, OutboxTellsTheBook, BookIds
  <2>2. announced' \cup unsent' = BookIds'
    BY <2>1, <1>7, <1>8, <1>14
  <2> QED
    BY <2>2 DEF OutboxTellsTheBook, BookIds
<1>16. RelaySound'
  BY <1>7, <1>14 DEF IInv, RelaySound
<1>17. Solvent' /\ balance' \in [Accounts -> Int]
  BY <1>3, <1>4, <1>5, <1>8 DEF IInv, Solvent, TypeOK
<1>18. Outrun'
  BY <1>7, <1>8 DEF IInv, TypeOK, Outrun
<1>19. call' \in [Calls -> CallRec] /\ call'[c] = x /\ \A e \in Calls \ {c} : call'[e] = call[e]
  BY <1>1, <1>8, <1>12
<1>20. LockHeld'
  BY <1>2, <1>12, <1>19, EngineConstants DEF LockHeld, InTx
<1>21. AllSound'
  <2>0. Fingerprint(rec) = Fingerprint(r)
    BY <1>11 DEF Fingerprint
  <2>1. Stands(x, J)
    BY <2>0, <1>9, <1>10, <1>11, <1>12 DEF Stands, Ids, NoTx
  <2>2. SoundIn(x, J, tip', late', announced')
    BY <2>1, <1>3, <1>12 DEF SoundIn, Running, InTx
  <2>3. ASSUME NEW e \in Calls \ {c}
        PROVE  SoundIn(call[e], J, tip', late', announced)
    <3>1. SoundIn(call[e], journal, tip, late, announced) /\ call[e].pc \notin InTx
      BY <1>2 DEF IInv, AllSound
    <3>2. Stands(call[e], journal) => Stands(call[e], J)
      BY <1>10 DEF Stands
    <3> QED
      BY <3>1, <3>2 DEF SoundIn, InTx
  <2> QED
    BY <2>2, <2>3, <1>7, <1>8, <1>19 DEF AllSound
<1>22. TypeOK'
  BY <1>2, <1>7, <1>8, <1>9, <1>10, <1>17, <1>18, <1>19
  DEF IInv, TypeOK, CallRec, TxRec, Outrun, Ids
<1> QED
  BY <1>13, <1>15, <1>16, <1>17, <1>18, <1>20, <1>21, <1>22 DEF IInv

-----------------------------------------------------------------------------
LEMMA NextIInv == IInv /\ [Next]_vars => IInv'
<1> SUFFICES ASSUME IInv, [Next]_vars PROVE IInv'
  OBVIOUS
<1>0. /\ call \in [Calls -> CallRec]
      /\ \A e \in Calls : SoundIn(call[e], journal, tip, late, announced)
      /\ \A e \in Calls : call[e].pc \in InTx <=> lock = e
  BY DEF IInv, TypeOK, CallRec, AllSound, LockHeld
<1>1. ASSUME NEW c \in Calls, NEW r \in Requests, Begin(c, r) PROVE IInv'
  <2> DEFINE x == [call[c] EXCEPT !.pc = "fast", !.req = r]
  <2>1. /\ call[c] \in CallRec /\ call[c].pc = "idle"
        /\ SoundIn(call[c], journal, tip, late, announced)
    BY <1>0, <1>1 DEF Begin
  <2>2. x \in CallRec /\ x.pc = "fast" /\ x.req = r /\ x.answer = call[c].answer
    BY <2>1 DEF CallRec, Running
  <2>3. call' = [call EXCEPT ![c] = x]
    BY <1>0, <1>1 DEF Begin
  <2> HIDE DEF x
  <2>4. SoundIn(x, journal, tip, late, announced)
    BY <2>1, <2>2 DEF SoundIn, InTx, Running
  <2>5. LockMoves(c, x)
    BY <1>1, <2>1, <2>2 DEF LockMoves, InTx, Begin
  <2> QED
    BY <1>1, <2>2, <2>3, <2>4, <2>5, CallStep DEF Begin
<1>2. ASSUME NEW c \in Calls, Step(c) PROVE IInv'
  <2> DEFINE y == call[c]
  <2>0. y \in CallRec /\ SoundIn(y, journal, tip, late, announced) /\ (y.pc \in InTx <=> lock = c)
    BY <1>0
  <2>1. CASE FastPath(c)
    <3>0. y.pc \in Running /\ y.pc \notin InTx /\ Release(c)
      BY <2>1, NoLockToRelease DEF FastPath, Running, InTx
    <3>1. CASE \E n \in Booked(y.req.key) : ReplayOf(c, n)
      BY <2>1, <3>0, <3>1, ReplayStep DEF FastPath
    <3>2. CASE call' = [call EXCEPT ![c].pc = "lock", ![c].attempt = 1]
      <4> DEFINE x == [y EXCEPT !.pc = "lock", !.attempt = 1]
      <4>1. x \in CallRec /\ x.pc = "lock" /\ x.req = y.req /\ x.answer = y.answer
        <5>1. 1 \in 0 .. MaxAttempts
          BY EngineConstants
        <5> QED
          BY <2>0, <5>1 DEF CallRec, Running
      <4>2. call' = [call EXCEPT ![c] = x]
        BY <3>2, <1>0
      <4> HIDE DEF x, y
      <4>3. SoundIn(x, journal, tip, late, announced) /\ LockMoves(c, x)
        BY <2>0, <3>0, <4>1 DEF SoundIn, LockMoves, Running, InTx
      <4> QED
        BY <2>1, <4>1, <4>2, <4>3, CallStep DEF FastPath
    <3>3. CASE Answer(c, "invalid")
      BY <2>1, <3>0, <3>3, AnswerStep DEF FastPath, Answers, Refusals
    <3> QED
      BY <2>1, <3>1, <3>2, <3>3 DEF FastPath
  <2>2. CASE TakeLock(c)
    <3> DEFINE x == [y EXCEPT !.pc = "recheck", !.prev = tip]
    <3>1. /\ x \in CallRec /\ x.pc = "recheck" /\ x.req = y.req /\ x.prev = tip
          /\ x.answer = y.answer /\ y.pc = "lock"
      <4>1. tip \in Nat
        BY DEF IInv, TypeOK
      <4> QED
        BY <2>0, <2>2, <4>1 DEF CallRec, Running, InTx, TakeLock
    <3>2. call' = [call EXCEPT ![c] = x]
      BY <2>2, <1>0 DEF TakeLock
    <3> HIDE DEF x, y
    <3>3. SoundIn(x, journal, tip, late, announced) /\ LockMoves(c, x)
      BY <2>0, <2>2, <3>1 DEF SoundIn, LockMoves, Running, InTx, TakeLock
    <3> QED
      BY <2>2, <3>1, <3>2, <3>3, CallStep DEF TakeLock
  <2>3. CASE Recheck(c)
    <3>0. y.pc \in Running /\ y.pc = "recheck"
      BY <2>3 DEF Recheck, Running, InTx
    <3>1. CASE \E n \in Booked(y.req.key) : ReplayOf(c, n) /\ Release(c)
      BY <2>3, <3>0, <3>1, ReplayStep DEF Recheck
    <3>2. CASE Booked(y.req.key) = {} /\ Goto(c, "gate") /\ UNCHANGED lock
      <4> DEFINE x == [y EXCEPT !.pc = "gate"]
      <4>1. /\ x \in CallRec /\ x.pc = "gate" /\ x.req = y.req /\ x.prev = y.prev
            /\ x.answer = y.answer
        BY <2>0, GotoRec DEF Running, InTx
      <4>2. call' = [call EXCEPT ![c] = x]
        BY <3>2, <1>0 DEF Goto
      <4>3. \A n \in DOMAIN journal : journal[n].key # y.req.key
        BY <3>2 DEF Booked
      <4> HIDE DEF x, y
      <4>4. SoundIn(x, journal, tip, late, announced)
        BY <2>0, <3>0, <4>1, <4>3 DEF SoundIn, Running, InTx
      <4>5. LockMoves(c, x)
        BY <3>0, <3>2, <4>1 DEF LockMoves, InTx, y
      <4> QED
        BY <2>3, <4>1, <4>2, <4>4, <4>5, CallStep DEF Recheck
    <3> QED
      BY <2>3, <3>1, <3>2 DEF Recheck
  <2>4. CASE RefuseClockSkew(c)
    BY <2>4, AnswerStep DEF RefuseClockSkew, Answers, Refusals
  <2>5. CASE ReadFreeze(c)
    <3>1. CASE Answer(c, "frozen") /\ Release(c)
      BY <2>5, <3>1, AnswerStep DEF ReadFreeze, Answers, Refusals
    <3>2. CASE ~frozen /\ Goto(c, "load") /\ UNCHANGED lock
      <4> DEFINE x == [y EXCEPT !.pc = "load"]
      <4>1. /\ x \in CallRec /\ x.pc = "load" /\ x.req = y.req /\ x.prev = y.prev
            /\ x.answer = y.answer
        BY <2>0, GotoRec DEF Running, InTx
      <4>2. call' = [call EXCEPT ![c] = x] /\ y.pc = "gate"
        BY <2>5, <3>2, <1>0 DEF Goto, ReadFreeze
      <4>3. late = 0
        BY <3>2 DEF IInv, Outrun
      <4> HIDE DEF x, y
      <4>4. SoundIn(x, journal, tip, late, announced)
        BY <2>0, <4>1, <4>2, <4>3 DEF SoundIn, Running, InTx
      <4>5. LockMoves(c, x)
        BY <3>2, <4>1, <4>2 DEF LockMoves, InTx, y
      <4> QED
        BY <2>5, <4>1, <4>2, <4>4, <4>5, CallStep DEF ReadFreeze
    <3> QED
      BY <2>5, <3>1, <3>2 DEF ReadFreeze
  <2>6. CASE LoadAccounts(c)
    <3> DEFINE x == [y EXCEPT !.pc = "apply", !.work = balance, !.at = 0]
    <3>1. /\ x \in CallRec /\ x.pc = "apply" /\ x.req = y.req /\ x.prev = y.prev
          /\ x.answer = y.answer /\ x.work = balance /\ x.at = 0
      <4>1. balance \in [Accounts -> Int]
        BY DEF IInv, TypeOK
      <4> QED
        BY <2>0, <4>1 DEF CallRec, Running, InTx
    <3>2. call' = [call EXCEPT ![c] = x] /\ y.pc = "load"
      BY <2>6, <1>0 DEF LoadAccounts
    <3>3. \A k \in Accounts : k.ownerType # "treasury" => balance[k] >= 0
      BY DEF IInv, Solvent
    <3>4. y.req \in Requests
      BY <2>0, <3>2 DEF SoundIn, Running, InTx
    <3>5. 0 <= Len(y.req.entries)
      BY <3>4, EngineConstants
    <3> HIDE DEF x, y
    <3>6. SoundIn(x, journal, tip, late, announced)
      BY <2>0, <3>1, <3>2, <3>3, <3>5 DEF SoundIn, Running, InTx
    <3>7. LockMoves(c, x)
      BY <2>6, <3>1, <3>2 DEF LockMoves, InTx, y, LoadAccounts
    <3> QED
      BY <2>6, <3>1, <3>2, <3>6, <3>7, CallStep DEF LoadAccounts
  <2>7. CASE ApplyEntry(c)
    <3>1. CASE Answer(c, "insufficient") /\ Release(c)
      BY <2>7, <3>1, AnswerStep DEF ApplyEntry, Answers, Refusals
    <3>2. CASE /\ ~Overdraws(c) /\ UNCHANGED lock
               /\ call' = [call EXCEPT ![c].at = @ + 1,
                                       ![c].work[AccountKey(Entry(c).account)] = NextBalance(c)]
      <4> DEFINE k == AccountKey(Entry(c).account)
                 w == [y.work EXCEPT ![k] = NextBalance(c)]
                 x == [y EXCEPT !.at = y.at + 1, !.work = w]
      <4>1. y.pc = "apply" /\ y.req \in Requests /\ y.at \in Nat /\ y.work \in [Accounts -> Int]
        BY <2>0, <2>7 DEF ApplyEntry, SoundIn, Running, InTx, CallRec
      <4>2. y.req.entries \in Seq(EntryInput) /\ y.at < Len(y.req.entries)
        BY <2>7, <4>1, EngineConstants DEF ApplyEntry
      <4>3. y.at + 1 \in DOMAIN y.req.entries /\ y.at + 1 <= Len(y.req.entries)
        BY <4>1, <4>2
      <4>4. Entry(c) \in EntryInput
        BY <4>2, <4>3 DEF Entry
      <4>5. k \in Accounts
        BY <4>1, <4>3, EngineConstants DEF Entry
      <4>6. k.ownerType = Entry(c).account.ownerType
        BY <4>4 DEF EntryInput, AccountRef, AccountKey
      <4>7. NextBalance(c) \in Int
        <5>1. SignedDelta(Entry(c)) \in Int
          BY <4>4 DEF EntryInput, SignedDelta
        <5> HIDE DEF k
        <5>2. y.work[k] \in Int
          BY <4>1, <4>5
        <5> QED
          BY <5>1, <5>2 DEF NextBalance, k
      <4>8. k.ownerType # "treasury" => NextBalance(c) >= 0
        BY <3>2, <4>6, <4>7 DEF Overdraws
      <4> HIDE DEF k
      <4>9. /\ w \in [Accounts -> Int]
            /\ \A j \in Accounts : w[j] = IF j = k THEN NextBalance(c) ELSE y.work[j]
        BY <4>1, <4>5, <4>7
      <4>10. call' = [call EXCEPT ![c] = x]
        BY <3>2, <1>0 DEF k
      <4> HIDE DEF w
      <4>11. /\ x \in CallRec /\ x.pc = y.pc /\ x.req = y.req /\ x.prev = y.prev
             /\ x.answer = y.answer /\ x.work = w /\ x.at = y.at + 1
        <5>1. \A v \in [Accounts -> Int], m \in Nat :
                LET z == [y EXCEPT !.at = m, !.work = v]
                IN  /\ z \in CallRec /\ z.pc = y.pc /\ z.req = y.req /\ z.prev = y.prev
                    /\ z.answer = y.answer /\ z.work = v /\ z.at = m
          BY <2>0 DEF CallRec
        <5>2. y.at + 1 \in Nat
          BY <4>1
        <5> QED
          BY <4>9, <5>1, <5>2
      <4>12. \A j \in Accounts : j.ownerType # "treasury" => w[j] >= 0
        BY <2>0, <4>1, <4>8, <4>9 DEF SoundIn
      <4> HIDE DEF x, y
      <4>13. SoundIn(x, journal, tip, late, announced)
        BY <2>0, <4>1, <4>3, <4>11, <4>12 DEF SoundIn, Running, InTx
      <4>14. LockMoves(c, x)
        BY <3>2, <4>11 DEF LockMoves, y
      <4> QED
        BY <2>7, <4>10, <4>11, <4>13, <4>14, CallStep DEF ApplyEntry
    <3> QED
      BY <2>7, <3>1, <3>2 DEF ApplyEntry
  <2>8. CASE Commit(c)
    BY <2>8, WriteStep
  <2>9. CASE ReadOutbox(c)
    <3>0. y.pc = "outbox" /\ y.pc \notin InTx /\ Stands(y, journal) /\ Release(c)
      BY <2>0, <2>9, NoLockToRelease DEF ReadOutbox, SoundIn, InTx
    <3>1. CASE y.tx \notin unsent /\ Answer(c, "ok")
      <4>1. y.tx \in announced
        BY <3>0, <3>1 DEF IInv, OutboxTellsTheBook, Stands
      <4> QED
        BY <2>9, <3>0, <3>1, <4>1, AnswerStep DEF ReadOutbox, Answers
    <3>2. CASE Goto(c, "send")
      <4> DEFINE x == [y EXCEPT !.pc = "send"]
      <4>1. x \in CallRec /\ x.pc = "send" /\ x.req = y.req /\ x.tx = y.tx /\ x.answer = y.answer
        BY <2>0, GotoRec DEF Running
      <4>2. call' = [call EXCEPT ![c] = x]
        BY <3>2, <1>0 DEF Goto
      <4> HIDE DEF x, y
      <4>3. SoundIn(x, journal, tip, late, announced)
        BY <2>0, <3>0, <4>1 DEF SoundIn, Stands, Running, InTx
      <4>4. LockMoves(c, x)
        BY <3>0, <4>1 DEF LockMoves, InTx
      <4> QED
        BY <2>9, <4>1, <4>2, <4>3, <4>4, CallStep DEF ReadOutbox
    <3> QED
      BY <2>9, <3>1, <3>2 DEF ReadOutbox
  <2>10. CASE Send(c)
    <3> DEFINE x == [y EXCEPT !.pc = "mark"]
    <3>1. x \in CallRec /\ x.pc = "mark" /\ x.req = y.req /\ x.tx = y.tx /\ x.answer = y.answer
      BY <2>0, GotoRec DEF Running
    <3>2. call' = [call EXCEPT ![c] = x] /\ y.pc = "send" /\ announced' = announced \cup {y.tx}
      BY <2>10, <1>0 DEF Goto, Send
    <3>3. Stands(y, journal)
      BY <2>0, <3>2 DEF SoundIn
    <3>4. y.tx \in BookIds
      BY <3>3 DEF Stands, BookIds
    <3>5. /\ announced \subseteq BookIds /\ relay \in [Relays -> RelayRec]
          /\ \A d \in Relays : /\ relay[d].rows \subseteq BookIds
                               /\ relay[d].pc = "mark" => relay[d].row \in announced
      BY DEF IInv, TypeOK, OutboxTellsTheBook, BookIds, RelaySound, RelayRec
    <3>6. LockMoves(c, x)
      BY <2>10, <3>1, <3>2 DEF LockMoves, InTx, Send
    <3> HIDE DEF x, y
    <3>7. SoundIn(x, journal, tip, late, announced')
      BY <2>0, <3>1, <3>2, <3>3 DEF SoundIn, Stands, Running, InTx
    <3> QED
      BY <2>10, <3>1, <3>2, <3>4, <3>5, <3>6, <3>7, QuietStep DEF Send
  <2>11. CASE MarkSent(c)
    <3>1. y.pc = "mark" /\ y.tx \in announced /\ Stands(y, journal)
      BY <2>0, <2>11 DEF MarkSent, SoundIn
    <3>2. Release(c)
      BY <2>11, <3>1, NoLockToRelease DEF MarkSent, InTx
    <3>3. unsent' \subseteq unsent /\ unsent \subseteq unsent' \cup announced
      BY <2>11, <3>1 DEF MarkSent
    <3>4. announced \subseteq BookIds
      BY DEF IInv, OutboxTellsTheBook, BookIds
    <3>5. UNCHANGED <<ledgerVars, frozen, relay, late>> /\ announced' = announced /\ Answer(c, "ok")
      BY <2>11 DEF MarkSent
    <3> QED
      BY <3>1, <3>2, <3>3, <3>4, <3>5, EndingStep DEF Answers
  <2> QED
    BY <1>2, <2>1, <2>2, <2>3, <2>4, <2>5, <2>6, <2>7, <2>8, <2>9, <2>10, <2>11 DEF Step
<1>3. ASSUME NEW c \in Calls, Failure(c) PROVE IInv'
  <2> DEFINE y == call[c]
  <2>0. y \in CallRec /\ SoundIn(y, journal, tip, late, announced) /\ (y.pc \in InTx <=> lock = c)
    BY <1>0
  <2>1. CASE Abort(c)
    <3>1. CASE Answer(c, "db_error")
      BY <2>1, <3>1, AnswerStep DEF Abort, Answers
    <3>2. CASE /\ y.attempt < MaxAttempts
               /\ call' = [call EXCEPT ![c] = [Quiet EXCEPT !.pc = "lock", !.req = y.req,
                                                             !.attempt = y.attempt + 1]]
      <4> DEFINE x == [Quiet EXCEPT !.pc = "lock", !.req = y.req, !.attempt = y.attempt + 1]
      <4>1. y.attempt + 1 \in 0 .. MaxAttempts /\ y.pc \in Running /\ y.req \in Requests
        BY <2>0, <2>1, <3>2, EngineConstants DEF CallRec, Abort, Running, SoundIn
      <4>2. x \in CallRec /\ x.pc = "lock" /\ x.req = y.req /\ x.answer = "none"
        BY <4>1, QuietTyped DEF CallRec, Quiet, Running
      <4>3. call' = [call EXCEPT ![c] = x]
        BY <3>2
      <4> HIDE DEF x, y
      <4>4. SoundIn(x, journal, tip, late, announced)
        BY <4>1, <4>2 DEF SoundIn, Running, InTx
      <4>5. LockMoves(c, x)
        BY <2>1, <4>2 DEF LockMoves, InTx, Abort
      <4> QED
        BY <2>1, <4>2, <4>3, <4>4, <4>5, CallStep DEF Abort
    <3> QED
      BY <2>1, <3>1, <3>2 DEF Abort
  <2>2. CASE SendFails(c)
    <3>1. y.pc = "send" /\ Stands(y, journal)
      BY <2>0, <2>2 DEF SendFails, SoundIn
    <3>2. Release(c)
      BY <2>2, <3>1, NoLockToRelease DEF SendFails, InTx
    <3>3. y.tx \in BookIds /\ announced \subseteq BookIds
      BY <3>1 DEF Stands, BookIds, IInv, OutboxTellsTheBook
    <3>4. announced \subseteq announced' /\ announced' \subseteq BookIds
      BY <2>2, <3>3 DEF SendFails
    <3> HIDE DEF y
    <3> QED
      BY <2>2, <3>2, <3>4, EndingStep DEF SendFails, Answers
  <2>3. CASE Crash(c)
    BY <2>3, AnswerStep DEF Crash, Answers
  <2> QED
    BY <1>3, <2>1, <2>2, <2>3 DEF Failure
<1>4. ASSUME NEW d \in Relays, RelayStep(d) \/ RelayFails(d) PROVE IInv'
  <2>0. /\ relay \in [Relays -> RelayRec] /\ announced \subseteq BookIds /\ unsent \subseteq BookIds
        /\ \A e \in Relays : /\ relay[e].rows \subseteq BookIds
                             /\ relay[e].pc = "mark" => relay[e].row \in announced
        /\ unsent \subseteq Ids
    BY DEF IInv, TypeOK, RelayRec, RelaySound, OutboxTellsTheBook, BookIds
  <2>1. CASE RelayRead(d)
    <3>1. [pc |-> "send", rows |-> unsent, row |-> NoTx] \in RelayRec
      BY <2>0 DEF RelayRec, NoTx
    <3> QED
      BY <2>0, <2>1, <3>1, QuietStep DEF RelayRead, outboxVars
  <2>2. CASE RelaySend(d)
    <3>1. PICK t \in relay[d].rows : /\ announced' = announced \cup {t}
                                     /\ relay' = [relay EXCEPT ![d].pc = "mark", ![d].row = t]
      BY <2>2 DEF RelaySend
    <3>2. [relay[d] EXCEPT !.pc = "mark", !.row = t] \in RelayRec
      BY <2>0, <3>1 DEF RelayRec, Ids
    <3>3. relay' \in [Relays -> RelayRec]
      BY <2>0, <3>1, <3>2
    <3>4. \A e \in Relays : /\ relay'[e].rows = relay[e].rows
                            /\ relay'[e].pc = "mark" => relay'[e].row \in announced'
      BY <2>0, <3>1 DEF RelayRec
    <3> QED
      BY <2>0, <2>2, <3>1, <3>3, <3>4, QuietStep DEF RelaySend
  <2>3. CASE RelayMark(d)
    <3> DEFINE rest == relay[d].rows \ {relay[d].row}
    <3>1. rest \subseteq BookIds /\ rest \in SUBSET Ids
      BY <2>0 DEF RelayRec
    <3>2. [pc |-> "send", rows |-> rest, row |-> NoTx] \in RelayRec
      BY <3>1 DEF RelayRec, NoTx
    <3>3. relay' \in [Relays -> RelayRec]
      BY <2>0, <2>3, <3>2, QuietTyped DEF RelayMark
    <3>4. \A e \in Relays : /\ relay'[e].rows \subseteq BookIds
                            /\ relay'[e].pc = "mark" => relay'[e].row \in announced
      BY <2>0, <2>3, <3>1 DEF RelayMark, Asleep
    <3>5. unsent' = unsent \ {relay[d].row} /\ relay[d].row \in announced
      BY <2>0, <2>3 DEF RelayMark
    <3> QED
      BY <2>0, <2>3, <3>3, <3>4, <3>5, QuietStep DEF RelayMark
  <2>4. CASE RelayFails(d)
    <3>1. relay' \in [Relays -> RelayRec]
      BY <2>0, <2>4, QuietTyped DEF RelayFails
    <3>2. announced \subseteq announced' /\ announced' \subseteq BookIds
      BY <2>0, <2>4 DEF RelayFails
    <3>3. \A e \in Relays : /\ relay'[e].rows \subseteq BookIds
                            /\ relay'[e].pc = "mark" => relay'[e].row \in announced'
      BY <2>0, <2>4, <3>2 DEF RelayFails, Asleep
    <3> QED
      BY <2>0, <2>4, <3>1, <3>2, <3>3, QuietStep DEF RelayFails
  <2> QED
    BY <1>4, <2>1, <2>2, <2>3, <2>4 DEF RelayStep
<1>5. CASE WriteFreeze
  <2>1. /\ UNCHANGED <<journal, balance, tip, lock, unsent, announced, call, relay>>
        /\ frozen' = ~frozen /\ late' = 0
    BY <1>5 DEF WriteFreeze, ledgerVars, outboxVars
  <2>2. AllSound'
    BY <2>1, <1>0 DEF AllSound, SoundIn
  <2>3. TypeOK'
    BY <2>1 DEF IInv, TypeOK
  <2>4. LockHeld' /\ Solvent' /\ ChainIsLinked' /\ Outrun'
    BY <2>1 DEF IInv, LockHeld, Solvent, ChainIsLinked, Outrun
  <2>5. OutboxTellsTheBook' /\ RelaySound'
    BY <2>1 DEF IInv, OutboxTellsTheBook, RelaySound, BookIds
  <2> QED
    BY <2>2, <2>3, <2>4, <2>5 DEF IInv
<1>6. CASE UNCHANGED vars
  BY <1>6 DEF vars, IInv, TypeOK, LockHeld, AllSound, Solvent, ChainIsLinked,
    OutboxTellsTheBook, RelaySound, BookIds, Outrun
<1> QED
  BY <1>1, <1>2, <1>3, <1>4, <1>5, <1>6 DEF Next

-----------------------------------------------------------------------------
LEMMA Invariance == Spec => []IInv
  BY InitIInv, NextIInv, PTL DEF Spec

\* Types are respected in every reachable state of the engine.
THEOREM EngineTypeCorrect == Spec => []TypeOK
<1>1. IInv => TypeOK
  BY DEF IInv
<1> QED
  BY Invariance, <1>1, PTL

\* The hash chain is never forked or broken by concurrent posts.
THEOREM ChainStaysLinked == Spec => []ChainIsLinked
<1>1. IInv => ChainIsLinked
  BY DEF IInv
<1> QED
  BY Invariance, <1>1, PTL

\* No post is ever stopped by the unique key or the non-negative check of the
\* database: the code's own checks catch every replay and overdraft first.
THEOREM ChecksSuffice == Spec => []BackstopsNeverFire
<1>1. IInv => BackstopsNeverFire
  BY DEF IInv, AllSound, SoundIn, BackstopsNeverFire
<1> QED
  BY Invariance, <1>1, PTL

\* Only the treasury is ever below zero, whatever posts race for the same funds.
THEOREM NobodyOverdrawn == Spec => []Solvent
<1>1. IInv => Solvent
  BY DEF IInv
<1> QED
  BY Invariance, <1>1, PTL

\* An ok answer names a booked and announced transaction; the bus carries
\* committed transactions only and an outbox row is cleared after the bus has
\* it.
THEOREM AnswersAndEventsTrue == Spec => [](OkIsBookedAndAnnounced /\ OutboxTellsTheBook)
<1>1. IInv => OkIsBookedAndAnnounced /\ OutboxTellsTheBook
  BY DEF IInv, AllSound, SoundIn, Stands, OkIsBookedAndAnnounced
<1> QED
  BY Invariance, <1>1, PTL

\* At most one transaction outruns a freeze, whatever the number of calls.
THEOREM FreezeOutrunByOne == Spec => []AtMostOneOutrunsFreeze
<1>1. IInv => AtMostOneOutrunsFreeze
  BY DEF IInv, Outrun, AtMostOneOutrunsFreeze
<1> QED
  BY Invariance, <1>1, PTL

\* Answer tells its own call what it says, and no other call anything.
LEMMA Answered ==
  ASSUME NEW c \in Calls, call \in [Calls -> CallRec], NEW e \in Calls, NEW what, Answer(e, what),
         call'[c].answer # call[c].answer
  PROVE  c = e /\ call'[c].answer = what
  BY DEF Answer, Quiet

\* A caller is refused only at a moment when its key has booked nothing.
THEOREM RefusalsAreTrue == Spec => RefusedIsUnbooked
<1> DEFINE A == \A c \in Calls : call[c].answer = "none" /\ call'[c].answer \in Refusals
                                => Booked(call[c].req.key) = {}
<1>1. IInv /\ [Next]_vars => [A]_vars
  <2> SUFFICES ASSUME IInv, Next, NEW c \in Calls,
                      call[c].answer = "none", call'[c].answer \in Refusals
               PROVE  Booked(call[c].req.key) = {}
    BY DEF vars
  <2>0. /\ call \in [Calls -> CallRec] /\ call'[c].answer # call[c].answer
        /\ call'[c].answer \notin {"conflict", "ok", "backstop", "db_error", "bus_error", "lost"}
        /\ \A e \in Calls : SoundIn(call[e], journal, tip, late, announced)
    BY DEF IInv, TypeOK, CallRec, Refusals, AllSound
  <2>1. ASSUME NEW e \in Calls, NEW r \in Requests, Begin(e, r) PROVE FALSE
    BY <2>0, <2>1 DEF Begin, CallRec
  <2>2. ASSUME NEW e \in Calls, Step(e) PROVE Booked(call[c].req.key) = {}
    <3>1. CASE FastPath(e)
      <4>1. CASE Booked(call[e].req.key) = {}
        <5>1. c = e
          BY <3>1, <4>1, <2>0, Answered DEF FastPath, CallRec
        <5> QED
          BY <4>1, <5>1
      <4>2. ASSUME NEW n \in Booked(call[e].req.key), ReplayOf(e, n) PROVE FALSE
        BY <4>2, <2>0, Answered DEF ReplayOf, CallRec
      <4> QED
        BY <3>1, <4>1, <4>2 DEF FastPath
    <3>2. CASE TakeLock(e) \/ LoadAccounts(e) \/ Send(e)
      <4>1. TakeLock(e) => FALSE
        BY <2>0 DEF TakeLock, CallRec
      <4>2. LoadAccounts(e) => FALSE
        BY <2>0 DEF LoadAccounts, CallRec
      <4>3. Send(e) => FALSE
        BY <2>0 DEF Send, Goto, CallRec
      <4> QED
        BY <3>2, <4>1, <4>2, <4>3
    <3>3. CASE Recheck(e)
      BY <3>3, <2>0, Answered DEF Recheck, ReplayOf, Goto, CallRec
    <3>4. CASE RefuseClockSkew(e) \/ ReadFreeze(e) \/ ApplyEntry(e)
      <4>1. call[e].pc \in {"gate", "apply"}
        BY <3>4 DEF RefuseClockSkew, ReadFreeze, ApplyEntry
      <4>2. c = e
        BY <3>4, <2>0, Answered DEF RefuseClockSkew, ReadFreeze, ApplyEntry, Goto, CallRec
      <4> QED
        BY <4>1, <4>2, <2>0 DEF SoundIn, Booked
    <3>5. CASE Commit(e)
      <4>1. ~Answer(e, "backstop")
        BY <2>0, Answered
      <4>2. Write(e)
        BY <3>5, <4>1 DEF Commit
      <4>3. call'[c].answer \in {call[c].answer, "none"}
        BY <4>2, <2>0 DEF Write, Quiet
      <4> QED
        BY <4>3, <2>0 DEF Refusals
    <3>6. CASE ReadOutbox(e)
      BY <3>6, <2>0, Answered DEF ReadOutbox, Goto, CallRec
    <3>7. CASE MarkSent(e)
      BY <3>7, <2>0, Answered DEF MarkSent
    <3> QED
      BY <2>2, <3>1, <3>2, <3>3, <3>4, <3>5, <3>6, <3>7 DEF Step
  <2>3. ASSUME NEW e \in Calls, Failure(e) PROVE FALSE
    <3>1. CASE Abort(e)
      BY <3>1, <2>0, Answered DEF Abort, Quiet, CallRec
    <3>2. CASE SendFails(e) \/ Crash(e)
      BY <3>2, <2>0, Answered DEF SendFails, Crash
    <3> QED
      BY <2>3, <3>1, <3>2 DEF Failure
  <2>4. ASSUME NEW d \in Relays, RelayStep(d) \/ RelayFails(d) PROVE FALSE
    BY <2>4, <2>0 DEF RelayStep, RelayRead, RelaySend, RelayMark, RelayFails
  <2>5. CASE WriteFreeze
    BY <2>5, <2>0 DEF WriteFreeze
  <2> QED
    BY <2>1, <2>2, <2>3, <2>4, <2>5 DEF Next
<1> QED
  BY <1>1, Invariance, PTL DEF Spec, RefusedIsUnbooked

-----------------------------------------------------------------------------
(* What entries add up to.  SumOver folds over a set of indices, one element *)
(* at a time; that the fold exists, and takes its elements in any order, is *)
(* shown by induction on the size of the set (LeastNat, SmallestSet).       *)

LEMMA LeastNat ==
  ASSUME NEW T, T \subseteq Nat, T # {}
  PROVE  \E m \in T : \A n \in T : m <= n
<1>1. IsWellFoundedOn(OpToRel(<, Nat), Nat)
  BY NatLessThanWellFounded
<1>2. PICK m \in T : \A n \in T : ~ (<<n, m>> \in OpToRel(<, Nat))
  BY <1>1, WFMin
<1>3. \A n \in T : ~ (n < m)
  BY <1>2 DEF OpToRel
<1> QED
  BY <1>3

\* What holds of 0, and of every successor of a number it holds of, holds.
LEMMA Counting ==
  ASSUME NEW T, 0 \in T, \A n \in Nat : n \in T => n + 1 \in T
  PROVE  Nat \subseteq T
<1> SUFFICES ASSUME Nat \ T # {} PROVE FALSE
  OBVIOUS
<1>1. PICK m \in Nat \ T : \A n \in Nat \ T : m <= n
  BY LeastNat
<1>2. m # 0 /\ m - 1 \in Nat /\ m - 1 \in T
  BY <1>1
<1> QED
  BY <1>1, <1>2

\* Of the subsets of a finite set with a property, one has no smaller one in it.
LEMMA SmallestSet ==
  ASSUME NEW I, IsFiniteSet(I), NEW B, B \subseteq SUBSET I, B # {}
  PROVE  \E s \in B : \A t \in B : ~ (t \subseteq s /\ t # s)
<1>1. B \subseteq FiniteSubsetsOf(I)
  BY FS_FiniteSubsetsOfFinite
<1>2. PICK s \in B : \A t \in B : ~ (<<t, s>> \in StrictSubsetOrdering(I))
  BY <1>1, FS_StrictSubsetOrderingWellFounded, WFMin
<1> QED
  BY <1>1, <1>2 DEF StrictSubsetOrdering

Pick(s) == CHOOSE x \in s : TRUE

\* g adds up d over each of the sets of F, an element at a time.
Totals(g, d, F) ==
  \A s \in F : g[s] = IF s = {} THEN 0 ELSE d[Pick(s)] + g[s \ {Pick(s)}]

\* g is a table of totals of d over the subsets of I.
TotalsOf(g, d, I) == g \in [SUBSET I -> Int] /\ Totals(g, d, SUBSET I)

\* g totals s as d[x] and the total of the others.
Takes(g, d, s, x) == g[s] = d[x] + g[s \ {x}]

LEMMA TotalsExist ==
  ASSUME NEW I, IsFiniteSet(I), NEW d \in [I -> Int]
  PROVE  \E g \in [SUBSET I -> Int] : Totals(g, d, SUBSET I)
<1> DEFINE F(n) == {s \in SUBSET I : Cardinality(s) <= n}
           T == {n \in Nat : \E g \in [F(n) -> Int] : Totals(g, d, F(n))}
<1>0. \A s \in SUBSET I : s # {} => Pick(s) \in s
  BY DEF Pick
<1>1. \A s \in SUBSET I : IsFiniteSet(s) /\ Cardinality(s) \in Nat
  BY FS_Subset, FS_CardinalityType
<1>2. 0 \in T
  <2> DEFINE g == [s \in F(0) |-> 0]
  <2>1. \A s \in F(0) : s = {}
    BY <1>1, FS_EmptySet
  <2>2. g \in [F(0) -> Int] /\ Totals(g, d, F(0))
    BY <2>1 DEF Totals
  <2> QED
    BY <2>2
<1>3. ASSUME NEW n \in Nat, n \in T
      PROVE  n + 1 \in T
  <2>1. PICK g \in [F(n) -> Int] : Totals(g, d, F(n))
    BY <1>3
  <2> DEFINE h == [s \in F(n + 1) |-> IF s = {} THEN 0 ELSE d[Pick(s)] + g[s \ {Pick(s)}]]
  <2>2. \A s \in F(n + 1) : s # {} => s \ {Pick(s)} \in F(n)
    <3> SUFFICES ASSUME NEW s \in F(n + 1), s # {} PROVE s \ {Pick(s)} \in F(n)
      OBVIOUS
    <3>1. Cardinality(s \ {Pick(s)}) = Cardinality(s) - 1
      BY <1>0, <1>1, FS_RemoveElement
    <3> QED
      BY <3>1, <1>1
  <2>3. F(n) \subseteq F(n + 1)
    BY <1>1
  <2>4. \A s \in F(n) : h[s] = g[s]
    BY <2>1, <2>3 DEF Totals
  <2>5. h \in [F(n + 1) -> Int]
    <3>1. \A s \in F(n + 1) : s # {} => d[Pick(s)] \in Int /\ g[s \ {Pick(s)}] \in Int
      BY <1>0, <2>1, <2>2 DEF Totals
    <3> QED
      BY <3>1
  <2>6. \A s \in F(n + 1) : h[s] = IF s = {} THEN 0 ELSE d[Pick(s)] + g[s \ {Pick(s)}]
    OBVIOUS
  <2> HIDE DEF F, h
  <2>7. Totals(h, d, F(n + 1))
    BY <2>2, <2>4, <2>6 DEF Totals
  <2> QED
    BY <2>5, <2>7
<1>4. Nat \subseteq T
  <2> HIDE DEF T
  <2> QED
    BY <1>2, <1>3, Counting
<1>5. F(Cardinality(I)) = SUBSET I
  BY FS_Subset
<1>6. Cardinality(I) \in T
  <2> HIDE DEF T
  <2> QED
    BY <1>4, FS_CardinalityType
<1>7. \E g \in [F(Cardinality(I)) -> Int] : Totals(g, d, F(Cardinality(I)))
  BY <1>6
<1> HIDE DEF F
<1> QED
  BY <1>5, <1>7

\* The total of a set is that of the others and any one element.
LEMMA TotalsTakeAny ==
  ASSUME NEW I, NEW d, NEW g, IsFiniteSet(I), d \in [I -> Int],
         TotalsOf(g, d, I)
  PROVE  \A s \in SUBSET I : \A x \in s : Takes(g, d, s, x)
<1> USE DEF TotalsOf, Takes
<1> DEFINE B == {s \in SUBSET I : \E x \in s : g[s] # d[x] + g[s \ {x}]}
<1> SUFFICES ASSUME B # {} PROVE FALSE
  OBVIOUS
<1>1. PICK s \in B : \A t \in B : ~ (t \subseteq s /\ t # s)
  <2>1. B \subseteq SUBSET I
    OBVIOUS
  <2> HIDE DEF B
  <2> QED
    BY <2>1, SmallestSet
<1>2. PICK x \in s : g[s] # d[x] + g[s \ {x}]
  OBVIOUS
<1> DEFINE y == Pick(s)
<1>3. y \in s /\ s \in SUBSET I
  BY <1>2 DEF Pick
<1> HIDE DEF y
<1>4. g[s] = d[y] + g[s \ {y}]
  BY <1>3 DEF Totals, y
<1>5. x # y
  BY <1>2, <1>4
<1>6. \A z \in s : \A w \in s \ {z} : g[s \ {z}] = d[w] + g[(s \ {z}) \ {w}]
  <2> SUFFICES ASSUME NEW z \in s, NEW w \in s \ {z} PROVE g[s \ {z}] = d[w] + g[(s \ {z}) \ {w}]
    OBVIOUS
  <2>1. s \ {z} \notin B /\ s \ {z} \in SUBSET I
    BY <1>1, <1>3
  <2> QED
    BY <2>1
<1>7. g[s \ {x}] = d[y] + g[(s \ {x}) \ {y}] /\ g[s \ {y}] = d[x] + g[(s \ {y}) \ {x}]
  BY <1>3, <1>5, <1>6
<1>8. (s \ {x}) \ {y} = (s \ {y}) \ {x}
  OBVIOUS
<1> DEFINE u == (s \ {x}) \ {y}
<1>9. d[x] \in Int /\ d[y] \in Int /\ g[u] \in Int
  <2>1. u \in SUBSET I
    BY <1>3
  <2> HIDE DEF u
  <2> QED
    BY <1>2, <1>3, <2>1
<1>10. g[s \ {x}] = d[y] + g[u] /\ g[s \ {y}] = d[x] + g[u]
  BY <1>7, <1>8
<1> HIDE DEF B, u
<1>11. g[s] = d[y] + (d[x] + g[u]) /\ g[s] # d[x] + (d[y] + g[u])
  BY <1>2, <1>4, <1>10
<1> QED
  BY <1>9, <1>11

\* The subsets of a finite set have one table of totals.
LEMMA TotalsUnique ==
  ASSUME NEW I, NEW d, NEW g, NEW h, IsFiniteSet(I),
         Totals(g, d, SUBSET I), Totals(h, d, SUBSET I)
  PROVE  \A s \in SUBSET I : g[s] = h[s]
<1> DEFINE B == {s \in SUBSET I : g[s] # h[s]}
<1> SUFFICES ASSUME B # {} PROVE FALSE
  OBVIOUS
<1>1. PICK s \in B : \A t \in B : ~ (t \subseteq s /\ t # s)
  <2>1. B \subseteq SUBSET I
    OBVIOUS
  <2> HIDE DEF B
  <2> QED
    BY <2>1, SmallestSet
<1>2. s \in SUBSET I /\ g[s] # h[s]
  OBVIOUS
<1>3. s # {}
  BY <1>2 DEF Totals
<1>4. Pick(s) \in s
  BY <1>3 DEF Pick
<1>5. g[s \ {Pick(s)}] = h[s \ {Pick(s)}]
  <2>1. s \ {Pick(s)} \in SUBSET I /\ s \ {Pick(s)} # s
    BY <1>2, <1>4
  <2> QED
    BY <1>1, <2>1
<1> HIDE DEF B
<1> QED
  BY <1>2, <1>3, <1>5 DEF Totals

\* A table of totals of the subsets of J is one of the subsets of a part of J.
LEMMA TotalsOfPart ==
  ASSUME NEW I, NEW J, NEW d, NEW e, NEW h, I \subseteq J,
         \A i \in I : d[i] = e[i], Totals(h, e, SUBSET J)
  PROVE  Totals(h, d, SUBSET I)
<1> SUFFICES ASSUME NEW s \in SUBSET I
             PROVE  h[s] = IF s = {} THEN 0 ELSE d[Pick(s)] + h[s \ {Pick(s)}]
  BY DEF Totals
<1>1. h[s] = IF s = {} THEN 0 ELSE e[Pick(s)] + h[s \ {Pick(s)}]
  BY DEF Totals
<1>2. s # {} => Pick(s) \in s
  BY DEF Pick
<1> QED
  BY <1>1, <1>2

\* What the entries of I add up to, as SumOver computes it.
LEMMA SumIsTotal ==
  ASSUME NEW entries, NEW I, NEW d, IsFiniteSet(I), d \in [I -> Int],
         \A i \in I : d[i] = SignedDelta(entries[i])
  PROVE  \E g : TotalsOf(g, d, I) /\ SumOver(SignedDelta, entries, I) = g[I]
<1> USE DEF TotalsOf
<1> DEFINE Eq(g) == g = [s \in SUBSET I |-> IF s = {} THEN 0
                                           ELSE SignedDelta(entries[Pick(s)]) + g[s \ {Pick(s)}]]
           iter == CHOOSE g : Eq(g)
<1>1. SumOver(SignedDelta, entries, I) = iter[I]
  BY DEF SumOver, MapThenSumSet, MapThenFoldSet, Pick
<1>2. \A s \in SUBSET I : s # {} => Pick(s) \in s
  BY DEF Pick
<1>3. PICK g \in [SUBSET I -> Int] : Totals(g, d, SUBSET I)
  BY TotalsExist
<1>4. Eq(g)
  BY <1>2, <1>3 DEF Totals
<1>5. Eq(iter)
  <2> HIDE DEF Eq
  <2> QED
    BY <1>4, Zenon
<1> HIDE DEF iter
<1>6. Totals(iter, d, SUBSET I)
  BY <1>2, <1>5 DEF Totals
<1>7. \A s \in SUBSET I : g[s] = iter[s]
  <2> HIDE DEF Eq
  <2> QED
    BY <1>3, <1>6, TotalsUnique
<1>8. iter[I] = g[I]
  BY <1>7
<1> QED
  BY <1>1, <1>3, <1>8

\* Nothing adds up to nothing, and a sum takes its terms in any order.
LEMMA SumOfNone == ASSUME NEW entries PROVE SumOver(SignedDelta, entries, {}) = 0
<1> DEFINE d == [i \in {} |-> SignedDelta(entries[i])]
<1>1. IsFiniteSet({}) /\ d \in [{} -> Int] /\ \A i \in {} : d[i] = SignedDelta(entries[i])
  BY FS_EmptySet
<1> HIDE DEF d
<1>2. PICK g : TotalsOf(g, d, {}) /\ SumOver(SignedDelta, entries, {}) = g[{}]
  BY <1>1, SumIsTotal
<1> QED
  BY <1>2 DEF TotalsOf, Totals

LEMMA SumIsInt ==
  ASSUME NEW entries, NEW I, IsFiniteSet(I), \A j \in I : SignedDelta(entries[j]) \in Int
  PROVE  SumOver(SignedDelta, entries, I) \in Int
<1> DEFINE d == [j \in I |-> SignedDelta(entries[j])]
<1>1. d \in [I -> Int] /\ \A j \in I : d[j] = SignedDelta(entries[j])
  OBVIOUS
<1> HIDE DEF d
<1>2. PICK g : TotalsOf(g, d, I) /\ SumOver(SignedDelta, entries, I) = g[I]
  BY <1>1, SumIsTotal
<1> QED
  BY <1>2 DEF TotalsOf

LEMMA SumWith ==
  ASSUME NEW entries, NEW I, IsFiniteSet(I), NEW i, i \notin I,
         \A j \in I \cup {i} : SignedDelta(entries[j]) \in Int
  PROVE  /\ SumOver(SignedDelta, entries, I) \in Int
         /\ SumOver(SignedDelta, entries, I \cup {i})
              = SumOver(SignedDelta, entries, I) + SignedDelta(entries[i])
<1> DEFINE J == I \cup {i}
           d == [j \in I |-> SignedDelta(entries[j])]
           e == [j \in J |-> SignedDelta(entries[j])]
<1>1. /\ IsFiniteSet(J) /\ I \subseteq J /\ J \ {i} = I /\ i \in J
      /\ \A j \in J : SignedDelta(entries[j]) \in Int
  BY FS_AddElement
<1>2. d \in [I -> Int] /\ \A j \in I : d[j] = SignedDelta(entries[j])
  OBVIOUS
<1>3. e \in [J -> Int] /\ \A j \in J : e[j] = SignedDelta(entries[j])
  BY <1>1
<1> HIDE DEF J, d, e
<1>4. PICK g : TotalsOf(g, d, I) /\ SumOver(SignedDelta, entries, I) = g[I]
  BY <1>2, SumIsTotal
<1>5. PICK h : TotalsOf(h, e, J) /\ SumOver(SignedDelta, entries, J) = h[J]
  BY <1>1, <1>3, SumIsTotal
<1>6. \A j \in I : d[j] = e[j]
  BY <1>1, <1>2, <1>3
<1>7. g[I] = h[I]
  <2>1. \A s \in SUBSET I : g[s] = h[s]
    <3>1. Totals(g, d, SUBSET I) /\ Totals(h, e, SUBSET J)
      BY <1>4, <1>5 DEF TotalsOf
    <3>2. Totals(h, d, SUBSET I)
      BY <1>1, <1>6, <3>1, TotalsOfPart
    <3> QED
      BY <3>1, <3>2, TotalsUnique
  <2> QED
    BY <2>1
<1>8. h[J] = e[i] + h[I]
  <2>1. \A s \in SUBSET J : \A x \in s : Takes(h, e, s, x)
    BY <1>1, <1>3, <1>5, TotalsTakeAny
  <2>2. Takes(h, e, J, i)
    BY <1>1, <2>1
  <2> QED
    BY <1>1, <2>2 DEF Takes
<1>9. g[I] \in Int /\ e[i] = SignedDelta(entries[i]) /\ e[i] \in Int
  BY <1>1, <1>3, <1>4 DEF TotalsOf
<1> QED
  BY <1>4, <1>5, <1>7, <1>8, <1>9 DEF J

\* What f adds up to over I, as Total computes it.
LEMMA TotalIsTotal ==
  ASSUME NEW I, NEW f, NEW d, IsFiniteSet(I), d \in [I -> Int], \A i \in I : d[i] = f[i]
  PROVE  \E g : TotalsOf(g, d, I) /\ Total(f, I) = g[I]
<1> USE DEF TotalsOf
<1> DEFINE Eq(g) == g = [s \in SUBSET I |-> IF s = {} THEN 0 ELSE f[Pick(s)] + g[s \ {Pick(s)}]]
           iter == CHOOSE g : Eq(g)
<1>1. Total(f, I) = iter[I]
  BY DEF Total, MapThenSumSet, MapThenFoldSet, Pick
<1>2. \A s \in SUBSET I : s # {} => Pick(s) \in s
  BY DEF Pick
<1>3. PICK g \in [SUBSET I -> Int] : Totals(g, d, SUBSET I)
  BY TotalsExist
<1>4. Eq(g)
  BY <1>2, <1>3 DEF Totals
<1>5. Eq(iter)
  <2> HIDE DEF Eq
  <2> QED
    BY <1>4, Zenon
<1> HIDE DEF iter
<1>6. Totals(iter, d, SUBSET I)
  BY <1>2, <1>5 DEF Totals
<1>7. \A s \in SUBSET I : g[s] = iter[s]
  <2> HIDE DEF Eq
  <2> QED
    BY <1>3, <1>6, TotalsUnique
<1>8. iter[I] = g[I]
  BY <1>7
<1> QED
  BY <1>1, <1>3, <1>8

\* A total is a number, nothing adds up to nothing, and what f and h agree on adds
\* up to the same.
LEMMA TotalIsInt ==
  ASSUME NEW I, IsFiniteSet(I), NEW f, \A i \in I : f[i] \in Int
  PROVE  Total(f, I) \in Int
<1> DEFINE d == [i \in I |-> f[i]]
<1>1. d \in [I -> Int] /\ \A i \in I : d[i] = f[i]
  OBVIOUS
<1> HIDE DEF d
<1>2. PICK g : TotalsOf(g, d, I) /\ Total(f, I) = g[I]
  BY <1>1, TotalIsTotal
<1> QED
  BY <1>2 DEF TotalsOf

LEMMA TotalOfNone == ASSUME NEW f PROVE Total(f, {}) = 0
<1> DEFINE d == [i \in {} |-> f[i]]
<1>1. IsFiniteSet({}) /\ d \in [{} -> Int] /\ \A i \in {} : d[i] = f[i]
  BY FS_EmptySet
<1> HIDE DEF d
<1>2. PICK g : TotalsOf(g, d, {}) /\ Total(f, {}) = g[{}]
  BY <1>1, TotalIsTotal
<1> QED
  BY <1>2 DEF TotalsOf, Totals

LEMMA TotalSame ==
  ASSUME NEW I, IsFiniteSet(I), NEW f, NEW h, \A i \in I : f[i] \in Int /\ h[i] = f[i]
  PROVE  Total(h, I) = Total(f, I)
<1> DEFINE d == [i \in I |-> f[i]]
<1>1. d \in [I -> Int] /\ (\A i \in I : d[i] = f[i]) /\ \A i \in I : d[i] = h[i]
  OBVIOUS
<1> HIDE DEF d
<1>2. PICK g : TotalsOf(g, d, I) /\ Total(f, I) = g[I]
  BY <1>1, TotalIsTotal
<1>3. PICK e : TotalsOf(e, d, I) /\ Total(h, I) = e[I]
  BY <1>1, TotalIsTotal
<1>4. \A s \in SUBSET I : g[s] = e[s]
  BY <1>2, <1>3, TotalsUnique DEF TotalsOf
<1> QED
  BY <1>2, <1>3, <1>4

\* One element more.
LEMMA TotalWith ==
  ASSUME NEW I, IsFiniteSet(I), NEW i, i \notin I, NEW f, \A j \in I \cup {i} : f[j] \in Int
  PROVE  Total(f, I \cup {i}) = Total(f, I) + f[i]
<1> DEFINE J == I \cup {i}
           d == [j \in I |-> f[j]]
           e == [j \in J |-> f[j]]
<1>1. IsFiniteSet(J) /\ I \subseteq J /\ J \ {i} = I /\ i \in J
  BY FS_AddElement
<1>2. d \in [I -> Int] /\ \A j \in I : d[j] = f[j]
  OBVIOUS
<1>3. e \in [J -> Int] /\ \A j \in J : e[j] = f[j]
  OBVIOUS
<1> HIDE DEF J, d, e
<1>4. PICK g : TotalsOf(g, d, I) /\ Total(f, I) = g[I]
  BY <1>2, TotalIsTotal
<1>5. PICK h : TotalsOf(h, e, J) /\ Total(f, J) = h[J]
  BY <1>1, <1>3, TotalIsTotal
<1>6. Totals(h, d, SUBSET I)
  <2>1. \A j \in I : d[j] = e[j]
    BY <1>1, <1>2, <1>3
  <2>2. Totals(h, e, SUBSET J)
    BY <1>5 DEF TotalsOf
  <2> QED
    BY <1>1, <2>1, <2>2, TotalsOfPart
<1>7. g[I] = h[I]
  <2>1. Totals(g, d, SUBSET I)
    BY <1>4 DEF TotalsOf
  <2>2. \A s \in SUBSET I : g[s] = h[s]
    BY <1>6, <2>1, TotalsUnique
  <2> QED
    BY <2>2
<1>8. h[J] = e[i] + h[I]
  <2>1. \A s \in SUBSET J : \A x \in s : Takes(h, e, s, x)
    BY <1>1, <1>3, <1>5, TotalsTakeAny
  <2>2. Takes(h, e, J, i)
    BY <1>1, <2>1
  <2> QED
    BY <1>1, <2>2 DEF Takes
<1>9. g[I] \in Int /\ e[i] = f[i] /\ e[i] \in Int
  BY <1>1, <1>3, <1>4 DEF TotalsOf
<1> QED
  BY <1>4, <1>5, <1>7, <1>8, <1>9 DEF J

\* One term changed.
LEMMA TotalMoves ==
  ASSUME NEW I, IsFiniteSet(I), NEW i \in I, NEW n \in Int, NEW f, NEW h,
         \A j \in I : f[j] \in Int, h[i] = f[i] + n, \A j \in I : j # i => h[j] = f[j]
  PROVE  Total(h, I) = Total(f, I) + n
<1> DEFINE J == I \ {i}
<1>1. IsFiniteSet(J) /\ J \cup {i} = I /\ i \notin J
  BY FS_Subset
<1>2. \A j \in J \cup {i} : f[j] \in Int /\ h[j] \in Int
  OBVIOUS
<1>3. \A j \in J : f[j] \in Int /\ h[j] = f[j]
  OBVIOUS
<1> HIDE DEF J
<1>4. Total(f, I) = Total(f, J) + f[i] /\ Total(h, I) = Total(h, J) + h[i]
  BY <1>1, <1>2, TotalWith
<1>5. Total(h, J) = Total(f, J) /\ Total(f, J) \in Int
  BY <1>1, <1>3, TotalSame, TotalIsInt
<1> QED
  BY <1>4, <1>5

-----------------------------------------------------------------------------
(* The abstract ledger's rules are those of the engine: AtomicLedger reads  *)
(* the same LedgerRules, with the same constants.                           *)

LEMMA SameSum ==
  ASSUME NEW entries, NEW I
  PROVE  Atomic!SumOver(Atomic!SignedDelta, entries, I) = SumOver(SignedDelta, entries, I)
  BY DEF Atomic!SumOver, Atomic!MapThenSumSet, Atomic!MapThenFoldSet, Atomic!SignedDelta,
    SumOver, MapThenSumSet, MapThenFoldSet, SignedDelta

LEMMA SameCardinality ==
  ASSUME NEW S
  PROVE  Atomic!Cardinality(S) = Cardinality(S)
  BY DEF Atomic!Cardinality, Cardinality

LEMMA SamePrint ==
  ASSUME NEW r
  PROVE  Atomic!Fingerprint(r) = Fingerprint(r)
  BY SameCardinality DEF Atomic!Fingerprint, Atomic!AccountKey, Fingerprint, AccountKey

LEMMA SameAfter ==
  ASSUME NEW b, NEW entries, NEW n
  PROVE  Atomic!After(b, entries, n) = After(b, entries, n)
  BY SameSum DEF Atomic!After, After, Atomic!AccountKey, AccountKey

LEMMA SameFits ==
  ASSUME NEW b, NEW entries
  PROVE  Atomic!Fits(b, entries) <=> Fits(b, entries)
  BY SameAfter DEF Atomic!Fits, Fits, Atomic!AccountKey, AccountKey

LEMMA SameValid ==
  ASSUME NEW entries
  PROVE  Atomic!AssertValidPost(entries) <=> AssertValidPost(entries)
<1>1. Atomic!LockKinds = LockKinds
  BY DEF Atomic!LockKinds, LockKinds, Atomic!AccountKinds, AccountKinds
<1>2. Atomic!AssertOwnerIdentifierSpace(entries) <=> AssertOwnerIdentifierSpace(entries)
  BY DEF Atomic!AssertOwnerIdentifierSpace, AssertOwnerIdentifierSpace, Atomic!IsValidOwnerId,
    IsValidOwnerId, Atomic!UuidOwnerTypes, UuidOwnerTypes
<1>3. Atomic!AssertBalanced(entries) <=> AssertBalanced(entries)
  BY SameSum DEF Atomic!AssertBalanced, AssertBalanced, Atomic!AssetDelta, AssetDelta
<1>4. \A owner : Atomic!LockGain(entries, owner) = LockGain(entries, owner)
  BY <1>1, SameSum
  DEF Atomic!LockGain, LockGain, Atomic!Owns, Owns, Atomic!SignedDelta, SignedDelta
<1>5. \A owner : Atomic!AvailableGiven(entries, owner) = AvailableGiven(entries, owner)
  BY SameSum
  DEF Atomic!AvailableGiven, AvailableGiven, Atomic!Owns, Owns, Atomic!SignedDelta, SignedDelta
<1>6. Atomic!AssertPairedLocks(entries) <=> AssertPairedLocks(entries)
  BY <1>1, <1>4, <1>5
  DEF Atomic!AssertPairedLocks, AssertPairedLocks, Atomic!OwnersOf, OwnersOf, Atomic!Owns, Owns
<1>7. Atomic!AssertPurposedLocks(entries) <=> AssertPurposedLocks(entries)
  BY <1>1 DEF Atomic!AssertPurposedLocks, AssertPurposedLocks
<1>8. Atomic!AssertAvailableUnpurposed(entries) <=> AssertAvailableUnpurposed(entries)
  BY DEF Atomic!AssertAvailableUnpurposed, AssertAvailableUnpurposed
<1> QED
  BY <1>2, <1>3, <1>6, <1>7, <1>8 DEF Atomic!AssertValidPost, AssertValidPost

-----------------------------------------------------------------------------
(* The engine implements the atomic ledger.  Beyond IInv this needs what a  *)
(* call has established on its way to the commit: its body was validated    *)
(* before it queued, and the balances it computed are those of its entries, *)
(* in order, on the balances as they still stand, because only the holder   *)
(* of the lock writes them (AllPlanned).  Then a commit is the atomic       *)
(* booking, an answer is the telling of it, and every other step stutters.  *)

\* Every entry up to the nth fits, balances b being what the post found.
FitsTo(b, entries, n) ==
  \A m \in 1 .. n : \/ entries[m].account.ownerType = "treasury"
                    \/ After(b, entries, m)[AccountKey(entries[m].account)] >= 0

\* What a call x has established when balances are b: its request was validated
\* before it queued for the lock, and what it has applied is its entries in order.
Planned(x, b) ==
  /\ x.pc \in InTx \cup {"lock"} => AssertValidPost(x.req.entries)
  /\ x.pc = "apply" => /\ x.work = After(b, x.req.entries, x.at)
                       /\ FitsTo(b, x.req.entries, x.at)

AllPlanned == \A c \in Calls : Planned(call[c], balance)

LEMMA KeysBefore ==
  ASSUME NEW entries \in Seq(EntryInput), NEW n \in 0 .. Len(entries), NEW k
  PROVE  LET I == {i \in 1 .. n : AccountKey(entries[i].account) = k}
         IN  /\ IsFiniteSet(I)
             /\ \A i \in I : SignedDelta(entries[i]) \in Int
<1> DEFINE I == {i \in 1 .. n : AccountKey(entries[i].account) = k}
<1>1. IsFiniteSet(1 .. n)
  BY FS_Interval
<1>2. IsFiniteSet(I)
  BY <1>1, FS_Subset
<1>3. \A i \in 1 .. n : entries[i] \in EntryInput
  OBVIOUS
<1>4. \A i \in 1 .. n : SignedDelta(entries[i]) \in Int
  BY <1>3 DEF EntryInput, SignedDelta
<1> QED
  BY <1>2, <1>4

\* The balances after no entry, and after one more.
LEMMA AfterNone ==
  ASSUME NEW b \in [Accounts -> Int], NEW entries
  PROVE  After(b, entries, 0) = b
<1>1. \A k : {i \in 1 .. 0 : AccountKey(entries[i].account) = k} = {}
  OBVIOUS
<1>2. After(b, entries, 0) = [k \in Accounts |-> b[k] + 0]
  BY <1>1, SumOfNone DEF After
<1>3. \A k \in Accounts : b[k] + 0 = b[k]
  OBVIOUS
<1> QED
  BY <1>2, <1>3

LEMMA AfterTyped ==
  ASSUME NEW b \in [Accounts -> Int], NEW entries \in Seq(EntryInput), NEW n \in 0 .. Len(entries)
  PROVE  After(b, entries, n) \in [Accounts -> Int]
<1> DEFINE I(k) == {i \in 1 .. n : AccountKey(entries[i].account) = k}
<1>1. \A k : SumOver(SignedDelta, entries, I(k)) \in Int
  <2> SUFFICES ASSUME NEW k PROVE SumOver(SignedDelta, entries, I(k)) \in Int
    OBVIOUS
  <2>1. IsFiniteSet(I(k)) /\ \A i \in I(k) : SignedDelta(entries[i]) \in Int
    BY KeysBefore
  <2> HIDE DEF I
  <2> QED
    BY <2>1, SumIsInt
<1>2. After(b, entries, n) = [k \in Accounts |-> b[k] + SumOver(SignedDelta, entries, I(k))]
  BY DEF After
<1> HIDE DEF I
<1>3. \A k \in Accounts : b[k] + SumOver(SignedDelta, entries, I(k)) \in Int
  BY <1>1
<1> QED
  BY <1>2, <1>3

LEMMA AfterNext ==
  ASSUME NEW b \in [Accounts -> Int], NEW entries \in Seq(EntryInput),
         NEW n \in 0 .. Len(entries), n < Len(entries)
  PROVE  LET key == AccountKey(entries[n + 1].account)
         IN  \A k \in Accounts :
               After(b, entries, n + 1)[k] =
                 IF k = key THEN After(b, entries, n)[k] + SignedDelta(entries[n + 1])
                 ELSE After(b, entries, n)[k]
<1> DEFINE key == AccountKey(entries[n + 1].account)
           I(k, m) == {i \in 1 .. m : AccountKey(entries[i].account) = k}
           S(k, m) == SumOver(SignedDelta, entries, I(k, m))
<1>1. \A k \in Accounts : /\ After(b, entries, n)[k] = b[k] + S(k, n)
                          /\ After(b, entries, n + 1)[k] = b[k] + S(k, n + 1)
  BY DEF After
<1>2. \A k : k # key => I(k, n + 1) = I(k, n)
  <2> SUFFICES ASSUME NEW k, k # key, NEW i PROVE i \in I(k, n + 1) <=> i \in I(k, n)
    OBVIOUS
  <2>1. i \in 1 .. (n + 1) <=> i \in 1 .. n \/ i = n + 1
    OBVIOUS
  <2> QED
    BY <2>1
<1>3. I(key, n + 1) = I(key, n) \cup {n + 1} /\ n + 1 \notin I(key, n)
  <2>1. 1 .. (n + 1) = (1 .. n) \cup {n + 1} /\ n + 1 \notin 1 .. n
    OBVIOUS
  <2> QED
    BY <2>1
<1>4. n + 1 \in 0 .. Len(entries)
  OBVIOUS
<1>5. /\ IsFiniteSet(I(key, n))
      /\ \A i \in I(key, n) \cup {n + 1} : SignedDelta(entries[i]) \in Int
  <2>1. IsFiniteSet(I(key, n))
    BY KeysBefore
  <2>2. \A i \in I(key, n + 1) : SignedDelta(entries[i]) \in Int
    BY <1>4, KeysBefore
  <2> HIDE DEF I, key
  <2> QED
    BY <1>3, <2>1, <2>2
<1>6. S(key, n + 1) = S(key, n) + SignedDelta(entries[n + 1]) /\ S(key, n) \in Int
      /\ SignedDelta(entries[n + 1]) \in Int
  <2> HIDE DEF I, key
  <2>1. SignedDelta(entries[n + 1]) \in Int
    BY <1>5
  <2> QED
    BY <1>3, <1>5, <2>1, SumWith
<1> HIDE DEF I, S, key
<1>7. \A k \in Accounts : k # key => S(k, n + 1) = S(k, n)
  BY <1>2 DEF S
<1>8. \A k \in Accounts :
        b[k] + S(k, n + 1) =
          IF k = key THEN (b[k] + S(k, n)) + SignedDelta(entries[n + 1]) ELSE b[k] + S(k, n)
  BY <1>6, <1>7
<1>9. \A k \in Accounts :
        After(b, entries, n + 1)[k] =
          IF k = key THEN After(b, entries, n)[k] + SignedDelta(entries[n + 1])
          ELSE After(b, entries, n)[k]
  BY <1>1, <1>8
<1> QED
  BY <1>9 DEF key

\* An account no entry names keeps its balance.
LEMMA AfterUntouched ==
  ASSUME NEW b \in [Accounts -> Int], NEW entries, NEW n, NEW k \in Accounts,
         \A i \in 1 .. n : AccountKey(entries[i].account) # k
  PROVE  After(b, entries, n)[k] = b[k]
<1>1. {i \in 1 .. n : AccountKey(entries[i].account) = k} = {}
  OBVIOUS
<1>2. After(b, entries, n)[k] = b[k] + 0
  BY <1>1, SumOfNone DEF After
<1> QED
  BY <1>2

\* What the abstract ledger sees of the engine.
Ledger == [n \in DOMAIN journal |->
             [key |-> journal[n].key, reason |-> journal[n].reason, entries |-> journal[n].entries]]
Replies == [c \in Calls |-> Told(c)]

Simulates == Atomic!AtomicNext \/ UNCHANGED <<Ledger, balance, Replies>>

\* Every caller but c is where it was.
Only(c) == \A e \in Calls : e # c => call'[e] = call[e]

LEMMA PlanKept ==
  ASSUME AllPlanned, NEW c \in Calls, Only(c), balance' = balance, Planned(call'[c], balance)
  PROVE  AllPlanned'
  BY DEF AllPlanned, Only

LEMMA NoPlan ==
  ASSUME NEW x, NEW b, x.pc \notin InTx \cup {"lock"}
  PROVE  Planned(x, b)
  BY DEF Planned, InTx

\* A call moves on and its caller hears nothing: the abstract ledger stutters.
LEMMA MovesOn ==
  ASSUME AllPlanned, NEW c \in Calls, Only(c), Planned(call'[c], balance), UNCHANGED ledgerVars,
         call[c].pc # "done", call'[c].pc # "done"
  PROVE  AllPlanned' /\ Simulates
<1>1. UNCHANGED <<journal, balance>>
  BY DEF ledgerVars
<1>2. \A e \in Calls : Told(e)' = Told(e)
  BY DEF Told, Only
<1> HIDE DEF Told
<1>3. UNCHANGED <<Ledger, balance, Replies>>
  BY <1>1, <1>2 DEF Ledger, Replies
<1> QED
  BY <1>1, <1>3, PlanKept DEF Simulates

LEMMA NothingMoves ==
  ASSUME AllPlanned, UNCHANGED <<ledgerVars, call>>
  PROVE  AllPlanned' /\ Simulates
<1>1. UNCHANGED <<journal, balance>>
  BY DEF ledgerVars
<1>2. \A e \in Calls : Told(e)' = Told(e)
  BY DEF Told
<1>3. UNCHANGED <<Ledger, balance, Replies>>
  BY <1>1, <1>2 DEF Ledger, Replies
<1> QED
  BY <1>1, <1>3 DEF Simulates, AllPlanned

\* The abstract name of an answer.
OutcomeOf(what) == CASE what \in {"ok", "conflict"} -> what
                     [] what \in Refusals -> "refused"
                     [] OTHER -> "unknown"

\* Whether an answer to a call x is true of the journal.
TrueNow(what, x) ==
  /\ what = "ok" => Stands(x, journal)
  /\ what = "conflict" => \E n \in Booked(x.req.key) : Fingerprint(journal[n]) # Fingerprint(x.req)
  /\ what \in Refusals => Booked(x.req.key) = {}

LEMMA AbstractBook ==
  /\ DOMAIN Ledger = DOMAIN journal
  /\ \A key : Atomic!BookedAs(key) = Booked(key)
  /\ \A n \in DOMAIN journal : Atomic!Fingerprint(Ledger[n]) = Fingerprint(journal[n])
<1>1. DOMAIN Ledger = DOMAIN journal
  BY DEF Ledger
<1>2. \A key : Atomic!BookedAs(key) = Booked(key)
  BY DEF Atomic!BookedAs, Booked
<1>3. \A n \in DOMAIN journal : Fingerprint(Ledger[n]) = Fingerprint(journal[n])
  <2> SUFFICES ASSUME NEW n \in DOMAIN journal
               PROVE  Fingerprint(Ledger[n]) = Fingerprint(journal[n])
    OBVIOUS
  <2>1. Ledger[n].entries = journal[n].entries /\ Ledger[n].reason = journal[n].reason
    BY DEF Ledger
  <2> QED
    BY <2>1 DEF Fingerprint
<1> QED
  BY <1>1, <1>2, <1>3, SamePrint

LEMMA TruthIsAbstract ==
  ASSUME NEW x, NEW what, TrueNow(what, x)
  PROVE  Atomic!TrueOf(OutcomeOf(what), x.req)
<1>1. CASE what = "ok"
  <2>1. PICK n \in DOMAIN journal :
          /\ journal[n].key = x.req.key
          /\ ConflictMode = "refuse" => Fingerprint(journal[n]) = Fingerprint(x.req)
    BY <1>1 DEF TrueNow, Stands
  <2>2. n \in Booked(x.req.key)
    BY <2>1 DEF Booked
  <2>3. ConflictMode = "refuse" => Atomic!Fingerprint(Ledger[n]) = Atomic!Fingerprint(x.req)
    BY <2>1, AbstractBook, SamePrint
  <2>4. OutcomeOf(what) = "ok"
    BY <1>1 DEF OutcomeOf, Refusals
  <2>5. n \in Atomic!BookedAs(x.req.key)
    BY <2>2, AbstractBook
  <2> QED
    BY <2>3, <2>4, <2>5 DEF Atomic!TrueOf, Ledger
<1>2. CASE what = "conflict"
  <2>1. PICK n \in Booked(x.req.key) : Fingerprint(journal[n]) # Fingerprint(x.req)
    BY <1>2 DEF TrueNow
  <2>2. n \in Atomic!BookedAs(x.req.key) /\ n \in DOMAIN journal
    BY <2>1, AbstractBook DEF Booked
  <2>3. Atomic!Fingerprint(Ledger[n]) # Atomic!Fingerprint(x.req)
    BY <2>1, <2>2, AbstractBook, SamePrint
  <2>4. OutcomeOf(what) = "conflict"
    BY <1>2 DEF OutcomeOf, Refusals
  <2> QED
    BY <2>2, <2>3, <2>4 DEF Atomic!TrueOf, Ledger
<1>3. CASE what \in Refusals
  <2>1. OutcomeOf(what) = "refused" /\ Atomic!BookedAs(x.req.key) = {}
    BY <1>3, AbstractBook DEF OutcomeOf, TrueNow, Refusals
  <2> QED
    BY <2>1 DEF Atomic!TrueOf
<1>4. CASE what \notin Refusals \cup {"ok", "conflict"}
  BY <1>4 DEF OutcomeOf, Atomic!TrueOf
<1> QED
  BY <1>1, <1>2, <1>3, <1>4

\* A call ends and its caller is told the truth: the abstract ledger tells it.
LEMMA AnswerTells ==
  ASSUME IInv, AllPlanned, NEW c \in Calls, call[c].pc \in Running, UNCHANGED ledgerVars,
         NEW what, what \in Answers, Answer(c, what), TrueNow(what, call[c])
  PROVE  AllPlanned' /\ Simulates
<1>1. /\ call \in [Calls -> CallRec] /\ call[c] \in CallRec /\ call[c].req \in Requests
      /\ call[c].pc # "done"
  BY DEF IInv, TypeOK, CallRec, AllSound, SoundIn, Running, InTx
<1> DEFINE x == [Quiet EXCEPT !.pc = "done", !.req = call[c].req,
                              !.tx = call[c].tx, !.answer = what]
<1>2. x.pc = "done" /\ x.req = call[c].req /\ x.answer = what
  BY <1>1, EndOf
<1>3. call' = [call EXCEPT ![c] = x]
  BY DEF Answer
<1> HIDE DEF x
<1>4. call'[c] = x /\ Only(c)
  BY <1>1, <1>3 DEF Only
<1>5. AllPlanned'
  <2>1. Planned(call'[c], balance)
    BY <1>2, <1>4, NoPlan DEF InTx
  <2> QED
    BY <1>4, <2>1, PlanKept DEF ledgerVars
<1>6. UNCHANGED <<journal, balance>>
  BY DEF ledgerVars
<1>7. Told(c) = Atomic!Unheard /\ Told(c)' = [outcome |-> OutcomeOf(what), req |-> call[c].req]
  BY <1>1, <1>2, <1>4 DEF Told, Atomic!Unheard, OutcomeOf
<1>8. \A e \in Calls : e # c => Told(e)' = Told(e)
  BY <1>4 DEF Told, Only
<1> HIDE DEF Told
<1>9. Replies' = [Replies EXCEPT ![c] = [outcome |-> OutcomeOf(what), req |-> call[c].req]]
  BY <1>7, <1>8 DEF Replies
<1>10. Atomic!TrueOf(OutcomeOf(what), call[c].req)
  BY TruthIsAbstract
<1>11. UNCHANGED <<Ledger, balance>>
  BY <1>6 DEF Ledger
<1>12. OutcomeOf(what) \in Atomic!Outcomes
  BY DEF OutcomeOf, Atomic!Outcomes
<1> HIDE DEF OutcomeOf
<1>13. Atomic!Tell(c, call[c].req, OutcomeOf(what))
  BY <1>7, <1>9, <1>10, <1>11 DEF Atomic!Tell, Replies, Ledger
<1>14. Atomic!AtomicNext
  BY <1>1, <1>12, <1>13 DEF Atomic!AtomicNext
<1> QED
  BY <1>5, <1>14 DEF Simulates

\* A call goes to another place of its transaction, short of applying its entries.
LEMMA GoesOn ==
  ASSUME IInv, AllPlanned, NEW c \in Calls, Only(c), UNCHANGED ledgerVars,
         call[c].pc \in Running,
         \/ call'[c].pc \in {"fast", "outbox", "send", "mark"}
         \/ /\ call'[c].pc \in {"lock", "recheck", "gate", "load"}
            /\ call'[c].req = call[c].req
            /\ call[c].pc \in InTx \cup {"lock"}
  PROVE  AllPlanned' /\ Simulates
<1>1. Planned(call'[c], balance)
  BY DEF Planned, AllPlanned, InTx
<1> QED
  BY <1>1, MovesOn DEF Running, InTx

LEMMA GotoMoves ==
  ASSUME IInv, NEW c \in Calls, NEW p, Goto(c, p)
  PROVE  Only(c) /\ call'[c].pc = p /\ call'[c].req = call[c].req
<1>1. call \in [Calls -> CallRec]
  BY DEF IInv, TypeOK, CallRec
<1> QED
  BY <1>1 DEF Goto, Only, CallRec

LEMMA ReplaySimulates ==
  ASSUME IInv, AllPlanned, NEW c \in Calls, call[c].pc \in Running, UNCHANGED ledgerVars,
         NEW n \in Booked(call[c].req.key), ReplayOf(c, n)
  PROVE  AllPlanned' /\ Simulates
<1>1. CASE Answer(c, "conflict") /\ Fingerprint(journal[n]) # Fingerprint(call[c].req)
  <2>1. TrueNow("conflict", call[c])
    BY <1>1 DEF TrueNow, Refusals
  <2> QED
    BY <1>1, <2>1, AnswerTells DEF Answers
<1>2. CASE call' = [call EXCEPT ![c].pc = "outbox", ![c].tx = journal[n].id]
  <2>1. call \in [Calls -> CallRec]
    BY DEF IInv, TypeOK, CallRec
  <2>2. Only(c) /\ call'[c].pc = "outbox"
    BY <1>2, <2>1 DEF Only, CallRec
  <2> QED
    BY <2>2, GoesOn
<1> QED
  BY <1>1, <1>2 DEF ReplayOf

\* A failure is told the caller as no more than that.
LEMMA FailureTells ==
  ASSUME IInv, AllPlanned, NEW c \in Calls, call[c].pc \in Running, UNCHANGED ledgerVars,
         NEW what, what \in {"backstop", "db_error", "bus_error", "lost"}, Answer(c, what)
  PROVE  AllPlanned' /\ Simulates
<1>1. TrueNow(what, call[c]) /\ what \in Answers
  BY DEF TrueNow, Refusals, Answers
<1> QED
  BY <1>1, AnswerTells

LEMMA RefusalTells ==
  ASSUME IInv, AllPlanned, NEW c \in Calls, call[c].pc \in Running, UNCHANGED ledgerVars,
         NEW what, what \in Refusals, Answer(c, what), Booked(call[c].req.key) = {}
  PROVE  AllPlanned' /\ Simulates
<1>1. TrueNow(what, call[c]) /\ what \in Answers
  BY DEF TrueNow, Refusals, Answers
<1> QED
  BY <1>1, AnswerTells

\* Past the second lookup, under the lock, a call's key has not booked.
LEMMA UnderLock ==
  ASSUME IInv, NEW c \in Calls, call[c].pc \in {"gate", "load", "apply"}
  PROVE  Booked(call[c].req.key) = {} /\ call[c].pc \in Running
  BY DEF IInv, AllSound, SoundIn, Booked, Running, InTx

LEMMA ApplySimulates ==
  ASSUME IInv, AllPlanned, NEW c \in Calls, ApplyEntry(c)
  PROVE  AllPlanned' /\ Simulates
<1>1. UNCHANGED ledgerVars /\ call[c].pc = "apply"
  BY DEF ApplyEntry
<1>2. CASE Answer(c, "insufficient")
  BY <1>1, <1>2, UnderLock, RefusalTells DEF Refusals
<1>3. CASE /\ ~Overdraws(c)
           /\ call' = [call EXCEPT ![c].at = @ + 1,
                                   ![c].work[AccountKey(Entry(c).account)] = NextBalance(c)]
  <2> DEFINE y == call[c]
             es == y.req.entries
             key == AccountKey(Entry(c).account)
             w == [y.work EXCEPT ![key] = NextBalance(c)]
             x == [y EXCEPT !.at = y.at + 1, !.work = w]
  <2>1. /\ call \in [Calls -> CallRec] /\ y \in CallRec /\ y.req \in Requests
        /\ Planned(y, balance) /\ balance \in [Accounts -> Int]
    BY <1>1 DEF IInv, TypeOK, CallRec, AllSound, SoundIn, Running, InTx, AllPlanned
  <2>2. /\ es \in Seq(EntryInput) /\ y.at \in 0 .. Len(es) /\ y.at < Len(es)
        /\ y.at + 1 \in DOMAIN es /\ Entry(c) = es[y.at + 1]
    <3>1. es \in Seq(EntryInput)
      BY <2>1, EngineConstants
    <3>2. y.at \in Nat /\ y.at < Len(es)
      BY <2>1 DEF CallRec, ApplyEntry
    <3> QED
      BY <3>1, <3>2 DEF Entry
  <2>3. key \in Accounts
    BY <2>1, <2>2, EngineConstants
  <2>4. /\ y.work = After(balance, es, y.at) /\ FitsTo(balance, es, y.at)
        /\ AssertValidPost(es)
    BY <1>1, <2>1 DEF Planned, InTx
  <2>5. /\ call' = [call EXCEPT ![c] = x]
    BY <1>3, <2>1
  <2>6. NextBalance(c) = y.work[key] + SignedDelta(Entry(c))
    BY DEF NextBalance
  <2>7. After(balance, es, y.at) \in [Accounts -> Int]
        /\ After(balance, es, y.at + 1) \in [Accounts -> Int]
    <3>1. y.at + 1 \in 0 .. Len(es)
      BY <2>2
    <3> QED
      BY <2>1, <2>2, <3>1, AfterTyped
  <2>8. \A k \in Accounts : After(balance, es, y.at + 1)[k] =
          IF k = key THEN NextBalance(c) ELSE y.work[k]
    <3>1. \A k \in Accounts : After(balance, es, y.at + 1)[k] =
            IF k = AccountKey(es[y.at + 1].account)
              THEN After(balance, es, y.at)[k] + SignedDelta(es[y.at + 1])
              ELSE After(balance, es, y.at)[k]
      BY <2>1, <2>2, AfterNext
    <3> QED
      BY <2>2, <2>4, <2>6, <3>1
  <2>9. w = After(balance, es, y.at + 1)
    <3> HIDE DEF es, key
    <3>1. w = [k \in Accounts |-> IF k = key THEN NextBalance(c) ELSE y.work[k]]
      BY <2>4, <2>7
    <3> QED
      BY <2>7, <2>8, <3>1
  <2>10. FitsTo(balance, es, y.at + 1)
    <3>1. es[y.at + 1].account.ownerType = "treasury"
          \/ After(balance, es, y.at + 1)[key] >= 0
      <4> DEFINE v == After(balance, es, y.at + 1)
      <4>0. v \in [Accounts -> Int] /\ \A k \in Accounts : k = key => v[k] = NextBalance(c)
        BY <2>7, <2>8
      <4> HIDE DEF v
      <4>1. NextBalance(c) = v[key] /\ NextBalance(c) \in Int
        <5> HIDE DEF key
        <5> QED
          BY <2>3, <4>0
      <4>2. ~(NextBalance(c) < 0) \/ es[y.at + 1].account.ownerType = "treasury"
        BY <1>3, <2>2 DEF Overdraws
      <4>3. v[key] >= 0 \/ es[y.at + 1].account.ownerType = "treasury"
        <5> HIDE DEF key, es
        <5> QED
          BY <4>1, <4>2
      <4> QED
        BY <4>3 DEF v
    <3>2. \A m \in 1 .. (y.at + 1) : m \in 1 .. y.at \/ m = y.at + 1
      BY <2>2
    <3> QED
      BY <2>2, <2>4, <3>1, <3>2 DEF FitsTo
  <2>11. /\ x.pc = y.pc /\ x.req = y.req /\ x.at = y.at + 1 /\ x.work = w
    BY <2>1 DEF CallRec
  <2> HIDE DEF x
  <2>12. Only(c) /\ call'[c] = x
    BY <2>1, <2>5 DEF Only
  <2>13. Planned(x, balance)
    BY <1>1, <2>4, <2>9, <2>10, <2>11 DEF Planned
  <2>14. call[c].pc # "done" /\ call'[c].pc # "done"
    BY <1>1, <2>11, <2>12
  <2> QED
    BY <1>1, <2>12, <2>13, <2>14, MovesOn
<1> QED
  BY <1>2, <1>3 DEF ApplyEntry

LEMMA AppendIs ==
  ASSUME NEW R, NEW s \in Seq(R), NEW e \in R
  PROVE  Append(s, e) = [n \in 1 .. (Len(s) + 1) |-> IF n <= Len(s) THEN s[n] ELSE e]
<1>1. /\ Append(s, e) \in Seq(R) /\ Len(Append(s, e)) = Len(s) + 1 /\ Len(s) \in Nat
      /\ \A n \in 1 .. Len(s) : Append(s, e)[n] = s[n]
      /\ Append(s, e)[Len(s) + 1] = e
  OBVIOUS
<1>2. Append(s, e) = [n \in 1 .. (Len(s) + 1) |-> Append(s, e)[n]]
  <2>1. \A q \in Seq(R) : q = [n \in 1 .. Len(q) |-> q[n]]
    OBVIOUS
  <2> QED
    BY <1>1, <2>1
<1> DEFINE t == Append(s, e)
<1> HIDE DEF t
<1>3. \A n \in 1 .. (Len(s) + 1) : t[n] = IF n <= Len(s) THEN s[n] ELSE e
  <2>1. \A n \in 1 .. (Len(s) + 1) : n \in 1 .. Len(s) \/ (n = Len(s) + 1 /\ ~(n <= Len(s)))
    BY <1>1
  <2> QED
    BY <1>1, <2>1 DEF t
<1>4. t = [n \in 1 .. (Len(s) + 1) |-> t[n]]
  BY <1>2 DEF t
<1>5. t = [n \in 1 .. (Len(s) + 1) |-> IF n <= Len(s) THEN s[n] ELSE e]
  BY <1>3, <1>4
<1> QED
  BY <1>5 DEF t

\* Appending a transaction to the journal books its request.
LEMMA LedgerGrows ==
  ASSUME IInv, NEW r \in Requests, NEW prev \in Nat, NEW id \in Ids,
         journal' = Append(journal, [id |-> id, key |-> r.key, reason |-> r.reason,
                                     entries |-> r.entries, prev |-> prev])
  PROVE  Ledger' = Append(Ledger, r)
<1> DEFINE row == [id |-> id, key |-> r.key, reason |-> r.reason, entries |-> r.entries,
                   prev |-> prev]
           Moves(t) == [key |-> t.key, reason |-> t.reason, entries |-> t.entries]
           R == [key : Keys, reason : Reasons, entries : Seq(EntryInput)]
<1>1. journal \in Seq(TxRec) /\ Len(journal) \in Nat /\ DOMAIN journal = 1 .. Len(journal)
  BY DEF IInv, TypeOK, TxRec
<1>2. row \in TxRec /\ r \in [key : Keys, reason : Reasons, entries : Seq(EntryInput)]
  BY EngineConstants DEF TxRec
<1>3. Moves(row) = r
  BY <1>2
<1>4. row.key = r.key /\ row.reason = r.reason /\ row.entries = r.entries
  OBVIOUS
<1> HIDE DEF row
<1>5. /\ DOMAIN journal' = 1 .. (Len(journal) + 1)
      /\ \A n \in 1 .. Len(journal) : journal'[n] = journal[n]
      /\ journal'[Len(journal) + 1] = row
  <2>1. journal' = Append(journal, row)
    BY DEF row
  <2> QED
    BY <1>1, <1>2, <2>1
<1>6. Ledger = [n \in 1 .. Len(journal) |-> Moves(journal[n])]
  BY <1>1 DEF Ledger
<1>7. Ledger' = [n \in 1 .. (Len(journal) + 1) |-> Moves(journal'[n])]
  BY <1>5 DEF Ledger
<1>8. Ledger \in Seq(R) /\ Len(Ledger) = Len(journal)
  <2>1. \A n \in 1 .. Len(journal) : Moves(journal[n]) \in R
    <3> SUFFICES ASSUME NEW n \in 1 .. Len(journal) PROVE Moves(journal[n]) \in R
      OBVIOUS
    <3>1. journal[n] \in TxRec
      BY <1>1
    <3> QED
      BY <3>1 DEF TxRec
  <2> HIDE DEF Moves, R
  <2> QED
    BY <1>1, <1>6, <2>1
<1>9. Append(Ledger, r) = [n \in 1 .. (Len(journal) + 1) |->
                             IF n <= Len(journal) THEN Ledger[n] ELSE r]
  <2>1. r \in R
    BY <1>2
  <2> HIDE DEF R
  <2> QED
    BY <1>1, <1>8, <2>1, AppendIs
<1> HIDE DEF Moves
<1>10. \A n \in 1 .. (Len(journal) + 1) :
         Moves(journal'[n]) = IF n <= Len(journal) THEN Ledger[n] ELSE r
  <2> SUFFICES ASSUME NEW n \in 1 .. (Len(journal) + 1)
               PROVE  Moves(journal'[n]) = IF n <= Len(journal) THEN Ledger[n] ELSE r
    OBVIOUS
  <2>1. CASE n \in 1 .. Len(journal)
    BY <1>1, <1>5, <1>6, <2>1
  <2>2. CASE n = Len(journal) + 1
    <3>1. Moves(row) = r
      BY <1>3
    <3> QED
      BY <1>1, <1>5, <2>2, <3>1
  <2> QED
    BY <1>1, <2>1, <2>2
<1> QED
  BY <1>7, <1>9, <1>10

\* Written back to the accounts a post touches, its working balances are the whole
\* of the book after it.
LEMMA WholeBalance ==
  ASSUME balance \in [Accounts -> Int], NEW r, r.entries \in Seq(EntryInput), NEW work,
         work = After(balance, r.entries, Len(r.entries)),
         balance' = [k \in Accounts |-> IF k \in Touched(r) THEN work[k] ELSE balance[k]]
  PROVE  balance' = After(balance, r.entries, Len(r.entries))
<1>1. After(balance, r.entries, Len(r.entries)) \in [Accounts -> Int]
  <2>1. Len(r.entries) \in 0 .. Len(r.entries)
    OBVIOUS
  <2> QED
    BY <2>1, AfterTyped
<1>2. \A k \in Accounts : k \notin Touched(r) =>
        After(balance, r.entries, Len(r.entries))[k] = balance[k]
  <2> SUFFICES ASSUME NEW k \in Accounts, k \notin Touched(r)
               PROVE  After(balance, r.entries, Len(r.entries))[k] = balance[k]
    OBVIOUS
  <2>1. \A i \in 1 .. Len(r.entries) : AccountKey(r.entries[i].account) # k
    BY DEF Touched
  <2> QED
    BY <2>1, AfterUntouched
<1> QED
  BY <1>1, <1>2

\* The write of a transaction is the booking of its request, whole.
LEMMA CommitSimulates ==
  ASSUME IInv, AllPlanned, NEW c \in Calls, Commit(c)
  PROVE  AllPlanned' /\ Simulates
<1> DEFINE y == call[c]
           r == call[c].req
           x == [Quiet EXCEPT !.pc = "outbox", !.req = r, !.tx = NewId]
<1>1. /\ y.pc = "apply" /\ y.at = Len(r.entries) /\ y \in CallRec /\ call \in [Calls -> CallRec]
      /\ Planned(y, balance) /\ balance \in [Accounts -> Int] /\ y.prev \in Nat
  BY DEF Commit, IInv, TypeOK, CallRec, AllPlanned
<1>2. y.pc \in Running /\ Booked(r.key) = {} /\ r \in Requests
  <2>1. y.pc \in Running /\ Booked(r.key) = {}
    BY <1>1, UnderLock
  <2> QED
    BY <2>1 DEF IInv, AllSound, SoundIn
<1>3. \A e \in Calls \ {c} : call[e].pc \notin InTx
  BY <1>1 DEF IInv, LockHeld, InTx
<1>4. CASE Answer(c, "backstop") /\ UNCHANGED ledgerVars
  BY <1>2, <1>4, FailureTells
<1>5. CASE Write(c)
  <2>1. /\ journal' = Append(journal, [id |-> NewId, key |-> r.key, reason |-> r.reason,
                                       entries |-> r.entries, prev |-> y.prev])
        /\ balance' = [k \in Accounts |-> IF k \in Touched(r) THEN y.work[k] ELSE balance[k]]
        /\ call' = [call EXCEPT ![c] = x]
    BY <1>5 DEF Write
  <2>2. x.pc = "outbox"
    BY DEF Quiet
  <2> HIDE DEF x
  <2>3. Only(c) /\ call'[c].pc = "outbox"
    BY <1>1, <2>1, <2>2 DEF Only
  <2>4. AllPlanned'
    <3>1. \A e \in Calls : e # c => Planned(call[e], balance')
      BY <1>3 DEF AllPlanned, Planned, InTx
    <3>2. Planned(call'[c], balance')
      BY <2>3, NoPlan DEF InTx
    <3> QED
      BY <2>3, <3>1, <3>2 DEF AllPlanned, Only
  <2>5. /\ AssertValidPost(r.entries) /\ y.work = After(balance, r.entries, Len(r.entries))
        /\ FitsTo(balance, r.entries, Len(r.entries))
        /\ r.entries \in Seq(EntryInput)
    BY <1>1, <1>2, EngineConstants DEF Planned, InTx
  <2>6. Fits(balance, r.entries)
    BY <2>5 DEF Fits, FitsTo
  <2>7. balance' = After(balance, r.entries, Len(r.entries))
    BY <1>1, <2>1, <2>5, WholeBalance
  <2>8. Ledger' = Append(Ledger, r)
    <3>1. NewId \in Ids
      BY DEF NewId, Ids, NoTx, IInv, TypeOK
    <3> QED
      BY <1>1, <1>2, <2>1, <3>1, LedgerGrows
  <2>9. Replies' = Replies
    <3>1. \A e \in Calls : Told(e)' = Told(e)
      BY <1>1, <2>3 DEF Told, Only
    <3> HIDE DEF Told
    <3> QED
      BY <3>1 DEF Replies
  <2>10. Atomic!BookedAs(r.key) = {}
    BY <1>2, AbstractBook
  <2>11. PICK q \in Requests : q = r
    BY <1>2
  <2>12. Atomic!Book(q)
    BY <2>5, <2>6, <2>7, <2>8, <2>9, <2>10, <2>11, SameValid, SameFits, SameAfter
    DEF Atomic!Book, Ledger, Replies
  <2>13. Atomic!AtomicNext
    BY <2>12 DEF Atomic!AtomicNext
  <2> QED
    BY <2>4, <2>13 DEF Simulates
<1> QED
  BY <1>4, <1>5 DEF Commit

LEMMA NextSimulates ==
  ASSUME IInv, AllPlanned, [Next]_vars
  PROVE  AllPlanned' /\ Simulates
<1>0. /\ call \in [Calls -> CallRec]
      /\ \A c \in Calls : call[c].pc \in Running => call[c].req \in Requests
  BY DEF IInv, TypeOK, CallRec, AllSound, SoundIn
<1>1. ASSUME NEW c \in Calls, NEW r \in Requests, Begin(c, r) PROVE AllPlanned' /\ Simulates
  <2>1. Only(c) /\ call'[c].pc = "fast" /\ call[c].pc = "idle" /\ UNCHANGED ledgerVars
    BY <1>0, <1>1 DEF Begin, Only, CallRec
  <2>2. Planned(call'[c], balance)
    BY <2>1, NoPlan DEF InTx
  <2> QED
    BY <2>1, <2>2, MovesOn
<1>2. ASSUME NEW c \in Calls, Step(c) PROVE AllPlanned' /\ Simulates
  <2>1. CASE FastPath(c)
    <3>0. call[c].pc \in Running /\ UNCHANGED ledgerVars
      BY <2>1 DEF FastPath, Running
    <3>1. ASSUME NEW n \in Booked(call[c].req.key), ReplayOf(c, n) PROVE AllPlanned' /\ Simulates
      BY <3>0, <3>1, ReplaySimulates
    <3>2. CASE Booked(call[c].req.key) = {} /\ Answer(c, "invalid")
      BY <3>0, <3>2, RefusalTells DEF Refusals
    <3>3. CASE /\ AssertValidPost(call[c].req.entries)
               /\ call' = [call EXCEPT ![c].pc = "lock", ![c].attempt = 1]
      <4>1. Only(c) /\ call'[c].pc = "lock" /\ call'[c].req = call[c].req
        BY <1>0, <3>3 DEF Only, CallRec
      <4>2. Planned(call'[c], balance)
        BY <3>3, <4>1 DEF Planned
      <4> QED
        BY <2>1, <3>0, <4>1, <4>2, MovesOn DEF FastPath
    <3> QED
      BY <2>1, <3>1, <3>2, <3>3 DEF FastPath
  <2>2. CASE TakeLock(c)
    <3>1. Only(c) /\ call'[c].pc = "recheck" /\ call'[c].req = call[c].req
      BY <1>0, <2>2 DEF TakeLock, Only, CallRec
    <3> QED
      BY <2>2, <3>1, GoesOn DEF TakeLock, Running
  <2>3. CASE Recheck(c)
    <3>0. call[c].pc \in InTx /\ call[c].pc \in Running /\ UNCHANGED ledgerVars
      BY <2>3 DEF Recheck, InTx, Running
    <3>1. ASSUME NEW n \in Booked(call[c].req.key), ReplayOf(c, n) PROVE AllPlanned' /\ Simulates
      BY <3>0, <3>1, ReplaySimulates
    <3>2. CASE Goto(c, "gate")
      BY <3>0, <3>2, GotoMoves, GoesOn
    <3> QED
      BY <2>3, <3>1, <3>2 DEF Recheck
  <2>4. CASE RefuseClockSkew(c)
    BY <2>4, UnderLock, RefusalTells DEF RefuseClockSkew, Refusals
  <2>5. CASE ReadFreeze(c)
    <3>0. /\ call[c].pc \in InTx /\ call[c].pc \in Running /\ UNCHANGED ledgerVars
          /\ Booked(call[c].req.key) = {}
      BY <2>5, UnderLock DEF ReadFreeze, InTx
    <3>1. CASE Answer(c, "frozen")
      BY <3>0, <3>1, RefusalTells DEF Refusals
    <3>2. CASE Goto(c, "load")
      BY <3>0, <3>2, GotoMoves, GoesOn
    <3> QED
      BY <2>5, <3>1, <3>2 DEF ReadFreeze
  <2>6. CASE LoadAccounts(c)
    <3>1. call[c].pc = "load" /\ UNCHANGED ledgerVars
      BY <2>6 DEF LoadAccounts
    <3>2. balance \in [Accounts -> Int] /\ Planned(call[c], balance)
      BY DEF IInv, TypeOK, AllPlanned
    <3>3. /\ Only(c) /\ call'[c].pc = "apply" /\ call'[c].req = call[c].req
          /\ call'[c].work = balance /\ call'[c].at = 0
      BY <1>0, <2>6 DEF LoadAccounts, Only, CallRec
    <3>4. /\ After(balance, call[c].req.entries, 0) = balance
          /\ FitsTo(balance, call[c].req.entries, 0)
      BY <3>2, AfterNone DEF FitsTo
    <3>5. Planned(call'[c], balance)
      BY <3>1, <3>2, <3>3, <3>4 DEF Planned, InTx
    <3> QED
      BY <3>1, <3>3, <3>5, MovesOn
  <2>7. CASE ApplyEntry(c)
    BY <2>7, ApplySimulates
  <2>8. CASE Commit(c)
    BY <2>8, CommitSimulates
  <2>9. CASE ReadOutbox(c)
    <3>0. call[c].pc \in Running /\ UNCHANGED ledgerVars
      BY <2>9 DEF ReadOutbox, Running
    <3>1. CASE Goto(c, "send")
      BY <3>0, <3>1, GotoMoves, GoesOn
    <3>2. CASE Answer(c, "ok")
      <4>1. TrueNow("ok", call[c])
        BY <2>9 DEF ReadOutbox, TrueNow, Refusals, IInv, AllSound, SoundIn
      <4> QED
        BY <3>0, <3>2, <4>1, AnswerTells DEF Answers
    <3> QED
      BY <2>9, <3>1, <3>2 DEF ReadOutbox
  <2>10. CASE Send(c)
    BY <2>10, GotoMoves, GoesOn DEF Send, Running
  <2>11. CASE MarkSent(c)
    <3>1. TrueNow("ok", call[c])
      BY <2>11 DEF MarkSent, TrueNow, Refusals, IInv, AllSound, SoundIn
    <3> QED
      BY <2>11, <3>1, AnswerTells DEF MarkSent, Answers, Running
  <2> QED
    BY <1>2, <2>1, <2>2, <2>3, <2>4, <2>5, <2>6, <2>7, <2>8, <2>9, <2>10, <2>11 DEF Step
<1>3. ASSUME NEW c \in Calls, Failure(c) PROVE AllPlanned' /\ Simulates
  <2>1. CASE Abort(c)
    <3>0. call[c].pc \in InTx \cup {"lock"} /\ call[c].pc \in Running /\ UNCHANGED ledgerVars
      BY <2>1 DEF Abort, InTx, Running
    <3>1. CASE Answer(c, "db_error")
      BY <3>0, <3>1, FailureTells
    <3>2. CASE call' = [call EXCEPT ![c] = [Quiet EXCEPT !.pc = "lock", !.req = call[c].req,
                                                          !.attempt = call[c].attempt + 1]]
      <4>1. Only(c) /\ call'[c].pc = "lock" /\ call'[c].req = call[c].req
        BY <1>0, <3>2 DEF Only, Quiet
      <4> QED
        BY <3>0, <4>1, GoesOn
    <3> QED
      BY <2>1, <3>1, <3>2 DEF Abort
  <2>2. CASE SendFails(c)
    BY <2>2, FailureTells DEF SendFails, Running
  <2>3. CASE Crash(c)
    BY <2>3, FailureTells DEF Crash
  <2> QED
    BY <1>3, <2>1, <2>2, <2>3 DEF Failure
<1>4. ASSUME NEW d \in Relays, RelayStep(d) \/ RelayFails(d) PROVE AllPlanned' /\ Simulates
  BY <1>4, NothingMoves DEF RelayStep, RelayRead, RelaySend, RelayMark, RelayFails
<1>5. CASE WriteFreeze
  BY <1>5, NothingMoves DEF WriteFreeze
<1>6. CASE UNCHANGED vars
  BY <1>6, NothingMoves DEF vars, ledgerVars
<1> QED
  BY <1>1, <1>2, <1>3, <1>4, <1>5, <1>6 DEF Next

LEMMA InitSimulates == Init => AllPlanned /\ Atomic!AtomicInit
<1> SUFFICES ASSUME Init PROVE AllPlanned /\ Atomic!AtomicInit
  OBVIOUS
<1>1. \A c \in Calls : call[c].pc = "idle"
  BY DEF Init, Quiet
<1>2. AllPlanned
  BY <1>1, NoPlan DEF AllPlanned, InTx
<1>3. Replies = [c \in Calls |-> Atomic!Unheard]
  BY <1>1 DEF Replies, Told, Atomic!Unheard
<1>4. Ledger = <<>>
  BY DEF Init, Ledger
<1> QED
  BY <1>2, <1>3, <1>4 DEF Init, Atomic!AtomicInit, Ledger, Replies

\* The engine is the atomic ledger: posts take effect one at a time, each whole or
\* not at all and each key once, and whatever a caller is told is true of the book
\* when it is decided, however calls interleave, abort, retry and crash.
THEOREM EngineIsAtomic == Spec => AtomicSpec
<1>1. Init => AllPlanned /\ Atomic!AtomicInit
  BY InitSimulates
<1>2. IInv /\ AllPlanned /\ [Next]_vars
        => AllPlanned' /\ [Atomic!AtomicNext]_<<Ledger, balance, Replies>>
  BY NextSimulates DEF Simulates
<1>3. AtomicSpec <=> Atomic!AtomicInit /\ [][Atomic!AtomicNext]_<<Ledger, balance, Replies>>
  BY DEF AtomicSpec, Atomic!AtomicSpec, Ledger, Replies
<1> QED
  BY <1>1, <1>2, <1>3, Invariance, PTL DEF Spec

-----------------------------------------------------------------------------
(* The book proves.  A commit adds what its entries move to the balances    *)
(* and to the journal alike, and what they move of an asset adds up to      *)
(* nothing (AfterConserves); no other step touches either.                  *)

\* The entries up to the nth that are in an asset.
InAsset(entries, n, asset) == {i \in 1 .. n : entries[i].account.asset = asset}

\* A post books r: its entries balance, and the balances become those after it.
Books(r) ==
  /\ AssertValidPost(r.entries)
  /\ balance' = After(balance, r.entries, Len(r.entries))
  /\ \E prev \in Nat, id \in Ids :
       journal' = Append(journal, [id |-> id, key |-> r.key, reason |-> r.reason,
                                   entries |-> r.entries, prev |-> prev])

LEMMA AssetBefore ==
  ASSUME NEW entries \in Seq(EntryInput), NEW n \in 0 .. Len(entries), NEW asset
  PROVE  /\ IsFiniteSet(InAsset(entries, n, asset))
         /\ \A i \in InAsset(entries, n, asset) : SignedDelta(entries[i]) \in Int
<1>1. IsFiniteSet(1 .. n)
  BY FS_Interval
<1>2. IsFiniteSet(InAsset(entries, n, asset))
  BY <1>1, FS_Subset DEF InAsset
<1>3. \A i \in 1 .. n : entries[i] \in EntryInput
  OBVIOUS
<1>4. \A i \in 1 .. n : SignedDelta(entries[i]) \in Int
  BY <1>3 DEF EntryInput, SignedDelta
<1> QED
  BY <1>2, <1>4 DEF InAsset

\* After n entries there is more of an asset by what those of them in it move.
LEMMA AfterAddsUp ==
  ASSUME IsFiniteSet(Accounts), NEW b \in [Accounts -> Int], NEW entries \in Seq(EntryInput),
         \A i \in DOMAIN entries : AccountKey(entries[i].account) \in Accounts,
         NEW asset, NEW n \in 0 .. Len(entries)
  PROVE  Total(After(b, entries, n), Pots(asset))
           = Total(b, Pots(asset)) + SumOver(SignedDelta, entries, InAsset(entries, n, asset))
<1> DEFINE pots == Pots(asset)
           J(m) == InAsset(entries, m, asset)
           A(m) == After(b, entries, m)
           Q(m) == SumOver(SignedDelta, entries, J(m))
           P(m) == Total(A(m), pots) = Total(b, pots) + Q(m)
           T == {m \in Nat : m <= Len(entries) => P(m)}
<1>0. \A k : k \in pots <=> k \in Accounts /\ k.asset = asset
  BY DEF Pots
<1>1. IsFiniteSet(pots) /\ \A k \in pots : k \in Accounts /\ b[k] \in Int
  <2>1. pots \subseteq Accounts
    BY <1>0
  <2> QED
    BY <2>1, FS_Subset
<1> HIDE DEF pots
<1>2. Total(b, pots) \in Int
  BY <1>1, TotalIsInt
<1>3. 0 \in T
  <2>1. J(0) = {}
    BY DEF InAsset
  <2>2. Q(0) = 0
    BY <2>1, SumOfNone
  <2> HIDE DEF Q
  <2>3. A(0) = b
    BY AfterNone
  <2> QED
    BY <1>2, <2>2, <2>3
<1>4. ASSUME NEW m \in Nat, m \in T
      PROVE  m + 1 \in T
  <2> SUFFICES ASSUME m + 1 <= Len(entries) PROVE P(m + 1)
    OBVIOUS
  <2>0. Total(A(m), pots) = Total(b, pots) + Q(m)
    BY <1>4
  <2>1. m \in 0 .. Len(entries) /\ m < Len(entries) /\ m + 1 \in DOMAIN entries
    BY <1>4
  <2> DEFINE e == entries[m + 1]
             key == AccountKey(e.account)
  <2>2. e \in EntryInput /\ key \in Accounts
    BY <2>1
  <2>3. key.asset = e.account.asset /\ SignedDelta(e) \in Int
    BY <2>2 DEF AccountKey, EntryInput, AccountRef, SignedDelta
  <2>4. \A k \in Accounts : A(m + 1)[k] = IF k = key THEN A(m)[k] + SignedDelta(e) ELSE A(m)[k]
    <3>1. \A k \in Accounts :
            After(b, entries, m + 1)[k] =
              IF k = AccountKey(entries[m + 1].account)
                THEN After(b, entries, m)[k] + SignedDelta(entries[m + 1])
                ELSE After(b, entries, m)[k]
      BY <2>1, AfterNext
    <3> QED
      BY <3>1
  <2>5. \A k \in pots : A(m)[k] \in Int
    <3>1. A(m) \in [Accounts -> Int]
      BY <2>1, AfterTyped
    <3> HIDE DEF A
    <3> QED
      BY <1>1, <3>1
  <2>6. IsFiniteSet(J(m)) /\ \A i \in J(m) : SignedDelta(entries[i]) \in Int
    BY <2>1, AssetBefore
  <2>7. m + 1 \notin J(m)
    BY <2>1 DEF InAsset
  <2>8. Q(m) \in Int
    <3> HIDE DEF J
    <3> QED
      BY <2>6, SumIsInt
  <2> HIDE DEF A
  <2>9. Total(A(m), pots) \in Int
    BY <1>1, <2>5, TotalIsInt
  <2>10. CASE e.account.asset = asset
    <3>1. J(m + 1) = J(m) \cup {m + 1}
      BY <2>1, <2>10 DEF InAsset
    <3>2. Q(m + 1) = Q(m) + SignedDelta(e)
      <4> HIDE DEF J
      <4>1. \A j \in J(m) \cup {m + 1} : SignedDelta(entries[j]) \in Int
        BY <2>3, <2>6
      <4> QED
        BY <2>6, <2>7, <3>1, <4>1, SumWith
    <3>3. key \in pots
      BY <1>0, <2>2, <2>3, <2>10
    <3> HIDE DEF key, e, Q
    <3>4. Total(A(m + 1), pots) = Total(A(m), pots) + SignedDelta(e)
      <4>1. /\ A(m + 1)[key] = A(m)[key] + SignedDelta(e)
            /\ \A j \in pots : j # key => A(m + 1)[j] = A(m)[j]
        BY <1>1, <2>2, <2>4
      <4> QED
        BY <1>1, <2>3, <2>5, <3>3, <4>1, TotalMoves
    <3>5. \A t, q, d \in Int : (t + q) + d = t + (q + d)
      OBVIOUS
    <3>6. (Total(b, pots) + Q(m)) + SignedDelta(e) = Total(b, pots) + (Q(m) + SignedDelta(e))
      BY <1>2, <2>3, <2>8, <3>5
    <3> QED
      BY <2>0, <3>2, <3>4, <3>6
  <2>11. CASE e.account.asset # asset
    <3>1. J(m + 1) = J(m)
      BY <2>1, <2>11 DEF InAsset
    <3>2. Q(m + 1) = Q(m)
      BY <3>1
    <3>3. key \notin pots
      BY <1>0, <2>3, <2>11
    <3> HIDE DEF J, key, e, Q
    <3>4. \A k \in pots : A(m)[k] \in Int /\ A(m + 1)[k] = A(m)[k]
      BY <1>1, <2>4, <2>5, <3>3
    <3>5. Total(A(m + 1), pots) = Total(A(m), pots)
      BY <1>1, <3>4, TotalSame
    <3> QED
      BY <2>0, <3>2, <3>5
  <2> QED
    BY <2>10, <2>11
<1>5. Nat \subseteq T
  <2> HIDE DEF T
  <2> QED
    BY <1>3, <1>4, Counting
<1>6. n \in T /\ n \in Nat /\ n <= Len(entries)
  BY <1>5
<1> HIDE DEF P
<1>7. P(n)
  BY <1>6
<1> QED
  BY <1>7 DEF P, pots

\* A post that is accepted adds nothing to any asset and takes nothing from it.
LEMMA AfterConserves ==
  ASSUME IsFiniteSet(Accounts), NEW b \in [Accounts -> Int], NEW entries \in Seq(EntryInput),
         \A i \in DOMAIN entries : AccountKey(entries[i].account) \in Accounts,
         AssertValidPost(entries), NEW asset
  PROVE  Total(After(b, entries, Len(entries)), Pots(asset)) = Total(b, Pots(asset))
<1> DEFINE I == InAsset(entries, Len(entries), asset)
           sum == SumOver(SignedDelta, entries, I)
<1>1. DOMAIN entries = 1 .. Len(entries)
  OBVIOUS
<1>2. sum = 0
  <2>1. CASE I = {}
    BY <2>1, SumOfNone
  <2>2. ASSUME NEW i \in I PROVE sum = 0
    <3>1. i \in DOMAIN entries /\ entries[i].account.asset = asset
      BY <1>1 DEF InAsset
    <3>2. AssetDelta(entries, asset) = 0
      BY <3>1 DEF AssertValidPost, AssertBalanced
    <3>3. I = {j \in DOMAIN entries : entries[j].account.asset = asset}
      BY <1>1 DEF InAsset
    <3> QED
      BY <3>2, <3>3 DEF AssetDelta
  <2> QED
    BY <2>1, <2>2
<1>3. Total(After(b, entries, Len(entries)), Pots(asset)) = Total(b, Pots(asset)) + sum
  <2>1. PICK n \in 0 .. Len(entries) : n = Len(entries)
    OBVIOUS
  <2>2. Total(After(b, entries, n), Pots(asset))
          = Total(b, Pots(asset)) + SumOver(SignedDelta, entries, InAsset(entries, n, asset))
    BY AfterAddsUp
  <2> QED
    BY <2>1, <2>2
<1>4. Total(b, Pots(asset)) \in Int
  <2>1. Pots(asset) \subseteq Accounts
    BY DEF Pots
  <2>2. IsFiniteSet(Pots(asset)) /\ \A k \in Pots(asset) : b[k] \in Int
    BY <2>1, FS_Subset
  <2> QED
    BY <2>2, TotalIsInt
<1> HIDE DEF sum
<1> QED
  BY <1>2, <1>3, <1>4

\* A commit books its request, or is refused by the database and books nothing.
LEMMA CommitBooks ==
  ASSUME IInv, AllPlanned, NEW c \in Calls, Commit(c)
  PROVE  UNCHANGED <<journal, balance>> \/ \E r \in Requests : Books(r)
<1> DEFINE y == call[c]
           r == call[c].req
<1>1. /\ y.pc = "apply" /\ y.at = Len(r.entries)
      /\ Planned(y, balance) /\ balance \in [Accounts -> Int] /\ y.prev \in Nat
  BY DEF Commit, IInv, TypeOK, AllPlanned
<1>2. r \in Requests
  <2>1. y.pc \in Running
    BY <1>1 DEF Running, InTx
  <2> QED
    BY <2>1 DEF IInv, AllSound, SoundIn
<1>3. CASE UNCHANGED ledgerVars
  BY <1>3 DEF ledgerVars
<1>4. CASE Write(c)
  <2>1. /\ journal' = Append(journal, [id |-> NewId, key |-> r.key, reason |-> r.reason,
                                       entries |-> r.entries, prev |-> y.prev])
        /\ balance' = [k \in Accounts |-> IF k \in Touched(r) THEN y.work[k] ELSE balance[k]]
    BY <1>4 DEF Write
  <2>2. /\ AssertValidPost(r.entries) /\ y.work = After(balance, r.entries, Len(r.entries))
        /\ r.entries \in Seq(EntryInput)
    BY <1>1, <1>2, EngineConstants DEF Planned, InTx
  <2>3. balance' = After(balance, r.entries, Len(r.entries))
    BY <1>1, <2>1, <2>2, WholeBalance
  <2>4. NewId \in Ids
    BY DEF NewId, Ids, NoTx, IInv, TypeOK
  <2> QED
    BY <1>1, <1>2, <2>1, <2>2, <2>3, <2>4 DEF Books
<1> QED
  BY <1>3, <1>4 DEF Commit

\* No other step writes the book.
LEMMA OnlyCommitWrites ==
  ASSUME [Next]_vars
  PROVE  UNCHANGED <<journal, balance>> \/ \E c \in Calls : Commit(c)
<1>1. ASSUME NEW c \in Calls, NEW r \in Requests, Begin(c, r) PROVE UNCHANGED ledgerVars
  BY <1>1 DEF Begin
<1>2. ASSUME NEW c \in Calls, Step(c) PROVE UNCHANGED ledgerVars \/ Commit(c)
  BY <1>2 DEF Step, FastPath, TakeLock, Recheck, RefuseClockSkew, ReadFreeze, LoadAccounts, ApplyEntry,
    ReadOutbox, Send, MarkSent
<1>3. ASSUME NEW c \in Calls, Failure(c) PROVE UNCHANGED ledgerVars
  BY <1>3 DEF Failure, Abort, SendFails, Crash
<1>4. ASSUME NEW d \in Relays, RelayStep(d) \/ RelayFails(d) PROVE UNCHANGED ledgerVars
  BY <1>4 DEF RelayStep, RelayRead, RelaySend, RelayMark, RelayFails
<1>5. WriteFreeze \/ UNCHANGED vars => UNCHANGED ledgerVars
  BY DEF WriteFreeze, vars, ledgerVars
<1> QED
  BY <1>1, <1>2, <1>3, <1>4, <1>5 DEF Next, ledgerVars

\* The journal without its last row, and with it.
LEMMA MovedBefore ==
  ASSUME NEW n \in DOMAIN journal, journal'[n] = journal[n], NEW k
  PROVE  Moved(n, k)' = Moved(n, k)
  BY DEF Moved

\* What a row of the journal moved is a number.
LEMMA MovedIsInt ==
  ASSUME NEW entries \in Seq(EntryInput), NEW k
  PROVE  SumOver(SignedDelta, entries, {i \in DOMAIN entries : AccountKey(entries[i].account) = k}) \in Int
<1> DEFINE I == {i \in 1 .. Len(entries) : AccountKey(entries[i].account) = k}
<1>1. Len(entries) \in 0 .. Len(entries) /\ DOMAIN entries = 1 .. Len(entries)
  OBVIOUS
<1>2. IsFiniteSet(I) /\ \A i \in I : SignedDelta(entries[i]) \in Int
  BY <1>1, KeysBefore
<1>3. I = {i \in DOMAIN entries : AccountKey(entries[i].account) = k}
  BY <1>1
<1> HIDE DEF I
<1>4. SumOver(SignedDelta, entries, I) \in Int
  BY <1>2, SumIsInt
<1> QED
  BY <1>3, <1>4

\* A booked post moves each balance by what its row of the journal moves.
LEMMA BooksReplay ==
  ASSUME IInv, BalancesReplay, NEW r \in Requests, Books(r)
  PROVE  BalancesReplay'
<1> DEFINE N == Len(journal)
           moves(k) == [n \in DOMAIN journal |-> Moved(n, k)]
<1>1. /\ journal \in Seq(TxRec) /\ N \in Nat /\ DOMAIN journal = 1 .. N
      /\ balance \in [Accounts -> Int] /\ r.entries \in Seq(EntryInput)
  BY EngineConstants DEF IInv, TypeOK, TxRec
<1>2. balance' = After(balance, r.entries, Len(r.entries))
  BY DEF Books
<1>3. /\ DOMAIN journal' = (1 .. N) \cup {N + 1} /\ journal'[N + 1].entries = r.entries
      /\ \A n \in 1 .. N : journal'[n] = journal[n]
  <2>1. PICK prev \in Nat, id \in Ids :
          journal' = Append(journal, [id |-> id, key |-> r.key, reason |-> r.reason,
                                      entries |-> r.entries, prev |-> prev])
    BY DEF Books
  <2> DEFINE row == [id |-> id, key |-> r.key, reason |-> r.reason, entries |-> r.entries, prev |-> prev]
  <2>2. row \in TxRec /\ row.entries = r.entries
    BY EngineConstants DEF TxRec
  <2>3. journal' = Append(journal, row)
    BY <2>1
  <2> HIDE DEF row
  <2>4. DOMAIN journal' = 1 .. (N + 1) /\ journal'[N + 1] = row /\ \A n \in 1 .. N : journal'[n] = journal[n]
    BY <1>1, <2>2, <2>3
  <2> QED
    BY <1>1, <2>2, <2>4
<1> SUFFICES ASSUME NEW k \in Accounts
             PROVE  balance'[k] = InitBalance[k] + Total([n \in DOMAIN journal' |-> Moved(n, k)'], DOMAIN journal')
  BY DEF BalancesReplay
<1> DEFINE f == [n \in DOMAIN journal |-> Moved(n, k)]
           h == [n \in DOMAIN journal' |-> Moved(n, k)']
           d == SumOver(SignedDelta, r.entries, {i \in DOMAIN r.entries : AccountKey(r.entries[i].account) = k})
<1>4. balance[k] = InitBalance[k] + Total(f, 1 .. N)
  BY <1>1 DEF BalancesReplay
<1>5. balance'[k] = balance[k] + d
  <2>1. DOMAIN r.entries = 1 .. Len(r.entries)
    BY <1>1
  <2> QED
    BY <1>1, <1>2, <2>1 DEF After
<1>6. d \in Int
  BY <1>1, MovedIsInt
<1>7. \A n \in 1 .. N : f[n] \in Int
  <2> SUFFICES ASSUME NEW n \in 1 .. N PROVE f[n] \in Int
    OBVIOUS
  <2>1. journal[n] \in TxRec
    BY <1>1
  <2>2. journal[n].entries \in Seq(EntryInput)
    BY <2>1 DEF TxRec
  <2>3. Moved(n, k) \in Int
    BY <2>2, MovedIsInt DEF Moved
  <2> QED
    BY <1>1, <2>3
<1>8. \A n \in 1 .. N : h[n] = f[n]
  <2> SUFFICES ASSUME NEW n \in 1 .. N PROVE h[n] = f[n]
    OBVIOUS
  <2>1. Moved(n, k)' = Moved(n, k)
    BY <1>1, <1>3, MovedBefore
  <2> HIDE DEF N
  <2> QED
    BY <1>1, <1>3, <2>1
<1>9. h[N + 1] = d
  <2>1. PICK m \in DOMAIN journal' : m = N + 1
    BY <1>3
  <2>2. Moved(m, k)' = d
    BY <1>3, <2>1 DEF Moved
  <2> HIDE DEF d, N
  <2> QED
    BY <2>1, <2>2
<1>10. InitBalance[k] \in Int
  BY EngineConstants
<1>11. IsFiniteSet(1 .. N) /\ N + 1 \notin 1 .. N
  BY <1>1, FS_Interval
<1> HIDE DEF f, h, d, N
<1>12. Total(h, (1 .. N) \cup {N + 1}) = Total(h, 1 .. N) + h[N + 1]
  <2>1. \A n \in (1 .. N) \cup {N + 1} : h[n] \in Int
    BY <1>6, <1>7, <1>8, <1>9
  <2> QED
    BY <1>11, <2>1, TotalWith
<1>13. Total(h, 1 .. N) = Total(f, 1 .. N) /\ Total(f, 1 .. N) \in Int
  BY <1>7, <1>8, <1>11, TotalSame, TotalIsInt
<1>14. balance'[k] = InitBalance[k] + Total(h, DOMAIN journal')
  BY <1>3, <1>4, <1>5, <1>6, <1>9, <1>10, <1>12, <1>13
<1> QED
  BY <1>14 DEF h

LEMMA BooksConserve ==
  ASSUME IsFiniteSet(Accounts), IInv, AssetsConserved, NEW r \in Requests, Books(r)
  PROVE  AssetsConserved'
<1>1. /\ balance \in [Accounts -> Int] /\ r.entries \in Seq(EntryInput)
      /\ \A i \in DOMAIN r.entries : AccountKey(r.entries[i].account) \in Accounts
  BY EngineConstants DEF IInv, TypeOK
<1>2. AssertValidPost(r.entries) /\ balance' = After(balance, r.entries, Len(r.entries))
  BY DEF Books
<1>3. ASSUME NEW asset \in Assets
      PROVE  Total(After(balance, r.entries, Len(r.entries)), Pots(asset)) = Total(balance, Pots(asset))
  BY <1>1, <1>2, AfterConserves
<1> QED
  BY <1>2, <1>3 DEF AssetsConserved, Pots

\* What the reconciler proves of the book, and what the proof of it rests on.
MoneyInv == BalancesReplay /\ AssetsConserved

LEMMA NextMoney ==
  ASSUME IsFiniteSet(Accounts), IInv, AllPlanned, MoneyInv, [Next]_vars
  PROVE  MoneyInv'
<1>1. CASE UNCHANGED <<journal, balance>>
  BY <1>1 DEF MoneyInv, BalancesReplay, AssetsConserved, Moved
<1>2. ASSUME NEW r \in Requests, Books(r) PROVE MoneyInv'
  BY <1>2, BooksReplay, BooksConserve DEF MoneyInv
<1>3. CASE \E c \in Calls : Commit(c)
  BY <1>1, <1>2, <1>3, CommitBooks
<1> QED
  BY <1>1, <1>3, OnlyCommitWrites

LEMMA InitMoney == Init => MoneyInv
<1> SUFFICES ASSUME Init PROVE MoneyInv
  OBVIOUS
<1>1. journal = <<>> /\ balance = InitBalance /\ DOMAIN journal = {}
  BY DEF Init
<1>2. \A k \in Accounts : InitBalance[k] \in Int
  BY EngineConstants
<1>3. BalancesReplay
  <2> SUFFICES ASSUME NEW k \in Accounts, NEW f, f = [n \in DOMAIN journal |-> Moved(n, k)]
               PROVE  balance[k] = InitBalance[k] + Total(f, DOMAIN journal)
    BY DEF BalancesReplay
  <2>1. Total(f, DOMAIN journal) = 0
    BY <1>1, TotalOfNone
  <2> QED
    BY <1>1, <1>2, <2>1
<1> QED
  BY <1>1, <1>3 DEF MoneyInv, AssetsConserved

\* Whatever calls, aborts, retries and crashes there are, the book passes the checks
\* of reconcile.ts: its hashes are a chain, every balance is the sum of its entries,
\* and no asset has gained or lost anything.  There are finitely many accounts.
THEOREM BookAlwaysProves == ASSUME IsFiniteSet(Accounts) PROVE Spec => []BookProves
<1>1. Init => AllPlanned /\ MoneyInv
  BY InitSimulates, InitMoney
<1>2. IInv /\ AllPlanned /\ MoneyInv /\ [Next]_vars => AllPlanned' /\ MoneyInv'
  BY NextSimulates, NextMoney
<1>3. IInv /\ MoneyInv => BookProves
  BY DEF IInv, MoneyInv, BookProves
<1> QED
  BY <1>1, <1>2, <1>3, Invariance, PTL DEF Spec

-----------------------------------------------------------------------------
(* Replays.  Two posts have one fingerprint exactly when the entries of one *)
(* pair off with those of the other, line for line (PrintIsReordering);     *)
(* with one booking per key and every conflict founded (ReplayInv), an      *)
(* answer says which of the two it was.                                     *)

\* What an entry moves: the line postFingerprint writes for it.
LineOf(e) == <<AccountKey(e.account), e.direction, e.amount>>

\* The entries of a post whose line is l.
Alike(entries, l) == {i \in DOMAIN entries : LineOf(entries[i]) = l}

Lines(entries) == {LineOf(entries[i]) : i \in DOMAIN entries}

LEMMA SameLine ==
  ASSUME NEW d \in EntryInput, NEW e \in EntryInput
  PROVE  [d EXCEPT !.account = AccountKey(@)] = [e EXCEPT !.account = AccountKey(@)]
           <=> LineOf(d) = LineOf(e)
<1> DEFINE Of(x) == [account |-> AccountKey(x.account), direction |-> x.direction,
                     amount |-> x.amount]
<1>1. \A x \in EntryInput : [x EXCEPT !.account = AccountKey(@)] = Of(x)
  BY DEF EntryInput
<1>2. Of(d) = Of(e) <=> LineOf(d) = LineOf(e)
  <2> DEFINE m == Of(d)
             n == Of(e)
  <2>1. /\ m.account = AccountKey(d.account) /\ m.direction = d.direction /\ m.amount = d.amount
        /\ n.account = AccountKey(e.account) /\ n.direction = e.direction /\ n.amount = e.amount
    OBVIOUS
  <2>2. Of(d) = Of(e) => LineOf(d) = LineOf(e)
    BY <2>1 DEF LineOf
  <2>3. LineOf(d) = LineOf(e) => Of(d) = Of(e)
    BY DEF LineOf
  <2> QED
    BY <2>2, <2>3
<1> QED
  BY <1>1, <1>2

\* Two posts write the same lines, each equally often.
SameLines(a, b) ==
  /\ Lines(a) = Lines(b)
  /\ \A l \in Lines(a) : Cardinality(Alike(a, l)) = Cardinality(Alike(b, l))

LEMMA AlikeFinite ==
  ASSUME NEW entries \in Seq(EntryInput), NEW l
  PROVE  IsFiniteSet(Alike(entries, l))
<1>1. IsFiniteSet(1 .. Len(entries))
  BY FS_Interval
<1>2. Alike(entries, l) \subseteq 1 .. Len(entries)
  BY DEF Alike
<1> QED
  BY <1>1, <1>2, FS_Subset

\* Two posts have one fingerprint when they write each line equally often.
LEMMA PrintsAgree ==
  ASSUME NEW a, NEW b
  PROVE  Fingerprint(a) = Fingerprint(b)
           <=> a.reason = b.reason /\ SameLines(a.entries, b.entries)
<1> DEFINE Moves(r) == [l \in Lines(r.entries) |-> Cardinality(Alike(r.entries, l))]
           PrintOf(r) == [reason |-> r.reason, moves |-> Moves(r)]
<1>1. \A r : Fingerprint(r) = PrintOf(r)
  BY DEF Fingerprint, Lines, Alike, LineOf
<1>2. PrintOf(a) = PrintOf(b) <=> a.reason = b.reason /\ Moves(a) = Moves(b)
  <2> HIDE DEF Moves
  <2> DEFINE m == PrintOf(a)
             n == PrintOf(b)
  <2>1. m.reason = a.reason /\ m.moves = Moves(a) /\ n.reason = b.reason /\ n.moves = Moves(b)
    OBVIOUS
  <2>2. PrintOf(a) = PrintOf(b) => a.reason = b.reason /\ Moves(a) = Moves(b)
    BY <2>1
  <2> QED
    BY <2>2
<1>3. Moves(a) = Moves(b) <=> SameLines(a.entries, b.entries)
  <2>1. /\ DOMAIN Moves(a) = Lines(a.entries) /\ DOMAIN Moves(b) = Lines(b.entries)
        /\ \A l \in Lines(a.entries) : Moves(a)[l] = Cardinality(Alike(a.entries, l))
        /\ \A l \in Lines(b.entries) : Moves(b)[l] = Cardinality(Alike(b.entries, l))
    OBVIOUS
  <2>2. ASSUME Moves(a) = Moves(b)
        PROVE  SameLines(a.entries, b.entries)
    <3> HIDE DEF Moves
    <3> QED
      BY <2>1, <2>2 DEF SameLines
  <2>3. ASSUME SameLines(a.entries, b.entries) PROVE Moves(a) = Moves(b)
    BY <2>3 DEF SameLines
  <2> QED
    BY <2>2, <2>3
<1> HIDE DEF PrintOf, Moves
<1> QED
  BY <1>1, <1>2, <1>3

\* A one-to-one pairing of the entries of two posts that keeps each entry's line.
Pairs(p, a, b) ==
  /\ p \in [DOMAIN a -> DOMAIN b]
  /\ \A j \in DOMAIN b : \E i \in DOMAIN a : p[i] = j
  /\ \A i, k \in DOMAIN a : p[i] = p[k] => i = k
  /\ \A i \in DOMAIN a : LineOf(b[p[i]]) = LineOf(a[i])

LEMMA PairsMeansAlike ==
  ASSUME NEW a \in Seq(EntryInput), NEW b \in Seq(EntryInput), NEW p, Pairs(p, a, b)
  PROVE  SameLines(a, b)
<1>1. Lines(a) = Lines(b)
  BY DEF Pairs, Lines
<1>2. ASSUME NEW l \in Lines(a) PROVE Cardinality(Alike(a, l)) = Cardinality(Alike(b, l))
  <2> DEFINE A == Alike(a, l)
             B == Alike(b, l)
             f == [i \in A |-> p[i]]
  <2>1. /\ f \in [A -> B]
        /\ \A i, k \in A : f[i] = f[k] => i = k
        /\ \A j \in B : \E i \in A : f[i] = j
    BY DEF Pairs, Alike
  <2>2. IsFiniteSet(A)
    BY AlikeFinite
  <2> HIDE DEF A, B, f
  <2>3. ExistsBijection(A, B)
    BY <2>1 DEF ExistsBijection, Bijection, Injection, Surjection, IsInjective
  <2>4. Cardinality(B) = Cardinality(A)
    BY <2>2, <2>3, FS_Bijection
  <2> QED
    BY <2>4 DEF A, B
<1> QED
  BY <1>1, <1>2 DEF SameLines

LEMMA AlikeMeansPairs ==
  ASSUME NEW a \in Seq(EntryInput), NEW b \in Seq(EntryInput), SameLines(a, b)
  PROVE  \E p : Pairs(p, a, b)
<1> DEFINE OneToOne(g, m) == /\ g \in [Alike(a, m) -> Alike(b, m)]
                             /\ \A i, k \in Alike(a, m) : g[i] = g[k] => i = k
                             /\ \A j \in Alike(b, m) : \E i \in Alike(a, m) : g[i] = j
           f == [m \in Lines(a) |-> CHOOSE g : OneToOne(g, m)]
           p == [i \in DOMAIN a |-> f[LineOf(a[i])][i]]
<1>1. \A l \in Lines(a) : OneToOne(f[l], l)
  <2> SUFFICES ASSUME NEW l \in Lines(a) PROVE \E g : OneToOne(g, l)
    OBVIOUS
  <2>1. ExistsBijection(Alike(a, l), Alike(b, l))
    BY AlikeFinite, FS_SameCardinalityBij DEF SameLines
  <2> QED
    BY <2>1 DEF ExistsBijection, Bijection, Injection, Surjection, IsInjective
<1> HIDE DEF f
<1>2. \A i \in DOMAIN a : LineOf(a[i]) \in Lines(a) /\ i \in Alike(a, LineOf(a[i]))
  BY DEF Lines, Alike
<1>3. \A i \in DOMAIN a : p[i] \in Alike(b, LineOf(a[i]))
  BY <1>1, <1>2
<1>4. \A i \in DOMAIN a : p[i] \in DOMAIN b /\ LineOf(b[p[i]]) = LineOf(a[i])
  BY <1>3 DEF Alike
<1>5. p \in [DOMAIN a -> DOMAIN b]
  BY <1>4
<1>6. \A j \in DOMAIN b : \E i \in DOMAIN a : p[i] = j
  <2> SUFFICES ASSUME NEW j \in DOMAIN b PROVE \E i \in DOMAIN a : p[i] = j
    OBVIOUS
  <2> DEFINE l == LineOf(b[j])
  <2>1. l \in Lines(a) /\ j \in Alike(b, l)
    BY DEF Lines, Alike, SameLines
  <2> HIDE DEF l
  <2>2. PICK i \in Alike(a, l) : f[l][i] = j
    <3>1. OneToOne(f[l], l)
      BY <1>1, <2>1
    <3>2. \A m \in Alike(b, l) : \E i \in Alike(a, l) : f[l][i] = m
      BY <3>1
    <3> QED
      BY <2>1, <3>2
  <2>3. i \in DOMAIN a /\ LineOf(a[i]) = l
    BY <2>2 DEF Alike
  <2> QED
    BY <2>2, <2>3
<1>7. \A i, k \in DOMAIN a : p[i] = p[k] => i = k
  <2> SUFFICES ASSUME NEW i \in DOMAIN a, NEW k \in DOMAIN a, p[i] = p[k] PROVE i = k
    OBVIOUS
  <2>1. LineOf(a[i]) = LineOf(a[k])
    BY <1>4
  <2>2. f[LineOf(a[i])][i] = f[LineOf(a[i])][k]
    BY <2>1
  <2> QED
    BY <1>1, <1>2, <2>1, <2>2
<1> HIDE DEF p
<1>8. Pairs(p, a, b)
  BY <1>4, <1>5, <1>6, <1>7 DEF Pairs
<1> QED
  BY <1>8

\* Two posts have one fingerprint exactly when one reorders the other.
LEMMA PrintIsReordering ==
  ASSUME NEW a, NEW b, a.entries \in Seq(EntryInput), b.entries \in Seq(EntryInput)
  PROVE  Fingerprint(a) = Fingerprint(b) <=> Reordering(a, b)
<1>1. \A i \in DOMAIN a.entries, j \in DOMAIN b.entries :
        ([b.entries[j] EXCEPT !.account = AccountKey(@)] =
         [a.entries[i] EXCEPT !.account = AccountKey(@)])
          <=> LineOf(b.entries[j]) = LineOf(a.entries[i])
  <2> SUFFICES ASSUME NEW i \in DOMAIN a.entries, NEW j \in DOMAIN b.entries
               PROVE  ([b.entries[j] EXCEPT !.account = AccountKey(@)] =
                       [a.entries[i] EXCEPT !.account = AccountKey(@)])
                      <=> LineOf(b.entries[j]) = LineOf(a.entries[i])
    OBVIOUS
  <2>1. a.entries[i] \in EntryInput /\ b.entries[j] \in EntryInput
    OBVIOUS
  <2> QED
    BY <2>1, SameLine
<1>2. Reordering(a, b) <=> a.reason = b.reason /\ \E p : Pairs(p, a.entries, b.entries)
  <2> DEFINE Q(p) == /\ p \in [DOMAIN a.entries -> DOMAIN b.entries]
                     /\ \A j \in DOMAIN b.entries : \E i \in DOMAIN a.entries : p[i] = j
                     /\ \A i, k \in DOMAIN a.entries : p[i] = p[k] => i = k
                     /\ \A i \in DOMAIN a.entries :
                          [b.entries[p[i]] EXCEPT !.account = AccountKey(@)] =
                          [a.entries[i] EXCEPT !.account = AccountKey(@)]
  <2>1. ASSUME NEW p \in [DOMAIN a.entries -> DOMAIN b.entries]
        PROVE  (\A i \in DOMAIN a.entries :
                  [b.entries[p[i]] EXCEPT !.account = AccountKey(@)] =
                  [a.entries[i] EXCEPT !.account = AccountKey(@)])
               <=> \A i \in DOMAIN a.entries : LineOf(b.entries[p[i]]) = LineOf(a.entries[i])
    <3>1. \A i \in DOMAIN a.entries : p[i] \in DOMAIN b.entries
      OBVIOUS
    <3> QED
      BY <1>1, <3>1
  <2>2. \A p : Q(p) <=> Pairs(p, a.entries, b.entries)
    BY <2>1 DEF Pairs
  <2>3. Reordering(a, b) <=> a.reason = b.reason /\ \E p : Q(p)
    BY DEF Reordering
  <2> HIDE DEF Q
  <2> QED
    BY <2>2, <2>3
<1> QED
  BY <1>2, PrintsAgree, PairsMeansAlike, AlikeMeansPairs

\* A key has booked once.
OncePerKey == \A m, n \in DOMAIN journal : journal[m].key = journal[n].key => m = n

\* A call x told a conflict has its key booked, in journal J, for another movement.
Refuted(x, J) ==
  x.answer \in {"ok", "conflict"} =>
    /\ x.req \in Requests
    /\ x.answer = "conflict" =>
         \E n \in DOMAIN J : J[n].key = x.req.key /\ Fingerprint(J[n]) # Fingerprint(x.req)

ReplayInv == OncePerKey /\ \A c \in Calls : Refuted(call[c], journal)

\* One call moves and hears nothing it did not deserve.
LEMMA RefutedKept ==
  ASSUME ReplayInv, NEW c \in Calls, Only(c), journal' = journal, Refuted(call'[c], journal)
  PROVE  ReplayInv'
  BY DEF ReplayInv, OncePerKey, Only

LEMMA HearsNothing ==
  ASSUME ReplayInv, NEW c \in Calls, Only(c), UNCHANGED ledgerVars, call'[c].answer = "none"
  PROVE  ReplayInv'
<1>1. Refuted(call'[c], journal)
  BY DEF Refuted
<1> QED
  BY <1>1, RefutedKept DEF ledgerVars

LEMMA NotYet ==
  ASSUME IInv, NEW c \in Calls, call[c].pc \in Running
  PROVE  call[c].answer = "none" /\ call[c].req \in Requests /\ call \in [Calls -> CallRec]
  BY DEF IInv, TypeOK, CallRec, AllSound, SoundIn, Running, InTx

LEMMA Hears ==
  ASSUME IInv, ReplayInv, NEW c \in Calls, call[c].pc \in Running, UNCHANGED ledgerVars,
         NEW what, what \in Answers, Answer(c, what),
         what = "conflict" => \E n \in DOMAIN journal :
                                /\ journal[n].key = call[c].req.key
                                /\ Fingerprint(journal[n]) # Fingerprint(call[c].req)
  PROVE  ReplayInv'
<1> DEFINE x == [Quiet EXCEPT !.pc = "done", !.req = call[c].req,
                              !.tx = call[c].tx, !.answer = what]
<1>1. call \in [Calls -> CallRec] /\ call[c].req \in Requests
  BY NotYet
<1>2. x.req = call[c].req /\ x.answer = what
  BY <1>1, EndOf
<1>3. call' = [call EXCEPT ![c] = x]
  BY DEF Answer
<1> HIDE DEF x
<1>4. call'[c] = x /\ Only(c)
  BY <1>1, <1>3 DEF Only
<1>5. Refuted(call'[c], journal)
  BY <1>1, <1>2, <1>4 DEF Refuted
<1> QED
  BY <1>4, <1>5, RefutedKept DEF ledgerVars

LEMMA ReplayHears ==
  ASSUME IInv, ReplayInv, NEW c \in Calls, call[c].pc \in Running, UNCHANGED ledgerVars,
         NEW n \in Booked(call[c].req.key), ReplayOf(c, n)
  PROVE  ReplayInv'
<1>1. CASE Answer(c, "conflict") /\ Fingerprint(journal[n]) # Fingerprint(call[c].req)
  <2>1. n \in DOMAIN journal /\ journal[n].key = call[c].req.key
    BY DEF Booked
  <2> QED
    BY <1>1, <2>1, Hears DEF Answers
<1>2. CASE call' = [call EXCEPT ![c].pc = "outbox", ![c].tx = journal[n].id]
  <2>1. Only(c) /\ call'[c].answer = "none"
    BY <1>2, NotYet DEF Only, CallRec
  <2> QED
    BY <2>1, HearsNothing
<1> QED
  BY <1>1, <1>2 DEF ReplayOf

LEMMA GotoHears ==
  ASSUME IInv, ReplayInv, NEW c \in Calls, call[c].pc \in Running, UNCHANGED ledgerVars,
         NEW p, Goto(c, p)
  PROVE  ReplayInv'
<1>1. Only(c) /\ call'[c].answer = "none"
  BY NotYet DEF Goto, Only, CallRec
<1> QED
  BY <1>1, HearsNothing

LEMMA CommitReplay ==
  ASSUME IInv, ReplayInv, NEW c \in Calls, Commit(c)
  PROVE  ReplayInv'
<1> DEFINE r == call[c].req
           row == [id |-> NewId, key |-> r.key, reason |-> r.reason, entries |-> r.entries,
                   prev |-> call[c].prev]
           x == [Quiet EXCEPT !.pc = "outbox", !.req = r, !.tx = NewId]
<1>1. /\ Booked(r.key) = {} /\ call[c].pc \in Running /\ call \in [Calls -> CallRec]
  BY UnderLock, NotYet DEF Commit
<1>2. CASE Answer(c, "backstop") /\ UNCHANGED ledgerVars
  BY <1>1, <1>2, Hears DEF Answers
<1>3. CASE Write(c)
  <2>1. journal' = Append(journal, row) /\ call' = [call EXCEPT ![c] = x]
    BY <1>3 DEF Write
  <2>2. x.answer = "none" /\ row.key = r.key
    BY DEF Quiet
  <2> HIDE DEF x, row
  <2>3. Only(c) /\ call'[c].answer = "none"
    BY <1>1, <2>1, <2>2 DEF Only
  <2>4. /\ \A n \in DOMAIN journal : n \in DOMAIN journal' /\ journal'[n] = journal[n]
        /\ \A n \in DOMAIN journal' :
             n \in DOMAIN journal \/ (n = Len(journal) + 1 /\ journal'[n] = row)
    <3>1. journal \in Seq(TxRec)
      BY DEF IInv, TypeOK, TxRec
    <3> HIDE DEF r
    <3> QED
      BY <2>1, <3>1
  <2>5. \A n \in DOMAIN journal : journal[n].key # r.key
    BY <1>1 DEF Booked
  <2>6. OncePerKey'
    BY <2>2, <2>4, <2>5 DEF ReplayInv, OncePerKey
  <2>7. \A e \in Calls : Refuted(call'[e], journal')
    <3>1. \A e \in Calls : e # c => Refuted(call[e], journal')
      BY <2>4 DEF ReplayInv, Refuted
    <3> QED
      BY <2>3, <3>1 DEF Only, Refuted
  <2> QED
    BY <2>6, <2>7 DEF ReplayInv
<1> QED
  BY <1>2, <1>3 DEF Commit

LEMMA NextReplay ==
  ASSUME IInv, ReplayInv, [Next]_vars
  PROVE  ReplayInv'
<1>0. call \in [Calls -> CallRec] /\ \A c \in Calls : call[c].pc # "done" => call[c].answer = "none"
  BY DEF IInv, TypeOK, CallRec, AllSound, SoundIn
<1>1. ASSUME NEW c \in Calls, NEW r \in Requests, Begin(c, r) PROVE ReplayInv'
  <2>1. Only(c) /\ call'[c].answer = "none" /\ UNCHANGED ledgerVars
    BY <1>0, <1>1 DEF Begin, Only, CallRec
  <2> QED
    BY <2>1, HearsNothing
<1>2. ASSUME NEW c \in Calls, Step(c) PROVE ReplayInv'
  <2>1. CASE FastPath(c)
    <3>0. call[c].pc \in Running /\ UNCHANGED ledgerVars
      BY <2>1 DEF FastPath, Running
    <3>1. ASSUME NEW n \in Booked(call[c].req.key), ReplayOf(c, n) PROVE ReplayInv'
      BY <3>0, <3>1, ReplayHears
    <3>2. CASE Answer(c, "invalid")
      BY <3>0, <3>2, Hears DEF Answers, Refusals
    <3>3. CASE call' = [call EXCEPT ![c].pc = "lock", ![c].attempt = 1]
      <4>1. Only(c) /\ call'[c].answer = "none"
        BY <3>0, <3>3, NotYet DEF Only, CallRec
      <4> QED
        BY <3>0, <4>1, HearsNothing
    <3> QED
      BY <2>1, <3>1, <3>2, <3>3 DEF FastPath
  <2>2. CASE TakeLock(c)
    <3>1. Only(c) /\ call'[c].answer = "none"
      BY <1>0, <2>2 DEF TakeLock, Only, CallRec
    <3> QED
      BY <2>2, <3>1, HearsNothing DEF TakeLock
  <2>3. CASE Recheck(c)
    <3>0. call[c].pc \in Running /\ UNCHANGED ledgerVars
      BY <2>3 DEF Recheck, InTx, Running
    <3>1. ASSUME NEW n \in Booked(call[c].req.key), ReplayOf(c, n) PROVE ReplayInv'
      BY <3>0, <3>1, ReplayHears
    <3>2. CASE Goto(c, "gate")
      BY <3>0, <3>2, GotoHears
    <3> QED
      BY <2>3, <3>1, <3>2 DEF Recheck
  <2>4. CASE RefuseClockSkew(c)
    BY <2>4, UnderLock, Hears DEF RefuseClockSkew, Answers, Refusals
  <2>5. CASE ReadFreeze(c)
    <3>0. call[c].pc \in Running /\ UNCHANGED ledgerVars
      BY <2>5, UnderLock DEF ReadFreeze
    <3>1. CASE Answer(c, "frozen")
      BY <3>0, <3>1, Hears DEF Answers, Refusals
    <3>2. CASE Goto(c, "load")
      BY <3>0, <3>2, GotoHears
    <3> QED
      BY <2>5, <3>1, <3>2 DEF ReadFreeze
  <2>6. CASE LoadAccounts(c)
    <3>1. Only(c) /\ call'[c].answer = "none" /\ UNCHANGED ledgerVars
      BY <1>0, <2>6 DEF LoadAccounts, Only, CallRec
    <3> QED
      BY <3>1, HearsNothing
  <2>7. CASE ApplyEntry(c)
    <3>0. call[c].pc = "apply" /\ call[c].pc \in Running /\ UNCHANGED ledgerVars
      BY <2>7, UnderLock DEF ApplyEntry
    <3>1. CASE Answer(c, "insufficient")
      BY <3>0, <3>1, Hears DEF Answers, Refusals
    <3>2. CASE call' = [call EXCEPT ![c].at = @ + 1,
                                    ![c].work[AccountKey(Entry(c).account)] = NextBalance(c)]
      <4>1. Only(c) /\ call'[c].answer = call[c].answer
        BY <1>0, <3>2 DEF Only, CallRec
      <4> QED
        BY <1>0, <3>0, <4>1, HearsNothing
    <3> QED
      BY <2>7, <3>1, <3>2 DEF ApplyEntry
  <2>8. CASE Commit(c)
    BY <2>8, CommitReplay
  <2>9. CASE ReadOutbox(c)
    <3>0. call[c].pc \in Running /\ UNCHANGED ledgerVars
      BY <2>9 DEF ReadOutbox, Running
    <3>1. CASE Goto(c, "send")
      BY <3>0, <3>1, GotoHears
    <3>2. CASE Answer(c, "ok")
      BY <3>0, <3>2, Hears DEF Answers
    <3> QED
      BY <2>9, <3>1, <3>2 DEF ReadOutbox
  <2>10. CASE Send(c)
    BY <2>10, GotoHears DEF Send, Running
  <2>11. CASE MarkSent(c)
    BY <2>11, Hears DEF MarkSent, Answers, Running
  <2> QED
    BY <1>2, <2>1, <2>2, <2>3, <2>4, <2>5, <2>6, <2>7, <2>8, <2>9, <2>10, <2>11 DEF Step
<1>3. ASSUME NEW c \in Calls, Failure(c) PROVE ReplayInv'
  <2>1. CASE Abort(c)
    <3>0. call[c].pc \in Running /\ UNCHANGED ledgerVars
      BY <2>1 DEF Abort, InTx, Running
    <3>1. CASE Answer(c, "db_error")
      BY <3>0, <3>1, Hears DEF Answers
    <3>2. CASE call' = [call EXCEPT ![c] = [Quiet EXCEPT !.pc = "lock", !.req = call[c].req,
                                                          !.attempt = call[c].attempt + 1]]
      <4>1. Only(c) /\ call'[c].answer = "none"
        BY <1>0, <3>2 DEF Only, Quiet
      <4> QED
        BY <3>0, <4>1, HearsNothing
    <3> QED
      BY <2>1, <3>1, <3>2 DEF Abort
  <2>2. CASE SendFails(c)
    BY <2>2, Hears DEF SendFails, Running, Answers
  <2>3. CASE Crash(c)
    BY <2>3, Hears DEF Crash, Answers
  <2> QED
    BY <1>3, <2>1, <2>2, <2>3 DEF Failure
<1>4. ASSUME NEW d \in Relays, RelayStep(d) \/ RelayFails(d) PROVE ReplayInv'
  <2>1. UNCHANGED <<journal, call>>
    BY <1>4 DEF RelayStep, RelayRead, RelaySend, RelayMark, RelayFails, ledgerVars
  <2> QED
    BY <2>1 DEF ReplayInv, OncePerKey
<1>5. CASE WriteFreeze \/ UNCHANGED vars
  <2>1. UNCHANGED <<journal, call>>
    BY <1>5 DEF WriteFreeze, vars, ledgerVars
  <2> QED
    BY <2>1 DEF ReplayInv, OncePerKey
<1> QED
  BY <1>1, <1>2, <1>3, <1>4, <1>5 DEF Next

LEMMA ReplayInvTells == IInv /\ ReplayInv => ReplayIsReordering
<1> SUFFICES ASSUME IInv, ReplayInv, ConflictMode = "refuse", NEW c \in Calls,
                    call[c].answer \in {"ok", "conflict"}, NEW n \in Booked(call[c].req.key)
             PROVE  call[c].answer = "ok" <=> Reordering(journal[n], call[c].req)
  BY DEF ReplayIsReordering
<1>1. /\ n \in DOMAIN journal /\ journal[n].key = call[c].req.key
      /\ \A m \in DOMAIN journal : journal[m].key = call[c].req.key => m = n
  BY DEF Booked, ReplayInv, OncePerKey
<1>2. call[c].answer = "ok" <=> Fingerprint(journal[n]) = Fingerprint(call[c].req)
  <2>1. CASE call[c].answer = "ok"
    <3>1. Stands(call[c], journal)
      BY <2>1 DEF IInv, AllSound, SoundIn
    <3> QED
      BY <1>1, <2>1, <3>1 DEF Stands
  <2>2. CASE call[c].answer = "conflict"
    <3>1. Refuted(call[c], journal)
      BY DEF ReplayInv
    <3> QED
      BY <1>1, <2>2, <3>1 DEF Refuted
  <2> QED
    BY <2>1, <2>2
<1>3. call[c].req.entries \in Seq(EntryInput)
  <2>1. call[c].req \in Requests
    BY DEF ReplayInv, Refuted
  <2> QED
    BY <2>1, EngineConstants
<1>4. journal[n].entries \in Seq(EntryInput)
  BY <1>1, Rows DEF TxRec
<1> QED
  BY <1>2, <1>3, <1>4, PrintIsReordering

LEMMA InitReplay == Init => ReplayInv
<1> SUFFICES ASSUME Init PROVE ReplayInv
  OBVIOUS
<1>1. \A c \in Calls : call[c].answer = "none"
  BY DEF Init, Quiet
<1> QED
  BY <1>1 DEF Init, ReplayInv, OncePerKey, Refuted

\* In refuse mode a second post under a booked key gets the first one's transaction
\* exactly when its body is a reordering of the first one's.
THEOREM ReplaysAreReorderings == Spec => []ReplayIsReordering
<1>1. IInv /\ ReplayInv /\ [Next]_vars => ReplayInv'
  BY NextReplay
<1> QED
  BY <1>1, InitReplay, Invariance, ReplayInvTells, PTL DEF Spec
=============================================================================
