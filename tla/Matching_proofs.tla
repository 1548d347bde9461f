--------------------------- MODULE Matching_proofs --------------------------
(***************************************************************************)
(* Safety of svc-matching, for every value of the constants: first of the  *)
(* journal's file with its lock (JournalWriters), then of the engine above *)
(* the journal (MatchingEngine).                                           *)
(*                                                                         *)
(* The file.  That one process at most writes is not inductive: a process  *)
(* about to unlink a dead writer's lock must still have that lock before   *)
(* it (GateInv), or it would unlink a live writer's.  Nor is it that the   *)
(* next open finds the log: an append must start from a file that holds    *)
(* just the log (QuietInv), on the medium too, or the one that fails would *)
(* leave two inputs in doubt.                                              *)
(*                                                                         *)
(* The engine.  That it is where a replay would be is inductive only with  *)
(* what a mass cancel has left: replay has cancelled these orders already, *)
(* under the sequences the engine is still to give them, and has deleted   *)
(* the book that leaves if it never printed (Later, LeftOver).  That no    *)
(* two trades told have one key is not for the book's counter to give,     *)
(* which restarts with every deleted book: it needs that a trade marks its *)
(* book as printed for good (Sound).  That no order ends twice needs that  *)
(* no order rests twice and none is submitted twice.  Both are proved      *)
(* record by record; FoldLeft is opened for that once, as a table over the *)
(* sets of indices.                                                        *)
(***************************************************************************)
EXTENDS JournalWriters, MatchingEngine, SequenceTheorems, NaturalsInduction, WellFoundedInduction, TLAPS

(***************************************************************************)
(* The journal: file and lock.                                             *)
(***************************************************************************)

-----------------------------------------------------------------------------
(* The lock                                                                *)

Locks == [by : Procs, tries : {0, 1}, written : BOOLEAN]
Owning == {"fill", "own", "releaseStat", "release"}
Stealing == {"gate", "reread", "open", "stat", "unlink"}
Gated == {"reread", "open", "stat", "unlink", "leave", "leaveLocked"}
LockSteps == {"create", "observe", "locked", "closed"} \cup Owning \cup Stealing \cup Gated

Live(p) == life[p] = "live"

LockTypes ==
  /\ life \in [Procs -> {"new", "live", "dead"}]
  /\ at \in [Procs -> LockSteps]
  /\ tries \in [Procs -> {0, 1}]
  /\ lock \in Locks \cup {Lock!NoFile}
  /\ gate \in Procs \cup {Lock!NoProc}
  /\ obs \in [Procs -> Locks \cup {Lock!NoFile}]

\* No two live processes have one pid, a lock is of a process that was started,
\* and a process that was not has done nothing.
PidInv ==
  /\ \A p, q \in Procs : Live(p) /\ Live(q) /\ Pid[p] = Pid[q] => p = q
  /\ lock # Lock!NoFile => life[lock.by] # "new"
  /\ \A p \in Procs : life[p] = "new" => at[p] = "create"

\* Only the first attempt steals.
TriesInv == \A p \in Procs : at[p] \in Stealing \cup Gated \cup {"observe"} => tries[p] = 0

\* The lock file names the process that took it, until that process gives it back.
OwnerInv ==
  \A p \in Procs : Live(p) /\ at[p] \in Owning =>
    /\ lock.by = p /\ lock.tries = tries[p]
    /\ at[p] # "fill" => lock.written

\* One process is inside the gate; the lock it looks for is a dead writer's, and
\* once it has found that lock there again, the lock stays until it is unlinked.
GateInv ==
  \A p \in Procs : Live(p) =>
    /\ at[p] \in Gated => gate = p
    /\ at[p] \in Stealing => obs[p].by \in Procs /\ life[obs[p].by] = "dead"
    /\ at[p] \in {"open", "stat", "unlink"} => Lock!SameNonce(lock, obs[p])

LockInv == LockTypes /\ PidInv /\ TriesInv /\ OwnerInv /\ GateInv

-----------------------------------------------------------------------------
(* Every step of the lock keeps LockInv                                    *)

\* A process starts under a pid no live process has.
LEMMA StartKeepsLock ==
  ASSUME LockInv, NEW p \in Procs, Lock!Start(p)
  PROVE  LockInv'
<1> USE JournalWritersConstants
    DEF LockTypes, Locks, LockSteps, Owning, Stealing, Gated, Live, Lock!At, Lock!Goto,
        Lock!Mine, Lock!SameNonce, Lock!NoFile, Lock!NoProc
<1>1. LockTypes'
  BY DEF LockInv, Lock!Start
<1>2. PidInv'
  BY DEF LockInv, Lock!Start, PidInv
<1>3. TriesInv'
  BY DEF LockInv, Lock!Start, TriesInv
<1>4. OwnerInv'
  BY DEF LockInv, Lock!Start, OwnerInv, PidInv
<1>5. GateInv'
  BY DEF LockInv, Lock!Start, GateInv, PidInv
<1> QED
  BY <1>1, <1>2, <1>3, <1>4, <1>5 DEF LockInv

\* The lock is made only where there was none: nobody has it, and nobody is about to unlink it.
LEMMA CreateKeepsLock ==
  ASSUME LockInv, NEW p \in Procs, Lock!Create(p)
  PROVE  LockInv'
<1> USE JournalWritersConstants
    DEF LockTypes, Locks, LockSteps, Owning, Stealing, Gated, Live, Lock!At, Lock!Goto,
        Lock!Mine, Lock!SameNonce, Lock!NoFile, Lock!NoProc
<1>1. LockTypes'
  <2>1. Lock!Mine(p) \in Locks
    BY DEF LockInv
  <2>2. [Lock!Mine(p) EXCEPT !.written = FALSE] \in Locks
    <3> HIDE DEF Lock!Mine
    <3> QED
      BY <2>1
  <2>3. lock' \in Locks \cup {Lock!NoFile}
    BY <2>2 DEF LockInv, Lock!Create
  <2>4. at' \in [Procs -> LockSteps]
    BY DEF LockInv, Lock!Create
  <2> QED
    BY <2>3, <2>4 DEF LockInv, Lock!Create
<1>2. PidInv'
  BY DEF LockInv, Lock!Create, PidInv
<1>3. TriesInv'
  BY DEF LockInv, Lock!Create, TriesInv
<1>4. OwnerInv'
  BY DEF LockInv, Lock!Create, OwnerInv
<1>5. GateInv'
  BY DEF LockInv, Lock!Create, GateInv
<1> QED
  BY <1>1, <1>2, <1>3, <1>4, <1>5 DEF LockInv

\* The lock is still the one this process made.
LEMMA FillKeepsLock ==
  ASSUME LockInv, NEW p \in Procs, Lock!Fill(p)
  PROVE  LockInv'
<1> USE JournalWritersConstants
    DEF LockTypes, Locks, LockSteps, Owning, Stealing, Gated, Live, Lock!At, Lock!Goto,
        Lock!Mine, Lock!SameNonce, Lock!NoFile, Lock!NoProc
<1>1. LockTypes'
  BY DEF LockInv, Lock!Fill
<1>2. PidInv'
  BY DEF LockInv, Lock!Fill, PidInv, OwnerInv
<1>3. TriesInv'
  BY DEF LockInv, Lock!Fill, TriesInv
<1>4. OwnerInv'
  BY DEF LockInv, Lock!Fill, OwnerInv
<1>5. GateInv'
  BY DEF LockInv, Lock!Fill, GateInv
<1> QED
  BY <1>1, <1>2, <1>3, <1>4, <1>5 DEF LockInv

\* A lock is looked for in the gate only when its writer is dead.
LEMMA ObserveKeepsLock ==
  ASSUME LockInv, NEW p \in Procs, Lock!Observe(p)
  PROVE  LockInv'
<1> USE JournalWritersConstants
    DEF LockTypes, Locks, LockSteps, Owning, Stealing, Gated, Live, Lock!At, Lock!Goto,
        Lock!Mine, Lock!SameNonce, Lock!NoFile, Lock!NoProc, Lock!CanSteal, Lock!PidIsLive, Lock!Again
<1>1. LockTypes'
  BY DEF LockInv, Lock!Observe, TriesInv
<1>2. PidInv'
  BY DEF LockInv, Lock!Observe, PidInv
<1>3. TriesInv'
  BY DEF LockInv, Lock!Observe, TriesInv
<1>4. OwnerInv'
  BY DEF LockInv, Lock!Observe, OwnerInv
<1>5. GateInv'
  BY DEF LockInv, Lock!Observe, GateInv, PidInv
<1> QED
  BY <1>1, <1>2, <1>3, <1>4, <1>5 DEF LockInv

\* The gate admits one process.
LEMMA EnterGateKeepsLock ==
  ASSUME LockInv, NEW p \in Procs, Lock!EnterGate(p)
  PROVE  LockInv'
<1> USE JournalWritersConstants
    DEF LockTypes, Locks, LockSteps, Owning, Stealing, Gated, Live, Lock!At, Lock!Goto,
        Lock!Mine, Lock!SameNonce, Lock!NoFile, Lock!NoProc
<1>1. LockTypes'
  BY DEF LockInv, Lock!EnterGate
<1>2. PidInv'
  BY DEF LockInv, Lock!EnterGate, PidInv
<1>3. TriesInv'
  BY DEF LockInv, Lock!EnterGate, TriesInv
<1>4. OwnerInv'
  BY DEF LockInv, Lock!EnterGate, OwnerInv
<1>5. GateInv'
  BY DEF LockInv, Lock!EnterGate, GateInv
<1> QED
  BY <1>1, <1>2, <1>3, <1>4, <1>5 DEF LockInv

\* Inside the gate the lock of the first look is found again, or left alone.
LEMMA RereadKeepsLock ==
  ASSUME LockInv, NEW p \in Procs, Lock!Reread(p)
  PROVE  LockInv'
<1> USE JournalWritersConstants
    DEF LockTypes, Locks, LockSteps, Owning, Stealing, Gated, Live, Lock!At, Lock!Goto,
        Lock!Mine, Lock!SameNonce, Lock!NoFile, Lock!NoProc, Lock!CanSteal, Lock!PidIsLive
<1>1. LockTypes'
  BY DEF LockInv, Lock!Reread
<1>2. PidInv'
  BY DEF LockInv, Lock!Reread, PidInv
<1>3. TriesInv'
  BY DEF LockInv, Lock!Reread, TriesInv
<1>4. OwnerInv'
  BY DEF LockInv, Lock!Reread, OwnerInv
<1>5. GateInv'
  BY DEF LockInv, Lock!Reread, GateInv
<1> QED
  BY <1>1, <1>2, <1>3, <1>4, <1>5 DEF LockInv

LEMMA OpenLockKeepsLock ==
  ASSUME LockInv, NEW p \in Procs, Lock!OpenLock(p)
  PROVE  LockInv'
<1> USE JournalWritersConstants
    DEF LockTypes, Locks, LockSteps, Owning, Stealing, Gated, Live, Lock!At, Lock!Goto,
        Lock!Mine, Lock!SameNonce, Lock!NoFile, Lock!NoProc
<1>1. LockTypes'
  BY DEF LockInv, Lock!OpenLock
<1>2. PidInv'
  BY DEF LockInv, Lock!OpenLock, PidInv
<1>3. TriesInv'
  BY DEF LockInv, Lock!OpenLock, TriesInv
<1>4. OwnerInv'
  BY DEF LockInv, Lock!OpenLock, OwnerInv
<1>5. GateInv'
  BY DEF LockInv, Lock!OpenLock, GateInv
<1> QED
  BY <1>1, <1>2, <1>3, <1>4, <1>5 DEF LockInv

LEMMA StatLockKeepsLock ==
  ASSUME LockInv, NEW p \in Procs, Lock!StatLock(p)
  PROVE  LockInv'
<1> USE JournalWritersConstants
    DEF LockTypes, Locks, LockSteps, Owning, Stealing, Gated, Live, Lock!At, Lock!Goto,
        Lock!Mine, Lock!SameNonce, Lock!NoFile, Lock!NoProc
<1>1. LockTypes'
  BY DEF LockInv, Lock!StatLock
<1>2. PidInv'
  BY DEF LockInv, Lock!StatLock, PidInv
<1>3. TriesInv'
  BY DEF LockInv, Lock!StatLock, TriesInv
<1>4. OwnerInv'
  BY DEF LockInv, Lock!StatLock, OwnerInv
<1>5. GateInv'
  BY DEF LockInv, Lock!StatLock, GateInv
<1> QED
  BY <1>1, <1>2, <1>3, <1>4, <1>5 DEF LockInv

\* The lock that goes is the dead writer's: no owner loses its own.
LEMMA UnlinkKeepsLock ==
  ASSUME LockInv, NEW p \in Procs, Lock!Unlink(p)
  PROVE  LockInv'
<1> USE JournalWritersConstants
    DEF LockTypes, Locks, LockSteps, Owning, Stealing, Gated, Live, Lock!At, Lock!Goto,
        Lock!Mine, Lock!SameNonce, Lock!NoFile, Lock!NoProc
<1>1. LockTypes'
  BY DEF LockInv, Lock!Unlink
<1>2. PidInv'
  BY DEF LockInv, Lock!Unlink, PidInv
<1>3. TriesInv'
  BY DEF LockInv, Lock!Unlink, TriesInv
<1>4. OwnerInv'
  BY DEF LockInv, Lock!Unlink, OwnerInv, GateInv
<1>5. GateInv'
  BY DEF LockInv, Lock!Unlink, GateInv
<1> QED
  BY <1>1, <1>2, <1>3, <1>4, <1>5 DEF LockInv

\* Only a first attempt was inside the gate, so a second one is the last.
LEMMA LeaveGateKeepsLock ==
  ASSUME LockInv, NEW p \in Procs, Lock!LeaveGate(p)
  PROVE  LockInv'
<1> USE JournalWritersConstants
    DEF LockTypes, Locks, LockSteps, Owning, Stealing, Gated, Live, Lock!At, Lock!Goto,
        Lock!Mine, Lock!SameNonce, Lock!NoFile, Lock!NoProc, Lock!Again
<1>1. LockTypes'
  BY DEF LockInv, Lock!LeaveGate, TriesInv
<1>2. PidInv'
  BY DEF LockInv, Lock!LeaveGate, PidInv
<1>3. TriesInv'
  BY DEF LockInv, Lock!LeaveGate, TriesInv
<1>4. OwnerInv'
  BY DEF LockInv, Lock!LeaveGate, OwnerInv
<1>5. GateInv'
  BY DEF LockInv, Lock!LeaveGate, GateInv
<1> QED
  BY <1>1, <1>2, <1>3, <1>4, <1>5 DEF LockInv

LEMMA CloseKeepsLock ==
  ASSUME LockInv, NEW p \in Procs, Lock!Close(p)
  PROVE  LockInv'
<1> USE JournalWritersConstants
    DEF LockTypes, Locks, LockSteps, Owning, Stealing, Gated, Live, Lock!At, Lock!Goto,
        Lock!Mine, Lock!SameNonce, Lock!NoFile, Lock!NoProc
<1>1. LockTypes'
  BY DEF LockInv, Lock!Close
<1>2. PidInv'
  BY DEF LockInv, Lock!Close, PidInv
<1>3. TriesInv'
  BY DEF LockInv, Lock!Close, TriesInv
<1>4. OwnerInv'
  BY DEF LockInv, Lock!Close, OwnerInv
<1>5. GateInv'
  BY DEF LockInv, Lock!Close, GateInv
<1> QED
  BY <1>1, <1>2, <1>3, <1>4, <1>5 DEF LockInv

LEMMA ReleaseStatKeepsLock ==
  ASSUME LockInv, NEW p \in Procs, Lock!ReleaseStat(p)
  PROVE  LockInv'
<1> USE JournalWritersConstants
    DEF LockTypes, Locks, LockSteps, Owning, Stealing, Gated, Live, Lock!At, Lock!Goto,
        Lock!Mine, Lock!SameNonce, Lock!NoFile, Lock!NoProc
<1>1. LockTypes'
  BY DEF LockInv, Lock!ReleaseStat
<1>2. PidInv'
  BY DEF LockInv, Lock!ReleaseStat, PidInv
<1>3. TriesInv'
  BY DEF LockInv, Lock!ReleaseStat, TriesInv
<1>4. OwnerInv'
  BY DEF LockInv, Lock!ReleaseStat, OwnerInv
<1>5. GateInv'
  BY DEF LockInv, Lock!ReleaseStat, GateInv
<1> QED
  BY <1>1, <1>2, <1>3, <1>4, <1>5 DEF LockInv

\* The owner unlinks its own lock, which nobody was about to steal.
LEMMA ReleaseKeepsLock ==
  ASSUME LockInv, NEW p \in Procs, Lock!Release(p)
  PROVE  LockInv'
<1> USE JournalWritersConstants
    DEF LockTypes, Locks, LockSteps, Owning, Stealing, Gated, Live, Lock!At, Lock!Goto,
        Lock!Mine, Lock!SameNonce, Lock!NoFile, Lock!NoProc
<1>1. LockTypes'
  BY DEF LockInv, Lock!Release
<1>2. PidInv'
  BY DEF LockInv, Lock!Release, PidInv
<1>3. TriesInv'
  BY DEF LockInv, Lock!Release, TriesInv
<1>4. OwnerInv'
  BY DEF LockInv, Lock!Release, OwnerInv
<1>5. GateInv'
  BY DEF LockInv, Lock!Release, GateInv, OwnerInv
<1> QED
  BY <1>1, <1>2, <1>3, <1>4, <1>5 DEF LockInv

\* The lock of a process that dies names a dead writer.
LEMMA DieKeepsLock ==
  ASSUME LockInv, NEW p \in Procs, Lock!Die(p)
  PROVE  LockInv'
<1> USE JournalWritersConstants
    DEF LockTypes, Locks, LockSteps, Owning, Stealing, Gated, Live, Lock!At, Lock!Goto,
        Lock!Mine, Lock!SameNonce, Lock!NoFile, Lock!NoProc
<1>1. LockTypes'
  BY DEF LockInv, Lock!Die
<1>2. PidInv'
  BY DEF LockInv, Lock!Die, PidInv
<1>3. TriesInv'
  BY DEF LockInv, Lock!Die, TriesInv
<1>4. OwnerInv'
  BY DEF LockInv, Lock!Die, OwnerInv
<1>5. GateInv'
  BY DEF LockInv, Lock!Die, GateInv
<1> QED
  BY <1>1, <1>2, <1>3, <1>4, <1>5 DEF LockInv

\* A power loss leaves no live process: the lock, if it is still there, is a dead
\* writer's.
LEMMA PowerLossKeepsLock ==
  ASSUME LockInv, PowerLoss
  PROVE  LockInv'
<1> USE DEF LockTypes, Locks, LockSteps, Owning, Stealing, Gated, Live
<1>1. lock' \in Locks \cup {Lock!NoFile} /\ (lock' # Lock!NoFile => lock'.by = lock.by /\ lock # Lock!NoFile)
  <2>1. CASE lock = Lock!NoFile
    BY <2>1 DEF PowerLoss, Lock!NoFile
  <2>2. CASE lock # Lock!NoFile
    <3>1. lock \in Locks
      BY <2>2 DEF LockInv
    <3>2. [lock EXCEPT !.written = FALSE] \in Locks /\ [lock EXCEPT !.written = FALSE].by = lock.by
      BY <3>1
    <3> QED
      BY <2>2, <3>1, <3>2 DEF PowerLoss
  <2> QED
    BY <2>1, <2>2
<1>2. /\ life' = [p \in Procs |-> IF life[p] = "live" THEN "dead" ELSE life[p]]
      /\ gate' \in {gate, Lock!NoProc} /\ UNCHANGED <<at, tries, obs>>
  BY DEF PowerLoss
<1>3. LockTypes'
  BY <1>1, <1>2 DEF LockInv
<1>4. PidInv'
  BY <1>1, <1>2 DEF LockInv, PidInv
<1>5. TriesInv'
  BY <1>2 DEF LockInv, TriesInv
<1>6. OwnerInv' /\ GateInv'
  BY <1>2 DEF LockInv, OwnerInv, GateInv
<1> QED
  BY <1>3, <1>4, <1>5, <1>6 DEF LockInv

\* No process has started, and there is no lock.
LEMMA InitLock ==
  ASSUME Lock!Init
  PROVE  LockInv
BY JournalWritersConstants
   DEF Lock!Init, LockInv, LockTypes, PidInv, TriesInv, OwnerInv, GateInv, Locks, LockSteps,
       Owning, Stealing, Gated, Live, Lock!NoFile, Lock!NoProc

\* The lock is kept by every step, whoever takes it.
LEMMA LockStepKeeps ==
  ASSUME LockInv, NEW p \in Procs, Lock!Step(p) \/ Lock!Close(p) \/ Lock!Die(p)
  PROVE  LockInv'
BY StartKeepsLock, CreateKeepsLock, FillKeepsLock, ObserveKeepsLock, EnterGateKeepsLock,
   RereadKeepsLock, OpenLockKeepsLock, StatLockKeepsLock, UnlinkKeepsLock, LeaveGateKeepsLock,
   CloseKeepsLock, ReleaseStatKeepsLock, ReleaseKeepsLock, DieKeepsLock
   DEF Lock!Step, Lock!Acquire

\* The one whose lock it is: two owners would both be named by the lock file.
LEMMA LockInvIsOneWriter ==
  ASSUME LockInv
  PROVE  OneWriter
<1>1. ASSUME NEW p \in Procs, Lock!At(p, "own")
      PROVE  lock.by = p /\ lock = Lock!Mine(p)
  <2>1. lock.by = p /\ lock.tries = tries[p] /\ lock.written
    BY <1>1 DEF LockInv, OwnerInv, Owning, Lock!At, Live
  <2>2. lock \in Locks
    BY <2>1, JournalWritersConstants DEF LockInv, LockTypes, Lock!NoFile
  <2> QED
    BY <2>1, <2>2 DEF Locks, Lock!Mine
<1> QED
  BY <1>1 DEF OneWriter, Lock!OneWriter
-----------------------------------------------------------------------------
(* The file                                                                *)

\* A file the next open accepts, with every admitted input in its place, at most
\* one more, and no input twice or refused.
Good(f) ==
  /\ f \in Seq(File!Lines)
  /\ Len(f) \in {Len(admitted), Len(admitted) + 1}
  /\ \A i \in 1 .. Len(f) :
       /\ f[i].seq = i /\ f[i].input \notin refused
       /\ f[i].kind = "rec" \/ (i = Len(f) /\ f[i].kind \in {"bare", "torn"})
       /\ \A j \in 1 .. Len(f) : f[i].input = f[j].input => i = j
  /\ \A i \in 1 .. Len(admitted) : f[i].input = admitted[i] /\ f[i].kind # "torn"

\* Whatever stops now, what the next open reads is such a file.
DiskInv == \A f \in media \cup {file} : Good(f)

AllWhole(f) == \A i \in 1 .. Len(f) : f[i].kind = "rec"

\* A rewritten file is what the process has decoded.
RenameInv == pc = "rename" => records = file /\ AllWhole(file)

\* Before an append nothing is in doubt: the file is what was admitted, on the
\* medium too.
QuietInv ==
  pc \in {"up", "write"} /\ ~ioUnknown =>
    media = {file} /\ Len(file) = Len(admitted) /\ AllWhole(file)

\* An append under way is of a new input, under the next sequence.
AppendInv ==
  /\ pc = "up" /\ ~ioUnknown => Len(records) = Len(admitted)
  /\ pc \in {"write", "sync", "truncate"} =>
       /\ ~ioUnknown /\ Len(records) = Len(admitted)
       /\ cur \in Inputs \ refused /\ \A i \in 1 .. Len(admitted) : admitted[i] # cur
  /\ pc \in {"sync", "truncate"} => Len(file) = Len(admitted) + 1 /\ file[Len(file)].input = cur
  /\ pc = "sync" => AllWhole(file)

FileInv == File!TypeOK /\ DiskInv /\ RenameInv /\ QuietInv /\ AppendInv

LEMMA FrontOfSeq ==
  ASSUME NEW S, NEW s \in Seq(S), Len(s) > 0
  PROVE  /\ SubSeq(s, 1, Len(s) - 1) \in Seq(S)
         /\ Len(SubSeq(s, 1, Len(s) - 1)) = Len(s) - 1
         /\ \A i \in 1 .. Len(s) - 1 : SubSeq(s, 1, Len(s) - 1)[i] = s[i]
<1> DEFINE n == Len(s) - 1
           t == SubSeq(s, 1, n)
<1>1. n \in Nat /\ \A i \in 1 .. n : s[i] \in S
  OBVIOUS
<1> HIDE DEF n
<1>2. /\ t \in Seq(S)
      /\ Len(t) = IF 1 <= n THEN n - 1 + 1 ELSE 0
      /\ \A i \in 1 .. n - 1 + 1 : t[i] = s[1 + i - 1]
  BY <1>1, SubSeqProperties, SMT
<1> HIDE DEF t
<1>3. Len(t) = n /\ \A i \in 1 .. n : t[i] = s[i]
  BY <1>1, <1>2
<1> QED
  BY <1>2, <1>3 DEF n, t

LEMMA DecodeKeeps ==
  ASSUME NEW f, Good(f), admitted \in Seq(Inputs)
  PROVE  LET d == File!Decode(f) IN
           /\ d \in Seq(File!Lines)
           /\ Len(d) \in {Len(admitted), Len(admitted) + 1}
           /\ \A i \in 1 .. Len(d) : d[i] = f[i] /\ i <= Len(f) /\ File!Parses(d[i])
<1> DEFINE d == File!Decode(f)
<1>1. f \in Seq(File!Lines) /\ Len(f) \in Nat /\ Len(admitted) \in Nat
  BY DEF Good
<1>2. CASE f = <<>> \/ File!Parses(f[Len(f)])
  <2>1. d = f
    BY <1>2 DEF File!Decode, File!Last
  <2> QED
    BY <1>1, <1>2, <2>1 DEF Good, File!Parses
<1>3. CASE f # <<>> /\ ~File!Parses(f[Len(f)])
  <2>1. Len(f) > 0
    BY <1>1, <1>3
  <2>2. Len(f) # Len(admitted)
    BY <1>1, <1>3, <2>1 DEF Good, File!Parses
  <2>3. d = SubSeq(f, 1, Len(f) - 1)
    BY <1>3 DEF File!Decode, File!Last, File!Front
  <2>4. d \in Seq(File!Lines) /\ Len(d) = Len(f) - 1 /\ \A i \in 1 .. Len(f) - 1 : d[i] = f[i]
    BY <1>1, <2>1, <2>3, FrontOfSeq
  <2> QED
    BY <1>1, <2>1, <2>2, <2>4 DEF Good, File!Parses
<1> QED
  BY <1>2, <1>3

\* A file the invariant allows is accepted, with all that was admitted and
\* nothing that was refused.
LEMMA GoodIsAccepted ==
  ASSUME NEW f, Good(f), admitted \in Seq(Inputs)
  PROVE  /\ ~File!Corrupt(f)
         /\ File!IsPrefix(admitted, File!InputsOf(File!Decode(f)))
         /\ \A i \in DOMAIN File!Decode(f) : File!Decode(f)[i].seq = i
         /\ File!Range(File!InputsOf(File!Decode(f))) \cap refused = {}
<1> DEFINE d == File!Decode(f)
           inputs == File!InputsOf(d)
<1>1. /\ d \in Seq(File!Lines)
      /\ Len(d) \in {Len(admitted), Len(admitted) + 1}
      /\ \A i \in 1 .. Len(d) : d[i] = f[i] /\ i <= Len(f) /\ File!Parses(d[i])
  BY DecodeKeeps
<1> HIDE DEF d
<1>2. f \in Seq(File!Lines) /\ Len(f) \in Nat
  BY DEF Good
<1>3. ~File!Corrupt(f)
  BY <1>2 DEF Good, File!Corrupt, File!Parses
<1>4. DOMAIN inputs = 1 .. Len(d) /\ \A i \in 1 .. Len(d) : inputs[i] = f[i].input
  BY <1>1 DEF File!InputsOf
<1>5. inputs \in Seq(Inputs) /\ Len(inputs) = Len(d)
  <2>1. \A i \in 1 .. Len(d) : d[i].input \in Inputs
    <3> SUFFICES ASSUME NEW i \in 1 .. Len(d) PROVE d[i].input \in Inputs
      OBVIOUS
    <3>1. d[i] \in File!Lines
      BY <1>1, ElementOfSeq
    <3> QED
      BY <3>1 DEF File!Lines
  <2>2. inputs = [i \in 1 .. Len(d) |-> d[i].input]
    BY <1>1 DEF File!InputsOf
  <2> HIDE DEF inputs
  <2> QED
    BY <1>1, <2>1, <2>2
<1>6. \A i \in 1 .. Len(admitted) : inputs[i] = admitted[i]
  BY <1>1, <1>2, <1>4 DEF Good
<1> HIDE DEF inputs
<1>7. SubSeq(admitted, 1, Len(admitted)) = SubSeq(inputs, 1, Len(admitted))
  <2>1. Len(admitted) \in Nat /\ Len(admitted) <= Len(inputs)
    BY <1>1, <1>5
  <2>2. \A i \in 1 .. Len(admitted) : admitted[i] \in Inputs /\ inputs[i] \in Inputs
    BY <1>5, <2>1
  <2>3. /\ SubSeq(admitted, 1, Len(admitted)) \in Seq(Inputs)
        /\ SubSeq(inputs, 1, Len(admitted)) \in Seq(Inputs)
        /\ Len(SubSeq(admitted, 1, Len(admitted))) = Len(SubSeq(inputs, 1, Len(admitted)))
        /\ \A i \in 1 .. Len(admitted) :
             SubSeq(admitted, 1, Len(admitted))[i] = SubSeq(inputs, 1, Len(admitted))[i]
        /\ Len(SubSeq(admitted, 1, Len(admitted))) = Len(admitted)
    BY <1>6, <2>1, <2>2, SubSeqProperties
  <2> QED
    BY <2>3, SeqEqual
<1>8. File!IsPrefix(admitted, inputs)
  BY <1>1, <1>5, <1>7 DEF File!IsPrefix
<1>9. \A i \in DOMAIN d : d[i].seq = i
  BY <1>1, <1>2 DEF Good
<1>10. File!Range(inputs) \cap refused = {}
  BY <1>1, <1>2, <1>4 DEF Good, File!Range
<1> QED
  BY <1>3, <1>8, <1>9, <1>10 DEF d, inputs

\* What the constructor writes back is whole, and good as what it read.
LEMMA CleanIsGood ==
  ASSUME NEW f, Good(f), admitted \in Seq(Inputs)
  PROVE  Good(File!Clean(f)) /\ AllWhole(File!Clean(f))
<1> DEFINE d == File!Decode(f)
           c == File!Clean(f)
<1>1. /\ d \in Seq(File!Lines)
      /\ Len(d) \in {Len(admitted), Len(admitted) + 1}
      /\ \A i \in 1 .. Len(d) : d[i] = f[i] /\ i <= Len(f) /\ File!Parses(d[i])
  BY DecodeKeeps
<1>2. c = [i \in 1 .. Len(d) |-> [d[i] EXCEPT !.kind = "rec"]]
  BY <1>1 DEF File!Clean
<1> HIDE DEF d, c
<1>3. \A i \in 1 .. Len(d) : /\ [d[i] EXCEPT !.kind = "rec"] \in File!Lines
                             /\ [d[i] EXCEPT !.kind = "rec"].kind = "rec"
                             /\ [d[i] EXCEPT !.kind = "rec"].input = d[i].input
                             /\ [d[i] EXCEPT !.kind = "rec"].seq = d[i].seq
  <2> SUFFICES ASSUME NEW i \in 1 .. Len(d)
               PROVE  /\ [d[i] EXCEPT !.kind = "rec"] \in File!Lines
                      /\ [d[i] EXCEPT !.kind = "rec"].kind = "rec"
                      /\ [d[i] EXCEPT !.kind = "rec"].input = d[i].input
                      /\ [d[i] EXCEPT !.kind = "rec"].seq = d[i].seq
    OBVIOUS
  <2>1. d[i] \in File!Lines
    BY <1>1, ElementOfSeq
  <2> QED
    BY <2>1 DEF File!Lines
<1>4. /\ c \in Seq(File!Lines) /\ Len(c) = Len(d)
      /\ \A i \in 1 .. Len(d) : c[i].kind = "rec" /\ c[i].input = f[i].input /\ c[i].seq = f[i].seq
  <2>1. c \in Seq(File!Lines) /\ Len(c) = Len(d)
    BY <1>1, <1>2, <1>3
  <2>2. \A i \in 1 .. Len(d) : c[i] = [d[i] EXCEPT !.kind = "rec"]
    BY <1>2
  <2> QED
    BY <1>1, <1>3, <2>1, <2>2
<1>5. f \in Seq(File!Lines) /\ Len(f) \in Nat /\ Len(admitted) \in Nat
  BY DEF Good
<1>6. Good(c)
  <2>1. \A i \in 1 .. Len(c) : i \in 1 .. Len(f) /\ f[i].seq = i /\ f[i].input \notin refused
    BY <1>1, <1>4, <1>5 DEF Good
  <2>2. \A i, j \in 1 .. Len(f) : f[i].input = f[j].input => i = j
    BY DEF Good
  <2>3. \A i \in 1 .. Len(admitted) : f[i].input = admitted[i] /\ i \in 1 .. Len(c)
    BY <1>1, <1>4, <1>5 DEF Good
  <2>4. \A i, j \in 1 .. Len(c) : c[i].input = c[j].input => i = j
    BY <1>4, <2>1, <2>2
  <2>5. c \in Seq(File!Lines) /\ Len(c) \in {Len(admitted), Len(admitted) + 1}
    BY <1>1, <1>4
  <2> QED
    BY <1>4, <2>1, <2>3, <2>4, <2>5 DEF Good
<1>7. AllWhole(c)
  BY <1>4 DEF AllWhole
<1> QED
  BY <1>6, <1>7 DEF c

\* A line written after whole ones goes to the end of the file; whatever of it
\* is there, the next open accepts the file.
LEMMA WrittenIsGood ==
  ASSUME FileInv, pc = "write", NEW k \in {"rec", "bare", "torn"},
         NEW l \in File!Lines, l.kind = k, l.input = cur, l.seq = Len(records) + 1
  PROVE  /\ File!Written(file, l) = Append(file, l)
         /\ Good(Append(file, l))
         /\ Len(Append(file, l)) = Len(admitted) + 1
         /\ Append(file, l)[Len(admitted) + 1] = l
         /\ k = "rec" => AllWhole(Append(file, l))
<1> DEFINE g == Append(file, l)
<1>1. /\ Good(file) /\ AllWhole(file) /\ Len(file) = Len(admitted) /\ Len(records) = Len(admitted)
      /\ cur \in Inputs \ refused /\ \A i \in 1 .. Len(admitted) : admitted[i] # cur
      /\ admitted \in Seq(Inputs)
  BY DEF FileInv, DiskInv, QuietInv, AppendInv, File!TypeOK
<1>2. file \in Seq(File!Lines) /\ Len(file) \in Nat
  BY <1>1 DEF Good
<1>3. /\ g \in Seq(File!Lines) /\ Len(g) = Len(file) + 1 /\ g[Len(file) + 1] = l
      /\ \A i \in 1 .. Len(file) : g[i] = file[i]
  BY <1>2, AppendProperties
<1>4. ~File!EndsCut(file)
  BY <1>1, <1>2 DEF AllWhole, File!EndsCut, File!Cut, File!Last
<1>5. File!Written(file, l) = g
  BY <1>4 DEF File!Written
<1> HIDE DEF g
<1>6. \A i \in 1 .. Len(g) : i \in 1 .. Len(file) \/ i = Len(file) + 1
  BY <1>2, <1>3
<1>7. \A i \in 1 .. Len(g), j \in 1 .. Len(g) : g[i].input = g[j].input => i = j
  BY <1>1, <1>2, <1>3, <1>6 DEF Good
<1>8. \A i \in 1 .. Len(g) : g[i].seq = i /\ g[i].input \notin refused
  BY <1>1, <1>2, <1>3, <1>6 DEF Good
<1>9. \A i \in 1 .. Len(g) : g[i].kind = "rec" \/ (i = Len(g) /\ g[i].kind \in {"bare", "torn"})
  BY <1>1, <1>2, <1>3, <1>6 DEF AllWhole
<1>10. \A i \in 1 .. Len(admitted) : g[i].input = admitted[i] /\ g[i].kind # "torn"
  BY <1>1, <1>2, <1>3 DEF Good
<1>11. Good(g)
  BY <1>1, <1>3, <1>7, <1>8, <1>9, <1>10 DEF Good
<1>12. k = "rec" => AllWhole(g)
  BY <1>1, <1>3, <1>6 DEF AllWhole
<1> QED
  BY <1>1, <1>3, <1>5, <1>11, <1>12 DEF g

LEMMA PartlyIsGood ==
  ASSUME FileInv, pc = "write", NEW g \in File!Partly(file, File!NewLine)
  PROVE  Good(g)
<1>1. Len(records) \in Nat /\ cur \in Inputs
  BY DEF FileInv, File!TypeOK, AppendInv
<1>2. ASSUME NEW k \in {"rec", "bare", "torn"}
      PROVE  /\ [File!NewLine EXCEPT !.kind = k] \in File!Lines
             /\ [File!NewLine EXCEPT !.kind = k].kind = k
             /\ [File!NewLine EXCEPT !.kind = k].input = cur
             /\ [File!NewLine EXCEPT !.kind = k].seq = Len(records) + 1
  <2>1. /\ File!NewLine \in File!Lines
        /\ File!NewLine.input = cur /\ File!NewLine.seq = Len(records) + 1
    BY <1>1 DEF File!NewLine, File!Line, File!Lines
  <2> QED
    BY <2>1 DEF File!Lines
<1>3. g = file \/ \E k \in {"rec", "bare", "torn"} : g = File!Written(file, [File!NewLine EXCEPT !.kind = k])
  <2>1. File!NewLine.kind = "rec"
    BY DEF File!NewLine, File!Line
  <2> QED
    BY <2>1 DEF File!Partly, File!Cut
<1>4. Good(file)
  BY DEF FileInv, DiskInv
<1>5. ASSUME NEW k \in {"rec", "bare", "torn"}, g = File!Written(file, [File!NewLine EXCEPT !.kind = k])
      PROVE  Good(g)
  <2> DEFINE l == [File!NewLine EXCEPT !.kind = k]
  <2>1. l \in File!Lines /\ l.kind = k /\ l.input = cur /\ l.seq = Len(records) + 1
    BY <1>2
  <2> HIDE DEF l
  <2>2. File!Written(file, l) = Append(file, l) /\ Good(Append(file, l))
    BY <2>1, WrittenIsGood
  <2> QED
    BY <1>5, <2>2 DEF l
<1> QED
  BY <1>3, <1>4, <1>5

-----------------------------------------------------------------------------
(* Every step of the file keeps FileInv                                    *)

\* Nothing is on the disk but what was there and what a good write can leave.
LEMMA DiskStays ==
  ASSUME DiskInv, UNCHANGED <<admitted, refused>>,
         \A f \in media' \cup {file'} : f \in media \cup {file} \/ Good(f)
  PROVE  DiskInv'
<1> SUFFICES ASSUME NEW f \in media' \cup {file'}
             PROVE  Good(f)'
  BY DEF DiskInv
<1>1. Good(f)
  BY DEF DiskInv
<1> QED
  BY <1>1 DEF Good

\* Types of the file and the medium are those of good files.
LEMMA FileTypes ==
  ASSUME DiskInv',
         pc' \in {"down", "rewrite", "rename", "up", "write", "sync", "truncate"},
         cur' \in Inputs \cup {File!NoInput}, records' \in Seq(File!Lines), ioUnknown' \in BOOLEAN,
         admitted' \in Seq(Inputs), refused' \subseteq Inputs
  PROVE  File!TypeOK'
<1>1. file' \in Seq(File!Lines) /\ media' \subseteq Seq(File!Lines)
  BY DEF DiskInv, Good
<1> QED
  BY <1>1 DEF File!TypeOK

\* A process that ends leaves what is on the disk, or what the medium kept of it.
LEMMA EndKeeps ==
  ASSUME FileInv, File!Gone \/ (pc' = "down" /\ records' = <<>> /\ UNCHANGED <<cur, ioUnknown>>),
         file' \in media \cup {file}, media' \subseteq media \cup {file},
         UNCHANGED <<admitted, refused>>
  PROVE  FileInv'
<1>1. DiskInv'
  BY DiskStays DEF FileInv
<1>2. pc' = "down" /\ records' = <<>> /\ cur' \in {cur, File!NoInput} /\ ioUnknown' \in {ioUnknown, FALSE}
  BY DEF File!Gone
<1>3. <<>> \in Seq(File!Lines)
  OBVIOUS
<1>4. File!TypeOK'
  BY <1>1, <1>2, <1>3, FileTypes DEF FileInv, File!TypeOK
<1>5. RenameInv' /\ QuietInv' /\ AppendInv'
  BY <1>2 DEF RenameInv, QuietInv, AppendInv
<1> QED
  BY <1>1, <1>4, <1>5 DEF FileInv

LEMMA ReadKeeps ==
  ASSUME FileInv, File!Read
  PROVE  FileInv'
<1>1. DiskInv'
  BY DiskStays DEF FileInv, File!Read, File!disk
<1>2. File!TypeOK'
  BY DEF FileInv, File!TypeOK, File!Read, File!disk
<1>3. RenameInv' /\ QuietInv' /\ AppendInv'
  BY DEF RenameInv, QuietInv, AppendInv, File!Read
<1> QED
  BY <1>1, <1>2, <1>3 DEF FileInv

\* The path and the medium get the clean file, which the process remembers.
LEMMA RenameKeeps ==
  ASSUME FileInv, File!Rename
  PROVE  FileInv'
<1>1. Good(File!Clean(file)) /\ AllWhole(File!Clean(file))
  BY CleanIsGood DEF FileInv, DiskInv, File!TypeOK
<1>2. DiskInv'
  BY <1>1, DiskStays DEF FileInv, File!Rename
<1>3. File!Clean(file) \in Seq(File!Lines)
  BY <1>1 DEF Good
<1>4. File!TypeOK'
  BY <1>2, <1>3, FileTypes DEF FileInv, File!TypeOK, File!Rename
<1>5. RenameInv' /\ QuietInv' /\ AppendInv'
  BY <1>1 DEF RenameInv, QuietInv, AppendInv, AllWhole, File!Rename
<1> QED
  BY <1>2, <1>4, <1>5 DEF FileInv

\* The engine takes every record that was read as admitted.
LEMMA OpenedKeeps ==
  ASSUME FileInv, File!Opened
  PROVE  FileInv'
<1>1. Good(file) /\ AllWhole(file) /\ records = file /\ admitted \in Seq(Inputs)
  BY DEF FileInv, DiskInv, RenameInv, File!Opened, File!TypeOK
<1>2. file \in Seq(File!Lines) /\ Len(file) \in Nat
  BY <1>1 DEF Good
<1>3. \A i \in 1 .. Len(file) : file[i].input \in Inputs
  <2> SUFFICES ASSUME NEW i \in 1 .. Len(file)
               PROVE  file[i].input \in Inputs
    OBVIOUS
  <2>1. file[i] \in File!Lines
    BY <1>2, ElementOfSeq
  <2> QED
    BY <2>1 DEF File!Lines
<1>4. admitted' = [i \in 1 .. Len(file) |-> file[i].input]
  BY <1>1, <1>2 DEF File!Opened, File!InputsOf
<1>5. /\ admitted' \in Seq(Inputs) /\ Len(admitted') = Len(file)
      /\ \A i \in 1 .. Len(file) : admitted'[i] = file[i].input
  BY <1>2, <1>3, <1>4
<1>6. UNCHANGED <<file, cur, records, refused>> /\ media' = {file} /\ pc' = "up" /\ ioUnknown' = FALSE
  BY DEF File!Opened
<1>7. DiskInv'
  <2>1. ASSUME NEW f, f = file
        PROVE  Good(f)'
    BY <1>1, <1>2, <1>5, <1>6, <2>1 DEF Good, AllWhole
  <2> QED
    BY <1>6, <2>1 DEF DiskInv
<1>8. File!TypeOK'
  BY <1>5, <1>6, <1>7, FileTypes DEF FileInv, File!TypeOK
<1>9. RenameInv' /\ QuietInv' /\ AppendInv'
  BY <1>1, <1>5, <1>6 DEF RenameInv, QuietInv, AppendInv, AllWhole
<1> QED
  BY <1>7, <1>8, <1>9 DEF FileInv

\* The engine offers an input once.
LEMMA OfferKeeps ==
  ASSUME FileInv, NEW c \in Inputs, File!Offer(c)
  PROVE  FileInv'
<1>1. DiskInv'
  BY DiskStays DEF FileInv, File!Offer, File!disk
<1>2. File!TypeOK'
  BY DEF FileInv, File!TypeOK, File!Offer, File!disk
<1>3. QuietInv'
  BY DEF FileInv, QuietInv, AllWhole, File!Offer, File!disk
<1>4. c \notin refused /\ \A i \in 1 .. Len(admitted) : admitted[i] # c
  BY DEF FileInv, File!TypeOK, File!Offer, File!Offered, File!Range
<1>5. RenameInv' /\ AppendInv'
  BY <1>4 DEF FileInv, RenameInv, AppendInv, File!Offer
<1> QED
  BY <1>1, <1>2, <1>3, <1>5 DEF FileInv

LEMMA NewLineIsLine ==
  ASSUME FileInv, pc = "write"
  PROVE  /\ File!NewLine \in File!Lines /\ File!NewLine.kind = "rec"
         /\ File!NewLine.input = cur /\ File!NewLine.seq = Len(records) + 1
<1>1. Len(records) \in Nat /\ cur \in Inputs
  BY DEF FileInv, File!TypeOK, AppendInv
<1> QED
  BY <1>1 DEF File!NewLine, File!Line, File!Lines

\* The whole line is at the end of the file; the medium may have any part of it.
LEMMA WriteKeeps ==
  ASSUME FileInv, File!Write
  PROVE  FileInv'
<1>1. pc = "write"
  BY DEF File!Write
<1> DEFINE l == File!NewLine
<1>2. l \in File!Lines /\ l.kind = "rec" /\ l.input = cur /\ l.seq = Len(records) + 1
  BY <1>1, NewLineIsLine
<1> HIDE DEF l
<1>3. /\ File!Written(file, l) = Append(file, l) /\ Good(Append(file, l))
      /\ Len(Append(file, l)) = Len(admitted) + 1
      /\ Append(file, l)[Len(admitted) + 1] = l /\ AllWhole(Append(file, l))
  BY <1>1, <1>2, WrittenIsGood
<1>4. /\ file' = Append(file, l) /\ media' = media \cup File!Partly(file, File!NewLine) /\ pc' = "sync"
      /\ UNCHANGED <<cur, records, ioUnknown, admitted, refused>>
  BY <1>3 DEF File!Write, l
<1>5. \A g \in File!Partly(file, File!NewLine) : Good(g)
  BY <1>1, PartlyIsGood
<1>6. DiskInv'
  BY <1>3, <1>4, <1>5, DiskStays DEF FileInv
<1>7. File!TypeOK'
  BY <1>4, <1>6, FileTypes DEF FileInv, File!TypeOK
<1>8. RenameInv' /\ QuietInv' /\ AppendInv'
  BY <1>1, <1>2, <1>3, <1>4 DEF FileInv, RenameInv, QuietInv, AppendInv, AllWhole
<1> QED
  BY <1>6, <1>7, <1>8 DEF FileInv

\* Part of the line is at the end of the file, and will be truncated.
LEMMA WriteShortKeeps ==
  ASSUME FileInv, File!WriteShort
  PROVE  FileInv'
<1>1. pc = "write"
  BY DEF File!WriteShort
<1>2. PICK k \in {"torn", "bare"} : file' = File!Written(file, [File!NewLine EXCEPT !.kind = k])
  BY DEF File!WriteShort, File!Cut
<1> DEFINE l == [File!NewLine EXCEPT !.kind = k]
<1>3. l \in File!Lines /\ l.kind = k /\ l.input = cur /\ l.seq = Len(records) + 1
  <2>1. File!NewLine \in File!Lines /\ File!NewLine.input = cur /\ File!NewLine.seq = Len(records) + 1
    BY <1>1, NewLineIsLine
  <2> QED
    BY <2>1 DEF File!Lines
<1>4. file' = File!Written(file, l)
  BY <1>2
<1> HIDE DEF l
<1>5. /\ file' = Append(file, l) /\ Good(file)
      /\ Len(Append(file, l)) = Len(admitted) + 1 /\ Append(file, l)[Len(admitted) + 1] = l
  BY <1>1, <1>3, <1>4, WrittenIsGood DEF FileInv, DiskInv
<1>6. Good(Append(file, l))
  BY <1>1, <1>3, WrittenIsGood
<1>7. /\ media' \subseteq media \cup File!Partly(file, File!NewLine) /\ pc' = "truncate"
      /\ UNCHANGED <<cur, records, ioUnknown, admitted, refused>>
  BY DEF File!WriteShort
<1>8. \A g \in File!Partly(file, File!NewLine) : Good(g)
  BY <1>1, PartlyIsGood
<1>9. DiskInv'
  BY <1>5, <1>6, <1>7, <1>8, DiskStays DEF FileInv
<1>10. File!TypeOK'
  BY <1>7, <1>9, FileTypes DEF FileInv, File!TypeOK
<1>11. RenameInv' /\ QuietInv' /\ AppendInv'
  BY <1>1, <1>3, <1>5, <1>7 DEF FileInv, RenameInv, QuietInv, AppendInv
<1> QED
  BY <1>9, <1>10, <1>11 DEF FileInv

\* From here the journal takes no input: the file may be any of those.
LEMMA WriteThrowsKeeps ==
  ASSUME FileInv, File!WriteThrows
  PROVE  FileInv'
<1>1. \A g \in File!Partly(file, File!NewLine) : Good(g)
  BY PartlyIsGood DEF File!WriteThrows
<1>2. DiskInv'
  BY <1>1, DiskStays DEF FileInv, File!WriteThrows
<1>3. File!TypeOK'
  BY <1>2, FileTypes DEF FileInv, File!TypeOK, File!WriteThrows
<1>4. RenameInv' /\ QuietInv' /\ AppendInv'
  BY DEF RenameInv, QuietInv, AppendInv, File!WriteThrows
<1> QED
  BY <1>2, <1>3, <1>4 DEF FileInv

\* The file without the line that was cut is the one before the append.
LEMMA TruncatedIsGood ==
  ASSUME FileInv, pc = "truncate", NEW f, f = File!Front(file)
  PROVE  /\ Good(f) /\ AllWhole(f) /\ Len(f) = Len(admitted)
         /\ \A i \in 1 .. Len(f) : f[i].input = admitted[i]
<1>1. Good(file) /\ Len(file) = Len(admitted) + 1 /\ admitted \in Seq(Inputs)
  BY DEF FileInv, DiskInv, AppendInv, File!TypeOK
<1>2. file \in Seq(File!Lines) /\ Len(file) \in Nat /\ Len(admitted) \in Nat
  BY <1>1 DEF Good
<1>3. f = SubSeq(file, 1, Len(file) - 1)
  BY DEF File!Front
<1>4. f \in Seq(File!Lines) /\ Len(f) = Len(admitted) /\ \A i \in 1 .. Len(admitted) : f[i] = file[i]
  BY <1>1, <1>2, <1>3, FrontOfSeq
<1>5. AllWhole(f) /\ \A i \in 1 .. Len(f) : f[i].input = admitted[i]
  BY <1>1, <1>2, <1>4 DEF Good, AllWhole
<1>6. Good(f)
  BY <1>1, <1>2, <1>4, <1>5 DEF Good, AllWhole
<1> QED
  BY <1>4, <1>5, <1>6

\* The input that is refused is in no file.
LEMMA TruncateKeeps ==
  ASSUME FileInv, File!Truncate
  PROVE  FileInv'
<1>1. /\ pc = "truncate" /\ file' = File!Front(file) /\ media' = {file'} /\ refused' = refused \cup {cur}
      /\ pc' = "up" /\ cur' = File!NoInput /\ UNCHANGED <<records, ioUnknown, admitted>>
  BY DEF File!Truncate
<1>2. /\ cur \in Inputs /\ ~ioUnknown /\ Len(records) = Len(admitted)
      /\ \A i \in 1 .. Len(admitted) : admitted[i] # cur
  BY <1>1 DEF FileInv, AppendInv
<1>3. ASSUME NEW f, f = file'
      PROVE  /\ Good(f)' /\ AllWhole(f) /\ Len(f) = Len(admitted)
  <2>1. /\ Good(f) /\ AllWhole(f) /\ Len(f) = Len(admitted)
        /\ \A i \in 1 .. Len(f) : f[i].input = admitted[i]
    BY <1>1, <1>3, TruncatedIsGood
  <2> QED
    BY <1>1, <1>2, <2>1 DEF Good
<1>4. DiskInv'
  BY <1>1, <1>3 DEF DiskInv
<1>5. File!TypeOK'
  BY <1>1, <1>2, <1>4, FileTypes DEF FileInv, File!TypeOK
<1>6. RenameInv' /\ QuietInv' /\ AppendInv'
  BY <1>1, <1>2, <1>3 DEF RenameInv, QuietInv, AppendInv, AllWhole
<1> QED
  BY <1>4, <1>5, <1>6 DEF FileInv

LEMMA TruncateThrowsKeeps ==
  ASSUME FileInv, File!TruncateThrows
  PROVE  FileInv'
<1>1. Good(File!Front(file))
  BY TruncatedIsGood DEF File!TruncateThrows
<1>2. DiskInv'
  BY <1>1, DiskStays DEF FileInv, File!TruncateThrows
<1>3. File!TypeOK'
  BY <1>2, FileTypes DEF FileInv, File!TypeOK, File!TruncateThrows
<1>4. RenameInv' /\ QuietInv' /\ AppendInv'
  BY DEF RenameInv, QuietInv, AppendInv, File!TruncateThrows
<1> QED
  BY <1>2, <1>3, <1>4 DEF FileInv

\* The line is on the medium before the engine is told.
LEMMA SyncKeeps ==
  ASSUME FileInv, File!Sync
  PROVE  FileInv'
<1>1. /\ pc = "sync" /\ media' = {file} /\ records' = Append(records, File!NewLine)
      /\ admitted' = Append(admitted, cur) /\ pc' = "up" /\ cur' = File!NoInput
      /\ UNCHANGED <<file, ioUnknown, refused>>
  BY DEF File!Sync
<1>2. /\ Good(file) /\ AllWhole(file) /\ Len(file) = Len(admitted) + 1 /\ file[Len(file)].input = cur
      /\ cur \in Inputs /\ ~ioUnknown /\ Len(records) = Len(admitted)
      /\ records \in Seq(File!Lines) /\ admitted \in Seq(Inputs)
  BY <1>1 DEF FileInv, DiskInv, AppendInv, File!TypeOK
<1>3. file \in Seq(File!Lines) /\ Len(file) \in Nat /\ Len(admitted) \in Nat
  BY <1>2 DEF Good
<1>4. /\ admitted' \in Seq(Inputs) /\ Len(admitted') = Len(file)
      /\ \A i \in 1 .. Len(admitted) : admitted'[i] = admitted[i]
      /\ admitted'[Len(file)] = cur
  BY <1>1, <1>2, AppendProperties
<1>5. File!NewLine \in File!Lines
  BY <1>2 DEF File!NewLine, File!Line, File!Lines
<1>6. records' \in Seq(File!Lines) /\ Len(records') = Len(file)
  BY <1>1, <1>2, <1>5, AppendProperties
<1>7. \A i \in 1 .. Len(file) : file[i].input = admitted'[i] /\ file[i].kind = "rec"
  BY <1>2, <1>3, <1>4 DEF Good, AllWhole
<1>8. DiskInv'
  <2>1. ASSUME NEW f, f = file
        PROVE  Good(f)'
    BY <1>1, <1>2, <1>3, <1>4, <1>7, <2>1 DEF Good
  <2> QED
    BY <1>1, <2>1 DEF DiskInv
<1>9. File!TypeOK'
  BY <1>1, <1>4, <1>6, <1>8, FileTypes DEF FileInv, File!TypeOK
<1>10. RenameInv' /\ QuietInv' /\ AppendInv'
  BY <1>1, <1>2, <1>4, <1>6 DEF RenameInv, QuietInv, AppendInv, AllWhole
<1> QED
  BY <1>8, <1>9, <1>10 DEF FileInv

\* The file is what the medium has; the journal takes no input from here.
LEMMA SyncThrowsKeeps ==
  ASSUME FileInv, File!SyncThrows
  PROVE  FileInv'
<1>1. DiskInv'
  BY DiskStays DEF FileInv, File!SyncThrows
<1>2. File!TypeOK'
  BY <1>1, FileTypes DEF FileInv, File!TypeOK, File!SyncThrows
<1>3. RenameInv' /\ QuietInv' /\ AppendInv'
  BY DEF RenameInv, QuietInv, AppendInv, File!SyncThrows
<1> QED
  BY <1>1, <1>2, <1>3 DEF FileInv

\* The empty file is the first.
LEMMA InitFile ==
  ASSUME File!Init
  PROVE  FileInv
<1>1. Good(<<>>)
  BY DEF Good, File!Init
<1>2. DiskInv
  BY <1>1 DEF File!Init, DiskInv
<1>3. <<>> \in Seq(File!Lines) /\ <<>> \in Seq(Inputs)
  OBVIOUS
<1>4. File!TypeOK
  BY <1>3 DEF File!Init, File!TypeOK
<1>5. RenameInv /\ QuietInv /\ AppendInv
  BY DEF File!Init, RenameInv, QuietInv, AppendInv
<1> QED
  BY <1>2, <1>4, <1>5 DEF FileInv

\* A step that leaves the file leaves FileInv.
LEMMA FileStays ==
  ASSUME FileInv, UNCHANGED fileVars
  PROVE  FileInv'
BY DEF FileInv, File!TypeOK, DiskInv, Good, RenameInv, AllWhole, QuietInv, AppendInv, fileVars

\* What the next open reads is a file it accepts, whole.
LEMMA FileInvIsLogFound ==
  ASSUME FileInv
  PROVE  File!AdmittedIsKept /\ File!RefusedIsNotReplayed
<1>1. \A f \in media \cup {file} : Good(f)
  BY DEF FileInv, DiskInv
<1>2. admitted \in Seq(Inputs)
  BY DEF FileInv, File!TypeOK
<1> QED
  BY <1>1, <1>2, GoodIsAccepted DEF File!AdmittedIsKept, File!RefusedIsNotReplayed

-----------------------------------------------------------------------------
(* Every step of the file is a step of DurableLog, or stutters              *)

LogStep == [File!Promised!Next]_(File!Promised!vars)

\* Nobody is told anything while the file is read and rewritten, while a line is
\* on its way to it, or when a process ends that had stopped taking inputs.
LEMMA QuietStepStutters ==
  ASSUME FileInv,
         \/ File!Read \/ File!Rename \/ File!OpenFails \/ File!Write \/ File!WriteShort
         \/ \E c \in Inputs : File!Offer(c)
  PROVE  LogStep
BY DEF LogStep, File!Promised!vars, FileInv, AppendInv, File!Read, File!Rename, File!OpenFails,
    File!Write, File!WriteShort, File!Offer

\* An append that ends in doubt, or the end of the process, stops the journal.
LEMMA EndStops ==
  ASSUME FileInv,
         \/ File!WriteThrows \/ File!TruncateThrows \/ File!SyncThrows
         \/ File!Close \/ File!Crash \/ File!PowerLoss
  PROVE  LogStep
<1>1. UNCHANGED <<admitted, refused>>
  BY DEF File!WriteThrows, File!TruncateThrows, File!SyncThrows, File!Close, File!Crash, File!PowerLoss
<1>2. ~(pc' \in {"up", "write", "sync", "truncate"} /\ ~ioUnknown')
  BY DEF File!WriteThrows, File!TruncateThrows, File!SyncThrows, File!Close, File!Crash, File!PowerLoss,
     File!Gone
<1>3. CASE pc \in {"up", "write", "sync", "truncate"} /\ ~ioUnknown
  BY <1>1, <1>2, <1>3 DEF LogStep, File!Promised!vars, File!Promised!Next, File!Promised!Stop
<1>4. CASE ~(pc \in {"up", "write", "sync", "truncate"} /\ ~ioUnknown)
  BY <1>1, <1>2, <1>4 DEF LogStep, File!Promised!vars
<1> QED
  BY <1>3, <1>4

\* A sync that returns admits the input of the append.
LEMMA SyncAdmits ==
  ASSUME FileInv, File!Sync
  PROVE  LogStep
<1>1. pc = "sync" /\ pc' = "up" /\ admitted' = Append(admitted, cur) /\ UNCHANGED <<ioUnknown, refused>>
  BY DEF File!Sync
<1>2. /\ ~ioUnknown /\ cur \in Inputs \ refused /\ \A i \in 1 .. Len(admitted) : admitted[i] # cur
      /\ admitted \in Seq(Inputs)
  BY <1>1 DEF FileInv, AppendInv, File!TypeOK
<1>3. File!Promised!Fresh(cur)
  BY <1>2 DEF File!Promised!Fresh
<1>4. File!Promised!Admit(cur)
  BY <1>1, <1>2, <1>3 DEF File!Promised!Admit
<1> QED
  BY <1>2, <1>4 DEF LogStep, File!Promised!vars, File!Promised!Next

\* A truncation that is synced refuses it.
LEMMA TruncateRefuses ==
  ASSUME FileInv, File!Truncate
  PROVE  LogStep
<1>1. pc = "truncate" /\ pc' = "up" /\ refused' = refused \cup {cur} /\ UNCHANGED <<ioUnknown, admitted>>
  BY DEF File!Truncate
<1>2. /\ ~ioUnknown /\ cur \in Inputs \ refused /\ \A i \in 1 .. Len(admitted) : admitted[i] # cur
      /\ admitted \in Seq(Inputs)
  BY <1>1 DEF FileInv, AppendInv, File!TypeOK
<1>3. File!Promised!Fresh(cur)
  BY <1>2 DEF File!Promised!Fresh
<1>4. File!Promised!Refuse(cur)
  BY <1>1, <1>2, <1>3 DEF File!Promised!Refuse
<1> QED
  BY <1>2, <1>4 DEF LogStep, File!Promised!vars, File!Promised!Next

\* The open finds what was admitted, and at most the input that was in doubt.
LEMMA OpenedOpens ==
  ASSUME FileInv, File!Opened
  PROVE  LogStep
<1>1. Good(file) /\ records = file /\ admitted \in Seq(Inputs)
  BY DEF FileInv, DiskInv, RenameInv, File!Opened, File!TypeOK
<1>2. /\ file \in Seq(File!Lines) /\ Len(file) \in Nat /\ Len(admitted) \in Nat
      /\ Len(file) \in {Len(admitted), Len(admitted) + 1}
      /\ \A i \in 1 .. Len(admitted) : file[i].input = admitted[i]
  BY <1>1 DEF Good
<1>3. \A i \in 1 .. Len(file) : file[i].input \in Inputs
  <2> SUFFICES ASSUME NEW i \in 1 .. Len(file)
               PROVE  file[i].input \in Inputs
    OBVIOUS
  <2>1. file[i] \in File!Lines
    BY <1>2, ElementOfSeq
  <2> QED
    BY <2>1 DEF File!Lines
<1>4. admitted' = [i \in 1 .. Len(file) |-> file[i].input]
  BY <1>1, <1>2 DEF File!Opened, File!InputsOf
<1>5. /\ admitted' \in Seq(Inputs) /\ Len(admitted') = Len(file)
      /\ \A i \in 1 .. Len(file) : admitted'[i] = file[i].input
  BY <1>2, <1>3, <1>4
<1>6. pc = "rename" /\ pc' = "up" /\ ~ioUnknown' /\ UNCHANGED refused
  BY DEF File!Opened
<1>7. CASE Len(file) = Len(admitted)
  <2>1. admitted' = admitted
    BY <1>1, <1>2, <1>5, <1>7, SeqEqual
  <2> QED
    BY <1>6, <2>1 DEF LogStep, File!Promised!vars, File!Promised!Next, File!Promised!Open
<1>8. CASE Len(file) = Len(admitted) + 1
  <2> DEFINE c == file[Len(file)].input
             l == Append(admitted, c)
  <2>1. c \in Inputs
    BY <1>2, <1>3, <1>8
  <2>2. File!Promised!Fresh(c)
    BY <1>1, <1>2, <1>8 DEF Good, File!Promised!Fresh
  <2>3. /\ l \in Seq(Inputs) /\ Len(l) = Len(admitted) + 1 /\ l[Len(admitted) + 1] = c
        /\ \A i \in 1 .. Len(admitted) : l[i] = admitted[i]
    BY <1>1, <2>1, AppendProperties
  <2>4. \A i \in 1 .. Len(file) : admitted'[i] = l[i]
    BY <1>2, <1>5, <1>8, <2>3
  <2> HIDE DEF l
  <2>5. admitted' = l
    BY <1>5, <1>8, <2>3, <2>4, SeqEqual
  <2>6. File!Promised!Open
    BY <1>6, <2>1, <2>2, <2>5 DEF File!Promised!Open, l
  <2> QED
    BY <2>6 DEF LogStep, File!Promised!vars, File!Promised!Next
<1> QED
  BY <1>2, <1>7, <1>8

-----------------------------------------------------------------------------
(* The lock and the file together                                          *)

\* The lock is in order, and the next open finds the log.
JournalInv == LockInv /\ FileInv

\* The process that has the journal keeps the file in order and its promise.
LEMMA FileStepKeeps ==
  ASSUME FileInv, File!Step
  PROVE  FileInv' /\ LogStep
<1>1. CASE File!Read
  BY <1>1, ReadKeeps, QuietStepStutters
<1>2. CASE File!Rename
  BY <1>2, RenameKeeps, QuietStepStutters
<1>3. CASE File!Opened
  BY <1>3, OpenedKeeps, OpenedOpens
<1>4. CASE \E c \in Inputs : File!Offer(c)
  BY <1>4, OfferKeeps, QuietStepStutters
<1>5. CASE File!Write
  BY <1>5, WriteKeeps, QuietStepStutters
<1>6. CASE File!WriteShort
  BY <1>6, WriteShortKeeps, QuietStepStutters
<1>7. CASE File!WriteThrows
  BY <1>7, WriteThrowsKeeps, EndStops
<1>8. CASE File!Truncate
  BY <1>8, TruncateKeeps, TruncateRefuses
<1>9. CASE File!TruncateThrows
  BY <1>9, TruncateThrowsKeeps, EndStops
<1>10. CASE File!Sync
  BY <1>10, SyncKeeps, SyncAdmits
<1>11. CASE File!SyncThrows
  BY <1>11, SyncThrowsKeeps, EndStops
<1> QED
  BY <1>1, <1>2, <1>3, <1>4, <1>5, <1>6, <1>7, <1>8, <1>9, <1>10, <1>11 DEF File!Step

\* So do its end, an open that fails and the end of the machine.
LEMMA FileEndKeeps ==
  ASSUME FileInv, File!OpenFails \/ File!Close \/ File!Crash \/ File!PowerLoss
  PROVE  FileInv' /\ LogStep
<1>1. FileInv'
  BY EndKeeps DEF File!OpenFails, File!Close, File!Crash, File!PowerLoss, File!disk, File!Gone
<1>2. LogStep
  BY QuietStepStutters, EndStops
<1> QED
  BY <1>1, <1>2

LEMMA LockStays ==
  ASSUME LockInv, UNCHANGED lockVars
  PROVE  LockInv'
BY DEF LockInv, LockTypes, PidInv, TriesInv, OwnerInv, GateInv, Live, Lock!SameNonce, lockVars

LEMMA LogStays ==
  ASSUME UNCHANGED fileVars
  PROVE  LogStep
BY DEF LogStep, File!Promised!vars, fileVars

LEMMA NextKeeps ==
  ASSUME JournalInv, [Next]_vars
  PROVE  JournalInv' /\ LogStep
<1> USE DEF JournalInv
<1>1. CASE PowerLoss
  BY <1>1, PowerLossKeepsLock, FileEndKeeps DEF PowerLoss
<1>2. ASSUME NEW p \in Procs, LockStep(p)
      PROVE  JournalInv' /\ LogStep
  BY <1>2, LockStepKeeps, FileStays, LogStays DEF LockStep
<1>3. ASSUME NEW p \in Procs, FileStep(p)
      PROVE  JournalInv' /\ LogStep
  BY <1>3, LockStays, FileStepKeeps DEF FileStep
<1>4. ASSUME NEW p \in Procs, Close(p)
      PROVE  JournalInv' /\ LogStep
  BY <1>4, LockStepKeeps, FileEndKeeps DEF Close
<1>5. ASSUME NEW p \in Procs, Die(p)
      PROVE  JournalInv' /\ LogStep
  BY <1>5, LockStepKeeps, FileEndKeeps, FileStays, LogStays DEF Die
<1>6. CASE UNCHANGED vars
  BY <1>6, LockStays, FileStays, LogStays DEF vars
<1> QED
  BY <1>1, <1>2, <1>3, <1>4, <1>5, <1>6 DEF Next

\* JournalInv holds initially and is kept by every step.
THEOREM JournalInvariant == Spec => []JournalInv
<1>1. Init => JournalInv
  BY InitLock, InitFile DEF Init, JournalInv
<1>2. JournalInv /\ [Next]_vars => JournalInv'
  BY NextKeeps
<1> QED
  BY <1>1, <1>2, PTL DEF Spec

\* The exclusive writer of FileJournal: one process at most has the journal open
\* and the lock file names it, however many processes start and die, whichever
\* pids they get.
THEOREM OneWriterAlways == Spec => []OneWriter
<1>1. JournalInv => OneWriter
  BY LockInvIsOneWriter DEF JournalInv
<1> QED
  BY <1>1, JournalInvariant, PTL

\* The constructor of FileJournal: after any crash, power loss and failed calls,
\* it finds every input that append admitted, in order, and none it refused.
THEOREM NextOpenFindsLogAlways == Spec => []NextOpenFindsLog
<1>1. JournalInv => NextOpenFindsLog
  <2> SUFFICES ASSUME JournalInv
               PROVE  NextOpenFindsLog
    OBVIOUS
  <2>1. File!TypeOK /\ File!AdmittedIsKept /\ File!RefusedIsNotReplayed
    BY FileInvIsLogFound DEF JournalInv, FileInv
  <2>2. Lock!TypeOK
    BY DEF JournalInv, LockInv, LockTypes, Locks, Lock!TypeOK
  <2> QED
    BY <2>1, <2>2 DEF NextOpenFindsLog, TypeOK
<1> QED
  BY <1>1, JournalInvariant, PTL

\* The file with its lock implements DurableLog: append, and the opening of the
\* next process, are the log EngineJournal promises.
THEOREM JournalKeepsPromise == Spec => KeepsPromise
<1>1. Init => File!Promised!Init
  BY DEF Init, File!Init, File!Promised!Init
<1>2. JournalInv /\ [Next]_vars => LogStep
  BY NextKeeps
<1> QED
  BY <1>1, <1>2, JournalInvariant, PTL
     DEF Spec, KeepsPromise, File!KeepsPromise, File!Promised!Spec, LogStep

(***************************************************************************)
(* The engine.                                                             *)
(***************************************************************************)

\* Induction, for sets of numbers.
LEMMA Upwards ==
  ASSUME NEW T, 0 \in T, \A n \in Nat : n \in T => n + 1 \in T
  PROVE  Nat \subseteq T
<1> SUFFICES ASSUME Nat \ T # {} PROVE FALSE
  OBVIOUS
<1>1. IsWellFoundedOn(OpToRel(<, Nat), Nat)
  BY NatLessThanWellFounded
<1>2. PICK m \in Nat \ T : \A n \in Nat \ T : ~ (<<n, m>> \in OpToRel(<, Nat))
  BY <1>1, WFMin
<1>3. \A n \in Nat \ T : ~ (n < m)
  BY <1>2 DEF OpToRel
<1>4. m # 0 /\ m - 1 \in Nat /\ m - 1 \in T
  BY <1>3
<1> QED
  BY <1>4

\* Max chooses the largest.
LEMMA MaxIs ==
  ASSUME NEW u \in SUBSET Nat, NEW m \in u, \A y \in u : m >= y
  PROVE  Max(u) = m
<1>1. \A x \in u : (\A y \in u : x >= y) => x = m
  OBVIOUS
<1>2. \E x \in u : \A y \in u : x >= y
  OBVIOUS
<1>3. Max(u) \in u /\ \A y \in u : Max(u) >= y
  <2> DEFINE P(x) == \A y \in u : x >= y
  <2>1. Max(u) = CHOOSE x \in u : P(x)
    BY DEF Max
  <2> HIDE DEF P
  <2>2. \E x \in u : P(x)
    BY <1>2 DEF P
  <2>3. Max(u) \in u /\ P(Max(u))
    BY <2>1, <2>2, Zenon
  <2> QED
    BY <2>3 DEF P
<1> QED
  BY <1>1, <1>3

-----------------------------------------------------------------------------
(* Only, an element at a time.                                             *)

OnlyStep(S, t, x) == IF x \in S THEN Append(t, x) ELSE t

\* g is the table that FoldLeft builds over the sets of indices up to n, h what
\* it holds of the first indices.
OnlyTable(g, s, S, n) ==
  g = [u \in SUBSET (1 .. n) |->
         IF u = {} THEN <<>> ELSE OnlyStep(S, g[u \ {Max(u)}], s[Max(u)])]
OnlyRun(h, s, S) == h[0] = <<>> /\ \A k \in 1 .. Len(s) : h[k] = OnlyStep(S, h[k - 1], s[k])

LEMMA OnlyTables == ASSUME NEW s, NEW S PROVE \A n \in Nat : \E g : OnlyTable(g, s, S, n)
<1> DEFINE T == {n \in Nat : \E g : OnlyTable(g, s, S, n)}
<1>1. 0 \in T
  <2> DEFINE g == [u \in SUBSET (1 .. 0) |-> <<>>]
  <2>1. OnlyTable(g, s, S, 0)
    BY DEF OnlyTable
  <2> QED
    BY <2>1
<1>2. ASSUME NEW n \in Nat, n \in T PROVE n + 1 \in T
  <2>1. PICK g : OnlyTable(g, s, S, n)
    BY <1>2
  <2> DEFINE m == n + 1
             h == [u \in SUBSET (1 .. m) |->
                     IF m \in u THEN OnlyStep(S, g[u \ {m}], s[m]) ELSE g[u]]
  <2>2. ASSUME NEW u \in SUBSET (1 .. m)
        PROVE  h[u] = IF u = {} THEN <<>> ELSE OnlyStep(S, h[u \ {Max(u)}], s[Max(u)])
    <3>1. CASE m \in u
      <4>1. Max(u) = m
        BY <3>1, MaxIs
      <4>2. h[u \ {m}] = g[u \ {m}]
        OBVIOUS
      <4> QED
        BY <3>1, <4>1, <4>2
    <3>2. CASE m \notin u
      <4>1. u \in SUBSET (1 .. n) /\ u \ {Max(u)} \in SUBSET (1 .. n)
        <5>1. \A x \in u : x \in 1 .. m /\ x # m
          BY <3>2
        <5>2. \A x \in u : x \in 1 .. n
          BY <5>1
        <5> QED
          BY <5>2
      <4>2. g[u] = IF u = {} THEN <<>> ELSE OnlyStep(S, g[u \ {Max(u)}], s[Max(u)])
        BY <2>1, <4>1 DEF OnlyTable
      <4>3. \A v \in SUBSET (1 .. n) : h[v] = g[v]
        <5> SUFFICES ASSUME NEW v \in SUBSET (1 .. n) PROVE h[v] = g[v]
          OBVIOUS
        <5>1. v \in SUBSET (1 .. m) /\ m \notin v
          OBVIOUS
        <5> QED
          BY <5>1
      <4> QED
        BY <4>1, <4>2, <4>3
    <3> QED
      BY <3>1, <3>2
  <2>3. h = [u \in SUBSET (1 .. m) |-> h[u]]
    OBVIOUS
  <2> HIDE DEF h
  <2>4. OnlyTable(h, s, S, m)
    BY <2>2, <2>3 DEF OnlyTable
  <2> QED
    BY <2>4
<1> HIDE DEF T
<1>3. Nat \subseteq T
  BY <1>1, <1>2, Upwards
<1> QED
  BY <1>3 DEF T

LEMMA OnlyRuns ==
  ASSUME NEW T, NEW s \in Seq(T), NEW S
  PROVE  \E h : OnlyRun(h, s, S) /\ Only(s, S) = h[Len(s)]
<1> DEFINE n == Len(s)
           g == CHOOSE g : OnlyTable(g, s, S, n)
           h == [k \in 0 .. n |-> g[1 .. k]]
<1>1. n \in Nat /\ DOMAIN s = 1 .. n
  OBVIOUS
<1>2. OnlyTable(g, s, S, n)
  <2>1. \E f : OnlyTable(f, s, S, n)
    BY <1>1, OnlyTables
  <2> QED
    BY <2>1, Zenon
<1>3. Only(s, S) = g[1 .. n]
  BY <1>1 DEF Only, FoldLeft, MapThenFoldSet, OnlyTable, OnlyStep
<1> HIDE DEF g, n
<1>4. h[0] = <<>>
  <2>1. 1 .. 0 = {}
    OBVIOUS
  <2> QED
    BY <1>1, <1>2, <2>1 DEF OnlyTable
<1>5. ASSUME NEW k \in 1 .. n PROVE h[k] = OnlyStep(S, h[k - 1], s[k])
  <2>0. k \in Nat /\ 1 .. k \in SUBSET Nat /\ k \in 1 .. k /\ \A y \in 1 .. k : k >= y
    BY <1>1
  <2>1. Max(1 .. k) = k
    BY <2>0, MaxIs
  <2>2. 1 .. k \in SUBSET (1 .. n)
    BY <1>1
  <2>3. (1 .. k) \ {k} = 1 .. (k - 1) /\ 1 .. k # {}
    <3>1. k \in Nat /\ k >= 1
      BY <1>1
    <3> HIDE DEF h
    <3>2. \A x : x \in (1 .. k) \ {k} <=> x \in 1 .. (k - 1)
      BY <3>1
    <3> QED
      BY <2>0, <3>2
  <2>4. g[1 .. k] = OnlyStep(S, g[1 .. (k - 1)], s[k])
    BY <1>2, <2>1, <2>2, <2>3 DEF OnlyTable
  <2> QED
    BY <1>1, <2>4
<1>6. OnlyRun(h, s, S)
  BY <1>4, <1>5 DEF OnlyRun, n
<1>7. Only(s, S) = h[n]
  BY <1>1, <1>3
<1> HIDE DEF h
<1> QED
  BY <1>6, <1>7 DEF n

LEMMA OnlyNothing == ASSUME NEW S PROVE Only(<<>>, S) = <<>>
<1>1. <<>> \in Seq({})
  OBVIOUS
<1>2. PICK h : OnlyRun(h, <<>>, S) /\ Only(<<>>, S) = h[Len(<<>>)]
  BY <1>1, OnlyRuns
<1> QED
  BY <1>2 DEF OnlyRun

LEMMA OnlyAppend ==
  ASSUME NEW T, NEW s \in Seq(T), NEW x \in T, NEW S
  PROVE  Only(Append(s, x), S) = OnlyStep(S, Only(s, S), x)
<1> DEFINE u == Append(s, x)
           n == Len(s)
<1>1. u \in Seq(T) /\ n \in Nat /\ Len(u) = n + 1 /\ u[n + 1] = x /\ \A k \in 1 .. n : u[k] = s[k]
  OBVIOUS
<1>2. PICK g : OnlyRun(g, s, S) /\ Only(s, S) = g[n]
  BY OnlyRuns
<1>3. PICK h : OnlyRun(h, u, S) /\ Only(u, S) = h[Len(u)]
  BY <1>1, OnlyRuns
<1> HIDE DEF u, n
<1> DEFINE K == {k \in Nat : k <= n => g[k] = h[k]}
<1>4. 0 \in K
  BY <1>2, <1>3 DEF OnlyRun
<1>5. ASSUME NEW k \in Nat, k \in K PROVE k + 1 \in K
  <2> SUFFICES ASSUME k + 1 <= n PROVE g[k + 1] = h[k + 1]
    OBVIOUS
  <2>1. k + 1 \in 1 .. n /\ k + 1 \in 1 .. Len(u) /\ (k + 1) - 1 = k
    BY <1>1
  <2>2. g[k + 1] = OnlyStep(S, g[k], s[k + 1])
    BY <1>2, <2>1 DEF OnlyRun, n
  <2>3. h[k + 1] = OnlyStep(S, h[k], u[k + 1])
    BY <1>3, <2>1 DEF OnlyRun
  <2> QED
    BY <1>1, <1>5, <2>1, <2>2, <2>3
<1>6. n \in K
  <2> HIDE DEF K
  <2> QED
    BY <1>1, <1>4, <1>5, Upwards
<1>7. h[n + 1] = OnlyStep(S, h[n], x)
  <2>1. n + 1 \in 1 .. Len(u) /\ (n + 1) - 1 = n
    BY <1>1
  <2> QED
    BY <1>1, <1>3, <2>1 DEF OnlyRun
<1> QED
  BY <1>1, <1>2, <1>3, <1>6, <1>7 DEF u
-----------------------------------------------------------------------------
(* Replay, a record at a time: the same again.                             *)

\* What replay starts from.
Empty == [st |-> NoState, evs |-> <<>>]

ReplayTable(g, s, n) ==
  g = [u \in SUBSET (1 .. n) |->
         IF u = {} THEN Empty ELSE ReplayRecord(g[u \ {Max(u)}], s[Max(u)])]
ReplayRun(h, s) == h[0] = Empty /\ \A k \in 1 .. Len(s) : h[k] = ReplayRecord(h[k - 1], s[k])

LEMMA ReplayTables == ASSUME NEW s PROVE \A n \in Nat : \E g : ReplayTable(g, s, n)
<1> DEFINE T == {n \in Nat : \E g : ReplayTable(g, s, n)}
<1>1. 0 \in T
  <2> DEFINE g == [u \in SUBSET (1 .. 0) |-> Empty]
  <2>1. ReplayTable(g, s, 0)
    BY DEF ReplayTable
  <2> QED
    BY <2>1
<1>2. ASSUME NEW n \in Nat, n \in T PROVE n + 1 \in T
  <2>1. PICK g : ReplayTable(g, s, n)
    BY <1>2
  <2> DEFINE m == n + 1
             h == [u \in SUBSET (1 .. m) |->
                     IF m \in u THEN ReplayRecord(g[u \ {m}], s[m]) ELSE g[u]]
  <2>2. ASSUME NEW u \in SUBSET (1 .. m)
        PROVE  h[u] = IF u = {} THEN Empty ELSE ReplayRecord(h[u \ {Max(u)}], s[Max(u)])
    <3>1. CASE m \in u
      <4>1. Max(u) = m
        BY <3>1, MaxIs
      <4>2. h[u \ {m}] = g[u \ {m}]
        OBVIOUS
      <4> QED
        BY <3>1, <4>1, <4>2
    <3>2. CASE m \notin u
      <4>1. u \in SUBSET (1 .. n) /\ u \ {Max(u)} \in SUBSET (1 .. n)
        <5>1. \A x \in u : x \in 1 .. m /\ x # m
          BY <3>2
        <5>2. \A x \in u : x \in 1 .. n
          BY <5>1
        <5> QED
          BY <5>2
      <4>2. g[u] = IF u = {} THEN Empty ELSE ReplayRecord(g[u \ {Max(u)}], s[Max(u)])
        BY <2>1, <4>1 DEF ReplayTable
      <4>3. \A v \in SUBSET (1 .. n) : h[v] = g[v]
        <5> SUFFICES ASSUME NEW v \in SUBSET (1 .. n) PROVE h[v] = g[v]
          OBVIOUS
        <5>1. v \in SUBSET (1 .. m) /\ m \notin v
          OBVIOUS
        <5> QED
          BY <5>1
      <4> QED
        BY <4>1, <4>2, <4>3
    <3> QED
      BY <3>1, <3>2
  <2>3. h = [u \in SUBSET (1 .. m) |-> h[u]]
    OBVIOUS
  <2> HIDE DEF h
  <2>4. ReplayTable(h, s, m)
    BY <2>2, <2>3 DEF ReplayTable
  <2> QED
    BY <2>4
<1> HIDE DEF T
<1>3. Nat \subseteq T
  BY <1>1, <1>2, Upwards
<1> QED
  BY <1>3 DEF T

LEMMA ReplayRuns ==
  ASSUME NEW T, NEW s \in Seq(T)
  PROVE  \E h : ReplayRun(h, s) /\ Replay(s) = h[Len(s)]
<1> DEFINE n == Len(s)
           g == CHOOSE g : ReplayTable(g, s, n)
           h == [k \in 0 .. n |-> g[1 .. k]]
<1>1. n \in Nat /\ DOMAIN s = 1 .. n
  OBVIOUS
<1>2. ReplayTable(g, s, n)
  <2>1. \E f : ReplayTable(f, s, n)
    BY <1>1, ReplayTables
  <2> QED
    BY <2>1, Zenon
<1>3. Replay(s) = g[1 .. n]
  BY <1>1 DEF Replay, Empty, FoldLeft, MapThenFoldSet, ReplayTable
<1> HIDE DEF g, n
<1>4. h[0] = Empty
  <2>1. 1 .. 0 = {}
    OBVIOUS
  <2> QED
    BY <1>1, <1>2, <2>1 DEF ReplayTable
<1>5. ASSUME NEW k \in 1 .. n PROVE h[k] = ReplayRecord(h[k - 1], s[k])
  <2>0. k \in Nat /\ 1 .. k \in SUBSET Nat /\ k \in 1 .. k /\ \A y \in 1 .. k : k >= y
    BY <1>1
  <2>1. Max(1 .. k) = k
    BY <2>0, MaxIs
  <2>2. 1 .. k \in SUBSET (1 .. n)
    BY <1>1
  <2>3. (1 .. k) \ {k} = 1 .. (k - 1) /\ 1 .. k # {}
    <3>1. k \in Nat /\ k >= 1
      BY <1>1
    <3> HIDE DEF h
    <3>2. \A x : x \in (1 .. k) \ {k} <=> x \in 1 .. (k - 1)
      BY <3>1
    <3> QED
      BY <2>0, <3>2
  <2>4. g[1 .. k] = ReplayRecord(g[1 .. (k - 1)], s[k])
    BY <1>2, <2>1, <2>2, <2>3 DEF ReplayTable
  <2> QED
    BY <1>1, <2>4
<1>6. ReplayRun(h, s)
  BY <1>4, <1>5 DEF ReplayRun, n
<1>7. Replay(s) = h[n]
  BY <1>1, <1>3
<1> HIDE DEF h
<1> QED
  BY <1>6, <1>7 DEF n

LEMMA ReplayNothing == Replay(<<>>) = Empty
<1>1. <<>> \in Seq({})
  OBVIOUS
<1>2. PICK h : ReplayRun(h, <<>>) /\ Replay(<<>>) = h[Len(<<>>)]
  BY <1>1, ReplayRuns
<1> QED
  BY <1>2 DEF ReplayRun

LEMMA ReplayAppend ==
  ASSUME NEW T, NEW s \in Seq(T), NEW x \in T
  PROVE  Replay(Append(s, x)) = ReplayRecord(Replay(s), x)
<1> DEFINE u == Append(s, x)
           n == Len(s)
<1>1. u \in Seq(T) /\ n \in Nat /\ Len(u) = n + 1 /\ u[n + 1] = x /\ \A k \in 1 .. n : u[k] = s[k]
  OBVIOUS
<1>2. PICK g : ReplayRun(g, s) /\ Replay(s) = g[n]
  BY ReplayRuns
<1>3. PICK h : ReplayRun(h, u) /\ Replay(u) = h[Len(u)]
  BY <1>1, ReplayRuns
<1> HIDE DEF u, n
<1> DEFINE K == {k \in Nat : k <= n => g[k] = h[k]}
<1>4. 0 \in K
  BY <1>2, <1>3 DEF ReplayRun
<1>5. ASSUME NEW k \in Nat, k \in K PROVE k + 1 \in K
  <2> SUFFICES ASSUME k + 1 <= n PROVE g[k + 1] = h[k + 1]
    OBVIOUS
  <2>1. k + 1 \in 1 .. n /\ k + 1 \in 1 .. Len(u) /\ (k + 1) - 1 = k
    BY <1>1
  <2>2. g[k + 1] = ReplayRecord(g[k], s[k + 1])
    BY <1>2, <2>1 DEF ReplayRun, n
  <2>3. h[k + 1] = ReplayRecord(h[k], u[k + 1])
    BY <1>3, <2>1 DEF ReplayRun
  <2> QED
    BY <1>1, <1>5, <2>1, <2>2, <2>3
<1>6. n \in K
  <2> HIDE DEF K
  <2> QED
    BY <1>1, <1>4, <1>5, Upwards
<1>7. h[n + 1] = ReplayRecord(h[n], x)
  <2>1. n + 1 \in 1 .. Len(u) /\ (n + 1) - 1 = n
    BY <1>1
  <2> QED
    BY <1>1, <1>3, <2>1 DEF ReplayRun
<1> QED
  BY <1>1, <1>2, <1>3, <1>6, <1>7 DEF u
-----------------------------------------------------------------------------
(* Sequences.                                                              *)

\* Induction, for sets of sequences.
LEMMA Longer ==
  ASSUME NEW T, NEW A, <<>> \in A, \A s \in Seq(T) : \A x \in T : s \in A => Append(s, x) \in A
  PROVE  Seq(T) \subseteq A
<1> DEFINE K == {n \in Nat : \A s \in Seq(T) : Len(s) = n => s \in A}
<1>1. 0 \in K
  OBVIOUS
<1>2. ASSUME NEW n \in Nat, n \in K PROVE n + 1 \in K
  <2> SUFFICES ASSUME NEW s \in Seq(T), Len(s) = n + 1 PROVE s \in A
    OBVIOUS
  <2> DEFINE u == [i \in 1 .. n |-> s[i]]
  <2>1. u \in Seq(T) /\ Len(u) = n /\ s[n + 1] \in T
    OBVIOUS
  <2>2. s = Append(u, s[n + 1])
    OBVIOUS
  <2> HIDE DEF u
  <2> QED
    BY <1>2, <2>1, <2>2
<1> HIDE DEF K
<1>3. Nat \subseteq K
  BY <1>1, <1>2, Upwards
<1> QED
  BY <1>3 DEF K

LEMMA AppendRange ==
  ASSUME NEW T, NEW s \in Seq(T), NEW x \in T
  PROVE  /\ Range(Append(s, x)) = Range(s) \cup {x}
         /\ IsInjective(Append(s, x)) <=> IsInjective(s) /\ x \notin Range(s)
<1> DEFINE u == Append(s, x)
<1>1. /\ DOMAIN s = 1 .. Len(s) /\ DOMAIN u = 1 .. Len(s) + 1 /\ Len(s) \in Nat
      /\ u[Len(s) + 1] = x /\ \A i \in DOMAIN s : i \in DOMAIN u /\ u[i] = s[i]
  OBVIOUS
<1>2. \A i \in DOMAIN u : i \in DOMAIN s \/ i = Len(s) + 1
  BY <1>1
<1>3. Len(s) + 1 \in DOMAIN u /\ Len(s) + 1 \notin DOMAIN s
  BY <1>1
<1> HIDE DEF u
<1>4. Range(u) = Range(s) \cup {x}
  BY <1>1, <1>2, <1>3 DEF Range
<1>5. ASSUME IsInjective(s), x \notin Range(s) PROVE IsInjective(u)
  BY <1>1, <1>2, <1>5 DEF IsInjective, Range
<1>6. ASSUME IsInjective(u) PROVE IsInjective(s) /\ x \notin Range(s)
  <2>1. ASSUME NEW i \in DOMAIN s, NEW j \in DOMAIN s, s[i] = s[j] PROVE i = j
    BY <1>1, <1>6, <2>1 DEF IsInjective
  <2>2. ASSUME NEW i \in DOMAIN s, s[i] = x PROVE FALSE
    BY <1>1, <1>3, <1>6, <2>2 DEF IsInjective
  <2> QED
    BY <2>1, <2>2 DEF IsInjective, Range
<1> QED
  BY <1>4, <1>5, <1>6 DEF u

LEMMA OnlyRange ==
  ASSUME NEW T, NEW S
  PROVE  \A s \in Seq(T) :
           /\ Only(s, S) \in Seq(T)
           /\ Range(Only(s, S)) = Range(s) \cap S
           /\ IsInjective(s) => IsInjective(Only(s, S))
<1> DEFINE A == {s \in Seq(T) : /\ Only(s, S) \in Seq(T)
                                /\ Range(Only(s, S)) = Range(s) \cap S
                                /\ IsInjective(s) => IsInjective(Only(s, S))}
<1>1. <<>> \in A
  <2>1. <<>> \in Seq(T) /\ Range(<<>>) = {} /\ IsInjective(<<>>)
    BY DEF Range, IsInjective
  <2> QED
    BY <2>1, OnlyNothing
<1>2. ASSUME NEW s \in Seq(T), NEW x \in T, s \in A PROVE Append(s, x) \in A
  <2>1. /\ Range(Append(s, x)) = Range(s) \cup {x}
        /\ IsInjective(Append(s, x)) <=> IsInjective(s) /\ x \notin Range(s)
    BY AppendRange
  <2>2. /\ Only(s, S) \in Seq(T) /\ Range(Only(s, S)) = Range(s) \cap S
        /\ IsInjective(s) => IsInjective(Only(s, S))
    BY <1>2
  <2>3. /\ Range(Append(Only(s, S), x)) = Range(Only(s, S)) \cup {x}
        /\ IsInjective(Append(Only(s, S), x))
             <=> IsInjective(Only(s, S)) /\ x \notin Range(Only(s, S))
    BY <2>2, AppendRange
  <2>4. Only(Append(s, x), S) = IF x \in S THEN Append(Only(s, S), x) ELSE Only(s, S)
    BY OnlyAppend DEF OnlyStep
  <2>5. Append(s, x) \in Seq(T)
    OBVIOUS
  <2>6. Only(Append(s, x), S) \in Seq(T)
    BY <2>2, <2>4
  <2>7. Range(Only(Append(s, x), S)) = Range(Append(s, x)) \cap S
    BY <2>1, <2>2, <2>3, <2>4
  <2>8. IsInjective(Append(s, x)) => IsInjective(Only(Append(s, x), S))
    BY <2>1, <2>2, <2>3, <2>4
  <2> QED
    BY <2>5, <2>6, <2>7, <2>8
<1> HIDE DEF A
<1>3. Seq(T) \subseteq A
  BY <1>1, <1>2, Longer
<1> QED
  BY <1>3 DEF A

\* To keep all is to keep the sequence.
LEMMA OnlyAll ==
  ASSUME NEW T, NEW S
  PROVE  \A s \in Seq(T) : Range(s) \subseteq S => Only(s, S) = s
<1> DEFINE A == {s \in Seq(T) : Range(s) \subseteq S => Only(s, S) = s}
<1>1. <<>> \in A
  BY OnlyNothing
<1>2. ASSUME NEW s \in Seq(T), NEW x \in T, s \in A PROVE Append(s, x) \in A
  BY <1>2, AppendRange, OnlyAppend DEF OnlyStep
<1> HIDE DEF A
<1>3. Seq(T) \subseteq A
  BY <1>1, <1>2, Longer
<1> QED
  BY <1>3 DEF A

LEMMA OnlyTwice ==
  ASSUME NEW T, NEW R, NEW S
  PROVE  \A s \in Seq(T) : Only(Only(s, R), S) = Only(s, R \cap S)
<1> DEFINE A == {s \in Seq(T) : Only(Only(s, R), S) = Only(s, R \cap S)}
<1>1. <<>> \in A
  BY OnlyNothing
<1>2. ASSUME NEW s \in Seq(T), NEW x \in T, s \in A PROVE Append(s, x) \in A
  <2>1. Only(s, R) \in Seq(T)
    BY OnlyRange
  <2>2. Only(Append(s, x), R) = IF x \in R THEN Append(Only(s, R), x) ELSE Only(s, R)
    BY OnlyAppend DEF OnlyStep
  <2>3. Only(Append(s, x), R \cap S)
          = IF x \in R \cap S THEN Append(Only(s, R \cap S), x) ELSE Only(s, R \cap S)
    BY OnlyAppend DEF OnlyStep
  <2>4. Only(Append(Only(s, R), x), S)
          = IF x \in S THEN Append(Only(Only(s, R), S), x) ELSE Only(Only(s, R), S)
    BY <2>1, OnlyAppend DEF OnlyStep
  <2>5. Only(Only(s, R), S) = Only(s, R \cap S)
    BY <1>2
  <2>6. Only(Only(Append(s, x), R), S) = Only(Append(s, x), R \cap S)
    <3>1. CASE x \in R /\ x \in S
      BY <2>2, <2>3, <2>4, <2>5, <3>1
    <3>2. CASE x \in R /\ x \notin S
      BY <2>2, <2>3, <2>4, <2>5, <3>2
    <3>3. CASE x \notin R
      BY <2>2, <2>3, <2>5, <3>3
    <3> QED
      BY <3>1, <3>2, <3>3
  <2> QED
    BY <2>6
<1> HIDE DEF A
<1>3. Seq(T) \subseteq A
  BY <1>1, <1>2, Longer
<1> QED
  BY <1>3 DEF A
LEMMA ConcatRange ==
  ASSUME NEW T, NEW s \in Seq(T), NEW t \in Seq(T)
  PROVE  /\ s \o t \in Seq(T) /\ Range(s \o t) = Range(s) \cup Range(t)
         /\ IsInjective(s) /\ IsInjective(t) /\ Range(s) \cap Range(t) = {} => IsInjective(s \o t)
<1> DEFINE u == s \o t
<1>1. /\ u \in Seq(T) /\ Len(s) \in Nat /\ Len(t) \in Nat
      /\ DOMAIN s = 1 .. Len(s) /\ DOMAIN t = 1 .. Len(t) /\ DOMAIN u = 1 .. Len(s) + Len(t)
      /\ \A i \in DOMAIN s : u[i] = s[i]
      /\ \A i \in DOMAIN t : u[i + Len(s)] = t[i]
  OBVIOUS
<1>2. \A i \in DOMAIN u : i \in DOMAIN s \/ (i - Len(s) \in DOMAIN t /\ u[i] = t[i - Len(s)])
  BY <1>1
<1>3. \A i \in DOMAIN s : i \in DOMAIN u
  BY <1>1
<1>4. \A i \in DOMAIN t : i + Len(s) \in DOMAIN u
  BY <1>1
<1> HIDE DEF u
<1>5. Range(u) \subseteq Range(s) \cup Range(t)
  BY <1>1, <1>2 DEF Range
<1>6. Range(s) \subseteq Range(u)
  BY <1>1, <1>3 DEF Range
<1>7. Range(t) \subseteq Range(u)
  BY <1>1, <1>4 DEF Range
<1>8. ASSUME IsInjective(s), IsInjective(t), Range(s) \cap Range(t) = {} PROVE IsInjective(u)
  <2> SUFFICES ASSUME NEW i \in DOMAIN u, NEW j \in DOMAIN u, u[i] = u[j] PROVE i = j
    BY DEF IsInjective
  <2>1. \A k \in DOMAIN s : s[k] \in Range(s)
    BY DEF Range
  <2>2. \A k \in DOMAIN t : t[k] \in Range(t)
    BY DEF Range
  <2>3. CASE i \in DOMAIN s /\ j \in DOMAIN s
    BY <1>1, <1>8, <2>3 DEF IsInjective
  <2>4. CASE i \notin DOMAIN s /\ j \notin DOMAIN s
    <3>1. i - Len(s) = j - Len(s)
      BY <1>2, <1>8, <2>4 DEF IsInjective
    <3> QED
      BY <1>1, <3>1
  <2>5. CASE i \in DOMAIN s /\ j \notin DOMAIN s
    BY <1>1, <1>2, <1>8, <2>1, <2>2, <2>5
  <2>6. CASE i \notin DOMAIN s /\ j \in DOMAIN s
    BY <1>1, <1>2, <1>8, <2>1, <2>2, <2>6
  <2> QED
    BY <2>3, <2>4, <2>5, <2>6
<1> QED
  BY <1>1, <1>5, <1>6, <1>7, <1>8 DEF u

-----------------------------------------------------------------------------
(* The book.                                                               *)

Reasons == {"none", "ioc", "requested", "session_dead", "expired", "hold_unconfirmed"}
Events == [kind : {"fill", "left"}, seq : Nat, of : Seq(Orders), reason : Reasons]
Books == [rest : Seq(Orders), seq : Nat, printed : BOOLEAN]
States == [book : Books, dead : SUBSET Accounts, maint : BOOLEAN, flight : SUBSET Orders]

\* No order rests twice, and only orders of P rest.
SoundBook(b, P) == b \in Books /\ IsInjective(b.rest) /\ Range(b.rest) \subseteq P

\* No two fills have one sequence, and no order ends twice.
OneFill(evs) == \A e, f \in Range(evs) : e.kind = "fill" /\ f.kind = "fill" /\ e.seq = f.seq => e = f
EndOnce(evs) == \A e, f \in Range(evs) : e # f => Range(e.of) \cap Range(f.of) = {}

\* c is what becomes of b as the orders of D arrive: a book that printed keeps counting,
\* its fills are under the sequences in between, and who ends in an event was there, or
\* arrived, and is gone.
Follows(c, b, D) ==
  /\ SoundBook(c.book, Range(b.rest) \cup D)
  /\ c.evs \in Seq(Events) /\ OneFill(c.evs) /\ EndOnce(c.evs)
  /\ b.printed => c.book.printed /\ b.seq <= c.book.seq
  /\ \A e \in Range(c.evs) :
       e.kind = "fill" => c.book.printed /\ b.seq < e.seq /\ e.seq <= c.book.seq
  /\ \A e \in Range(c.evs) :
       Range(e.of) \subseteq Range(b.rest) \cup D /\ Range(e.of) \cap Range(c.book.rest) = {}

NoFill(evs) == \A e \in Range(evs) : e.kind # "fill"

LEMMA RangeOne == \A x : Range(<<x>>) = {x}
  BY DEF Range

LEMMA RangeTwo == \A x, y : Range(<<x, y>>) = {x, y}
  BY DEF Range

LEMMA NoEvents ==
  /\ <<>> \in Seq(Events) /\ Range(<<>>) = {}
  /\ OneFill(<<>>) /\ EndOnce(<<>>) /\ NoFill(<<>>)
  BY DEF Range, OneFill, EndOnce, NoFill

LEMMA OneEvent ==
  ASSUME NEW e \in Events
  PROVE  <<e>> \in Seq(Events) /\ OneFill(<<e>>) /\ EndOnce(<<e>>) /\ Range(<<e>>) = {e}
<1>1. Range(<<e>>) = {e}
  BY RangeOne
<1>2. OneFill(<<e>>) /\ EndOnce(<<e>>)
  BY <1>1 DEF OneFill, EndOnce
<1>3. <<e>> \in Seq(Events)
  OBVIOUS
<1> QED
  BY <1>1, <1>2, <1>3

LEMMA WithoutRange ==
  ASSUME NEW S
  PROVE  \A s \in Seq(Orders) :
           /\ Without(s, S) \in Seq(Orders)
           /\ Range(Without(s, S)) = Range(s) \ S
           /\ IsInjective(s) => IsInjective(Without(s, S))
<1> SUFFICES ASSUME NEW s \in Seq(Orders)
             PROVE  /\ Without(s, S) \in Seq(Orders)
                    /\ Range(Without(s, S)) = Range(s) \ S
                    /\ IsInjective(s) => IsInjective(Without(s, S))
  OBVIOUS
<1>1. Range(s) \subseteq Orders
  BY DEF Range
<1>2. /\ Only(s, Orders \ S) \in Seq(Orders)
      /\ Range(Only(s, Orders \ S)) = Range(s) \cap (Orders \ S)
      /\ IsInjective(s) => IsInjective(Only(s, Orders \ S))
  BY OnlyRange
<1> QED
  BY <1>1, <1>2 DEF Without

\* A book that never printed and is empty is deleted: nothing rests in either.
LEMMA DroppedIs ==
  ASSUME NEW b \in Books
  PROVE  /\ Dropped(b) \in Books /\ Dropped(b).rest = b.rest
         /\ b.printed => Dropped(b) = b
         /\ Dropped(b).printed = b.printed
<1>1. b.printed \in BOOLEAN
  BY DEF Books
<1>2. EmptyBook \in Books /\ EmptyBook.rest = <<>> /\ EmptyBook.printed = FALSE
  BY DEF EmptyBook, Books
<1>3. CASE b.printed \/ b.rest # <<>>
  BY <1>3 DEF Dropped
<1>4. CASE ~b.printed /\ b.rest = <<>>
  BY <1>1, <1>2, <1>4 DEF Dropped
<1> QED
  BY <1>3, <1>4

LEMMA SweptFollows ==
  ASSUME NEW c, NEW b, NEW D, Follows(c, b, D)
  PROVE  Follows(Swept(c), b, D)
<1>1. c.book \in Books /\ SoundBook(c.book, Range(b.rest) \cup D)
  BY DEF Follows, SoundBook
<1>2. Swept(c).book = Dropped(c.book) /\ Swept(c).evs = c.evs
  BY DEF Swept, Result
<1>3. /\ Dropped(c.book) \in Books /\ Dropped(c.book).rest = c.book.rest
      /\ c.book.printed => Dropped(c.book) = c.book
  BY <1>1, DroppedIs
<1>4. SoundBook(Dropped(c.book), Range(b.rest) \cup D)
  BY <1>1, <1>3 DEF SoundBook
<1> QED
  BY <1>2, <1>3, <1>4 DEF Follows

\* A mark moves stops behind the rest, under new sequences.
LEMMA MarkMoves ==
  ASSUME NEW b \in Books, IsInjective(b.rest)
  PROVE  /\ MarkTo(b) \in Books /\ Range(MarkTo(b).rest) = Range(b.rest)
         /\ IsInjective(MarkTo(b).rest)
         /\ MarkTo(b).printed = b.printed /\ b.seq <= MarkTo(b).seq
<1> DEFINE stops == Only(b.rest, Trailing)
           others == Without(b.rest, Trailing)
<1>1. b.rest \in Seq(Orders) /\ b.seq \in Nat /\ b.printed \in BOOLEAN
  BY DEF Books
<1>2. stops \in Seq(Orders) /\ Range(stops) = Range(b.rest) \cap Trailing /\ IsInjective(stops)
  BY <1>1, OnlyRange
<1>3. others \in Seq(Orders) /\ Range(others) = Range(b.rest) \ Trailing /\ IsInjective(others)
  BY <1>1, WithoutRange
<1>4. MarkTo(b) = [b EXCEPT !.rest = others \o stops, !.seq = b.seq + Len(stops)]
  BY DEF MarkTo
<1> HIDE DEF stops, others
<1>5. Range(others) \cap Range(stops) = {} /\ Range(others) \cup Range(stops) = Range(b.rest)
  BY <1>2, <1>3
<1> DEFINE all == others \o stops
           n == b.seq + Len(stops)
<1>6. all \in Seq(Orders) /\ Range(all) = Range(b.rest) /\ IsInjective(all)
  <2>1. /\ all \in Seq(Orders) /\ Range(all) = Range(others) \cup Range(stops)
        /\ IsInjective(others) /\ IsInjective(stops) /\ Range(others) \cap Range(stops) = {}
             => IsInjective(all)
    BY <1>2, <1>3, ConcatRange
  <2> QED
    BY <1>2, <1>3, <1>5, <2>1
<1>7. n \in Nat /\ b.seq <= n
  BY <1>1, <1>2
<1> HIDE DEF all, n
<1>8. MarkTo(b) = [rest |-> all, seq |-> n, printed |-> b.printed]
  BY <1>4 DEF Books, all, n
<1> QED
  BY <1>1, <1>6, <1>7, <1>8 DEF Books

LEMMA SubmitFollows ==
  ASSUME NEW b \in Books, IsInjective(b.rest), NEW o \in Orders, o \notin Range(b.rest)
  PROVE  Follows(SubmitTo(b, o), b, {o})
<1> DEFINE others == Only(b.rest, Opposite(o))
           n == b.seq + 2
           P == Range(b.rest) \cup {o}
<1>1. /\ b.rest \in Seq(Orders) /\ b.seq \in Nat /\ b.printed \in BOOLEAN /\ n \in Nat
      /\ b.seq < n /\ b.seq <= n - 1 /\ n <= n /\ n - 1 \in Nat
  BY DEF Books
<1>2. others \in Seq(Orders) /\ Range(others) \subseteq Range(b.rest)
  BY <1>1, OnlyRange
<1> HIDE DEF others, n, P
<1>3. CASE others # <<>>
  <2> DEFINE m == others[1]
             left == Without(b.rest, {m})
             c == [b EXCEPT !.rest = left, !.seq = n, !.printed = TRUE]
             e == Fill(n, m, o)
  <2>1. SubmitTo(b, o) = Result(c, <<e>>)
    BY <1>3 DEF SubmitTo, others, n
  <2>2. m \in Orders /\ m \in Range(b.rest)
    <3>1. 1 \in DOMAIN others
      BY <1>2, <1>3
    <3> QED
      BY <1>2, <3>1 DEF Range
  <2>3. <<m, o>> \in Seq(Orders) /\ Range(<<m, o>>) = {m, o}
    BY <2>2, RangeTwo
  <2>4. e \in Events /\ e.seq = n /\ e.of = <<m, o>>
    BY <1>1, <2>3 DEF Fill, Events, Reasons
  <2>5. left \in Seq(Orders) /\ Range(left) = Range(b.rest) \ {m} /\ IsInjective(left)
    BY <1>1, WithoutRange
  <2> HIDE DEF m, left, e
  <2>6. c \in Books /\ c.rest = left /\ c.seq = n
    BY <1>1, <2>5 DEF Books
  <2>7. c.printed = TRUE
    BY DEF Books
  <2> HIDE DEF c
  <2>8. SoundBook(c, P)
    BY <2>5, <2>6 DEF SoundBook, P
  <2>9. Range(e.of) \subseteq P /\ Range(e.of) \cap Range(c.rest) = {}
    <3>1. Range(e.of) = {m, o}
      BY <2>3, <2>4
    <3>2. m \notin Range(c.rest) /\ o \notin Range(c.rest)
      BY <2>5, <2>6
    <3> QED
      BY <2>2, <3>1, <3>2 DEF P
  <2>10. <<e>> \in Seq(Events) /\ OneFill(<<e>>) /\ EndOnce(<<e>>) /\ Range(<<e>>) = {e}
    BY <2>4, OneEvent
  <2>11. b.seq <= c.seq /\ b.seq < e.seq /\ e.seq <= c.seq
    BY <1>1, <2>4, <2>6
  <2> DEFINE d == Result(c, <<e>>)
  <2>12. d.book = c /\ d.evs = <<e>>
    BY DEF Result
  <2> HIDE DEF d
  <2>13. Follows(d, b, {o})
    BY <2>7, <2>8, <2>9, <2>10, <2>11, <2>12 DEF Follows, P
  <2> QED
    BY <2>1, <2>13 DEF d
<1>4. CASE others = <<>> /\ o \in Ioc
  <2> DEFINE c == [b EXCEPT !.seq = n]
             e == Left(n, o, "ioc")
  <2>1. SubmitTo(b, o) = Result(c, <<e>>)
    BY <1>4 DEF SubmitTo, others, n
  <2>2. <<o>> \in Seq(Orders) /\ Range(<<o>>) = {o}
    BY RangeOne
  <2>3. e \in Events /\ e.kind # "fill" /\ e.of = <<o>>
    BY <1>1, <2>2 DEF Left, Events, Reasons
  <2> HIDE DEF e
  <2>4. c \in Books /\ c.rest = b.rest /\ c.seq = n /\ c.printed = b.printed
    BY <1>1 DEF Books
  <2> HIDE DEF c
  <2>5. SoundBook(c, P)
    BY <2>4 DEF SoundBook, P
  <2>6. Range(e.of) \subseteq P /\ Range(e.of) \cap Range(c.rest) = {}
    BY <2>2, <2>3, <2>4 DEF P
  <2> QED
    BY <1>1, <2>1, <2>3, <2>4, <2>5, <2>6, OneEvent DEF Follows, Result, P
<1>5. CASE others = <<>> /\ o \notin Ioc
  <2> DEFINE rest == Append(b.rest, o)
             c == [b EXCEPT !.rest = rest, !.seq = n - 1]
  <2>1. SubmitTo(b, o) = Result(c, <<>>)
    BY <1>5 DEF SubmitTo, others, n
  <2>2. Range(rest) = P /\ IsInjective(rest)
    BY <1>1, AppendRange DEF P
  <2>3. rest \in Seq(Orders)
    BY <1>1
  <2> HIDE DEF rest
  <2>4. c \in Books /\ c.rest = rest /\ c.seq = n - 1 /\ c.printed = b.printed
    BY <1>1, <2>3 DEF Books
  <2> HIDE DEF c
  <2>5. SoundBook(c, P)
    BY <2>2, <2>4 DEF SoundBook
  <2> QED
    BY <1>1, <2>1, <2>4, <2>5, NoEvents DEF Follows, Result, P
<1> QED
  BY <1>3, <1>4, <1>5

LEMMA CancelFollows ==
  ASSUME NEW b \in Books, IsInjective(b.rest), NEW o \in Orders, NEW why \in Reasons
  PROVE  Follows(CancelIn(b, o, why), b, {}) /\ NoFill(CancelIn(b, o, why).evs)
<1> DEFINE n == b.seq + 1
<1>1. /\ b.rest \in Seq(Orders) /\ b.seq \in Nat /\ b.printed \in BOOLEAN /\ n \in Nat
      /\ b.seq <= n /\ b.seq <= b.seq
  BY DEF Books
<1> HIDE DEF n
<1>2. CASE Rests(b, o)
  <2> DEFINE left == Without(b.rest, {o})
             c == [b EXCEPT !.rest = left, !.seq = n]
             e == Left(n, o, why)
  <2>1. CancelIn(b, o, why) = Result(c, <<e>>)
    BY <1>2 DEF CancelIn, n
  <2>2. <<o>> \in Seq(Orders) /\ Range(<<o>>) = {o} /\ o \in Range(b.rest)
    BY <1>2, RangeOne DEF Rests
  <2>3. e \in Events /\ e.kind # "fill" /\ e.of = <<o>>
    BY <1>1, <2>2 DEF Left, Events
  <2>4. left \in Seq(Orders) /\ Range(left) = Range(b.rest) \ {o} /\ IsInjective(left)
    BY <1>1, WithoutRange
  <2> HIDE DEF e, left
  <2>5. c \in Books /\ c.rest = left /\ c.seq = n /\ c.printed = b.printed
    BY <1>1, <2>4 DEF Books
  <2> HIDE DEF c
  <2>6. SoundBook(c, Range(b.rest) \cup {})
    BY <2>4, <2>5 DEF SoundBook
  <2>7. Range(e.of) \subseteq Range(b.rest) \cup {} /\ Range(e.of) \cap Range(c.rest) = {}
    BY <2>2, <2>3, <2>4, <2>5
  <2> QED
    BY <1>1, <2>1, <2>3, <2>5, <2>6, <2>7, OneEvent DEF Follows, Result, NoFill
<1>3. CASE ~Rests(b, o)
  <2>1. CancelIn(b, o, why) = Result(b, <<>>)
    BY <1>3 DEF CancelIn
  <2>2. SoundBook(b, Range(b.rest) \cup {})
    BY DEF SoundBook
  <2> QED
    BY <1>1, <2>1, <2>2, NoEvents DEF Follows, Result
<1> QED
  BY <1>2, <1>3

LEMMA CancelAllFollows ==
  ASSUME NEW b \in Books, IsInjective(b.rest), NEW ids \in Seq(Orders), IsInjective(ids),
         Range(ids) \subseteq Range(b.rest), NEW why \in Reasons
  PROVE  Follows(CancelAll(b, ids, why), b, {}) /\ NoFill(CancelAll(b, ids, why).evs)
<1> DEFINE n == b.seq + Len(ids)
           left == Without(b.rest, Range(ids))
           c == [b EXCEPT !.rest = left, !.seq = n]
           evs == [i \in DOMAIN ids |-> Left(b.seq + i, ids[i], why)]
<1>1. /\ b.rest \in Seq(Orders) /\ b.seq \in Nat /\ b.printed \in BOOLEAN /\ Len(ids) \in Nat
      /\ n \in Nat /\ b.seq <= n
  BY DEF Books
<1>2. CancelAll(b, ids, why) = Result(c, evs)
  BY DEF CancelAll
<1>3. left \in Seq(Orders) /\ Range(left) = Range(b.rest) \ Range(ids) /\ IsInjective(left)
  BY <1>1, WithoutRange
<1> HIDE DEF left, n
<1>4. c \in Books /\ c.rest = left /\ c.seq = n /\ c.printed = b.printed
  BY <1>1, <1>3 DEF Books
<1> HIDE DEF c
<1>5. SoundBook(c, Range(b.rest) \cup {})
  BY <1>3, <1>4 DEF SoundBook
<1>6. DOMAIN ids = 1 .. Len(ids) /\ \A i \in DOMAIN ids : <<ids[i]>> \in Seq(Orders)
  OBVIOUS
<1>7. \A i \in DOMAIN ids : /\ evs[i] \in Events /\ evs[i].kind # "fill"
                            /\ evs[i].of = <<ids[i]>>
  BY <1>1, <1>6 DEF Left, Events
<1>8. DOMAIN evs = 1 .. Len(ids) /\ evs = [i \in 1 .. Len(ids) |-> evs[i]]
  BY <1>6
<1> HIDE DEF evs
<1>9. evs \in Seq(Events)
  BY <1>1, <1>6, <1>7, <1>8
<1>10. \A e \in Range(evs) : \E i \in DOMAIN ids : e = evs[i]
  BY <1>6, <1>8 DEF Range
<1>11. \A i \in DOMAIN ids : Range(evs[i].of) = {ids[i]} /\ ids[i] \in Range(ids)
  BY <1>7, RangeOne DEF Range
<1>12. NoFill(evs) /\ OneFill(evs)
  BY <1>7, <1>10 DEF NoFill, OneFill
<1>13. EndOnce(evs)
  <2> SUFFICES ASSUME NEW e \in Range(evs), NEW f \in Range(evs), e # f
               PROVE  Range(e.of) \cap Range(f.of) = {}
    BY DEF EndOnce
  <2>1. PICK i \in DOMAIN ids : e = evs[i]
    BY <1>10
  <2>2. PICK j \in DOMAIN ids : f = evs[j]
    BY <1>10
  <2>3. ids[i] # ids[j]
    BY <2>1, <2>2 DEF IsInjective
  <2> QED
    BY <1>11, <2>1, <2>2, <2>3
<1>14. \A e \in Range(evs) : Range(e.of) \subseteq Range(b.rest) \cup {}
                             /\ Range(e.of) \cap Range(c.rest) = {}
  <2> SUFFICES ASSUME NEW e \in Range(evs)
               PROVE  /\ Range(e.of) \subseteq Range(b.rest) \cup {}
                      /\ Range(e.of) \cap Range(c.rest) = {}
    OBVIOUS
  <2>1. PICK i \in DOMAIN ids : e = evs[i]
    BY <1>10
  <2>2. Range(e.of) = {ids[i]} /\ ids[i] \in Range(ids)
    BY <1>11, <2>1
  <2> QED
    BY <1>3, <1>4, <2>2
<1> QED
  BY <1>1, <1>2, <1>4, <1>5, <1>9, <1>12, <1>13, <1>14 DEF Follows, Result, NoFill
-----------------------------------------------------------------------------
(* What replay makes of a journal.                                         *)

Recs ==
  [kind : {"submit", "inflight"}, of : Orders, reason : {"none"}]
    \cup [kind : {"cancel"}, of : Orders, reason : {"requested"}]
    \cup [kind : {"mass", "dead"}, of : Accounts, reason : {"none"}]
    \cup [kind : {"mark"}, of : {"none"}, reason : {"none"}]
    \cup [kind : {"maint"}, of : BOOLEAN, reason : {"none"}]

Calm == {x \in Recs : x.kind # "submit"}
SubmitOf(x) == IF x.kind = "submit" THEN {x.of} ELSE {}
Sent(L) == UNION {SubmitOf(L[i]) : i \in DOMAIN L}
Evs(L) == Range(Replay(L).evs)

\* A sound result of replay, of a journal that submits the orders of P.  A trade keeps
\* its book for good, which is why its sequence is never given to another; the other
\* events have none of their own, as the book they leave may be deleted.
Sound(r, P) ==
  /\ r \in [st : States, evs : Seq(Events)]
  /\ SoundBook(r.st.book, P)
  /\ OneFill(r.evs) /\ EndOnce(r.evs)
  /\ \A e \in Range(r.evs) : e.kind = "fill" => r.st.book.printed /\ e.seq <= r.st.book.seq
  /\ \A e \in Range(r.evs) :
       Range(e.of) \subseteq P /\ Range(e.of) \cap Range(r.st.book.rest) = {}

\* Every journal that is reached is sound.
SoundLog(L) == L \in Seq(Recs) /\ Sound(Replay(L), Sent(L))

\* The journal M goes on from L.
Grown(L, M) ==
  /\ SoundLog(M)
  /\ Sent(L) \subseteq Sent(M) /\ Evs(L) \subseteq Evs(M)
  /\ Len(L) <= Len(M)
  /\ \A n \in 0 .. Len(L) : SubSeq(M, 1, n) = SubSeq(L, 1, n)

\* It goes on without a trade.
GrownCalm(L, M) == Grown(L, M) /\ Sent(M) = Sent(L) /\ FillsIn(M) = FillsIn(L)

LEMMA WithFollows ==
  ASSUME NEW r, NEW c, NEW P, NEW D, Sound(r, P), Follows(c, r.st.book, D), D \cap P = {}
  PROVE  Sound(With(r, c), P \cup D) /\ Range(With(r, c).evs) = Range(r.evs) \cup Range(c.evs)
<1> DEFINE w == With(r, c)
           b == r.st.book
<1>1. /\ r \in [st : States, evs : Seq(Events)] /\ c.evs \in Seq(Events)
      /\ c.book \in Books /\ b \in Books
  BY DEF Sound, Follows, SoundBook
<1>2. r.evs \o c.evs \in Seq(Events) /\ Range(r.evs \o c.evs) = Range(r.evs) \cup Range(c.evs)
  BY <1>1, ConcatRange
<1>3. w.evs = r.evs \o c.evs /\ w.st.book = c.book
  BY <1>1 DEF With, States
<1>4. w \in [st : States, evs : Seq(Events)]
  BY <1>1, <1>2 DEF With, States
<1>5. Range(b.rest) \subseteq P
  BY DEF Sound, SoundBook
<1>6. SoundBook(c.book, P \cup D) /\ Range(c.book.rest) \subseteq Range(b.rest) \cup D
  BY <1>5 DEF Follows, SoundBook
<1>7. \A e \in Range(r.evs) \cup Range(c.evs) : e.seq \in Nat
  <2>1. Range(r.evs) \subseteq Events /\ Range(c.evs) \subseteq Events
    BY <1>1 DEF Range
  <2> QED
    BY <2>1 DEF Events
<1>8. b.seq \in Nat /\ c.book.seq \in Nat
  BY <1>1 DEF Books
<1>9. /\ \A e \in Range(r.evs) : e.kind = "fill" => b.printed /\ e.seq <= b.seq
      /\ \A e \in Range(c.evs) :
           e.kind = "fill" => c.book.printed /\ b.seq < e.seq /\ e.seq <= c.book.seq
      /\ b.printed => c.book.printed /\ b.seq <= c.book.seq
  BY DEF Sound, Follows
<1>10. /\ \A e \in Range(r.evs) : Range(e.of) \subseteq P /\ Range(e.of) \cap Range(b.rest) = {}
       /\ \A e \in Range(c.evs) : /\ Range(e.of) \subseteq Range(b.rest) \cup D
                                  /\ Range(e.of) \cap Range(c.book.rest) = {}
  BY DEF Sound, Follows
<1>11. OneFill(r.evs) /\ OneFill(c.evs) /\ EndOnce(r.evs) /\ EndOnce(c.evs)
  BY DEF Sound, Follows
<1> HIDE DEF w, b
<1>12. OneFill(w.evs)
  BY <1>2, <1>3, <1>7, <1>8, <1>9, <1>11 DEF OneFill
<1>13. \A e \in Range(r.evs), f \in Range(c.evs) : Range(e.of) \cap Range(f.of) = {}
  BY <1>10
<1>14. EndOnce(w.evs)
  BY <1>2, <1>3, <1>11, <1>13 DEF EndOnce
<1>15. \A e \in Range(w.evs) : e.kind = "fill" => w.st.book.printed /\ e.seq <= w.st.book.seq
  BY <1>2, <1>3, <1>7, <1>8, <1>9
<1>16. \A e \in Range(w.evs) : Range(e.of) \subseteq P \cup D
                              /\ Range(e.of) \cap Range(w.st.book.rest) = {}
  BY <1>2, <1>3, <1>5, <1>6, <1>10
<1>17. SoundBook(w.st.book, P \cup D)
  BY <1>3, <1>6
<1>18. Sound(w, P \cup D)
  BY <1>4, <1>12, <1>14, <1>15, <1>16, <1>17 DEF Sound
<1> QED
  BY <1>2, <1>3, <1>18 DEF w

LEMMA RecordSound ==
  ASSUME NEW r, NEW P, Sound(r, P), NEW x \in Recs, SubmitOf(x) \cap P = {}
  PROVE  /\ Sound(ReplayRecord(r, x), P \cup SubmitOf(x))
         /\ Range(r.evs) \subseteq Range(ReplayRecord(r, x).evs)
         /\ x \in Calm => \A e \in Range(ReplayRecord(r, x).evs) \ Range(r.evs) : e.kind # "fill"
<1> DEFINE b == r.st.book
<1>1. r \in [st : States, evs : Seq(Events)] /\ SoundBook(b, P)
  BY DEF Sound
<1>2. CASE x.kind = "submit"
  <2>1. x.of \in Orders /\ SubmitOf(x) = {x.of} /\ x.of \notin P /\ x \notin Calm
    BY <1>2 DEF Recs, SubmitOf, Calm
  <2>2. CASE Account[x.of] \in r.st.dead
    <3>1. ReplayRecord(r, x) = r
      BY <1>2, <2>2 DEF ReplayRecord
    <3>2. Sound(r, P \cup SubmitOf(x))
      BY DEF Sound, SoundBook
    <3> QED
      BY <2>1, <3>1, <3>2
  <2>3. CASE Account[x.of] \notin r.st.dead
    <3>1. ReplayRecord(r, x) = With(r, Swept(SubmitTo(b, x.of)))
      BY <1>2, <2>3 DEF ReplayRecord
    <3>2. b \in Books /\ IsInjective(b.rest) /\ x.of \notin Range(b.rest)
      BY <1>1, <2>1 DEF SoundBook
    <3>3. Follows(Swept(SubmitTo(b, x.of)), b, SubmitOf(x))
      BY <2>1, <3>2, SubmitFollows, SweptFollows
    <3>4. SubmitOf(x) \cap P = {}
      OBVIOUS
    <3> DEFINE c == Swept(SubmitTo(b, x.of))
    <3>5. Follows(c, r.st.book, SubmitOf(x)) /\ ReplayRecord(r, x) = With(r, c)
      BY <3>1, <3>3
    <3> HIDE DEF b, c
    <3>6. /\ Sound(With(r, c), P \cup SubmitOf(x))
          /\ Range(With(r, c).evs) = Range(r.evs) \cup Range(c.evs)
      BY <3>4, <3>5, WithFollows
    <3> QED
      BY <2>1, <3>5, <3>6
  <2> QED
    BY <2>2, <2>3
<1>3. CASE x.kind # "submit"
  <2>1. SubmitOf(x) = {} /\ P \cup SubmitOf(x) = P
    BY <1>3 DEF SubmitOf
  <2> SUFFICES /\ Sound(ReplayRecord(r, x), P)
               /\ Range(r.evs) \subseteq Range(ReplayRecord(r, x).evs)
               /\ \A e \in Range(ReplayRecord(r, x).evs) \ Range(r.evs) : e.kind # "fill"
    BY <2>1
  <2>2. ASSUME NEW q, q \in [st : States, evs : Seq(Events)], q.evs = r.evs,
               SoundBook(q.st.book, P), Range(q.st.book.rest) = Range(b.rest),
               q.st.book.printed = b.printed, b.seq <= q.st.book.seq
        PROVE  Sound(q, P)
    <3>a. Range(r.evs) \subseteq Events
      BY <1>1 DEF Range
    <3>1. \A e \in Range(r.evs) : e.seq \in Nat
      BY <3>a DEF Events
    <3>2. b.seq \in Nat /\ q.st.book.seq \in Nat
      BY <1>1, <2>2 DEF States, Books
    <3>3. \A e \in Range(r.evs) : e.kind = "fill" => b.printed /\ e.seq <= b.seq
      BY DEF Sound
    <3>4. \A e \in Range(q.evs) : e.kind = "fill" => q.st.book.printed /\ e.seq <= q.st.book.seq
      BY <2>2, <3>1, <3>2, <3>3
    <3> QED
      BY <2>2, <3>4 DEF Sound
  <2>3. ASSUME NEW q, Sound(q, P), q.evs = r.evs, q.st.book = b, NEW c, Follows(c, b, {}), NoFill(c.evs),
               ReplayRecord(r, x) = With(q, c)
        PROVE  /\ Sound(ReplayRecord(r, x), P)
               /\ Range(r.evs) \subseteq Range(ReplayRecord(r, x).evs)
               /\ \A e \in Range(ReplayRecord(r, x).evs) \ Range(r.evs) : e.kind # "fill"
    <3>1. /\ Sound(With(q, c), P \cup {})
          /\ Range(With(q, c).evs) = Range(q.evs) \cup Range(c.evs)
      <4>1. Sound(q, P) /\ Follows(c, q.st.book, {}) /\ {} \cap P = {}
        BY <2>3
      <4> QED
        BY <4>1, WithFollows
    <3> QED
      BY <2>3, <3>1 DEF NoFill
  <2>4. ASSUME NEW q, Sound(q, P), q.evs = r.evs, ReplayRecord(r, x) = q
        PROVE  /\ Sound(ReplayRecord(r, x), P)
               /\ Range(r.evs) \subseteq Range(ReplayRecord(r, x).evs)
               /\ \A e \in Range(ReplayRecord(r, x).evs) \ Range(r.evs) : e.kind # "fill"
    BY <2>4
  <2>5. /\ b \in Books /\ IsInjective(b.rest) /\ b.rest \in Seq(Orders)
        /\ b.seq \in Nat /\ b.seq <= b.seq
    BY <1>1 DEF SoundBook, Books
  <2>6. CASE x.kind = "cancel"
    <3>1. x.of \in Orders /\ x.reason \in Reasons
      BY <2>6 DEF Recs, Reasons
    <3> DEFINE q == [r EXCEPT !.st.flight = @ \ {x.of}]
    <3>2. q \in [st : States, evs : Seq(Events)] /\ q.evs = r.evs /\ q.st.book = b
      BY <1>1 DEF States
    <3>3. ReplayRecord(r, x) = With(q, CancelIn(b, x.of, x.reason))
      BY <2>6 DEF ReplayRecord
    <3> HIDE DEF q
    <3>4. Sound(q, P)
      BY <1>1, <2>2, <2>5, <3>2
    <3> QED
      BY <2>3, <2>5, <3>1, <3>2, <3>3, <3>4, CancelFollows
  <2>7. ASSUME NEW a, NEW why \in Reasons
        PROVE  LET c == Swept(CancelAll(b, Owned(b, a), why))
               IN  Follows(c, b, {}) /\ NoFill(c.evs)
    <3>1. /\ Owned(b, a) \in Seq(Orders) /\ IsInjective(Owned(b, a))
          /\ Range(Owned(b, a)) \subseteq Range(b.rest)
      BY <2>5, OnlyRange DEF Owned
    <3> DEFINE c == CancelAll(b, Owned(b, a), why)
    <3>2. Follows(c, b, {}) /\ NoFill(c.evs)
      BY <2>5, <3>1, CancelAllFollows
    <3> HIDE DEF c
    <3>3. Follows(Swept(c), b, {}) /\ NoFill(Swept(c).evs)
      BY <3>2, SweptFollows DEF Swept, Result
    <3> QED
      BY <3>3 DEF c
  <2>8. CASE x.kind = "mass"
    <3>1. x.of \in Accounts /\ "requested" \in Reasons
      BY <2>8 DEF Recs, Reasons
    <3>2. ReplayRecord(r, x) = With(r, Swept(CancelAll(b, Owned(b, x.of), "requested")))
      BY <2>8 DEF ReplayRecord
    <3> QED
      BY <2>3, <2>7, <3>1, <3>2
  <2>9. CASE x.kind = "dead"
    <3>1. x.of \in Accounts /\ "session_dead" \in Reasons
      BY <2>9 DEF Recs, Reasons
    <3> DEFINE q == [r EXCEPT !.st.dead = @ \cup {x.of}]
    <3>2. q \in [st : States, evs : Seq(Events)] /\ q.evs = r.evs /\ q.st.book = b
      BY <1>1, <3>1 DEF States
    <3>3. ReplayRecord(r, x) = With(q, Swept(CancelAll(b, Owned(b, x.of), "session_dead")))
      BY <2>9 DEF ReplayRecord
    <3> HIDE DEF q
    <3>4. Sound(q, P)
      BY <1>1, <2>2, <2>5, <3>2
    <3> QED
      BY <2>3, <2>7, <3>1, <3>2, <3>3, <3>4
  <2>10. CASE x.kind = "mark"
    <3> DEFINE q == [r EXCEPT !.st.book = MarkTo(@)]
    <3>1. ReplayRecord(r, x) = q
      BY <2>10 DEF ReplayRecord
    <3>2. /\ MarkTo(b) \in Books /\ Range(MarkTo(b).rest) = Range(b.rest)
          /\ IsInjective(MarkTo(b).rest)
          /\ MarkTo(b).printed = b.printed /\ b.seq <= MarkTo(b).seq
      BY <2>5, MarkMoves
    <3>3. q \in [st : States, evs : Seq(Events)] /\ q.evs = r.evs /\ q.st.book = MarkTo(b)
      BY <1>1, <3>2 DEF States
    <3> HIDE DEF q
    <3>4. SoundBook(q.st.book, P)
      BY <1>1, <3>2, <3>3 DEF SoundBook
    <3> QED
      BY <2>2, <2>4, <3>1, <3>2, <3>3, <3>4
  <2>11. CASE x.kind = "inflight"
    <3>1. x.of \in Orders
      BY <2>11 DEF Recs
    <3> DEFINE q == [r EXCEPT !.st.flight = @ \cup {x.of}]
    <3>2. ReplayRecord(r, x) = q
      BY <2>11 DEF ReplayRecord
    <3>3. q \in [st : States, evs : Seq(Events)] /\ q.evs = r.evs /\ q.st.book = b
      BY <1>1, <3>1 DEF States
    <3> HIDE DEF q
    <3> QED
      BY <1>1, <2>2, <2>4, <2>5, <3>2, <3>3
  <2>12. CASE x.kind = "maint"
    <3>1. x.of \in BOOLEAN
      BY <2>12 DEF Recs
    <3> DEFINE q == [r EXCEPT !.st.maint = x.of]
    <3>2. ReplayRecord(r, x) = q
      BY <2>12 DEF ReplayRecord
    <3>3. q \in [st : States, evs : Seq(Events)] /\ q.evs = r.evs /\ q.st.book = b
      BY <1>1, <3>1 DEF States
    <3> HIDE DEF q
    <3> QED
      BY <1>1, <2>2, <2>4, <2>5, <3>2, <3>3
  <2> QED
    BY <1>3, <2>6, <2>8, <2>9, <2>10, <2>11, <2>12 DEF Recs
<1> QED
  BY <1>2, <1>3
LEMMA SentOne ==
  ASSUME NEW L \in Seq(Recs), NEW x \in Recs
  PROVE  Sent(Append(L, x)) = Sent(L) \cup SubmitOf(x)
<1> DEFINE M == Append(L, x)
<1>1. /\ DOMAIN L = 1 .. Len(L) /\ DOMAIN M = 1 .. Len(L) + 1 /\ Len(L) \in Nat
      /\ M[Len(L) + 1] = x /\ \A i \in DOMAIN L : i \in DOMAIN M /\ M[i] = L[i]
  OBVIOUS
<1>2. \A i \in DOMAIN M : i \in DOMAIN L \/ i = Len(L) + 1
  BY <1>1
<1>3. Len(L) + 1 \in DOMAIN M
  BY <1>1
<1> HIDE DEF M
<1>4. \A y : y \in Sent(M) <=> \E i \in DOMAIN M : y \in SubmitOf(M[i])
  BY DEF Sent
<1>5. \A y : y \in Sent(L) <=> \E i \in DOMAIN L : y \in SubmitOf(L[i])
  BY DEF Sent
<1>6. \A y : y \in Sent(M) <=> y \in Sent(L) \/ y \in SubmitOf(x)
  BY <1>1, <1>2, <1>3, <1>4, <1>5
<1>7. Sent(M) = Sent(L) \cup SubmitOf(x)
  BY <1>6
<1> QED
  BY <1>7 DEF M

LEMMA GrowOne ==
  ASSUME NEW L, SoundLog(L), NEW x \in Recs, SubmitOf(x) \cap Sent(L) = {}
  PROVE  /\ Grown(L, Append(L, x))
         /\ Sent(Append(L, x)) = Sent(L) \cup SubmitOf(x)
         /\ Replay(Append(L, x)) = ReplayRecord(Replay(L), x)
         /\ x \in Calm => GrownCalm(L, Append(L, x))
<1> DEFINE M == Append(L, x)
<1>1. L \in Seq(Recs) /\ Sound(Replay(L), Sent(L))
  BY DEF SoundLog
<1>2. M \in Seq(Recs) /\ Len(M) = Len(L) + 1 /\ Len(L) \in Nat
  BY <1>1
<1>3. Sent(M) = Sent(L) \cup SubmitOf(x)
  BY <1>1, SentOne
<1>4. Replay(M) = ReplayRecord(Replay(L), x)
  BY <1>1, ReplayAppend
<1>5. \A n \in 0 .. Len(L) : SubSeq(M, 1, n) = SubSeq(L, 1, n)
  BY <1>1
<1> HIDE DEF M
<1>6. /\ Sound(Replay(M), Sent(M))
      /\ Evs(L) \subseteq Evs(M)
      /\ x \in Calm => \A e \in Evs(M) \ Evs(L) : e.kind # "fill"
  <2> DEFINE r == Replay(L)
             q == ReplayRecord(r, x)
  <2> HIDE DEF r, q
  <2>1. Sound(r, Sent(L)) /\ Replay(M) = q
    BY <1>1, <1>4 DEF r, q
  <2>2. /\ Sound(q, Sent(L) \cup SubmitOf(x))
        /\ Range(r.evs) \subseteq Range(q.evs)
        /\ x \in Calm => \A e \in Range(q.evs) \ Range(r.evs) : e.kind # "fill"
    BY <2>1, RecordSound DEF q
  <2>3. Evs(L) = Range(r.evs) /\ Evs(M) = Range(q.evs)
    BY <2>1 DEF Evs, r
  <2> QED
    BY <1>3, <2>1, <2>2, <2>3
<1>7. Grown(L, M)
  BY <1>2, <1>3, <1>5, <1>6 DEF Grown, SoundLog
<1>8. ASSUME x \in Calm PROVE GrownCalm(L, M)
  <2>1. Sent(M) = Sent(L)
    BY <1>3, <1>8 DEF Calm, SubmitOf
  <2>2. FillsIn(M) = FillsIn(L)
    BY <1>6, <1>8 DEF FillsIn, Evs
  <2> QED
    BY <1>7, <2>1, <2>2 DEF GrownCalm
<1> QED
  BY <1>3, <1>4, <1>7, <1>8 DEF M

LEMMA GrownSelf == ASSUME NEW L, SoundLog(L) PROVE GrownCalm(L, L)
  BY DEF GrownCalm, Grown, SoundLog

LEMMA GrownOn ==
  ASSUME NEW L, NEW M, NEW N, SoundLog(L), GrownCalm(L, M), GrownCalm(M, N)
  PROVE  GrownCalm(L, N)
<1>1. Len(L) \in Nat /\ Len(M) \in Nat /\ Len(N) \in Nat
  BY DEF GrownCalm, Grown, SoundLog
<1>2. \A n \in 0 .. Len(L) : n \in 0 .. Len(M)
  BY <1>1 DEF GrownCalm, Grown
<1> QED
  BY <1>1, <1>2 DEF GrownCalm, Grown

LEMMA GrowMany ==
  ASSUME NEW L, SoundLog(L)
  PROVE  \A recs \in Seq(Calm) : GrownCalm(L, L \o recs)
<1> DEFINE A == {recs \in Seq(Calm) : GrownCalm(L, L \o recs)}
<1>1. L \in Seq(Recs)
  BY DEF SoundLog
<1>2. <<>> \in A
  <2>1. L \o <<>> = L
    BY <1>1
  <2> QED
    BY <2>1, GrownSelf
<1>3. ASSUME NEW s \in Seq(Calm), NEW x \in Calm, s \in A PROVE Append(s, x) \in A
  <2>1. s \in Seq(Recs) /\ x \in Recs /\ SubmitOf(x) = {}
    BY DEF Calm, SubmitOf
  <2>2. L \o Append(s, x) = Append(L \o s, x)
    BY <1>1, <2>1
  <2>3. GrownCalm(L, L \o s)
    BY <1>3
  <2>4. GrownCalm(L \o s, Append(L \o s, x))
    BY <2>1, <2>3, GrowOne DEF GrownCalm, Grown
  <2>5. GrownCalm(L, L \o Append(s, x))
    BY <2>2, <2>3, <2>4, GrownOn
  <2>6. Append(s, x) \in Seq(Calm)
    OBVIOUS
  <2> QED
    BY <2>5, <2>6
<1> HIDE DEF A
<1>4. Seq(Calm) \subseteq A
  BY <1>2, <1>3, Longer
<1> QED
  BY <1>4 DEF A
-----------------------------------------------------------------------------
(* The inductive invariant.                                                *)

\* The journal is sound, and a record in doubt could still be its next one.
LogInv ==
  /\ SoundLog(log)
  /\ \/ doubt = <<>>
     \/ \E x \in Recs : doubt = <<x>> /\ SubmitOf(x) \cap Sent(log) = {}

\* No mass cancel is under way, or one with orders left, or none but the drop.
Massing(s) == s = <<>> \/ \E m \in Seq(Orders) : s = <<m>>

\* What rests was submitted, and a mass cancel goes on only while the engine is up.
LiveInv ==
  /\ live \in States /\ SoundBook(live.book, Sent(log))
  /\ {hold, closed} \subseteq BOOLEAN /\ phase \in {"down", "announce", "check", "up"}
  /\ bad \subseteq Orders
  /\ Massing(mass) /\ (phase # "up" => mass = <<>>)
  /\ booted \in 0 .. Len(log)

\* What is to be published are events, and a boot announces events of its journal.
WorldInv ==
  /\ emits \subseteq Seq(Events) \ {<<>>}
  /\ phase = "announce" => todo \in Seq(Events) /\ Range(todo) \subseteq Evs(log)
  /\ phase = "check" => todo \in Seq(Orders)

\* The engine is where replay would be, but for what is left of a mass cancel: replay has
\* cancelled the orders of m already, under the sequences to come, and has dropped the
\* book that leaves if it never printed.
Later(b, m) == [b EXCEPT !.rest = Without(@, Range(m)), !.seq = @ + Len(m)]
LeftOver(b, m, evs) ==
  /\ IsInjective(m) /\ Range(m) \subseteq Range(b.rest)
  /\ \A i \in DOMAIN m : Left(b.seq + i, m[i], "requested") \in evs
InStep(r) ==
  /\ live.dead = r.st.dead /\ live.maint = r.st.maint
  /\ mass = <<>> => r.st.book = live.book
  /\ \A m \in Seq(Orders) : mass = <<m>> =>
       r.st.book = Dropped(Later(live.book, m)) /\ LeftOver(live.book, m, Range(r.evs))
SyncInv == raced = {} /\ phase # "down" => InStep(Replay(log))

\* Every event told, or about to be, is one that replay makes again.
TruthInv == raced = {} => pub \subseteq Evs(log) /\ \A evs \in emits : Range(evs) \subseteq Evs(log)

\* The fills of the journal are told, or are still to be announced by this boot.
BootInv ==
  /\ phase = "announce" => FillsIn(Before) \subseteq pub \cup Range(todo)
  /\ BootTellsFills

\* No trade is journalled before a boot listens, nor after it found a bad hold.
CalmInv ==
  /\ phase \in {"announce", "check"} \/ bad # {} => FillsIn(log) = FillsIn(Before)
  /\ bad # {} => hold

EngineInv == LogInv /\ LiveInv /\ WorldInv /\ SyncInv /\ TruthInv /\ BootInv /\ CalmInv

LEMMA CancelRecsCalm ==
  ASSUME NEW o \in Orders, NEW why
  PROVE  CancelRecs(o, why) \in Seq(Calm) /\ Rec("inflight", o, "none") \in Calm
<1>1. Rec("inflight", o, "none") \in Calm /\ Rec("cancel", o, "requested") \in Calm
  BY DEF Rec, Calm, Recs
<1>2. Handed(why) = "requested"
  BY DEF Handed
<1>3. CASE Rests(live.book, o)
  <2>1. CancelRecs(o, why)
          = <<Rec("inflight", o, "none")>> \o <<Rec("cancel", o, "requested")>>
    BY <1>2, <1>3 DEF CancelRecs
  <2> QED
    BY <1>1, <2>1
<1>4. CASE ~Rests(live.book, o)
  <2>1. CancelRecs(o, why) = <<>> \o <<Rec("cancel", o, "requested")>>
    BY <1>2, <1>4 DEF CancelRecs
  <2> QED
    BY <1>1, <2>1
<1> QED
  BY <1>1, <1>3, <1>4

LEMMA ControlsCalm ==
  /\ \A a \in Accounts : Rec("mass", a, "none") \in Calm /\ Rec("dead", a, "none") \in Calm
  /\ Rec("mark", "none", "none") \in Calm
  /\ \A b \in BOOLEAN : Rec("maint", b, "none") \in Calm
  BY DEF Rec, Calm, Recs

LEMMA AppendAllCalm ==
  ASSUME LogInv, NEW recs \in Seq(Calm), AppendAll(recs)
  PROVE  LogInv' /\ GrownCalm(log, log') /\ log' = log \o recs
<1>1. log' = log \o recs /\ doubt' = <<>>
  BY DEF AppendAll
<1>2. GrownCalm(log, log')
  BY <1>1, GrowMany DEF LogInv
<1> QED
  BY <1>1, <1>2 DEF LogInv, GrownCalm, Grown

LEMMA AppendFailsCalm ==
  ASSUME LogInv, NEW recs \in Seq(Calm), NEW n, AppendFails(recs, n)
  PROVE  LogInv' /\ GrownCalm(log, log')
<1>1. n \in 0 .. Len(recs) - 1 /\ Len(recs) \in Nat
  BY DEF AppendFails
<1>2. SubSeq(recs, 1, n) \in Seq(Calm) /\ recs[n + 1] \in Calm
  <2>1. n + 1 \in 1 .. Len(recs) /\ \A i \in 1 .. n : i \in 1 .. Len(recs)
    BY <1>1
  <2>2. SubSeq(recs, 1, n) \in Seq(Calm)
    BY <1>1, <2>1
  <2> QED
    BY <2>1, <2>2
<1>3. log' = log \o SubSeq(recs, 1, n) /\ doubt' \in {<<>>, <<recs[n + 1]>>}
  BY DEF AppendFails
<1>4. GrownCalm(log, log')
  BY <1>2, <1>3, GrowMany DEF LogInv
<1>5. recs[n + 1] \in Recs /\ SubmitOf(recs[n + 1]) = {}
  BY <1>2 DEF Calm, SubmitOf
<1> QED
  BY <1>3, <1>4, <1>5 DEF LogInv, GrownCalm, Grown

LEMMA SentIs == \A o : Submitted(o) <=> o \in Sent(log)
<1>1. \A o : o \in Sent(log) <=> \E i \in DOMAIN log : o \in SubmitOf(log[i])
  BY DEF Sent
<1> QED
  BY <1>1 DEF Submitted, SubmitOf

LEMMA CancelDoneCalm ==
  ASSUME LogInv, NEW pre \in Seq(Calm), NEW o \in Orders, NEW why, CancelDone(pre, o, why)
  PROVE  LogInv' /\ GrownCalm(log, log') /\ log' = log \o (pre \o CancelRecs(o, why))
<1>1. pre \o CancelRecs(o, why) \in Seq(Calm)
  BY CancelRecsCalm
<1>2. AppendAll(pre \o CancelRecs(o, why))
  BY DEF CancelDone
<1> QED
  BY <1>1, <1>2, AppendAllCalm

LEMMA CancelThrowsCalm ==
  ASSUME LogInv, NEW pre \in Seq(Calm), NEW o \in Orders, NEW why, CancelThrows(pre, o, why)
  PROVE  LogInv' /\ GrownCalm(log, log')
<1>1. pre \o CancelRecs(o, why) \in Seq(Calm)
  BY CancelRecsCalm
<1>2. PICK n \in 0 .. 1 : AppendFails(pre \o CancelRecs(o, why), Len(pre) + n)
  BY DEF CancelThrows
<1> QED
  BY <1>1, <1>2, AppendFailsCalm

LEMMA CancelOneCalm ==
  ASSUME LogInv, NEW pre \in Seq(Calm), NEW o \in Orders, CancelOne(pre, o)
  PROVE  LogInv' /\ GrownCalm(log, log')
<1>1. CASE CancelDone(pre, o, "requested")
  BY <1>1, CancelDoneCalm
<1>2. CASE AppendAll(pre)
  BY <1>2, AppendAllCalm
<1>3. CASE CancelThrows(pre, o, "requested")
  BY <1>3, CancelThrowsCalm
<1> QED
  BY <1>1, <1>2, <1>3 DEF CancelOne

\* The journal grows, and by a trade only while the engine is up and not held, or
\* by the record in doubt as the process ends.
LEMMA NextLog ==
  ASSUME EngineInv, [EngineNext]_engineVars
  PROVE  /\ LogInv' /\ Grown(log, log')
         /\ GrownCalm(log, log') \/ (phase # "down" /\ phase' = "down")
            \/ (phase = "up" /\ ~hold /\ UNCHANGED boot)
<1> USE DEF EngineInv
<1>0. LogInv /\ SoundLog(log) /\ log \in Seq(Recs)
  BY DEF LogInv, SoundLog
<1>1. ASSUME UNCHANGED journal PROVE LogInv' /\ GrownCalm(log, log')
  <2>1. log' = log /\ doubt' = doubt
    BY <1>1 DEF journal
  <2> QED
    BY <1>0, <2>1, GrownSelf DEF LogInv
<1>2. ASSUME LogInv', GrownCalm(log, log')
      PROVE  /\ LogInv' /\ Grown(log, log')
             /\ GrownCalm(log, log') \/ (phase # "down" /\ phase' = "down")
                \/ (phase = "up" /\ ~hold /\ UNCHANGED boot)
  BY <1>2 DEF GrownCalm
<1>3. ASSUME NEW o \in Orders, Submit(o)
      PROVE  LogInv' /\ Grown(log, log') /\ phase = "up" /\ ~hold /\ UNCHANGED boot
  <2> DEFINE x == Rec("submit", o, "none")
  <2>1. x \in Recs /\ SubmitOf(x) = {o} /\ o \notin Sent(log)
    BY <1>3, SentIs DEF Submit, Rec, Recs, SubmitOf
  <2>2. phase = "up" /\ ~hold /\ UNCHANGED boot
    BY <1>3 DEF Submit, Trading
  <2> HIDE DEF x
  <2>3. CASE AppendAll(<<x>>)
    <3>1. log' = Append(log, x) /\ doubt' = <<>>
      BY <1>0, <2>3 DEF AppendAll
    <3> QED
      BY <1>0, <2>1, <2>2, <3>1, GrowOne DEF LogInv, Grown
  <2>4. CASE AppendFails(<<x>>, 0)
    <3>1. log' = log /\ doubt' \in {<<>>, <<x>>}
      BY <1>0, <2>4 DEF AppendFails
    <3>2. GrownCalm(log, log')
      BY <1>0, <3>1, GrownSelf
    <3>3. LogInv'
      BY <1>0, <2>1, <3>1 DEF LogInv
    <3> QED
      BY <2>2, <3>2, <3>3 DEF GrownCalm
  <2> QED
    BY <1>3, <2>3, <2>4 DEF Submit, x
<1>4. ASSUME NEW o \in Orders, Cancel(o) PROVE LogInv' /\ GrownCalm(log, log')
  <2>1. <<>> \in Seq(Calm)
    OBVIOUS
  <2> QED
    BY <1>0, <1>4, <2>1, CancelDoneCalm, CancelThrowsCalm DEF Cancel
<1>5. ASSUME NEW o \in Orders, CrashInCancel(o) PROVE LogInv' /\ GrownCalm(log, log')
  <2>1. log' = Append(log, Rec("inflight", o, "none")) /\ doubt' = <<>>
    BY <1>5 DEF CrashInCancel, Gone
  <2>2. Rec("inflight", o, "none") \in Recs /\ Rec("inflight", o, "none") \in Calm
        /\ SubmitOf(Rec("inflight", o, "none")) = {}
    BY CancelRecsCalm DEF Calm, SubmitOf
  <2>3. GrownCalm(log, log')
    BY <1>0, <2>1, <2>2, GrowOne
  <2> QED
    BY <2>1, <2>3 DEF LogInv, GrownCalm, Grown
<1>6. ASSUME NEW a \in Accounts, MassCancel(a) PROVE LogInv' /\ GrownCalm(log, log')
  <2> DEFINE ids == Owned(live.book, a)
             pre == <<Rec("mass", a, "none")>>
  <2>1. pre \in Seq(Calm)
    BY ControlsCalm
  <2>2. ids \in Seq(Orders)
    BY OnlyRange DEF Owned, LiveInv, SoundBook, Books
  <2>3. \/ ids # <<>> /\ CancelOne(pre, Head(ids))
        \/ AppendAll(pre)
        \/ AppendFails(pre, 0)
    BY <1>6 DEF MassCancel
  <2>4. ids # <<>> => Head(ids) \in Orders
    BY <2>2
  <2> HIDE DEF ids, pre
  <2> QED
    BY <1>0, <2>1, <2>3, <2>4, CancelOneCalm, AppendAllCalm, AppendFailsCalm
<1>7. ASSUME MassCancelNext PROVE LogInv' /\ GrownCalm(log, log')
  <2>1. PICK m \in Seq(Orders) : mass = <<m>> /\ m # <<>> /\ CancelOne(<<>>, Head(m))
    BY <1>7 DEF MassCancelNext, LiveInv, Massing
  <2>2. <<>> \in Seq(Calm) /\ Head(m) \in Orders
    BY <2>1
  <2> QED
    BY <1>0, <2>1, <2>2, CancelOneCalm
<1>8. ASSUME NEW a \in Accounts, SessionDead(a) PROVE LogInv' /\ GrownCalm(log, log')
  <2>1. <<Rec("dead", a, "none")>> \in Seq(Calm)
    BY ControlsCalm
  <2> QED
    BY <1>0, <1>8, <2>1, AppendAllCalm, AppendFailsCalm DEF SessionDead
<1>9. ASSUME Mark PROVE LogInv' /\ GrownCalm(log, log')
  <2>1. <<Rec("mark", "none", "none")>> \in Seq(Calm)
    BY ControlsCalm
  <2> QED
    BY <1>0, <1>9, <2>1, AppendAllCalm, AppendFailsCalm DEF Mark
<1>10. ASSUME NEW b \in BOOLEAN, Maintenance(b) PROVE LogInv' /\ GrownCalm(log, log')
  <2>1. <<Rec("maint", b, "none")>> \in Seq(Calm)
    BY ControlsCalm
  <2> QED
    BY <1>0, <1>10, <2>1, AppendAllCalm, AppendFailsCalm DEF Maintenance
<1>11. ASSUME Crash PROVE LogInv' /\ Grown(log, log') /\ phase # "down" /\ phase' = "down"
  <2>1. log' \in {log, log \o doubt} /\ doubt' = <<>> /\ phase # "down" /\ phase' = "down"
    BY <1>11 DEF Crash, Gone
  <2>2. CASE log' = log
    BY <1>0, <2>1, <2>2, GrownSelf DEF LogInv, GrownCalm
  <2>3. CASE log' # log
    <3>1. PICK x \in Recs : doubt = <<x>> /\ SubmitOf(x) \cap Sent(log) = {}
      BY <1>0, <2>1, <2>3 DEF LogInv
    <3>2. log' = Append(log, x)
      BY <1>0, <2>1, <2>3, <3>1
    <3>3. Grown(log, log')
      BY <1>0, <3>1, <3>2, GrowOne
    <3> QED
      BY <2>1, <3>3 DEF LogInv, Grown
  <2> QED
    BY <2>2, <2>3
<1>12. ASSUME Unconfirmed PROVE LogInv' /\ GrownCalm(log, log')
  <2> DEFINE o == Head(todo)
  <2>1. <<>> \in Seq(Calm) /\ o \in Orders
    BY <1>12 DEF Unconfirmed, WorldInv
  <2>2. CancelDone(<<>>, o, "hold_unconfirmed") \/ UNCHANGED journal
    BY <1>12 DEF Unconfirmed
  <2> HIDE DEF o
  <2> QED
    BY <1>0, <1>1, <2>1, <2>2, CancelDoneCalm
<1>13. CASE UNCHANGED engineVars
  BY <1>1, <1>2, <1>13 DEF engineVars
<1>14. CASE \E o \in Orders : Submit(o) \/ Cancel(o) \/ CrashInCancel(o)
  BY <1>2, <1>3, <1>4, <1>5, <1>14
<1>15. CASE \E a \in Accounts : MassCancel(a) \/ SessionDead(a)
  BY <1>2, <1>6, <1>8, <1>15
<1>16. CASE MassCancelNext \/ Mark \/ \E b \in BOOLEAN : Maintenance(b)
  BY <1>2, <1>7, <1>9, <1>10, <1>16
<1>17. CASE \E evs \in emits : Publish(evs) \/ PublishFails(evs)
  BY <1>1, <1>2, <1>17 DEF Publish, PublishFails
<1>18. CASE MassCancelEnds \/ Recover \/ Announce \/ Confirmed \/ Unreachable \/ Listen
  BY <1>1, <1>2, <1>18 DEF MassCancelEnds, Recover, Announce, Confirmed, Unreachable, Listen
<1> QED
  BY <1>2, <1>11, <1>12, <1>13, <1>14, <1>15, <1>16, <1>17, <1>18 DEF EngineNext

\* The engine's state and what it is about to publish, after a step.
Typed == /\ live' \in States /\ SoundBook(live'.book, Sent(log'))
         /\ emits' \subseteq Seq(Events) \ {<<>>}

LEMMA SoundIn ==
  ASSUME NEW b, NEW P, NEW Q, SoundBook(b, P), P \subseteq Q
  PROVE  SoundBook(b, Q)
  BY DEF SoundBook

LEMMA EmitTyped ==
  ASSUME WorldInv, NEW evs \in Seq(Events), Emit(evs)
  PROVE  emits' \subseteq Seq(Events) \ {<<>>}
  BY DEF Emit, WorldInv

\* Applying an input.
LEMMA BookTyped ==
  ASSUME LiveInv, WorldInv, NEW c, NEW D, Follows(c, live.book, D), Sent(log) \cup D \subseteq Sent(log'),
         live' = [live EXCEPT !.book = c.book], Emit(c.evs)
  PROVE  Typed
<1>1. c.book \in Books /\ c.evs \in Seq(Events) /\ live \in States
  BY DEF Follows, SoundBook, LiveInv
<1>2. live' \in States /\ live'.book = c.book
  BY <1>1 DEF States
<1>3. SoundBook(c.book, Sent(log'))
  BY DEF Follows, SoundBook, LiveInv
<1> QED
  BY <1>1, <1>2, <1>3, EmitTyped DEF Typed

\* Deleting a book that is empty and never printed.
LEMMA DropTyped ==
  ASSUME LiveInv, WorldInv, Sent(log) \subseteq Sent(log'), live' = [live EXCEPT !.book = Dropped(@)],
         UNCHANGED emits
  PROVE  Typed
<1> DEFINE b == Dropped(live.book)
<1>1. live \in States /\ live.book \in Books /\ SoundBook(live.book, Sent(log))
  BY DEF LiveInv, SoundBook
<1>2. b \in Books /\ b.rest = live.book.rest
  BY <1>1, DroppedIs
<1>3. live' = [live EXCEPT !.book = b]
  OBVIOUS
<1> HIDE DEF b
<1>4. live' \in States /\ live'.book = b
  BY <1>1, <1>2, <1>3 DEF States
<1>5. SoundBook(b, Sent(log'))
  BY <1>1, <1>2 DEF SoundBook
<1> QED
  BY <1>4, <1>5 DEF Typed, WorldInv

LEMMA SameTyped ==
  ASSUME LiveInv, WorldInv, Sent(log) \subseteq Sent(log'), live'.book = live.book, live' \in States,
         UNCHANGED emits
  PROVE  Typed
  BY SoundIn DEF LiveInv, WorldInv, Typed

LEMMA CancelTyped ==
  ASSUME LiveInv, WorldInv, Sent(log) \subseteq Sent(log'), NEW pre, NEW o \in Orders, NEW why,
         CancelDone(pre, o, why) \/ CancelThrows(pre, o, why)
  PROVE  Typed
<1>0. live \in States /\ SoundBook(live.book, Sent(log))
  BY DEF LiveInv
<1>1. CASE CancelDone(pre, o, why)
  <2> DEFINE c == CancelIn(live.book, o, Handed(why))
  <2>1. Handed(why) \in Reasons
    BY DEF Handed, Reasons
  <2>2. live.book \in Books /\ IsInjective(live.book.rest)
    BY <1>0 DEF SoundBook
  <2>3. Follows(c, live.book, {})
    BY <2>1, <2>2, CancelFollows
  <2>4. live' = [live EXCEPT !.book = c.book] /\ Emit(c.evs)
    BY <1>1 DEF CancelDone
  <2> HIDE DEF c
  <2> QED
    BY <2>3, <2>4, BookTyped
<1>2. CASE CancelThrows(pre, o, why)
  <2>1. /\ live' \in {live, [live EXCEPT !.flight = @ \cup {o}]}
        /\ UNCHANGED emits
    BY <1>2 DEF CancelThrows
  <2>2. live' \in States /\ live'.book = live.book
    BY <1>0, <2>1 DEF States
  <2> QED
    BY <2>1, <2>2, SameTyped
<1> QED
  BY <1>1, <1>2

LEMMA CancelOneTyped ==
  ASSUME LiveInv, WorldInv, Sent(log) \subseteq Sent(log'), NEW pre, NEW o \in Orders, CancelOne(pre, o)
  PROVE  Typed
<1>1. CASE UNCHANGED <<live, emits>>
  BY <1>1, SameTyped DEF LiveInv
<1> QED
  BY <1>1, CancelTyped DEF CancelOne

LEMMA OwnedTyped ==
  ASSUME LiveInv, NEW a
  PROVE  /\ Owned(live.book, a) \in Seq(Orders)
         /\ IsInjective(Owned(live.book, a))
         /\ Range(Owned(live.book, a)) \subseteq Range(live.book.rest)
<1>1. live.book.rest \in Seq(Orders) /\ IsInjective(live.book.rest)
  BY DEF LiveInv, SoundBook, Books
<1> QED
  BY <1>1, OnlyRange DEF Owned

LEMMA NextTyped ==
  ASSUME EngineInv, [EngineNext]_engineVars
  PROVE  Typed
<1> USE DEF EngineInv
<1>0. /\ live \in States /\ SoundBook(live.book, Sent(log))
      /\ Sent(log) \subseteq Sent(log')
      /\ SoundLog(log)
  BY NextLog DEF LiveInv, Grown, LogInv
<1>1. CASE UNCHANGED <<live, emits>>
  BY <1>0, <1>1, SameTyped
<1>2. ASSUME live' = NoState, emits' = {} PROVE Typed
  <2>1. <<>> \in Seq(Orders) /\ Range(<<>>) = {} /\ IsInjective(<<>>)
    BY DEF Range, IsInjective
  <2>2. EmptyBook \in Books /\ EmptyBook.rest = <<>>
    BY DEF EmptyBook, Books
  <2>3. NoState \in States /\ NoState.book = EmptyBook
    BY <2>2 DEF NoState, States
  <2> QED
    BY <1>2, <2>1, <2>2, <2>3 DEF Typed, SoundBook
<1>3. ASSUME NEW o \in Orders, Submit(o) PROVE Typed
  <2> DEFINE c == Swept(SubmitTo(live.book, o))
  <2>1. CASE AppendAll(<<Rec("submit", o, "none")>>) /\ live' = [live EXCEPT !.book = c.book] /\ Emit(c.evs)
    <3>1. log' = Append(log, Rec("submit", o, "none"))
      BY <1>0, <2>1 DEF AppendAll, SoundLog
    <3>2. Rec("submit", o, "none") \in Recs /\ SubmitOf(Rec("submit", o, "none")) = {o}
      BY DEF Rec, Recs, SubmitOf
    <3>3. Sent(log') = Sent(log) \cup {o}
      BY <1>0, <3>1, <3>2, SentOne DEF SoundLog
    <3>4. o \notin Sent(log)
      BY <1>3, SentIs DEF Submit
    <3>a. live.book \in Books /\ IsInjective(live.book.rest) /\ o \notin Range(live.book.rest)
      BY <1>0, <3>4 DEF SoundBook
    <3>5. Follows(c, live.book, {o})
      BY <3>a, SubmitFollows, SweptFollows
    <3>6. live' = [live EXCEPT !.book = c.book] /\ Emit(c.evs)
      BY <2>1
    <3> HIDE DEF c
    <3> QED
      BY <3>3, <3>5, <3>6, BookTyped
  <2> QED
    BY <1>1, <1>3, <2>1 DEF Submit
<1>4. ASSUME NEW o \in Orders, Cancel(o) PROVE Typed
  BY <1>0, <1>4, CancelTyped DEF Cancel
<1>5. ASSUME NEW a \in Accounts, MassCancel(a) PROVE Typed
  <2> DEFINE ids == Owned(live.book, a)
  <2>1. CASE ids # <<>> /\ CancelOne(<<Rec("mass", a, "none")>>, Head(ids))
    <3>1. ids \in Seq(Orders)
      BY OwnedTyped
    <3> HIDE DEF ids
    <3>2. Head(ids) \in Orders
      BY <2>1, <3>1
    <3> QED
      BY <1>0, <2>1, <3>2, CancelOneTyped
  <2>2. CASE live' = [live EXCEPT !.book = Dropped(@)] /\ UNCHANGED emits
    BY <1>0, <2>2, DropTyped
  <2> QED
    BY <1>1, <1>5, <2>1, <2>2 DEF MassCancel
<1>6. ASSUME MassCancelNext PROVE Typed
  <2>1. PICK m \in Seq(Orders) : mass = <<m>> /\ m # <<>> /\ CancelOne(<<>>, Head(m))
    BY <1>6 DEF MassCancelNext, LiveInv, Massing
  <2>2. Head(m) \in Orders
    BY <2>1
  <2> QED
    BY <1>0, <2>1, <2>2, CancelOneTyped
<1>a. ASSUME MassCancelEnds PROVE Typed
  BY <1>0, <1>a, DropTyped DEF MassCancelEnds
<1>7. ASSUME NEW a \in Accounts, SessionDead(a) PROVE Typed
  <2> DEFINE c == Swept(CancelAll(live.book, Owned(live.book, a), "session_dead"))
  <2>1. CASE live' = [live EXCEPT !.book = c.book, !.dead = @ \cup {a}] /\ Emit(c.evs)
    <3>1. live.book \in Books /\ IsInjective(live.book.rest) /\ "session_dead" \in Reasons
      BY <1>0 DEF SoundBook, Reasons
    <3>2. Follows(c, live.book, {})
      BY <3>1, OwnedTyped, CancelAllFollows, SweptFollows
    <3>3. live' = [live EXCEPT !.book = c.book, !.dead = @ \cup {a}] /\ Emit(c.evs)
      BY <2>1
    <3> HIDE DEF c
    <3>4. c.book \in Books /\ c.evs \in Seq(Events) /\ SoundBook(c.book, Sent(log'))
      BY <1>0, <3>2 DEF Follows, SoundBook
    <3>5. live' \in States /\ live'.book = c.book
      BY <1>0, <3>3, <3>4 DEF States
    <3> QED
      BY <3>3, <3>4, <3>5, EmitTyped DEF Typed
  <2> QED
    BY <1>1, <1>7, <2>1 DEF SessionDead
<1>8. ASSUME Mark PROVE Typed
  <2>1. live' = [live EXCEPT !.book = MarkTo(live.book)] /\ UNCHANGED emits
    BY <1>8 DEF Mark
  <2>2. live.book \in Books /\ IsInjective(live.book.rest)
    BY <1>0 DEF SoundBook
  <2>3. /\ MarkTo(live.book) \in Books /\ IsInjective(MarkTo(live.book).rest)
        /\ Range(MarkTo(live.book).rest) = Range(live.book.rest)
    BY <2>2, MarkMoves
  <2>4. live' \in States /\ live'.book = MarkTo(live.book)
    BY <1>0, <2>1, <2>3 DEF States
  <2>5. SoundBook(live.book, Sent(log'))
    BY <1>0, SoundIn
  <2> QED
    BY <2>1, <2>3, <2>4, <2>5 DEF Typed, SoundBook, WorldInv
<1>9. ASSUME NEW b \in BOOLEAN, Maintenance(b) PROVE Typed
  <2>1. live' \in {live, [live EXCEPT !.maint = b]} /\ UNCHANGED emits
    BY <1>9 DEF Maintenance
  <2>2. live' \in States /\ live'.book = live.book
    BY <1>0, <2>1 DEF States
  <2> QED
    BY <1>0, <2>1, <2>2, SameTyped
<1>10. ASSUME NEW evs \in emits, Publish(evs) PROVE Typed
  <2>1. evs \in Seq(Events) /\ evs # <<>>
    BY DEF WorldInv
  <2>2. Len(evs) # 1 => Tail(evs) \in Seq(Events) \ {<<>>}
    <3>1. Len(evs) \in Nat /\ Len(evs) # 0 /\ Tail(evs) \in Seq(Events)
      BY <2>1
    <3>2. Len(Tail(evs)) = Len(evs) - 1
      BY <2>1
    <3>3. Len(evs) # 1 => Len(Tail(evs)) # 0
      BY <3>1, <3>2
    <3>4. Len(evs) # 1 => Tail(evs) # <<>>
      BY <3>3
    <3> QED
      BY <3>1, <3>4
  <2>3. UNCHANGED live /\ emits' \subseteq Seq(Events) \ {<<>>}
    BY <1>10, <2>2 DEF Publish, WorldInv
  <2> QED
    BY <1>0, <2>3, SoundIn DEF Typed
<1>11. ASSUME NEW evs \in emits, PublishFails(evs) PROVE Typed
  <2>1. UNCHANGED live /\ emits' \subseteq Seq(Events) \ {<<>>}
    BY <1>11 DEF PublishFails, WorldInv
  <2> QED
    BY <1>0, <2>1, SoundIn DEF Typed
<1>12. ASSUME Recover PROVE Typed
  <2> DEFINE r == Replay(log)
  <2>1. live' = r.st /\ UNCHANGED <<log, emits>>
    BY <1>12 DEF Recover, journal
  <2>2. Sound(r, Sent(log))
    BY <1>0 DEF SoundLog
  <2> HIDE DEF r
  <2> QED
    BY <1>0, <2>1, <2>2, SoundIn DEF Typed, Sound, WorldInv
<1>13. ASSUME Unconfirmed PROVE Typed
  <2> DEFINE o == Head(todo)
  <2>1. o \in Orders
    BY <1>13 DEF Unconfirmed, WorldInv
  <2>2. CancelDone(<<>>, o, "hold_unconfirmed") \/ UNCHANGED <<live, emits>>
    BY <1>13 DEF Unconfirmed
  <2> HIDE DEF o
  <2> QED
    BY <1>0, <1>1, <2>1, <2>2, CancelTyped
<1>14. CASE UNCHANGED engineVars
  BY <1>1, <1>14 DEF engineVars
<1>15. CASE \E o \in Orders : Submit(o) \/ Cancel(o) \/ CrashInCancel(o)
  BY <1>2, <1>3, <1>4, <1>15 DEF CrashInCancel, Gone
<1>16. CASE Crash
  BY <1>2, <1>16 DEF Crash, Gone
<1>17. CASE Announce \/ Confirmed \/ Unreachable \/ Listen
  BY <1>1, <1>17 DEF Announce, Confirmed, Unreachable, Listen
<1> QED
  BY <1>a, <1>5, <1>6, <1>7, <1>8, <1>9, <1>10, <1>11, <1>12, <1>13, <1>14, <1>15, <1>16, <1>17
     DEF EngineNext

LEMMA TailRange ==
  ASSUME NEW T, NEW s \in Seq(T), s # <<>>
  PROVE  /\ Head(s) \in T /\ Tail(s) \in Seq(T)
         /\ Range(s) = {Head(s)} \cup Range(Tail(s))
         /\ IsInjective(s) => Head(s) \notin Range(Tail(s)) /\ IsInjective(Tail(s))
<1> DEFINE t == Tail(s)
           n == Len(s)
<1>1. /\ n \in Nat \ {0} /\ t \in Seq(T) /\ Head(s) = s[1] /\ Head(s) \in T
      /\ DOMAIN s = 1 .. n /\ DOMAIN t = 1 .. n - 1
      /\ \A i \in DOMAIN t : t[i] = s[i + 1]
  OBVIOUS
<1>2. \A i \in DOMAIN s : i = 1 \/ (i - 1 \in DOMAIN t /\ s[i] = t[i - 1])
  BY <1>1
<1>3. \A i \in DOMAIN t : i + 1 \in DOMAIN s /\ i + 1 # 1
  BY <1>1
<1>4. 1 \in DOMAIN s
  BY <1>1
<1> HIDE DEF t, n
<1>5. Range(s) \subseteq {Head(s)} \cup Range(t)
  BY <1>1, <1>2 DEF Range
<1>6. {Head(s)} \cup Range(t) \subseteq Range(s)
  BY <1>1, <1>3, <1>4 DEF Range
<1>7. ASSUME IsInjective(s) PROVE Head(s) \notin Range(t) /\ IsInjective(t)
  <2>1. ASSUME NEW i \in DOMAIN t, t[i] = Head(s) PROVE FALSE
    BY <1>1, <1>3, <1>4, <1>7, <2>1 DEF IsInjective
  <2>2. ASSUME NEW i \in DOMAIN t, NEW j \in DOMAIN t, t[i] = t[j] PROVE i = j
    <3>1. i + 1 = j + 1
      BY <1>1, <1>3, <1>7, <2>2 DEF IsInjective
    <3> QED
      BY <1>1, <3>1
  <2> QED
    BY <2>1, <2>2 DEF Range, IsInjective
<1> QED
  BY <1>1, <1>5, <1>6, <1>7 DEF t

LEMMA ToldRange ==
  ASSUME NEW evs \in Seq(Events)
  PROVE  /\ Told(evs) \in Seq(Events) /\ Range(Told(evs)) \subseteq Range(evs)
         /\ \A e \in Range(evs) : e.kind = "fill" => e \in Range(Told(evs))
<1>1. /\ Told(evs) \in Seq(Events)
      /\ Range(Told(evs))
           = Range(evs) \cap {e \in Range(evs) : e.kind = "fill" \/ e.reason = "hold_unconfirmed"}
  BY OnlyRange DEF Told
<1> QED
  BY <1>1

\* What of the invariant is about the boot and what it has announced.
BootParts == LiveInv /\ WorldInv /\ BootInv /\ CalmInv

LEMMA NextBoot ==
  ASSUME EngineInv, [EngineNext]_engineVars
  PROVE  BootParts'
<1> USE DEF EngineInv
<1>1. /\ Typed /\ SoundLog(log')
      /\ Grown(log, log')
      /\ GrownCalm(log, log') \/ (phase # "down" /\ phase' = "down")
            \/ (phase = "up" /\ ~hold /\ UNCHANGED boot)
  BY NextLog, NextTyped DEF LogInv
<1>2. /\ {hold, closed} \subseteq BOOLEAN /\ phase \in {"down", "announce", "check", "up"}
      /\ bad \subseteq Orders
      /\ Massing(mass) /\ (phase # "up" => mass = <<>>)
      /\ booted \in 0 .. Len(log)
      /\ live.book.rest \in Seq(Orders)
  BY DEF LiveInv, SoundBook, Books
<1>3. /\ log \in Seq(Recs) /\ Len(log) \in Nat /\ Len(log') \in Nat /\ Len(log) <= Len(log')
      /\ Evs(log) \subseteq Evs(log')
  BY <1>1 DEF LogInv, SoundLog, Grown
<1>4. ASSUME booted' = booted
      PROVE  FillsIn(Before') = FillsIn(Before) /\ booted' \in 0 .. Len(log')
  <2>1. booted' \in 0 .. Len(log')
    BY <1>2, <1>3, <1>4
  <2>2. SubSeq(log', 1, booted) = SubSeq(log, 1, booted)
    BY <1>1, <1>2 DEF Grown
  <2>3. Before' = Before
    BY <1>4, <2>2 DEF Before
  <2>4. FillsIn(Before') = FillsIn(Before)
    BY <2>3
  <2> QED
    BY <2>1, <2>4
<1>5. ASSUME UNCHANGED <<hold, closed, boot>>, pub \subseteq pub',
             Massing(mass'), phase # "up" => mass' = mass
      PROVE  BootParts'
  <2>1. UNCHANGED <<phase, todo, booted, bad>>
    BY <1>5 DEF boot
  <2>2. LiveInv'
    BY <1>1, <1>2, <1>4, <1>5, <2>1 DEF LiveInv, Typed
  <2>3. WorldInv'
    BY <1>1, <1>3, <2>1 DEF WorldInv, Typed
  <2>4. BootInv'
    BY <1>4, <1>5, <2>1 DEF BootInv, BootTellsFills
  <2>5. CalmInv'
    <3>1. bad # {} => hold
      BY DEF CalmInv
    <3>2. phase \in {"announce", "check"} \/ bad # {} => GrownCalm(log, log')
      BY <1>1, <2>1, <3>1
    <3> QED
      BY <1>4, <1>5, <2>1, <3>1, <3>2 DEF CalmInv, GrownCalm
  <2> QED
    BY <2>2, <2>3, <2>4, <2>5 DEF BootParts
<1>6. ASSUME Gone, UNCHANGED <<pub, booted>> PROVE BootParts'
  <2>a. /\ phase' = "down" /\ bad' = {} /\ hold' = FALSE /\ closed' = FALSE
        /\ mass' = <<>> /\ Massing(mass')
    BY <1>6 DEF Gone, Massing
  <2>b. booted' \in 0 .. Len(log')
    BY <1>4, <1>6
  <2>c. LiveInv'
    BY <1>1, <2>a, <2>b DEF LiveInv, Typed
  <2>d. WorldInv'
    BY <1>1, <2>a DEF WorldInv, Typed
  <2>1. LiveInv' /\ WorldInv'
    BY <2>c, <2>d
  <2>2. BootInv' /\ CalmInv'
    BY <1>6 DEF Gone, BootInv, BootTellsFills, CalmInv
  <2> QED
    BY <2>1, <2>2 DEF BootParts
<1>7. ASSUME NEW a \in Accounts, MassCancel(a) PROVE BootParts'
  <2> DEFINE ids == Owned(live.book, a)
  <2>1. ids \in Seq(Orders)
    BY OwnedTyped
  <2>2. /\ UNCHANGED <<hold, closed, boot, pub>> /\ phase = "up"
        /\ UNCHANGED mass \/ (ids # <<>> /\ mass' = <<Tail(ids)>>)
    BY <1>7 DEF MassCancel
  <2> HIDE DEF ids
  <2>3. ids # <<>> => Tail(ids) \in Seq(Orders)
    BY <2>1, TailRange
  <2>4. Massing(mass')
    BY <1>2, <2>2, <2>3 DEF Massing
  <2> QED
    BY <1>5, <2>2, <2>4
<1>8. ASSUME MassCancelNext PROVE BootParts'
  <2>1. PICK m \in Seq(Orders) : mass = <<m>> /\ m # <<>> /\ mass' = <<Tail(m)>>
    BY <1>2, <1>8 DEF MassCancelNext, Massing
  <2>2. Massing(mass')
    BY <2>1, TailRange DEF Massing
  <2> QED
    BY <1>5, <1>8, <2>2 DEF MassCancelNext
<1>a. ASSUME MassCancelEnds PROVE BootParts'
  <2>1. /\ UNCHANGED <<hold, closed, boot, pub>> /\ phase = "up" /\ mass' = <<>>
    BY <1>a DEF MassCancelEnds
  <2> QED
    BY <1>5, <2>1 DEF Massing
<1>9. ASSUME UNCHANGED mass,
             \/ \E o \in Orders : Submit(o) \/ Cancel(o)
             \/ \E a \in Accounts : SessionDead(a)
             \/ Mark
             \/ \E b \in BOOLEAN : Maintenance(b)
             \/ \E evs \in emits : Publish(evs) \/ PublishFails(evs)
             \/ UNCHANGED engineVars
      PROVE  BootParts'
  <2>1. UNCHANGED <<hold, closed, boot>> /\ pub \subseteq pub'
    BY <1>9 DEF Submit, Cancel, SessionDead, Mark, Maintenance, Publish, PublishFails, engineVars
  <2> QED
    BY <1>2, <1>5, <1>9, <2>1
<1>10. ASSUME Recover PROVE BootParts'
  <2> DEFINE r == Replay(log)
  <2>1. /\ UNCHANGED <<log, hold, closed, bad, mass, pub>>
        /\ todo' = Told(r.evs) /\ phase' = "announce" /\ booted' = Len(log) /\ phase = "down"
    BY <1>10 DEF Recover, journal
  <2>2. r.evs \in Seq(Events)
    BY <1>1, <2>1 DEF SoundLog, Sound
  <2>3. /\ todo' \in Seq(Events) /\ Range(todo') \subseteq Range(r.evs)
        /\ \A e \in Range(r.evs) : e.kind = "fill" => e \in Range(todo')
    BY <2>1, <2>2, ToldRange
  <2>4. Evs(log') = Range(r.evs) /\ FillsIn(log') = {e \in Range(r.evs) : e.kind = "fill"}
    BY <2>1 DEF Evs, FillsIn
  <2>5. Before' = log'
    BY <1>3, <2>1 DEF Before
  <2> HIDE DEF r
  <2>6. LiveInv'
    BY <1>1, <1>2, <1>3, <2>1 DEF LiveInv, Typed
  <2>7. WorldInv'
    BY <1>1, <2>1, <2>3, <2>4 DEF WorldInv, Typed
  <2>8. BootInv'
    BY <2>1, <2>3, <2>4, <2>5 DEF BootInv, BootTellsFills
  <2>9. CalmInv'
    BY <2>1, <2>5 DEF CalmInv
  <2> QED
    BY <2>6, <2>7, <2>8, <2>9 DEF BootParts
<1>11. ASSUME Announce PROVE BootParts'
  <2>1. /\ UNCHANGED <<log, hold, closed, booted, bad, mass>> /\ phase = "announce"
        /\ todo \in Seq(Events) /\ Range(todo) \subseteq Evs(log)
        /\ FillsIn(Before) \subseteq pub \cup Range(todo)
    BY <1>11 DEF Announce, journal, WorldInv, BootInv
  <2>2. CASE todo # <<>> /\ pub' = pub \cup {Head(todo)} /\ todo' = Tail(todo) /\ UNCHANGED phase
    <3>1. Tail(todo) \in Seq(Events) /\ Range(todo) = {Head(todo)} \cup Range(Tail(todo))
      BY <2>1, <2>2, TailRange
    <3>2. LiveInv'
      BY <1>1, <1>2, <1>4, <2>1, <2>2 DEF LiveInv, Typed
    <3>3. WorldInv'
      BY <1>1, <2>1, <2>2, <3>1 DEF WorldInv, Typed
    <3>4. BootInv'
      BY <1>4, <2>1, <2>2, <3>1 DEF BootInv, BootTellsFills
    <3>5. CalmInv'
      BY <1>4, <2>1, <2>2 DEF CalmInv
    <3> QED
      BY <3>2, <3>3, <3>4, <3>5 DEF BootParts
  <2>3. CASE todo = <<>> /\ phase' = "check" /\ todo' = live.book.rest /\ UNCHANGED pub
    <3>1. Range(todo) = {}
      BY <2>3 DEF Range
    <3>2. LiveInv'
      BY <1>1, <1>2, <1>4, <2>1, <2>3 DEF LiveInv, Typed
    <3>3. WorldInv'
      BY <1>1, <1>2, <2>3 DEF WorldInv, Typed
    <3>4. BootInv'
      BY <1>4, <2>1, <2>3, <3>1 DEF BootInv, BootTellsFills
    <3>5. CalmInv'
      BY <1>4, <2>1, <2>3 DEF CalmInv
    <3> QED
      BY <3>2, <3>3, <3>4, <3>5 DEF BootParts
  <2> QED
    BY <1>11, <2>2, <2>3 DEF Announce
\* The steps of the check
<1>12. ASSUME phase = "check", phase' \in {"check", "up"}, UNCHANGED <<mass, pub, booted>>,
              {hold', closed'} \subseteq BOOLEAN, bad' \subseteq Orders, bad' # {} => hold',
              phase' = "check" => todo' \in Seq(Orders)
       PROVE  BootParts'
  <2>1. GrownCalm(log, log')
    BY <1>1, <1>12
  <2>2. LiveInv'
    BY <1>1, <1>2, <1>4, <1>12 DEF LiveInv, Typed
  <2>3. WorldInv'
    BY <1>1, <1>12 DEF WorldInv, Typed
  <2>4. BootInv'
    BY <1>4, <1>12 DEF BootInv, BootTellsFills
  <2>5. CalmInv'
    BY <1>4, <1>12, <2>1 DEF CalmInv, GrownCalm
  <2> QED
    BY <2>2, <2>3, <2>4, <2>5 DEF BootParts
<1>13. bad # {} => hold
  BY DEF CalmInv
<1>14. phase = "check" => todo \in Seq(Orders)
  BY DEF WorldInv
<1>15. ASSUME Confirmed PROVE BootParts'
  <2>1. Tail(todo) \in Seq(Orders)
    BY <1>14, <1>15, TailRange DEF Confirmed
  <2> QED
    BY <1>2, <1>12, <1>13, <1>15, <2>1 DEF Confirmed
<1>16. ASSUME Unconfirmed PROVE BootParts'
  <2>1. Tail(todo) \in Seq(Orders) /\ Head(todo) \in Orders
    BY <1>14, <1>16, TailRange DEF Unconfirmed
  <2>2. Halts(Head(todo)) = TRUE
    BY DEF Halts, Handed
  <2>3. hold' = TRUE /\ bad' = bad \cup {Head(todo)}
    BY <1>16, <2>2 DEF Unconfirmed
  <2> QED
    BY <1>2, <1>12, <1>16, <2>1, <2>3 DEF Unconfirmed
<1>17. ASSUME Unreachable \/ Listen PROVE BootParts'
  BY <1>2, <1>12, <1>13, <1>17 DEF Unreachable, Listen
<1>18. CASE UNCHANGED engineVars
  BY <1>9, <1>18 DEF engineVars
<1>19. CASE Crash \/ \E o \in Orders : CrashInCancel(o)
  BY <1>6, <1>19 DEF Crash, CrashInCancel
<1>20. CASE \E o \in Orders : Submit(o) \/ Cancel(o)
  BY <1>9, <1>20 DEF Submit, Cancel
<1>21. CASE \E a \in Accounts : SessionDead(a)
  BY <1>9, <1>21 DEF SessionDead
<1>22. CASE Mark \/ \E b \in BOOLEAN : Maintenance(b)
  BY <1>9, <1>22 DEF Mark, Maintenance
<1>23. CASE \E evs \in emits : Publish(evs) \/ PublishFails(evs)
  BY <1>9, <1>23 DEF Publish, PublishFails
<1> QED
  BY <1>a, <1>7, <1>8, <1>10, <1>11, <1>15, <1>16, <1>17, <1>18, <1>19, <1>20, <1>21, <1>22, <1>23
     DEF EngineNext

-----------------------------------------------------------------------------
(* The engine and replay.                                                  *)

\* Nothing is left of a mass cancel.
LEMMA LaterOfNone ==
  ASSUME NEW b \in Books
  PROVE  Later(b, <<>>) = b
<1>1. b.rest \in Seq(Orders) /\ b.seq \in Nat
  BY DEF Books
<1>2. Range(<<>>) = {} /\ Len(<<>>) = 0
  BY DEF Range
<1>3. Range(b.rest) \subseteq Orders \ {}
  BY <1>1 DEF Range
<1>4. Without(b.rest, Range(<<>>)) = b.rest
  BY <1>1, <1>2, <1>3, OnlyAll DEF Without
<1>5. b.seq + Len(<<>>) = b.seq
  BY <1>1
<1>6. b = [b EXCEPT !.rest = b.rest, !.seq = b.seq]
  BY DEF Books
<1> QED
  BY <1>4, <1>5, <1>6 DEF Later

\* The next cancel of a mass cancel brings the engine one order nearer to replay.
LEMMA MassStep ==
  ASSUME NEW b \in Books, NEW m \in Seq(Orders), m # <<>>, NEW q, q = Later(b, m),
         NEW evs, LeftOver(b, m, evs)
  PROVE  LET c == CancelIn(b, Head(m), "requested")
         IN  /\ Later(c.book, Tail(m)) = q /\ LeftOver(c.book, Tail(m), evs)
             /\ Range(c.evs) \subseteq evs /\ ~Rests(Dropped(q), Head(m))
<1> DEFINE o == Head(m)
           t == Tail(m)
           c == [b EXCEPT !.rest = Without(@, {o}), !.seq = @ + 1]
<1>1. b.rest \in Seq(Orders) /\ b.seq \in Nat /\ b.printed \in BOOLEAN
  BY DEF Books
<1>2. /\ o \in Orders /\ t \in Seq(Orders) /\ Range(m) = {o} \cup Range(t)
      /\ o \notin Range(t) /\ IsInjective(t)
  BY TailRange DEF LeftOver
<1>3. /\ Len(m) \in Nat /\ Len(t) = Len(m) - 1 /\ o = m[1] /\ 1 \in DOMAIN m
      /\ \A i \in DOMAIN t : i \in Nat /\ i + 1 \in DOMAIN m /\ t[i] = m[i + 1]
  OBVIOUS
<1> HIDE DEF o, t
<1>4. Rests(b, o)
  BY <1>2 DEF LeftOver, Rests
<1>5. CancelIn(b, o, "requested") = Result(c, <<Left(b.seq + 1, o, "requested")>>)
  BY <1>4 DEF CancelIn
<1>6. Without(b.rest, {o}) \in Seq(Orders) /\ Range(Without(b.rest, {o})) = Range(b.rest) \ {o}
  BY <1>1, WithoutRange
<1>7. c \in Books /\ c.rest = Without(b.rest, {o}) /\ c.seq = b.seq + 1 /\ c.printed = b.printed
  <2> DEFINE left == Without(b.rest, {o})
             n == b.seq + 1
  <2>1. left \in Seq(Orders) /\ n \in Nat
    BY <1>1, <1>6
  <2>2. c = [b EXCEPT !.rest = left, !.seq = n]
    OBVIOUS
  <2> HIDE DEF left, n, c
  <2>3. c = [rest |-> left, seq |-> n, printed |-> b.printed]
    BY <2>2 DEF Books
  <2>4. c \in Books /\ c.rest = left /\ c.seq = n /\ c.printed = b.printed
    BY <1>1, <2>1, <2>3 DEF Books
  <2> QED
    BY <2>4 DEF left, n
<1>8. Without(c.rest, Range(t)) = Without(b.rest, Range(m))
  <2>1. (Orders \ {o}) \cap (Orders \ Range(t)) = Orders \ Range(m)
    BY <1>2
  <2>2. Only(Only(b.rest, Orders \ {o}), Orders \ Range(t)) = Only(b.rest, Orders \ Range(m))
    BY <1>1, <2>1, OnlyTwice
  <2> QED
    BY <1>7, <2>2 DEF Without
<1>9. c.seq + Len(t) = b.seq + Len(m)
  BY <1>1, <1>3, <1>7
<1> HIDE DEF c
<1>10. Later(c, t) = q
  <2> DEFINE left == Without(b.rest, Range(m))
             n == b.seq + Len(m)
  <2>1. q = [b EXCEPT !.rest = left, !.seq = n]
    BY DEF Later
  <2>2. q = [rest |-> left, seq |-> n, printed |-> b.printed]
    BY <2>1 DEF Books
  <2> HIDE DEF left, n
  <2>3. [c EXCEPT !.rest = left, !.seq = n] = [rest |-> left, seq |-> n, printed |-> b.printed]
    <3>1. c \in Books /\ c.printed = b.printed
      BY <1>7
    <3>a. PICK w : w = [c EXCEPT !.rest = left, !.seq = n]
      OBVIOUS
    <3>b. w = [rest |-> left, seq |-> n, printed |-> c.printed]
      BY <3>1, <3>a DEF Books
    <3>2. [c EXCEPT !.rest = left, !.seq = n] = [rest |-> left, seq |-> n, printed |-> c.printed]
      BY <3>a, <3>b
    <3> QED
      BY <3>1, <3>2
  <2> QED
    BY <1>8, <1>9, <2>2, <2>3 DEF Later, left, n
<1>11. LeftOver(c, t, evs)
  <2>1. ASSUME NEW i \in DOMAIN t PROVE Left(c.seq + i, t[i], "requested") \in evs
    <3>a. i \in Nat /\ t[i] = m[i + 1] /\ i + 1 \in DOMAIN m
      BY <1>3
    <3>c. b.seq \in Nat /\ c.seq = b.seq + 1 /\ i \in Nat
      BY <1>1, <1>7, <3>a
    <3>b. c.seq + i = b.seq + (i + 1)
      BY <3>c
    <3>1. c.seq + i = b.seq + (i + 1) /\ t[i] = m[i + 1] /\ i + 1 \in DOMAIN m
      BY <3>a, <3>b
    <3>2. Left(b.seq + (i + 1), m[i + 1], "requested") \in evs
      BY <3>1 DEF LeftOver
    <3> QED
      BY <3>1, <3>2
  <2>2. Range(t) \subseteq Range(c.rest)
    BY <1>2, <1>6, <1>7 DEF LeftOver
  <2> QED
    BY <1>2, <2>1, <2>2 DEF LeftOver
<1>12. Left(b.seq + 1, o, "requested") \in evs
  BY <1>3 DEF LeftOver
<1>13. ~Rests(Dropped(q), o)
  <2>1. q.rest = Without(b.rest, Range(m))
    BY DEF Later, Books
  <2>2. Range(q.rest) = Range(b.rest) \ Range(m)
    BY <1>1, <2>1, WithoutRange
  <2>3. Dropped(q) = q \/ Dropped(q) = EmptyBook
    BY DEF Dropped
  <2>4. Range(EmptyBook.rest) = {}
    BY DEF EmptyBook, Range
  <2> QED
    BY <1>2, <2>2, <2>3, <2>4 DEF Rests
<1> QED
  BY <1>5, <1>10, <1>11, <1>12, <1>13, RangeOne DEF Result, o, t

LEMMA WithIs ==
  ASSUME NEW r \in [st : States, evs : Seq(Events)], NEW c, c.evs \in Seq(Events)
  PROVE  /\ With(r, c).st.book = c.book
         /\ With(r, c).st.dead = r.st.dead /\ With(r, c).st.maint = r.st.maint
         /\ Range(With(r, c).evs) = Range(r.evs) \cup Range(c.evs)
<1>1. With(r, c).evs = r.evs \o c.evs
  BY DEF With
<1>2. Range(r.evs \o c.evs) = Range(r.evs) \cup Range(c.evs)
  BY ConcatRange
<1>3. /\ With(r, c).st.book = c.book
      /\ With(r, c).st.dead = r.st.dead /\ With(r, c).st.maint = r.st.maint
  BY DEF With, States
<1> QED
  BY <1>1, <1>2, <1>3

\* The mark of a cancel moves no book.
LEMMA FlightReplay ==
  ASSUME NEW L, SoundLog(L), NEW o \in Orders
  PROVE  LET r == Replay(L)
             q == Replay(Append(L, Rec("inflight", o, "none")))
         IN  q.st.book = r.st.book /\ q.st.dead = r.st.dead /\ q.st.maint = r.st.maint /\ q.evs = r.evs
<1> DEFINE r == Replay(L)
           x == Rec("inflight", o, "none")
<1>1. r \in [st : States, evs : Seq(Events)] /\ L \in Seq(Recs)
  BY DEF SoundLog, Sound
<1>2. x \in Recs /\ x.kind = "inflight" /\ x.of = o
  BY CancelRecsCalm DEF Rec, Calm
<1>3. Replay(Append(L, x)) = ReplayRecord(r, x)
  BY <1>1, <1>2, ReplayAppend
<1>4. ReplayRecord(r, x) = [r EXCEPT !.st.flight = @ \cup {o}]
  BY <1>2 DEF ReplayRecord
<1> HIDE DEF r, x
<1>5. LET q == [r EXCEPT !.st.flight = @ \cup {o}]
      IN  q.st.book = r.st.book /\ q.st.dead = r.st.dead /\ q.st.maint = r.st.maint /\ q.evs = r.evs
  BY <1>1 DEF States
<1> QED
  BY <1>3, <1>4, <1>5 DEF r, x

\* Replay of a cancel, marked or not.
LEMMA CancelReplay ==
  ASSUME NEW L, SoundLog(L), NEW o \in Orders, NEW why
  PROVE  LET r == Replay(L)
             q == Replay(L \o CancelRecs(o, why))
             c == CancelIn(r.st.book, o, "requested")
         IN  /\ q.st.book = c.book /\ q.st.dead = r.st.dead /\ q.st.maint = r.st.maint
             /\ Range(q.evs) = Range(r.evs) \cup Range(c.evs)
<1> DEFINE x == Rec("inflight", o, "none")
           y == Rec("cancel", o, "requested")
<1>1. x \in Recs /\ y \in Recs /\ x \in Calm /\ SubmitOf(x) = {}
  BY DEF Rec, Recs, Calm, SubmitOf
<1>2. y.kind = "cancel" /\ y.of = o /\ y.reason = "requested" /\ "requested" \in Reasons
  BY DEF Rec, Reasons
<1>3. Handed(why) = "requested"
  BY DEF Handed
<1> HIDE DEF x, y
\* The record of the cancel alone
<1>4. ASSUME NEW M, SoundLog(M)
      PROVE  LET r == Replay(M)
                 q == Replay(Append(M, y))
                 c == CancelIn(r.st.book, o, "requested")
             IN  /\ q.st.book = c.book /\ q.st.dead = r.st.dead /\ q.st.maint = r.st.maint
                 /\ Range(q.evs) = Range(r.evs) \cup Range(c.evs)
  <2> DEFINE r == Replay(M)
             c == CancelIn(r.st.book, o, "requested")
             f == [r EXCEPT !.st.flight = @ \ {o}]
  <2>1. Sound(r, Sent(M)) /\ M \in Seq(Recs)
    BY <1>4 DEF SoundLog
  <2>2. Replay(Append(M, y)) = ReplayRecord(r, y)
    BY <1>1, <2>1, ReplayAppend
  <2>3. ReplayRecord(r, y) = With(f, c)
    BY <1>2 DEF ReplayRecord
  <2> HIDE DEF r
  <2>4. r \in [st : States, evs : Seq(Events)] /\ SoundBook(r.st.book, Sent(M))
    BY <2>1 DEF Sound
  <2>5. c.evs \in Seq(Events)
    <3>1. r.st.book \in Books /\ IsInjective(r.st.book.rest)
      BY <2>4 DEF SoundBook
    <3>2. Follows(c, r.st.book, {})
      BY <1>2, <3>1, CancelFollows
    <3> QED
      BY <3>2 DEF Follows
  <2> HIDE DEF c
  <2>6. /\ f \in [st : States, evs : Seq(Events)]
        /\ f.st.dead = r.st.dead /\ f.st.maint = r.st.maint /\ f.evs = r.evs
    BY <2>4 DEF States
  <2> HIDE DEF f
  <2>7. /\ With(f, c).st.book = c.book
        /\ With(f, c).st.dead = f.st.dead /\ With(f, c).st.maint = f.st.maint
        /\ Range(With(f, c).evs) = Range(f.evs) \cup Range(c.evs)
    BY <2>5, <2>6, WithIs
  <2> QED
    BY <2>2, <2>3, <2>6, <2>7 DEF r, c
<1>5. L \in Seq(Recs)
  BY DEF SoundLog
<1>6. CASE Rests(live.book, o)
  <2>1. CancelRecs(o, why) = <<x>> \o <<y>>
    BY <1>3, <1>6 DEF CancelRecs, x, y
  <2>2. L \o (<<x>> \o <<y>>) = Append(Append(L, x), y)
    BY <1>1, <1>5
  <2>3. SoundLog(Append(L, x))
    BY <1>1, GrowOne DEF Grown
  <2> DEFINE r == Replay(L)
             M == Append(L, x)
             p == Replay(M)
             q == Replay(Append(M, y))
  <2>4. p.st.book = r.st.book /\ p.st.dead = r.st.dead /\ p.st.maint = r.st.maint /\ p.evs = r.evs
    BY FlightReplay DEF x
  <2>5. LET c == CancelIn(p.st.book, o, "requested")
        IN  /\ q.st.book = c.book /\ q.st.dead = p.st.dead /\ q.st.maint = p.st.maint
            /\ Range(q.evs) = Range(p.evs) \cup Range(c.evs)
    BY <1>4, <2>3
  <2>6. Replay(L \o CancelRecs(o, why)) = q
    BY <2>1, <2>2
  <2> HIDE DEF r, p, q, M
  <2>7. LET c == CancelIn(r.st.book, o, "requested")
        IN  /\ q.st.book = c.book /\ q.st.dead = r.st.dead /\ q.st.maint = r.st.maint
            /\ Range(q.evs) = Range(r.evs) \cup Range(c.evs)
    BY <2>4, <2>5
  <2> QED
    BY <2>6, <2>7 DEF r
<1>7. CASE ~Rests(live.book, o)
  <2>1. CancelRecs(o, why) = <<>> \o <<y>>
    BY <1>3, <1>7 DEF CancelRecs, y
  <2>2. L \o (<<>> \o <<y>>) = Append(L, y)
    BY <1>1, <1>5
  <2> QED
    BY <1>4, <2>1, <2>2
<1> QED
  BY <1>6, <1>7

\* Between mass cancels the engine is where replay would be.
LEMMA Together ==
  ASSUME EngineInv, raced = {}, phase # "down", mass = <<>>
  PROVE  LET r == Replay(log).st IN live.book = r.book /\ live.dead = r.dead /\ live.maint = r.maint
  BY DEF EngineInv, SyncInv, InStep

LEMMA TogetherThen ==
  ASSUME mass' = <<>>, live'.book = Replay(log').st.book,
         live'.dead = Replay(log').st.dead, live'.maint = Replay(log').st.maint
  PROVE  SyncInv'
  BY DEF SyncInv, InStep

\* A step that moves neither.
LEMMA SyncSame ==
  ASSUME SyncInv, raced' = {} => raced = {}, phase' # "down" => phase # "down", UNCHANGED mass,
         live'.book = live.book, live'.dead = live.dead, live'.maint = live.maint,
         Replay(log').st.book = Replay(log).st.book, Replay(log').st.dead = Replay(log).st.dead,
         Replay(log').st.maint = Replay(log).st.maint, Evs(log) \subseteq Evs(log')
  PROVE  SyncInv'
<1> SUFFICES ASSUME raced' = {}, phase' # "down" PROVE InStep(Replay(log))'
  BY DEF SyncInv
<1>1. InStep(Replay(log))
  BY DEF SyncInv
<1>2. ASSUME NEW m \in Seq(Orders), mass' = <<m>>
      PROVE  /\ Replay(log').st.book = Dropped(Later(live'.book, m))
             /\ LeftOver(live'.book, m, Range(Replay(log').evs))
  <2>1. /\ Replay(log).st.book = Dropped(Later(live.book, m))
        /\ LeftOver(live.book, m, Range(Replay(log).evs))
    BY <1>1, <1>2 DEF InStep
  <2>2. LeftOver(live.book, m, Range(Replay(log').evs))
    BY <2>1 DEF LeftOver, Evs
  <2> QED
    BY <2>1, <2>2
<1> QED
  BY <1>1, <1>2 DEF InStep

LEMMA TruthOn ==
  ASSUME TruthInv, raced' = {} => raced = {}, Evs(log) \subseteq Evs(log'), UNCHANGED pub,
         NEW evs, Emit(evs), raced' = {} => Range(evs) \subseteq Evs(log')
  PROVE  TruthInv'
<1>1. \A e \in emits' : e \in emits \/ e = evs
  BY DEF Emit
<1> QED
  BY <1>1 DEF TruthInv

LEMMA TruthSame ==
  ASSUME TruthInv, raced' = {} => raced = {}, Evs(log) \subseteq Evs(log'), UNCHANGED pub,
         emits' \subseteq emits
  PROVE  TruthInv'
  BY DEF TruthInv

\* An input that is journalled, or refused before the engine moved.
LEMMA NothingTaken ==
  ASSUME EngineInv, NEW x, AppendFails(<<x>>, 0), UNCHANGED <<live, emits, mass, pub>>,
         raced' = {} => raced = {}, UNCHANGED phase
  PROVE  SyncInv' /\ TruthInv'
<1>1. log' = log
  <2>1. log \in Seq(Recs)
    BY DEF EngineInv, LogInv, SoundLog
  <2>2. log' = log \o SubSeq(<<x>>, 1, 0)
    BY DEF AppendFails
  <2>3. SubSeq(<<x>>, 1, 0) = <<>>
    OBVIOUS
  <2> QED
    BY <2>1, <2>2, <2>3
<1> QED
  BY <1>1, SyncSame, TruthSame DEF EngineInv

\* The engine applies to its book what replay applies to the same book.
LEMMA Applied ==
  ASSUME EngineInv, Evs(log) \subseteq Evs(log'), UNCHANGED pub, raced' = {} => raced = {},
         phase # "down", raced' = {} => mass = <<>>, UNCHANGED mass, live'.book \in Books,
         NEW c, live'.book = c.book, Emit(c.evs),
         raced' = {} => /\ Replay(log').st.book = c.book
                        /\ Replay(log').st.dead = live'.dead /\ Replay(log').st.maint = live'.maint
                        /\ Range(c.evs) \subseteq Evs(log')
  PROVE  SyncInv' /\ TruthInv'
<1>1. TruthInv'
  BY TruthOn DEF EngineInv
<1>2. SyncInv'
  <2> SUFFICES ASSUME raced' = {} PROVE SyncInv'
    BY DEF SyncInv
  <2> QED
    BY TogetherThen
<1> QED
  BY <1>1, <1>2

\* What is known of every step.
Moved == Typed /\ Grown(log, log') /\ SoundLog(log) /\ live'.book \in Books

\* The result of replay has its types.
LEMMA ReplayTyped ==
  ASSUME NEW L, SoundLog(L)
  PROVE  /\ L \in Seq(Recs) /\ Replay(L) \in [st : States, evs : Seq(Events)]
         /\ SoundBook(Replay(L).st.book, Sent(L))
         /\ Replay(L).st.book \in Books
  BY DEF SoundLog, Sound, SoundBook

LEMMA SubmitTrue ==
  ASSUME EngineInv, Moved, NEW o \in Orders, Submit(o)
  PROVE  SyncInv' /\ TruthInv'
<1> DEFINE x == Rec("submit", o, "none")
           c == Swept(SubmitTo(live.book, o))
           r == Replay(log)
<1>1. /\ phase = "up" /\ Account[o] \notin live.dead /\ ~Submitted(o)
      /\ UNCHANGED <<phase, mass, pub>>
      /\ raced' = {} => raced = {} /\ mass = <<>>
  BY DEF Submit, Trading, boot, Note, Between
<1>2. CASE AppendFails(<<x>>, 0) /\ UNCHANGED <<live, emits>>
  BY <1>1, <1>2, NothingTaken
<1>3. CASE AppendAll(<<x>>) /\ live' = [live EXCEPT !.book = c.book] /\ Emit(c.evs)
  <2>1. log \in Seq(Recs) /\ r \in [st : States, evs : Seq(Events)]
    BY ReplayTyped DEF Moved
  <2>2. x \in Recs /\ x.kind = "submit" /\ x.of = o
    BY DEF Rec, Recs
  <2>3. log' = Append(log, x)
    BY <1>3, <2>1 DEF AppendAll
  <2>4. Replay(log') = ReplayRecord(r, x)
    BY <2>1, <2>2, <2>3, ReplayAppend
  <2>5. o \notin Sent(log) /\ SoundBook(live.book, Sent(log)) /\ live \in States
    BY <1>1, SentIs DEF EngineInv, LiveInv
  <2>6. c.evs \in Seq(Events)
    <3>1. live.book \in Books /\ IsInjective(live.book.rest) /\ o \notin Range(live.book.rest)
      BY <2>5 DEF SoundBook
    <3>2. Follows(c, live.book, {o})
      BY <3>1, SubmitFollows, SweptFollows
    <3> QED
      BY <3>2 DEF Follows
  <2>7. live'.book = c.book /\ live'.dead = live.dead /\ live'.maint = live.maint
    BY <1>3, <2>5 DEF States
  <2> HIDE DEF r
  <2>8. ASSUME raced' = {}
        PROVE  /\ Replay(log').st.book = c.book
               /\ Replay(log').st.dead = live'.dead /\ Replay(log').st.maint = live'.maint
               /\ Range(c.evs) \subseteq Evs(log')
    <3>1. live.book = r.st.book /\ live.dead = r.st.dead /\ live.maint = r.st.maint
      BY <1>1, <2>8, Together DEF r
    <3>2. Replay(log') = With(r, c)
      BY <1>1, <2>2, <2>4, <3>1 DEF ReplayRecord
    <3> HIDE DEF c
    <3>3. /\ With(r, c).st.book = c.book
          /\ With(r, c).st.dead = r.st.dead /\ With(r, c).st.maint = r.st.maint
          /\ Range(c.evs) \subseteq Range(With(r, c).evs)
      BY <2>1, <2>6, WithIs
    <3> QED
      BY <2>7, <3>1, <3>2, <3>3 DEF Evs
  <2>9. Evs(log) \subseteq Evs(log') /\ live'.book \in Books
    BY DEF Moved, Grown
  <2> HIDE DEF c
  <2> QED
    BY <1>1, <1>3, <2>7, <2>8, <2>9, Applied
<1> QED
  BY <1>2, <1>3 DEF Submit

\* A cancel with its records, outside a mass cancel.
LEMMA CancelDoneTrue ==
  ASSUME EngineInv, Moved, NEW o \in Orders, NEW why, CancelDone(<<>>, o, why),
         phase # "down", UNCHANGED <<mass, pub>>, raced' = {} => raced = {} /\ mass = <<>>
  PROVE  SyncInv' /\ TruthInv'
<1> DEFINE c == CancelIn(live.book, o, "requested")
           r == Replay(log)
           q == Replay(log')
<1>1. SoundLog(log) /\ log \in Seq(Recs)
  BY ReplayTyped DEF Moved
<1>2. log' = log \o CancelRecs(o, why)
  <2>1. CancelRecs(o, why) \in Seq(Calm)
    BY CancelRecsCalm
  <2>2. <<>> \o CancelRecs(o, why) = CancelRecs(o, why)
    BY <2>1
  <2> QED
    BY <2>2 DEF CancelDone, AppendAll
<1>3. live' = [live EXCEPT !.book = c.book] /\ Emit(c.evs)
  BY DEF CancelDone, Handed
<1>4. live'.book = c.book /\ live'.dead = live.dead /\ live'.maint = live.maint
  BY <1>3 DEF EngineInv, LiveInv, States
<1>5. LET d == CancelIn(r.st.book, o, "requested")
      IN  /\ q.st.book = d.book /\ q.st.dead = r.st.dead /\ q.st.maint = r.st.maint
          /\ Range(q.evs) = Range(r.evs) \cup Range(d.evs)
  BY <1>1, <1>2, CancelReplay
<1>6. ASSUME raced' = {}
      PROVE  /\ q.st.book = c.book /\ q.st.dead = live'.dead /\ q.st.maint = live'.maint
             /\ Range(c.evs) \subseteq Evs(log')
  <2>1. live.book = r.st.book /\ live.dead = r.st.dead /\ live.maint = r.st.maint
    BY <1>6, Together
  <2> QED
    BY <1>4, <1>5, <2>1 DEF Evs
<1>7. Evs(log) \subseteq Evs(log') /\ live'.book \in Books
  BY DEF Moved, Grown
<1> HIDE DEF c
<1> QED
  BY <1>3, <1>4, <1>6, <1>7, Applied

\* A cancel whose records were not all taken.
LEMMA CancelThrowsTrue ==
  ASSUME EngineInv, Moved, NEW o \in Orders, NEW why, CancelThrows(<<>>, o, why),
         UNCHANGED <<phase, mass, pub>>, raced' = {} => raced = {}
  PROVE  SyncInv' /\ TruthInv'
<1> DEFINE recs == CancelRecs(o, why)
<1>1. PICK n \in 0 .. 1 :
        /\ AppendFails(<<>> \o recs, Len(<<>>) + n)
        /\ live' = (IF n = 1 THEN [live EXCEPT !.flight = @ \cup {o}] ELSE live)
        /\ UNCHANGED emits
  BY DEF CancelThrows
<1>2. recs \in Seq(Calm) /\ <<>> \o recs = recs /\ Len(<<>>) + n = n
  BY CancelRecsCalm
<1>3. log' = log \o SubSeq(recs, 1, n) /\ n \in 0 .. Len(recs) - 1
  BY <1>1, <1>2 DEF AppendFails
<1>4. live'.book = live.book /\ live'.dead = live.dead /\ live'.maint = live.maint
  BY <1>1 DEF EngineInv, LiveInv, States
<1>5. SoundLog(log) /\ log \in Seq(Recs) /\ Evs(log) \subseteq Evs(log')
  BY ReplayTyped DEF Moved, Grown
<1>6. log' = log \/ log' = Append(log, Rec("inflight", o, "none"))
  <2>1. CASE n = 0
    <3>1. SubSeq(recs, 1, n) = <<>>
      BY <1>2, <2>1
    <3> QED
      BY <1>3, <1>5, <3>1
  <2>2. CASE n = 1
    <3>1. Len(recs) > 1 /\ Len(recs) \in Nat
      BY <1>2, <1>3, <2>2
    <3>2. Rests(live.book, o)
      BY <3>1 DEF CancelRecs
    <3> DEFINE x == Rec("inflight", o, "none")
               y == Rec("cancel", o, Handed(why))
    <3>3. recs = <<x>> \o <<y>>
      BY <3>2 DEF CancelRecs
    <3>4. x \in Recs /\ y \in Recs
      BY DEF Rec, Recs, Handed
    <3> HIDE DEF x, y, recs
    <3>5. Len(recs) = 2 /\ recs[1] = x /\ recs \in Seq(Recs)
      BY <3>3, <3>4
    <3> DEFINE u == SubSeq(recs, 1, 1)
    <3>a. u \in Seq(Recs) /\ Len(u) = 1 /\ u[1] = x
      BY <3>5
    <3> HIDE DEF u
    <3>b. u = <<x>>
      BY <3>a
    <3>6. SubSeq(recs, 1, 1) = <<x>>
      BY <3>b DEF u
    <3>7. log' = log \o <<x>>
      BY <1>3, <2>2, <3>6
    <3>8. log' = Append(log, x)
      BY <1>5, <3>4, <3>7
    <3> QED
      BY <3>8 DEF x
  <2> QED
    BY <1>1, <2>1, <2>2
<1>7. /\ Replay(log').st.book = Replay(log).st.book /\ Replay(log').st.dead = Replay(log).st.dead
      /\ Replay(log').st.maint = Replay(log).st.maint
  BY <1>5, <1>6, FlightReplay
<1> QED
  BY <1>1, <1>4, <1>5, <1>7, SyncSame, TruthSame DEF EngineInv

\* One cancel of a mass cancel, from the journal L that holds the record of it.
LEMMA MassOneTrue ==
  ASSUME EngineInv, Moved, NEW m \in Seq(Orders), m # <<>>,
         NEW L, SoundLog(L), Evs(log) \subseteq Evs(L),
         log' = L \o CancelRecs(Head(m), "requested"),
         NEW c, c = CancelIn(live.book, Head(m), "requested"),
         live' = [live EXCEPT !.book = c.book], Emit(c.evs), mass' = <<Tail(m)>>, UNCHANGED pub,
         raced' = {} => raced = {},
         raced' = {} => /\ Replay(L).st.book = Dropped(Later(live.book, m))
                        /\ LeftOver(live.book, m, Evs(L))
                        /\ live.dead = Replay(L).st.dead /\ live.maint = Replay(L).st.maint
  PROVE  SyncInv' /\ TruthInv'
<1> DEFINE o == Head(m)
           r == Replay(L)
           q == Replay(log')
<1>1. o \in Orders /\ live.book \in Books /\ live \in States
  BY TailRange DEF EngineInv, LiveInv, SoundBook
<1>2. live'.book = c.book /\ live'.dead = live.dead /\ live'.maint = live.maint
  BY <1>1 DEF States
<1>3. LET d == CancelIn(r.st.book, o, "requested")
      IN  /\ q.st.book = d.book /\ q.st.dead = r.st.dead /\ q.st.maint = r.st.maint
          /\ Range(q.evs) = Range(r.evs) \cup Range(d.evs)
  BY <1>1, CancelReplay
<1>4. ASSUME raced' = {}
      PROVE  /\ r.st.book = Dropped(Later(c.book, Tail(m))) /\ LeftOver(c.book, Tail(m), Evs(L))
             /\ Range(c.evs) \subseteq Evs(L)
             /\ q.st.book = r.st.book /\ q.st.dead = r.st.dead /\ q.st.maint = r.st.maint
             /\ Evs(log') = Evs(L)
  <2> DEFINE p == Later(live.book, m)
  <2>0. p = Later(live.book, m) /\ r.st.book = Dropped(p) /\ LeftOver(live.book, m, Evs(L))
    BY <1>4
  <2> HIDE DEF p
  <2>1. /\ Later(c.book, Tail(m)) = p /\ LeftOver(c.book, Tail(m), Evs(L))
        /\ Range(c.evs) \subseteq Evs(L) /\ ~Rests(r.st.book, o)
    BY <1>1, <2>0, MassStep
  <2>2. CancelIn(r.st.book, o, "requested") = Result(r.st.book, <<>>)
    BY <2>1 DEF CancelIn
  <2>3. Range(<<>>) = {}
    BY DEF Range
  <2> HIDE DEF r, q, o
  <2>4. /\ q.st.book = r.st.book /\ q.st.dead = r.st.dead /\ q.st.maint = r.st.maint
        /\ Range(q.evs) = Range(r.evs)
    BY <1>3, <2>2, <2>3 DEF Result
  <2> QED
    BY <2>0, <2>1, <2>4 DEF Evs, q, r
<1>5. SyncInv'
  <2> SUFFICES ASSUME raced' = {} PROVE InStep(Replay(log))'
    BY DEF SyncInv
  <2>1. live'.dead = q.st.dead /\ live'.maint = q.st.maint
    BY <1>2, <1>4
  <2>2. q.st.book = Dropped(Later(live'.book, Tail(m))) /\ LeftOver(live'.book, Tail(m), Evs(log'))
    BY <1>2, <1>4
  <2>3. mass' # <<>> /\ \A n : mass' = <<n>> => n = Tail(m)
    <3>1. \A n, t : <<n>> = <<t>> => n = t
      OBVIOUS
    <3>2. \A t : <<t>> # <<>>
      OBVIOUS
    <3> QED
      BY <3>1, <3>2
  <2> QED
    BY <2>1, <2>2, <2>3 DEF InStep, Evs
<1>6. TruthInv'
  BY <1>4, TruthOn DEF EngineInv, Moved, Grown
<1> QED
  BY <1>5, <1>6

LEMMA MassCancelNextTrue ==
  ASSUME EngineInv, Moved, MassCancelNext
  PROVE  SyncInv' /\ TruthInv'
<1>0. PICK m \in Seq(Orders) : mass = <<m>>
  BY DEF MassCancelNext, EngineInv, LiveInv, Massing
<1> DEFINE o == Head(m)
           c == CancelIn(live.book, o, "requested")
<1>1. /\ phase = "up" /\ m # <<>> /\ mass' = <<Tail(m)>>
      /\ UNCHANGED <<phase, pub>> /\ CancelOne(<<>>, o)
  BY <1>0 DEF MassCancelNext, boot
<1>2. o \in Orders
  BY <1>1, TailRange
<1>3. CASE CancelDone(<<>>, o, "requested") /\ UNCHANGED raced
  <2>1. CancelRecs(o, "requested") \in Seq(Calm)
    BY <1>2, CancelRecsCalm
  <2>2. <<>> \o CancelRecs(o, "requested") = CancelRecs(o, "requested")
    BY <2>1
  <2>3. log' = log \o CancelRecs(o, "requested")
    BY <1>3, <2>2 DEF CancelDone, AppendAll
  <2>4. live' = [live EXCEPT !.book = c.book] /\ Emit(c.evs)
    BY <1>3 DEF CancelDone, Handed
  <2>5. raced' = {} => /\ Replay(log).st.book = Dropped(Later(live.book, m))
                       /\ LeftOver(live.book, m, Evs(log))
                       /\ live.dead = Replay(log).st.dead /\ live.maint = Replay(log).st.maint
    BY <1>0, <1>1, <1>3 DEF EngineInv, SyncInv, InStep, Evs
  <2>6. SoundLog(log)
    BY DEF Moved
  <2>7. c = CancelIn(live.book, Head(m), "requested")
    OBVIOUS
  <2> HIDE DEF c
  <2> QED
    BY <1>1, <1>3, <2>3, <2>4, <2>5, <2>6, <2>7, MassOneTrue
\* Or the mass cancel goes past an order
<1>4. CASE UNCHANGED emits /\ Note({"mass"})
  <2>1. raced' # {}
    BY <1>4 DEF Note
  <2> QED
    BY <2>1 DEF SyncInv, TruthInv
<1> QED
  BY <1>1, <1>3, <1>4 DEF CancelOne, CancelThrows

\* The drop that ends a mass cancel, which replay did at its record.
LEMMA MassCancelEndsTrue ==
  ASSUME EngineInv, Moved, MassCancelEnds
  PROVE  SyncInv' /\ TruthInv'
<1> DEFINE b == Dropped(live.book)
           r == Replay(log)
<1>1. /\ phase = "up" /\ mass = << <<>> >> /\ mass' = <<>>
      /\ live' = [live EXCEPT !.book = b]
      /\ UNCHANGED <<log, emits, pub, raced, phase>>
  BY DEF MassCancelEnds, journal, boot
<1>2. live \in States /\ live.book \in Books
  BY DEF EngineInv, LiveInv, SoundBook
<1>3. ASSUME raced' = {}
      PROVE  b = r.st.book /\ live.dead = r.st.dead /\ live.maint = r.st.maint
  <2>1. <<>> \in Seq(Orders) /\ InStep(r)
    BY <1>1, <1>3 DEF EngineInv, SyncInv
  <2>2. r.st.book = Dropped(Later(live.book, <<>>))
    BY <1>1, <2>1 DEF InStep
  <2>3. Later(live.book, <<>>) = live.book
    BY <1>2, LaterOfNone
  <2> QED
    BY <2>1, <2>2, <2>3 DEF InStep
<1> HIDE DEF b, r
<1>4. live'.book = b /\ live'.dead = live.dead /\ live'.maint = live.maint
  BY <1>1, <1>2 DEF States
<1>5. SyncInv'
  <2> SUFFICES ASSUME raced' = {} PROVE SyncInv'
    BY DEF SyncInv
  <2>1. Replay(log') = r
    BY <1>1 DEF r
  <2> QED
    BY <1>1, <1>3, <1>4, <2>1, TogetherThen
<1>6. TruthInv'
  BY <1>1, TruthSame DEF EngineInv
<1> QED
  BY <1>5, <1>6

LEMMA MassCancelTrue ==
  ASSUME EngineInv, Moved, NEW a \in Accounts, MassCancel(a)
  PROVE  SyncInv' /\ TruthInv'
<1> DEFINE ids == Owned(live.book, a)
           x == Rec("mass", a, "none")
           o == Head(ids)
           c == CancelIn(live.book, o, "requested")
           L == Append(log, x)
           r == Replay(log)
           d == Swept(CancelAll(r.st.book, Owned(r.st.book, a), "requested"))
<1>1. /\ phase = "up" /\ mass = <<>> /\ UNCHANGED <<phase, pub>>
      /\ \/ ids # <<>> /\ CancelOne(<<x>>, o) /\ mass' = <<Tail(ids)>>
         \/ /\ ids = <<>> /\ AppendAll(<<x>>)
            /\ live' = [live EXCEPT !.book = Dropped(@)] /\ UNCHANGED <<emits, mass, raced>>
         \/ AppendFails(<<x>>, 0) /\ UNCHANGED <<live, emits, mass, raced>>
  BY DEF MassCancel, boot
<1>2. ids \in Seq(Orders) /\ IsInjective(ids) /\ Range(ids) \subseteq Range(live.book.rest)
  BY OwnedTyped DEF EngineInv
<1>3. ids # <<>> => o \in Orders
  BY <1>2, TailRange
<1>4. SoundLog(log) /\ log \in Seq(Recs) /\ r \in [st : States, evs : Seq(Events)]
  BY ReplayTyped DEF Moved
<1>5. x \in Recs /\ SubmitOf(x) = {} /\ x.kind = "mass" /\ x.of = a
  BY DEF Rec, Recs, SubmitOf
<1>6. SoundLog(L) /\ Evs(log) \subseteq Evs(L) /\ Replay(L) = ReplayRecord(r, x)
  BY <1>4, <1>5, GrowOne DEF Grown
<1>7. Replay(L) = With(r, d)
  BY <1>5, <1>6 DEF ReplayRecord
\* Replay does the whole of it at the record
<1>8. ASSUME raced = {}
      PROVE  /\ Replay(L).st.book = Dropped(Later(live.book, ids))
             /\ LeftOver(live.book, ids, Evs(L))
             /\ live.dead = Replay(L).st.dead /\ live.maint = Replay(L).st.maint
  <2>1. live.book = r.st.book /\ live.dead = r.st.dead /\ live.maint = r.st.maint
    BY <1>1, <1>8, Together DEF r
  <2> HIDE DEF L, r, d
  <2>2. d = Swept(CancelAll(live.book, ids, "requested"))
    BY <2>1 DEF d
  <2>3. d.evs \in Seq(Events)
    <3>1. live.book \in Books /\ IsInjective(live.book.rest) /\ "requested" \in Reasons
      BY DEF EngineInv, LiveInv, SoundBook, Reasons
    <3>2. Follows(d, live.book, {})
      BY <1>2, <2>2, <3>1, CancelAllFollows, SweptFollows
    <3> QED
      BY <3>2 DEF Follows
  <2>4. /\ Replay(L).st.book = d.book
        /\ Replay(L).st.dead = r.st.dead /\ Replay(L).st.maint = r.st.maint
        /\ Range(d.evs) \subseteq Evs(L)
    <3>1. r \in [st : States, evs : Seq(Events)]
      BY <1>4
    <3>2. /\ With(r, d).st.book = d.book
          /\ With(r, d).st.dead = r.st.dead /\ With(r, d).st.maint = r.st.maint
          /\ Range(With(r, d).evs) = Range(r.evs) \cup Range(d.evs)
      BY <2>3, <3>1, WithIs
    <3> QED
      BY <1>7, <3>2 DEF Evs
  <2>5. d.book = Dropped(Later(live.book, ids))
    BY <2>2 DEF Swept, CancelAll, Result, Later
  <2>6. \A i \in DOMAIN ids : Left(live.book.seq + i, ids[i], "requested") \in Range(d.evs)
    BY <2>2 DEF Swept, CancelAll, Result, Range
  <2>7. LeftOver(live.book, ids, Evs(L))
    BY <1>2, <2>4, <2>6 DEF LeftOver
  <2> QED
    BY <2>1, <2>4, <2>5, <2>7
<1>9. CASE ids # <<>> /\ CancelDone(<<x>>, o, "requested") /\ UNCHANGED raced /\ mass' = <<Tail(ids)>>
  <2>a. CancelRecs(o, "requested") \in Seq(Calm) /\ Calm \subseteq Recs
    BY <1>3, <1>9, CancelRecsCalm DEF Calm
  <2>1. CancelRecs(o, "requested") \in Seq(Recs)
    BY <2>a
  <2> DEFINE recs == CancelRecs(o, "requested")
  <2>2. log' = log \o (<<x>> \o recs)
    BY <1>9 DEF CancelDone, AppendAll
  <2> HIDE DEF x, recs
  <2>3. log \o (<<x>> \o recs) = L \o recs
    BY <1>4, <1>5, <2>1 DEF recs
  <2>4. live' = [live EXCEPT !.book = c.book] /\ Emit(c.evs)
    BY <1>9 DEF CancelDone, Handed
  <2> HIDE DEF L, r, d
  <2>5. raced' = {} => /\ Replay(L).st.book = Dropped(Later(live.book, ids))
                       /\ LeftOver(live.book, ids, Evs(L))
                       /\ live.dead = Replay(L).st.dead /\ live.maint = Replay(L).st.maint
    BY <1>8, <1>9
  <2>6. c = CancelIn(live.book, Head(ids), "requested")
    OBVIOUS
  <2>7. log' = L \o CancelRecs(Head(ids), "requested")
    BY <2>2, <2>3 DEF recs
  <2> HIDE DEF c, ids
  <2> QED
    BY <1>1, <1>2, <1>6, <1>9, <2>4, <2>5, <2>6, <2>7, MassOneTrue
\* Nothing rests for the account: the book goes at once if it never printed
<1>10. CASE /\ ids = <<>> /\ AppendAll(<<x>>)
            /\ live' = [live EXCEPT !.book = Dropped(@)] /\ UNCHANGED <<emits, mass, raced>>
  <2>1. log' = L
    BY <1>4, <1>5, <1>10 DEF AppendAll
  <2>2. live \in States /\ live.book \in Books
    BY DEF EngineInv, LiveInv, SoundBook
  <2> DEFINE b == Dropped(live.book)
  <2>3. live' = [live EXCEPT !.book = b]
    BY <1>10
  <2>4. raced = {} => /\ Replay(L).st.book = b
                      /\ live.dead = Replay(L).st.dead /\ live.maint = Replay(L).st.maint
    BY <1>8, <1>10, <2>2, LaterOfNone
  <2> HIDE DEF b
  <2>5. live'.book = b /\ live'.dead = live.dead /\ live'.maint = live.maint
    BY <2>2, <2>3 DEF States
  <2>6. mass' = <<>> /\ UNCHANGED <<raced, pub, emits>>
    BY <1>1, <1>10
  <2>7. SyncInv'
    <3> SUFFICES ASSUME raced' = {} PROVE SyncInv'
      BY DEF SyncInv
    <3> HIDE DEF L
    <3>1. /\ live'.book = Replay(log').st.book
          /\ live'.dead = Replay(log').st.dead /\ live'.maint = Replay(log').st.maint
      BY <2>1, <2>4, <2>5, <2>6
    <3> QED
      BY <2>6, <3>1, TogetherThen
  <2>8. TruthInv'
    BY <1>6, <2>1, <2>6, TruthSame DEF EngineInv
  <2> QED
    BY <2>7, <2>8
<1>11. CASE UNCHANGED emits /\ Note({"mass"})
  <2>1. raced' # {}
    BY <1>11 DEF Note
  <2> QED
    BY <2>1 DEF SyncInv, TruthInv
<1>12. CASE AppendFails(<<x>>, 0) /\ UNCHANGED <<live, emits, mass, raced>>
  BY <1>1, <1>12, NothingTaken
<1> HIDE DEF x, ids
<1> QED
  BY <1>1, <1>9, <1>10, <1>11, <1>12 DEF CancelOne, CancelThrows

LEMMA SessionDeadTrue ==
  ASSUME EngineInv, Moved, NEW a \in Accounts, SessionDead(a)
  PROVE  SyncInv' /\ TruthInv'
<1> DEFINE x == Rec("dead", a, "none")
           c == Swept(CancelAll(live.book, Owned(live.book, a), "session_dead"))
           r == Replay(log)
           f == [r EXCEPT !.st.dead = @ \cup {a}]
<1>1. /\ phase = "up" /\ UNCHANGED <<phase, mass, pub>>
      /\ raced' = {} => raced = {} /\ mass = <<>>
  BY DEF SessionDead, boot, Note, Between
<1>2. CASE AppendFails(<<x>>, 0) /\ UNCHANGED <<live, emits>>
  BY <1>1, <1>2, NothingTaken
<1>3. CASE /\ AppendAll(<<x>>)
           /\ live' = [live EXCEPT !.book = c.book, !.dead = @ \cup {a}] /\ Emit(c.evs)
  <2>1. log \in Seq(Recs) /\ r \in [st : States, evs : Seq(Events)]
    BY ReplayTyped DEF Moved
  <2>2. x \in Recs /\ x.kind = "dead" /\ x.of = a
    BY DEF Rec, Recs
  <2>3. log' = Append(log, x)
    BY <1>3, <2>1 DEF AppendAll
  <2>4. Replay(log') = ReplayRecord(r, x)
    BY <2>1, <2>2, <2>3, ReplayAppend
  <2>5. SoundBook(live.book, Sent(log)) /\ live \in States /\ "session_dead" \in Reasons
    BY DEF EngineInv, LiveInv, Reasons
  <2>6. c.evs \in Seq(Events)
    <3>1. live.book \in Books /\ IsInjective(live.book.rest) /\ LiveInv
      BY <2>5 DEF SoundBook, EngineInv
    <3>2. Follows(c, live.book, {})
      BY <2>5, <3>1, OwnedTyped, CancelAllFollows, SweptFollows
    <3> QED
      BY <3>2 DEF Follows
  <2>7. live'.book = c.book /\ live'.dead = live.dead \cup {a} /\ live'.maint = live.maint
    BY <1>3, <2>5 DEF States
  <2> HIDE DEF r
  <2>8. /\ f \in [st : States, evs : Seq(Events)] /\ f.evs = r.evs
        /\ f.st.dead = r.st.dead \cup {a} /\ f.st.maint = r.st.maint
    BY <2>1 DEF States
  <2>9. ASSUME raced' = {}
        PROVE  /\ Replay(log').st.book = c.book
               /\ Replay(log').st.dead = live'.dead /\ Replay(log').st.maint = live'.maint
               /\ Range(c.evs) \subseteq Evs(log')
    <3>1. live.book = r.st.book /\ live.dead = r.st.dead /\ live.maint = r.st.maint
      BY <1>1, <2>9, Together DEF r
    <3>2. Replay(log') = With(f, c)
      BY <2>2, <2>4, <3>1 DEF ReplayRecord
    <3> HIDE DEF c, f
    <3>3. /\ With(f, c).st.book = c.book
          /\ With(f, c).st.dead = f.st.dead /\ With(f, c).st.maint = f.st.maint
          /\ Range(c.evs) \subseteq Range(With(f, c).evs)
      BY <2>6, <2>8, WithIs
    <3> QED
      BY <2>7, <2>8, <3>1, <3>2, <3>3 DEF Evs
  <2>10. Evs(log) \subseteq Evs(log') /\ live'.book \in Books
    BY DEF Moved, Grown
  <2> HIDE DEF c
  <2> QED
    BY <1>1, <1>3, <2>7, <2>9, <2>10, Applied
<1> QED
  BY <1>2, <1>3 DEF SessionDead

LEMMA MarkTrue ==
  ASSUME EngineInv, Moved, Mark
  PROVE  SyncInv' /\ TruthInv'
<1> DEFINE x == Rec("mark", "none", "none")
           r == Replay(log)
<1>1. /\ phase = "up" /\ UNCHANGED <<phase, mass, pub, emits>>
      /\ raced' = {} => raced = {} /\ mass = <<>>
      /\ live' = [live EXCEPT !.book = MarkTo(@)]
  BY DEF Mark, Trading, boot, Note, Between
<1>2. CASE Note(Between \cup {"mark"})
  <2>1. raced' # {}
    BY <1>2 DEF Note
  <2> QED
    BY <2>1 DEF SyncInv, TruthInv
<1>3. CASE AppendAll(<<x>>)
  <2>1. log \in Seq(Recs) /\ r \in [st : States, evs : Seq(Events)]
    BY ReplayTyped DEF Moved
  <2>2. x \in Recs /\ x.kind = "mark"
    BY DEF Rec, Recs
  <2>3. log' = Append(log, x)
    BY <1>3, <2>1 DEF AppendAll
  <2>4. Replay(log') = ReplayRecord(r, x)
    BY <2>1, <2>2, <2>3, ReplayAppend
  <2>5. live \in States
    BY DEF EngineInv, LiveInv
  <2>6. live'.book = MarkTo(live.book) /\ live'.dead = live.dead /\ live'.maint = live.maint
    BY <1>1, <2>5 DEF States
  <2>7. Evs(log) \subseteq Evs(log') /\ live'.book \in Books
    BY DEF Moved, Grown
  <2> HIDE DEF r
  <2>8. ASSUME raced' = {}
        PROVE  /\ Replay(log').st.book = live'.book
               /\ Replay(log').st.dead = live'.dead /\ Replay(log').st.maint = live'.maint
    <3>1. live.book = r.st.book /\ live.dead = r.st.dead /\ live.maint = r.st.maint
      BY <1>1, <2>8, Together DEF r
    <3>2. Replay(log') = [r EXCEPT !.st.book = MarkTo(@)]
      BY <2>2, <2>4 DEF ReplayRecord
    <3>3. LET q == [r EXCEPT !.st.book = MarkTo(@)]
          IN  q.st.book = MarkTo(r.st.book) /\ q.st.dead = r.st.dead /\ q.st.maint = r.st.maint
      BY <2>1 DEF States
    <3> QED
      BY <2>6, <3>1, <3>2, <3>3
  <2>9. SyncInv'
    <3> SUFFICES ASSUME raced' = {} PROVE SyncInv'
      BY DEF SyncInv
    <3> QED
      BY <1>1, <2>7, <2>8, TogetherThen
  <2> QED
    BY <1>1, <2>7, <2>9, TruthSame DEF EngineInv
<1> QED
  BY <1>2, <1>3 DEF Mark

LEMMA MaintenanceTrue ==
  ASSUME EngineInv, Moved, NEW b \in BOOLEAN, Maintenance(b)
  PROVE  SyncInv' /\ TruthInv'
<1> DEFINE x == Rec("maint", b, "none")
           r == Replay(log)
<1>1. /\ phase = "up" /\ UNCHANGED <<phase, mass, pub, emits>>
      /\ raced' = {} => raced = {} /\ mass = <<>>
  BY DEF Maintenance, boot, Note, Between
<1>2. CASE AppendFails(<<x>>, 0) /\ UNCHANGED live
  BY <1>1, <1>2, NothingTaken
<1>3. CASE AppendAll(<<x>>) /\ live' = [live EXCEPT !.maint = b]
  <2>1. log \in Seq(Recs) /\ r \in [st : States, evs : Seq(Events)]
    BY ReplayTyped DEF Moved
  <2>2. x \in Recs /\ x.kind = "maint" /\ x.of = b
    BY DEF Rec, Recs
  <2>3. log' = Append(log, x)
    BY <1>3, <2>1 DEF AppendAll
  <2>4. Replay(log') = ReplayRecord(r, x)
    BY <2>1, <2>2, <2>3, ReplayAppend
  <2>5. live \in States
    BY DEF EngineInv, LiveInv
  <2>6. live'.book = live.book /\ live'.dead = live.dead /\ live'.maint = b
    BY <1>3, <2>5 DEF States
  <2>7. Evs(log) \subseteq Evs(log') /\ live'.book \in Books
    BY DEF Moved, Grown
  <2> HIDE DEF r
  <2>8. ASSUME raced' = {}
        PROVE  /\ Replay(log').st.book = live'.book
               /\ Replay(log').st.dead = live'.dead /\ Replay(log').st.maint = live'.maint
    <3>1. live.book = r.st.book /\ live.dead = r.st.dead /\ live.maint = r.st.maint
      BY <1>1, <2>8, Together DEF r
    <3>2. Replay(log') = [r EXCEPT !.st.maint = b]
      BY <2>2, <2>4 DEF ReplayRecord
    <3>3. LET q == [r EXCEPT !.st.maint = b]
          IN  q.st.book = r.st.book /\ q.st.dead = r.st.dead /\ q.st.maint = b
      BY <2>1 DEF States
    <3> QED
      BY <2>6, <3>1, <3>2, <3>3
  <2>9. SyncInv'
    <3> SUFFICES ASSUME raced' = {} PROVE SyncInv'
      BY DEF SyncInv
    <3> QED
      BY <1>1, <2>7, <2>8, TogetherThen
  <2> QED
    BY <1>1, <2>7, <2>9, TruthSame DEF EngineInv
<1> QED
  BY <1>2, <1>3 DEF Maintenance

LEMMA NextTrue ==
  ASSUME EngineInv, [EngineNext]_engineVars
  PROVE  SyncInv' /\ TruthInv'
<1>1. Moved /\ Evs(log) \subseteq Evs(log')
  <2>1. Typed /\ Grown(log, log') /\ SoundLog(log)
    BY NextLog, NextTyped DEF EngineInv, LogInv
  <2> QED
    BY <2>1 DEF Moved, Typed, SoundBook, Grown
\* A step that leaves journal and engine alone
<1>2. ASSUME UNCHANGED <<log, live, mass, raced>>, phase = "down" => phase' = "down"
      PROVE  SyncInv'
  BY <1>1, <1>2, SyncSame DEF EngineInv
<1>3. ASSUME UNCHANGED <<log, pub, emits, raced>> PROVE TruthInv'
  BY <1>1, <1>3, TruthSame DEF EngineInv
<1>4. ASSUME NEW o \in Orders, Cancel(o) PROVE SyncInv' /\ TruthInv'
  <2>1. /\ phase = "up" /\ UNCHANGED <<phase, mass, pub>>
        /\ raced' = {} => raced = {} /\ mass = <<>>
    BY <1>4 DEF Cancel, boot, Note, Between
  <2>2. CancelDone(<<>>, o, "expired") \/ CancelThrows(<<>>, o, "expired")
    BY <1>4 DEF Cancel
  <2> QED
    BY <1>1, <2>1, <2>2, CancelDoneTrue, CancelThrowsTrue
<1>5. ASSUME Gone, UNCHANGED <<pub, raced>> PROVE SyncInv' /\ TruthInv'
  BY <1>1, <1>5 DEF Gone, SyncInv, TruthInv, EngineInv
<1>6. ASSUME NEW evs \in emits, Publish(evs) PROVE SyncInv' /\ TruthInv'
  <2>1. /\ UNCHANGED <<log, live, mass, raced, phase>>
        /\ pub' = pub \cup {Head(evs)}
        /\ emits' = (emits \ {evs}) \cup (IF Len(evs) = 1 THEN {} ELSE {Tail(evs)})
    BY <1>6 DEF Publish, journal, boot
  <2>2. Range(evs) = {Head(evs)} \cup Range(Tail(evs))
    BY TailRange DEF EngineInv, WorldInv
  <2>3. TruthInv'
    BY <2>1, <2>2 DEF TruthInv, EngineInv
  <2> QED
    BY <1>2, <2>1, <2>3
<1>7. ASSUME NEW evs \in emits, PublishFails(evs) PROVE SyncInv' /\ TruthInv'
  <2>1. UNCHANGED <<log, live, mass, raced, phase, pub>> /\ emits' \subseteq emits
    BY <1>7 DEF PublishFails, journal, boot
  <2> QED
    BY <1>1, <1>2, <2>1, TruthSame DEF EngineInv
<1>8. ASSUME Recover PROVE SyncInv' /\ TruthInv'
  <2>1. /\ UNCHANGED <<log, mass, pub, emits, raced>> /\ live' = Replay(log).st
        /\ phase = "down"
    BY <1>8 DEF Recover, journal
  <2>2. mass' = <<>>
    BY <2>1 DEF EngineInv, LiveInv
  <2>3. live'.book \in Books
    BY <1>1 DEF Moved
  <2>4. SyncInv'
    BY <2>1, <2>2, <2>3, TogetherThen
  <2> QED
    BY <1>3, <2>1, <2>4
<1>9. ASSUME Announce PROVE SyncInv' /\ TruthInv'
  <2>1. /\ UNCHANGED <<log, live, mass, raced, emits>> /\ phase = "announce"
        /\ todo \in Seq(Events) /\ Range(todo) \subseteq Evs(log)
    BY <1>9 DEF Announce, journal, EngineInv, WorldInv
  <2>2. pub' = pub \/ (todo # <<>> /\ pub' = pub \cup {Head(todo)})
    BY <1>9 DEF Announce
  <2>3. todo # <<>> => Head(todo) \in Range(todo)
    BY <2>1, TailRange
  <2>4. TruthInv'
    BY <2>1, <2>2, <2>3 DEF TruthInv, EngineInv
  <2> QED
    BY <1>2, <2>1, <2>4
<1>10. ASSUME Unconfirmed PROVE SyncInv' /\ TruthInv'
  <2> DEFINE o == Head(todo)
  <2>1. /\ phase = "check" /\ UNCHANGED <<phase, mass, pub, raced>> /\ o \in Orders
    BY <1>10, TailRange DEF Unconfirmed, EngineInv, WorldInv
  <2>2. mass = <<>>
    BY <2>1 DEF EngineInv, LiveInv
  <2>3. CancelDone(<<>>, o, "hold_unconfirmed") \/ UNCHANGED <<journal, live, emits>>
    BY <1>10 DEF Unconfirmed
  <2>4. CASE UNCHANGED <<journal, live, emits>>
    BY <1>2, <1>3, <2>1, <2>4 DEF journal
  <2> HIDE DEF o
  <2> QED
    BY <1>1, <2>1, <2>2, <2>3, <2>4, CancelDoneTrue
<1>11. CASE Confirmed \/ Unreachable \/ Listen \/ UNCHANGED engineVars
  <2>1. /\ UNCHANGED <<log, live, mass, raced, pub, emits>>
        /\ phase = "down" => phase' = "down"
    BY <1>11 DEF Confirmed, Unreachable, Listen, engineVars, journal, boot
  <2> QED
    BY <1>2, <1>3, <2>1
<1>12. CASE Crash \/ \E o \in Orders : CrashInCancel(o)
  BY <1>5, <1>12 DEF Crash, CrashInCancel, Stop
<1>13. CASE \E o \in Orders : Submit(o) \/ Cancel(o)
  BY <1>1, <1>4, <1>13, SubmitTrue
<1>14. CASE \E a \in Accounts : MassCancel(a) \/ SessionDead(a)
  BY <1>1, <1>14, MassCancelTrue, SessionDeadTrue
<1>15. CASE MassCancelNext \/ MassCancelEnds \/ Mark \/ \E b \in BOOLEAN : Maintenance(b)
  BY <1>1, <1>15, MassCancelNextTrue, MassCancelEndsTrue, MarkTrue, MaintenanceTrue
<1>16. CASE \E evs \in emits : Publish(evs) \/ PublishFails(evs)
  BY <1>6, <1>7, <1>16
<1> QED
  BY <1>8, <1>9, <1>10, <1>11, <1>12, <1>13, <1>14, <1>15, <1>16 DEF EngineNext

-----------------------------------------------------------------------------
(* The theorems.                                                           *)

LEMMA InitEngineInv == EngineInit => EngineInv
<1> SUFFICES ASSUME EngineInit PROVE EngineInv
  OBVIOUS
<1>1. /\ log = <<>> /\ doubt = <<>> /\ live = NoState /\ hold = FALSE /\ closed = FALSE
      /\ phase = "down" /\ todo = <<>> /\ booted = 0 /\ bad = {}
      /\ mass = <<>> /\ emits = {} /\ pub = {} /\ raced = {}
  BY DEF EngineInit
<1>2. <<>> \in Seq(Orders) /\ <<>> \in Seq(Events) /\ Range(<<>>) = {} /\ IsInjective(<<>>)
  BY DEF Range, IsInjective
<1>3. EmptyBook \in Books /\ EmptyBook.rest = <<>>
  BY DEF EmptyBook, Books
<1>4. NoState \in States /\ NoState.book = EmptyBook
  BY <1>3 DEF NoState, States
<1>5. \A P : SoundBook(EmptyBook, P)
  BY <1>2, <1>3 DEF SoundBook
<1>6. Empty \in [st : States, evs : Seq(Events)] /\ Empty.st = NoState /\ Empty.evs = <<>>
  BY <1>2, <1>4 DEF Empty
<1>7. SoundLog(<<>>) /\ Replay(<<>>) = Empty /\ Evs(<<>>) = {} /\ FillsIn(<<>>) = {}
  <2>1. \A P : Sound(Empty, P)
    BY <1>2, <1>4, <1>5, <1>6, NoEvents DEF Sound
  <2>2. <<>> \in Seq(Recs)
    OBVIOUS
  <2> QED
    BY <1>2, <1>6, <2>1, <2>2, ReplayNothing DEF SoundLog, Evs, FillsIn
<1>8. LogInv
  BY <1>1, <1>7 DEF LogInv
<1>9. LiveInv
  <2>1. live \in States /\ SoundBook(live.book, Sent(log))
    BY <1>1, <1>4, <1>5
  <2>2. Len(log) \in Nat
    BY <1>1
  <2>3. booted \in 0 .. Len(log)
    BY <1>1, <2>2
  <2> QED
    BY <1>1, <2>1, <2>3 DEF LiveInv, Massing
<1>10. WorldInv
  BY <1>1 DEF WorldInv
<1>11. SyncInv /\ TruthInv
  BY <1>1 DEF SyncInv, TruthInv
<1>12. BootInv
  BY <1>1 DEF BootInv, BootTellsFills
<1>13. CalmInv
  BY <1>1 DEF CalmInv
<1> QED
  BY <1>8, <1>9, <1>10, <1>11, <1>12, <1>13 DEF EngineInv

LEMMA NextEngineInv == EngineInv /\ [EngineNext]_engineVars => EngineInv'
<1> SUFFICES ASSUME EngineInv, [EngineNext]_engineVars PROVE EngineInv'
  OBVIOUS
<1>1. LogInv'
  BY NextLog
<1>2. LiveInv' /\ WorldInv' /\ BootInv' /\ CalmInv'
  BY NextBoot DEF BootParts
<1>3. SyncInv' /\ TruthInv'
  BY NextTrue
<1> QED
  BY <1>1, <1>2, <1>3 DEF EngineInv

\* The inductive invariant of the engine (engine.ts, cod-fence.ts, journal-replay.ts):
\* the journal replays without error; the engine is where that replay would be, its
\* book deleted or not, but for what is left of a mass cancel, the drop included; and
\* what the world was told is in it.
THEOREM EngineInvariant == EngineSpec => []EngineInv
<1>1. EngineInit => EngineInv
  BY InitEngineInv
<1>2. EngineInv /\ [EngineNext]_engineVars => EngineInv'
  BY NextEngineInv
<1> QED
  BY <1>1, <1>2, PTL DEF EngineSpec

\* env.ts, journal-replay.ts: whenever the engine runs and no mass cancel is under way, a
\* boot from the journal would find its book with the sequence it is at, or no book
\* where the engine has deleted one that never printed, its dead sessions and its
\* maintenance switch; unless an input came between the record of a mass cancel and its
\* drop, or a mark moved a stop whose record was not taken.
THEOREM ReplayFindsTheEngine == EngineSpec => []ReplayIsLive
<1>1. EngineInv => ReplayIsLive
  BY Together DEF ReplayIsLive
<1> QED
  BY <1>1, EngineInvariant, PTL

\* engine.ts, emit and recover(): every trade the world was told of is one the journal
\* makes again, no two of them share a sequence though books are deleted and begin
\* again at 0 (dropIfNeverTraded), no order was told to end twice, and a boot has told
\* every trade the journal had before it.
THEOREM WorldAgreesWithJournal == EngineSpec => []FillsConsistent
<1>1. EngineInv => EngineTypeOK
  <2> SUFFICES ASSUME EngineInv PROVE EngineTypeOK
    OBVIOUS
  <2>1. live \in States /\ SoundBook(live.book, Sent(log))
    BY DEF EngineInv, LiveInv
  <2>2. /\ live.book.rest \in Seq(Orders) /\ live.book.seq \in Nat /\ live.book.printed \in BOOLEAN
        /\ IsInjective(live.book.rest)
    BY <2>1 DEF SoundBook, Books
  <2>3. Range(live.book.rest) \subseteq Orders
    BY <2>2 DEF Range
  <2>4. mass = <<>> \/ \E m \in Seq(Orders) : mass = <<m>>
    BY DEF EngineInv, LiveInv, Massing
  <2>5. Len(mass) <= 1 /\ \A i \in DOMAIN mass : Range(mass[i]) \subseteq Orders
    <3>1. CASE mass = <<>>
      BY <3>1
    <3>2. ASSUME NEW m \in Seq(Orders), mass = <<m>>
          PROVE  Len(mass) <= 1 /\ \A i \in DOMAIN mass : mass[i] = m
      BY <3>2
    <3>3. \A m \in Seq(Orders) : Range(m) \subseteq Orders
      BY DEF Range
    <3> QED
      BY <2>4, <3>1, <3>2, <3>3
  <2>6. Len(doubt) <= 1
    <3>1. doubt = <<>> \/ \E x \in Recs : doubt = <<x>>
      BY DEF EngineInv, LogInv
    <3>2. Len(<<>>) <= 1 /\ \A x : Len(<<x>>) <= 1
      OBVIOUS
    <3> QED
      BY <3>1, <3>2
  <2>7. live.dead \subseteq Accounts /\ live.maint \in BOOLEAN /\ live.flight \subseteq Orders
    BY <2>1 DEF States
  <2>8. /\ hold \in BOOLEAN /\ closed \in BOOLEAN /\ bad \subseteq Orders
        /\ phase \in {"down", "announce", "check", "up"}
    BY DEF EngineInv, LiveInv
  <2> QED
    BY <2>2, <2>3, <2>5, <2>6, <2>7, <2>8 DEF EngineTypeOK
<1>2. EngineInv => ToldIsJournalled
  <2> SUFFICES ASSUME EngineInv, raced = {}
               PROVE  /\ \A e \in pub : e.kind = "fill" => e \in FillsIn(log)
                      /\ \A e, f \in pub :
                           e.kind = "fill" /\ f.kind = "fill" /\ e.seq = f.seq => e = f
                      /\ \A e, f \in pub : e # f => Range(e.of) \cap Range(f.of) = {}
    BY DEF ToldIsJournalled
  <2>1. pub \subseteq Evs(log)
    BY DEF EngineInv, TruthInv
  <2>2. OneFill(Replay(log).evs) /\ EndOnce(Replay(log).evs)
    BY DEF EngineInv, LogInv, SoundLog, Sound
  <2> QED
    BY <2>1, <2>2 DEF FillsIn, Evs, OneFill, EndOnce
<1>3. EngineInv => BootTellsFills
  BY DEF EngineInv, BootInv
<1>4. EngineInv => FillsConsistent
  BY <1>1, <1>2, <1>3 DEF FillsConsistent
<1> QED
  BY <1>4, EngineInvariant, PTL

\* replay-hold.ts: an order whose hold a boot did not confirm is in no trade that is
\* journalled after that boot, whether it was pulled or its cancel was refused.
THEOREM UnconfirmedHoldsNeverFill == EngineSpec => []UnconfirmedNeverFills
<1>1. EngineInv => UnconfirmedNeverFills
  BY DEF EngineInv, CalmInv, UnconfirmedNeverFills
<1> QED
  BY <1>1, EngineInvariant, PTL
=============================================================================
