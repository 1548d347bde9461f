--------------------------- MODULE JournalWriters ---------------------------
(***************************************************************************)
(* FileJournal as processes come and go (services/svc-matching/src/engine/ *)
(* journal-io.ts): the process that has the lock of JournalLock drives the *)
(* file of JournalFile, and a process that dies, or the machine, leaves    *)
(* both for the next one.                                                  *)
(***************************************************************************)
EXTENDS Integers, Sequences

CONSTANTS Procs, Pid, Inputs, MaxFaults

ASSUME JournalWritersConstants ==
  /\ Pid \in [Procs -> Nat \ {0}]
  /\ MaxFaults \in Nat
  /\ "none" \notin Procs \cup Inputs   \* NoProc of JournalLock, NoInput of JournalFile

VARIABLES life, at, tries, lock, gate, obs   \* of JournalLock; at is its pc
VARIABLES file, media, pc, cur, records, ioUnknown, admitted, refused, faults   \* of JournalFile

lockVars == <<life, at, tries, lock, gate, obs>>
fileVars == <<file, media, pc, cur, records, ioUnknown, admitted, refused, faults>>
vars == <<lockVars, fileVars>>

Lock == INSTANCE JournalLock WITH pc <- at
File == INSTANCE JournalFile

Init == Lock!Init /\ File!Init

-----------------------------------------------------------------------------
LockStep(p) == Lock!Step(p) /\ UNCHANGED fileVars

\* Whoever believes to have the lock drives the file.
Owns(p) == Lock!At(p, "own")
FileStep(p) == Owns(p) /\ File!Step /\ UNCHANGED lockVars

\* The file is closed and then the lock released; so when the constructor throws.
Close(p) == Lock!Close(p) /\ (File!Close \/ File!OpenFails)

Die(p) ==
  /\ Lock!Die(p)
  /\ IF Owns(p) /\ pc # "down" THEN File!Crash ELSE UNCHANGED fileVars

\* Nobody syncs the lock or the gate: they may be gone, and the lock may be empty.
PowerLoss ==
  /\ File!PowerLoss
  /\ life' = [p \in Procs |-> IF life[p] = "live" THEN "dead" ELSE life[p]]
  /\ lock' \in {lock, Lock!NoFile, [lock EXCEPT !.written = FALSE]}
  /\ gate' \in {gate, Lock!NoProc}
  /\ UNCHANGED <<at, tries, obs>>

Next == PowerLoss \/ \E p \in Procs : LockStep(p) \/ FileStep(p) \/ Close(p) \/ Die(p)

Spec == Init /\ [][Next]_vars

\* The constructor takes or refuses the lock without waiting for anybody.
FairSpec == Spec /\ \A p \in Procs : WF_vars(Lock!Acquire(p) /\ UNCHANGED fileVars)

-----------------------------------------------------------------------------
(* Properties                                                              *)

\* Lock and file keep their types; a process tries to steal at most once and a
\* line's sequence is never zero.
TypeOK == Lock!TypeOK /\ File!TypeOK

\* FileJournal: "Exclusive writer first — two O_APPEND fds on one file can tear
\* the book."  One process at most has the journal open, whatever died before.
OneWriter == Lock!OneWriter

\* append: whatever stops now, the next process's open is not refused by the file
\* and finds every admitted input, in its place and under its own sequence, and no
\* input that was refused with a short write.
NextOpenFindsLog == TypeOK /\ File!AdmittedIsKept /\ File!RefusedIsNotReplayed

\* The journal, whichever process has it, is the log its interface promises.
KeepsPromise == File!KeepsPromise

\* stealDeadWriterLock: the lock of a writer that died is never in the way of a
\* process that is alone, also when that process has the pid of the dead one.
AloneIsAdmitted == Lock!AloneIsAdmitted
=============================================================================
