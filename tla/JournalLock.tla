---------------------------- MODULE JournalLock ----------------------------
(***************************************************************************)
(* The writer lock of a journal: a sidecar file created O_EXCL, with the   *)
(* pid and a nonce of its writer, and the recover gate under which the     *)
(* lock of a dead writer is removed                                        *)
(* (services/svc-matching/src/engine/journal-io.ts).                       *)
(*                                                                         *)
(* A process opens the journal once.  Pids are used again.  All processes  *)
(* are of one pid namespace: containers that share the volume see each     *)
(* other's pids as dead, and nothing here holds of them.  A file's inode   *)
(* and its nonce are those of its creation.                                *)
(***************************************************************************)
EXTENDS Integers, FiniteSets

CONSTANTS
  Procs,        \* processes, each started once
  Pid           \* their pids

VARIABLES
  life,     \* "new", "live", "dead"
  pc,
  tries,    \* the attempt of acquireExclusiveWriterLock
  lock,     \* the lock file: [by, tries, written], or NoFile
  gate,     \* the process that made the gate directory, or NoProc
  obs       \* the lock a process read

vars == <<life, pc, tries, lock, gate, obs>>

NoFile == [by |-> "none", tries |-> 0, written |-> FALSE]
NoProc == "none"
Mine(p) == [by |-> p, tries |-> tries[p], written |-> TRUE]
SameNonce(l, k) == l.by = k.by /\ l.tries = k.tries

Init ==
  /\ life = [p \in Procs |-> "new"]
  /\ pc = [p \in Procs |-> "create"]
  /\ tries = [p \in Procs |-> 0]
  /\ lock = NoFile /\ gate = NoProc
  /\ obs = [p \in Procs |-> NoFile]

At(p, l) == life[p] = "live" /\ pc[p] = l
Goto(p, l) == pc' = [pc EXCEPT ![p] = l]

\* A process starts under a pid nobody has.
Start(p) ==
  /\ life[p] = "new"
  /\ \A q \in Procs : life[q] = "live" => Pid[q] # Pid[p]
  /\ life' = [life EXCEPT ![p] = "live"]
  /\ UNCHANGED <<pc, tries, lock, gate, obs>>

-----------------------------------------------------------------------------
(* acquireExclusiveWriterLock                                              *)

\* open(O_CREAT | O_EXCL); the file is empty until it is written.
Create(p) ==
  /\ At(p, "create")
  /\ IF lock = NoFile
       THEN lock' = [Mine(p) EXCEPT !.written = FALSE] /\ Goto(p, "fill")
       ELSE UNCHANGED lock /\ Goto(p, IF tries[p] = 0 THEN "observe" ELSE "locked")
  /\ UNCHANGED <<life, tries, gate, obs>>

Fill(p) ==
  /\ At(p, "fill")
  /\ lock' = IF SameNonce(lock, Mine(p)) THEN Mine(p) ELSE lock
  /\ Goto(p, "own")
  /\ UNCHANGED <<life, tries, gate, obs>>

PidIsLive(pid) == \E q \in Procs : life[q] = "live" /\ Pid[q] = pid

\* Mutant of CanSteal: a live pid is a live writer.
CanStealLive(p, l) == l.written /\ ~PidIsLive(Pid[l.by])

\* An empty file has no pid and is never taken.
CanSteal(p, l) ==
  /\ l.written
  /\ PidIsLive(Pid[l.by]) => Pid[l.by] = Pid[p] /\ l.by # p

Again(p) == tries' = [tries EXCEPT ![p] = @ + 1] /\ Goto(p, "create")

\* stealDeadWriterLock: the first look, before the gate.
Observe(p) ==
  /\ At(p, "observe")
  /\ obs' = [obs EXCEPT ![p] = lock]
  /\ \/ lock = NoFile /\ Again(p)
     \/ lock # NoFile /\ ~CanSteal(p, lock) /\ Goto(p, "locked") /\ UNCHANGED tries
     \/ lock # NoFile /\ CanSteal(p, lock) /\ Goto(p, "gate") /\ UNCHANGED tries
  /\ UNCHANGED <<life, lock, gate>>

\* mkdir: a gate that is there refuses, also a dead process's.
EnterGate(p) ==
  /\ At(p, "gate")
  /\ IF gate = NoProc THEN gate' = p /\ Goto(p, "reread") ELSE UNCHANGED gate /\ Goto(p, "locked")
  /\ UNCHANGED <<life, tries, lock, obs>>

\* Mutant of Reread: the first look is trusted, whatever the file is now.
RereadTrusts(p) ==
  /\ At(p, "reread")
  /\ obs' = [obs EXCEPT ![p] = lock]
  /\ Goto(p, IF lock = NoFile THEN "leave" ELSE "open")
  /\ UNCHANGED <<life, tries, lock, gate>>

\* unlinkObservedDeadLock: still the same nonce, still dead.
Reread(p) ==
  /\ At(p, "reread")
  /\ Goto(p, IF lock = NoFile THEN "leave"
             ELSE IF SameNonce(lock, obs[p]) /\ CanSteal(p, lock) THEN "open" ELSE "leaveLocked")
  /\ UNCHANGED <<life, tries, lock, gate, obs>>

\* unlinkIfNonce: open and read, compare the inode, unlink.
OpenLock(p) ==
  /\ At(p, "open")
  /\ Goto(p, IF lock = NoFile THEN "leave" ELSE IF SameNonce(lock, obs[p]) THEN "stat" ELSE "leaveLocked")
  /\ UNCHANGED <<life, tries, lock, gate, obs>>

StatLock(p) ==
  /\ At(p, "stat")
  /\ Goto(p, IF lock = NoFile THEN "leave" ELSE IF SameNonce(lock, obs[p]) THEN "unlink" ELSE "leaveLocked")
  /\ UNCHANGED <<life, tries, lock, gate, obs>>

\* The entry goes, whatever it names by now; with no entry the call throws.
Unlink(p) ==
  /\ At(p, "unlink")
  /\ lock' = NoFile
  /\ Goto(p, IF lock = NoFile THEN "leaveLocked" ELSE "leave")
  /\ UNCHANGED <<life, tries, gate, obs>>

LeaveGate(p) ==
  /\ life[p] = "live" /\ pc[p] \in {"leave", "leaveLocked"}
  /\ gate' = IF gate = p THEN NoProc ELSE gate
  /\ IF pc[p] = "leave" THEN Again(p) ELSE Goto(p, "locked") /\ UNCHANGED tries
  /\ UNCHANGED <<life, lock, obs>>

-----------------------------------------------------------------------------
(* close, and the end of a process                                         *)

\* The file is closed, then releaseExclusiveWriterLock: unlinkIfNonce.
Close(p) ==
  /\ At(p, "own")
  /\ Goto(p, "releaseStat")
  /\ UNCHANGED <<life, tries, lock, gate, obs>>

ReleaseStat(p) ==
  /\ At(p, "releaseStat")
  /\ Goto(p, IF SameNonce(lock, Mine(p)) THEN "release" ELSE "closed")
  /\ UNCHANGED <<life, tries, lock, gate, obs>>

Release(p) ==
  /\ At(p, "release")
  /\ lock' = NoFile
  /\ Goto(p, "closed")
  /\ UNCHANGED <<life, tries, gate, obs>>

\* A crash anywhere, or the end of a process that was refused or has closed.
Die(p) ==
  /\ life[p] = "live"
  /\ life' = [life EXCEPT ![p] = "dead"]
  /\ UNCHANGED <<pc, tries, lock, gate, obs>>

-----------------------------------------------------------------------------
\* The constructor runs to its end without waiting for anybody.
Acquire(p) ==
  \/ Create(p) \/ Fill(p) \/ Observe(p) \/ EnterGate(p) \/ Reread(p)
  \/ OpenLock(p) \/ StatLock(p) \/ Unlink(p) \/ LeaveGate(p)

\* Steps that concern the lock only.
Step(p) == Start(p) \/ Acquire(p) \/ ReleaseStat(p) \/ Release(p)

Next == \E p \in Procs : Step(p) \/ Close(p) \/ Die(p)

Spec == Init /\ [][Next]_vars

-----------------------------------------------------------------------------
(* Properties                                                              *)

\* Files and processes keep their types; a process tries to steal at most once.
TypeOK ==
  /\ life \in [Procs -> {"new", "live", "dead"}]
  /\ tries \in [Procs -> {0, 1}]
  /\ lock = NoFile \/ lock.by \in Procs
  /\ gate \in Procs \cup {NoProc}

\* FileJournal: "Exclusive writer first — two O_APPEND fds on one file can tear
\* the book."  One process at most has the journal open, and the lock file names
\* it for as long as it has.
OneWriter ==
  \A p, q \in Procs :
    /\ At(p, "own") => lock = Mine(p)
    /\ At(p, "own") /\ At(q, "own") => p = q

\* Nobody else lives, and nobody died inside the gate or before writing its lock.
Alone(p) ==
  /\ At(p, "create") /\ tries[p] = 0
  /\ \A q \in Procs \ {p} : life[q] # "live"
  /\ gate = NoProc /\ (lock # NoFile => lock.written)

\* The lock of a writer that died is never in the way of a process that is alone,
\* also when that process has the pid of the dead one.
AloneIsAdmitted ==
  \A p \in Procs :
    Alone(p) ~> At(p, "own") \/ life[p] = "dead" \/ \E q \in Procs \ {p} : life[q] = "live"
=============================================================================
