---------------------------- MODULE JournalFile ----------------------------
(***************************************************************************)
(* FileJournal: NDJSON on disk, one fsync per record, rewritten clean at   *)
(* every open (services/svc-matching/src/engine/journal-io.ts).            *)
(*                                                                         *)
(* A file is a sequence of lines.  A line that was cut before its newline  *)
(* can only be the last: "bare" when the JSON is whole, "torn" when it is  *)
(* not.  Bytes written after a cut line continue it, and the line that     *)
(* results is "junk".                                                      *)
(***************************************************************************)
EXTENDS Integers, FiniteSets, Sequences, SequencesExt

CONSTANTS
  Inputs,       \* inputs of the engine, each offered once
  MaxFaults     \* bound: calls of the file system that fail, ends of the machine

VARIABLES
  file,       \* what a read of the path returns
  media,      \* what it may return after the machine stopped
  pc,         \* of the one process that has the journal
  cur,        \* the input being appended
  records,    \* the process's records
  ioUnknown,
  admitted,   \* inputs the engine was told are in the journal
  refused,    \* inputs it was told are not
  faults

disk == <<file, media>>
vars == <<disk, pc, cur, records, ioUnknown, admitted, refused, faults>>

NoInput == "none"
Line(kind, c, n) == [kind |-> kind, input |-> c, seq |-> n]

Init ==
  /\ file = <<>> /\ media = {<<>>}
  /\ pc = "down" /\ cur = NoInput /\ records = <<>> /\ ioUnknown = FALSE
  /\ admitted = <<>> /\ refused = {} /\ faults = 0

Fault == faults < MaxFaults /\ faults' = faults + 1

-----------------------------------------------------------------------------
(* Bytes                                                                   *)

Cut == {"torn", "bare"}
EndsCut(f) == f # <<>> /\ Last(f).kind \in Cut

\* The file with one more line written at its end (O_APPEND).
Written(f, line) ==
  IF ~EndsCut(f) THEN Append(f, line)
  ELSE Append(Front(f), [line EXCEPT !.kind = IF @ = "torn" THEN "torn" ELSE "junk"])

\* What a write of the line can leave when it does not end well.
Partly(f, line) == {f} \cup {Written(f, [line EXCEPT !.kind = k]) : k \in Cut \cup {line.kind}}

\* decodeAll: a line that does not parse is skipped at the end of the file and
\* refused anywhere else.
Parses(l) == l.kind \in {"rec", "bare"}
Corrupt(f) == \E i \in 1 .. Len(f) - 1 : ~Parses(f[i])
Decode(f) == IF f = <<>> \/ Parses(Last(f)) THEN f ELSE Front(f)
Clean(f) == [i \in DOMAIN Decode(f) |-> [Decode(f)[i] EXCEPT !.kind = "rec"]]
InputsOf(f) == [i \in DOMAIN f |-> f[i].input]

-----------------------------------------------------------------------------
(* Opening: read, rewriteClean, open for append.                           *)

Read ==
  /\ pc = "down" /\ ~Corrupt(file)
  /\ pc' = "rewrite"
  /\ UNCHANGED <<disk, cur, records, ioUnknown, admitted, refused, faults>>

\* The temporary file is whole and synced, and takes the place of the path.
Rename ==
  /\ pc = "rewrite"
  /\ records' = Clean(file)
  /\ file' = Clean(file)
  /\ media' = media \cup {Clean(file)}
  /\ pc' = "rename"
  /\ UNCHANGED <<cur, ioUnknown, admitted, refused, faults>>

\* The directory is synced: the constructor returns and the engine replays.
Opened ==
  /\ pc = "rename"
  /\ media' = {file}
  /\ pc' = "up" /\ ioUnknown' = FALSE
  /\ admitted' = InputsOf(records)
  /\ UNCHANGED <<file, cur, records, refused, faults>>

\* The rewrite fails, or the rename does: the constructor throws.
OpenFails ==
  /\ pc \in {"rewrite", "rename"} /\ Fault
  /\ pc' = "down" /\ records' = <<>>
  /\ UNCHANGED <<disk, cur, ioUnknown, admitted, refused>>

-----------------------------------------------------------------------------
(* append                                                                  *)

Offered(c) == c \in Range(admitted) \cup refused \/ \E l \in Range(file) : l.input = c
NewLine == Line("rec", cur, Len(records) + 1)

Offer(c) ==
  /\ pc = "up" /\ ~ioUnknown /\ ~Offered(c)
  /\ pc' = "write" /\ cur' = c
  /\ UNCHANGED <<disk, records, ioUnknown, admitted, refused, faults>>

Write ==
  /\ pc = "write"
  /\ file' = Written(file, NewLine)
  /\ media' = media \cup Partly(file, NewLine)
  /\ pc' = "sync"
  /\ UNCHANGED <<cur, records, ioUnknown, admitted, refused, faults>>

\* A short count: some of the line is in the file.
WriteShort ==
  /\ pc = "write" /\ Fault
  /\ \E k \in Cut : file' = Written(file, [NewLine EXCEPT !.kind = k])
  /\ media' = media \cup (Partly(file, NewLine) \ {Written(file, NewLine)})
  /\ pc' = "truncate"
  /\ UNCHANGED <<cur, records, ioUnknown, admitted, refused>>

\* The write throws, having written none, some or all of the line.
WriteThrows ==
  /\ pc = "write" /\ Fault
  /\ file' \in Partly(file, NewLine)
  /\ media' = media \cup Partly(file, NewLine)
  /\ pc' = "up" /\ cur' = NoInput /\ ioUnknown' = TRUE
  /\ UNCHANGED <<records, admitted, refused>>

\* Mutant of Truncate: the tear is left, the next line is written after it.
TruncateNot ==
  /\ pc = "truncate"
  /\ media' = {file}
  /\ refused' = refused \cup {cur}
  /\ pc' = "up" /\ cur' = NoInput
  /\ UNCHANGED <<file, records, ioUnknown, admitted, faults>>

\* Back to the offset before the write, and synced: the input is refused.
Truncate ==
  /\ pc = "truncate"
  /\ file' = Front(file)
  /\ media' = {Front(file)}
  /\ refused' = refused \cup {cur}
  /\ pc' = "up" /\ cur' = NoInput
  /\ UNCHANGED <<records, ioUnknown, admitted, faults>>

\* The truncation fails, or the sync after it.
TruncateThrows ==
  /\ pc = "truncate" /\ Fault
  /\ file' \in {file, Front(file)}
  /\ media' = media \cup {Front(file)}
  /\ pc' = "up" /\ cur' = NoInput /\ ioUnknown' = TRUE
  /\ UNCHANGED <<records, admitted, refused>>

Sync ==
  /\ pc = "sync"
  /\ media' = {file}
  /\ records' = Append(records, NewLine)
  /\ admitted' = Append(admitted, cur)
  /\ pc' = "up" /\ cur' = NoInput
  /\ UNCHANGED <<file, ioUnknown, refused, faults>>

\* Mutant of SyncThrows: the journal goes on under the same sequence.
SyncThrowsGoesOn ==
  /\ pc = "sync" /\ Fault
  /\ file' \in media
  /\ pc' = "up" /\ cur' = NoInput
  /\ UNCHANGED <<media, records, ioUnknown, admitted, refused>>

\* The kernel may drop what it could not write.
SyncThrows ==
  /\ pc = "sync" /\ Fault
  /\ file' \in media
  /\ pc' = "up" /\ cur' = NoInput /\ ioUnknown' = TRUE
  /\ UNCHANGED <<media, records, admitted, refused>>

-----------------------------------------------------------------------------
(* The end of a process: close, its death, or the machine's.               *)

Gone == pc' = "down" /\ cur' = NoInput /\ records' = <<>> /\ ioUnknown' = FALSE

Close == pc = "up" /\ Gone /\ UNCHANGED <<disk, admitted, refused, faults>>

Crash == pc # "down" /\ Gone /\ UNCHANGED <<disk, admitted, refused, faults>>

PowerLoss ==
  /\ Fault /\ Gone
  /\ file' \in media /\ media' = {file'}
  /\ UNCHANGED <<admitted, refused>>

-----------------------------------------------------------------------------
\* The steps of the process that has the journal.
Step ==
  \/ Read \/ Rename \/ Opened
  \/ \E c \in Inputs : Offer(c)
  \/ Write \/ WriteShort \/ WriteThrows \/ Truncate \/ TruncateThrows
  \/ Sync \/ SyncThrows

Next == Step \/ OpenFails \/ Close \/ Crash \/ PowerLoss

Spec == Init /\ [][Next]_vars

-----------------------------------------------------------------------------
(* Properties                                                              *)

Lines == [kind : {"rec", "bare", "torn", "junk"}, input : Inputs, seq : Nat \ {0}]

\* The file, the writer and the histories keep their types; a line's sequence
\* is never zero.
TypeOK ==
  /\ file \in Seq(Lines) /\ media \subseteq Seq(Lines)
  /\ pc \in {"down", "rewrite", "rename", "up", "write", "sync", "truncate"}
  /\ cur \in Inputs \cup {NoInput}
  /\ records \in Seq(Lines)
  /\ ioUnknown \in BOOLEAN
  /\ admitted \in Seq(Inputs) /\ refused \subseteq Inputs

\* Whatever stops now, the next open is not refused, and finds every input that
\* was admitted, in its place and under its own sequence.
AdmittedIsKept ==
  \A f \in media \cup {file} :
    /\ ~Corrupt(f)
    /\ IsPrefix(admitted, InputsOf(Decode(f)))
    /\ \A i \in DOMAIN Decode(f) : Decode(f)[i].seq = i

\* An input the engine was told is not in the journal is never replayed.
RefusedIsNotReplayed ==
  \A f \in media \cup {file} : Range(InputsOf(Decode(f))) \cap refused = {}

\* The journal is the log its interface promises.
Promised == INSTANCE DurableLog WITH
  log <- admitted, open <- pc \in {"up", "write", "sync", "truncate"} /\ ~ioUnknown
KeepsPromise == Promised!Spec
=============================================================================
