----------------------------- MODULE PostClient -----------------------------
(***************************************************************************)
(* A service's call of ledger.post over HTTP: the attempts of one call,    *)
(* what the ledger does with each, and what a failed call proves           *)
(* (packages/ledger-client/src/http-client.ts, post-outcome.ts).           *)
(*                                                                         *)
(* The book is the set of idempotency keys booked under.  The ledger looks *)
(* the key up before it can refuse; its doors (credentials, the recipe     *)
(* gate) refuse before they know the key.  An attempt its caller stopped   *)
(* waiting for may still be queued at the ledger and book later.  Why the  *)
(* ledger refuses (funds, a freeze) is left to chance.  Times are left     *)
(* out: an attempt may end early, and a call may give up, at any moment.   *)
(***************************************************************************)
EXTENDS Naturals

CONSTANTS
  Callers,      \* calls of ledger.post that may run at once
  Keys,         \* idempotency keys
  NoKey,        \* a caller that has no post under way
  MaxAttempts   \* retries + 1

ASSUME PostClientConstants ==
  /\ MaxAttempts \in Nat \ {0}
  /\ NoKey \notin Keys

VARIABLES
  call,     \* per caller: where its post stands
  queued,   \* keys of attempts nobody waits for that the ledger still holds
  book      \* keys with a booked transaction

postVars == <<call, queued, book>>

\* "sent": the attempt waits for the ledger.  "answered": the reply is on its
\* way.  "failed": the attempt is over and may be repeated.  "ok" and "err":
\* the call returned or threw.
CallStates == {"idle", "sent", "answered", "failed", "ok", "err"}

\* "refused" stands for DEFINITE_POST_REFUSAL_CODES, "door" for every other
\* status that is not retried, "unsent" for NEVER_SENT_CAUSE_CODES, "lost" for
\* a timeout, a reset, an unreadable reply and a 502, 503 or 504.
Errors == {"refused", "door", "unsent", "lost"}

CallType ==
  [st : CallStates, key : Keys \cup {NoKey}, attempts : 0 .. MaxAttempts, err : Errors \cup {"none"}]

NoCall == [st |-> "idle", key |-> NoKey, attempts |-> 0, err |-> "none"]

PostInit ==
  /\ call = [c \in Callers |-> NoCall]
  /\ queued = {}
  /\ book = {}

-----------------------------------------------------------------------------
(* What the error of a failed call proves.                                 *)

\* classifyPostOutcome of the last attempt's error, after n attempts
ClassifyPostOutcome(err, n) ==
  CASE err = "refused"           -> "refused"
    [] err = "unsent" /\ n = 1   -> "unsent"
    [] OTHER                     -> "unknown"

\* Mutant of ProvesPostNotCommitted: the number of attempts is not looked at.
ProvesByLastAttempt(err, n) == ClassifyPostOutcome(err, 1) # "unknown"

\* provesPostNotCommitted: only the single attempt of a call proves anything.
ProvesPostNotCommitted(err, n) == ClassifyPostOutcome(err, n) # "unknown" /\ n = 1

-----------------------------------------------------------------------------
(* The calling side: createLedgerTransport.                                *)

BeginPost(c, k) ==
  /\ call[c].st = "idle"
  /\ call' = [call EXCEPT ![c] = [st |-> "sent", key |-> k, attempts |-> 1, err |-> "none"]]
  /\ UNCHANGED <<queued, book>>

Fail(c, err) == call' = [call EXCEPT ![c].st = "failed", ![c].err = err]

\* The connection was never made.
NeverSent(c) ==
  /\ call[c].st = "sent"
  /\ Fail(c, "unsent")
  /\ UNCHANGED <<queued, book>>

\* The attempt timed out or its socket broke while the ledger had it.
AttemptAbandoned(c) ==
  /\ call[c].st = "sent"
  /\ Fail(c, "lost")
  /\ queued' = queued \cup {call[c].key}
  /\ UNCHANGED book

\* A reply arrives: a success is returned, a refusal is thrown at once.
Reply(c) ==
  /\ call[c].st = "answered"
  /\ call' = [call EXCEPT ![c].st = IF call[c].err = "none" THEN "ok" ELSE "err"]
  /\ UNCHANGED <<queued, book>>

ReplyLost(c) ==
  /\ call[c].st = "answered"
  /\ Fail(c, "lost")
  /\ UNCHANGED <<queued, book>>

\* backoff: another attempt while the budget lasts
Retry(c) ==
  /\ call[c].st = "failed"
  /\ call[c].attempts < MaxAttempts
  /\ call' = [call EXCEPT ![c].st = "sent", ![c].attempts = @ + 1, ![c].err = "none"]
  /\ UNCHANGED <<queued, book>>

\* backoff: the budget of attempts or the deadline says no; the last error is
\* thrown, stamped with the number of attempts.
GiveUp(c) ==
  /\ call[c].st = "failed"
  /\ call' = [call EXCEPT ![c].st = "err"]
  /\ UNCHANGED <<queued, book>>

\* The caller has read how its call ended, or its process is gone: then an
\* attempt the ledger has is nobody's.
LetGo(c) ==
  /\ call' = [call EXCEPT ![c] = NoCall]
  /\ queued' = IF call[c].st = "sent" THEN queued \cup {call[c].key} ELSE queued
  /\ UNCHANGED book

-----------------------------------------------------------------------------
(* The ledger's side.                                                      *)

\* A new key is booked, a known one answered with its transaction.
LedgerBooks(c) ==
  /\ call[c].st = "sent"
  /\ call' = [call EXCEPT ![c].st = "answered"]
  /\ book' = book \cup {call[c].key}
  /\ UNCHANGED queued

\* The engine refuses only after it has not found the key.
LedgerRefuses(c) ==
  /\ call[c].st = "sent"
  /\ call[c].key \notin book
  /\ call' = [call EXCEPT ![c].st = "answered", ![c].err = "refused"]
  /\ UNCHANGED <<queued, book>>

\* A door refuses whatever the book holds.
DoorRefuses(c) ==
  /\ call[c].st = "sent"
  /\ call' = [call EXCEPT ![c].st = "answered", ![c].err = "door"]
  /\ UNCHANGED <<queued, book>>

QueuedPostBooks(k) ==
  /\ k \in queued
  /\ book' = book \cup {k}
  /\ UNCHANGED <<call, queued>>

\* The last queued attempt of a key is refused, dropped or done.
QueuedPostsEnd(k) ==
  /\ k \in queued
  /\ queued' = queued \ {k}
  /\ UNCHANGED <<call, book>>

PostStep ==
  \/ \E c \in Callers :
       \/ NeverSent(c) \/ AttemptAbandoned(c) \/ Reply(c) \/ ReplyLost(c)
       \/ Retry(c) \/ GiveUp(c)
       \/ LedgerBooks(c) \/ LedgerRefuses(c) \/ DoorRefuses(c)
  \/ \E k \in Keys : QueuedPostBooks(k) \/ QueuedPostsEnd(k)

\* Part of the type invariant of the modules that post.
PostTypeOK ==
  /\ call \in [Callers -> CallType]
  /\ queued \in SUBSET Keys
  /\ book \in SUBSET Keys
=============================================================================
