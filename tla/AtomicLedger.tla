---------------------------- MODULE AtomicLedger ----------------------------
(***************************************************************************)
(* What a ledger promises its callers: posts take effect one at a time,    *)
(* each whole or not at all, each idempotency key once, and an answer is   *)
(* true of the book at the moment it is decided.  This is MemoryLedger,    *)
(* the reference engine of packages/ledger-client, whose post is one       *)
(* synchronous step; PostgresLedger is shown to implement it.              *)
(***************************************************************************)
EXTENDS LedgerRules

CONSTANTS
  Calls,         \* calls of post(), each made once
  Requests,      \* [key, reason, entries] records a call may carry
  Accounts,      \* account keys
  InitBalance,   \* balances when the observation starts
  ConflictMode,  \* "refuse" or "detect": IdempotencyConflictMode
  NoRequest      \* the request of a caller that has heard nothing

VARIABLES
  book,      \* booked requests, in commit order
  funds,     \* live balances
  told       \* per call: what the caller was told, and of which request

BookedAs(key) == {n \in DOMAIN book : book[n].key = key}

Unheard == [outcome |-> "none", req |-> NoRequest]

\* What a caller can be told.
Outcomes == {"ok", "conflict", "refused", "unknown"}

AtomicInit ==
  /\ book = <<>>
  /\ funds = InitBalance
  /\ told = [c \in Calls |-> Unheard]

\* The commit: stage every entry, refuse an overdraft, then write it all.
Book(r) ==
  /\ BookedAs(r.key) = {}
  /\ AssertValidPost(r.entries)
  /\ Fits(funds, r.entries)
  /\ book' = Append(book, r)
  /\ funds' = After(funds, r.entries, Len(r.entries))
  /\ UNCHANGED told

\* Whether an outcome is true of the book.
TrueOf(outcome, r) ==
  CASE outcome = "ok" ->
         \E n \in BookedAs(r.key) :
           ConflictMode = "refuse" => Fingerprint(book[n]) = Fingerprint(r)
    [] outcome = "conflict" ->
         \E n \in BookedAs(r.key) : Fingerprint(book[n]) # Fingerprint(r)
    [] outcome = "refused" -> BookedAs(r.key) = {}
    [] outcome = "unknown" -> TRUE

Tell(c, r, outcome) ==
  /\ told[c] = Unheard
  /\ TrueOf(outcome, r)
  /\ told' = [told EXCEPT ![c] = [outcome |-> outcome, req |-> r]]
  /\ UNCHANGED <<book, funds>>

AtomicNext ==
  \/ \E r \in Requests : Book(r)
  \/ \E c \in Calls, r \in Requests, outcome \in Outcomes : Tell(c, r, outcome)

AtomicSpec == AtomicInit /\ [][AtomicNext]_<<book, funds, told>>
=============================================================================
