---------------------------- MODULE LedgerRules ----------------------------
(***************************************************************************)
(* The rules every post must satisfy before an engine books it, shared by  *)
(* all engines: packages/ledger-client/src/client.ts and types.ts.  A post *)
(* is a sequence of entries; an entry moves a positive amount into (debit) *)
(* or out of (credit) one account.  Each assert* of the code that throws   *)
(* is a predicate here, true when it does not throw.                       *)
(***************************************************************************)
EXTENDS Integers, Sequences, FiniteSets, FiniteSetsExt

CONSTANTS
  OwnerIds,    \* owner ids as they arrive
  Assets,      \* asset ids
  Uuids,       \* owner ids matching UUID_OWNER_ID_PATTERN
  Slugs,       \* owner ids matching PLATFORM_OWNER_ID_PATTERN
  Trimmed,     \* accountPurpose: a purpose as written -> trimmed, or NoPurpose
  NoPurpose,   \* absent, empty or whitespace
  LegacyTags   \* trimmed purposes that start with "legacy:"

OwnerTypes == {"user", "subaccount", "module", "house", "treasury"}
UuidOwnerTypes == {"user", "subaccount"}
AccountKinds == {"available", "hold", "escrow", "stake", "collateral"}

\* LOCK_KINDS, derived from ACCOUNT_KIND_CLASS
LockKinds == AccountKinds \ {"available"}

AccountRef == [ownerType : OwnerTypes, ownerId : OwnerIds, asset : Assets,
               kind : AccountKinds, purpose : DOMAIN Trimmed]

EntryInput == [account : AccountRef, direction : {"debit", "credit"}, amount : Int]

\* The identity of an account: the purpose is part of it, in its trimmed form.
AccountKey(ref) == [ref EXCEPT !.purpose = Trimmed[ref.purpose]]

SignedDelta(e) == IF e.direction = "debit" THEN e.amount ELSE -e.amount

\* Sum of op over the entries whose index is in I.
SumOver(op(_), entries, I) == MapThenSumSet(LAMBDA i : op(entries[i]), I)

IsValidOwnerId(ownerType, ownerId) ==
  IF ownerType \in UuidOwnerTypes THEN ownerId \in Uuids
  ELSE ownerId \in Slugs \ Uuids

AssertOwnerIdentifierSpace(entries) ==
  \A i \in DOMAIN entries :
    IsValidOwnerId(entries[i].account.ownerType, entries[i].account.ownerId)

\* Net change of one asset.
AssetDelta(entries, asset) ==
  SumOver(SignedDelta, entries, {i \in DOMAIN entries : entries[i].account.asset = asset})

AssertBalanced(entries) ==
  /\ Len(entries) >= 2
  /\ \A i \in DOMAIN entries : entries[i].amount > 0
  /\ \A i \in DOMAIN entries : AssetDelta(entries, entries[i].account.asset) = 0

\* The pots of one owner in one asset.
Owns(account) == [ownerType |-> account.ownerType, ownerId |-> account.ownerId,
                  asset |-> account.asset]

OwnersOf(entries) == {Owns(entries[i].account) : i \in DOMAIN entries}

\* Value that entered the owner's locked pots, entry by entry: a lock the same
\* post releases is not netted off.
LockGain(entries, owner) ==
  SumOver(SignedDelta, entries,
          {i \in DOMAIN entries : /\ Owns(entries[i].account) = owner
                                  /\ entries[i].account.kind \in LockKinds
                                  /\ SignedDelta(entries[i]) > 0})

\* Value that left the owner's available pot, entry by entry: what the same
\* post pays back into it is not netted off.
AvailableGiven(entries, owner) ==
  -SumOver(SignedDelta, entries,
           {i \in DOMAIN entries : /\ Owns(entries[i].account) = owner
                                   /\ entries[i].account.kind = "available"
                                   /\ SignedDelta(entries[i]) < 0})

AssertPairedLocks(entries) ==
  /\ \A i \in DOMAIN entries : entries[i].account.kind \in LockKinds \cup {"available"}
  /\ \A owner \in OwnersOf(entries) :
       LockGain(entries, owner) <= AvailableGiven(entries, owner)

AssertPurposedLocks(entries) ==
  \A i \in DOMAIN entries :
    entries[i].account.kind \in LockKinds =>
      Trimmed[entries[i].account.purpose] \notin {NoPurpose} \cup LegacyTags

AssertAvailableUnpurposed(entries) ==
  \A i \in DOMAIN entries :
    entries[i].account.kind = "available" =>
      Trimmed[entries[i].account.purpose] = NoPurpose

\* assertValidPost; the idempotency key is checked where the key is used.
AssertValidPost(entries) ==
  /\ AssertOwnerIdentifierSpace(entries)
  /\ AssertBalanced(entries)
  /\ AssertPairedLocks(entries)
  /\ AssertPurposedLocks(entries)
  /\ AssertAvailableUnpurposed(entries)

-----------------------------------------------------------------------------
(* Applying a post to a book of balances, as both engines do.              *)

\* Balances after the first n entries.
After(balance, entries, n) ==
  [k \in DOMAIN balance |->
     balance[k] + SumOver(SignedDelta, entries,
                          {i \in 1 .. n : AccountKey(entries[i].account) = k})]

\* Only the treasury may go below zero.  The balance is checked after each
\* entry, so an entry may be refused for value a later entry would bring.
Fits(balance, entries) ==
  \A n \in DOMAIN entries :
    \/ entries[n].account.ownerType = "treasury"
    \/ After(balance, entries, n)[AccountKey(entries[n].account)] >= 0

\* Mutant of Fingerprint: repeated lines are counted once.
FingerprintOfSet(r) ==
  [reason |-> r.reason,
   moves |-> {<<AccountKey(r.entries[i].account), r.entries[i].direction, r.entries[i].amount>> :
                i \in DOMAIN r.entries}]

\* postFingerprint: the module and the reason (one value here) and what the post
\* moves, its entries in any order.
Fingerprint(r) ==
  LET Line(i) == <<AccountKey(r.entries[i].account), r.entries[i].direction, r.entries[i].amount>>
      lines == {Line(i) : i \in DOMAIN r.entries}
  IN  [reason |-> r.reason,
       moves |-> [l \in lines |-> Cardinality({i \in DOMAIN r.entries : Line(i) = l})]]
=============================================================================
