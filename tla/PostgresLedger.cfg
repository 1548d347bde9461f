SPECIFICATION FairSpec
CONSTANTS
  c1 = c1
  c2 = c2
  d1 = d1
  NoCall = NoCall
  NoRequest = NoRequest
  OwnerIds <- MCOwnerIds
  Assets = {"usd"}
  Reasons = {"transfer", "fee"}
  Keys = {"k1", "k2"}
  Uuids <- MCUuids
  Slugs <- MCSlugs
  Trimmed <- MCTrimmed
  NoPurpose = ""
  LegacyTags = {}
  Accounts <- MCAccounts
  InitBalance <- MCInitBalance
  ConflictMode = "refuse"
  Calls = {c1, c2}
  Relays = {d1}
  Requests <- MCRequests
  MaxAttempts = 2
INVARIANTS BookProves BackstopsNeverFire OkIsBookedAndAnnounced AtMostOneOutrunsFreeze ReplayIsReordering
PROPERTIES RefusedIsUnbooked AtomicSpec EveryBookingAnnounced
