SPECIFICATION FairSpec
CONSTANTS
  m1 = m1
  m2 = m2
  k1 = k1
  k2 = k2
  p1 = p1
  p2 = p2
  Msgs = {m1, m2}
  Keys = {k1, k2}
  KeyOf <- MCOwnKey
  Procs = {p1, p2}
  MaxDeliver = 2
  MaxSeen = 1
  Prefetch = 2
  MaxThrows = 1
  MaxLate = 1
  MaxLost = 1
  MaxCrashes = 1
  MaxAborts = 1
INVARIANTS DeliveriesConsistent AckedIsHandled RepeatsAreCaused
PROPERTIES EveryMessageEnds
CHECK_DEADLOCK FALSE
