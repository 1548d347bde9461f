SPECIFICATION EngineSpec
CONSTANTS
  s1 = s1
  b1 = b1
  t1 = t1
  alice = alice
  bob = bob
  Orders = {s1, b1, t1}
  Buys = {b1}
  Ioc = {b1}
  Trailing = {t1}
  Account <- MCAccount
  MaxControls = 2
  MaxCancels = 1
  MaxFailures = 1
  MaxCrashes = 1
INVARIANTS FillsConsistent ReplayIsLive UnconfirmedNeverFills
CHECK_DEADLOCK FALSE
