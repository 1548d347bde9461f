SPECIFICATION FairSpec
CONSTANTS
  w1 = w1
  w2 = w2
  Callers = {w1}
  Keys = {"lock", "release", "refund"}
  NoKey = NoKey
  MaxAttempts = 1
  NoWorker = NoWorker
  MaxCrashes = 2
PROPERTIES DecidedIsSettled EscrowStallsEnd
CHECK_DEADLOCK FALSE
