SPECIFICATION Spec
CONSTANTS
  w1 = w1
  w2 = w2
  Callers = {w1, w2}
  Keys = {"lock", "release", "refund"}
  NoKey = NoKey
  MaxAttempts = 1
  NoWorker = NoWorker
  MaxCrashes = 2
SYMMETRY Workers
INVARIANTS EscrowConsistent VoidedNeverLocks PaidIsNotRefunded
CHECK_DEADLOCK FALSE
