SPECIFICATION Spec
CONSTANTS
  c1 = c1
  c2 = c2
  t1 = t1
  t2 = t2
  t3 = t3
  r1 = r1
  NoKey = NoKey
  NoSend = NoSend
  NoRequest = NoRequest
  Callers = {c1, c2}
  Keys = {t1, t2, t3}
  Requests = {r1}
  RequestOf <- MCThreeSends
  MaxAttempts = 2
  DailyLimit = 1
  MaxTries = 3
SYMMETRY MCSymmetry
INVARIANTS TablesConsistent BookedWithinTerms GivenUpNeverBooks
CHECK_DEADLOCK FALSE
