SPECIFICATION Spec
CONSTANTS
  s1 = s1
  b1 = b1
  b2 = b2
  p1 = p1
  p2 = p2
  Sells = {s1}
  Buys = {b1, b2}
  Qty <- MCQty
  Dust = 1
  Procs = {p1, p2}
  MaxCancels = 1
  MaxCrashes = 1
SYMMETRY MCSymmetry
INVARIANTS HoldsConsistent MatchIsFunded QuietIsSettled
CHECK_DEADLOCK FALSE
