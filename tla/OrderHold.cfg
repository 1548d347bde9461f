SPECIFICATION Spec
CONSTANTS
  o1 = o1
  c1 = c1
  c2 = c2
  c3 = c3
  NoKey = NoKey
  NoOrder = NoOrder
  Callers = {c1, c2, c3}
  Keys = {o1}
  MaxAttempts = 2
  MaxPlaces = 2
SYMMETRY MCSymmetry
INVARIANTS OrdersConsistent MoneyHasLiveRow EngineIsFunded
