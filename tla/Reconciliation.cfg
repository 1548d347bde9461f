SPECIFICATION ReconSpec
CONSTANTS
  r1 = r1
  o1 = o1
  NoSession = NoSession
  Replicas = {r1}
  Operators = {o1}
  MaxIncomplete = 3
  CountCap = 3
  MaxPosts = 1
INVARIANTS NoFalseAlarm AnchorsAreProved
PROPERTIES MismatchHaltsBook
