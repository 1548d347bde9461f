SPECIFICATION ReconFairSpec
CONSTANTS
  r1 = r1
  o1 = o1
  NoSession = NoSession
  Replicas = {r1}
  Operators = {}
  MaxIncomplete = 2
  CountCap = 2
  MaxPosts = 0
PROPERTY CorruptionHalts
