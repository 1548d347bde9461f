SPECIFICATION FairSpec
CONSTANTS
  a = a
  b = b
  c = c
  i1 = i1
  i2 = i2
  Procs = {a, b, c}
  Pid <- MCPids
  Inputs = {i1, i2}
  MaxFaults = 1
INVARIANTS OneWriter NextOpenFindsLog
PROPERTIES KeepsPromise AloneIsAdmitted
CHECK_DEADLOCK FALSE
