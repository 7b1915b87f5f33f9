SPECIFICATION Spec
CONSTANTS
  n1 = n1
  n2 = n2
  i1 = i1
  i2 = i2
  a = a
  b = b
  Nodes = {n1, n2}
  Images = {i1, i2}
  Candidates = {a}
  Times = {1, 2}
  Verifies <- AllVerify
  Root = n1
  Peers <- Everyone
  NoJob = NoJob
  MaxCasts = 2
  MaxFaults = 0
INVARIANT IdleMeansDrained
CHECK_DEADLOCK FALSE
