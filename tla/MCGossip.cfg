SPECIFICATION CastSpec
CONSTANTS
  n1 = n1
  n2 = n2
  n3 = n3
  i1 = i1
  i2 = i2
  a = a
  Nodes = {n1, n2, n3}
  Images = {i1, i2}
  Candidates = {a}
  Times = {1, 2}
  Verifies <- AllVerify
  Root = n1
  Peers <- Line
  NoJob = NoJob
  MaxCasts = 2
  MaxFaults = 0
VIEW WithoutTally
INVARIANT AgreeAtRest
\* Both ballots were cast.
CHECK_DEADLOCK FALSE
