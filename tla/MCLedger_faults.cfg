SPECIFICATION Spec
CONSTANTS
  n1 = n1
  n2 = n2
  i1 = i1
  i2 = i2
  a = a
  b = b
  Nodes = {n1, n2}
  Images = {i1, i2}
  Candidates = {a, b}
  Times = {1, 2}
  Verifies <- Stale
  Root = n1
  Peers <- Everyone
  NoJob = NoJob
  MaxCasts = 2
  MaxFaults = 1
SYMMETRY CandidateSymmetry
INVARIANTS
  TypeOK
  NoDoubleVote
  SeenMatchesChain
  ChainsLinked
  CacheCountsOnce
  NonGenesisVerified
PROPERTY BoxSpec
\* The bounded number of submissions comes to an end.
CHECK_DEADLOCK FALSE
