SPECIFICATION Spec
CONSTANTS
  Voter = {v1, v2}
  Address = {a1, a2}
  Registered = a1
  Pass = {p1, p2}
  Client = {c1}
  Batch = 2
  MaxResends = 1
  MaxLoad = 6
  MaxCrashes = 1
SYMMETRY Interchangeable
INVARIANTS TypeOK TruthfulWhenAlone ResendsBounded TurnoutCounted
PROPERTY RegisterSpec
\* Requests are bounded, so the model comes to rest.
CHECK_DEADLOCK FALSE
