SPECIFICATION PortalSpec
CONSTANTS
  Registration = {r1, r2}
  Replacement = {q1}
  NationalId = {n1, n2}
  Key = {k1, k2}
  Spelling = {"ada@x", "Ada@x", "bob@x"}
  Lower <- MCLower
  Desk = {d1, d2}
  MaxTasks = 4
  Operator = {"ann", "ben"}
  First = "ann"
  Browser = {"browser1", "browser2"}
  Tab = {"t1", "t2", "t3"}
  Home <- MCHome
  Request = {"req1", "req2"}
  MaxRequests = 3
  View = {"v1", "v2"}
  Listed <- MCListed
  MaxLoads = 2
  MaxOpenings = 2
  MaxChanges = 1
  Citizen = {"cleo", "dan"}
  Wizard = {"w1", "w2"}
  MaxKeys = 2
  MaxVisits = 3
  Signer = {"k1", "k2"}
  Choice = {"x", "y"}
  Booth = {"b1", "b2"}
  Keys <- MCKeys
  MaxCasts = 2
  Person = {"ann", "ben"}
  Screen <- MCScreen
  MaxEntries = 3
  Offset = 8
  Cap = 4
  Chosen = {4}
  Orders <- MCOrders
  Order = 5
  Secret = {1, 2, 4}
  Poll = {"p", "q"}
  Candidate = {"x", "y"}
  Group <- MCGroup
  Draws = {3}
  Answers = {0, 2}
  MaxSigned = 2
  Clock <- MCClock
  MinSize = 3
  Sizes = {0, 4}
  Electorates = {3, 6}
  MaxInputs = 2
  Subject = {"p", "q"}
  All = "all"
  Inspected = {"all", "p"}
  EntriesAdded = {1, 2}
  PAGE_SIZE = 1
  MaxMoments = 3
  MaxTurns = 4
INVARIANT SomeoneRuns
\* Requests are bounded, so the model comes to rest.
CHECK_DEADLOCK FALSE
