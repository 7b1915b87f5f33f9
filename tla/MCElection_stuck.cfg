SPECIFICATION Spec
CONSTANTS
  v1 = v1
  v2 = v2
  v3 = v3
  v4 = v4
  c1 = c1
  c2 = c2
  boss = boss
  deputy = deputy
  clerk = clerk
  Voters = {v1, v2, v3, v4}
  Vetted = {v1, v2, v3}
  Elsewhere = {v3}
  Candidates = {c1, c2}
  Admins = {boss}
  SuperAdmins = {boss}
  RingSizes = {2, 3}
  DefaultSize = 2
  RING_MIN_SIZE = 2
  NoCall = NoCall
  NoRef = NoRef
  MaxFormations = 2
  MaxRotations = 1
INVARIANT FrozenCanForm
