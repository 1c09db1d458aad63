SPECIFICATION Spec
CONSTANTS
  Browsers = {b1, b2}
  Users = {u1, u2}
  Names = {x, y, z}
  Callbacks = {g1, g2}
  FlowDuration = 1
  CleanupEvery = 1
  SessionLife = 1
  MaxLogins = 2
  MaxTime = 3
SYMMETRY Symmetry
INVARIANTS LoginInv SessionOfLogin StatesExpire
PROPERTIES PendingSurvives RefusedByStaleName
