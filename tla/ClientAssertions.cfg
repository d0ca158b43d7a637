SPECIFICATION Spec
CONSTANTS
  Requests = {r1, r2}
  Keys = {k1, k2}
  Jtis = {j1}
  MaxTime = 2
  MaxAges = {0, 3}
  MinTTL = 1
  MaxTTL = 2
  MinRefresh = 1
  Leeway = 1
  MaxLifetime = 1
  NoJti = NoJti
  NoKey = NoKey
SYMMETRY Symmetry
INVARIANTS TypeOK WithdrawnKeysDie NewKeysAreFound
PROPERTY ReplayOnlyAfterExpiry
CHECK_DEADLOCK FALSE
