SPECIFICATION Spec
CONSTANTS
  Calls = {c1, c2}
  Users = {u1}
  MaxSids = 3
  MaxSecrets = 3
  MaxStamp = 1
  MaxTime = 2
  RefreshTTL = 1
  MaxSessions = 1
  NoUser = NoUser
SYMMETRY Symmetry
INVARIANT SignOutEverywhere
CHECK_DEADLOCK FALSE
