SPECIFICATION Spec
CONSTANTS
  Stores = {"mem", "gorm", "pgx", "sqlc"}
  MaxRoles = 2
  RoleNames = {m1, m2}
  NoName = NoName
  Calls = {c1, c2}
  Kids = {k1, k2}
  MaxKeys = 3
  MaxStamp = 1
  MaxTime = 3
  Lifetime = 2
SYMMETRY Symmetry
INVARIANTS TypeOK CredentialsDecide RemovalTakesEffect
CHECK_DEADLOCK FALSE
