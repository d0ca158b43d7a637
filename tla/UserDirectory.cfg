SPECIFICATION Spec
CONSTANTS
  Stores = {"mem", "gorm", "pgx"}
  MaxUsers = 2
  Names = {n1}
  Guest = Guest
  Emails = {e1}
  NoEmail = NoEmail
  Logins = {l1}
  Tables = {"refreshTokens"}
  MaxOwned = 1
  Calls = {c1, c2}
  RequireUniqueEmail = TRUE
  MaxTime = 1
SYMMETRY Symmetry
INVARIANTS TypeOK IdentifiersAreUnique DeletedLeavesNothing PurgeSparesSettledAccounts
CHECK_DEADLOCK FALSE
