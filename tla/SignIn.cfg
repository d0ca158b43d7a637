SPECIFICATION FairSpec
CONSTANTS
  Calls = {c1, c2}
  MaxPasswords = 2
  MaxStamp = 2
  MaxFailed = 2
  LockoutDuration = 2
  LockoutEnabled = TRUE
INVARIANTS TypeOK SignedInWithCurrentCredentials ResetLinkWorksOnce
PROPERTIES CredentialsNeverRevert LockoutRunsItsTime LockoutEnds
CHECK_DEADLOCK FALSE
