SPECIFICATION Spec
CONSTANTS
  Requests = {r1, r2}
  Users = {u1}
  Clients = {a, b}
  Scopes = {read, offline}
  Approvals <- ScopeSets
  Codes = {c1}
  MaxGrants = 2
  MaxSecrets = 3
  MaxStamp = 2
  MaxTime = 2
  CodeTTL = 1
  AccessTTL = 1
  RefreshTTL = 1
  ReuseGrace = 0
  RefreshClients = {a, b}
  RequireOfflineAccess = TRUE
  OfflineAccess = offline
  NoCode = NoCode
  NoClient = NoClient
  NoUser = NoUser
  u1 = u1
  c1 = c1
  a = a
  b = b
  read = read
  offline = offline
  r1 = r1
  r2 = r2
SYMMETRY Symmetry
INVARIANTS TypeOK OneGrantPerCode NoFork TokenProvenance NoServiceAfterRevocation
PROPERTIES RevocationPermanent LifetimeSlidesForward LifecycleSpec
CHECK_DEADLOCK FALSE
