SPECIFICATION SidesSpec
CONSTANTS
  Ids = {c1}
  Ips = {ip1}
  Requests = {r1, r2}
  Submissions <- MCSubmissions
  Asked <- MCAsked
  Ports = {1, 2}
  Paths = {"/cb", "/x"}
  Limit = 2
  Window = 1
  MaxTime = 2
  Stores = {"mem", "gorm", "pgx"}
  NoId = NoId
  NoURI = NoURI
  ConsentRequests = {s1, s2}
  Users = {u1}
  Clients = {k1}
  Scopes = {a, b}
  AskedScopes <- AnyScopes
  MaxCodes = 2
  NoUser = NoUser
  NoClientId = NoClientId
SYMMETRY Symmetry
INVARIANTS
  TypeOK
  RegistrationRate
  GrantsAreAccountedFor
  ConsentTypeOK
  DisconnectForgets
PROPERTY CodesFollowApprovals
CHECK_DEADLOCK FALSE
