---------------------------- MODULE RequestAuth ----------------------------
(***************************************************************************)
(* How a request gets its principal: auth.Middleware tries a session token,*)
(* then an OAuth access token, then an API key, each of them checked by    *)
(* several reads (auth/middleware.go, ValidateAccessToken in               *)
(* identity/token_service.go, ValidateResourceToken in oauth/token.go,     *)
(* VerifyAPIKey in identity/apikey.go), while keys are rotated, API keys   *)
(* revoked, and the user locked out, signed out or deleted.                *)
(*                                                                         *)
(* Requests change nothing that other requests read, so there is one at a  *)
(* time, and a behaviour is about one credential: kind says which.  In the *)
(* behaviours of kind "roles" the roles change and what the principals may *)
(* do is compared.                                                         *)
(***************************************************************************)
EXTENDS RoleDirectory

CONSTANTS Kids,         \* key ids of the signing keyring
          MaxKeys,      \* bound on signing keys made
          MaxStamp,     \* bound on rotations of the security stamp
          MaxTime,      \* bound on the clock
          Lifetime      \* of a token or an API key

ASSUME AuthBounds == MaxKeys \in Nat \ {0} /\ MaxStamp \in Nat /\ MaxTime \in Nat /\ Lifetime \in Nat

VARIABLES
  kind,    \* "roles", or the credential this behaviour is about
  now,     \* the clock
  user,    \* the user's row
  ring,    \* ring[k]: the signing key under kid k, 0 when there is none
  active,  \* the kid that signs
  made,    \* signing keys made so far
  cred,    \* the credential in the client's hands
  record,  \* the row behind it: the grant or the API key
  req,     \* the request
  held,    \* history: conditions that held at some time since the request began
  always,  \* history: conditions that held all the time since
  verdict  \* history: what the last request was given

authVars == <<kind, now, user, ring, active, made, cred, record, req, held, always, verdict>>
vars == <<roleVars, authVars>>
historyVars == <<held, always, verdict>>

Kinds == {"session", "oauth", "apiKey"}
User == [live: BOOLEAN, ss: 0..MaxStamp, locked: BOOLEAN]

\* A JWT: the kid and the key that signed it, the stamp, and its expiry; of an
\* API key only the expiry matters.
Cred == [kid: Kids, key: 1..MaxKeys, ss: 0..MaxStamp, exp: 0..(MaxTime + Lifetime)]
NoCred == [kid |-> CHOOSE k \in Kids : TRUE, key |-> 1, ss |-> 0, exp |-> 0]
Record == {"none", "good", "revoked"}

Places == {"idle", "jwt", "jwtUser", "oauth", "oauthUser", "oauthGrant", "key", "keyUser"}
Request == [pc: Places, cookie: BOOLEAN]
NoRequest == [pc |-> "idle", cookie |-> FALSE]
Verdict == {"none", "anonymous", "session", "oauth", "apiKey"}

Init ==
  /\ RolesInit
  /\ kind \in Kinds \union {"roles"}
  /\ now = 0 /\ user = [live |-> TRUE, ss |-> 0, locked |-> FALSE]
  /\ active \in Kids /\ ring = [k \in Kids |-> IF k = active THEN 1 ELSE 0] /\ made = 1
  /\ cred = NoCred /\ record = "none"
  /\ req = NoRequest /\ held = {} /\ always = {} /\ verdict = "none"

-----------------------------------------------------------------------------
(* The conditions on a credential *)

\* time.After, and the validator of the JWT library.
Unexpired(t) == t < cred.exp

\* Keyfunc finds the key by its kid; the signature is that key's.
Keyfunc == ring[cred.kid] = cred.key

StampMatches == cred.ss = user.ss

\* IsLockedOut; session tokens are not checked for it.
LockedOut == user.locked

\* What must be true of the state for the credential to be good.
Conditions ==
  {x \in {"time", "signature", "user", "record"} :
     CASE x = "time" -> Unexpired(now)
       [] x = "signature" -> kind # "apiKey" => Keyfunc
       [] x = "user" -> /\ user.live
                        /\ kind # "apiKey" => StampMatches
                        /\ kind # "session" => ~LockedOut
       [] x = "record" -> kind # "session" => record = "good"}
AllConditions == {"time", "signature", "user", "record"}

\* The histories follow every step of a request.
Observe ==
  /\ held' = IF req'.pc = "idle" THEN {} ELSE held \union Conditions'
  /\ always' = IF req'.pc = "idle" THEN {}
               ELSE IF req.pc = "idle" THEN Conditions' ELSE always \intersect Conditions'

\* A verdict: "none" when it is as it should be.
Judge(v) ==
  IF v = "anonymous" THEN (IF always = AllConditions /\ (req.cookie => kind = "session")
                           THEN "anonymous" ELSE "none")
  ELSE IF held = AllConditions /\ v = kind /\ (req.cookie => kind = "session") THEN "none" ELSE v

-----------------------------------------------------------------------------
(* The user, the signing keys and the records *)

Quiet == UNCHANGED <<kind, req, verdict, roleVars>>

Tick ==
  /\ kind # "roles" /\ now < MaxTime
  /\ now' = now + 1
  /\ Quiet /\ UNCHANGED <<user, ring, active, made, cred, record>>

\* Mutant: the grants or keys of a deleted user stay.
RecordAfter_Keep(u) == record

\* Delete takes the user's grants and API keys along.
RecordAfter(u) == IF u.live THEN record ELSE "none"

\* UpdateSecurityStamp, lockout and its end, and Delete.
ChangeUser(u) ==
  /\ kind # "roles" /\ user.live
  /\ u # user /\ u.ss \in {user.ss, user.ss + 1}
  /\ ~u.live => u.ss = user.ss /\ u.locked = user.locked
  /\ user' = u
  /\ record' = RecordAfter(u)
  /\ Quiet /\ UNCHANGED <<now, ring, active, made, cred>>

\* RSAKeyring.Add and ECDSAKeyring.Add; the other keys stay.
AddKey(kid, makeActive) ==
  /\ kind \in {"session", "oauth"} /\ made < MaxKeys
  /\ made' = made + 1
  /\ ring' = [ring EXCEPT ![kid] = made']
  /\ active' = IF makeActive THEN kid ELSE active
  /\ Quiet /\ UNCHANGED <<now, user, cred, record>>

\* Remove; nothing keeps it from removing the active key.
RemoveKey(kid) ==
  /\ kind \in {"session", "oauth"} /\ ring[kid] # 0
  /\ ring' = [ring EXCEPT ![kid] = 0]
  /\ Quiet /\ UNCHANGED <<now, user, active, made, cred, record>>

\* signAccessToken, tokenResponse with its grant, CreateAPIKey and ImportAPIKey:
\* signing needs the active key, and the same API key is not stored twice; where
\* there are foreign keys a record needs its user.
Issue ==
  /\ kind # "roles" /\ req.pc = "idle"
  /\ IF kind = "apiKey" THEN record = "none" ELSE ring[active] # 0
  /\ user.live \/ (kind = "apiKey" /\ store \in {"mem", "gorm"})
  /\ cred' = [kid |-> active, key |-> IF ring[active] = 0 THEN 1 ELSE ring[active],
              ss |-> user.ss, exp |-> now + Lifetime]
  /\ record' = IF kind = "session" THEN "none" ELSE "good"
  /\ Quiet /\ UNCHANGED <<now, user, ring, active, made>>

\* RevokeAPIKey sets the time once; a grant is deleted.
Revoke ==
  /\ kind \in {"oauth", "apiKey"} /\ record = "good"
  /\ record' = IF kind = "apiKey" THEN "revoked" ELSE "none"
  /\ Quiet /\ UNCHANGED <<now, user, ring, active, made, cred>>

-----------------------------------------------------------------------------
(* The request *)

World == UNCHANGED <<kind, now, user, ring, active, made, cred, record, roleVars>>

\* bearerToken, else the cookie; the session service comes first.
Begin(cookie) ==
  /\ kind # "roles" /\ req.pc = "idle" /\ cred # NoCred
  /\ req' = [pc |-> "jwt", cookie |-> cookie] /\ verdict' = "none"
  /\ World

Go(pc) == req' = [req EXCEPT !.pc = pc] /\ verdict' = verdict
End(v) == req' = NoRequest /\ verdict' = Judge(v)

\* Mutant: what a cookie holds is tried as an OAuth token and an API key, too.
AfterSession_AnyCookie == Go("oauth")

\* What a cookie holds is tried as a session token only.
AfterSession == IF req.cookie THEN End("anonymous") ELSE Go("oauth")

\* The "typ" header tells the two kinds of JWT apart.
IsSession == kind = "session"
IsResourceToken == kind = "oauth"

\* ValidateAccessToken: signature and claims, then the user.
ParseSession ==
  /\ req.pc = "jwt"
  /\ IF kind # "apiKey" /\ Keyfunc /\ Unexpired(now) /\ IsSession THEN Go("jwtUser") ELSE AfterSession
  /\ World

SessionUser ==
  /\ req.pc = "jwtUser"
  /\ IF user.live /\ StampMatches THEN End("session") ELSE AfterSession
  /\ World

\* ValidateResourceToken: signature and claims, the user, the grant.
ParseResourceToken ==
  /\ req.pc = "oauth"
  /\ Go(IF kind # "apiKey" /\ Keyfunc /\ Unexpired(now) /\ IsResourceToken THEN "oauthUser" ELSE "key")
  /\ World

ResourceUser ==
  /\ req.pc = "oauthUser"
  /\ Go(IF user.live /\ StampMatches /\ ~LockedOut THEN "oauthGrant" ELSE "key")
  /\ World

ResourceGrant ==
  /\ req.pc = "oauthGrant"
  /\ IF record = "good" THEN End("oauth") ELSE Go("key")
  /\ World

\* GetActiveAPIKeyByHash, and what VerifyAPIKey checks again on the row it got.
ActiveKey == record = "good" /\ Unexpired(now)
StillActive(row) == row # "revoked" /\ Unexpired(now)

LookUpKey ==
  /\ req.pc = "key"
  /\ IF kind = "apiKey" /\ ActiveKey /\ StillActive(record) THEN Go("keyUser") ELSE End("anonymous")
  /\ World

\* The owner; then TouchAPIKeyLastUsed, whose failure is logged.
KeyUser ==
  /\ req.pc = "keyUser"
  /\ End(IF user.live /\ ~LockedOut THEN "apiKey" ELSE "anonymous")
  /\ World

\* A store call fails; the request goes on as if the credential were bad, and
\* ends anonymous.
StoreFails ==
  /\ req.pc # "idle"
  /\ req' = NoRequest /\ verdict' = "none"
  /\ World

-----------------------------------------------------------------------------
AuthNext ==
  \/ Tick
  \/ \E u \in User : ChangeUser(u)
  \/ \E k \in Kids : RemoveKey(k) \/ \E a \in BOOLEAN : AddKey(k, a)
  \/ Issue \/ Revoke
  \/ \E b \in BOOLEAN : Begin(b)
  \/ ParseSession \/ SessionUser
  \/ ParseResourceToken \/ ResourceUser \/ ResourceGrant
  \/ LookUpKey \/ KeyUser
  \/ StoreFails

Next ==
  \/ AuthNext /\ Observe
  \/ kind = "roles" /\ RolesNext /\ UNCHANGED authVars

Spec == Init /\ [][Next]_vars

-----------------------------------------------------------------------------
(* Properties *)

\* The tables, calls and histories are what their declarations say, and a
\* record that outlives its user exists only where there are no foreign keys.
TypeOK ==
  /\ store \in Stores /\ kind \in Kinds \union {"roles"}
  /\ roleName \in [RoleIds -> RoleNames \union {NoName}] /\ drawnRoles \in 0..MaxRoles
  /\ userRoles \subseteq RoleIds /\ roleClaim \subseteq RoleNames /\ admin \in [Calls -> Admin]
  /\ twins \subseteq RoleNames /\ stayed \in BOOLEAN
  /\ now \in 0..MaxTime /\ user \in User
  /\ ring \in [Kids -> 0..MaxKeys] /\ active \in Kids /\ made \in 1..MaxKeys
  /\ cred \in Cred /\ record \in Record /\ req \in Request
  /\ held \subseteq AllConditions /\ always \subseteq held /\ verdict \in Verdict
  /\ record # "none" /\ ~user.live => store \in {"mem", "gorm"}

\* A request is given a principal only through the mechanism its credential is
\* for, by a cookie only a session, and only when each condition on the
\* credential held at some time since the request began: one that was revoked,
\* expired or whose user was deleted, locked out or signed out before never
\* works.  And it is refused only when some condition failed meanwhile.
CredentialsDecide == verdict = "none"

\* An API key acts for its owner "exactly like a JWT" (auth/middleware.go:150):
\* whatever principal authenticateAPIKey makes, a token of the same user, signed
\* at the same time, opens the same RequireRole and RequireClaim("role") doors.
KeysActLikeTokens ==
  \A k \in KeyPrincipals : \E t \in TokenPrincipals : \A n \in RoleNames :
    /\ HasRole(k, n) = HasRole(t, n)
    /\ RequireClaim(k, n) = RequireClaim(t, n)

\* Once RemoveFromRole has returned, the user holds no role of that name,
\* whatever other calls do meanwhile: unless the role that GORM or sqlc resolved
\* the name to has lost it before the membership was deleted, or two calls gave
\* two roles the name at once in the in-memory store, which then takes either.
RemovalTakesEffect == ~stayed
=============================================================================
