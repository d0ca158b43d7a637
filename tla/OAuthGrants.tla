----------------------------- MODULE OAuthGrants -----------------------------
(***************************************************************************)
(* The token side of the embedded authorization server (oauth/token.go,    *)
(* oauth/server.go) over the atomic operations of its store                *)
(* (stores/memstore/oauth.go).                                             *)
(*                                                                         *)
(* Every HTTP request runs on its own goroutine and holds no lock between  *)
(* two store calls, so a request is a process whose steps are its store    *)
(* calls: what it read stays in its locals and may be stale when it is     *)
(* used.  A rejected request that changed nothing is no step.  A request   *)
(* may also end at any point: a store error, a cancelled context, a crash. *)
(*                                                                         *)
(* Secrets, codes and ids are random and never repeat: a grant id is the   *)
(* next number, and the secrets of a grant are numbered in the order they  *)
(* are stored (0 is the empty hash).  A security stamp is the number of    *)
(* times the user's stamp has been rotated.                                *)
(***************************************************************************)
EXTENDS Integers

CONSTANTS Requests,     \* concurrent requests (goroutines)
          Users, Clients, Scopes,
          Approvals,    \* the sets of scopes that users approve
          Codes,        \* authorization codes
          MaxGrants,    \* bound on the grant ids drawn
          MaxSecrets,   \* bound on the secrets stored per grant
          MaxStamp,     \* bound on stamp rotations per user
          MaxTime,      \* bound on the clock
          CodeTTL, AccessTTL, RefreshTTL, ReuseGrace,
          RefreshClients,        \* clients registered for the refresh_token grant
          RequireOfflineAccess,  \* Options.RequireOfflineAccess
          OfflineAccess,         \* the offline_access scope
          NoCode, NoClient, NoUser

ASSUME BoundsAssumption ==
  /\ MaxGrants \in Nat /\ MaxSecrets \in Nat /\ MaxStamp \in Nat /\ MaxTime \in Nat
  /\ CodeTTL \in Nat /\ AccessTTL \in Nat /\ RefreshTTL \in Nat /\ ReuseGrace \in Nat

ASSUME NullAssumption ==
  /\ NoCode \notin Codes /\ NoClient \notin Clients /\ NoUser \notin Users
  /\ RequireOfflineAccess \in BOOLEAN
  /\ Approvals \subseteq SUBSET Scopes

VARIABLES
  now,        \* Options.Now
  exists,     \* exists[u]: the users table holds u
  locked,     \* locked[u]: UserManager.IsLockedOut
  stamp,      \* stamp[u]: User.SecurityStamp
  codes,      \* identity_oauth_codes
  grants,     \* identity_oauth_grants
  req,        \* req[r]: where request r is, and what it remembers
  tokens,     \* access tokens that were handed out
  held,       \* refresh tokens <<gid, secret>> that were handed out
  nextGid,    \* grant ids drawn so far
  minted,     \* minted[g]: secrets stored for g so far
  origin,     \* history: the code each grant was created from
  rotations,  \* history: which secret was traded for which
  replayed    \* history: grants a replayed code has asked to delete

userVars == <<exists, locked, stamp>>
historyVars == <<origin, rotations, replayed>>
vars == <<now, exists, locked, stamp, codes, grants, req, tokens, held,
          nextGid, minted, origin, rotations, replayed>>

GrantIds == 1..MaxGrants
Secrets  == 0..MaxSecrets

\* A row of the codes table; unborn and purged codes have no row.
Code == [st: {"unborn", "valid", "used", "purged"}, user: Users \union {NoUser},
         client: Clients \union {NoClient}, scopes: SUBSET Scopes,
         exp: Nat, gid: 0..MaxGrants]
NoCodeRow == [st |-> "unborn", user |-> NoUser, client |-> NoClient,
              scopes |-> {}, exp |-> 0, gid |-> 0]

\* A row of the grants table.  used (LastUsedAt) is set by the first rotation.
Grant == [live: BOOLEAN, user: Users \union {NoUser}, client: Clients \union {NoClient},
          scopes: SUBSET Scopes, stamp: Nat, hash: Secrets, prev: Secrets,
          exp: Nat, used: Nat]
NoGrant == [live |-> FALSE, user |-> NoUser, client |-> NoClient, scopes |-> {},
            stamp |-> 0, hash |-> 0, prev |-> 0, exp |-> 0, used |-> 0]

AccessToken == [gid: GrantIds, user: Users, holder: Clients, stamp: Nat,
                scopes: SUBSET Scopes, exp: Nat]

\* The steps of exchangeCode, refreshGrant, ValidateResourceToken and of every
\* handler that ends in DeleteGrant.
PCs == {"idle",
        "codeUser", "codeMark", "codeLost", "codeCreate",
        "refreshUser", "refreshRotate",
        "respond", "delete", "replay",
        "tokenGrant", "accepted"}

\* dead is history: when the request began, was what it presents revoked?
Request == [pc: PCs, code: Codes \union {NoCode}, client: Clients \union {NoClient},
            user: Users \union {NoUser}, gid: 0..MaxGrants, at: Nat, stamp: Nat,
            hash: Secrets, scopes: SUBSET Scopes, dead: BOOLEAN]
Idle == [pc |-> "idle", code |-> NoCode, client |-> NoClient, user |-> NoUser,
         gid |-> 0, at |-> 0, stamp |-> 0, hash |-> 0, scopes |-> {}, dead |-> FALSE]

-----------------------------------------------------------------------------
(* Predicates the handlers test *)

CodeRowExists(c) == codes[c].st \in {"valid", "used"}
UserAvailable(u) == exists[u] /\ ~locked[u]

issuesRefresh(cl, sc) ==
  /\ cl \in RefreshClients
  /\ RequireOfflineAccess => OfflineAccess \in sc

\* An access token that ValidateResourceToken must refuse from now on.
TokenRevoked(t) ==
  ~exists[t.user] \/ stamp[t.user] # t.stamp \/ ~grants[t.gid].live

-----------------------------------------------------------------------------
Init ==
  /\ now = 0
  /\ exists = [u \in Users |-> TRUE]
  /\ locked = [u \in Users |-> FALSE]
  /\ stamp = [u \in Users |-> 0]
  /\ codes = [c \in Codes |-> NoCodeRow]
  /\ grants = [g \in GrantIds |-> NoGrant]
  /\ req = [r \in Requests |-> Idle]
  /\ tokens = {}
  /\ held = {}
  /\ nextGid = 0
  /\ minted = [g \in GrantIds |-> 0]
  /\ origin = [g \in GrantIds |-> NoCode]
  /\ rotations = {}
  /\ replayed = {}

-----------------------------------------------------------------------------
(* The surroundings: time, the authorize endpoint, the user's account *)

Tick ==
  /\ now < MaxTime
  /\ now' = now + 1
  /\ UNCHANGED <<exists, locked, stamp, codes, grants, req, tokens, held,
                 nextGid, minted, origin, rotations, replayed>>

\* issueCode at the end of AuthorizeHandler, which found the user available
\* some store calls ago: meanwhile the account may be locked or gone.
issueCode(c, u, cl, sc) ==
  /\ codes[c].st = "unborn"
  /\ codes' = [codes EXCEPT ![c] = [st |-> "valid", user |-> u, client |-> cl,
                                    scopes |-> sc, exp |-> now + CodeTTL, gid |-> 0]]
  /\ UNCHANGED <<now, exists, locked, stamp, grants, req, tokens, held,
                 nextGid, minted, origin, rotations, replayed>>

\* Mutant: stamps are drawn from two values only.
NewStamp_Reused(u) == IF stamp[u] = 0 THEN 1 ELSE 0

\* newStamp: a value no user ever had.
NewStamp(u) == stamp[u] + 1

\* Any UserManager operation that rotates the stamp (ChangePassword,
\* UpdateSecurityStamp, SetEmail, ...).
RotateStamp(u) ==
  /\ exists[u]
  /\ stamp[u] < MaxStamp
  /\ stamp' = [stamp EXCEPT ![u] = NewStamp(u)]
  /\ UNCHANGED <<now, exists, locked, codes, grants, req, tokens, held,
                 nextGid, minted, origin, rotations, replayed>>

\* A lockout begins, by AccessFailed or by an administrator, or runs out.
ToggleLockout(u) ==
  /\ exists[u]
  /\ locked' = [locked EXCEPT ![u] = ~@]
  /\ UNCHANGED <<now, exists, stamp, codes, grants, req, tokens, held,
                 nextGid, minted, origin, rotations, replayed>>

\* Store.Delete: the user's codes and grants go with the user.
DeleteUser(u) ==
  /\ exists[u]
  /\ exists' = [exists EXCEPT ![u] = FALSE]
  /\ codes' = [c \in Codes |-> IF CodeRowExists(c) /\ codes[c].user = u
                                THEN [codes[c] EXCEPT !.st = "purged"] ELSE codes[c]]
  /\ grants' = [g \in GrantIds |-> IF grants[g].user = u THEN NoGrant ELSE grants[g]]
  /\ UNCHANGED <<now, locked, stamp, req, tokens, held,
                 nextGid, minted, origin, rotations, replayed>>

-----------------------------------------------------------------------------
(* exchangeCode *)

\* GetCode and the checks against the row.  The UsedAt check comes first: a
\* used code revokes whatever it opened, whoever presents it.
ExchangeGetCode(r, c, cl) ==
  /\ req[r].pc = "idle"
  /\ \/ /\ codes[c].st = "used"
        /\ req' = [req EXCEPT ![r] = [Idle EXCEPT !.pc = "replay", !.code = c,
                                                  !.gid = codes[c].gid]]
     \/ /\ codes[c].st = "valid"
        /\ now <= codes[c].exp
        /\ codes[c].client = cl
        /\ req' = [req EXCEPT ![r] = [Idle EXCEPT !.pc = "codeUser", !.code = c,
                     !.client = cl, !.user = codes[c].user, !.scopes = codes[c].scopes,
                     !.at = now, !.dead = ~exists[codes[c].user]]]
  /\ UNCHANGED <<now, exists, locked, stamp, codes, grants, tokens, held,
                 nextGid, minted, origin, rotations, replayed>>

\* FindByID and IsLockedOut; the user's stamp is remembered.
ExchangeFindUser(r) ==
  /\ req[r].pc = "codeUser"
  /\ LET u == req[r].user IN
     req' = [req EXCEPT ![r] = IF UserAvailable(u)
               THEN [@ EXCEPT !.pc = "codeMark", !.stamp = stamp[u]]
               ELSE Idle]
  /\ UNCHANGED <<now, exists, locked, stamp, codes, grants, tokens, held,
                 nextGid, minted, origin, rotations, replayed>>

\* Mutant: the update no longer asks that the code be unused.
MarkCodeUsedWins_NoGuard(c) == CodeRowExists(c)

\* UPDATE ... SET used_at WHERE used_at IS NULL: one request wins.
MarkCodeUsedWins(c) == codes[c].st = "valid"

\* Mutant: the update sets used_at only.
MarkedUsed_NoGrantID(row, g) == [row EXCEPT !.st = "used"]

\* ... SET used_at, grant_id: a replay finds the grant to delete by the code.
MarkedUsed(row, g) == [row EXCEPT !.st = "used", !.gid = g]

MarkCodeUsed(r) ==
  /\ req[r].pc = "codeMark"
  /\ LET c == req[r].code IN
     \/ /\ MarkCodeUsedWins(c)
        /\ nextGid < MaxGrants
        /\ nextGid' = nextGid + 1
        /\ codes' = [codes EXCEPT ![c] = MarkedUsed(@, nextGid + 1)]
        /\ req' = [req EXCEPT ![r] = [@ EXCEPT !.pc = "codeCreate", !.gid = nextGid + 1]]
     \/ /\ ~MarkCodeUsedWins(c)
        /\ req' = [req EXCEPT ![r].pc = "codeLost"]
        /\ UNCHANGED <<codes, nextGid>>
  /\ UNCHANGED <<now, exists, locked, stamp, grants, tokens, held, minted,
                 origin, rotations, replayed>>

\* Lost a concurrent redemption: read the winner's grant id and delete it.
ExchangeLost(r) ==
  /\ req[r].pc = "codeLost"
  /\ LET c == req[r].code IN
     req' = [req EXCEPT ![r] = IF CodeRowExists(c)
               THEN [Idle EXCEPT !.pc = "replay", !.code = c, !.gid = codes[c].gid]
               ELSE Idle]
  /\ UNCHANGED <<now, exists, locked, stamp, codes, grants, tokens, held,
                 nextGid, minted, origin, rotations, replayed>>

CreateGrant(r) ==
  /\ req[r].pc = "codeCreate"
  /\ LET q == req[r]
         first == IF issuesRefresh(q.client, q.scopes) THEN 1 ELSE 0
     IN /\ first <= MaxSecrets
        /\ grants' = [grants EXCEPT ![q.gid] =
             [live |-> TRUE, user |-> q.user, client |-> q.client, scopes |-> q.scopes,
              stamp |-> q.stamp, hash |-> first, prev |-> 0,
              exp |-> q.at + RefreshTTL, used |-> 0]]
        /\ minted' = [minted EXCEPT ![q.gid] = first]
        /\ origin' = [origin EXCEPT ![q.gid] = q.code]
        /\ req' = [req EXCEPT ![r].pc = "respond", ![r].hash = first]
  /\ UNCHANGED <<now, exists, locked, stamp, codes, tokens, held, nextGid,
                 rotations, replayed>>

-----------------------------------------------------------------------------
(* refreshGrant *)

\* RefreshReuseGrace: 0 is strict detection.
inGrace(g) == ReuseGrace > 0 /\ now - grants[g].used <= ReuseGrace

\* Mutant: the client_id comparison is missing.
RefreshClientMatches_Any(g, cl) == TRUE

\* The refresh token must be the authenticated client's own.
RefreshClientMatches(g, cl) == grants[g].client = cl

\* GetGrant and the checks against the row: the current secret goes on, the
\* previous one or an expired grant ends in DeleteGrant.
RefreshGetGrant(r, g, s, cl) ==
  /\ req[r].pc = "idle"
  /\ <<g, s>> \in held
  /\ cl \in RefreshClients
  /\ grants[g].live
  /\ RefreshClientMatches(g, cl)
  /\ \/ /\ s = grants[g].hash
        /\ now <= grants[g].exp
        /\ req' = [req EXCEPT ![r] = [Idle EXCEPT !.pc = "refreshUser", !.client = cl,
                     !.gid = g, !.user = grants[g].user, !.stamp = grants[g].stamp,
                     !.hash = s, !.scopes = grants[g].scopes, !.at = now,
                     !.dead = \/ ~exists[grants[g].user]
                              \/ stamp[grants[g].user] # grants[g].stamp]]
     \/ /\ \/ s = grants[g].hash /\ now > grants[g].exp
           \/ s # grants[g].hash /\ s = grants[g].prev /\ ~inGrace(g)
        /\ req' = [req EXCEPT ![r] = [Idle EXCEPT !.pc = "delete", !.gid = g]]
  /\ UNCHANGED <<now, exists, locked, stamp, codes, grants, tokens, held,
                 nextGid, minted, origin, rotations, replayed>>

\* The grant's stamp against the user's: a mismatch means a password change
\* or sign-out-everywhere since the user approved the client.
StampMatches(u, st) == stamp[u] = st

\* The scopes a refresh may ask for: none (all of the grant's) or a subset.
Narrowed(sc) == {sc} \union {w \in SUBSET sc : w # {}}

\* FindByID, the lockout and stamp checks, and the scope narrowing.
RefreshFindUser(r) ==
  /\ req[r].pc = "refreshUser"
  /\ LET q == req[r] IN
     \/ /\ ~UserAvailable(q.user)
        /\ req' = [req EXCEPT ![r] = Idle]
     \/ /\ UserAvailable(q.user) /\ ~StampMatches(q.user, q.stamp)
        /\ req' = [req EXCEPT ![r] = [Idle EXCEPT !.pc = "delete", !.gid = q.gid]]
     \/ /\ UserAvailable(q.user) /\ StampMatches(q.user, q.stamp)
        /\ \E want \in Narrowed(q.scopes) :
             req' = [req EXCEPT ![r].pc = "refreshRotate", ![r].scopes = want,
                                ![r].stamp = stamp[q.user]]
  /\ UNCHANGED <<now, exists, locked, stamp, codes, grants, tokens, held,
                 nextGid, minted, origin, rotations, replayed>>

\* Mutant: the update names only the id.
RotateGrantWins_NoCompare(g, old) == grants[g].live

\* UPDATE ... SET token_hash WHERE id AND token_hash = old.
RotateGrantWins(g, old) == grants[g].live /\ grants[g].hash = old

RotateGrant(r) ==
  /\ req[r].pc = "refreshRotate"
  /\ LET q == req[r]
         g == q.gid
         new == minted[g] + 1
     IN \/ /\ RotateGrantWins(g, q.hash)
           /\ new <= MaxSecrets
           /\ minted' = [minted EXCEPT ![g] = new]
           /\ grants' = [grants EXCEPT ![g] = [@ EXCEPT !.prev = q.hash, !.hash = new,
                           !.exp = q.at + RefreshTTL, !.used = q.at]]
           /\ rotations' = rotations \union {[gid |-> g, old |-> q.hash, new |-> new]}
           /\ req' = [req EXCEPT ![r].pc = "respond", ![r].hash = new]
        \/ /\ ~RotateGrantWins(g, q.hash)
           /\ req' = [req EXCEPT ![r] = Idle]
           /\ UNCHANGED <<minted, grants, rotations>>
  /\ UNCHANGED <<now, exists, locked, stamp, codes, tokens, held, nextGid,
                 origin, replayed>>

-----------------------------------------------------------------------------
(* What both grant types end in, and what every revocation ends in *)

\* tokenResponse: sign the access token, hand both tokens out.
tokenResponse(r) ==
  /\ req[r].pc = "respond"
  /\ LET q == req[r] IN
     /\ tokens' = tokens \union {[gid |-> q.gid, user |-> q.user, holder |-> q.client,
                      stamp |-> q.stamp, scopes |-> q.scopes, exp |-> now + AccessTTL]}
     /\ held' = held \union (IF q.hash = 0 THEN {} ELSE {<<q.gid, q.hash>>})
  /\ req' = [req EXCEPT ![r] = Idle]
  /\ UNCHANGED <<now, exists, locked, stamp, codes, grants, nextGid, minted,
                 origin, rotations, replayed>>

\* DeleteGrant; deleting a row that does not exist is no error.
DeleteGrant(r) ==
  /\ req[r].pc \in {"delete", "replay"}
  /\ LET g == req[r].gid IN
     /\ grants' = [grants EXCEPT ![g] = NoGrant]
     /\ replayed' = IF req[r].pc = "replay" THEN replayed \union {g} ELSE replayed
  /\ req' = [req EXCEPT ![r] = Idle]
  /\ UNCHANGED <<now, exists, locked, stamp, codes, tokens, held, nextGid,
                 minted, origin, rotations>>

\* RevokeHandler with a refresh token: grantIDOf knows the current secret and
\* the previous one.
RevokeRefreshToken(r, g, s, cl) ==
  /\ req[r].pc = "idle"
  /\ <<g, s>> \in held
  /\ grants[g].live /\ grants[g].client = cl
  /\ s \in {grants[g].hash, grants[g].prev}
  /\ req' = [req EXCEPT ![r] = [Idle EXCEPT !.pc = "delete", !.gid = g]]
  /\ UNCHANGED <<now, exists, locked, stamp, codes, grants, tokens, held,
                 nextGid, minted, origin, rotations, replayed>>

\* RevokeHandler with an access token that still parses.
RevokeAccessToken(r, t, cl) ==
  /\ req[r].pc = "idle"
  /\ t \in tokens
  /\ now < t.exp
  /\ grants[t.gid].live /\ grants[t.gid].client = cl
  /\ req' = [req EXCEPT ![r] = [Idle EXCEPT !.pc = "delete", !.gid = t.gid]]
  /\ UNCHANGED <<now, exists, locked, stamp, codes, grants, tokens, held,
                 nextGid, minted, origin, rotations, replayed>>

\* A request ends early: a store call failed, the client went away, or the
\* process died.  What it stored stays stored.
Abandon(r) ==
  /\ req[r].pc # "idle"
  /\ req' = [req EXCEPT ![r] = Idle]
  /\ UNCHANGED <<now, exists, locked, stamp, codes, grants, tokens, held,
                 nextGid, minted, origin, rotations, replayed>>

-----------------------------------------------------------------------------
(* ValidateResourceToken *)

\* Parse the JWT, then FindByID with the stamp and lockout checks.
ValidateFindUser(r, t) ==
  /\ req[r].pc = "idle"
  /\ t \in tokens
  /\ now < t.exp
  /\ UserAvailable(t.user)
  /\ stamp[t.user] = t.stamp
  /\ req' = [req EXCEPT ![r] = [Idle EXCEPT !.pc = "tokenGrant", !.gid = t.gid,
               !.user = t.user, !.stamp = t.stamp, !.dead = TokenRevoked(t)]]
  /\ UNCHANGED <<now, exists, locked, stamp, codes, grants, tokens, held,
                 nextGid, minted, origin, rotations, replayed>>

\* Mutant: the JWT's own claims are enough.
GrantStands_Skipped(g, u) == TRUE

\* Does the grant named by the token still exist, for the same user?
GrantStands(g, u) == grants[g].live /\ grants[g].user = u

ValidateGetGrant(r) ==
  /\ req[r].pc = "tokenGrant"
  /\ req' = [req EXCEPT ![r] = IF GrantStands(req[r].gid, req[r].user)
               THEN [@ EXCEPT !.pc = "accepted"] ELSE Idle]
  /\ UNCHANGED <<now, exists, locked, stamp, codes, grants, tokens, held,
                 nextGid, minted, origin, rotations, replayed>>

\* The resource server goes on with the request it let in.
Serve(r) ==
  /\ req[r].pc = "accepted"
  /\ req' = [req EXCEPT ![r] = Idle]
  /\ UNCHANGED <<now, exists, locked, stamp, codes, grants, tokens, held,
                 nextGid, minted, origin, rotations, replayed>>

-----------------------------------------------------------------------------
(* Connected apps and garbage collection (server.go) *)

\* RevokeGrant: the owner of a grant ends it.  UserID never changes, so the
\* check and the deletion are one step.
RevokeGrant(u, g) ==
  /\ grants[g].live
  /\ grants[g].user = u
  /\ grants' = [grants EXCEPT ![g] = NoGrant]
  /\ UNCHANGED <<now, exists, locked, stamp, codes, req, tokens, held,
                 nextGid, minted, origin, rotations, replayed>>

\* The first half of RevokeClient; the consent is not this module's.
DeleteUserClientGrants(u, cl) ==
  /\ \E g \in GrantIds : grants[g].live /\ grants[g].user = u /\ grants[g].client = cl
  /\ grants' = [g \in GrantIds |-> IF grants[g].user = u /\ grants[g].client = cl
                                    THEN NoGrant ELSE grants[g]]
  /\ UNCHANGED <<now, exists, locked, stamp, codes, req, tokens, held,
                 nextGid, minted, origin, rotations, replayed>>

\* PurgeExpired reads the clock once, so its cutoff may lie in the past.
DeleteExpiredCodes(cutoff) ==
  /\ \E c \in Codes : CodeRowExists(c) /\ codes[c].exp < cutoff
  /\ codes' = [c \in Codes |-> IF CodeRowExists(c) /\ codes[c].exp < cutoff
                                THEN [codes[c] EXCEPT !.st = "purged"] ELSE codes[c]]
  /\ UNCHANGED <<now, exists, locked, stamp, grants, req, tokens, held,
                 nextGid, minted, origin, rotations, replayed>>

DeleteExpiredGrants(cutoff) ==
  /\ \E g \in GrantIds : grants[g].live /\ grants[g].exp < cutoff
  /\ grants' = [g \in GrantIds |-> IF grants[g].exp < cutoff THEN NoGrant ELSE grants[g]]
  /\ UNCHANGED <<now, exists, locked, stamp, codes, req, tokens, held,
                 nextGid, minted, origin, rotations, replayed>>

-----------------------------------------------------------------------------
Account ==
  \/ \E c \in Codes, u \in Users, cl \in Clients, sc \in Approvals : issueCode(c, u, cl, sc)
  \/ \E u \in Users : RotateStamp(u)
  \/ \E u \in Users : ToggleLockout(u)
  \/ \E u \in Users : DeleteUser(u)

Handler(r) ==
  \/ \E c \in Codes, cl \in Clients : ExchangeGetCode(r, c, cl)
  \/ ExchangeFindUser(r)
  \/ MarkCodeUsed(r)
  \/ ExchangeLost(r)
  \/ CreateGrant(r)
  \/ \E g \in GrantIds, s \in 1..MaxSecrets, cl \in Clients : RefreshGetGrant(r, g, s, cl)
  \/ RefreshFindUser(r)
  \/ RotateGrant(r)
  \/ tokenResponse(r)
  \/ DeleteGrant(r)
  \/ \E g \in GrantIds, s \in 1..MaxSecrets, cl \in Clients : RevokeRefreshToken(r, g, s, cl)
  \/ \E t \in tokens, cl \in Clients : RevokeAccessToken(r, t, cl)
  \/ \E t \in tokens : ValidateFindUser(r, t)
  \/ ValidateGetGrant(r)
  \/ Serve(r)
  \/ Abandon(r)

Management ==
  \/ \E u \in Users, g \in GrantIds : RevokeGrant(u, g)
  \/ \E u \in Users, cl \in Clients : DeleteUserClientGrants(u, cl)
  \/ \E cutoff \in 0..now : DeleteExpiredCodes(cutoff)
  \/ \E cutoff \in 0..now : DeleteExpiredGrants(cutoff)

Next == Tick \/ Account \/ (\E r \in Requests : Handler(r)) \/ Management

Spec == Init /\ [][Next]_vars

-----------------------------------------------------------------------------
(* Properties *)

\* Rows, locals and histories are what their declarations say, and a used code
\* names a grant id that was drawn, for a replay to delete.
TypeOK ==
  /\ now \in Nat
  /\ exists \in [Users -> BOOLEAN]
  /\ locked \in [Users -> BOOLEAN]
  /\ stamp \in [Users -> Nat]
  /\ codes \in [Codes -> Code]
  /\ \A c \in Codes : codes[c].st = "used" => codes[c].gid \in 1..nextGid
  /\ grants \in [GrantIds -> Grant]
  /\ req \in [Requests -> Request]
  /\ tokens \in SUBSET AccessToken
  /\ held \in SUBSET (GrantIds \X Secrets)
  /\ nextGid \in 0..MaxGrants
  /\ minted \in [GrantIds -> Secrets]
  /\ origin \in [GrantIds -> Codes \union {NoCode}]
  /\ rotations \in SUBSET [gid: GrantIds, old: Secrets, new: Secrets]
  /\ replayed \in SUBSET (0..MaxGrants)

\* However many requests race on one code, exchangeCode creates at most one
\* grant from it: MarkCodeUsed lets a single request through.
OneGrantPerCode ==
  \A g, h \in GrantIds : origin[g] = origin[h] /\ origin[g] # NoCode => g = h

\* A refresh token is traded at most once: refreshGrant never answers two
\* requests that present the same secret, so a stolen and a genuine copy of a
\* token cannot both be rotated into families of their own.
NoFork ==
  \A x, y \in rotations : x.gid = y.gid /\ x.old = y.old => x = y

\* Every access token goes to the client the user approved, names that user,
\* and carries no scope beyond that approval, through any number of refreshes.
TokenProvenance ==
  \A t \in tokens :
    /\ origin[t.gid] # NoCode
    /\ t.user = codes[origin[t.gid]].user
    /\ t.holder = codes[origin[t.gid]].client
    /\ t.scopes \subseteq codes[origin[t.gid]].scopes

\* What was revoked before a request began is not honoured by it, although the
\* request reads the user and the grant in separate store calls: no access
\* token is accepted, no secret rotated and no response written.
NoServiceAfterRevocation ==
  \A r \in Requests :
    req[r].pc \in {"accepted", "refreshRotate", "codeMark", "respond"} => ~req[r].dead

\* An access token that is revoked stays revoked: no later step of any handler
\* brings its grant, its user or its security stamp back.
RevocationPermanent ==
  [][\A t \in tokens : TokenRevoked(t) => TokenRevoked(t)']_vars

\* The lifetime of a live grant slides forward only, although every rotation
\* writes a time that was read before other requests ran.
LifetimeSlidesForward ==
  [][\A g \in GrantIds : grants[g].live /\ grants[g]'.live =>
       grants[g]'.exp >= grants[g].exp /\ grants[g]'.used >= grants[g].used]_vars

\* A code whose replay has deleted its grant leaves no live grant behind.
ReplayRevokesGrant ==
  \A g \in replayed \ {0} : ~grants[g].live

\* A refresh token that was rotated away is remembered as long as its grant
\* lives: it is the grant's previous secret, so refreshGrant takes its return
\* for reuse and deletes the grant.  TLC refutes it with two rotations, because
\* the code remembers one previous secret (README, known divergences).
ReuseIsDetected ==
  \A g \in GrantIds, s \in 1..MaxSecrets, x \in rotations :
    (/\ <<g, s>> \in held
     /\ x.gid = g /\ x.old = s
     /\ grants[g].live)
      => s = grants[g].prev

\* The grants table behaves as the life cycle of GrantLifecycle.
Lifecycle == INSTANCE GrantLifecycle WITH
  Grants <- GrantIds,
  life <- [g \in GrantIds |-> IF grants[g].live THEN "live"
                              ELSE IF origin[g] = NoCode THEN "absent" ELSE "gone"],
  spent <- {origin[g] : g \in GrantIds} \ {NoCode},
  chain <- minted,
  consumed <- [g \in GrantIds |-> {x.old : x \in {y \in rotations : y.gid = g}}]

\* One grant per code, no grant after its end, one chain of refresh tokens.
LifecycleSpec == Lifecycle!LifeSpec
=============================================================================
