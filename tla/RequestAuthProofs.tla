------------------------- MODULE RequestAuthProofs -------------------------
(***************************************************************************)
(* Proofs about RequestAuth, and the RoleDirectory it is composed with,    *)
(* for every store and any number of roles, calls, signing keys and stamps.*)
(*                                                                         *)
(* The directory: what a call has found free is free or a twin, so a name  *)
(* belongs to one role where an index says so.                             *)
(*                                                                         *)
(* The request: at each of its places, the conditions that its mechanism   *)
(* has passed held at some time, and the mechanisms it has left behind did *)
(* not fit its credential or saw a condition fail.                         *)
(***************************************************************************)
EXTENDS RequestAuth, TLAPS

\* Two roles of one name are twins of the in-memory store.
NamesUnique ==
  \A q, r \in RoleIds : q # r /\ roleName[q] = roleName[r] /\ roleName[q] # NoName
                          => store = "mem" /\ roleName[q] \in twins

AdminInv(k) ==
  /\ k.pc # "idle" => k.role \in RoleIds /\ k.name \in RoleNames
  /\ k.checked => k.name \in twins \/ Named(k.name) \subseteq {k.role}

RolesInv == NamesUnique /\ (\A c \in Calls : AdminInv(admin[c])) /\ ~stayed

Failed == always # AllConditions

\* What is known of a request at place p.
At(p) ==
  /\ p # "idle" => kind # "roles"
  /\ p \notin {"idle", "jwt", "jwtUser"} => ~req.cookie
  /\ p = "jwtUser" => kind = "session" /\ {"time", "signature"} \subseteq held
  /\ p = "oauth" /\ kind = "session" => Failed
  /\ p \in {"oauthUser", "oauthGrant"} => kind = "oauth" /\ {"time", "signature"} \subseteq held
  /\ p = "oauthGrant" => "user" \in held
  /\ p = "key" /\ kind # "apiKey" => Failed
  /\ p = "keyUser" => kind = "apiKey" /\ {"time", "signature", "record"} \subseteq held

PlaceInv == At(req.pc)

HistoryInv ==
  /\ req.pc # "idle" => Conditions \subseteq held /\ always \subseteq Conditions
  /\ req.pc = "idle" => held = {} /\ always = {}

IInv == TypeOK /\ RolesInv /\ PlaceInv /\ HistoryInv /\ CredentialsDecide

\* The two halves of the type invariant.
RoleTypes ==
  /\ store \in Stores
  /\ roleName \in [RoleIds -> RoleNames \union {NoName}] /\ drawnRoles \in 0..MaxRoles
  /\ userRoles \subseteq RoleIds /\ roleClaim \subseteq RoleNames /\ admin \in [Calls -> Admin]
  /\ twins \subseteq RoleNames /\ stayed \in BOOLEAN

WorldTypes ==
  /\ kind \in Kinds \union {"roles"} /\ now \in 0..MaxTime /\ user \in User
  /\ ring \in [Kids -> 0..MaxKeys] /\ active \in Kids /\ made \in 1..MaxKeys
  /\ cred \in Cred /\ record \in Record
  /\ record # "none" /\ ~user.live => store \in {"mem", "gorm"}

RequestTypes ==
  req \in Request /\ held \subseteq AllConditions /\ always \subseteq held /\ verdict \in Verdict

LEMMA TypeParts ==
  /\ TypeOK <=> RoleTypes /\ WorldTypes /\ RequestTypes
  /\ RoleTypes' /\ WorldTypes' /\ RequestTypes' => TypeOK'
BY DEF TypeOK, RoleTypes, WorldTypes, RequestTypes

-----------------------------------------------------------------------------
(* The request *)

LEMMA ConditionFacts ==
  /\ Conditions \subseteq AllConditions
  /\ "time" \in Conditions <=> Unexpired(now)
  /\ "signature" \in Conditions <=> (kind # "apiKey" => Keyfunc)
  /\ "user" \in Conditions <=> /\ user.live
                               /\ kind # "apiKey" => StampMatches
                               /\ kind # "session" => ~LockedOut
  /\ "record" \in Conditions <=> (kind # "session" => record = "good")
BY DEF Conditions, AllConditions

LEMMA ObserveStep ==
  ASSUME IInv, Observe
  PROVE  /\ HistoryInv' /\ held' \subseteq AllConditions /\ always' \subseteq held'
         /\ req.pc # "idle" /\ req'.pc # "idle" => held \subseteq held' /\ always' \subseteq always
<1>1. Conditions' \subseteq AllConditions
  BY DEF Conditions, AllConditions
<1>2. held \subseteq AllConditions /\ always \subseteq held
  BY DEF IInv, TypeOK
<1>3. PICK now1 : now1 = Conditions' /\ now1 \subseteq AllConditions
  BY <1>1
<1>4. CASE req'.pc = "idle"
  BY <1>4 DEF Observe, HistoryInv
<1>5. CASE req'.pc # "idle"
  <2>1. held' = held \union now1
    BY <1>3, <1>5 DEF Observe
  <2>2. always' = (IF req.pc = "idle" THEN now1 ELSE always \intersect now1)
    BY <1>3, <1>5 DEF Observe
  <2> QED
    BY <1>2, <1>3, <1>5, <2>1, <2>2 DEF HistoryInv
<1> QED
  BY <1>4, <1>5

LEMMA SameRoles == ASSUME IInv, UNCHANGED roleVars PROVE RoleTypes' /\ RolesInv' /\ UNCHANGED store
<1>1. UNCHANGED <<store, roleName, drawnRoles, userRoles, roleClaim, admin, twins, stayed>>
  BY DEF roleVars
<1>2. RoleTypes'
  BY <1>1, TypeParts DEF IInv, RoleTypes
<1>3. RolesInv'
  BY <1>1 DEF IInv, RolesInv, NamesUnique, AdminInv, Named
<1> QED
  BY <1>1, <1>2, <1>3

\* What was known of a request stays known while it is under way.
LEMMA AtKept ==
  ASSUME IInv, Observe, NEW p, At(p), req.pc # "idle", req'.pc # "idle",
         req'.cookie <=> req.cookie, kind' = kind
  PROVE  At(p)'
<1>1. held \subseteq held' /\ always' \subseteq always /\ held' \subseteq AllConditions
      /\ always' \subseteq held'
  BY ObserveStep
<1>2. always \subseteq AllConditions
  BY DEF IInv, TypeOK
<1>3. Failed => Failed'
  BY <1>1, <1>2 DEF Failed
<1> QED
  BY <1>1, <1>3 DEF At

\* A step of the request: to a place of which enough is known, or to its end.
LEMMA RequestStep ==
  ASSUME IInv, World, Observe, req' \in Request, verdict' = "none",
         \/ req'.pc = "idle" \/ (req'.pc = "jwt" /\ kind # "roles")
         \/ req.pc # "idle" /\ req'.pc # "idle" /\ (req'.cookie <=> req.cookie) /\ At(req'.pc)
  PROVE  IInv'
<1>1. UNCHANGED <<kind, now, user, ring, active, made, cred, record, roleVars>>
  BY DEF World
<1>2. RoleTypes' /\ RolesInv' /\ UNCHANGED store
  BY <1>1, SameRoles
<1>3. WorldTypes'
  BY <1>1, <1>2, TypeParts DEF IInv, WorldTypes
<1>4. RequestTypes' /\ HistoryInv'
  BY ObserveStep DEF RequestTypes, Verdict
<1>5. PlaceInv'
  <2>1. CASE req'.pc \in {"idle", "jwt"}
    BY <1>1, <2>1 DEF PlaceInv, At
  <2>2. CASE req'.pc \notin {"idle", "jwt"}
    <3>1. PICK p : p = req'.pc /\ At(p)
      BY <2>2
    <3>2. At(p)'
      BY <1>1, <2>2, <3>1, AtKept
    <3> QED
      BY <3>1, <3>2 DEF PlaceInv
  <2> QED
    BY <2>1, <2>2
<1>6. CredentialsDecide'
  BY DEF CredentialsDecide
<1> QED
  BY <1>2, <1>3, <1>4, <1>5, <1>6, TypeParts DEF IInv

LEMMA GoStep ==
  ASSUME IInv, World, Observe, NEW p \in Places, p # "idle", Go(p), req.pc # "idle", At(p)
  PROVE  IInv'
<1>1. req \in Request /\ verdict = "none"
  BY DEF IInv, TypeOK, CredentialsDecide
<1>2. req' \in Request /\ req'.pc = p /\ (req'.cookie <=> req.cookie) /\ verdict' = "none"
  BY <1>1 DEF Go, Request
<1> QED
  BY <1>2, RequestStep

LEMMA EndStep == ASSUME IInv, World, Observe, NEW v, End(v), Judge(v) = "none" PROVE IInv'
<1>1. req' \in Request /\ req'.pc = "idle" /\ verdict' = "none"
  BY DEF End, NoRequest, Request, Places
<1> QED
  BY <1>1, RequestStep

LEMMA BeginPreserves == ASSUME IInv, NEW b \in BOOLEAN, Begin(b), Observe PROVE IInv'
<1>1. req' \in Request /\ req'.pc = "jwt" /\ verdict' = "none" /\ World /\ kind # "roles"
  BY DEF Begin, Request, Places
<1> QED
  BY <1>1, RequestStep

LEMMA StoreFailsPreserves == ASSUME IInv, StoreFails, Observe PROVE IInv'
<1>1. req' \in Request /\ req'.pc = "idle" /\ verdict' = "none" /\ World
  BY DEF StoreFails, NoRequest, Request, Places
<1> QED
  BY <1>1, RequestStep

\* What a request under way knows.
LEMMA RequestFacts ==
  ASSUME IInv, req.pc # "idle"
  PROVE  /\ At(req.pc) /\ kind # "roles" /\ Conditions \subseteq held /\ always \subseteq Conditions
         /\ held \subseteq AllConditions /\ req.cookie \in BOOLEAN /\ req.pc \in Places
BY DEF IInv, PlaceInv, HistoryInv, TypeOK, Request, At

\* A credential is refused for cause when a condition fails, or when it is no
\* session token and came by the cookie.
LEMMA Refused ==
  ASSUME Failed \/ (req.cookie /\ kind # "session")
  PROVE  Judge("anonymous") = "none"
BY DEF Judge, Failed

LEMMA AfterSessionPreserves ==
  ASSUME IInv, World, Observe, req.pc # "idle", AfterSession, kind = "session" => Failed
  PROVE  IInv'
<1>1. CASE req.cookie
  BY <1>1, EndStep, Refused DEF AfterSession
<1>2. CASE ~req.cookie
  <2>1. At("oauth")
    BY <1>2, RequestFacts DEF At
  <2> QED
    BY <1>2, <2>1, GoStep DEF AfterSession, Places
<1> QED
  BY <1>1, <1>2

LEMMA ParseSessionPreserves == ASSUME IInv, ParseSession, Observe PROVE IInv'
<1>1. req.pc = "jwt" /\ World
  BY DEF ParseSession
<1>2. CASE kind # "apiKey" /\ Keyfunc /\ Unexpired(now) /\ IsSession
  <2>1. At("jwtUser")
    BY <1>1, <1>2, RequestFacts, ConditionFacts DEF At, IsSession
  <2> QED
    BY <1>1, <1>2, <2>1, GoStep DEF ParseSession, Places
<1>3. CASE ~(kind # "apiKey" /\ Keyfunc /\ Unexpired(now) /\ IsSession)
  <2>1. kind = "session" => Failed
    BY <1>1, <1>3, RequestFacts, ConditionFacts DEF Failed, IsSession, AllConditions
  <2>2. AfterSession
    BY <1>3 DEF ParseSession
  <2> QED
    BY <1>1, <2>1, <2>2, AfterSessionPreserves
<1> QED
  BY <1>2, <1>3

LEMMA SessionUserPreserves == ASSUME IInv, SessionUser, Observe PROVE IInv'
<1>1. req.pc = "jwtUser" /\ World
  BY DEF SessionUser
<1>2. kind = "session" /\ {"time", "signature"} \subseteq held
  BY <1>1, RequestFacts DEF At
<1>3. CASE user.live /\ StampMatches
  <2>1. held = AllConditions
    BY <1>1, <1>2, <1>3, RequestFacts, ConditionFacts DEF AllConditions
  <2>2. Judge("session") = "none"
    BY <1>2, <2>1 DEF Judge
  <2> QED
    BY <1>1, <1>3, <2>2, EndStep DEF SessionUser
<1>4. CASE ~(user.live /\ StampMatches)
  <2>1. Failed
    BY <1>1, <1>2, <1>4, RequestFacts, ConditionFacts DEF Failed, AllConditions
  <2>2. AfterSession
    BY <1>4 DEF SessionUser
  <2> QED
    BY <1>1, <2>1, <2>2, AfterSessionPreserves
<1> QED
  BY <1>3, <1>4

LEMMA ParseResourceTokenPreserves == ASSUME IInv, ParseResourceToken, Observe PROVE IInv'
<1>1. req.pc = "oauth" /\ World /\ ~req.cookie /\ (kind = "session" => Failed)
  BY RequestFacts DEF ParseResourceToken, At
<1>2. CASE kind # "apiKey" /\ Keyfunc /\ Unexpired(now) /\ IsResourceToken
  <2>1. At("oauthUser")
    BY <1>1, <1>2, RequestFacts, ConditionFacts DEF At, IsResourceToken
  <2> QED
    BY <1>1, <1>2, <2>1, GoStep DEF ParseResourceToken, Places
<1>3. CASE ~(kind # "apiKey" /\ Keyfunc /\ Unexpired(now) /\ IsResourceToken)
  <2>1. kind = "oauth" => Failed
    BY <1>1, <1>3, RequestFacts, ConditionFacts DEF Failed, IsResourceToken, AllConditions
  <2>2. At("key")
    BY <1>1, <2>1, RequestFacts DEF At, IInv, TypeOK, Kinds
  <2> QED
    BY <1>1, <1>3, <2>2, GoStep DEF ParseResourceToken, Places
<1> QED
  BY <1>2, <1>3

LEMMA ResourceUserPreserves == ASSUME IInv, ResourceUser, Observe PROVE IInv'
<1>1. /\ req.pc = "oauthUser" /\ World /\ ~req.cookie /\ kind = "oauth"
      /\ {"time", "signature"} \subseteq held
  BY RequestFacts DEF ResourceUser, At
<1>2. CASE user.live /\ StampMatches /\ ~LockedOut
  <2>1. At("oauthGrant")
    BY <1>1, <1>2, RequestFacts, ConditionFacts DEF At
  <2> QED
    BY <1>1, <1>2, <2>1, GoStep DEF ResourceUser, Places
<1>3. CASE ~(user.live /\ StampMatches /\ ~LockedOut)
  <2>1. Failed
    BY <1>1, <1>3, RequestFacts, ConditionFacts DEF Failed, AllConditions
  <2>2. At("key")
    BY <1>1, <2>1 DEF At
  <2> QED
    BY <1>1, <1>3, <2>2, GoStep DEF ResourceUser, Places
<1> QED
  BY <1>2, <1>3

LEMMA ResourceGrantPreserves == ASSUME IInv, ResourceGrant, Observe PROVE IInv'
<1>1. /\ req.pc = "oauthGrant" /\ World /\ ~req.cookie /\ kind = "oauth"
      /\ {"time", "signature", "user"} \subseteq held
  BY RequestFacts DEF ResourceGrant, At
<1>2. CASE record = "good"
  <2>1. held = AllConditions
    BY <1>1, <1>2, RequestFacts, ConditionFacts DEF AllConditions
  <2>2. Judge("oauth") = "none"
    BY <1>1, <2>1 DEF Judge
  <2> QED
    BY <1>1, <1>2, <2>2, EndStep DEF ResourceGrant
<1>3. CASE record # "good"
  <2>1. Failed
    BY <1>1, <1>3, RequestFacts, ConditionFacts DEF Failed, AllConditions
  <2>2. At("key")
    BY <1>1, <2>1 DEF At
  <2> QED
    BY <1>1, <1>3, <2>2, GoStep DEF ResourceGrant, Places
<1> QED
  BY <1>2, <1>3

LEMMA LookUpKeyPreserves == ASSUME IInv, LookUpKey, Observe PROVE IInv'
<1>1. req.pc = "key" /\ World /\ ~req.cookie /\ (kind # "apiKey" => Failed)
  BY RequestFacts DEF LookUpKey, At
<1>2. CASE kind = "apiKey" /\ ActiveKey /\ StillActive(record)
  <2>1. At("keyUser")
    BY <1>1, <1>2, RequestFacts, ConditionFacts DEF At, ActiveKey
  <2> QED
    BY <1>1, <1>2, <2>1, GoStep DEF LookUpKey, Places
<1>3. CASE ~(kind = "apiKey" /\ ActiveKey /\ StillActive(record))
  <2>1. Failed
    BY <1>1, <1>3, RequestFacts, ConditionFacts DEF Failed, AllConditions, ActiveKey, StillActive
  <2> QED
    BY <1>1, <1>3, <2>1, EndStep, Refused DEF LookUpKey
<1> QED
  BY <1>2, <1>3

LEMMA KeyUserPreserves == ASSUME IInv, KeyUser, Observe PROVE IInv'
<1>1. /\ req.pc = "keyUser" /\ World /\ ~req.cookie /\ kind = "apiKey"
      /\ {"time", "signature", "record"} \subseteq held
  BY RequestFacts DEF KeyUser, At
<1>2. CASE user.live /\ ~LockedOut
  <2>1. held = AllConditions
    BY <1>1, <1>2, RequestFacts, ConditionFacts DEF AllConditions
  <2>2. Judge("apiKey") = "none"
    BY <1>1, <2>1 DEF Judge
  <2> QED
    BY <1>1, <1>2, <2>2, EndStep DEF KeyUser
<1>3. CASE ~(user.live /\ ~LockedOut)
  <2>1. Failed
    BY <1>1, <1>3, RequestFacts, ConditionFacts DEF Failed, AllConditions
  <2> QED
    BY <1>1, <1>3, <2>1, EndStep, Refused DEF KeyUser
<1> QED
  BY <1>2, <1>3

-----------------------------------------------------------------------------
(* The world around the request *)

\* A step that changes no request, whatever it does to the credential's fate.
LEMMA QuietStep == ASSUME IInv, Quiet, Observe, WorldTypes' PROVE IInv'
<1>1. UNCHANGED <<kind, req, verdict, roleVars>>
  BY DEF Quiet
<1>2. RoleTypes' /\ RolesInv'
  BY <1>1, SameRoles
<1>3. RequestTypes' /\ HistoryInv'
  BY <1>1, ObserveStep, TypeParts DEF IInv, RequestTypes
<1>4. PlaceInv'
  <2>1. CASE req.pc = "idle"
    BY <1>1, <2>1 DEF PlaceInv, At
  <2>2. CASE req.pc # "idle"
    <3>1. PICK p : p = req.pc /\ At(p) /\ req'.pc = p
      BY <1>1, <2>2, RequestFacts
    <3>2. At(p)'
      BY <1>1, <2>2, <3>1, AtKept
    <3> QED
      BY <3>1, <3>2 DEF PlaceInv
  <2> QED
    BY <2>1, <2>2
<1>5. CredentialsDecide'
  BY <1>1 DEF IInv, CredentialsDecide
<1> QED
  BY <1>2, <1>3, <1>4, <1>5, TypeParts DEF IInv

LEMMA TickPreserves == ASSUME IInv, Tick, Observe PROVE IInv'
<1>1. now' \in 0..MaxTime
  BY AuthBounds DEF Tick, IInv, TypeOK
<1>2. Quiet /\ UNCHANGED <<kind, store, user, ring, active, made, cred, record>>
  BY DEF Tick, Quiet, roleVars
<1>3. WorldTypes'
  BY <1>1, <1>2, TypeParts DEF IInv, WorldTypes
<1> QED
  BY <1>2, <1>3, QuietStep

LEMMA ChangeUserPreserves == ASSUME IInv, NEW u \in User, ChangeUser(u), Observe PROVE IInv'
<1>1. Quiet /\ UNCHANGED <<kind, store, now, ring, active, made, cred>> /\ user' = u /\ user.live
  BY DEF ChangeUser, Quiet, roleVars
<1>2. record' \in Record /\ (~u.live => record' = "none")
  BY DEF ChangeUser, RecordAfter, Record, IInv, TypeOK
<1>3. WorldTypes'
  BY <1>1, <1>2, TypeParts DEF IInv, WorldTypes
<1> QED
  BY <1>1, <1>3, QuietStep

LEMMA AddKeyPreserves ==
  ASSUME IInv, NEW k \in Kids, NEW a \in BOOLEAN, AddKey(k, a), Observe PROVE IInv'
<1>1. /\ Quiet /\ UNCHANGED <<kind, store, now, user, cred, record>> /\ made' = made + 1
      /\ ring' = [ring EXCEPT ![k] = made'] /\ active' = (IF a THEN k ELSE active) /\ made < MaxKeys
  BY DEF AddKey, Quiet, roleVars
<1>2. made' \in 1..MaxKeys /\ made' \in 0..MaxKeys
  BY <1>1, AuthBounds DEF IInv, TypeOK
<1>3. ring' \in [Kids -> 0..MaxKeys] /\ active' \in Kids
  BY <1>1, <1>2 DEF IInv, TypeOK
<1>4. WorldTypes'
  BY <1>1, <1>2, <1>3, TypeParts DEF IInv, WorldTypes
<1> QED
  BY <1>1, <1>4, QuietStep

LEMMA RemoveKeyPreserves == ASSUME IInv, NEW k \in Kids, RemoveKey(k), Observe PROVE IInv'
<1>1. /\ Quiet /\ UNCHANGED <<kind, store, now, user, active, made, cred, record>>
      /\ ring' = [ring EXCEPT ![k] = 0]
  BY DEF RemoveKey, Quiet, roleVars
<1>2. 0 \in 0..MaxKeys
  BY AuthBounds
<1>3. ring' \in [Kids -> 0..MaxKeys]
  BY <1>1, <1>2 DEF IInv, TypeOK
<1>4. WorldTypes'
  BY <1>1, <1>3, TypeParts DEF IInv, WorldTypes
<1> QED
  BY <1>1, <1>4, QuietStep

LEMMA IssuePreserves == ASSUME IInv, Issue, Observe PROVE IInv'
<1>1. PICK key, exp : key = (IF ring[active] = 0 THEN 1 ELSE ring[active]) /\ exp = now + Lifetime
  OBVIOUS
<1>2. /\ Quiet /\ UNCHANGED <<kind, store, now, user, ring, active, made>>
      /\ cred' = [kid |-> active, key |-> key, ss |-> user.ss, exp |-> exp]
      /\ record' = (IF kind = "session" THEN "none" ELSE "good")
      /\ user.live \/ (kind = "apiKey" /\ store \in {"mem", "gorm"})
  BY <1>1 DEF Issue, Quiet, roleVars
<1>3. /\ ring \in [Kids -> 0..MaxKeys] /\ active \in Kids /\ user \in User /\ now \in 0..MaxTime
  BY DEF IInv, TypeOK
<1>4. key \in 1..MaxKeys
  BY <1>1, <1>3, AuthBounds
<1>5. exp \in 0..(MaxTime + Lifetime)
  BY <1>1, <1>3, AuthBounds
<1>6. user.ss \in 0..MaxStamp
  BY <1>3 DEF User
<1>7. cred' \in Cred /\ record' \in Record
  BY <1>2, <1>3, <1>4, <1>5, <1>6 DEF Cred, Record
<1>8. WorldTypes'
  BY <1>2, <1>7, TypeParts DEF IInv, WorldTypes
<1> QED
  BY <1>2, <1>8, QuietStep

LEMMA RevokePreserves == ASSUME IInv, Revoke, Observe PROVE IInv'
<1>1. /\ Quiet /\ UNCHANGED <<kind, store, now, user, ring, active, made, cred>> /\ record = "good"
      /\ record' \in {"none", "revoked"}
  BY DEF Revoke, Quiet, roleVars
<1>2. WorldTypes'
  BY <1>1, TypeParts DEF IInv, WorldTypes, Record
<1> QED
  BY <1>1, <1>2, QuietStep

LEMMA AuthNextPreserves == ASSUME IInv, AuthNext, Observe PROVE IInv'
BY TickPreserves, ChangeUserPreserves, AddKeyPreserves, RemoveKeyPreserves, IssuePreserves,
   RevokePreserves, BeginPreserves, ParseSessionPreserves, SessionUserPreserves,
   ParseResourceTokenPreserves, ResourceUserPreserves, ResourceGrantPreserves,
   LookUpKeyPreserves, KeyUserPreserves, StoreFailsPreserves DEF AuthNext

-----------------------------------------------------------------------------
(* The roles *)

LEMMA SameRequest ==
  ASSUME IInv, UNCHANGED authVars, UNCHANGED store
  PROVE  WorldTypes' /\ RequestTypes' /\ PlaceInv' /\ HistoryInv' /\ CredentialsDecide'
<1>1. UNCHANGED <<kind, now, user, ring, active, made, cred, record, req, held, always, verdict>>
  BY DEF authVars
<1>2. WorldTypes' /\ RequestTypes' /\ CredentialsDecide'
  BY <1>1, TypeParts DEF IInv, WorldTypes, RequestTypes, CredentialsDecide
<1>3. PlaceInv'
  BY <1>1 DEF IInv, PlaceInv, At, Failed
<1>4. HistoryInv'
  BY <1>1 DEF IInv, HistoryInv, Conditions, Unexpired, Keyfunc, StampMatches, LockedOut
<1> QED
  BY <1>2, <1>3, <1>4

LEMMA NoAdminFacts ==
  /\ NoAdmin \in Admin /\ NoAdmin.pc = "idle" /\ ~NoAdmin.checked
  /\ AdminInv(NoAdmin) /\ AdminInv(NoAdmin)'
<1>1. 0 \in 0..MaxRoles
  BY RoleBounds
<1>2. NoAdmin \in Admin /\ NoAdmin.pc = "idle" /\ ~NoAdmin.checked
  BY <1>1 DEF NoAdmin, Admin
<1> QED
  BY <1>2 DEF AdminInv

LEMMA AdminFacts ==
  ASSUME IInv, NEW c \in Calls
  PROVE  /\ admin[c] \in Admin /\ admin[c].role \in 0..MaxRoles /\ AdminInv(admin[c])
         /\ admin[c].name \in RoleNames \union {NoName}
         /\ admin[c].checked \in BOOLEAN
BY DEF IInv, TypeOK, RolesInv, Admin

LEMMA StepFacts ==
  ASSUME IInv, NEW c \in Calls, NEW k \in Admin, Step(c, k)
  PROVE  /\ admin' \in [Calls -> Admin] /\ admin'[c] = k
         /\ \A d \in Calls : d # c => admin'[d] = admin[d]
BY DEF Step, IInv, TypeOK

\* A step of call c after which no role has a name it did not have.
LEMMA RoleStep ==
  ASSUME IInv, UNCHANGED <<authVars, store, twins, stayed>>, NEW c \in Calls, NEW k \in Admin,
         Step(c, k), AdminInv(k)',
         roleName' \in [RoleIds -> RoleNames \union {NoName}],
         \A r \in RoleIds : roleName'[r] \in {roleName[r], NoName},
         drawnRoles' \in 0..MaxRoles, userRoles' \subseteq RoleIds, roleClaim' \subseteq RoleNames
  PROVE  IInv'
<1>1. RoleTypes'
  BY StepFacts, TypeParts DEF IInv, RoleTypes
<1>2. NamesUnique'
  BY DEF IInv, RolesInv, NamesUnique
<1>3. ASSUME NEW d \in Calls PROVE AdminInv(admin[d])'
  <2>1. CASE d = c
    BY <2>1, StepFacts
  <2>2. CASE d # c
    <3>1. PICK j : j = admin[d] /\ j = admin'[d] /\ AdminInv(j)
      BY <2>2, StepFacts, AdminFacts
    <3>2. Named(j.name)' \subseteq Named(j.name)
      BY DEF Named
    <3>3. AdminInv(j)'
      BY <3>1, <3>2 DEF AdminInv
    <3> QED
      BY <3>1, <3>3
  <2> QED
    BY <2>1, <2>2
<1>4. RolesInv'
  BY <1>2, <1>3 DEF IInv, RolesInv
<1> QED
  BY <1>1, <1>4, SameRequest, TypeParts DEF IInv

\* The same, where the role names stay.
LEMMA DeskStep ==
  ASSUME IInv, UNCHANGED <<authVars, store, roleName, twins, stayed>>, NEW c \in Calls, NEW k \in Admin,
         Step(c, k), AdminInv(k),
         drawnRoles' \in 0..MaxRoles, userRoles' \subseteq RoleIds, roleClaim' \subseteq RoleNames
  PROVE  IInv'
<1>1. AdminInv(k)'
  BY DEF AdminInv, Named
<1>2. roleName' \in [RoleIds -> RoleNames \union {NoName}]
  BY DEF IInv, TypeOK
<1> QED
  BY <1>1, <1>2, RoleStep

\* A call begins.
LEMMA Begun ==
  ASSUME NEW pc \in {"create", "rename", "add", "remove"}, NEW r \in RoleIds, NEW n \in RoleNames,
         NEW k, k = [NoAdmin EXCEPT !.pc = pc, !.role = r, !.name = n]
  PROVE  k \in Admin /\ AdminInv(k)
<1>1. r \in 0..MaxRoles
  BY RoleBounds DEF RoleIds
<1>2. k \in Admin /\ k.pc = pc /\ k.role = r /\ k.name = n /\ ~k.checked
  BY <1>1, NoAdminFacts DEF Admin
<1> QED
  BY <1>2 DEF AdminInv

LEMMA CreateRolePreserves ==
  ASSUME IInv, UNCHANGED authVars, NEW c \in Calls, NEW n \in RoleNames, CreateRole(c, n) PROVE IInv'
<1>1. PICK k, r : r = drawnRoles + 1 /\ k = [NoAdmin EXCEPT !.pc = "create", !.role = r, !.name = n]
  OBVIOUS
<1>2. /\ Step(c, k) /\ drawnRoles' = r /\ drawnRoles < MaxRoles
      /\ UNCHANGED <<store, roleName, userRoles, roleClaim, twins, stayed>>
  BY <1>1 DEF CreateRole
<1>3. r \in RoleIds /\ r \in 0..MaxRoles
  BY <1>1, <1>2, RoleBounds DEF IInv, TypeOK, RoleIds
<1>4. k \in Admin /\ AdminInv(k)
  BY <1>1, <1>3, Begun
<1> QED
  BY <1>2, <1>3, <1>4, DeskStep DEF IInv, TypeOK

LEMMA RenameRolePreserves ==
  ASSUME IInv, UNCHANGED authVars, NEW c \in Calls, NEW r \in RoleIds, NEW n \in RoleNames,
         RenameRole(c, r, n)
  PROVE  IInv'
<1>1. PICK k : k = [NoAdmin EXCEPT !.pc = "rename", !.role = r, !.name = n]
  OBVIOUS
<1>2. Step(c, k) /\ UNCHANGED <<store, roleName, drawnRoles, userRoles, roleClaim, twins, stayed>>
  BY <1>1 DEF RenameRole
<1>3. k \in Admin /\ AdminInv(k)
  BY <1>1, Begun
<1> QED
  BY <1>2, <1>3, DeskStep DEF IInv, TypeOK

LEMMA ResolveRolePreserves ==
  ASSUME IInv, UNCHANGED authVars, NEW c \in Calls, NEW n \in RoleNames, NEW op \in {"add", "remove"},
         ResolveRole(c, n, op)
  PROVE  IInv'
<1>1. PICK r \in Named(n) : Step(c, [NoAdmin EXCEPT !.pc = op, !.role = r, !.name = n])
  BY DEF ResolveRole
<1>2. PICK k : k = [NoAdmin EXCEPT !.pc = op, !.role = r, !.name = n]
  OBVIOUS
<1>3. Step(c, k) /\ UNCHANGED <<store, roleName, drawnRoles, userRoles, roleClaim, twins, stayed>>
  BY <1>1, <1>2 DEF ResolveRole
<1>4. k \in Admin /\ AdminInv(k)
  BY <1>2, Begun DEF Named
<1> QED
  BY <1>3, <1>4, DeskStep DEF IInv, TypeOK

LEMMA CheckRoleNamePreserves ==
  ASSUME IInv, UNCHANGED authVars, NEW c \in Calls, CheckRoleName(c) PROVE IInv'
<1>1. /\ admin[c].pc \in {"create", "rename"}
      /\ UNCHANGED <<store, roleName, drawnRoles, userRoles, roleClaim, twins, stayed>>
  BY DEF CheckRoleName
<1>2. CASE RoleFree(c)
  <2>1. PICK k : k = [admin[c] EXCEPT !.checked = TRUE]
    OBVIOUS
  <2>2. Step(c, k)
    BY <1>2, <2>1 DEF CheckRoleName
  <2>3. /\ k \in Admin /\ k.pc = admin[c].pc /\ k.role = admin[c].role /\ k.name = admin[c].name
    BY <2>1, AdminFacts DEF Admin
  <2>4. AdminInv(k)
    BY <1>1, <1>2, <2>3, AdminFacts DEF AdminInv, RoleFree
  <2> QED
    BY <1>1, <2>2, <2>3, <2>4, DeskStep DEF IInv, TypeOK
<1>3. CASE ~RoleFree(c)
  <2>1. Step(c, NoAdmin)
    BY <1>3 DEF CheckRoleName
  <2> QED
    BY <1>1, <2>1, NoAdminFacts, DeskStep DEF IInv, TypeOK
<1> QED
  BY <1>2, <1>3

\* The write of a name: whoever else had found it free makes it a twin.
LEMMA StoreRolePreserves ==
  ASSUME IInv, UNCHANGED authVars, NEW c \in Calls, StoreRole(c) PROVE IInv'
<1> DEFINE stores == RoleIndex(admin[c].role, admin[c].name) /\ (admin[c].pc = "rename" => RoleCurrent(c))
<1>1. /\ admin[c].pc \in {"create", "rename"} /\ admin[c].checked
      /\ UNCHANGED <<store, drawnRoles, userRoles, roleClaim, stayed>>
  BY DEF StoreRole
<1>2. CASE ~stores
  <2>1. UNCHANGED <<roleName, twins>> /\ Step(c, NoAdmin)
    BY <1>2 DEF StoreRole
  <2> QED
    BY <1>1, <2>1, NoAdminFacts, DeskStep DEF IInv, TypeOK
<1>3. CASE stores
  <2>1. PICK r, n : r = admin[c].role /\ n = admin[c].name
    OBVIOUS
  <2>2. r \in RoleIds /\ n \in RoleNames /\ n # NoName /\ (n \in twins \/ Named(n) \subseteq {r})
    BY <1>1, <2>1, AdminFacts, RoleBounds DEF AdminInv
  <2>3. /\ roleName' = [roleName EXCEPT ![r] = n]
        /\ twins' = twins \union {m \in {n} : \E d \in Calls \ {c} : admin[d].name = m /\ admin[d].checked}
        /\ admin' = [d \in Calls |->
             IF d = c THEN NoAdmin
             ELSE [admin[d] EXCEPT !.fresh = @ /\ admin[d].role # r]]
    BY <1>3, <2>1 DEF StoreRole
  <2>4. /\ \A q \in RoleIds : roleName'[q] = (IF q = r THEN n ELSE roleName[q])
        /\ roleName' \in [RoleIds -> RoleNames \union {NoName}]
    BY <2>2, <2>3 DEF IInv, TypeOK
  <2>5. twins \subseteq twins' /\ twins' \subseteq RoleNames
    BY <2>2, <2>3 DEF IInv, TypeOK
  <2>6. ASSUME NEW d \in Calls, d # c
        PROVE  /\ admin'[d] \in Admin /\ admin'[d].pc = admin[d].pc /\ admin'[d].role = admin[d].role
               /\ admin'[d].name = admin[d].name /\ (admin'[d].checked <=> admin[d].checked)
    <3>1. PICK f : f = (admin[d].fresh /\ admin[d].role # r)
      OBVIOUS
    <3>2. admin'[d] = [admin[d] EXCEPT !.fresh = f]
      BY <2>3, <2>6, <3>1
    <3>3. f \in BOOLEAN
      BY <3>1
    <3> QED
      BY <3>2, <3>3, AdminFacts DEF Admin
  <2>7. admin'[c] = NoAdmin /\ admin' = [d \in Calls |-> admin'[d]]
    BY <2>3
  <2>8. RoleTypes'
    <3>1. admin' \in [Calls -> Admin]
      BY <2>6, <2>7, NoAdminFacts
    <3> QED
      BY <1>1, <2>4, <2>5, <3>1, TypeParts DEF IInv, RoleTypes
  <2>9. NamesUnique'
    <3>1. ASSUME NEW q \in RoleIds, q # r, roleName[q] = n PROVE store = "mem" /\ n \in twins
      <4>1. q \in Named(n)
        BY <2>2, <3>1 DEF Named
      <4> QED
        BY <1>3, <2>1, <2>2, <3>1, <4>1 DEF RoleIndex
    <3> QED
      BY <1>1, <2>4, <2>5, <3>1 DEF IInv, RolesInv, NamesUnique
  <2>10. ASSUME NEW d \in Calls PROVE AdminInv(admin[d])'
    <3>1. CASE d = c
      BY <2>7, <3>1, NoAdminFacts
    <3>2. CASE d # c
      <4>1. PICK j, l : j = admin[d] /\ l = admin'[d] /\ AdminInv(j) /\ l.pc = j.pc /\ l.role = j.role
                        /\ l.name = j.name /\ (l.checked <=> j.checked)
        BY <2>6, <3>2, AdminFacts
      <4>2. l.checked /\ l.name = n => n \in twins'
        BY <2>3, <3>2, <4>1
      <4>3. l.name # n => Named(l.name)' \subseteq Named(l.name)
        BY <2>4 DEF Named
      <4>4. AdminInv(l)'
        BY <2>5, <4>1, <4>2, <4>3 DEF AdminInv
      <4> QED
        BY <4>1, <4>4
    <3> QED
      BY <3>1, <3>2
  <2>11. RolesInv'
    BY <1>1, <2>9, <2>10 DEF IInv, RolesInv
  <2> QED
    BY <1>1, <2>8, <2>11, SameRequest, TypeParts DEF IInv
<1> QED
  BY <1>2, <1>3

LEMMA DeleteRolePreserves ==
  ASSUME IInv, UNCHANGED authVars, NEW c \in Calls, NEW r \in RoleIds, DeleteRole(c, r) PROVE IInv'
<1>1. /\ roleName' = [roleName EXCEPT ![r] = NoName] /\ userRoles' \subseteq userRoles
      /\ Step(c, NoAdmin) /\ UNCHANGED <<store, drawnRoles, roleClaim, twins, stayed>>
  BY DEF DeleteRole
<1>2. /\ roleName' \in [RoleIds -> RoleNames \union {NoName}]
      /\ \A q \in RoleIds : roleName'[q] \in {roleName[q], NoName}
  BY <1>1 DEF IInv, TypeOK
<1> QED
  BY <1>1, <1>2, NoAdminFacts, RoleStep DEF IInv, TypeOK

\* The role whose membership is changed is one of the directory's ids.
LEMMA TargetFacts ==
  ASSUME IInv, NEW c \in Calls, NEW n \in RoleNames, NEW op \in {"add", "remove"},
         NEW r \in Target(c, n, op)
  PROVE  r \in RoleIds
<1>1. CASE OneStep
  BY <1>1 DEF Target, Named
<1>2. CASE ~OneStep
  BY <1>2, AdminFacts DEF Target, AdminInv
<1> QED
  BY <1>1, <1>2

LEMMA AddToRolePreserves ==
  ASSUME IInv, UNCHANGED authVars, NEW c \in Calls, NEW n \in RoleNames, AddToRole(c, n) PROVE IInv'
<1>1. PICK r \in Target(c, n, "add") :
        userRoles' = IF RoleRefers(r) THEN userRoles \union {r} ELSE userRoles
  BY DEF AddToRole
<1>2. userRoles' \subseteq RoleIds
  BY <1>1, TargetFacts DEF IInv, TypeOK
<1>3. Step(c, NoAdmin) /\ UNCHANGED <<store, roleName, drawnRoles, roleClaim, twins, stayed>>
  BY DEF AddToRole
<1> QED
  BY <1>2, <1>3, NoAdminFacts, DeskStep DEF IInv, TypeOK

LEMMA RemoveFromRolePreserves ==
  ASSUME IInv, UNCHANGED authVars, NEW c \in Calls, NEW n \in RoleNames, RemoveFromRole(c, n) PROVE IInv'
<1>1. PICK r \in Target(c, n, "remove") :
        /\ userRoles' = userRoles \ {r}
        /\ stayed' = (stayed \/ /\ roleName[r] = n /\ n \notin twins
                                /\ \E q \in userRoles' : roleName[q] = n)
  BY DEF RemoveFromRole
<1>2. Step(c, NoAdmin) /\ UNCHANGED <<store, roleName, drawnRoles, roleClaim, twins>>
  BY DEF RemoveFromRole
<1>3. userRoles \subseteq RoleIds /\ ~stayed /\ stayed \in BOOLEAN /\ n # NoName
  BY RoleBounds DEF IInv, TypeOK, RolesInv
<1>4. ASSUME roleName[r] = n, n \notin twins, NEW q \in userRoles', roleName[q] = n PROVE FALSE
  <2>1. r \in RoleIds /\ q \in RoleIds /\ q # r
    BY <1>1, <1>3, <1>4, TargetFacts
  <2> QED
    BY <1>3, <1>4, <2>1 DEF IInv, RolesInv, NamesUnique
<1>5. ~(roleName[r] = n /\ n \notin twins /\ \E q \in userRoles' : roleName[q] = n)
  BY <1>4
<1>6. stayed' = stayed
  BY <1>1, <1>3, <1>5
<1>7. userRoles' \subseteq RoleIds
  BY <1>1, <1>3
<1> QED
  BY <1>2, <1>6, <1>7, NoAdminFacts, DeskStep DEF IInv, TypeOK

LEMMA SetRoleClaimPreserves ==
  ASSUME IInv, UNCHANGED authVars, NEW c \in Calls, NEW ns \in SUBSET RoleNames, SetRoleClaim(c, ns)
  PROVE  IInv'
<1>1. /\ Step(c, NoAdmin) /\ roleClaim' \subseteq RoleNames
      /\ UNCHANGED <<store, roleName, drawnRoles, userRoles, twins, stayed>>
  BY DEF SetRoleClaim
<1> QED
  BY <1>1, NoAdminFacts, DeskStep DEF IInv, TypeOK

LEMMA RolesNextPreserves == ASSUME IInv, RolesNext, UNCHANGED authVars PROVE IInv'
BY CreateRolePreserves, RenameRolePreserves, CheckRoleNamePreserves, StoreRolePreserves,
   DeleteRolePreserves, ResolveRolePreserves, AddToRolePreserves, RemoveFromRolePreserves,
   SetRoleClaimPreserves DEF RolesNext

-----------------------------------------------------------------------------
LEMMA InitIInv == Init => IInv
<1> SUFFICES ASSUME Init PROVE IInv
  OBVIOUS
<1>1. RoleTypes
  <2>1. 0 \in 0..MaxRoles
    BY RoleBounds
  <2> QED
    BY <2>1, NoAdminFacts DEF Init, RolesInit, RoleTypes
<1>2. RolesInv
  <2>1. \A c \in Calls : admin[c] = NoAdmin
    BY DEF Init, RolesInit
  <2>2. \A c \in Calls : AdminInv(admin[c])
    BY <2>1, NoAdminFacts
  <2>3. NamesUnique /\ ~stayed
    BY DEF Init, RolesInit, NamesUnique
  <2> QED
    BY <2>2, <2>3 DEF RolesInv
<1>3. WorldTypes
  <2>1. 0 \in 0..MaxTime /\ 0 \in 0..MaxStamp /\ 0 \in 0..MaxKeys /\ 1 \in 0..MaxKeys
        /\ 1 \in 1..MaxKeys /\ 0 \in 0..(MaxTime + Lifetime)
    BY AuthBounds
  <2>2. user \in User /\ user.live
    BY <2>1 DEF Init, User
  <2>3. (CHOOSE k \in Kids : TRUE) \in Kids
    BY DEF Init
  <2>4. cred \in Cred
    BY <2>1, <2>3 DEF Init, NoCred, Cred
  <2>5. ring \in [Kids -> 0..MaxKeys]
    BY <2>1 DEF Init
  <2> QED
    BY <2>1, <2>2, <2>4, <2>5 DEF Init, WorldTypes, Record
<1>4. RequestTypes /\ PlaceInv /\ HistoryInv /\ CredentialsDecide
  BY DEF Init, NoRequest, Request, Places, RequestTypes, PlaceInv, At, HistoryInv, CredentialsDecide, Verdict
<1> QED
  BY <1>1, <1>2, <1>3, <1>4, TypeParts DEF IInv

LEMMA StutterPreserves == ASSUME IInv, UNCHANGED vars PROVE IInv'
<1>1. UNCHANGED roleVars /\ UNCHANGED authVars
  BY DEF vars
<1> QED
  BY <1>1, SameRoles, SameRequest, TypeParts DEF IInv

LEMMA Invariance == Spec => []IInv
<1>1. IInv /\ [Next]_vars => IInv'
  BY AuthNextPreserves, RolesNextPreserves, StutterPreserves DEF Next
<1> QED
  BY <1>1, InitIInv, PTL DEF Spec

\* The tables, calls and histories are what their declarations say in every
\* reachable state; a grant or an API key outlives its user only in the stores
\* without foreign keys (deleteUserCascade, CreateAPIKey).
THEOREM TypeCorrect == Spec => []TypeOK
<1>1. IInv => TypeOK
  BY DEF IInv
<1> QED
  BY <1>1, Invariance, PTL

\* auth.Middleware: whatever happens to the user, the signing keys and the
\* records between the reads of a request, it is given a principal only by the
\* mechanism of its credential and only if each condition held meanwhile, and is
\* refused only if one of them failed meanwhile.
THEOREM RequestsAreJudgedForCause == Spec => []CredentialsDecide
<1>1. IInv => CredentialsDecide
  BY DEF IInv
<1> QED
  BY <1>1, Invariance, PTL

\* RemoveFromRole: in every store and whatever runs meanwhile, the user is left in
\* no role of that name, unless the role the name was resolved to lost it before
\* the membership was deleted, or two calls gave it to two roles of the in-memory
\* store.
THEOREM RemovalsTakeEffect == Spec => []RemovalTakesEffect
<1>1. IInv => RemovalTakesEffect
  BY DEF IInv, RolesInv, RemovalTakesEffect
<1> QED
  BY <1>1, Invariance, PTL
=============================================================================
