---------------------------- MODULE RoleDirectory ----------------------------
(***************************************************************************)
(* Roles, the memberships and role-typed claims of one user, and what the  *)
(* two kinds of principal make of them (identity/role_manager.go, the role *)
(* and claim operations of the stores, auth/middleware.go, auth/policy.go).*)
(*                                                                         *)
(* A role is found by its name and joined by its id.  The in-memory store  *)
(* and pgxstore resolve the name and change the membership in one step;    *)
(* GORM and sqlc take two, and a role may be renamed, deleted or created   *)
(* again in between.                                                       *)
(***************************************************************************)
EXTENDS Integers, FiniteSets

CONSTANTS Stores,     \* the stores considered: "mem", "gorm", "pgx", "sqlc"
          MaxRoles,   \* bound on roles ever created
          RoleNames, NoName,
          Calls       \* concurrent administrative calls (goroutines)

ASSUME RoleBounds ==
  /\ Stores \subseteq {"mem", "gorm", "pgx", "sqlc"}
  /\ MaxRoles \in Nat /\ NoName \notin RoleNames

RoleIds == 1..MaxRoles

VARIABLES
  store,      \* the store of the deployment
  roleName,   \* roleName[r]: the name of role r, NoName when there is no such role
  drawnRoles, \* role ids handed out
  userRoles,  \* the roles that the user has a membership row for
  roleClaim,  \* the names that claims of type "role" give the user
  admin,      \* admin[c]: where call c is
  twins,      \* history: names that one call stored while another had found them free
  stayed      \* history: RemoveFromRole returned, its role still had the name, and the
              \* user is still in a role of that name

roleVars == <<store, roleName, drawnRoles, userRoles, roleClaim, admin, twins, stayed>>

Admin == [pc: {"idle", "create", "rename", "add", "remove"}, role: 0..MaxRoles,
          name: RoleNames \union {NoName}, checked: BOOLEAN, fresh: BOOLEAN]
NoAdmin == [pc |-> "idle", role |-> 0, name |-> NoName, checked |-> FALSE, fresh |-> TRUE]

RolesInit ==
  /\ store \in Stores
  /\ roleName = [r \in RoleIds |-> NoName] /\ drawnRoles = 0
  /\ userRoles = {} /\ roleClaim = {}
  /\ admin = [c \in Calls |-> NoAdmin]
  /\ twins = {} /\ stayed = FALSE

-----------------------------------------------------------------------------
(* The stores *)

Exists(r) == r \in RoleIds /\ roleName[r] # NoName
Named(n) == {r \in RoleIds : roleName[r] = n /\ n # NoName}

\* The unique index on normalized_name; the in-memory store has none.
RoleIndex(r, n) == store = "mem" \/ Named(n) \subseteq {r}

\* A membership row may refer to existing roles only.
RoleRefers(r) == store \in {"pgx", "sqlc"} => Exists(r)

\* Whether name and membership are one statement, or one locked section.
OneStep == store \in {"mem", "pgx"}

\* GetRoles joins memberships with the roles that exist.
GetRoles == {roleName[r] : r \in {r \in userRoles : Exists(r)}}

Step(c, k) == admin' = [admin EXCEPT ![c] = k]

-----------------------------------------------------------------------------
(* RoleManager *)

\* Create, up to the look-up of the name.
CreateRole(c, n) ==
  /\ admin[c].pc = "idle" /\ drawnRoles < MaxRoles
  /\ drawnRoles' = drawnRoles + 1
  /\ Step(c, [NoAdmin EXCEPT !.pc = "create", !.role = drawnRoles', !.name = n])
  /\ UNCHANGED <<store, roleName, userRoles, roleClaim, twins, stayed>>

\* Update: a new name for role r, from a copy with the current stamp.
RenameRole(c, r, n) ==
  /\ admin[c].pc = "idle" /\ Exists(r)
  /\ Step(c, [NoAdmin EXCEPT !.pc = "rename", !.role = r, !.name = n])
  /\ UNCHANGED <<store, roleName, drawnRoles, userRoles, roleClaim, twins, stayed>>

\* Mutant: Update does not look the name up.
RoleFree_Create(c) == admin[c].pc = "rename" \/ Named(admin[c].name) = {}

\* FindByName finds no other role of that name.
RoleFree(c) == Named(admin[c].name) \subseteq {admin[c].role}

CheckRoleName(c) ==
  /\ admin[c].pc \in {"create", "rename"} /\ ~admin[c].checked
  /\ Step(c, IF RoleFree(c)
             THEN [admin[c] EXCEPT !.checked = TRUE] ELSE NoAdmin)
  /\ UNCHANGED <<store, roleName, drawnRoles, userRoles, roleClaim, twins, stayed>>

\* UPDATE ... WHERE id AND concurrency_stamp: the role is there and is the copy.
RoleCurrent(c) == Exists(admin[c].role) /\ admin[c].fresh

\* Store.Create and Store.Update.
StoreRole(c) ==
  /\ admin[c].pc \in {"create", "rename"} /\ admin[c].checked
  /\ IF RoleIndex(admin[c].role, admin[c].name) /\ (admin[c].pc = "rename" => RoleCurrent(c))
       THEN /\ roleName' = [roleName EXCEPT ![admin[c].role] = admin[c].name]
            /\ twins' = twins \union {n \in {admin[c].name} :
                 \E d \in Calls \ {c} : admin[d].name = n /\ admin[d].checked}
            /\ admin' = [d \in Calls |->
                 IF d = c THEN NoAdmin
                 ELSE [admin[d] EXCEPT !.fresh = @ /\ admin[d].role # admin[c].role]]
       ELSE UNCHANGED <<roleName, twins>> /\ Step(c, NoAdmin)
  /\ UNCHANGED <<store, drawnRoles, userRoles, roleClaim, stayed>>

\* Delete; the memberships go with it where a foreign key says so.
DeleteRole(c, r) ==
  /\ admin[c].pc = "idle" /\ Exists(r)
  /\ roleName' = [roleName EXCEPT ![r] = NoName]
  /\ userRoles' = IF store \in {"pgx", "sqlc"} THEN userRoles \ {r} ELSE userRoles
  /\ Step(c, NoAdmin)
  /\ UNCHANGED <<store, drawnRoles, roleClaim, twins, stayed>>

-----------------------------------------------------------------------------
(* Memberships and claims *)

\* The id that a name is resolved to first, in the stores that take two steps.
ResolveRole(c, n, op) ==
  /\ ~OneStep /\ admin[c].pc = "idle"
  /\ \E r \in Named(n) :
       Step(c, [NoAdmin EXCEPT !.pc = op, !.role = r, !.name = n])
  /\ UNCHANGED <<store, roleName, drawnRoles, userRoles, roleClaim, twins, stayed>>

\* The role that a call changes the membership of: the one resolved, or the one
\* of that name now; among twins the in-memory store takes any.
Target(c, n, op) ==
  IF OneStep THEN {r \in Named(n) : admin[c].pc = "idle"}
  ELSE {r \in {admin[c].role} : admin[c].pc = op /\ admin[c].name = n}

\* An insert that does nothing when the row is there.
AddToRole(c, n) ==
  /\ \E r \in Target(c, n, "add") :
       userRoles' = IF RoleRefers(r) THEN userRoles \union {r} ELSE userRoles
  /\ Step(c, NoAdmin)
  /\ UNCHANGED <<store, roleName, drawnRoles, roleClaim, twins, stayed>>

RemoveFromRole(c, n) ==
  /\ \E r \in Target(c, n, "remove") :
       /\ userRoles' = userRoles \ {r}
       /\ stayed' = (stayed \/ /\ roleName[r] = n /\ n \notin twins
                               /\ \E q \in userRoles' : roleName[q] = n)
  /\ Step(c, NoAdmin)
  /\ UNCHANGED <<store, roleName, drawnRoles, roleClaim, twins>>

\* AddClaims and RemoveClaims with a claim of type "role".
SetRoleClaim(c, ns) ==
  /\ admin[c].pc = "idle" /\ ns # roleClaim
  /\ roleClaim' = ns
  /\ Step(c, NoAdmin)
  /\ UNCHANGED <<store, roleName, drawnRoles, userRoles, twins, stayed>>

RolesNext ==
  \E c \in Calls :
    \/ \E n \in RoleNames : CreateRole(c, n) \/ \E r \in RoleIds : RenameRole(c, r, n)
    \/ CheckRoleName(c) \/ StoreRole(c)
    \/ \E r \in RoleIds : DeleteRole(c, r)
    \/ \E n \in RoleNames, op \in {"add", "remove"} : ResolveRole(c, n, op)
    \/ \E n \in RoleNames : AddToRole(c, n) \/ RemoveFromRole(c, n)
    \/ \E ns \in SUBSET RoleNames : SetRoleClaim(c, ns)

-----------------------------------------------------------------------------
(* What a principal may do *)

\* The "role" claim of a principal is a list of names, or one name, or absent;
\* it is decoded from JSON, or it is the Go slice itself.
Claim(form, names) == [form |-> form, names |-> names]

\* What a read of the store makes of these names when its failure is ignored.
Read(names) == {names, {}}

\* The loop over the user's claims: the first of a type is kept.
UserClaim(cs) == IF cs # {} THEN Claim("string", {CHOOSE n \in cs : TRUE}) ELSE Claim("none", {})

\* signAccessToken: the roles rs first, then the user's claims cs; and
\* rolesFromClaims, which reads the roles back from the claim.
TokenClaim(rs, cs) == IF rs # {} THEN Claim("array", rs) ELSE UserClaim(cs)
TokenPrincipal(rs, cs) == [roles |-> TokenClaim(rs, cs).names, claim |-> TokenClaim(rs, cs)]

\* Without the memberships there is no token; without the claims there is one.
TokenPrincipals == {TokenPrincipal(GetRoles, cs) : cs \in Read(roleClaim)}

\* authenticateAPIKey: the user's claims first, over which the []string of roles
\* is written; the principal's roles are the memberships.
KeyClaim(rs, cs) == IF rs # {} THEN Claim("slice", rs) ELSE UserClaim(cs)
KeyPrincipal(rs, cs) == [roles |-> rs, claim |-> KeyClaim(rs, cs)]

\* The errors of GetRoles and of GetClaims are both dropped.
KeyPrincipals == {KeyPrincipal(rs, cs) : rs \in Read(GetRoles), cs \in Read(roleClaim)}

\* RequireRole, and RequireClaim("role", n), which understands a string and a
\* decoded array and looks at the first element.
HasRole(p, n) == n \in p.roles
ClaimValue(p) == IF p.claim.form \in {"string", "array"} THEN {CHOOSE n \in p.claim.names : TRUE} ELSE {}
RequireClaim(p, n) == n \in ClaimValue(p)
=============================================================================
