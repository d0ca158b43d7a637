------------------------- MODULE ClientRegistration -------------------------
(***************************************************************************)
(* The life of a registered OAuth client: registration behind a rate limit *)
(* per address (oauth/register.go, ipLimiter in oauth/server.go), the      *)
(* redirect URIs it may use, its authentication at the token endpoint      *)
(* (authenticateClient in oauth/token.go) and the purge of clients nobody  *)
(* uses (DeleteStaleClients of the stores).                                *)
(*                                                                         *)
(* What a code exchange does to codes and grants is the subject of         *)
(* OAuthGrants; here it is the four moments at which it meets the client:  *)
(* the client is read, the clock is read and the code is spent, the grant  *)
(* is created, and the client is touched.  A metadata-document client has  *)
(* no row, so it can be neither touched nor purged and is not here.        *)
(***************************************************************************)
EXTENDS Integers, Sequences, FiniteSets, FiniteSetsExt

CONSTANTS Ids,          \* client ids newID draws from: a bound on the clients
          Ips,
          Requests,     \* concurrent token requests
          Submissions,  \* the metadata clients register with
          Asked,        \* the redirect URIs authorization requests name
          Ports, Paths,
          Limit,        \* Options.RegisterLimit
          Window,       \* ipLimiter.window
          MaxTime,      \* bound on the clock
          Stores,       \* the stores of the run: "mem", "gorm" or "pgx", which is pgxsqlc too
          NoId, NoURI

VARIABLES
  now,
  store,      \* which store it is
  hits,       \* ipLimiter.hits
  admitted,   \* history: admitted[ip]: when registrations got by, in their order
  clients,    \* the clients table
  codes,      \* codes[c]: the redirect URI of the client's unspent code
  grants,     \* the clients that hold a grant
  req,        \* req[r]: where the token request is
  purge,      \* the ids a purge has listed and not yet deleted
  used,       \* history: used[c]: the latest exchange of the client
  wronged,    \* history: deleted with a grant, or though used since the cutoff
  disturbed   \* history: an exchange overlapped a purge or another exchange of
              \* the same client, or its TouchClient was lost

limiterVars == <<hits, admitted>>
historyVars == <<used, wronged, disturbed>>
vars == <<now, store, limiterVars, clients, codes, grants, req, purge, historyVars>>

Times == 0..MaxTime
Never == -1      \* a nil LastUsedAt

Loopback == {"localhost", "127.0.0.1"}
URI == [scheme: {"https", "http", "other"}, host: Loopback \union {"app"},
        port: Ports, path: Paths, user: BOOLEAN, fragment: BOOLEAN]

\* "" is an absent method.
Metadata == [uris: SUBSET URI, method: {"", "none", "secret", "other"},
             grantTypes: SUBSET {"code", "refresh", "other"},
             responses: SUBSET {"code", "other"}]

NoClient == [there |-> FALSE, created |-> 0, lastUsed |-> Never, secret |-> FALSE, uris |-> {}]
Client == [there: BOOLEAN, created: Times, lastUsed: Times \union {Never},
           secret: BOOLEAN, uris: SUBSET URI]

NoWindow == [start |-> 0, n |-> 0]
Windows == [start: Times, n: 0..Limit]

Idle == [pc |-> "idle", client |-> NoId, at |-> 0]
Request == [pc: {"idle", "redeem", "create", "touch"}, client: Ids \union {NoId}, at: Times]

NoPurge == [ids |-> {}, before |-> 0]

ASSUME RegistrationBounds ==
  /\ Limit \in Nat \ {0} /\ Window \in Nat /\ MaxTime \in Nat
  /\ Submissions \subseteq Metadata /\ Asked \subseteq URI
  /\ NoId \notin Ids /\ NoURI \notin URI /\ IsFiniteSet(Requests)
  /\ Stores \subseteq {"mem", "gorm", "pgx"}

Init ==
  /\ now = 0
  /\ store \in Stores
  /\ hits = [ip \in Ips |-> NoWindow]
  /\ admitted = [ip \in Ips |-> <<>>]
  /\ clients = [c \in Ids |-> NoClient]
  /\ codes = [c \in Ids |-> NoURI]
  /\ grants = {}
  /\ req = [r \in Requests |-> Idle]
  /\ purge = NoPurge
  /\ used = [c \in Ids |-> Never]
  /\ wronged = {}
  /\ disturbed = {}

Tick ==
  /\ now < MaxTime
  /\ now' = now + 1
  /\ UNCHANGED <<store, limiterVars, clients, codes, grants, req, purge, historyVars>>

-----------------------------------------------------------------------------
(* The rate limit *)

\* Mutant: a window expires on its last moment.
Expired_Early(w) == w.n > 0 /\ now - w.start >= Window
Expired(w) == w.n > 0 /\ now - w.start > Window

\* Mutant: one more than the limit.
Full_More(w) == w.n > Limit
Full(w) == w.n >= Limit

\* More than ten thousand addresses, others than Ips among them, make allow
\* drop the expired windows first.
Swept(crowded) == IF crowded THEN [ip \in Ips |-> IF Expired(hits[ip]) THEN NoWindow ELSE hits[ip]]
                  ELSE hits

Restarts(w) == w.n = 0 \/ Expired(w)

Allowed(w) == Restarts(w) \/ ~Full(w)

Hit(w) == IF Restarts(w) THEN [start |-> now, n |-> 1] ELSE [w EXCEPT !.n = @ + 1]

\* allow, for an address of Ips.
Allow(ip, crowded) ==
  LET h == Swept(crowded) IN
  /\ Allowed(h[ip])
  /\ hits' = [h EXCEPT ![ip] = Hit(h[ip])]
  /\ admitted' = [admitted EXCEPT ![ip] = Append(@, now)]

\* allow refuses: the registration is answered with 429.
Refuse(ip, crowded) ==
  /\ ~Allowed(Swept(crowded)[ip])
  /\ hits' = Swept(crowded)
  /\ UNCHANGED <<now, store, admitted, clients, codes, grants, req, purge, historyVars>>

\* A registration from any other address may sweep too.
OthersRegister ==
  /\ \E ip \in Ips: Expired(hits[ip])
  /\ hits' = Swept(TRUE)
  /\ UNCHANGED <<now, store, admitted, clients, codes, grants, req, purge, historyVars>>

-----------------------------------------------------------------------------
(* Registration *)

validateRedirectURI(u) ==
  /\ ~u.fragment /\ ~u.user
  /\ \/ u.scheme = "https"
     \/ u.scheme = "http" /\ u.host \in Loopback

\* What register accepts: absent lists take their defaults, which are valid.
Registrable(m) ==
  /\ m.uris # {} /\ \A u \in m.uris: validateRedirectURI(u)
  /\ m.method # "other"
  /\ "other" \notin m.grantTypes
  /\ m.grantTypes # {} => "code" \in m.grantTypes
  /\ "other" \notin m.responses

\* An absent method is client_secret_basic: the client gets a secret.
HasSecret(m) == m.method # "none"

\* register, from CreateClient on; newID is a fresh id.
CreateClient(c, m) ==
  /\ clients[c] = NoClient
  /\ clients' = [clients EXCEPT ![c] =
       [there |-> TRUE, created |-> now, lastUsed |-> Never, secret |-> HasSecret(m), uris |-> m.uris]]

\* RegisterHandler: an attempt counts against the limit whatever comes of it.
RegisterHandler(ip, crowded, m) ==
  /\ Allow(ip, crowded)
  /\ \/ Registrable(m) /\ \E c \in Ids: CreateClient(c, m)
     \/ UNCHANGED clients      \* refused metadata, or the store failed
  /\ UNCHANGED <<now, store, codes, grants, req, purge, historyVars>>

\* RegisterClient: the application registers a client, and no limit applies.
RegisterClient(m) ==
  /\ Registrable(m)
  /\ \E c \in Ids: CreateClient(c, m)
  /\ UNCHANGED <<now, store, limiterVars, codes, grants, req, purge, historyVars>>

-----------------------------------------------------------------------------
(* Authorization *)

\* The second loop of matchRedirectURI: a loopback redirect may come back on any
\* port.  It compares host, path and query (here one path), so that the userinfo
\* may differ too.
SameButPort(g, u) ==
  /\ g.scheme = "http" /\ g.host \in Loopback
  /\ g.host = u.host /\ g.path = u.path

matchRedirectURI(registered, u) ==
  \/ u \in registered
  \/ /\ u.scheme = "http" /\ u.host \in Loopback /\ ~u.fragment
     /\ \E g \in registered: SameButPort(g, u)

\* An authorization request that leads to a code, as far as it reads the client.
Authorize(c, u) ==
  /\ clients[c].there
  /\ matchRedirectURI(clients[c].uris, u)
  /\ codes[c] = NoURI
  /\ codes' = [codes EXCEPT ![c] = u]
  /\ UNCHANGED <<now, store, limiterVars, clients, grants, req, purge, historyVars>>

-----------------------------------------------------------------------------
(* The token endpoint *)

\* What a token request shows of the client's secret, and where.  "absent" is
\* no Authorization header at all.
Presentation == [basic: {"absent", "none", "wrong", "right"}, form: {"none", "wrong", "right"},
                 sameId: BOOLEAN]

Secret(p) == IF p.basic # "absent" THEN p.basic ELSE p.form

SecretAccepted(c, p) == IF clients[c].secret THEN Secret(p) = "right" ELSE Secret(p) = "none"

\* authenticateClient, without client_assertion (ClientAssertions has that).
authenticateClient(r, c, p) ==
  /\ req[r] = Idle
  /\ p.basic # "absent" => p.form = "none" /\ p.sameId
  /\ clients[c].there      \* resolveClient
  /\ SecretAccepted(c, p)
  /\ req' = [req EXCEPT ![r] = [pc |-> "redeem", client |-> c, at |-> 0]]
  /\ UNCHANGED <<now, store, limiterVars, clients, codes, grants, purge, historyVars>>

\* exchangeCode, up to MarkCodeUsed.
Redeem(r) ==
  LET c == req[r].client IN
  /\ req[r].pc = "redeem"
  /\ codes[c] # NoURI
  /\ codes' = [codes EXCEPT ![c] = NoURI]
  /\ req' = [req EXCEPT ![r].pc = "create", ![r].at = now]
  /\ UNCHANGED <<now, store, limiterVars, clients, grants, purge, historyVars>>

Exchanging(c) == {r \in Requests: req[r].client = c}

\* CreateGrant.
CreateGrant(r) ==
  LET c == req[r].client IN
  /\ req[r].pc = "create"
  /\ grants' = grants \union {c}
  /\ used' = [used EXCEPT ![c] = Max({@, req[r].at})]
  /\ disturbed' = IF c \in purge.ids \/ Cardinality(Exchanging(c)) > 1
                  THEN disturbed \union {c} ELSE disturbed
  /\ req' = [req EXCEPT ![r].pc = "touch"]
  /\ UNCHANGED <<now, store, limiterVars, clients, codes, purge, wronged>>

\* Mutant: the client is not touched.
Touched_Not(c, at) == clients[c]
\* The update finds no row when the client is gone.
Touched(c, at) == IF clients[c].there THEN [clients[c] EXCEPT !.lastUsed = at] ELSE clients[c]

\* TouchClient, with the time the exchange read before it spent the code.
TouchClient(r) ==
  /\ req[r].pc = "touch"
  /\ clients' = [clients EXCEPT ![req[r].client] = Touched(req[r].client, req[r].at)]
  /\ req' = [req EXCEPT ![r] = Idle]
  /\ UNCHANGED <<now, store, limiterVars, codes, grants, purge, historyVars>>

\* The request is refused, a store call fails, or the process dies; the error
\* of TouchClient is ignored.
Abandon(r) ==
  /\ req[r] # Idle
  /\ req' = [req EXCEPT ![r] = Idle]
  /\ disturbed' = IF req[r].pc = "touch" THEN disturbed \union {req[r].client} ELSE disturbed
  /\ UNCHANGED <<now, store, limiterVars, clients, codes, grants, purge, used, wronged>>

\* The client's grants are revoked, or expire and are swept.
EndGrants(c) ==
  /\ c \in grants
  /\ grants' = grants \ {c}
  /\ UNCHANGED <<now, store, limiterVars, clients, codes, req, purge, historyVars>>

-----------------------------------------------------------------------------
(* The purge *)

\* Created before the cutoff, never used or used before it, and no grants.
Stale(c, before) ==
  /\ clients[c].there /\ clients[c].created < before
  /\ clients[c].lastUsed < before
  /\ c \notin grants

StaleClients(before) == {c \in Ids: Stale(c, before)}

\* The clients with these ids are deleted.
Delete(ids, before) ==
  /\ clients' = [c \in Ids |-> IF c \in ids THEN [clients[c] EXCEPT !.there = FALSE] ELSE clients[c]]
  /\ wronged' = wronged \union {c \in ids: clients[c].there /\ (c \in grants \/ used[c] >= before)}
  /\ disturbed' = disturbed \union {c \in ids: Exchanging(c) # {}}
  /\ purge' = NoPurge

\* DeleteStaleClients under the lock of the in-memory store, or as one statement
\* of pgxstore and pgxsqlc.
PurgeStaleClients(before) ==
  /\ store # "gorm"
  /\ Delete(StaleClients(before), before)
  /\ UNCHANGED <<now, store, limiterVars, codes, grants, req, used>>

\* DeleteStaleClients of gormstore: a query for the ids, then a delete by id.
ListStaleClients(before) ==
  /\ store = "gorm" /\ purge = NoPurge
  /\ StaleClients(before) # {}
  /\ purge' = [ids |-> StaleClients(before), before |-> before]
  /\ disturbed' = disturbed \union {c \in StaleClients(before): Exchanging(c) # {}}
  /\ UNCHANGED <<now, store, limiterVars, clients, codes, grants, req, used, wronged>>

DeleteListed ==
  /\ purge # NoPurge
  /\ Delete(purge.ids, purge.before)
  /\ UNCHANGED <<now, store, limiterVars, codes, grants, req, used>>

-----------------------------------------------------------------------------
Next ==
  \/ Tick
  \/ OthersRegister
  \/ \E ip \in Ips, crowded \in BOOLEAN:
       \/ Refuse(ip, crowded)
       \/ \E m \in Submissions: RegisterHandler(ip, crowded, m)
  \/ \E m \in Submissions: RegisterClient(m)
  \/ \E c \in Ids: \/ \E u \in Asked: Authorize(c, u)
                   \/ EndGrants(c)
                   \/ \E r \in Requests, p \in Presentation: authenticateClient(r, c, p)
  \/ \E r \in Requests: Redeem(r) \/ CreateGrant(r) \/ TouchClient(r) \/ Abandon(r)
  \/ \E before \in 0..now: PurgeStaleClients(before) \/ ListStaleClients(before)
  \/ DeleteListed

Spec == Init /\ [][Next]_vars

-----------------------------------------------------------------------------
(* Properties *)

\* The tables, requests and histories are what their declarations say; in
\* particular no window of the limiter counts past the limit or starts in the
\* future, whatever allow sweeps.
TypeOK ==
  /\ now \in Times
  /\ store \in Stores
  /\ hits \in [Ips -> Windows]
  /\ \A ip \in Ips: hits[ip].start <= now
  /\ admitted \in [Ips -> Seq(Times)]
  /\ clients \in [Ids -> Client]
  /\ codes \in [Ids -> URI \union {NoURI}]
  /\ grants \subseteq Ids
  /\ req \in [Requests -> Request]
  /\ purge.ids \subseteq Ids /\ purge.before \in Times
  /\ used \in [Ids -> Times \union {Never}]
  /\ wronged \subseteq Ids /\ disturbed \subseteq Ids

\* The fixed window (allow, server.go) lets fewer than twice the limit by in any
\* stretch of time as long as the window, whatever is swept in between: of so
\* many registrations the last comes more than a window after the first.  And it
\* turns one away only when the limit was reached within the window before.
RegistrationRate ==
  \A ip \in Ips:
    LET log == admitted[ip] IN
    /\ \A i, j \in DOMAIN log: j - i >= 2 * Limit - 1 => log[j] - log[i] > Window
    /\ ~Allowed(hits[ip]) =>
         Len(log) >= Limit /\ now - log[Len(log) - Limit + 1] <= Window

\* PurgeStaleClients takes no client away that holds a grant or was used since
\* the cutoff, and no grant is left without its client: unless an exchange of
\* that client overlapped the purge or another exchange, or TouchClient failed.
PurgeSparesUsed ==
  /\ wronged \subseteq disturbed
  /\ \A c \in grants: clients[c].there \/ c \in disturbed

\* A code leaves over https or for the user's own machine, and for a redirect
\* URI that its client registered, or for one that differs from a registered
\* loopback URI in port and userinfo only.  matchRedirectURI speaks of the port
\* alone; its code ignores the userinfo as well (README, known divergences).
RedirectsAreRegistered ==
  \A c \in Ids: codes[c] # NoURI =>
    /\ codes[c].scheme = "https" \/ codes[c].host \in Loopback
    /\ \E g \in clients[c].uris:
         \/ codes[c] = g
         \/ g.host \in Loopback /\ [codes[c] EXCEPT !.port = g.port, !.user = g.user] = g

\* What a grant stands on: a client that no purge takes from under it, but for
\* the overlaps that disturbed names, and codes that went where registration
\* (validateRedirectURI) and authorization (matchRedirectURI) let them go.
GrantsAreAccountedFor == PurgeSparesUsed /\ RedirectsAreRegistered
=============================================================================
