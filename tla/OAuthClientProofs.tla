------------------------- MODULE OAuthClientProofs -------------------------
(***************************************************************************)
(* Proofs about the clients of the authorization server, for any number of *)
(* clients, users, requests, addresses, redirect URIs and scopes: how they *)
(* register, act and are purged (ClientRegistration), and what users let   *)
(* them do (OAuthConsent).                                                 *)
(*                                                                         *)
(* A registered client outside disturbed was last used when its row says,  *)
(* or by an exchange that has created its grant and is about to touch the  *)
(* row.  A purge that takes the client away meets that exchange, and notes *)
(* it.                                                                     *)
(***************************************************************************)
EXTENDS ClientRegistration, OAuthConsent, FiniteSetTheorems, TLAPS

\* What is true of a token request.
RequestInv(k) ==
  /\ k.pc = "idle" => k = Idle
  /\ k.pc # "idle" =>
       /\ k.client \in Ids /\ clients[k.client].uris # {}
       /\ clients[k.client].there \/ k.client \in disturbed
       /\ k.at <= now
  /\ k.pc \in {"create", "touch"} => used[k.client] <= k.at \/ k.client \in disturbed

\* What a row of the clients table is.
RowInv(c) ==
  /\ \A u \in clients[c].uris : validateRedirectURI(u)
  /\ clients[c].uris = {} => clients[c] = NoClient /\ used[c] = Never

CodeInv(c) ==
  codes[c] # NoURI =>
    \E g \in clients[c].uris :
      \/ codes[c] = g
      \/ g.host \in Loopback /\ [codes[c] EXCEPT !.port = g.port, !.user = g.user] = g

\* The row of an undisturbed client says when it was used, but for an exchange
\* that has yet to touch it.
UseInv(c) ==
  /\ used[c] <= now
  /\ clients[c].there => c \in disturbed \/ used[c] <= clients[c].lastUsed
                         \/ \E r \in Requests : req[r].client = c /\ req[r].pc = "touch"

PurgeInv(c) ==
  /\ c \in grants => clients[c].there \/ c \in disturbed
  /\ c \in purge.ids => c \in disturbed \/ (c \notin grants /\ used[c] < purge.before)

ClientInv(c) == RowInv(c) /\ CodeInv(c) /\ UseInv(c) /\ PurgeInv(c)

IInv ==
  /\ TypeOK
  /\ \A r \in Requests : RequestInv(req[r])
  /\ \A c \in Ids : ClientInv(c)
  /\ wronged \subseteq disturbed

\* The two halves of the type invariant.
LimiterTypes ==
  /\ hits \in [Ips -> Windows] /\ (\A ip \in Ips : hits[ip].start <= now)
  /\ admitted \in [Ips -> Seq(Times)]

TableTypes ==
  /\ now \in Times /\ store \in Stores /\ clients \in [Ids -> Client]
  /\ codes \in [Ids -> URI \union {NoURI}] /\ grants \subseteq Ids /\ req \in [Requests -> Request]
  /\ purge.ids \subseteq Ids /\ purge.before \in Times
  /\ used \in [Ids -> Times \union {Never}] /\ wronged \subseteq Ids /\ disturbed \subseteq Ids

LEMMA TypeParts ==
  /\ TypeOK <=> LimiterTypes /\ TableTypes
  /\ TypeOK' <=> LimiterTypes' /\ TableTypes'
BY DEF TypeOK, LimiterTypes, TableTypes

LEMMA Numbers ==
  /\ MaxTime \in Nat /\ Limit \in Nat /\ 0 \in Times /\ 0 \in 0..Limit /\ Never = -1 /\ Never \notin Times
  /\ \A t \in Times : t \in Int /\ 0 <= t
BY RegistrationBounds DEF Times, Never

LEMMA Nulls ==
  /\ NoClient \in Client /\ NoClient.uris = {} /\ ~NoClient.there
  /\ Idle \in Request /\ Idle.pc = "idle" /\ Idle.client = NoId /\ NoId \notin Ids
  /\ NoWindow \in Windows /\ NoWindow.start = 0
<1>1. NoClient \in Client /\ NoClient.uris = {} /\ ~NoClient.there
  BY Numbers DEF NoClient, Client
<1>2. Idle \in Request /\ Idle.pc = "idle" /\ Idle.client = NoId
  BY Numbers DEF Idle, Request
<1> QED
  BY <1>1, <1>2, Numbers, RegistrationBounds DEF NoWindow, Windows

LEMMA IdleInv == RequestInv(Idle)'
BY Nulls DEF RequestInv

LEMMA RequestFacts ==
  ASSUME IInv, NEW r \in Requests
  PROVE  /\ req[r] \in Request /\ RequestInv(req[r]) /\ req[r].at \in Times
         /\ req[r].client \in Ids \union {NoId}
         /\ req[r].client \in Ids <=> req[r].pc # "idle"
<1>1. req[r] \in Request /\ RequestInv(req[r])
  BY DEF IInv, TypeOK
<1>2. req[r].client \in Ids <=> req[r].pc # "idle"
  BY <1>1, Nulls DEF RequestInv
<1> QED
  BY <1>1, <1>2 DEF Request

LEMMA ClientFacts ==
  ASSUME IInv, NEW c \in Ids
  PROVE  /\ clients[c] \in Client /\ clients[c].lastUsed \in Times \union {Never}
         /\ clients[c].uris \in SUBSET URI /\ clients[c].there \in BOOLEAN
         /\ clients[c].created \in Times /\ clients[c].secret \in BOOLEAN
         /\ used[c] \in Times \union {Never} /\ used[c] \in Int /\ clients[c].lastUsed \in Int
         /\ ClientInv(c)
<1>1. clients[c] \in Client /\ used[c] \in Times \union {Never} /\ ClientInv(c)
  BY DEF IInv, TypeOK
<1>2. clients[c].lastUsed \in Times \union {Never}
  BY <1>1 DEF Client
<1>3. \A t \in Times \union {Never} : t \in Int
  BY Numbers
<1> QED
  BY <1>1, <1>2, <1>3 DEF Client

LEMMA InitIInv == Init => IInv
<1> SUFFICES ASSUME Init PROVE IInv
  OBVIOUS
<1>1. LimiterTypes
  <2>1. hits \in [Ips -> Windows] /\ \A ip \in Ips : hits[ip].start = 0
    BY Nulls DEF Init
  <2>2. admitted \in [Ips -> Seq(Times)]
    BY DEF Init
  <2> QED
    BY <2>1, <2>2 DEF Init, LimiterTypes
<1>2. TableTypes
  BY Nulls, Numbers DEF Init, TableTypes, NoPurge
<1>3. \A r \in Requests : RequestInv(req[r])
  BY Nulls DEF Init, RequestInv
<1>4. ASSUME NEW c \in Ids PROVE ClientInv(c)
  <2>1. clients[c] = NoClient /\ codes[c] = NoURI /\ used[c] = Never
    BY DEF Init
  <2>2. -1 <= 0
    OBVIOUS
  <2>3. used[c] <= now
    BY <2>1, <2>2 DEF Init, Never
  <2> QED
    BY <2>1, <2>3, Nulls DEF Init, ClientInv, RowInv, CodeInv, UseInv, PurgeInv, NoPurge
<1> QED
  BY <1>1, <1>2, <1>3, <1>4, TypeParts DEF Init, IInv

-----------------------------------------------------------------------------
(* The rate limit *)

LEMMA SweptFacts ==
  ASSUME IInv, NEW crowded
  PROVE  Swept(crowded) \in [Ips -> Windows] /\ \A ip \in Ips : Swept(crowded)[ip].start <= now
<1>1. hits \in [Ips -> Windows] /\ (\A ip \in Ips : hits[ip].start <= now) /\ now \in Times
  BY DEF IInv, TypeOK
<1>2. CASE crowded
  <2>1. Swept(crowded) = [ip \in Ips |-> IF Expired(hits[ip]) THEN NoWindow ELSE hits[ip]]
    BY <1>2 DEF Swept
  <2>2. 0 <= now
    BY <1>1, Numbers
  <2> QED
    BY <1>1, <2>1, <2>2, Nulls
<1>3. CASE ~crowded
  BY <1>1, <1>3 DEF Swept
<1> QED
  BY <1>2, <1>3

LEMMA HitFacts ==
  ASSUME now \in Times, NEW w \in Windows, w.start <= now, Allowed(w)
  PROVE  Hit(w) \in Windows /\ Hit(w).start <= now
<1>1. w.start \in Times /\ w.n \in 0..Limit /\ now \in Int /\ Limit \in Nat \ {0}
  BY Numbers, RegistrationBounds DEF Windows
<1>2. CASE Restarts(w)
  <2>1. Hit(w) = [start |-> now, n |-> 1] /\ 1 \in 0..Limit
    BY <1>1, <1>2 DEF Hit
  <2> QED
    BY <1>1, <2>1 DEF Windows
<1>3. CASE ~Restarts(w)
  <2>1. w.n + 1 \in 0..Limit
    BY <1>1, <1>3 DEF Allowed, Full
  <2>2. Hit(w) = [w EXCEPT !.n = w.n + 1]
    BY <1>3 DEF Hit
  <2> QED
    BY <1>1, <2>1, <2>2 DEF Windows
<1> QED
  BY <1>2, <1>3

LEMMA AllowTypes ==
  ASSUME IInv, NEW ip \in Ips, NEW crowded, Allow(ip, crowded), now' = now PROVE LimiterTypes'
<1>1. PICK h : h = Swept(crowded) /\ h \in [Ips -> Windows] /\ \A i \in Ips : h[i].start <= now
  BY SweptFacts
<1>2. now \in Times /\ admitted \in [Ips -> Seq(Times)]
  BY DEF IInv, TypeOK
<1>3. Allowed(h[ip])
  BY <1>1 DEF Allow
<1>4. PICK w : w = Hit(h[ip]) /\ w \in Windows /\ w.start <= now
  BY <1>1, <1>2, <1>3, HitFacts
<1>5. hits' = [h EXCEPT ![ip] = w]
  BY <1>1, <1>4 DEF Allow
<1>6. admitted' = [admitted EXCEPT ![ip] = Append(@, now)]
  BY DEF Allow
<1>7. admitted' \in [Ips -> Seq(Times)]
  BY <1>2, <1>6
<1> QED
  BY <1>1, <1>4, <1>5, <1>7 DEF LimiterTypes

LEMMA SweptTypes ==
  ASSUME IInv, NEW crowded, hits' = Swept(crowded), UNCHANGED <<now, admitted>> PROVE LimiterTypes'
BY SweptFacts DEF LimiterTypes, IInv, TypeOK

\* A step of the limiter, or of the clock, alone.
LEMMA LimiterStep ==
  ASSUME IInv, LimiterTypes', now' \in Times, now <= now',
         UNCHANGED <<store, clients, codes, grants, req, purge, used, wronged, disturbed>>
  PROVE  IInv'
<1>1. TableTypes'
  BY TypeParts DEF IInv, TableTypes
<1>2. now \in Int /\ now' \in Int
  BY Numbers DEF IInv, TypeOK
<1>3. ASSUME NEW r \in Requests PROVE RequestInv(req[r])'
  <2>1. PICK a : a = req[r].at /\ a \in Times
    BY RequestFacts
  <2>2. a \in Int
    BY <2>1, Numbers
  <2>3. a <= now => a <= now'
    BY <1>2, <2>2
  <2>4. RequestInv(req[r])
    BY RequestFacts
  <2> QED
    BY <2>1, <2>3, <2>4 DEF RequestInv
<1>4. ASSUME NEW c \in Ids PROVE ClientInv(c)'
  <2>1. used[c] <= now => used[c] <= now'
    BY <1>2, ClientFacts
  <2>2. ClientInv(c)
    BY ClientFacts
  <2> QED
    BY <2>1, <2>2 DEF ClientInv, RowInv, CodeInv, UseInv, PurgeInv
<1> QED
  BY <1>1, <1>3, <1>4, TypeParts DEF IInv

LEMMA TickPreserves == ASSUME IInv, Tick PROVE IInv'
<1>1. /\ now' = now + 1 /\ now < MaxTime
      /\ UNCHANGED <<store, hits, admitted, clients, codes, grants, req, purge, used, wronged, disturbed>>
  BY DEF Tick, limiterVars, historyVars
<1>2. now \in Times /\ now' \in Times /\ now <= now' /\ now \in Int
  BY <1>1, RegistrationBounds DEF IInv, TypeOK, Times
<1>3. LimiterTypes'
  <2>1. hits \in [Ips -> Windows] /\ admitted \in [Ips -> Seq(Times)]
    BY DEF IInv, TypeOK
  <2>2. ASSUME NEW ip \in Ips PROVE hits[ip].start <= now'
    <3>1. hits[ip].start \in Times /\ hits[ip].start <= now
      BY <2>1 DEF Windows, IInv, TypeOK
    <3>2. hits[ip].start \in Int
      BY <3>1, Numbers
    <3> QED
      BY <1>1, <1>2, <3>1, <3>2
  <2> QED
    BY <1>1, <2>1, <2>2 DEF LimiterTypes
<1> QED
  BY <1>1, <1>2, <1>3, LimiterStep

LEMMA SameTime == ASSUME IInv, now' = now PROVE now' \in Times /\ now <= now'
BY Numbers DEF IInv, TypeOK

LEMMA RefusePreserves == ASSUME IInv, NEW ip \in Ips, NEW crowded, Refuse(ip, crowded) PROVE IInv'
<1>1. /\ hits' = Swept(crowded)
      /\ UNCHANGED <<now, store, admitted, clients, codes, grants, req, purge, used, wronged, disturbed>>
  BY DEF Refuse, historyVars
<1> QED
  BY <1>1, SweptTypes, SameTime, LimiterStep

LEMMA OthersRegisterPreserves == ASSUME IInv, OthersRegister PROVE IInv'
<1>1. /\ hits' = Swept(TRUE)
      /\ UNCHANGED <<now, store, admitted, clients, codes, grants, req, purge, used, wronged, disturbed>>
  BY DEF OthersRegister, historyVars
<1> QED
  BY <1>1, SweptTypes, SameTime, LimiterStep

-----------------------------------------------------------------------------
(* Registration *)

LEMMA CreateClientPreserves ==
  ASSUME IInv, LimiterTypes', NEW c \in Ids, NEW m \in Submissions, Registrable(m), CreateClient(c, m),
         UNCHANGED <<now, store, codes, grants, req, purge, used, wronged, disturbed>>
  PROVE  IInv'
<1>1. PICK k : k = [there |-> TRUE, created |-> now, lastUsed |-> Never,
                    secret |-> HasSecret(m), uris |-> m.uris]
  OBVIOUS
<1>2. clients[c] = NoClient /\ clients' = [clients EXCEPT ![c] = k]
  BY <1>1 DEF CreateClient
<1>3. m.uris \in SUBSET URI /\ m.uris # {} /\ \A u \in m.uris : validateRedirectURI(u)
  BY RegistrationBounds DEF Metadata, Registrable
<1>4. k \in Client /\ k.there /\ k.lastUsed = Never /\ k.uris = m.uris
  <2>1. now \in Times /\ HasSecret(m) \in BOOLEAN
    BY DEF IInv, TypeOK, HasSecret
  <2> QED
    BY <1>1, <1>3, <2>1 DEF Client
<1>5. clients'[c] = k /\ clients' \in [Ids -> Client] /\ \A d \in Ids : d # c => clients'[d] = clients[d]
  BY <1>2, <1>4 DEF IInv, TypeOK
<1>6. TableTypes'
  BY <1>5, TypeParts DEF IInv, TableTypes
<1>7. ASSUME NEW r \in Requests PROVE RequestInv(req[r])'
  <2>1. RequestInv(req[r]) /\ req[r].client # c
    BY <1>2, RequestFacts, Nulls DEF RequestInv
  <2> QED
    BY <1>5, <2>1 DEF RequestInv
<1>8. ASSUME NEW d \in Ids PROVE ClientInv(d)'
  <2>1. ClientInv(d) /\ used[d] \in Int
    BY ClientFacts
  <2>2. CASE d # c
    BY <1>5, <2>1, <2>2 DEF ClientInv, RowInv, CodeInv, UseInv, PurgeInv
  <2>3. CASE d = c
    <3>1. used[d] = Never /\ codes[d] = NoURI
      BY <1>2, <2>1, <2>3, Nulls DEF ClientInv, RowInv, CodeInv
    <3>2. used[d] <= k.lastUsed
      BY <1>4, <2>1, <3>1
    <3>3. RowInv(d)'
      BY <1>3, <1>4, <1>5, <2>3 DEF RowInv, validateRedirectURI
    <3> QED
      BY <1>4, <1>5, <2>1, <2>3, <3>1, <3>2, <3>3 DEF ClientInv, CodeInv, UseInv, PurgeInv
  <2> QED
    BY <2>2, <2>3
<1> QED
  BY <1>6, <1>7, <1>8, TypeParts DEF IInv

LEMMA RegisterHandlerPreserves ==
  ASSUME IInv, NEW ip \in Ips, NEW crowded, NEW m \in Submissions, RegisterHandler(ip, crowded, m) PROVE IInv'
<1>1. Allow(ip, crowded) /\ UNCHANGED <<now, store, codes, grants, req, purge, used, wronged, disturbed>>
  BY DEF RegisterHandler, historyVars
<1>2. LimiterTypes'
  BY <1>1, AllowTypes
<1>3. CASE UNCHANGED clients
  BY <1>1, <1>2, <1>3, SameTime, LimiterStep
<1>4. CASE Registrable(m) /\ \E c \in Ids : CreateClient(c, m)
  BY <1>1, <1>2, <1>4, CreateClientPreserves
<1> QED
  BY <1>3, <1>4 DEF RegisterHandler

LEMMA RegisterClientPreserves == ASSUME IInv, NEW m \in Submissions, RegisterClient(m) PROVE IInv'
<1>1. UNCHANGED <<now, store, hits, admitted, codes, grants, req, purge, used, wronged, disturbed>>
  BY DEF RegisterClient, historyVars, limiterVars
<1>2. LimiterTypes'
  BY <1>1, TypeParts DEF IInv, LimiterTypes
<1> QED
  BY <1>1, <1>2, CreateClientPreserves DEF RegisterClient

-----------------------------------------------------------------------------
(* Authorization *)

LEMMA LimiterAlone ==
  ASSUME IInv, UNCHANGED <<now, hits, admitted>> PROVE LimiterTypes'
BY TypeParts DEF IInv, LimiterTypes

LEMMA SamePortRedirect ==
  ASSUME NEW u \in URI, NEW g \in URI, ~u.fragment, ~g.fragment,
         u.scheme = "http", SameButPort(g, u)
  PROVE  g.host \in Loopback /\ [u EXCEPT !.port = g.port, !.user = g.user] = g
BY DEF URI, SameButPort

LEMMA AuthorizePreserves == ASSUME IInv, NEW c \in Ids, NEW u \in Asked, Authorize(c, u) PROVE IInv'
<1>1. /\ clients[c].there /\ matchRedirectURI(clients[c].uris, u)
      /\ codes' = [codes EXCEPT ![c] = u]
      /\ UNCHANGED <<now, store, hits, admitted, clients, grants, req, purge, used, wronged, disturbed>>
  BY DEF Authorize, historyVars, limiterVars
<1>2. u \in URI
  BY RegistrationBounds
<1>3. TableTypes'
  BY <1>1, <1>2, TypeParts DEF IInv, TableTypes
<1>4. ASSUME NEW r \in Requests PROVE RequestInv(req[r])'
  BY <1>1, RequestFacts DEF RequestInv
<1>5. ASSUME NEW d \in Ids PROVE ClientInv(d)'
  <2>1. ClientInv(d)
    BY ClientFacts
  <2>2. CodeInv(d)'
    <3>1. CASE d # c
      <4>1. codes'[d] = codes[d]
        BY <1>1, <3>1 DEF IInv, TypeOK
      <4> QED
        BY <1>1, <2>1, <4>1 DEF ClientInv, CodeInv
    <3>2. CASE d = c
      <4>1. codes'[c] = u /\ clients'[c] = clients[c]
        BY <1>1 DEF IInv, TypeOK
      <4>2. CASE u \in clients[c].uris
        BY <3>2, <4>1, <4>2 DEF CodeInv
      <4>3. CASE u.scheme = "http" /\ ~u.fragment /\ \E g \in clients[c].uris : SameButPort(g, u)
        <5>1. PICK g \in clients[c].uris : SameButPort(g, u)
          BY <4>3
        <5>2. g \in URI /\ ~g.fragment
          BY <2>1, <3>2, <5>1, ClientFacts DEF ClientInv, RowInv, validateRedirectURI
        <5>3. g.host \in Loopback /\ [u EXCEPT !.port = g.port, !.user = g.user] = g
          BY <1>2, <4>3, <5>1, <5>2, SamePortRedirect
        <5> QED
          BY <3>2, <4>1, <5>1, <5>3 DEF CodeInv
      <4> QED
        BY <1>1, <4>2, <4>3 DEF matchRedirectURI
    <3> QED
      BY <3>1, <3>2
  <2> QED
    BY <1>1, <2>1, <2>2 DEF ClientInv, RowInv, UseInv, PurgeInv
<1> QED
  BY <1>1, <1>3, <1>4, <1>5, LimiterAlone, TypeParts DEF IInv

-----------------------------------------------------------------------------
(* The token endpoint *)

LEMMA authenticateClientPreserves ==
  ASSUME IInv, NEW r \in Requests, NEW c \in Ids, NEW p \in Presentation, authenticateClient(r, c, p)
  PROVE  IInv'
<1>1. PICK k : k = [pc |-> "redeem", client |-> c, at |-> 0]
  OBVIOUS
<1>2. /\ req[r] = Idle /\ clients[c].there
      /\ req' = [req EXCEPT ![r] = k]
      /\ UNCHANGED <<now, store, hits, admitted, clients, codes, grants, purge, used, wronged, disturbed>>
  BY <1>1 DEF authenticateClient, historyVars, limiterVars
<1>4. k \in Request
  BY <1>1, Numbers DEF Request
<1>5. req'[r] = k /\ req' \in [Requests -> Request] /\ \A q \in Requests : q # r => req'[q] = req[q]
  BY <1>2, <1>4 DEF IInv, TypeOK
<1>6. TableTypes'
  BY <1>2, <1>5, TypeParts DEF IInv, TableTypes
<1>7. ASSUME NEW q \in Requests PROVE RequestInv(req[q])'
  <2>1. CASE q # r
    BY <1>2, <1>5, <2>1, RequestFacts DEF RequestInv
  <2>2. CASE q = r
    <3>1. clients[c].uris # {}
      BY <1>2, ClientFacts, Nulls DEF ClientInv, RowInv
    <3>2. 0 <= now
      BY Numbers DEF IInv, TypeOK
    <3>3. RequestInv(k)'
      BY <1>1, <1>2, <3>1, <3>2 DEF RequestInv
    <3> QED
      BY <1>5, <2>2, <3>3 DEF RequestInv
  <2> QED
    BY <2>1, <2>2
<1>8. ASSUME NEW d \in Ids PROVE ClientInv(d)'
  <2>1. ClientInv(d)
    BY ClientFacts
  <2>2. UseInv(d)'
    BY <1>2, <1>5, <2>1, Nulls DEF ClientInv, UseInv
  <2> QED
    BY <1>2, <2>1, <2>2 DEF ClientInv, RowInv, CodeInv, PurgeInv
<1> QED
  BY <1>2, <1>6, <1>7, <1>8, LimiterAlone, TypeParts DEF IInv

LEMMA RedeemPreserves == ASSUME IInv, NEW r \in Requests, Redeem(r) PROVE IInv'
<1>1. PICK k : k = [req[r] EXCEPT !.pc = "create", !.at = now]
  OBVIOUS
<1>2. PICK c : c = req[r].client
  OBVIOUS
<1>3. /\ req[r].pc = "redeem"
      /\ codes' = [codes EXCEPT ![c] = NoURI] /\ req' = [req EXCEPT ![r] = k]
      /\ UNCHANGED <<now, store, hits, admitted, clients, grants, purge, used, wronged, disturbed>>
  BY <1>1, <1>2 DEF Redeem, historyVars, limiterVars, IInv, TypeOK
<1>4. c \in Ids /\ req[r] \in Request /\ RequestInv(req[r]) /\ now \in Times
  BY <1>2, <1>3, RequestFacts DEF IInv, TypeOK
<1>5. k \in Request /\ k.pc = "create" /\ k.client = c /\ k.at = now
  BY <1>1, <1>2, <1>4 DEF Request
<1>6. req'[r] = k /\ req' \in [Requests -> Request] /\ \A q \in Requests : q # r => req'[q] = req[q]
  BY <1>3, <1>5 DEF IInv, TypeOK
<1>7. TableTypes'
  BY <1>3, <1>4, <1>6, TypeParts DEF IInv, TableTypes
<1>8. ASSUME NEW q \in Requests PROVE RequestInv(req[q])'
  <2>1. CASE q # r
    BY <1>3, <1>6, <2>1, RequestFacts DEF RequestInv
  <2>2. CASE q = r
    <3>1. used[c] <= now
      BY <1>4, ClientFacts DEF ClientInv, UseInv
    <3>2. now <= now
      BY <1>4, Numbers
    <3>3. RequestInv(k)'
      BY <1>2, <1>3, <1>4, <1>5, <3>1, <3>2 DEF RequestInv
    <3> QED
      BY <1>6, <2>2, <3>3 DEF RequestInv
  <2> QED
    BY <2>1, <2>2
<1>9. ASSUME NEW d \in Ids PROVE ClientInv(d)'
  <2>1. ClientInv(d)
    BY ClientFacts
  <2>2. UseInv(d)'
    BY <1>3, <1>6, <2>1 DEF ClientInv, UseInv
  <2>3. codes'[d] \in {codes[d], NoURI}
    BY <1>3, <1>4 DEF IInv, TypeOK
  <2>4. CodeInv(d)'
    BY <1>3, <2>1, <2>3 DEF ClientInv, CodeInv
  <2> QED
    BY <1>3, <2>1, <2>2, <2>4 DEF ClientInv, RowInv, PurgeInv
<1> QED
  BY <1>3, <1>7, <1>8, <1>9, LimiterAlone, TypeParts DEF IInv

LEMMA MaxOfTwo ==
  ASSUME NEW a \in Int, NEW b \in Int PROVE Max({a, b}) = IF a >= b THEN a ELSE b
BY DEF Max

\* Two requests for one client are more than one.
LEMMA TwoExchange ==
  ASSUME NEW c, NEW r \in Requests, NEW q \in Requests, q # r, req[r].client = c, req[q].client = c
  PROVE  Cardinality(Exchanging(c)) > 1
<1>1. PICK S : S = Exchanging(c)
  OBVIOUS
<1>2. IsFiniteSet(S) /\ {r, q} \subseteq S
  BY <1>1, RegistrationBounds, FS_Subset DEF Exchanging
<1>3. Cardinality({r}) = 1 /\ IsFiniteSet({r})
  BY FS_Singleton
<1>4. Cardinality({r} \union {q}) = 2
  <2>1. q \notin {r}
    OBVIOUS
  <2>2. Cardinality({r} \union {q}) = Cardinality({r}) + 1
    BY <1>3, <2>1, FS_AddElement
  <2> QED
    BY <1>3, <2>2
<1>5. {r} \union {q} = {r, q}
  OBVIOUS
<1>6. Cardinality({r, q}) <= Cardinality(S) /\ Cardinality(S) \in Nat
  BY <1>2, FS_Subset, FS_CardinalityType
<1> QED
  BY <1>1, <1>4, <1>5, <1>6

LEMMA CreateGrantPreserves == ASSUME IInv, NEW r \in Requests, CreateGrant(r) PROVE IInv'
<1>1. PICK k : k = [req[r] EXCEPT !.pc = "touch"]
  OBVIOUS
<1>2. PICK c : c = req[r].client
  OBVIOUS
<1>3. PICK a : a = req[r].at
  OBVIOUS
<1>4. PICK x : x = Max({used[c], a})
  OBVIOUS
<1>5. /\ req[r].pc = "create" /\ grants' = grants \union {c} /\ used' = [used EXCEPT ![c] = x]
      /\ disturbed' = IF c \in purge.ids \/ Cardinality(Exchanging(c)) > 1
                      THEN disturbed \union {c} ELSE disturbed
      /\ req' = [req EXCEPT ![r] = k]
      /\ UNCHANGED <<now, store, hits, admitted, clients, codes, purge, wronged>>
  BY <1>1, <1>2, <1>3, <1>4 DEF CreateGrant, limiterVars, IInv, TypeOK
<1>6. c \in Ids /\ req[r] \in Request /\ RequestInv(req[r]) /\ now \in Int /\ a \in Times /\ a \in Int
  <2>1. now \in Times
    BY DEF IInv, TypeOK
  <2> QED
    BY <1>2, <1>3, <1>5, <2>1, RequestFacts, Numbers
<1>7. used[c] \in Int /\ used[c] \in Times \union {Never} /\ ClientInv(c)
  BY <1>6, ClientFacts
<1>8. x = IF used[c] >= a THEN used[c] ELSE a
  BY <1>4, <1>6, <1>7, MaxOfTwo
<1>9. k \in Request /\ k.pc = "touch" /\ k.client = c /\ k.at = a
  BY <1>1, <1>2, <1>3, <1>6 DEF Request
<1>10. req'[r] = k /\ req' \in [Requests -> Request] /\ \A q \in Requests : q # r => req'[q] = req[q]
  BY <1>5, <1>9 DEF IInv, TypeOK
<1>11. x \in Times \union {Never}
  BY <1>6, <1>7, <1>8
<1>12. used'[c] = x /\ used' \in [Ids -> Times \union {Never}] /\ \A d \in Ids : d # c => used'[d] = used[d]
  BY <1>5, <1>6, <1>11 DEF IInv, TypeOK
<1>13. disturbed \subseteq disturbed' /\ disturbed' \subseteq Ids
  BY <1>5, <1>6 DEF IInv, TypeOK
<1>14. a <= now /\ x <= now /\ (x <= a \/ c \in disturbed')
  <2>1. a <= now /\ (used[c] <= a \/ c \in disturbed)
    BY <1>2, <1>3, <1>5, <1>6 DEF RequestInv
  <2>2. used[c] <= now
    BY <1>7 DEF ClientInv, UseInv
  <2> QED
    BY <1>6, <1>7, <1>8, <1>13, <2>1, <2>2
<1>15. TableTypes'
  BY <1>5, <1>6, <1>10, <1>12, <1>13, TypeParts DEF IInv, TableTypes
<1>16. ASSUME NEW q \in Requests PROVE RequestInv(req[q])'
  <2>1. CASE q = r
    <3>1. RequestInv(k)'
      BY <1>2, <1>3, <1>5, <1>6, <1>9, <1>12, <1>13, <1>14 DEF RequestInv
    <3> QED
      BY <1>10, <2>1, <3>1 DEF RequestInv
  <2>2. CASE q # r /\ req[q].client # c
    <3>1. RequestInv(req[q]) /\ (req[q].pc # "idle" => used'[req[q].client] = used[req[q].client])
      BY <1>12, <2>2, RequestFacts
    <3> QED
      BY <1>5, <1>10, <1>13, <2>2, <3>1 DEF RequestInv
  <2>3. CASE q # r /\ req[q].client = c
    <3>1. c \in disturbed'
      BY <1>2, <1>5, <2>3, TwoExchange
    <3> QED
      BY <1>5, <1>10, <1>13, <2>3, <3>1, RequestFacts DEF RequestInv
  <2> QED
    BY <2>1, <2>2, <2>3
<1>17. ASSUME NEW d \in Ids PROVE ClientInv(d)'
  <2>1. ClientInv(d)
    BY ClientFacts
  <2>2. CASE d # c
    <3>1. UseInv(d)'
      BY <1>2, <1>5, <1>10, <1>12, <1>13, <2>1, <2>2 DEF ClientInv, UseInv
    <3> QED
      BY <1>5, <1>12, <1>13, <2>1, <2>2, <3>1 DEF ClientInv, RowInv, CodeInv, PurgeInv
  <2>3. CASE d = c
    <3>1. UseInv(d)'
      BY <1>5, <1>9, <1>10, <1>12, <1>14, <2>3 DEF UseInv
    <3>2. clients[c].uris # {} /\ (clients[c].there \/ c \in disturbed)
      BY <1>2, <1>5, <1>6 DEF RequestInv
    <3>3. RowInv(d)' /\ CodeInv(d)'
      BY <1>5, <2>1, <2>3, <3>2 DEF ClientInv, RowInv, CodeInv
    <3>4. PurgeInv(d)'
      BY <1>5, <1>13, <2>3, <3>2 DEF PurgeInv
    <3> QED
      BY <3>1, <3>3, <3>4 DEF ClientInv
  <2> QED
    BY <2>2, <2>3
<1> QED
  BY <1>5, <1>13, <1>15, <1>16, <1>17, LimiterAlone, TypeParts DEF IInv

LEMMA TouchClientPreserves == ASSUME IInv, NEW r \in Requests, TouchClient(r) PROVE IInv'
<1>1. PICK c : c = req[r].client
  OBVIOUS
<1>2. PICK k : k = Touched(c, req[r].at)
  OBVIOUS
<1>3. /\ req[r].pc = "touch"
      /\ clients' = [clients EXCEPT ![c] = k] /\ req' = [req EXCEPT ![r] = Idle]
      /\ UNCHANGED <<now, store, hits, admitted, codes, grants, purge, used, wronged, disturbed>>
  BY <1>1, <1>2 DEF TouchClient, limiterVars, historyVars
<1>4. c \in Ids /\ req[r].at \in Times /\ RequestInv(req[r])
  BY <1>1, <1>3, RequestFacts
<1>5. clients[c] \in Client /\ ClientInv(c)
  BY <1>4, ClientFacts
<1>6. /\ k \in Client /\ k.uris = clients[c].uris /\ (k.secret <=> clients[c].secret)
      /\ (k.there <=> clients[c].there) /\ (k.there => k.lastUsed = req[r].at)
  <2>1. CASE clients[c].there
    BY <1>2, <1>4, <1>5, <2>1 DEF Touched, Client
  <2>2. CASE ~clients[c].there
    BY <1>2, <1>5, <2>2 DEF Touched
  <2> QED
    BY <2>1, <2>2
<1>7. clients'[c] = k /\ clients' \in [Ids -> Client] /\ \A d \in Ids : d # c => clients'[d] = clients[d]
  BY <1>3, <1>4, <1>6 DEF IInv, TypeOK
<1>8. req'[r] = Idle /\ req' \in [Requests -> Request] /\ \A q \in Requests : q # r => req'[q] = req[q]
  BY <1>3, Nulls DEF IInv, TypeOK
<1>9. TableTypes'
  BY <1>3, <1>7, <1>8, TypeParts DEF IInv, TableTypes
<1>10. ASSUME NEW q \in Requests PROVE RequestInv(req[q])'
  <2>1. CASE q = r
    BY <1>8, <2>1, Nulls DEF RequestInv
  <2>2. CASE q # r
    <3>1. RequestInv(req[q]) /\ (req[q].pc # "idle" => req[q].client \in Ids)
      BY RequestFacts
    <3>2. ASSUME NEW d \in Ids
          PROVE  /\ clients'[d].uris = clients[d].uris
                 /\ clients'[d].there <=> clients[d].there
                 /\ clients'[d].secret <=> clients[d].secret
      BY <1>6, <1>7
    <3> QED
      BY <1>3, <1>8, <2>2, <3>1, <3>2 DEF RequestInv
  <2> QED
    BY <2>1, <2>2
<1>11. ASSUME NEW d \in Ids PROVE ClientInv(d)'
  <2>1. ClientInv(d)
    BY ClientFacts
  <2>2. CASE d # c
    <3>1. UseInv(d)'
      BY <1>1, <1>3, <1>7, <1>8, <2>1, <2>2 DEF ClientInv, UseInv
    <3> QED
      BY <1>3, <1>7, <2>1, <2>2, <3>1 DEF ClientInv, RowInv, CodeInv, PurgeInv
  <2>3. CASE d = c
    <3>1. clients[c].uris # {} /\ (used[c] <= req[r].at \/ c \in disturbed)
      BY <1>1, <1>3, <1>4 DEF RequestInv
    <3>2. UseInv(d)'
      BY <1>3, <1>6, <1>7, <2>1, <2>3, <3>1 DEF ClientInv, UseInv
    <3>3. RowInv(d)'
      BY <1>6, <1>7, <2>1, <2>3, <3>1 DEF ClientInv, RowInv, validateRedirectURI
    <3> QED
      BY <1>3, <1>6, <1>7, <2>1, <2>3, <3>2, <3>3 DEF ClientInv, CodeInv, PurgeInv
  <2> QED
    BY <2>2, <2>3
<1> QED
  BY <1>3, <1>9, <1>10, <1>11, LimiterAlone, TypeParts DEF IInv

LEMMA AbandonPreserves == ASSUME IInv, NEW r \in Requests, Abandon(r) PROVE IInv'
<1>1. /\ req[r] # Idle /\ req' = [req EXCEPT ![r] = Idle]
      /\ disturbed' = IF req[r].pc = "touch" THEN disturbed \union {req[r].client} ELSE disturbed
      /\ UNCHANGED <<now, store, hits, admitted, clients, codes, grants, purge, used, wronged>>
  BY DEF Abandon, limiterVars
<1>2. disturbed \subseteq disturbed' /\ disturbed' \subseteq Ids
  BY <1>1, RequestFacts DEF IInv, TypeOK
<1>3. req'[r] = Idle /\ req' \in [Requests -> Request] /\ \A q \in Requests : q # r => req'[q] = req[q]
  BY <1>1, Nulls DEF IInv, TypeOK
<1>4. TableTypes'
  BY <1>1, <1>2, <1>3, TypeParts DEF IInv, TableTypes
<1>5. ASSUME NEW q \in Requests PROVE RequestInv(req[q])'
  <2>1. CASE q = r
    BY <1>3, <2>1, Nulls DEF RequestInv
  <2>2. CASE q # r
    BY <1>1, <1>2, <1>3, <2>2, RequestFacts DEF RequestInv
  <2> QED
    BY <2>1, <2>2
<1>6. ASSUME NEW d \in Ids PROVE ClientInv(d)'
  <2>1. ClientInv(d)
    BY ClientFacts
  <2>2. UseInv(d)'
    <3>1. CASE req[r].client = d /\ req[r].pc = "touch"
      BY <1>1, <2>1, <3>1 DEF ClientInv, UseInv
    <3>2. CASE ~(req[r].client = d /\ req[r].pc = "touch")
      BY <1>1, <1>2, <1>3, <2>1, <3>2 DEF ClientInv, UseInv
    <3> QED
      BY <3>1, <3>2
  <2> QED
    BY <1>1, <1>2, <2>1, <2>2 DEF ClientInv, RowInv, CodeInv, PurgeInv
<1> QED
  BY <1>1, <1>2, <1>4, <1>5, <1>6, LimiterAlone, TypeParts DEF IInv

LEMMA EndGrantsPreserves == ASSUME IInv, NEW c \in Ids, EndGrants(c) PROVE IInv'
<1>1. /\ grants' = grants \ {c}
      /\ UNCHANGED <<now, store, hits, admitted, clients, codes, req, purge, used, wronged, disturbed>>
  BY DEF EndGrants, limiterVars, historyVars
<1>2. TableTypes'
  BY <1>1, TypeParts DEF IInv, TableTypes
<1>3. ASSUME NEW q \in Requests PROVE RequestInv(req[q])'
  BY <1>1, RequestFacts DEF RequestInv
<1>4. ASSUME NEW d \in Ids PROVE ClientInv(d)'
  BY <1>1, ClientFacts DEF ClientInv, RowInv, CodeInv, UseInv, PurgeInv
<1> QED
  BY <1>1, <1>2, <1>3, <1>4, LimiterAlone, TypeParts DEF IInv

-----------------------------------------------------------------------------
(* The purge *)

\* A client no exchange is at, and outside disturbed, was last used when its
\* row says.
LEMMA StaleFacts ==
  ASSUME IInv, NEW before \in 0..now, NEW c \in StaleClients(before)
  PROVE  /\ c \in Ids /\ c \notin grants
         /\ used[c] < before \/ c \in disturbed \/ Exchanging(c) # {}
<1>1. c \in Ids /\ c \notin grants /\ clients[c].there /\ clients[c].lastUsed < before
  BY DEF StaleClients, Stale
<1>2. used[c] \in Int /\ clients[c].lastUsed \in Int /\ before \in Int
  BY <1>1, ClientFacts
<1>3. c \in disturbed \/ used[c] <= clients[c].lastUsed \/ Exchanging(c) # {}
  BY <1>1, ClientFacts DEF ClientInv, UseInv, Exchanging
<1> QED
  BY <1>1, <1>2, <1>3

\* What the purge lists may be deleted, or the client is among the disturbed.
LEMMA DeletePreserves ==
  ASSUME IInv, NEW ids, NEW before, Delete(ids, before), ids \subseteq Ids,
         \A c \in ids : c \in disturbed' \/ (c \notin grants /\ ~(used[c] >= before)),
         UNCHANGED <<now, store, hits, admitted, codes, grants, req, used>>
  PROVE  IInv'
<1>1. /\ clients' = [c \in Ids |-> IF c \in ids THEN [clients[c] EXCEPT !.there = FALSE] ELSE clients[c]]
      /\ wronged' = wronged \union {c \in ids : clients[c].there /\ (c \in grants \/ used[c] >= before)}
      /\ disturbed' = disturbed \union {c \in ids : Exchanging(c) # {}}
      /\ purge' = NoPurge
  BY DEF Delete
<1>2. disturbed \subseteq disturbed' /\ disturbed' \subseteq Ids
  BY <1>1 DEF IInv, TypeOK
<1>3. wronged' \subseteq Ids /\ wronged' \subseteq disturbed'
  BY <1>1, <1>2 DEF IInv, TypeOK
<1>4. purge'.ids = {} /\ purge'.before \in Times
  BY <1>1, Numbers DEF NoPurge
<1>5. ASSUME NEW c \in Ids
      PROVE  /\ clients'[c] \in Client /\ clients'[c].uris = clients[c].uris
             /\ clients'[c].secret <=> clients[c].secret
             /\ clients'[c].lastUsed = clients[c].lastUsed
             /\ clients'[c].there <=> clients[c].there /\ c \notin ids
             /\ clients[c] = NoClient => clients'[c] = NoClient
  <2>1. clients[c] \in Client
    BY ClientFacts
  <2>2. CASE c \in ids
    <3>1. PICK k, j : k = clients[c] /\ j = [k EXCEPT !.there = FALSE]
      OBVIOUS
    <3>2. clients'[c] = j /\ k \in Client
      BY <1>1, <2>1, <2>2, <3>1
    <3>3. /\ j \in Client /\ j.uris = k.uris /\ (j.secret <=> k.secret)
          /\ j.lastUsed = k.lastUsed /\ ~j.there
      BY <3>1, <3>2 DEF Client
    <3>4. k = NoClient => j = NoClient
      <4>1. k = NoClient => k.there = FALSE
        BY DEF NoClient
      <4>2. k.there = FALSE => j = k
        BY <3>1, <3>2 DEF Client
      <4> QED
        BY <4>1, <4>2
    <3> QED
      BY <2>2, <3>1, <3>2, <3>3, <3>4
  <2>3. CASE c \notin ids
    BY <1>1, <2>1, <2>3
  <2> QED
    BY <2>2, <2>3
<1>6. clients' \in [Ids -> Client]
  BY <1>1, <1>5
<1>7. TableTypes'
  BY <1>2, <1>3, <1>4, <1>6, TypeParts DEF IInv, TableTypes
<1>8. ASSUME NEW r \in Requests PROVE RequestInv(req[r])'
  <2>1. RequestInv(req[r]) /\ (req[r].pc # "idle" => req[r].client \in Ids)
    BY RequestFacts
  <2>2. req[r].client \in ids => req[r].client \in disturbed'
    BY <1>1 DEF Exchanging
  <2> QED
    BY <1>2, <1>5, <2>1, <2>2 DEF RequestInv
<1>9. ASSUME NEW c \in Ids PROVE ClientInv(c)'
  <2>1. ClientInv(c)
    BY ClientFacts
  <2>2. RowInv(c)'
    BY <1>5, <2>1 DEF ClientInv, RowInv, validateRedirectURI
  <2>3. CodeInv(c)'
    BY <1>5, <2>1 DEF ClientInv, CodeInv
  <2>4. UseInv(c)'
    BY <1>2, <1>5, <2>1 DEF ClientInv, UseInv
  <2>5. PurgeInv(c)'
    BY <1>2, <1>4, <1>5, <2>1 DEF ClientInv, PurgeInv
  <2> QED
    BY <2>2, <2>3, <2>4, <2>5 DEF ClientInv
<1> QED
  BY <1>3, <1>7, <1>8, <1>9, LimiterAlone, TypeParts DEF IInv

LEMMA PurgeStaleClientsPreserves ==
  ASSUME IInv, NEW before \in 0..now, PurgeStaleClients(before) PROVE IInv'
<1>1. PICK ids : ids = StaleClients(before)
  OBVIOUS
<1>2. Delete(ids, before) /\ UNCHANGED <<now, store, hits, admitted, codes, grants, req, used>>
  BY <1>1 DEF PurgeStaleClients, limiterVars
<1>3. ids \subseteq Ids
  BY <1>1 DEF StaleClients
<1>4. ASSUME NEW c \in ids PROVE c \in disturbed' \/ (c \notin grants /\ ~(used[c] >= before))
  <2>1. c \notin grants /\ (used[c] < before \/ c \in disturbed \/ Exchanging(c) # {})
    BY <1>1, StaleFacts
  <2>2. used[c] \in Int /\ before \in Int
    BY <1>3, ClientFacts
  <2>3. used[c] < before => ~(used[c] >= before)
    BY <2>2
  <2> QED
    BY <1>2, <2>1, <2>3 DEF Delete
<1> QED
  BY <1>2, <1>3, <1>4, DeletePreserves

LEMMA DeleteListedPreserves == ASSUME IInv, DeleteListed PROVE IInv'
<1>1. PICK ids, before : ids = purge.ids /\ before = purge.before
  OBVIOUS
<1>2. Delete(ids, before) /\ UNCHANGED <<now, store, hits, admitted, codes, grants, req, used>>
  BY <1>1 DEF DeleteListed, limiterVars
<1>3. ids \subseteq Ids /\ before \in Times
  BY <1>1 DEF IInv, TypeOK
<1>4. before \in Int
  BY <1>3, Numbers
<1>5. ASSUME NEW c \in ids PROVE c \in disturbed' \/ (c \notin grants /\ ~(used[c] >= before))
  <2>1. used[c] \in Int /\ (c \in disturbed \/ (c \notin grants /\ used[c] < before))
    BY <1>1, <1>3, ClientFacts DEF ClientInv, PurgeInv
  <2>2. used[c] < before => ~(used[c] >= before)
    BY <1>4, <2>1
  <2> QED
    BY <1>2, <2>1, <2>2 DEF Delete
<1> QED
  BY <1>2, <1>3, <1>5, DeletePreserves

LEMMA ListStaleClientsPreserves ==
  ASSUME IInv, NEW before \in 0..now, ListStaleClients(before) PROVE IInv'
<1>1. PICK ids : ids = StaleClients(before)
  OBVIOUS
<1>2. /\ purge' = [ids |-> ids, before |-> before]
      /\ disturbed' = disturbed \union {c \in ids : Exchanging(c) # {}}
      /\ UNCHANGED <<now, store, hits, admitted, clients, codes, grants, req, used, wronged>>
  BY <1>1 DEF ListStaleClients, limiterVars
<1>3. ids \subseteq Ids
  BY <1>1 DEF StaleClients
<1>4. disturbed \subseteq disturbed' /\ disturbed' \subseteq Ids
  BY <1>2, <1>3 DEF IInv, TypeOK
<1>5. before \in Times
  BY RegistrationBounds DEF IInv, TypeOK, Times
<1>6. TableTypes'
  BY <1>2, <1>3, <1>4, <1>5, TypeParts DEF IInv, TableTypes
<1>7. ASSUME NEW r \in Requests PROVE RequestInv(req[r])'
  BY <1>2, <1>4, RequestFacts DEF RequestInv
<1>8. ASSUME NEW c \in Ids PROVE ClientInv(c)'
  <2>1. ClientInv(c)
    BY ClientFacts
  <2>2. c \in ids => c \in disturbed' \/ (c \notin grants /\ used[c] < before)
    BY <1>1, <1>2, StaleFacts
  <2>3. PurgeInv(c)'
    BY <1>2, <1>4, <2>1, <2>2 DEF ClientInv, PurgeInv
  <2> QED
    BY <1>2, <1>4, <2>1, <2>3 DEF ClientInv, RowInv, CodeInv, UseInv
<1> QED
  BY <1>2, <1>4, <1>6, <1>7, <1>8, LimiterAlone, TypeParts DEF IInv

-----------------------------------------------------------------------------
(* The theorems about registered clients *)

LEMMA NextPreserves == ASSUME IInv, Next PROVE IInv'
<1>1. CASE Tick
  BY <1>1, TickPreserves
<1>2. CASE OthersRegister
  BY <1>2, OthersRegisterPreserves
<1>3. CASE \E ip \in Ips, crowded \in BOOLEAN :
             \/ Refuse(ip, crowded)
             \/ \E m \in Submissions : RegisterHandler(ip, crowded, m)
  BY <1>3, RefusePreserves, RegisterHandlerPreserves
<1>4. CASE \E m \in Submissions : RegisterClient(m)
  BY <1>4, RegisterClientPreserves
<1>5. CASE \E c \in Ids : \/ \E u \in Asked : Authorize(c, u)
                         \/ EndGrants(c)
                         \/ \E r \in Requests, p \in Presentation : authenticateClient(r, c, p)
  BY <1>5, AuthorizePreserves, EndGrantsPreserves, authenticateClientPreserves
<1>6. CASE \E r \in Requests : Redeem(r) \/ CreateGrant(r) \/ TouchClient(r) \/ Abandon(r)
  BY <1>6, RedeemPreserves, CreateGrantPreserves, TouchClientPreserves, AbandonPreserves
<1>7. CASE \E before \in 0..now : PurgeStaleClients(before) \/ ListStaleClients(before)
  BY <1>7, PurgeStaleClientsPreserves, ListStaleClientsPreserves
<1>8. CASE DeleteListed
  BY <1>8, DeleteListedPreserves
<1> QED
  BY <1>1, <1>2, <1>3, <1>4, <1>5, <1>6, <1>7, <1>8 DEF Next

LEMMA StutterPreserves == ASSUME IInv, UNCHANGED vars PROVE IInv'
<1>1. UNCHANGED <<now, store, hits, admitted, clients, codes, grants, req, purge, used, wronged, disturbed>>
  BY DEF vars, limiterVars, historyVars
<1> QED
  BY <1>1, LimiterAlone, SameTime, LimiterStep

LEMMA Invariance == Spec => []IInv
<1>1. IInv /\ [Next]_vars => IInv'
  BY NextPreserves, StutterPreserves
<1> QED
  BY <1>1, InitIInv, PTL DEF Spec

\* Whatever the limiter sweeps and whatever overlaps the purge, the tables, the
\* windows and the requests are what their declarations say: no window counts
\* past the limit or starts in the future (allow, oauth/server.go).
THEOREM TypeCorrect == Spec => []TypeOK
<1>1. IInv => TypeOK
  BY DEF IInv
<1> QED
  BY <1>1, Invariance, PTL

\* A purge (DeleteStaleClients of the stores) takes no client that holds a grant
\* or was used since the cutoff, but for the overlaps disturbed names; and a code
\* leaves over https or for the loopback, for a redirect URI that its client
\* registered or one that differs from a loopback one in port and userinfo
\* (validateRedirectURI and matchRedirectURI, oauth/util.go).
THEOREM GrantsStandOnTheirClients == Spec => []GrantsAreAccountedFor
<1>1. IInv => PurgeSparesUsed
  <2> SUFFICES ASSUME IInv PROVE PurgeSparesUsed
    OBVIOUS
  <2>1. ASSUME NEW c \in grants PROVE clients[c].there \/ c \in disturbed
    <3>1. c \in Ids
      BY DEF IInv, TypeOK
    <3> QED
      BY <3>1, ClientFacts DEF ClientInv, PurgeInv
  <2> QED
    BY <2>1 DEF IInv, PurgeSparesUsed
<1>2. IInv => RedirectsAreRegistered
  <2> SUFFICES ASSUME IInv, NEW c \in Ids, codes[c] # NoURI
               PROVE  /\ codes[c].scheme = "https" \/ codes[c].host \in Loopback
                      /\ \E g \in clients[c].uris :
                           \/ codes[c] = g
                           \/ /\ g.host \in Loopback
                              /\ [codes[c] EXCEPT !.port = g.port, !.user = g.user] = g
    BY DEF RedirectsAreRegistered
  <2>1. CodeInv(c) /\ RowInv(c) /\ codes[c] \in URI
    BY ClientFacts DEF ClientInv, IInv, TypeOK
  <2>2. PICK g \in clients[c].uris :
          \/ codes[c] = g
          \/ g.host \in Loopback /\ [codes[c] EXCEPT !.port = g.port, !.user = g.user] = g
    BY <2>1 DEF CodeInv
  <2>3. g.scheme = "https" \/ g.host \in Loopback
    BY <2>1 DEF RowInv, validateRedirectURI
  <2>4. codes[c].scheme = g.scheme /\ codes[c].host = g.host
    BY <2>1, <2>2 DEF URI
  <2> QED
    BY <2>2, <2>3, <2>4
<1> QED
  BY <1>1, <1>2, Invariance, PTL DEF GrantsAreAccountedFor

-----------------------------------------------------------------------------
(* The rate of registrations *)

\* The times log at which registrations of one address got by, and its window w:
\* the last w.n of them are in the window, which began with the first of those,
\* and of the ones before only Limit - 1 can be as late as a window before it.
Ascending(log) ==
  /\ \A i, j \in 1..Len(log) : i <= j => log[i] <= log[j]
  /\ \A i \in 1..Len(log) : log[i] <= now

InWindow(log, w) ==
  /\ w.n <= Len(log)
  /\ w.n > 0 => log[Len(log) - w.n + 1] = w.start

\* Whatever comes next comes more than a window after these.
LongAgo(log, w, t) ==
  \A i \in 1..Len(log) : i <= Len(log) - w.n - Limit + 1 => log[i] + Window < t

Apart(log) == \A i, j \in 1..Len(log) : j - i >= 2 * Limit - 1 => log[j] - log[i] > Window

RateInv(log, w) ==
  /\ Ascending(log) /\ InWindow(log, w)
  /\ LongAgo(log, w, IF w.n > 0 THEN w.start ELSE now)
  /\ Apart(log)

RatesInv == \A ip \in Ips : RateInv(admitted[ip], hits[ip])

LEMMA LimitFacts ==
  /\ Limit \in Int /\ Limit >= 1 /\ Window \in Int /\ Window >= 0
  /\ \A w \in Windows : w.start \in Int /\ w.n \in Int /\ 0 <= w.n /\ w.n <= Limit
  /\ \A log \in Seq(Times) : Len(log) \in Nat /\ \A i \in 1..Len(log) : log[i] \in Int
<1>1. Limit \in Int /\ Limit >= 1 /\ Window \in Int /\ Window >= 0
  BY RegistrationBounds
<1>2. \A w \in Windows : w.start \in Int /\ w.n \in Int /\ 0 <= w.n /\ w.n <= Limit
  <2> SUFFICES ASSUME NEW w \in Windows PROVE w.start \in Int /\ w.n \in Int /\ 0 <= w.n /\ w.n <= Limit
    OBVIOUS
  <2>1. w.start \in Times /\ w.n \in 0..Limit
    BY DEF Windows
  <2> QED
    BY <1>1, <2>1, Numbers
<1>3. \A log \in Seq(Times) : Len(log) \in Nat /\ \A i \in 1..Len(log) : log[i] \in Int
  BY Numbers
<1> QED
  BY <1>1, <1>2, <1>3

\* A window that is dropped has expired: nothing that got by still counts.
LEMMA DroppedRate ==
  ASSUME now \in Int, NEW log \in Seq(Times), NEW w \in Windows, RateInv(log, w), Expired(w)
  PROVE  RateInv(log, NoWindow)
<1>1. w.n > 0 /\ now - w.start > Window
  BY DEF Expired
<1>2. ASSUME NEW i \in 1..Len(log), i <= Len(log) - Limit + 1 PROVE log[i] + Window < now
  <2>1. PICK k \in 1..Len(log) : k = Len(log) - w.n + 1
    BY <1>1, LimitFacts DEF RateInv, InWindow
  <2>2. i <= k
    BY <1>2, <2>1, LimitFacts
  <2>3. log[i] <= log[k] /\ log[k] = w.start
    BY <1>1, <2>1, <2>2 DEF RateInv, Ascending, InWindow
  <2>4. log[i] \in Int /\ w.start \in Int /\ Window \in Int
    BY LimitFacts
  <2> QED
    BY <1>1, <2>3, <2>4
<1>3. NoWindow.n = 0
  BY DEF NoWindow
<1>4. LongAgo(log, NoWindow, now)
  BY <1>2, <1>3, LimitFacts DEF LongAgo
<1>5. InWindow(log, NoWindow)
  BY <1>3, LimitFacts DEF InWindow
<1> QED
  BY <1>3, <1>4, <1>5 DEF RateInv

LEMMA SweptRate ==
  ASSUME IInv, RatesInv, NEW crowded, NEW ip \in Ips
  PROVE  RateInv(admitted[ip], Swept(crowded)[ip])
<1>1. RateInv(admitted[ip], hits[ip]) /\ hits[ip] \in Windows /\ admitted[ip] \in Seq(Times) /\ now \in Int
  BY Numbers DEF RatesInv, IInv, TypeOK
<1>2. Swept(crowded)[ip] = hits[ip] \/ (Expired(hits[ip]) /\ Swept(crowded)[ip] = NoWindow)
  BY DEF Swept
<1> QED
  BY <1>1, <1>2, DroppedRate

\* A registration that the window admits.
LEMMA AdmittedRate ==
  ASSUME now \in Times, NEW log \in Seq(Times), NEW w \in Windows, w.start <= now,
         RateInv(log, w), Allowed(w)
  PROVE  RateInv(Append(log, now), Hit(w))
<1>1. PICK n, L : n = w.n /\ L = Len(log)
  OBVIOUS
<1>2. /\ n \in Int /\ 0 <= n /\ n <= Limit /\ L \in Int /\ 0 <= L /\ n <= L
      /\ Limit \in Int /\ Limit >= 1 /\ Window \in Int /\ Window >= 0 /\ now \in Int /\ w.start \in Int
  BY <1>1, LimitFacts, Numbers DEF RateInv, InWindow
<1>3. PICK new : new = Append(log, now)
  OBVIOUS
<1>4. /\ new \in Seq(Times) /\ Len(new) = L + 1 /\ new[L + 1] = now
      /\ \A i \in 1..L : new[i] = log[i] /\ log[i] \in Int
  BY <1>1, <1>3, LimitFacts
<1>5. Ascending(new)
  <2>1. /\ \A i, j \in 1..L : i <= j => log[i] <= log[j]
        /\ \A i \in 1..L : log[i] <= now
    BY <1>1 DEF RateInv, Ascending
  <2>2. \A i \in 1..(L + 1) : i \in 1..L \/ i = L + 1
    BY <1>2
  <2>3. \A i \in 1..(L + 1) : new[i] <= now
    BY <1>2, <1>4, <2>1, <2>2
  <2>4. ASSUME NEW i \in 1..(L + 1), NEW j \in 1..(L + 1), i <= j PROVE new[i] <= new[j]
    <3>1. CASE j = L + 1
      BY <1>4, <2>3, <3>1
    <3>2. CASE j \in 1..L
      <4>1. i \in 1..L
        BY <1>2, <2>4, <3>2
      <4> QED
        BY <1>4, <2>1, <2>4, <3>2, <4>1
    <3> QED
      BY <2>2, <3>1, <3>2
  <2> QED
    BY <1>4, <2>3, <2>4 DEF Ascending
<1>6. CASE Restarts(w)
  <2>0. PICK h : h = Hit(w)
    OBVIOUS
  <2>1. h = Hit(w) /\ h.n = 1 /\ h.start = now
    <3>1. h = [start |-> now, n |-> 1]
      BY <1>6, <2>0 DEF Hit
    <3> QED
      BY <2>0, <3>1
  <2>2. ASSUME NEW i \in 1..L, i <= L - Limit + 1 PROVE log[i] + Window < now
    <3>1. CASE n = 0
      BY <1>1, <1>2, <2>2, <3>1 DEF RateInv, LongAgo
    <3>2. CASE n > 0
      <4>1. PICK k \in 1..L : k = L - n + 1
        BY <1>2, <3>2
      <4>2. i <= k
        BY <1>2, <2>2, <4>1
      <4>3. log[i] <= log[k] /\ log[k] = w.start
        BY <1>1, <3>2, <4>1, <4>2 DEF RateInv, Ascending, InWindow
      <4>4. now - w.start > Window
        BY <1>1, <1>2, <1>6, <3>2 DEF Restarts, Expired
      <4> QED
        BY <1>2, <1>4, <4>3, <4>4
    <3> QED
      BY <1>2, <3>1, <3>2
  <2>3. LongAgo(new, h, now)
    BY <1>2, <1>4, <2>1, <2>2 DEF LongAgo
  <2>4. InWindow(new, h)
    BY <1>2, <1>4, <2>1 DEF InWindow
  <2>5. ASSUME NEW i \in 1..Len(new), NEW j \in 1..Len(new), j - i >= 2 * Limit - 1
        PROVE  new[j] - new[i] > Window
    <3>1. i \in 1..L
      BY <1>2, <1>4, <2>5
    <3>2. CASE j = L + 1
      <4>1. i <= L - Limit + 1
        BY <1>2, <2>5, <3>2
      <4>2. log[i] + Window < now
        BY <2>2, <3>1, <4>1
      <4> QED
        BY <1>2, <1>4, <3>1, <3>2, <4>2
    <3>3. CASE j # L + 1
      <4>1. j \in 1..L
        BY <1>2, <1>4, <3>3
      <4> QED
        BY <1>1, <1>4, <2>5, <3>1, <4>1 DEF RateInv, Apart
    <3> QED
      BY <3>2, <3>3
  <2> QED
    BY <1>3, <1>5, <2>1, <2>3, <2>4, <2>5 DEF RateInv, Apart
<1>7. CASE ~Restarts(w)
  <2>1. n > 0 /\ n < Limit
    BY <1>1, <1>2, <1>7 DEF Allowed, Full, Restarts
  <2>0. PICK h : h = Hit(w)
    OBVIOUS
  <2>2. h = Hit(w) /\ h.n = n + 1 /\ h.start = w.start
    <3>1. h = [w EXCEPT !.n = w.n + 1]
      BY <1>7, <2>0 DEF Hit
    <3> QED
      BY <1>1, <2>0, <3>1 DEF Windows
  <2>3. \A i \in 1..L : i <= L - n - Limit + 1 => log[i] + Window < w.start
    BY <1>1, <2>1 DEF RateInv, LongAgo
  <2>4. LongAgo(new, h, w.start)
    BY <1>2, <1>4, <2>2, <2>3 DEF LongAgo
  <2>5. InWindow(new, h)
    <3>1. L - n + 1 \in 1..L /\ log[L - n + 1] = w.start
      BY <1>1, <1>2, <2>1 DEF RateInv, InWindow
    <3>2. Len(new) - h.n + 1 = L - n + 1 /\ h.n <= Len(new)
      BY <1>2, <1>4, <2>2
    <3> QED
      BY <1>4, <2>2, <3>1, <3>2 DEF InWindow
  <2>6. ASSUME NEW i \in 1..Len(new), NEW j \in 1..Len(new), j - i >= 2 * Limit - 1
        PROVE  new[j] - new[i] > Window
    <3>1. i \in 1..L
      BY <1>2, <1>4, <2>6
    <3>2. CASE j = L + 1
      <4>1. i <= L - n - Limit + 1
        BY <1>2, <2>1, <2>6, <3>2
      <4>2. log[i] + Window < w.start
        BY <2>3, <3>1, <4>1
      <4> QED
        BY <1>2, <1>4, <3>1, <3>2, <4>2
    <3>3. CASE j # L + 1
      <4>1. j \in 1..L
        BY <1>2, <1>4, <3>3
      <4> QED
        BY <1>1, <1>4, <2>6, <3>1, <4>1 DEF RateInv, Apart
    <3> QED
      BY <3>2, <3>3
  <2>7. h.n > 0
    BY <1>2, <2>2
  <2> QED
    BY <1>3, <1>5, <2>2, <2>4, <2>5, <2>6, <2>7 DEF RateInv, Apart
<1> QED
  BY <1>6, <1>7

LEMMA InitRates == Init => RatesInv
<1> SUFFICES ASSUME Init, NEW ip \in Ips PROVE RateInv(admitted[ip], hits[ip])
  BY DEF RatesInv
<1>1. admitted[ip] = <<>> /\ hits[ip].n = 0
  BY DEF Init, NoWindow
<1> QED
  BY <1>1 DEF RateInv, Ascending, InWindow, LongAgo, Apart

LEMMA TickRates == ASSUME IInv, RatesInv, Tick PROVE RatesInv'
<1> SUFFICES ASSUME NEW ip \in Ips PROVE RateInv(admitted[ip], hits[ip])'
  BY DEF RatesInv
<1>1. PICK log, w : log = admitted[ip] /\ w = hits[ip]
  OBVIOUS
<1>2. /\ admitted'[ip] = log /\ hits'[ip] = w /\ now' = now + 1
      /\ log \in Seq(Times) /\ w \in Windows /\ now \in Int /\ RateInv(log, w)
  BY <1>1, Numbers DEF Tick, limiterVars, IInv, TypeOK, RatesInv
<1>3. Len(log) \in Nat /\ (\A i \in 1..Len(log) : log[i] \in Int) /\ Window \in Int
  BY <1>2, LimitFacts
<1>4. Ascending(log)'
  BY <1>2, <1>3 DEF RateInv, Ascending
<1>5. LongAgo(log, w, IF w.n > 0 THEN w.start ELSE now)'
  <2>1. CASE w.n > 0
    BY <1>2, <2>1 DEF RateInv, LongAgo
  <2>2. CASE ~(w.n > 0)
    <3>1. ASSUME NEW i \in 1..Len(log), log[i] + Window < now PROVE log[i] + Window < now'
      BY <1>2, <1>3, <3>1
    <3> QED
      BY <1>2, <2>2, <3>1 DEF RateInv, LongAgo
  <2> QED
    BY <2>1, <2>2
<1>6. RateInv(log, w)'
  BY <1>2, <1>4, <1>5 DEF RateInv, InWindow, Apart
<1> QED
  BY <1>2, <1>6

LEMMA SweepRates ==
  ASSUME IInv, RatesInv, NEW crowded, hits' = Swept(crowded), UNCHANGED <<now, admitted>>
  PROVE  RatesInv'
<1> SUFFICES ASSUME NEW ip \in Ips PROVE RateInv(admitted[ip], hits[ip])'
  BY DEF RatesInv
<1>1. PICK w : w = Swept(crowded)[ip] /\ RateInv(admitted[ip], w)
  BY SweptRate
<1>2. hits'[ip] = w
  BY <1>1
<1> QED
  BY <1>1, <1>2 DEF RateInv, Ascending, InWindow, LongAgo, Apart

LEMMA AllowRates ==
  ASSUME IInv, RatesInv, NEW ip \in Ips, NEW crowded, Allow(ip, crowded), now' = now
  PROVE  RatesInv'
<1> SUFFICES ASSUME NEW a \in Ips PROVE RateInv(admitted[a], hits[a])'
  BY DEF RatesInv
<1>1. PICK h : h = Swept(crowded) /\ h \in [Ips -> Windows] /\ \A b \in Ips : h[b].start <= now
  BY SweptFacts
<1>2. \A b \in Ips : RateInv(admitted[b], h[b])
  BY <1>1, SweptRate
<1>3. now \in Times /\ admitted \in [Ips -> Seq(Times)]
  BY DEF IInv, TypeOK
<1>4. /\ Allowed(h[ip]) /\ hits' = [h EXCEPT ![ip] = Hit(h[ip])]
      /\ admitted' = [admitted EXCEPT ![ip] = Append(@, now)]
  BY <1>1 DEF Allow
<1>5. PICK log, w : /\ log = admitted'[a] /\ w = hits'[a]
  OBVIOUS
<1>6. RateInv(log, w)
  <2>1. CASE a = ip
    <3>1. log = Append(admitted[ip], now) /\ w = Hit(h[ip])
      BY <1>1, <1>3, <1>4, <1>5, <2>1
    <3> QED
      BY <1>1, <1>2, <1>3, <1>4, <3>1, AdmittedRate
  <2>2. CASE a # ip
    <3>1. log = admitted[a] /\ w = h[a]
      BY <1>1, <1>3, <1>4, <1>5, <2>2
    <3> QED
      BY <1>2, <3>1
  <2> QED
    BY <2>1, <2>2
<1> QED
  BY <1>5, <1>6 DEF RateInv, Ascending, InWindow, LongAgo, Apart

LEMMA NextRates == ASSUME IInv, RatesInv, Next PROVE RatesInv'
<1>1. CASE Tick
  BY <1>1, TickRates
<1>2. CASE OthersRegister
  BY <1>2, SweepRates DEF OthersRegister
<1>3. ASSUME NEW ip \in Ips, NEW crowded \in BOOLEAN, Refuse(ip, crowded) PROVE RatesInv'
  BY <1>3, SweepRates DEF Refuse
<1>4. ASSUME NEW ip \in Ips, NEW crowded \in BOOLEAN, NEW m \in Submissions,
             RegisterHandler(ip, crowded, m)
      PROVE  RatesInv'
  BY <1>4, AllowRates DEF RegisterHandler
<1>5. CASE UNCHANGED <<now, hits, admitted>>
  BY <1>5 DEF RatesInv, RateInv, Ascending, InWindow, LongAgo, Apart
<1>6. ASSUME NEW m \in Submissions, RegisterClient(m) PROVE UNCHANGED <<now, hits, admitted>>
  BY <1>6 DEF RegisterClient, limiterVars
<1>7. ASSUME NEW c \in Ids,
             \/ \E u \in Asked : Authorize(c, u)
             \/ EndGrants(c)
             \/ \E r \in Requests, p \in Presentation : authenticateClient(r, c, p)
      PROVE  UNCHANGED <<now, hits, admitted>>
  BY <1>7 DEF Authorize, EndGrants, authenticateClient, limiterVars
<1>8. ASSUME NEW r \in Requests, Redeem(r) \/ CreateGrant(r) \/ TouchClient(r) \/ Abandon(r)
      PROVE  UNCHANGED <<now, hits, admitted>>
  BY <1>8 DEF Redeem, CreateGrant, TouchClient, Abandon, limiterVars
<1>9. ASSUME NEW before \in 0..now, PurgeStaleClients(before) \/ ListStaleClients(before)
      PROVE  UNCHANGED <<now, hits, admitted>>
  BY <1>9 DEF PurgeStaleClients, ListStaleClients, limiterVars
<1>10. ASSUME DeleteListed PROVE UNCHANGED <<now, hits, admitted>>
  BY <1>10 DEF DeleteListed, limiterVars
<1> QED
  BY <1>1, <1>2, <1>3, <1>4, <1>5, <1>6, <1>7, <1>8, <1>9, <1>10 DEF Next

LEMMA RatesHold == Spec => []RatesInv
<1>1. IInv /\ RatesInv /\ [Next]_vars => RatesInv'
  <2> SUFFICES ASSUME IInv, RatesInv, [Next]_vars PROVE RatesInv'
    OBVIOUS
  <2>1. CASE Next
    BY <2>1, NextRates
  <2>2. CASE UNCHANGED vars
    BY <2>2 DEF vars, limiterVars, RatesInv, RateInv, Ascending, InWindow, LongAgo, Apart
  <2> QED
    BY <2>1, <2>2
<1> QED
  BY <1>1, InitRates, Invariance, PTL DEF Spec

\* For every limit and every window, fewer than twice the limit of an address'
\* registrations get by in a stretch as long as the window, however the windows
\* lie and whenever a crowded table is swept, and one is turned away only with
\* the limit reached (allow, oauth/server.go).
THEOREM RegistrationsAreLimited == Spec => []RegistrationRate
<1>1. ASSUME IInv, RatesInv PROVE RegistrationRate
  <2> SUFFICES ASSUME NEW ip \in Ips
               PROVE  /\ \A i, j \in DOMAIN admitted[ip] :
                           j - i >= 2 * Limit - 1 => admitted[ip][j] - admitted[ip][i] > Window
                      /\ ~Allowed(hits[ip]) =>
                           /\ Len(admitted[ip]) >= Limit
                           /\ now - admitted[ip][Len(admitted[ip]) - Limit + 1] <= Window
    BY DEF RegistrationRate
  <2>1. PICK log, w : log = admitted[ip] /\ w = hits[ip]
    OBVIOUS
  <2>2. log \in Seq(Times) /\ w \in Windows /\ now \in Int /\ RateInv(log, w)
    BY <1>1, <2>1, Numbers DEF IInv, TypeOK, RatesInv
  <2>3. DOMAIN log = 1..Len(log)
    BY <2>2
  <2>4. ASSUME ~Allowed(w) PROVE Len(log) >= Limit /\ now - log[Len(log) - Limit + 1] <= Window
    <3>1. /\ w.n \in Int /\ w.n <= Limit /\ w.start \in Int /\ Limit \in Int /\ Limit >= 1
          /\ Window \in Int
      BY <2>2, LimitFacts
    <3>2. w.n = Limit /\ now - w.start <= Window
      BY <2>2, <2>4, <3>1 DEF Allowed, Restarts, Full, Expired
    <3> QED
      BY <2>2, <3>1, <3>2 DEF RateInv, InWindow
  <2> QED
    BY <2>1, <2>2, <2>3, <2>4 DEF RateInv, Apart
<1> QED
  BY <1>1, Invariance, RatesHold, PTL

-----------------------------------------------------------------------------
(* Consents *)

\* What one request carries is within what its user approved and has not
\* withdrawn since: while it is under way no disconnection of its user and
\* client counts as complete.
LocalInv(q) ==
  /\ q.pc # "idle" => q.user \in Users /\ q.client \in Clients
  /\ q.pc \in {"consult", "merge", "save", "issue"} => q.scopes \in AskedScopes
  /\ q.pc \in {"merge", "save", "issue"} =>
       standing[PairOf(q)].row /\ q.scopes \subseteq standing[PairOf(q)].scopes
  /\ q.pc = "save" => q.scopes \subseteq q.merged /\ q.merged \subseteq standing[PairOf(q)].scopes

FlowInv == \A r \in ConsentRequests : LocalInv(flow[r])

\* DisconnectForgets, and a consent that is not there has no scopes.
MemoryInv ==
  \A p \in Pairs : /\ consents[p].row => standing[p].row
                   /\ consents[p].scopes \subseteq standing[p].scopes

ConsentInv == ConsentTypeOK /\ MemoryInv /\ FlowInv

-----------------------------------------------------------------------------
LEMMA ConsentNulls ==
  /\ NoFlow \in Flow /\ NoFlow.pc = "idle"
  /\ NoConsent \in Consent /\ ~NoConsent.row /\ NoConsent.scopes = {}
BY DEF NoFlow, Flow, PCs, NoConsent, Consent

LEMMA IdleIsSound == LocalInv(NoFlow)
BY ConsentNulls DEF LocalInv

LEMMA InitConsentInv == ConsentInit => ConsentInv
<1> SUFFICES ASSUME ConsentInit PROVE ConsentInv
  OBVIOUS
<1>1. ConsentTypeOK
  BY ConsentNulls, ConsentAssumption DEF ConsentInit, ConsentTypeOK
<1>2. MemoryInv
  BY ConsentNulls DEF ConsentInit, MemoryInv
<1>3. FlowInv
  BY IdleIsSound DEF ConsentInit, FlowInv
<1> QED
  BY <1>1, <1>2, <1>3 DEF ConsentInv

\* The users and clients of a request under way, a form and a code.
LEMMA PairsOfRows ==
  ASSUME ConsentInv
  PROVE  /\ \A r \in ConsentRequests : flow[r].pc # "idle" => PairOf(flow[r]) \in Pairs
         /\ \A f \in forms : PairOf(f) \in Pairs
         /\ \A c \in openCodes : PairOf(c) \in Pairs
BY DEF ConsentInv, ConsentTypeOK, FlowInv, LocalInv, PairOf, Pairs, Form, Code

\* A step of one request that changes neither consents nor histories need
\* only be sound for that request.
LEMMA LocalStep ==
  ASSUME ConsentInv, NEW r \in ConsentRequests, NEW q \in Flow, LocalInv(q),
         flow' = [flow EXCEPT ![r] = q],
         UNCHANGED <<accounts, consents, standing, disconnected>>,
         forms' \subseteq Form, openCodes' \subseteq Code, issued' \in 0..MaxCodes,
         connected' \subseteq Pairs
  PROVE  ConsentInv'
<1>2. MemoryInv'
  BY DEF ConsentInv, MemoryInv
<1>3. flow'[r] = q /\ \A x \in ConsentRequests : x # r => flow'[x] = flow[x]
  BY DEF ConsentInv, ConsentTypeOK
<1>1. ConsentTypeOK'
  <2>1. \A x \in ConsentRequests : flow'[x].pc = "save" => flow'[x].scopes \subseteq flow'[x].merged
    BY <1>3 DEF ConsentInv, ConsentTypeOK, LocalInv
  <2> QED
    BY <2>1 DEF ConsentInv, ConsentTypeOK
<1>4. FlowInv'
  BY <1>3 DEF ConsentInv, FlowInv, LocalInv, PairOf
<1> QED
  BY <1>1, <1>2, <1>4 DEF ConsentInv

LEMMA AbandonFlowPreserves ==
  ASSUME ConsentInv, NEW r \in ConsentRequests, AbandonFlow(r) PROVE ConsentInv'
BY LocalStep, ConsentNulls, IdleIsSound DEF AbandonFlow, ConsentInv, ConsentTypeOK

LEMMA AuthorizeGetPreserves ==
  ASSUME ConsentInv, NEW r \in ConsentRequests, NEW u \in Users, NEW c \in Clients,
         NEW scopes \in AskedScopes, AuthorizeGet(r, u, c, scopes)
  PROVE  ConsentInv'
<1> DEFINE q == [NoFlow EXCEPT !.pc = "consult", !.user = u, !.client = c, !.scopes = scopes]
<1>1. q \in Flow /\ LocalInv(q)
  BY ConsentAssumption DEF NoFlow, Flow, PCs, LocalInv
<1> QED
  BY <1>1, LocalStep DEF AuthorizeGet, ConsentInv, ConsentTypeOK

LEMMA GetConsentPreserves ==
  ASSUME ConsentInv, NEW r \in ConsentRequests, GetConsent(r) PROVE ConsentInv'
<1> DEFINE q == flow[r]
<1>1. /\ q \in Flow /\ q.pc = "consult" /\ q.user \in Users /\ q.client \in Clients
      /\ q.scopes \in AskedScopes /\ PairOf(q) \in Pairs
  BY DEF GetConsent, ConsentInv, ConsentTypeOK, FlowInv, LocalInv, PairOf, Pairs
<1>2. CASE Covers(consents[PairOf(q)], q.scopes)
  <2> DEFINE n == [q EXCEPT !.pc = "issue"]
  <2>1. flow' = [flow EXCEPT ![r] = n] /\ UNCHANGED <<forms>>
    BY <1>2 DEF GetConsent, ConsentInv, ConsentTypeOK
  <2>2. /\ n \in Flow /\ n.pc = "issue" /\ n.user = q.user /\ n.client = q.client
        /\ n.scopes = q.scopes
    BY <1>1 DEF Flow, PCs
  <2>3. LocalInv(n)
    BY <1>1, <1>2, <2>2 DEF LocalInv, Covers, ConsentInv, MemoryInv, PairOf
  <2> QED
    BY <2>1, <2>2, <2>3, LocalStep DEF GetConsent, ConsentInv, ConsentTypeOK
<1>3. CASE ~Covers(consents[PairOf(q)], q.scopes)
  <2>1. forms' = forms \union {[user |-> q.user, client |-> q.client, scopes |-> q.scopes]}
        /\ flow' = [flow EXCEPT ![r] = NoFlow]
    BY <1>3 DEF GetConsent
  <2>2. forms' \subseteq Form
    BY <1>1, <2>1 DEF Form, ConsentInv, ConsentTypeOK
  <2> QED
    BY <2>1, <2>2, LocalStep, ConsentNulls, IdleIsSound DEF GetConsent, ConsentInv, ConsentTypeOK
<1> QED
  BY <1>2, <1>3

LEMMA SubmitConsentPreserves ==
  ASSUME ConsentInv, NEW r \in ConsentRequests, NEW f \in forms, NEW u \in Users, NEW c \in Clients,
         NEW scopes \in AskedScopes, SubmitConsent(r, f, u, c, scopes)
  PROVE  ConsentInv'
<1> DEFINE q == [NoFlow EXCEPT !.pc = "merge", !.user = u, !.client = c, !.scopes = scopes]
           p == <<u, c>>
           s == [row |-> TRUE, scopes |-> standing[p].scopes \union scopes]
<1>1. PairOf(f) = p /\ f.scopes = scopes /\ p \in Pairs
  BY DEF SubmitConsent, checkCSRF, PairOf, Pairs
<1>2. /\ q \in Flow /\ q.pc = "merge" /\ q.user = u /\ q.client = c /\ q.scopes = scopes
      /\ PairOf(q) = p
  BY ConsentAssumption DEF NoFlow, Flow, PCs, PairOf
<1>3. /\ flow' = [flow EXCEPT ![r] = q] /\ standing' = [standing EXCEPT ![p] = s]
      /\ disconnected' = [disconnected EXCEPT ![p] = FALSE]
      /\ UNCHANGED <<accounts, consents, forms, openCodes, issued, connected>>
  BY <1>1 DEF SubmitConsent
<1>4. s \in Consent /\ s.row /\ scopes \subseteq s.scopes /\ standing[p].scopes \subseteq s.scopes
  BY <1>1, ConsentAssumption DEF Consent, ConsentInv, ConsentTypeOK
<1> HIDE DEF q, s
<1>5. ConsentTypeOK'
  BY <1>2, <1>3, <1>4 DEF ConsentInv, ConsentTypeOK
<1>6. /\ standing'[p] = s /\ \A x \in Pairs : x # p => standing'[x] = standing[x]
      /\ flow'[r] = q /\ \A x \in ConsentRequests : x # r => flow'[x] = flow[x]
  BY <1>1, <1>3 DEF ConsentInv, ConsentTypeOK
<1>7. MemoryInv'
  BY <1>3, <1>4, <1>6 DEF ConsentInv, MemoryInv
<1>8. FlowInv'
  <2> SUFFICES ASSUME NEW x \in ConsentRequests PROVE LocalInv(flow[x])'
    BY DEF FlowInv
  <2>1. CASE x = r
    BY <1>2, <1>4, <1>6, <2>1 DEF LocalInv
  <2>2. CASE x # r
    BY <1>4, <1>6, <2>2, PairsOfRows DEF ConsentInv, FlowInv, LocalInv, PairOf
  <2> QED
    BY <2>1, <2>2
<1> QED
  BY <1>5, <1>7, <1>8 DEF ConsentInv

LEMMA MergeConsentPreserves ==
  ASSUME ConsentInv, NEW r \in ConsentRequests, MergeConsent(r) PROVE ConsentInv'
<1> DEFINE q == flow[r]
<1>1. /\ q \in Flow /\ q.pc = "merge" /\ PairOf(q) \in Pairs /\ LocalInv(q)
      /\ consents[PairOf(q)] \in Consent
  BY PairsOfRows DEF MergeConsent, ConsentInv, ConsentTypeOK, FlowInv
<1>2. consents[PairOf(q)].scopes \subseteq standing[PairOf(q)].scopes
  BY <1>1 DEF ConsentInv, MemoryInv
<1>3. PICK prev \in {consents[PairOf(q)].scopes, {}} :
        flow' = [flow EXCEPT ![r].pc = "save", ![r].merged = Merged(prev, q.scopes)]
  BY DEF MergeConsent
<1> DEFINE n == [q EXCEPT !.pc = "save", !.merged = Merged(prev, q.scopes)]
<1>4. flow' = [flow EXCEPT ![r] = n]
  BY <1>3 DEF ConsentInv, ConsentTypeOK
<1>5. /\ n \in Flow /\ n.pc = "save" /\ n.user = q.user /\ n.client = q.client
      /\ n.scopes = q.scopes /\ n.merged = prev \union q.scopes
  BY <1>1, <1>3 DEF Flow, PCs, Consent, Merged
<1> HIDE DEF n
<1>6. LocalInv(n)
  BY <1>1, <1>2, <1>3, <1>5 DEF LocalInv, PairOf
<1> QED
  BY <1>4, <1>5, <1>6, LocalStep DEF MergeConsent, ConsentInv, ConsentTypeOK

LEMMA SaveConsentPreserves ==
  ASSUME ConsentInv, NEW r \in ConsentRequests, SaveConsent(r) PROVE ConsentInv'
<1> DEFINE q == flow[r]
           p == PairOf(q)
           n == [q EXCEPT !.pc = "issue", !.merged = {}]
           s == [row |-> TRUE, scopes |-> q.merged]
<1>1. q \in Flow /\ q.pc = "save" /\ p \in Pairs /\ LocalInv(q)
  BY PairsOfRows DEF SaveConsent, ConsentInv, ConsentTypeOK, FlowInv
<1>2. /\ flow' = [flow EXCEPT ![r] = n] /\ consents' = [consents EXCEPT ![p] = s]
      /\ UNCHANGED <<accounts, forms, openCodes, issued, connected, standing, disconnected>>
  BY DEF SaveConsent, ConsentInv, ConsentTypeOK
<1>3. /\ n \in Flow /\ n.pc = "issue" /\ n.user = q.user /\ n.client = q.client
      /\ n.scopes = q.scopes
  BY <1>1 DEF Flow, PCs
<1>4. s \in Consent /\ s.scopes = q.merged
  BY <1>1 DEF Flow, Consent
<1>5. standing[p].row /\ q.merged \subseteq standing[p].scopes /\ LocalInv(n)
  BY <1>1, <1>3 DEF LocalInv, PairOf
<1> HIDE DEF n, s
<1>6. ConsentTypeOK'
  BY <1>2, <1>3, <1>4 DEF ConsentInv, ConsentTypeOK
<1>7. MemoryInv'
  BY <1>1, <1>2, <1>4, <1>5 DEF ConsentInv, ConsentTypeOK, MemoryInv
<1>8. FlowInv'
  <2>1. flow'[r] = n /\ \A x \in ConsentRequests : x # r => flow'[x] = flow[x]
    BY <1>2 DEF ConsentInv, ConsentTypeOK
  <2> QED
    BY <1>2, <1>5, <2>1 DEF ConsentInv, FlowInv, LocalInv, PairOf
<1> QED
  BY <1>6, <1>7, <1>8 DEF ConsentInv

LEMMA IssueCodePreserves ==
  ASSUME ConsentInv, NEW r \in ConsentRequests, issueCode(r) PROVE ConsentInv'
<1> DEFINE q == flow[r]
<1>1. /\ q.pc = "issue" /\ q.user \in Users /\ q.client \in Clients /\ q.scopes \in AskedScopes
  BY DEF issueCode, ConsentInv, FlowInv, LocalInv
<1>2. issued' \in 0..MaxCodes /\ issued + 1 \in 1..MaxCodes
  BY ConsentAssumption DEF issueCode, ConsentInv, ConsentTypeOK
<1>3. openCodes' \subseteq Code
  BY <1>1, <1>2 DEF issueCode, Code, ConsentInv, ConsentTypeOK
<1> QED
  BY <1>2, <1>3, LocalStep, ConsentNulls, IdleIsSound DEF issueCode, ConsentInv, ConsentTypeOK

LEMMA DeleteUserClientGrantsPreserves ==
  ASSUME ConsentInv, NEW r \in ConsentRequests, NEW p \in Pairs, DeleteUserClientGrants(r, p)
  PROVE  ConsentInv'
<1> DEFINE q == [NoFlow EXCEPT !.pc = "forget", !.user = p[1], !.client = p[2]]
<1>1. q \in Flow /\ LocalInv(q)
  BY DEF NoFlow, Flow, PCs, LocalInv, Pairs
<1> QED
  BY <1>1, LocalStep DEF DeleteUserClientGrants, ConsentInv, ConsentTypeOK

\* The one step that withdraws an approval: no request that relies on it is
\* under way.
LEMMA DeleteConsentPreserves ==
  ASSUME ConsentInv, NEW r \in ConsentRequests, DeleteConsent(r) PROVE ConsentInv'
<1> DEFINE p == PairOf(flow[r])
<1>1. p \in Pairs
  BY PairsOfRows DEF DeleteConsent
<1>2. /\ consents' = [consents EXCEPT ![p] = NoConsent]
      /\ flow' = [flow EXCEPT ![r] = NoFlow]
      /\ standing' = IF Quiet(p) THEN [standing EXCEPT ![p] = NoConsent] ELSE standing
      /\ disconnected' = [disconnected EXCEPT ![p] = @ \/ Quiet(p)]
      /\ UNCHANGED <<accounts, forms, openCodes, issued, connected>>
  BY DEF DeleteConsent, Forgotten
<1>3. ConsentTypeOK'
  <2>1. consents' \in [Pairs -> Consent] /\ standing' \in [Pairs -> Consent]
        /\ flow' \in [ConsentRequests -> Flow]
    BY <1>2, ConsentNulls DEF ConsentInv, ConsentTypeOK
  <2>2. Quiet(p) \in BOOLEAN
    BY DEF Quiet
  <2>3. disconnected' \in [Pairs -> BOOLEAN]
    BY <1>2, <2>2, Zenon DEF ConsentInv, ConsentTypeOK
  <2>4. \A x \in ConsentRequests : flow'[x].pc = "save" => flow'[x].scopes \subseteq flow'[x].merged
    BY <1>2, ConsentNulls DEF ConsentInv, ConsentTypeOK
  <2> QED
    BY <1>2, <2>1, <2>3, <2>4 DEF ConsentInv, ConsentTypeOK
<1>4. /\ \A x \in Pairs : x # p => standing'[x] = standing[x] /\ consents'[x] = consents[x]
      /\ ~consents'[p].row /\ consents'[p].scopes = {}
      /\ ~Quiet(p) => standing' = standing
      /\ flow'[r] = NoFlow /\ \A x \in ConsentRequests : x # r => flow'[x] = flow[x]
  BY <1>1, <1>2, ConsentNulls DEF ConsentInv, ConsentTypeOK
<1>5. MemoryInv'
  BY <1>4 DEF ConsentInv, MemoryInv
<1>6. FlowInv'
  <2> SUFFICES ASSUME NEW x \in ConsentRequests PROVE LocalInv(flow[x])'
    BY DEF FlowInv
  <2>1. CASE x = r
    BY <1>4, <2>1, ConsentNulls DEF LocalInv
  <2>2. CASE x # r /\ PairOf(flow[x]) # p
    BY <1>4, <2>2, PairsOfRows DEF ConsentInv, FlowInv, LocalInv, PairOf
  <2>3. CASE x # r /\ PairOf(flow[x]) = p
    BY <1>4, <2>3 DEF ConsentInv, FlowInv, LocalInv, PairOf, Quiet
  <2> QED
    BY <2>1, <2>2, <2>3
<1> QED
  BY <1>3, <1>5, <1>6 DEF ConsentInv

LEMMA DeleteUserPreserves ==
  ASSUME ConsentInv, NEW u \in Users, DeleteUser(u) PROVE ConsentInv'
<1>1. /\ \A p \in Pairs : consents'[p] = consents[p] \/ consents'[p] = NoConsent
      /\ consents' \in [Pairs -> Consent]
  BY ConsentNulls DEF DeleteUser, ConsentInv, ConsentTypeOK
<1>2. ConsentTypeOK'
  BY <1>1 DEF DeleteUser, ConsentInv, ConsentTypeOK
<1>3. MemoryInv'
  BY <1>1, ConsentNulls DEF DeleteUser, ConsentInv, MemoryInv
<1>4. FlowInv'
  BY DEF DeleteUser, ConsentInv, FlowInv, LocalInv, PairOf
<1> QED
  BY <1>2, <1>3, <1>4 DEF ConsentInv

LEMMA ExpireFormPreserves ==
  ASSUME ConsentInv, NEW f \in forms, ExpireForm(f) PROVE ConsentInv'
BY DEF ExpireForm, ConsentInv, ConsentTypeOK, MemoryInv, FlowInv, LocalInv, PairOf

LEMMA ExchangePreserves ==
  ASSUME ConsentInv, NEW c \in openCodes, exchangeCode(c) PROVE ConsentInv'
<1>1. ConsentTypeOK'
  BY PairsOfRows DEF exchangeCode, ConsentInv, ConsentTypeOK
<1> QED
  BY <1>1 DEF exchangeCode, ConsentInv, MemoryInv, FlowInv, LocalInv, PairOf

-----------------------------------------------------------------------------
(* The theorems about consents *)

LEMMA ConsentNextPreserves == ConsentInv /\ [ConsentNext]_consentVars => ConsentInv'
<1> SUFFICES ASSUME ConsentInv, [ConsentNext]_consentVars PROVE ConsentInv'
  OBVIOUS
<1>1. ASSUME NEW r \in ConsentRequests, Handler(r) PROVE ConsentInv'
  BY <1>1, AuthorizeGetPreserves, SubmitConsentPreserves, GetConsentPreserves,
     MergeConsentPreserves, SaveConsentPreserves, IssueCodePreserves,
     DeleteUserClientGrantsPreserves, DeleteConsentPreserves, AbandonFlowPreserves DEF Handler
<1>2. ASSUME NEW u \in Users, DeleteUser(u) PROVE ConsentInv'
  BY <1>2, DeleteUserPreserves
<1>3. ASSUME NEW f \in forms, ExpireForm(f) PROVE ConsentInv'
  BY <1>3, ExpireFormPreserves
<1>4. ASSUME NEW c \in openCodes, exchangeCode(c) PROVE ConsentInv'
  BY <1>4, ExchangePreserves
<1>5. CASE UNCHANGED consentVars
  BY <1>5 DEF consentVars, ConsentInv, ConsentTypeOK, MemoryInv, FlowInv, LocalInv, PairOf
<1> QED
  BY <1>1, <1>2, <1>3, <1>4, <1>5 DEF ConsentNext

\* The inductive invariant holds throughout.
THEOREM ConsentInvariant == ConsentSpec => []ConsentInv
<1>1. ConsentInit => ConsentInv
  BY InitConsentInv
<1>2. ConsentInv /\ [ConsentNext]_consentVars => ConsentInv'
  BY ConsentNextPreserves
<1> QED
  BY <1>1, <1>2, PTL DEF ConsentSpec

\* The tables and the locals keep their types.
THEOREM ConsentTypesCorrect == ConsentSpec => []ConsentTypeOK
<1>1. ConsentInv => ConsentTypeOK
  BY DEF ConsentInv
<1> QED
  BY <1>1, ConsentInvariant, PTL

\* What is remembered was approved since the last disconnection that no
\* authorization overlapped.
THEOREM WithdrawnIsForgotten == ConsentSpec => []DisconnectForgets
<1>1. ConsentInv => DisconnectForgets
  BY DEF ConsentInv, MemoryInv, DisconnectForgets
<1> QED
  BY <1>1, ConsentInvariant, PTL

\* Only issueCode adds a code, and the request it serves carries approved
\* scopes.
THEOREM CodesWereApproved == ConsentSpec => CodesFollowApprovals
<1>1. ConsentInv /\ [ConsentNext]_consentVars =>
        [\A c \in openCodes' \ openCodes :
           standing[PairOf(c)].row /\ c.scopes \subseteq standing[PairOf(c)].scopes]_consentVars
  <2> SUFFICES ASSUME ConsentInv, ConsentNext, NEW c \in openCodes' \ openCodes
               PROVE  standing[PairOf(c)].row /\ c.scopes \subseteq standing[PairOf(c)].scopes
    BY DEF consentVars
  <2>1. PICK r \in ConsentRequests : issueCode(r)
    <3>1. PICK r \in ConsentRequests : Handler(r)
      BY DEF ConsentNext, DeleteUser, ExpireForm, exchangeCode
    <3> DEFINE Others == \/ \E u \in Users, d \in Clients, scopes \in AskedScopes :
                              \/ AuthorizeGet(r, u, d, scopes)
                              \/ \E f \in forms : SubmitConsent(r, f, u, d, scopes)
                         \/ GetConsent(r) \/ MergeConsent(r) \/ SaveConsent(r)
                         \/ \E p \in Pairs : DeleteUserClientGrants(r, p)
                         \/ DeleteConsent(r) \/ AbandonFlow(r)
    <3>2. issueCode(r) \/ Others
      BY <3>1 DEF Handler
    <3>3. Others => openCodes' = openCodes
      BY DEF AuthorizeGet, SubmitConsent, GetConsent, MergeConsent, SaveConsent,
             DeleteUserClientGrants, DeleteConsent, AbandonFlow
    <3> QED
      BY <3>2, <3>3
  <2>2. LocalInv(flow[r]) /\ flow[r].pc = "issue"
    BY <2>1 DEF issueCode, ConsentInv, FlowInv
  <2>3. PairOf(c) = PairOf(flow[r]) /\ c.scopes = flow[r].scopes
    BY <2>1 DEF issueCode, PairOf
  <2> QED
    BY <2>2, <2>3 DEF LocalInv
<1> QED
  BY <1>1, ConsentInvariant, PTL DEF ConsentSpec, CodesFollowApprovals
=============================================================================
