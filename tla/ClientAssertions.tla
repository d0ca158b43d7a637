-------------------------- MODULE ClientAssertions --------------------------
(***************************************************************************)
(* Authentication of one client by signed assertions                       *)
(* (oauth/client_assertion.go): the cache of the keys the client publishes *)
(* (CIMDFetcher, oauth/cimd.go) and the record of the assertions that were *)
(* used (stores/memstore/oauth.go).                                        *)
(*                                                                         *)
(* The cache has a lock, but it is not held while keys are fetched: a      *)
(* request that misses reads the clock, fetches for as long as it takes,   *)
(* and then fills the cache, whatever others have put there meanwhile.     *)
(* With jwks_uri the keys have a cache of their own and an unknown key     *)
(* forces a second look; inline keys live and die with the cached metadata *)
(* document.  Here there is one cache, and `inline` says which it is.      *)
(*                                                                         *)
(* An assertion is its jti: a client signs each jti once.  Signatures,     *)
(* algorithms, audience and the other claims only refuse and are left out. *)
(***************************************************************************)
EXTENDS Integers

CONSTANTS Requests,     \* concurrent requests (goroutines)
          Keys,         \* the client's key pairs
          Jtis,
          MaxTime,      \* bound on the clock
          MaxAges,      \* max-age values of Cache-Control, DefaultTTL among them
          MinTTL, MaxTTL,  \* CIMDFetcher.MinTTL, CIMDFetcher.MaxTTL
          MinRefresh,   \* CIMDFetcher.JWKSMinRefresh
          Leeway,       \* assertionLeeway
          MaxLifetime,  \* Options.ClientAssertionMaxLifetime
          NoJti, NoKey

ASSUME AssertionBounds ==
  /\ MaxTime \in Nat /\ MaxTTL \in Nat \ {0} /\ MinRefresh \in Nat \ {0}
  /\ Leeway \in Nat /\ MaxLifetime \in Nat
  /\ MaxAges \subseteq Int /\ MinTTL \in Int
  /\ NoJti \notin Jtis /\ NoKey \notin Keys

VARIABLES
  now,        \* Options.Now
  inline,     \* the document holds the keys themselves (jwks, not jwks_uri)
  published,  \* the keys the client serves at present
  changed,    \* history: changed[k]: when k was last published or withdrawn
  signed,     \* signed[j]: the assertion with this jti
  cache,      \* the entry of jwksCache, or of cache when inline
  records,    \* identity_oauth_assertions: records[j] is expires_at
  req,        \* req[r]: where request r is, and what it remembers
  accepted    \* history: how often j was accepted, counted up to 2

vars == <<now, inline, published, changed, signed, cache, records, req, accepted>>
clientVars == <<inline, published, changed, signed>>

Times == 0..MaxTime
NoRecord == -1

\* kid: the assertion names its key.
Assertion == [key: Keys \union {NoKey}, kid: BOOLEAN, exp: Times]
Unsigned == [key |-> NoKey, kid |-> FALSE, exp |-> 0]

Cache == [full: BOOLEAN, keys: SUBSET Keys, fetched: Times, expires: 0..(MaxTime + MaxTTL)]
EmptyCache == [full |-> FALSE, keys |-> {}, fetched |-> 0, expires |-> 0]

PCs == {"idle", "fetch", "fill", "refresh", "judge", "record", "refused"}

\* began: when verification started; at: the clock as jwks read it before its
\* fetch; got: the answer; forced: it is the second look.
Request == [pc: PCs, jti: Jtis \union {NoJti}, began: Times, at: Times,
            got: SUBSET Keys, forced: BOOLEAN]
Idle == [pc |-> "idle", jti |-> NoJti, began |-> 0, at |-> 0, got |-> {}, forced |-> FALSE]

Init ==
  /\ now = 0
  /\ inline \in BOOLEAN
  /\ published = {}
  /\ changed = [k \in Keys |-> 0]
  /\ signed = [j \in Jtis |-> Unsigned]
  /\ cache = EmptyCache
  /\ records = [j \in Jtis |-> NoRecord]
  /\ req = [r \in Requests |-> Idle]
  /\ accepted = [j \in Jtis |-> 0]

-----------------------------------------------------------------------------
(* The client and the surroundings *)

Tick ==
  /\ now < MaxTime
  /\ now' = now + 1
  /\ UNCHANGED <<clientVars, cache, records, req, accepted>>

\* The client publishes a key, or takes it down.
ChangeKeys(k) ==
  /\ published' = IF k \in published THEN published \ {k} ELSE published \union {k}
  /\ changed' = [changed EXCEPT ![k] = now]
  /\ UNCHANGED <<now, inline, signed, cache, records, req, accepted>>

Sign(j, k, kid, exp) ==
  /\ signed[j] = Unsigned
  /\ signed' = [signed EXCEPT ![j] = [key |-> k, kid |-> kid, exp |-> exp]]
  /\ UNCHANGED <<now, inline, published, changed, cache, records, req, accepted>>

\* A request ends: it was answered, cancelled, or its process died.
Abandon(r) ==
  /\ req[r].pc # "idle"
  /\ req' = [req EXCEPT ![r] = Idle]
  /\ UNCHANGED <<now, clientVars, cache, records, accepted>>

\* More than a thousand entries empty the cache, as does a restart.
DropCache ==
  /\ cache.full
  /\ cache' = EmptyCache
  /\ UNCHANGED <<now, clientVars, records, req, accepted>>

-----------------------------------------------------------------------------
(* The keys *)

\* What keyfunc does with a set of keys: a key that is named and not in it is
\* looked up once more, unless that has been done or the keys are inline.
AfterPick(j, keys, forced) ==
  IF signed[j].key \in keys THEN "judge"
  ELSE IF signed[j].kid /\ ~inline /\ ~forced THEN "refresh" ELSE "refused"

\* Mutant: a cached set is not fetched again before it expires.
CacheServes_Always(forced) == cache.full /\ now < cache.expires

\* The cached set is used as long as it is fresh; a second look also asks
\* that it was fetched only just now.
CacheServes(forced) ==
  /\ cache.full /\ now < cache.expires
  /\ forced => now - cache.fetched < MinRefresh

\* jwks, or Resolve when inline: answer from the cache or start to fetch.
LookUp(r, j, began, forced) ==
  req' = [req EXCEPT ![r] =
    [Idle EXCEPT !.jti = j, !.began = began,
       !.pc = IF CacheServes(forced) THEN AfterPick(j, cache.keys, forced) ELSE "fetch",
       !.at = IF CacheServes(forced) THEN 0 ELSE now,
       !.forced = forced /\ ~CacheServes(forced)]]

\* An assertion is presented.
authenticateAssertion(r, j) ==
  /\ req[r].pc = "idle"
  /\ signed[j] # Unsigned
  /\ LookUp(r, j, now, FALSE)
  /\ UNCHANGED <<now, clientVars, cache, records, accepted>>

\* The second look, for a key that was not in the set.
RefreshKeys(r) ==
  /\ req[r].pc = "refresh"
  /\ LookUp(r, req[r].jti, req[r].began, TRUE)
  /\ UNCHANGED <<now, clientVars, cache, records, accepted>>

\* The client's server answers; a set without keys is an error.
Fetch(r) ==
  /\ req[r].pc = "fetch"
  /\ req' = [req EXCEPT ![r].got = published,
                        ![r].pc = IF published = {} THEN "refused" ELSE "fill"]
  /\ UNCHANGED <<now, clientVars, cache, records, accepted>>

\* Mutant: the entry is as old as its arrival.
FetchedAt_Arrival(r) == now

\* The entry is as old as the question.
FetchedAt(r) == req[r].at

\* Mutant: the upper limit is forgotten.
cacheTTL_Unclamped(age) == IF age < MinTTL THEN MinTTL ELSE age

\* The lifetime that Cache-Control asks for, within the fetcher's limits.
cacheTTL(age) ==
  LET atLeast == IF age < MinTTL THEN MinTTL ELSE age
  IN  IF atLeast > MaxTTL THEN MaxTTL ELSE atLeast

\* The answer is cached, unless Cache-Control forbids it, and used.
FillCache(r) ==
  /\ req[r].pc = "fill"
  /\ \/ \E age \in MaxAges :
          /\ cacheTTL(age) > 0
          /\ cache' = [full |-> TRUE, keys |-> req[r].got, fetched |-> FetchedAt(r),
                       expires |-> FetchedAt(r) + cacheTTL(age)]
     \/ UNCHANGED cache
  /\ req' = [req EXCEPT ![r] =
       [Idle EXCEPT !.pc = AfterPick(req[r].jti, req[r].got, req[r].forced),
                    !.jti = req[r].jti, !.began = req[r].began]]
  /\ UNCHANGED <<now, clientVars, records, accepted>>

-----------------------------------------------------------------------------
(* The claims, and the record of use *)

\* jwt.Parse has verified the signature and asks the clock; so does the cap
\* on the lifetime.
Judge(r) ==
  /\ req[r].pc = "judge"
  /\ LET exp == signed[req[r].jti].exp
     IN /\ now < exp + Leeway
        /\ exp - now <= MaxLifetime
  /\ req' = [req EXCEPT ![r].pc = "record"]
  /\ UNCHANGED <<now, clientVars, cache, records, accepted>>

\* Mutant: the record forgets the leeway.
RecordUntil_Exp(j) == signed[j].exp

\* An assertion is remembered for as long as it can be accepted.
RecordUntil(j) == signed[j].exp + Leeway

\* Insert or ignore: the one that inserts is authenticated.
UseClientAssertion(r) ==
  /\ req[r].pc = "record"
  /\ LET j == req[r].jti IN
       IF records[j] = NoRecord
       THEN /\ records' = [records EXCEPT ![j] = RecordUntil(j)]
            /\ accepted' = [accepted EXCEPT ![j] = IF @ < 2 THEN @ + 1 ELSE @]
       ELSE UNCHANGED <<records, accepted>>
  /\ req' = [req EXCEPT ![r] = Idle]
  /\ UNCHANGED <<now, clientVars, cache>>

\* The last sweep of PurgeExpired, with a clock read before the other two.
DeleteExpiredClientAssertions(cutoff) ==
  /\ records' = [j \in Jtis |-> IF records[j] < cutoff THEN NoRecord ELSE records[j]]
  /\ UNCHANGED <<now, clientVars, cache, req, accepted>>

-----------------------------------------------------------------------------
Handler(r) ==
  \/ \E j \in Jtis : authenticateAssertion(r, j)
  \/ RefreshKeys(r)
  \/ Fetch(r)
  \/ FillCache(r)
  \/ Judge(r)
  \/ UseClientAssertion(r)
  \/ Abandon(r)

Next ==
  \/ Tick
  \/ \E k \in Keys : ChangeKeys(k)
  \/ \E j \in Jtis, k \in Keys, kid \in BOOLEAN, exp \in Times : Sign(j, k, kid, exp)
  \/ DropCache
  \/ \E r \in Requests : Handler(r)
  \/ \E cutoff \in 0..now : DeleteExpiredClientAssertions(cutoff)

Spec == Init /\ [][Next]_vars

-----------------------------------------------------------------------------
(* Properties *)

\* The tables, the cache and the locals are what their declarations say.
TypeOK ==
  /\ now \in Times
  /\ inline \in BOOLEAN
  /\ published \in SUBSET Keys
  /\ changed \in [Keys -> Times]
  /\ signed \in [Jtis -> Assertion]
  /\ cache \in Cache
  /\ records \in [Jtis -> {NoRecord} \union 0..(MaxTime + Leeway)]
  /\ req \in [Requests -> Request]
  /\ accepted \in [Jtis -> 0..2]

\* An assertion is not accepted again while it is valid, however requests and
\* sweeps interleave: the record outlives every moment at which Judge may
\* still pass.
ReplayOnlyAfterExpiry ==
  [][\A j \in Jtis : records[j] = NoRecord /\ records'[j] # NoRecord /\ accepted[j] > 0
       => now > signed[j].exp + Leeway]_vars

\* A withdrawn key dies with the longest cache lifetime: no request that
\* begins later passes with it, although a fetch that was under way when the
\* key was taken down may fill the cache long afterwards.
WithdrawnKeysDie ==
  \A r \in Requests :
    req[r].pc \in {"judge", "record"} =>
      LET k == signed[req[r].jti].key
      IN  k \in published \/ req[r].began < changed[k] + MaxTTL

\* A new key is found without waiting for the cache to expire: an assertion
\* that names its key is only refused for want of a key that had been
\* published for less than JWKSMinRefresh when the request began.
NewKeysAreFound ==
  \A r \in Requests :
    req[r].pc = "refused" /\ signed[req[r].jti].kid /\ ~inline =>
      LET k == signed[req[r].jti].key
      IN  k \notin published \/ req[r].began < changed[k] + MinRefresh
=============================================================================
