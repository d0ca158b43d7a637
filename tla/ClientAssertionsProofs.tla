----------------------- MODULE ClientAssertionsProofs -----------------------
(***************************************************************************)
(* Proofs about ClientAssertions for every number of requests, keys and    *)
(* assertions and every choice of lifetimes.                               *)
(***************************************************************************)
EXTENDS ClientAssertions, TLAPS

\* A set of keys was what the client published at some moment since t: where
\* it is wrong today, the key has changed since.
AsOf(keys, t) ==
  \A k \in Keys : (k \in keys <=> k \in published) \/ t <= changed[k]

\* The bodies of WithdrawnKeysDie and NewKeysAreFound, for one request.
NotWithdrawn(k, began) == k \in published \/ began < changed[k] + MaxTTL
NotFindable(k, began)  == k \notin published \/ began < changed[k] + MinRefresh

\* Changes lie in the past.
ChangedInv == \A k \in Keys : changed[k] <= now

CacheInv ==
  cache.full =>
    /\ AsOf(cache.keys, cache.fetched)
    /\ cache.fetched <= now
    /\ cache.expires <= cache.fetched + MaxTTL

\* What one request remembers.
LocalInv(q) ==
  /\ q.pc # "idle" => q.jti \in Jtis /\ signed[q.jti].key \in Keys
  /\ q.began <= now /\ q.at <= now
  /\ q.pc \in {"fetch", "fill"} => q.began <= q.at
  /\ q.pc = "fill" => AsOf(q.got, q.at)
  /\ q.pc \in {"judge", "record"} => NotWithdrawn(signed[q.jti].key, q.began)
  /\ q.pc = "refused" /\ signed[q.jti].kid /\ ~inline =>
       NotFindable(signed[q.jti].key, q.began)

RequestInv == \A r \in Requests : LocalInv(req[r])

\* A record stays until the assertion can no longer be accepted.
RecordInv ==
  \A j \in Jtis :
    /\ records[j] # NoRecord => signed[j] # Unsigned /\ records[j] = signed[j].exp + Leeway
    /\ accepted[j] > 0 => signed[j] # Unsigned
    /\ accepted[j] > 0 /\ records[j] = NoRecord => now > signed[j].exp + Leeway

\* An assertion that exists was signed by one of the client's keys.
SignedInv == \A j \in Jtis : signed[j] # Unsigned => signed[j].key \in Keys

IInv ==
  /\ TypeOK /\ ChangedInv /\ CacheInv /\ RequestInv /\ RecordInv /\ SignedInv

-----------------------------------------------------------------------------
LEMMA Nulls ==
  /\ Idle \in Request /\ Idle.pc = "idle" /\ Idle.began = 0 /\ Idle.at = 0
  /\ EmptyCache \in Cache /\ ~EmptyCache.full
  /\ Unsigned \in Assertion /\ Unsigned.key \notin Keys
BY AssertionBounds DEF Idle, Request, PCs, EmptyCache, Cache, Unsigned, Assertion, Times

LEMMA IdleIsSound == ASSUME TypeOK PROVE LocalInv(Idle)
BY Nulls DEF TypeOK, LocalInv, Times

LEMMA InitIInv == Init => IInv
<1> SUFFICES ASSUME Init PROVE IInv
  OBVIOUS
<1>1. TypeOK
  BY Nulls, AssertionBounds DEF Init, TypeOK, Times
<1>2. CacheInv /\ ChangedInv
  BY Nulls DEF Init, CacheInv, ChangedInv
<1>3. RequestInv
  BY <1>1, IdleIsSound DEF Init, RequestInv
<1>4. RecordInv /\ SignedInv
  BY DEF Init, RecordInv, SignedInv
<1> QED
  BY <1>1, <1>2, <1>3, <1>4 DEF IInv

\* A step of one request that leaves the client, the clock and the records
\* alone need only be sound for that request.
LEMMA LocalStep ==
  ASSUME IInv, NEW r \in Requests, NEW q \in Request, LocalInv(q),
         req' = [req EXCEPT ![r] = q],
         UNCHANGED <<now, clientVars, records, accepted>>,
         cache' \in Cache, CacheInv'
  PROVE  IInv'
<1>1. UNCHANGED <<now, inline, published, changed, signed, records, accepted>>
  BY DEF clientVars
<1>2. TypeOK'
  BY <1>1 DEF IInv, TypeOK
<1>3. req'[r] = q /\ \A x \in Requests : x # r => req'[x] = req[x]
  BY DEF IInv, TypeOK
<1>4. RequestInv'
  BY <1>1, <1>3 DEF IInv, RequestInv, LocalInv, AsOf, NotWithdrawn, NotFindable
<1>5. ChangedInv' /\ RecordInv' /\ SignedInv'
  BY <1>1 DEF IInv, ChangedInv, RecordInv, SignedInv
<1> QED
  BY <1>2, <1>4, <1>5 DEF IInv

\* What looking into the cache leaves a request with.
LEMMA LookUpPreserves ==
  ASSUME IInv, NEW r \in Requests, NEW j \in Jtis, signed[j] # Unsigned,
         NEW began \in Times, began <= now, NEW forced \in BOOLEAN,
         LookUp(r, j, began, forced),
         UNCHANGED <<now, clientVars, cache, records, accepted>>
  PROVE  IInv'
<1> DEFINE q == [Idle EXCEPT !.jti = j, !.began = began,
                   !.pc = IF CacheServes(forced) THEN AfterPick(j, cache.keys, forced)
                          ELSE "fetch",
                   !.at = IF CacheServes(forced) THEN 0 ELSE now,
                   !.forced = forced /\ ~CacheServes(forced)]
<1>1. req' = [req EXCEPT ![r] = q]
  BY DEF LookUp
<1>2. CacheInv' /\ cache' \in Cache
  BY DEF IInv, TypeOK, CacheInv, AsOf, clientVars
<1>3. now \in Times /\ now \in Nat /\ 0 \in Times
  BY AssertionBounds DEF IInv, TypeOK, Times
<1>4. AfterPick(j, cache.keys, forced) \in {"judge", "refused", "refresh"}
  BY DEF AfterPick
<1>5. /\ q \in Request /\ q.jti = j /\ q.began = began
      /\ q.pc = IF CacheServes(forced) THEN AfterPick(j, cache.keys, forced) ELSE "fetch"
      /\ q.at = IF CacheServes(forced) THEN 0 ELSE now
  <2>1. (forced /\ ~CacheServes(forced)) \in BOOLEAN
    OBVIOUS
  <2> QED
    BY <1>3, <1>4, <2>1, Nulls DEF Request, PCs, Idle
<1> HIDE DEF q
<1>6. signed[j].key \in Keys /\ signed[j] \in Assertion
  BY DEF IInv, TypeOK, SignedInv
<1>7. CASE ~CacheServes(forced)
  <2>1. LocalInv(q)
    BY <1>3, <1>5, <1>6, <1>7 DEF LocalInv
  <2> QED
    BY <1>1, <1>2, <1>5, <2>1, LocalStep
<1>8. CASE CacheServes(forced)
  <2>1. /\ cache.full /\ now < cache.expires
        /\ forced => now - cache.fetched < MinRefresh
    BY <1>8 DEF CacheServes
  <2>2. /\ AsOf(cache.keys, cache.fetched) /\ cache.expires <= cache.fetched + MaxTTL
        /\ cache.fetched \in Nat /\ cache.expires \in Nat
        /\ changed[signed[j].key] \in Nat /\ began \in Nat
    BY <1>6, <2>1, AssertionBounds DEF IInv, TypeOK, CacheInv, Cache, Times
  <2>3. q.pc = "judge" => NotWithdrawn(signed[j].key, began)
    <3> SUFFICES ASSUME q.pc = "judge" PROVE NotWithdrawn(signed[j].key, began)
      OBVIOUS
    <3>1. signed[j].key \in cache.keys
      BY <1>5, <1>8 DEF AfterPick
    <3> QED
      BY <1>3, <1>6, <2>1, <2>2, <3>1, AssertionBounds DEF AsOf, NotWithdrawn
  <2>4. q.pc = "refused" /\ signed[j].kid /\ ~inline => NotFindable(signed[j].key, began)
    <3> SUFFICES ASSUME q.pc = "refused", signed[j].kid, ~inline
                 PROVE  NotFindable(signed[j].key, began)
      OBVIOUS
    <3>1. signed[j].key \notin cache.keys /\ forced
      BY <1>5, <1>8 DEF AfterPick
    <3> QED
      BY <1>3, <1>6, <2>1, <2>2, <3>1, AssertionBounds DEF AsOf, NotFindable
  <2>5. LocalInv(q)
    BY <1>3, <1>4, <1>5, <1>6, <1>8, <2>3, <2>4 DEF LocalInv
  <2> QED
    BY <1>1, <1>2, <1>5, <2>5, LocalStep
<1> QED
  BY <1>7, <1>8

-----------------------------------------------------------------------------
(* The client and the surroundings *)

LEMMA TickPreserves == ASSUME IInv, Tick PROVE IInv'
<1>1. /\ now \in Times /\ now' = now + 1 /\ now' \in Times
      /\ UNCHANGED <<inline, published, changed, signed, cache, records, req, accepted>>
  BY AssertionBounds DEF IInv, TypeOK, Tick, clientVars, Times
<1>2. TypeOK'
  BY <1>1 DEF IInv, TypeOK
<1>3. ChangedInv' /\ CacheInv' /\ SignedInv'
  BY <1>1, AssertionBounds DEF IInv, TypeOK, ChangedInv, CacheInv, AsOf, SignedInv, Cache, Times
<1>4. RequestInv'
  <2> SUFFICES ASSUME NEW r \in Requests PROVE LocalInv(req[r])'
    BY DEF RequestInv
  <2>1. LocalInv(req[r]) /\ req[r] \in Request
    BY DEF IInv, TypeOK, RequestInv
  <2>2. req[r].began <= now' /\ req[r].at <= now'
    BY <1>1, <2>1, AssertionBounds DEF LocalInv, Request, Times
  <2> QED
    BY <1>1, <2>1, <2>2 DEF LocalInv, AsOf, NotWithdrawn, NotFindable
<1>5. RecordInv'
  BY <1>1, AssertionBounds DEF IInv, TypeOK, RecordInv, Assertion, Times
<1> QED
  BY <1>2, <1>3, <1>4, <1>5 DEF IInv

LEMMA ChangeKeysPreserves ==
  ASSUME IInv, NEW k \in Keys, ChangeKeys(k) PROVE IInv'
<1>1. /\ UNCHANGED <<now, inline, signed, cache, records, req, accepted>>
      /\ published' \in SUBSET Keys
      /\ changed' = [changed EXCEPT ![k] = now]
      /\ \A x \in Keys : x # k => (x \in published' <=> x \in published)
  BY DEF IInv, TypeOK, ChangeKeys
<1>2. /\ changed'[k] = now /\ \A x \in Keys : x # k => changed'[x] = changed[x]
      /\ now \in Times /\ now \in Nat
  BY <1>1, AssertionBounds DEF IInv, TypeOK, Times
<1>3. TypeOK'
  BY <1>1, <1>2 DEF IInv, TypeOK
<1>4. ASSUME NEW K, NEW t \in Times, t <= now, AsOf(K, t) PROVE AsOf(K, t)'
  BY <1>1, <1>2, <1>4 DEF AsOf
<1>5. ChangedInv' /\ SignedInv' /\ RecordInv'
  BY <1>1, <1>2 DEF IInv, ChangedInv, SignedInv, RecordInv
<1>6. CacheInv'
  BY <1>1, <1>4 DEF IInv, TypeOK, CacheInv, Cache
<1>7. RequestInv'
  <2> SUFFICES ASSUME NEW r \in Requests PROVE LocalInv(req[r])'
    BY DEF RequestInv
  <2>1. LocalInv(req[r]) /\ req[r] \in Request
    BY DEF IInv, TypeOK, RequestInv
  <2>2. req[r].pc = "fill" => AsOf(req[r].got, req[r].at)'
    BY <1>1, <1>4, <2>1 DEF LocalInv, Request
  <2>3. ASSUME NEW x \in Keys, NEW b \in Times, b <= now
        PROVE  /\ NotWithdrawn(x, b) => NotWithdrawn(x, b)'
               /\ NotFindable(x, b) => NotFindable(x, b)'
    <3>1. b \in Nat
      BY AssertionBounds DEF Times
    <3>2. CASE x = k
      BY <1>2, <2>3, <3>1, <3>2, AssertionBounds DEF NotWithdrawn, NotFindable
    <3>3. CASE x # k
      BY <1>1, <1>2, <3>3 DEF NotWithdrawn, NotFindable
    <3> QED
      BY <3>2, <3>3
  <2>4. req[r].began \in Times
    BY <2>1 DEF Request
  <2> QED
    BY <1>1, <2>1, <2>2, <2>3, <2>4 DEF LocalInv
<1> QED
  BY <1>3, <1>5, <1>6, <1>7 DEF IInv

LEMMA SignPreserves ==
  ASSUME IInv, NEW j \in Jtis, NEW k \in Keys, NEW kid \in BOOLEAN, NEW exp \in Times,
         Sign(j, k, kid, exp)
  PROVE  IInv'
<1> DEFINE a == [key |-> k, kid |-> kid, exp |-> exp]
<1>1. /\ UNCHANGED <<now, inline, published, changed, cache, records, req, accepted>>
      /\ signed[j] = Unsigned
      /\ signed' = [signed EXCEPT ![j] = a]
  BY DEF Sign
<1>2. a \in Assertion /\ a.key = k
  BY DEF Assertion
<1> HIDE DEF a
<1>3. signed'[j] = a /\ \A x \in Jtis : x # j => signed'[x] = signed[x]
  BY <1>1 DEF IInv, TypeOK
<1>4. TypeOK'
  BY <1>1, <1>2 DEF IInv, TypeOK
<1>5. ChangedInv' /\ CacheInv'
  BY <1>1 DEF IInv, ChangedInv, CacheInv, AsOf
<1>6. SignedInv'
  BY <1>2, <1>3 DEF IInv, SignedInv
<1>7. RecordInv'
  BY <1>1, <1>3 DEF IInv, RecordInv
<1>8. RequestInv'
  <2> SUFFICES ASSUME NEW r \in Requests PROVE LocalInv(req[r])'
    BY DEF RequestInv
  <2>1. LocalInv(req[r]) /\ req[r] \in Request
    BY DEF IInv, TypeOK, RequestInv
  <2>2. req[r].pc # "idle" => req[r].jti # j
    BY <1>1, <2>1, Nulls DEF LocalInv
  <2>3. req[r].pc # "idle" => signed'[req[r].jti] = signed[req[r].jti]
    BY <1>3, <2>1, <2>2 DEF LocalInv
  <2> QED
    BY <1>1, <2>1, <2>3 DEF LocalInv, AsOf, NotWithdrawn, NotFindable
<1> QED
  BY <1>4, <1>5, <1>6, <1>7, <1>8 DEF IInv

LEMMA DropCachePreserves == ASSUME IInv, DropCache PROVE IInv'
<1>1. /\ UNCHANGED <<now, inline, published, changed, signed, records, req, accepted>>
      /\ cache' = EmptyCache
  BY DEF DropCache, clientVars
<1>2. TypeOK'
  BY <1>1, Nulls DEF IInv, TypeOK
<1>3. CacheInv' /\ ChangedInv' /\ RecordInv' /\ SignedInv'
  BY <1>1, Nulls DEF IInv, CacheInv, ChangedInv, RecordInv, SignedInv
<1>4. RequestInv'
  BY <1>1 DEF IInv, RequestInv, LocalInv, AsOf, NotWithdrawn, NotFindable
<1> QED
  BY <1>2, <1>3, <1>4 DEF IInv

LEMMA SweepPreserves ==
  ASSUME IInv, NEW cutoff \in 0..now, DeleteExpiredClientAssertions(cutoff) PROVE IInv'
<1>1. /\ UNCHANGED <<now, inline, published, changed, signed, cache, req, accepted>>
      /\ records' = [j \in Jtis |-> IF records[j] < cutoff THEN NoRecord ELSE records[j]]
  BY DEF DeleteExpiredClientAssertions, clientVars
<1>2. TypeOK'
  BY <1>1 DEF IInv, TypeOK
<1>3. CacheInv' /\ ChangedInv' /\ SignedInv'
  BY <1>1 DEF IInv, CacheInv, AsOf, ChangedInv, SignedInv
<1>4. RequestInv'
  BY <1>1 DEF IInv, RequestInv, LocalInv, AsOf, NotWithdrawn, NotFindable
<1>5. RecordInv'
  <2> SUFFICES ASSUME NEW j \in Jtis
               PROVE  /\ records'[j] # NoRecord =>
                           signed[j] # Unsigned /\ records'[j] = signed[j].exp + Leeway
                      /\ accepted[j] > 0 => signed[j] # Unsigned
                      /\ accepted[j] > 0 /\ records'[j] = NoRecord => now > signed[j].exp + Leeway
    BY <1>1 DEF RecordInv
  <2>1. /\ records'[j] = IF records[j] < cutoff THEN NoRecord ELSE records[j]
        /\ now \in Nat /\ cutoff \in Nat /\ cutoff <= now
    BY <1>1, AssertionBounds DEF IInv, TypeOK, Times
  <2>2. signed[j].exp \in Nat /\ Leeway \in Nat
    BY AssertionBounds DEF IInv, TypeOK, Assertion, Times
  <2> QED
    BY <2>1, <2>2 DEF IInv, RecordInv, NoRecord
<1> QED
  BY <1>2, <1>3, <1>4, <1>5 DEF IInv

-----------------------------------------------------------------------------
(* The steps of a request *)

LEMMA AbandonPreserves == ASSUME IInv, NEW r \in Requests, Abandon(r) PROVE IInv'
<1>1. CacheInv' /\ cache' \in Cache /\ LocalInv(Idle)
  BY IdleIsSound DEF IInv, TypeOK, Abandon, CacheInv, AsOf, clientVars
<1> QED
  BY <1>1, Nulls, LocalStep DEF Abandon

LEMMA PresentPreserves ==
  ASSUME IInv, NEW r \in Requests, NEW j \in Jtis, authenticateAssertion(r, j) PROVE IInv'
<1>1. now \in Times /\ now <= now
  BY DEF IInv, TypeOK, Times
<1> QED
  BY <1>1, LookUpPreserves DEF authenticateAssertion

LEMMA RefreshKeysPreserves ==
  ASSUME IInv, NEW r \in Requests, RefreshKeys(r) PROVE IInv'
<1>1. /\ req[r] \in Request /\ LocalInv(req[r]) /\ req[r].pc = "refresh"
      /\ LookUp(r, req[r].jti, req[r].began, TRUE)
      /\ UNCHANGED <<now, clientVars, cache, records, accepted>>
  BY DEF IInv, TypeOK, RequestInv, RefreshKeys
<1>2. req[r].jti \in Jtis /\ req[r].began \in Times /\ req[r].began <= now
  BY <1>1 DEF LocalInv, Request
<1>3. signed[req[r].jti] # Unsigned
  BY <1>1, Nulls DEF LocalInv
<1> QED
  BY <1>1, <1>2, <1>3, LookUpPreserves

LEMMA FetchPreserves == ASSUME IInv, NEW r \in Requests, Fetch(r) PROVE IInv'
<1> DEFINE q == [req[r] EXCEPT !.got = published,
                               !.pc = IF published = {} THEN "refused" ELSE "fill"]
<1>1. req[r] \in Request /\ LocalInv(req[r]) /\ req[r].pc = "fetch" /\ published \in SUBSET Keys
  BY DEF IInv, TypeOK, RequestInv, Fetch
<1>2. req' = [req EXCEPT ![r] = q]
  BY DEF Fetch, IInv, TypeOK
<1>3. /\ q \in Request /\ q.jti = req[r].jti /\ q.began = req[r].began /\ q.at = req[r].at
      /\ q.got = published /\ q.pc = IF published = {} THEN "refused" ELSE "fill"
  BY <1>1 DEF Request, PCs
<1> HIDE DEF q
<1>4. AsOf(published, q.at)
  BY DEF AsOf
<1>5. q.pc = "refused" => NotFindable(signed[q.jti].key, q.began)
  BY <1>3 DEF NotFindable
<1>6. LocalInv(q)
  BY <1>1, <1>3, <1>4, <1>5 DEF LocalInv
<1>7. CacheInv' /\ cache' \in Cache
  BY DEF IInv, TypeOK, Fetch, CacheInv, AsOf, clientVars
<1> QED
  BY <1>2, <1>3, <1>6, <1>7, LocalStep DEF Fetch

LEMMA FillCachePreserves == ASSUME IInv, NEW r \in Requests, FillCache(r) PROVE IInv'
<1> DEFINE next == AfterPick(req[r].jti, req[r].got, req[r].forced)
           q == [Idle EXCEPT !.pc = next, !.jti = req[r].jti, !.began = req[r].began]
<1>1. req[r] \in Request /\ LocalInv(req[r]) /\ req[r].pc = "fill"
  BY DEF IInv, TypeOK, RequestInv, FillCache
<1>2. req' = [req EXCEPT ![r] = q]
  BY DEF FillCache
<1>3. next \in {"judge", "refused", "refresh"}
  BY DEF AfterPick
<1>4. /\ q \in Request /\ q.jti = req[r].jti /\ q.began = req[r].began /\ q.at = 0
      /\ q.pc = next
  BY <1>1, <1>3, Nulls DEF Request, PCs, Idle
<1> HIDE DEF q
<1> DEFINE k == signed[req[r].jti].key
<1>5. /\ AsOf(req[r].got, req[r].at) /\ req[r].began <= req[r].at /\ k \in Keys
      /\ req[r].at <= now /\ req[r].began <= now /\ req[r].jti \in Jtis
  BY <1>1 DEF LocalInv
<1>6. /\ req[r].at \in Nat /\ req[r].began \in Nat /\ req[r].at \in Times
      /\ now \in Nat /\ changed[k] \in Nat
  BY <1>1, <1>5, AssertionBounds DEF IInv, TypeOK, Request, Times
<1>7. next = "judge" => NotWithdrawn(k, req[r].began)
  <2> SUFFICES ASSUME next = "judge" PROVE NotWithdrawn(k, req[r].began)
    OBVIOUS
  <2>1. k \in req[r].got
    BY DEF AfterPick
  <2> QED
    BY <1>5, <1>6, <2>1, AssertionBounds DEF AsOf, NotWithdrawn
<1>8. next = "refused" /\ signed[req[r].jti].kid /\ ~inline => NotFindable(k, req[r].began)
  <2> SUFFICES ASSUME next = "refused" PROVE NotFindable(k, req[r].began)
    OBVIOUS
  <2>1. k \notin req[r].got
    BY DEF AfterPick
  <2> QED
    BY <1>5, <1>6, <2>1, AssertionBounds DEF AsOf, NotFindable
<1>9. LocalInv(q)
  BY <1>3, <1>4, <1>5, <1>6, <1>7, <1>8 DEF LocalInv
<1>10. UNCHANGED <<now, clientVars, records, accepted>>
  BY DEF FillCache
<1>11. cache' \in Cache /\ CacheInv'
  <2>1. CASE UNCHANGED cache
    BY <1>10, <2>1 DEF IInv, TypeOK, CacheInv, AsOf, clientVars
  <2>2. ASSUME NEW age \in MaxAges, cacheTTL(age) > 0,
               cache' = [full |-> TRUE, keys |-> req[r].got, fetched |-> FetchedAt(r),
                         expires |-> FetchedAt(r) + cacheTTL(age)]
        PROVE  cache' \in Cache /\ CacheInv'
    <3> DEFINE ttl == cacheTTL(age)
               e == [full |-> TRUE, keys |-> req[r].got, fetched |-> req[r].at,
                     expires |-> req[r].at + ttl]
    <3>1. cache' = e
      BY <2>2 DEF FetchedAt
    <3>2. ttl \in 1..MaxTTL /\ MaxTTL \in Nat /\ MaxTime \in Nat
      <4>1. age \in Int /\ MinTTL \in Int /\ MaxTTL \in Nat /\ MaxTime \in Nat
        BY AssertionBounds
      <4> QED
        BY <2>2, <4>1 DEF cacheTTL
    <3> HIDE DEF ttl
    <3>3. req[r].at + ttl \in 0..(MaxTime + MaxTTL) /\ req[r].at + ttl <= req[r].at + MaxTTL
      BY <1>6, <3>2 DEF Times
    <3>4. /\ e \in Cache /\ e.full /\ e.keys = req[r].got /\ e.fetched = req[r].at
          /\ e.expires = req[r].at + ttl
      BY <1>1, <1>6, <3>3 DEF Cache, Request
    <3> HIDE DEF e
    <3>5. \A x \in Keys : (x \in e.keys <=> x \in published') \/ e.fetched <= changed'[x]
      BY <1>5, <1>10, <3>4 DEF AsOf, clientVars
    <3> QED
      BY <1>5, <1>10, <3>1, <3>3, <3>4, <3>5 DEF CacheInv, AsOf
  <2> QED
    BY <2>1, <2>2 DEF FillCache
<1> QED
  BY <1>2, <1>4, <1>9, <1>10, <1>11, LocalStep

LEMMA JudgePreserves == ASSUME IInv, NEW r \in Requests, Judge(r) PROVE IInv'
<1> DEFINE q == [req[r] EXCEPT !.pc = "record"]
<1>1. req[r] \in Request /\ LocalInv(req[r]) /\ req[r].pc = "judge"
  BY DEF IInv, TypeOK, RequestInv, Judge
<1>2. req' = [req EXCEPT ![r] = q]
  BY DEF Judge, IInv, TypeOK
<1>3. /\ q \in Request /\ q.jti = req[r].jti /\ q.began = req[r].began /\ q.at = req[r].at
      /\ q.pc = "record"
  BY <1>1 DEF Request, PCs
<1> HIDE DEF q
<1>4. LocalInv(q)
  BY <1>1, <1>3 DEF LocalInv
<1>5. CacheInv' /\ cache' \in Cache /\ UNCHANGED <<now, clientVars, records, accepted>>
  BY DEF IInv, TypeOK, Judge, CacheInv, AsOf, clientVars
<1> QED
  BY <1>2, <1>3, <1>4, <1>5, LocalStep

LEMMA UsePreserves == ASSUME IInv, NEW r \in Requests, UseClientAssertion(r) PROVE IInv'
<1> DEFINE j == req[r].jti
<1>1. req[r] \in Request /\ LocalInv(req[r]) /\ req[r].pc = "record"
  BY DEF IInv, TypeOK, RequestInv, UseClientAssertion
<1>2. /\ UNCHANGED <<now, inline, published, changed, signed, cache>>
      /\ req' = [req EXCEPT ![r] = Idle]
  BY DEF UseClientAssertion, clientVars
<1>3. j \in Jtis /\ signed[j] # Unsigned /\ signed[j] \in Assertion
  BY <1>1, Nulls DEF IInv, TypeOK, LocalInv
<1>4. CacheInv' /\ ChangedInv' /\ SignedInv'
  BY <1>2 DEF IInv, CacheInv, AsOf, ChangedInv, SignedInv
<1>5. RequestInv'
  <2>1. \A x \in Requests : LocalInv(req'[x])
    BY <1>2, IdleIsSound DEF IInv, TypeOK, RequestInv
  <2> QED
    BY <1>2, <2>1 DEF RequestInv, LocalInv, AsOf, NotWithdrawn, NotFindable
<1>6. CASE records[j] # NoRecord
  <2>1. UNCHANGED <<records, accepted>>
    BY <1>6 DEF UseClientAssertion
  <2>2. TypeOK' /\ RecordInv'
    BY <1>2, <2>1, Nulls DEF IInv, TypeOK, RecordInv
  <2> QED
    BY <1>4, <1>5, <2>2 DEF IInv
<1>7. CASE records[j] = NoRecord
  <2> DEFINE n == IF accepted[j] < 2 THEN accepted[j] + 1 ELSE accepted[j]
  <2>1. /\ records' = [records EXCEPT ![j] = signed[j].exp + Leeway]
        /\ accepted' = [accepted EXCEPT ![j] = n]
    BY <1>7 DEF UseClientAssertion, RecordUntil
  <2>2. signed[j].exp + Leeway \in 0..(MaxTime + Leeway) /\ signed[j].exp \in Nat
    BY <1>3, AssertionBounds DEF Assertion, Times
  <2>3. n \in 0..2
    BY <1>3 DEF IInv, TypeOK
  <2>4. TypeOK'
    BY <1>2, <2>1, <2>2, <2>3, Nulls DEF IInv, TypeOK
  <2>5. RecordInv'
    <3> SUFFICES ASSUME NEW x \in Jtis
                 PROVE  /\ records'[x] # NoRecord =>
                             signed[x] # Unsigned /\ records'[x] = signed[x].exp + Leeway
                        /\ accepted'[x] > 0 => signed[x] # Unsigned
                        /\ accepted'[x] > 0 /\ records'[x] = NoRecord =>
                             now > signed[x].exp + Leeway
      BY <1>2 DEF RecordInv
    <3>1. CASE x = j
      <4>1. records'[j] = signed[j].exp + Leeway
        BY <1>3, <2>1 DEF IInv, TypeOK
      <4>2. records'[j] # NoRecord
        BY <2>2, <4>1, AssertionBounds DEF NoRecord
      <4> QED
        BY <1>3, <3>1, <4>1, <4>2
    <3>2. CASE x # j
      BY <1>3, <2>1, <3>2 DEF IInv, TypeOK, RecordInv
    <3> QED
      BY <3>1, <3>2
  <2> QED
    BY <1>4, <1>5, <2>4, <2>5 DEF IInv
<1> QED
  BY <1>6, <1>7

-----------------------------------------------------------------------------
(* The theorems *)

LEMMA NextPreserves == IInv /\ [Next]_vars => IInv'
<1> SUFFICES ASSUME IInv, [Next]_vars PROVE IInv'
  OBVIOUS
<1>1. CASE Tick
  BY <1>1, TickPreserves
<1>2. ASSUME NEW k \in Keys, ChangeKeys(k) PROVE IInv'
  BY <1>2, ChangeKeysPreserves
<1>3. ASSUME NEW j \in Jtis, NEW k \in Keys, NEW kid \in BOOLEAN, NEW exp \in Times,
             Sign(j, k, kid, exp)
      PROVE  IInv'
  BY <1>3, SignPreserves
<1>4. CASE DropCache
  BY <1>4, DropCachePreserves
<1>5. ASSUME NEW r \in Requests, Handler(r) PROVE IInv'
  BY <1>5, PresentPreserves, RefreshKeysPreserves, FetchPreserves, FillCachePreserves,
     JudgePreserves, UsePreserves, AbandonPreserves DEF Handler
<1>6. ASSUME NEW cutoff \in 0..now, DeleteExpiredClientAssertions(cutoff) PROVE IInv'
  BY <1>6, SweepPreserves
<1>7. CASE UNCHANGED vars
  <2>1. UNCHANGED <<now, inline, published, changed, signed, cache, records, req, accepted>>
    BY <1>7 DEF vars
  <2> QED
    BY <2>1 DEF IInv, TypeOK, ChangedInv, CacheInv, RequestInv, LocalInv, RecordInv, SignedInv,
                AsOf, NotWithdrawn, NotFindable
<1> QED
  BY <1>1, <1>2, <1>3, <1>4, <1>5, <1>6, <1>7 DEF Next

\* The inductive invariant holds throughout.
THEOREM AssertionInvariant == Spec => []IInv
<1>1. Init => IInv
  BY InitIInv
<1>2. IInv /\ [Next]_vars => IInv'
  BY NextPreserves
<1> QED
  BY <1>1, <1>2, PTL DEF Spec

\* The tables, the cache and the locals keep their types.
THEOREM TypeCorrect == Spec => []TypeOK
<1>1. IInv => TypeOK
  BY DEF IInv
<1> QED
  BY <1>1, AssertionInvariant, PTL

\* A key the client has withdrawn is dead after the longest cache lifetime,
\* whatever fetches were under way.
THEOREM WithdrawnKeysAreRefused == Spec => []WithdrawnKeysDie
<1>1. IInv => WithdrawnKeysDie
  BY DEF IInv, RequestInv, LocalInv, WithdrawnKeysDie, NotWithdrawn
<1> QED
  BY <1>1, AssertionInvariant, PTL

\* A key the client has published is found after JWKSMinRefresh.
THEOREM PublishedKeysAreFound == Spec => []NewKeysAreFound
<1>1. IInv => NewKeysAreFound
  BY DEF IInv, RequestInv, LocalInv, NewKeysAreFound, NotFindable
<1> QED
  BY <1>1, AssertionInvariant, PTL

\* An assertion is accepted once while it is valid.
THEOREM NoReplayWhileValid == Spec => ReplayOnlyAfterExpiry
<1>1. IInv /\ [Next]_vars =>
        [\A j \in Jtis : records[j] = NoRecord /\ records'[j] # NoRecord /\ accepted[j] > 0
           => now > signed[j].exp + Leeway]_vars
  BY DEF IInv, RecordInv
<1> QED
  BY <1>1, AssertionInvariant, PTL DEF Spec, ReplayOnlyAfterExpiry
=============================================================================
