------------------------ MODULE RefreshSessionsProofs ------------------------
(***************************************************************************)
(* Proofs about RefreshSessions for every number of calls, users and       *)
(* sessions, and for every cap.                                            *)
(*                                                                         *)
(* The cap is kept by whoever lists last.  While a user has more sessions  *)
(* than the cap, some call of that user has not listed them yet, or it is  *)
(* evicting and what it will leave of its list, together with the sessions *)
(* that are not on it, is within the cap.                                  *)
(***************************************************************************)
EXTENDS RefreshSessions, FiniteSetTheorems, TLAPS

\* What is true of one call, wherever it is.
CallInv(k) ==
  /\ k.pc # "idle" => k.user \in Users
  /\ k.pc = "update" => k.sid \in Sids
  /\ k.pc = "evict" => k.excess > 0
  /\ IsFiniteSet(k.cand)

CallsInv == \A c \in Calls : CallInv(call[c])

\* The sessions of the user of k that are not on its list of candidates.
Listed(k) == {x[1] : x \in k.cand}
Outside(k) == SessionsOf(k.user) \ Listed(k)

\* The call will bring its user down to the cap.
Reduces(k) ==
  /\ k.pc = "evict"
  /\ Cardinality(Outside(k)) <= MaxSessions
  /\ Cardinality(Outside(k)) + Cardinality(k.cand) - k.excess <= MaxSessions

Answers(k, u) == k.user = u /\ (k.pc \in {"gc", "list"} \/ Reduces(k))

CapInv ==
  MaxSessions > 0 /\ ~cutShort =>
    \A u \in Users : Cardinality(SessionsOf(u)) > MaxSessions => \E c \in Calls : Answers(call[c], u)

IInv == TypeOK /\ CallsInv /\ CapInv

-----------------------------------------------------------------------------
(* Sets of sessions *)

LEMMA FiniteSessions ==
  ASSUME NEW S \in SUBSET Sids PROVE IsFiniteSet(S) /\ Cardinality(S) \in Nat
<1>1. IsFiniteSet(Sids)
  BY SessionBounds, FS_Interval DEF Sids
<1> QED
  BY <1>1, FS_Subset, FS_CardinalityType

LEMMA FewerSessions ==
  ASSUME NEW T \in SUBSET Sids, NEW S \in SUBSET T
  PROVE  IsFiniteSet(S) /\ Cardinality(S) \in Nat /\ Cardinality(T) \in Nat
         /\ Cardinality(S) <= Cardinality(T)
BY FiniteSessions, FS_Subset, FS_CardinalityType

LEMMA NoneIsFinite == IsFiniteSet({}) /\ Cardinality({}) = 0
BY FS_EmptySet

\* The list that enforceMaxSessions keeps for its loop.
LEMMA CandidateList ==
  ASSUME NEW S \in SUBSET Sids, NEW e
  PROVE  LET L == {<<s, e[s]>> : s \in S}
         IN  /\ IsFiniteSet(L) /\ Cardinality(L) <= Cardinality(S) /\ Cardinality(L) \in Nat
             /\ {x[1] : x \in L} = S
<1> DEFINE L == {<<s, e[s]>> : s \in S}
           f == [s \in S |-> <<s, e[s]>>]
<1>1. f \in Surjection(S, L)
  BY DEF Surjection
<1>2. IsFiniteSet(S)
  BY FiniteSessions
<1>3. IsFiniteSet(L) /\ Cardinality(L) <= Cardinality(S)
  BY <1>1, <1>2, FS_Surjection
<1>4. Cardinality(L) \in Nat
  BY <1>3, FS_CardinalityType
<1>5. {x[1] : x \in L} = S
  <2>1. \A s \in S : <<s, e[s]>> \in L /\ <<s, e[s]>>[1] = s
    OBVIOUS
  <2>2. \A x \in L : x[1] \in S
    OBVIOUS
  <2> HIDE DEF L
  <2> QED
    BY <2>1, <2>2
<1> QED
  BY <1>3, <1>4, <1>5

\* The sessions on a list are at most as many as its entries.
LEMMA ListedSessions ==
  ASSUME NEW L \in SUBSET (Sids \X Nat), IsFiniteSet(L)
  PROVE  LET T == {x[1] : x \in L}
         IN  /\ T \in SUBSET Sids /\ Cardinality(T) <= Cardinality(L)
             /\ Cardinality(T) \in Nat /\ Cardinality(L) \in Nat
<1> DEFINE T == {x[1] : x \in L}
           f == [x \in L |-> x[1]]
<1>1. f \in Surjection(L, T)
  BY DEF Surjection
<1>2. IsFiniteSet(T) /\ Cardinality(T) <= Cardinality(L)
  BY <1>1, FS_Surjection
<1>3. T \in SUBSET Sids
  OBVIOUS
<1> QED
  BY <1>2, <1>3, FS_CardinalityType

\* A set that two sets cover has no more members than they have together.
LEMMA Cover ==
  ASSUME NEW A \in SUBSET Sids, NEW B \in SUBSET Sids, NEW S, S \subseteq A \union B
  PROVE  Cardinality(S) <= Cardinality(A) + Cardinality(B)
<1>1. IsFiniteSet(A) /\ IsFiniteSet(B) /\ Cardinality(A) \in Nat /\ Cardinality(B) \in Nat
      /\ IsFiniteSet(A \cap B) /\ Cardinality(A \cap B) \in Nat
  BY FiniteSessions
<1>2. Cardinality(A \union B) = Cardinality(A) + Cardinality(B) - Cardinality(A \cap B)
  BY <1>1, FS_Union
<1>3. Cardinality(S) <= Cardinality(A \union B) /\ Cardinality(S) \in Nat
      /\ Cardinality(A \union B) \in Nat
  BY FewerSessions
<1> QED
  BY <1>1, <1>2, <1>3

-----------------------------------------------------------------------------
LEMMA Nulls ==
  /\ Idle \in Call /\ Idle.pc = "idle" /\ Idle.cand = {} /\ CallInv(Idle)
  /\ NoSession \in Session /\ ~NoSession.live /\ EmptySlot \in Slot /\ EmptySlot.hash = 0
  /\ 0 \in Secrets /\ 0 \in 0..MaxSids
<1>1. 0 \in Secrets /\ 0 \in 0..MaxSids
  BY SessionBounds DEF Secrets
<1>2. Idle \in Call /\ Idle.pc = "idle" /\ Idle.cand = {}
  BY <1>1 DEF Idle, Call, PCs
<1>3. NoSession \in Session /\ ~NoSession.live /\ EmptySlot \in Slot /\ EmptySlot.hash = 0
  BY <1>1 DEF NoSession, Session, EmptySlot, Slot
<1> QED
  BY <1>1, <1>2, <1>3, NoneIsFinite DEF CallInv

LEMMA InitIInv == Init => IInv
<1> SUFFICES ASSUME Init PROVE IInv
  OBVIOUS
<1>1. TypeOK
  BY Nulls DEF Init, TypeOK
<1>2. CallsInv
  BY Nulls DEF Init, CallsInv
<1>3. CapInv
  <2>1. \A u \in Users : SessionsOf(u) = {}
    BY Nulls DEF Init, SessionsOf
  <2> QED
    BY <2>1, NoneIsFinite, SessionBounds DEF CapInv
<1> QED
  BY <1>1, <1>2, <1>3 DEF IInv

-----------------------------------------------------------------------------
(* Steps that open no session *)

\* The sessions of every user stay or become fewer.
NoneOpened == \A u \in Users : SessionsOf(u)' \subseteq SessionsOf(u)

\* Call k still answers for its user when its state is l.
Carries(k, l) == l = k \/ (k.pc \in {"gc", "list"} /\ l.pc \in {"gc", "list"} /\ l.user = k.user)

LEMMA SessionsOfType == \A u : SessionsOf(u) \in SUBSET Sids
BY DEF SessionsOf

LEMMA AnswersStay ==
  ASSUME IInv, NEW c \in Calls, NEW u \in Users, SessionsOf(u)' \subseteq SessionsOf(u),
         Answers(call[c], u), Carries(call[c], call'[c])
  PROVE  Answers(call[c], u)'
<1>1. CASE call[c].pc \in {"gc", "list"}
  BY <1>1 DEF Answers, Carries
<1>2. CASE Reduces(call[c]) /\ call'[c] = call[c]
  <2> DEFINE k == call[c]
             A == Outside(k)
             B == SessionsOf(u)' \ Listed(k)
  <2>1. k.user = u /\ B \subseteq A /\ A \in SUBSET Sids
    BY SessionsOfType DEF Answers, Outside
  <2>2. Cardinality(A) \in Nat /\ Cardinality(B) \in Nat /\ Cardinality(B) <= Cardinality(A)
    BY <2>1, FewerSessions
  <2>3. Cardinality(k.cand) \in Nat /\ k.excess \in Nat
    BY FS_CardinalityType DEF IInv, TypeOK, Call, CallsInv, CallInv
  <2>4. Outside(k)' = B /\ k' = k
    BY <1>2, <2>1 DEF Outside, Listed
  <2> QED
    BY <1>2, <2>1, <2>2, <2>3, <2>4, SessionBounds DEF Answers, Reduces
<1> QED
  BY <1>1, <1>2 DEF Answers, Carries, Reduces

LEMMA CapKept ==
  ASSUME IInv, NoneOpened, cutShort' = cutShort,
         \A c \in Calls : Enforcing(c) => Carries(call[c], call'[c])
  PROVE  CapInv'
<1> SUFFICES ASSUME MaxSessions > 0, ~cutShort', NEW u \in Users, Cardinality(SessionsOf(u)') > MaxSessions
             PROVE  \E c \in Calls : Answers(call[c], u)'
  BY DEF CapInv
<1>1. Cardinality(SessionsOf(u)) > MaxSessions
  BY SessionsOfType, FewerSessions, SessionBounds DEF NoneOpened
<1>2. PICK c \in Calls : Answers(call[c], u)
  BY <1>1 DEF IInv, CapInv
<1>3. Enforcing(c)
  BY <1>2 DEF Answers, Reduces, Enforcing
<1> QED
  BY <1>2, <1>3, AnswersStay DEF NoneOpened

\* A step of call c: the calls that answer for other users still do.
LEMMA OthersAnswer ==
  ASSUME IInv, NEW c \in Calls, \A d \in Calls : d # c => call'[d] = call[d],
         MaxSessions > 0, ~cutShort, NEW u \in Users, SessionsOf(u)' \subseteq SessionsOf(u),
         Cardinality(SessionsOf(u)') > MaxSessions, ~Answers(call[c], u)
  PROVE  \E d \in Calls : Answers(call[d], u)'
<1>1. Cardinality(SessionsOf(u)) > MaxSessions
  BY SessionsOfType, FewerSessions, SessionBounds
<1>2. PICK d \in Calls : Answers(call[d], u)
  BY <1>1 DEF IInv, CapInv
<1> QED
  BY <1>2, AnswersStay DEF Carries

LEMMA CapCutShort == ASSUME cutShort' PROVE CapInv'
BY DEF CapInv

-----------------------------------------------------------------------------
(* The actions *)

\* What a step of call c must show for the types: the new state of the call.
LEMMA CallStep ==
  ASSUME IInv, NEW c \in Calls, NEW k \in Call, CallInv(k), call' = [call EXCEPT ![c] = k],
         UNCHANGED <<now, stamp, sessionsOn>>,
         sessions' \in [Sids -> Session], slot' \in [Users -> Slot],
         held' \in SUBSET ((0..MaxSids) \X Secrets),
         nextSid' \in 0..MaxSids, nextSecret' \in Secrets,
         cutShort' \in BOOLEAN, ended' \in BOOLEAN
  PROVE  /\ TypeOK' /\ CallsInv'
         /\ call'[c] = k /\ \A d \in Calls : d # c => call'[d] = call[d]
<1>1. call'[c] = k /\ \A d \in Calls : d # c => call'[d] = call[d]
  BY DEF IInv, TypeOK
<1>2. TypeOK'
  BY DEF IInv, TypeOK
<1>3. CallsInv'
  BY <1>1 DEF IInv, CallsInv
<1> QED
  BY <1>1, <1>2, <1>3

\* A step of call c that opens no session and ends no enforcement.
LEMMA QuietStep ==
  ASSUME IInv, NEW c \in Calls, NEW k \in Call, CallInv(k), call' = [call EXCEPT ![c] = k],
         UNCHANGED <<now, stamp, sessionsOn, nextSid, cutShort>>,
         sessions' \in [Sids -> Session], slot' \in [Users -> Slot],
         held' \in SUBSET ((0..MaxSids) \X Secrets),
         nextSecret' \in Secrets, ended' \in BOOLEAN,
         NoneOpened, Enforcing(c) => Carries(call[c], k)
  PROVE  IInv'
<1>1. /\ TypeOK' /\ CallsInv'
      /\ call'[c] = k /\ \A d \in Calls : d # c => call'[d] = call[d]
  BY CallStep DEF IInv, TypeOK
<1>2. \A d \in Calls : Enforcing(d) => Carries(call[d], call'[d])
  BY <1>1 DEF Carries
<1>3. CapInv'
  BY <1>2, CapKept
<1> QED
  BY <1>1, <1>3 DEF IInv

LEMMA SameSessions == ASSUME UNCHANGED sessions PROVE NoneOpened
BY DEF NoneOpened, SessionsOf

LEMMA CallFacts ==
  ASSUME IInv, NEW c \in Calls
  PROVE  /\ call[c] \in Call /\ CallInv(call[c]) /\ call \in [Calls -> Call]
         /\ sessions \in [Sids -> Session] /\ slot \in [Users -> Slot]
         /\ held \in SUBSET ((0..MaxSids) \X Secrets) /\ now \in Nat /\ stamp \in [Users -> Nat]
         /\ nextSid \in 0..MaxSids /\ nextSecret \in Secrets
         /\ cutShort \in BOOLEAN /\ ended \in BOOLEAN /\ sessionsOn \in BOOLEAN
BY DEF IInv, TypeOK, CallsInv

\* Deleting rows opens no session.
LEMMA DeletedRows ==
  ASSUME IInv, NEW D \in SUBSET Sids,
         sessions' = [s \in Sids |-> IF s \in D THEN NoSession ELSE sessions[s]]
  PROVE  sessions' \in [Sids -> Session] /\ NoneOpened
BY Nulls DEF IInv, TypeOK, NoneOpened, SessionsOf

LEMMA DeletedRow ==
  ASSUME IInv, NEW s \in Sids, sessions' = [sessions EXCEPT ![s] = NoSession]
  PROVE  sessions' \in [Sids -> Session] /\ NoneOpened
BY Nulls DEF IInv, TypeOK, NoneOpened, SessionsOf

LEMMA NextSecret ==
  ASSUME nextSecret \in Secrets, nextSecret < MaxSecrets
  PROVE  nextSecret + 1 \in Secrets
BY SessionBounds DEF Secrets

LEMMA SurroundingsPreserve ==
  ASSUME IInv, Tick \/ WithSessionStore \/ \E u \in Users : UpdateSecurityStamp(u)
  PROVE  IInv'
<1>1. TypeOK'
  <2>1. CASE Tick
    BY <2>1 DEF IInv, TypeOK, Tick
  <2>2. CASE WithSessionStore
    BY <2>2 DEF IInv, TypeOK, WithSessionStore
  <2>3. ASSUME NEW u \in Users, UpdateSecurityStamp(u) PROVE TypeOK'
    <3>1. stamp' \in [Users -> Nat]
      BY <2>3 DEF IInv, TypeOK, UpdateSecurityStamp
    <3> QED
      BY <2>3, <3>1 DEF IInv, TypeOK, UpdateSecurityStamp
  <2> QED
    BY <2>1, <2>2, <2>3
<1>2. UNCHANGED <<sessions, call, cutShort>>
  BY DEF Tick, WithSessionStore, UpdateSecurityStamp
<1>3. CallsInv'
  BY <1>2 DEF IInv, CallsInv
<1>4. CapInv'
  BY <1>2, CapKept, SameSessions DEF Carries
<1> QED
  BY <1>1, <1>3, <1>4 DEF IInv

LEMMA RevokeSessionPreserves ==
  ASSUME IInv, NEW u \in Users, NEW s \in 0..MaxSids, NEW secret \in 1..MaxSecrets,
         RevokeSession(u, s, secret)
  PROVE  IInv'
<1>1. sessions' \in [Sids -> Session] /\ NoneOpened /\ slot' \in [Users -> Slot]
  <2>1. CASE s \in Sids /\ sessions' = [sessions EXCEPT ![s] = NoSession] /\ UNCHANGED slot
    BY <2>1, DeletedRow DEF IInv, TypeOK
  <2>2. CASE slot' = [slot EXCEPT ![u] = EmptySlot] /\ UNCHANGED sessions
    BY <2>2, Nulls, SameSessions DEF IInv, TypeOK
  <2> QED
    BY <2>1, <2>2 DEF RevokeSession, SessionsOf
<1>2. UNCHANGED <<now, stamp, sessionsOn, call, held, nextSid, nextSecret, cutShort>> /\ ended' = TRUE
  BY DEF RevokeSession
<1>3. TypeOK' /\ CallsInv'
  BY <1>1, <1>2 DEF IInv, TypeOK, CallsInv
<1>4. CapInv'
  BY <1>1, <1>2, CapKept DEF Carries
<1> QED
  BY <1>3, <1>4 DEF IInv

LEMMA LoadUserPreserves ==
  ASSUME IInv, NEW c \in Calls, NEW u \in Users, LoadUser(c, u) PROVE IInv'
<1> DEFINE k == [Idle EXCEPT !.pc = "loaded", !.user = u, !.stamp = stamp[u], !.born = stamp[u]]
<1>1. k \in Call /\ k.pc = "loaded" /\ k.user = u /\ k.cand = {}
  <2>1. stamp[u] \in Nat
    BY CallFacts
  <2> QED
    BY <2>1, Nulls DEF Call, PCs
<1>2. CallInv(k)
  BY <1>1, NoneIsFinite DEF CallInv
<1>3. call' = [call EXCEPT ![c] = k] /\ ~Enforcing(c)
  BY DEF LoadUser, Enforcing
<1> HIDE DEF k
<1> QED
  BY <1>1, <1>2, <1>3, QuietStep, SameSessions, CallFacts DEF LoadUser

LEMMA AbandonPreserves == ASSUME IInv, NEW c \in Calls, Abandon(c) PROVE IInv'
<1>1. call' = [call EXCEPT ![c] = Idle] /\ UNCHANGED <<now, stamp, sessionsOn, sessions, slot, held, nextSid, nextSecret, ended>>
  BY DEF Abandon
<1>2. CASE Enforcing(c)
  <2>1. cutShort' = TRUE
    BY <1>2 DEF Abandon, Enforcing
  <2> QED
    BY <1>1, <2>1, CallStep, Nulls, CapCutShort, CallFacts DEF IInv
<1>3. CASE ~Enforcing(c)
  <2>1. cutShort' = cutShort
    BY <1>3, CallFacts DEF Abandon, Enforcing
  <2> QED
    BY <1>1, <1>3, <2>1, QuietStep, Nulls, SameSessions, CallFacts
<1> QED
  BY <1>2, <1>3

-----------------------------------------------------------------------------
(* The actions of IssuePair *)

LEMMA SetTokenPreserves == ASSUME IInv, NEW c \in Calls, SetToken(c) PROVE IInv'
<1> DEFINE k == [call[c] EXCEPT !.pc = "respond", !.hash = nextSecret + 1]
<1>1. call[c].pc \in {"loaded", "issue"} /\ nextSecret < MaxSecrets
      /\ call[c].user \in Users /\ nextSecret + 1 \in Secrets
  BY CallFacts, NextSecret DEF SetToken, CallInv
<1>2. k \in Call /\ k.pc = "respond" /\ k.user = call[c].user /\ k.cand = call[c].cand
  BY <1>1, CallFacts DEF Call, PCs
<1>3. CallInv(k)
  BY <1>1, <1>2, CallFacts DEF CallInv
<1>4. slot' \in [Users -> Slot]
  <2>1. now + RefreshTTL \in Nat /\ call[c].born \in Nat
    BY CallFacts, SessionBounds DEF Call
  <2>2. [hash |-> nextSecret + 1, exp |-> now + RefreshTTL, born |-> call[c].born] \in Slot
    BY <1>1, <2>1 DEF Slot
  <2> QED
    BY <2>2, CallFacts DEF SetToken
<1>5. call' = [call EXCEPT ![c] = k] /\ nextSecret' = nextSecret + 1
  BY CallFacts DEF SetToken
<1>6. ~Enforcing(c)
  BY <1>1 DEF Enforcing
<1>7. UNCHANGED <<now, stamp, sessionsOn, sessions, held, nextSid, cutShort, ended>>
  BY DEF SetToken
<1> HIDE DEF k
<1> QED
  BY <1>1, <1>2, <1>3, <1>4, <1>5, <1>6, <1>7, QuietStep, SameSessions, CallFacts

LEMMA CreateRefreshTokenPreserves == ASSUME IInv, NEW c \in Calls, CreateRefreshToken(c) PROVE IInv'
<1> DEFINE k == [call[c] EXCEPT !.pc = "gc", !.sid = nextSid + 1, !.hash = nextSecret + 1, !.at = now]
           r == [live |-> TRUE, user |-> call[c].user, hash |-> nextSecret + 1,
                 exp |-> now + RefreshTTL, born |-> call[c].born]
<1>1. call[c].pc \in {"loaded", "issue"} /\ nextSecret < MaxSecrets /\ nextSid < MaxSids
      /\ call[c].user \in Users /\ nextSecret + 1 \in Secrets
  BY CallFacts, NextSecret DEF CreateRefreshToken, CallInv
<1>2. nextSid + 1 \in Sids /\ nextSid + 1 \in 0..MaxSids
  BY <1>1, CallFacts, SessionBounds DEF Sids
<1>3. k \in Call /\ k.pc = "gc" /\ k.user = call[c].user /\ k.cand = call[c].cand
  BY <1>1, <1>2, CallFacts DEF Call, PCs
<1>4. CallInv(k)
  BY <1>1, <1>3, CallFacts DEF CallInv
<1>5. r \in Session /\ r.user = call[c].user
  <2>1. now + RefreshTTL \in Nat /\ call[c].born \in Nat
    BY CallFacts, SessionBounds DEF Call
  <2> QED
    BY <1>1, <2>1 DEF Session
<1>6. call' = [call EXCEPT ![c] = k] /\ nextSecret' = nextSecret + 1 /\ nextSid' = nextSid + 1
      /\ sessions' = [sessions EXCEPT ![nextSid + 1] = r]
  BY CallFacts DEF CreateRefreshToken
<1>7. UNCHANGED <<now, stamp, sessionsOn, slot, held, cutShort, ended>>
  BY DEF CreateRefreshToken
<1> HIDE DEF k, r
<1>8. sessions' \in [Sids -> Session]
      /\ \A s \in Sids : sessions'[s] = (IF s = nextSid + 1 THEN r ELSE sessions[s])
  BY <1>2, <1>5, <1>6, CallFacts
<1>9. TypeOK' /\ CallsInv' /\ call'[c] = k /\ \A d \in Calls : d # c => call'[d] = call[d]
  BY <1>1, <1>2, <1>3, <1>4, <1>6, <1>7, <1>8, CallStep, CallFacts
<1>10. CapInv'
  <2> SUFFICES ASSUME MaxSessions > 0, ~cutShort', NEW u \in Users,
                      Cardinality(SessionsOf(u)') > MaxSessions
               PROVE  \E d \in Calls : Answers(call[d], u)'
    BY DEF CapInv
  <2>1. CASE u = call[c].user
    <3>1. Answers(call[c], u)'
      BY <1>3, <1>9, <2>1 DEF Answers
    <3> QED
      BY <3>1
  <2>2. CASE u # call[c].user
    <3>1. SessionsOf(u)' \subseteq SessionsOf(u)
      BY <1>5, <1>8, <2>2 DEF SessionsOf
    <3>2. ~Answers(call[c], u)
      BY <2>2 DEF Answers
    <3> QED
      BY <1>7, <1>9, <3>1, <3>2, OthersAnswer
  <2> QED
    BY <2>1, <2>2
<1> QED
  BY <1>9, <1>10 DEF IInv

LEMMA DeleteExpiredPreserves ==
  ASSUME IInv, NEW c \in Calls, DeleteExpiredRefreshTokens(c) PROVE IInv'
<1> DEFINE k == [call[c] EXCEPT !.pc = "list", !.at = 0]
           dead == {s \in Sids : sessions[s].live /\ sessions[s].exp < call[c].at}
<1>1. call[c].pc = "gc"
  BY DEF DeleteExpiredRefreshTokens
<1>2. k \in Call /\ k.pc = "list" /\ k.user = call[c].user /\ k.cand = call[c].cand
  BY CallFacts DEF Call, PCs
<1>3. CallInv(k)
  BY <1>1, <1>2, CallFacts DEF CallInv
<1>4. call' = [call EXCEPT ![c] = k]
  BY CallFacts DEF DeleteExpiredRefreshTokens
<1>5. Carries(call[c], k)
  BY <1>1, <1>2 DEF Carries
<1>6. UNCHANGED <<now, stamp, sessionsOn, slot, held, nextSid, nextSecret, cutShort>>
  BY DEF DeleteExpiredRefreshTokens
<1>7. \/ /\ sessions' = [s \in Sids |-> IF s \in dead THEN NoSession ELSE sessions[s]]
         /\ ended' = (ended \/ dead # {})
      \/ UNCHANGED <<sessions, ended>>
  BY DEF DeleteExpiredRefreshTokens
<1>8. dead \in SUBSET Sids
  OBVIOUS
<1> HIDE DEF k, dead
<1>9. sessions' \in [Sids -> Session] /\ NoneOpened /\ ended' \in BOOLEAN
  <2>1. CASE sessions' = [s \in Sids |-> IF s \in dead THEN NoSession ELSE sessions[s]]
             /\ ended' = (ended \/ dead # {})
    BY <1>8, <2>1, DeletedRows
  <2>2. CASE UNCHANGED <<sessions, ended>>
    BY <2>2, SameSessions, CallFacts
  <2> QED
    BY <1>7, <2>1, <2>2
<1> QED
  BY <1>2, <1>3, <1>4, <1>5, <1>6, <1>9, QuietStep, CallFacts

LEMMA ListPreserves == ASSUME IInv, NEW c \in Calls, ListUserRefreshTokens(c) PROVE IInv'
<1>u. PICK u \in Users : u = call[c].user
  BY CallFacts DEF ListUserRefreshTokens, CallInv
<1>m. PICK mine \in SUBSET Sids : mine = SessionsOf(u)
  BY SessionsOfType
<1>s. PICK sid : sid = call[c].sid
  OBVIOUS
<1>e. PICK e : e = [s \in Sids |-> sessions[s].exp]
  OBVIOUS
<1> DEFINE n == Cardinality(mine)
           others == mine \ {sid}
           L == {<<s, e[s]>> : s \in others}
           done == [call[c] EXCEPT !.pc = Issued(c)]
<1>1. call[c].pc = "list" /\ n \in Nat
  BY FiniteSessions DEF ListUserRefreshTokens
<1>v. PICK evict : evict = [call[c] EXCEPT !.pc = "evict", !.excess = n - MaxSessions, !.cand = L]
  OBVIOUS
<1>l. L = {<<s, sessions[s].exp>> : s \in SessionsOf(call[c].user) \ {call[c].sid}}
  BY <1>u, <1>m, <1>s, <1>e
<1>2. UNCHANGED <<now, stamp, sessionsOn, sessions, slot, held, nextSid, nextSecret, ended>>
  BY DEF ListUserRefreshTokens
<1>3. \/ ~AboveCap(n) /\ call' = [call EXCEPT ![c] = done] /\ cutShort' = cutShort
      \/ AboveCap(n) /\ call' = [call EXCEPT ![c] = evict] /\ cutShort' = cutShort
      \/ call' = [call EXCEPT ![c] = done] /\ cutShort' = TRUE
  BY <1>u, <1>m, <1>v, <1>l, CallFacts DEF ListUserRefreshTokens
<1>4. done \in Call /\ CallInv(done) /\ done.pc \in {"retire", "respond"} /\ done.user = u
  <2>1. Issued(c) \in {"retire", "respond"} /\ Issued(c) \in PCs
    BY DEF Issued, PCs
  <2>2. done \in Call /\ done.pc = Issued(c) /\ done.user = u /\ done.cand = call[c].cand
    BY <1>u, <2>1, CallFacts DEF Call
  <2> HIDE DEF done
  <2> QED
    BY <1>1, <2>1, <2>2, CallFacts DEF CallInv
<1>5. \A v \in Users : SessionsOf(v)' = SessionsOf(v)
  BY <1>2 DEF SessionsOf
<1> HIDE DEF done
<1>6. CASE ~AboveCap(n) /\ call' = [call EXCEPT ![c] = done] /\ cutShort' = cutShort
  <2>1. TypeOK' /\ CallsInv' /\ call'[c] = done /\ \A d \in Calls : d # c => call'[d] = call[d]
    BY <1>2, <1>4, <1>6, CallStep, CallFacts
  <2>2. ASSUME MaxSessions > 0, ~cutShort', NEW v \in Users,
               Cardinality(SessionsOf(v)') > MaxSessions
        PROVE  \E d \in Calls : Answers(call[d], v)'
    <3>1. v # u
      BY <1>m, <1>5, <1>6, <2>2 DEF AboveCap
    <3>2. ~Answers(call[c], v)
      BY <1>u, <3>1 DEF Answers
    <3> QED
      BY <1>5, <1>6, <2>1, <2>2, <3>2, OthersAnswer
  <2> QED
    BY <2>1, <2>2 DEF IInv, CapInv
<1>7. CASE AboveCap(n) /\ call' = [call EXCEPT ![c] = evict] /\ cutShort' = cutShort
  <2>1. n > MaxSessions /\ MaxSessions > 0 /\ n - MaxSessions \in Nat /\ n - MaxSessions > 0
    BY <1>1, <1>7, SessionBounds DEF AboveCap
  <2>2. others \in SUBSET Sids
    OBVIOUS
  <2>3. /\ IsFiniteSet(L) /\ Cardinality(L) <= Cardinality(others) /\ Cardinality(L) \in Nat
        /\ {x[1] : x \in L} = others
    <3> HIDE DEF others
    <3> QED
      BY <2>2, CandidateList
  <2>4. L \in SUBSET (Sids \X Nat)
    <3>1. \A s \in mine : s \in Sids /\ sessions[s].exp \in Nat
      BY CallFacts DEF Session
    <3> QED
      BY <1>e, <3>1
  <2> HIDE DEF L, n
  <2>5. evict \in Call /\ evict.pc = "evict" /\ evict.user = u /\ evict.cand = L
        /\ evict.excess = n - MaxSessions
    BY <1>u, <1>v, <2>1, <2>4, CallFacts DEF Call, PCs
  <2>6. CallInv(evict)
    BY <1>1, <2>1, <2>3, <2>5 DEF CallInv
  <2>7. TypeOK' /\ CallsInv' /\ call'[c] = evict /\ \A d \in Calls : d # c => call'[d] = call[d]
    BY <1>2, <1>7, <2>5, <2>6, CallStep, CallFacts
  <2>8. Answers(call[c], u)'
    <3> DEFINE left == mine \ others
    <3>1. left \subseteq {sid} /\ left \in SUBSET Sids
      BY <1>1
    <3>2. Cardinality(left) \in Nat /\ Cardinality(left) <= 1
      <4>1. IsFiniteSet({sid}) /\ Cardinality({sid}) = 1
        BY FS_Singleton
      <4> QED
        BY <3>1, <4>1, FS_Subset, FiniteSessions
    <3>3. Cardinality(others) = Cardinality(mine) - Cardinality(mine \ others)
          /\ Cardinality(others) \in Nat
      <4>1. IsFiniteSet(mine) /\ IsFiniteSet(left) /\ others = mine \ left /\ mine \cap left = left
        BY <1>1, FiniteSessions
      <4> QED
        BY <4>1, <2>2, FS_Difference, FiniteSessions
    <3>4. Outside(evict)' = left
      BY <1>m, <1>5, <2>3, <2>5 DEF Outside, Listed
    <3>5. Cardinality(mine) = n /\ n \in Nat
      BY <1>1 DEF n
    <3> HIDE DEF left
    <3>6. Cardinality(left) + Cardinality(L) - (n - MaxSessions) <= MaxSessions
      BY <2>3, <3>2, <3>3, <3>5, SessionBounds DEF left
    <3>7. Cardinality(left) <= MaxSessions
      BY <2>1, <3>2, SessionBounds
    <3>8. Reduces(evict)'
      BY <2>5, <3>4, <3>6, <3>7 DEF Reduces
    <3> QED
      BY <2>5, <2>7, <3>8 DEF Answers
  <2>9. ASSUME MaxSessions > 0, ~cutShort', NEW v \in Users,
               Cardinality(SessionsOf(v)') > MaxSessions
        PROVE  \E d \in Calls : Answers(call[d], v)'
    <3>1. CASE v = u
      BY <2>8, <3>1
    <3>2. CASE v # u
      <4>1. ~Answers(call[c], v)
        BY <1>u, <3>2 DEF Answers
      <4> QED
        BY <1>5, <1>7, <2>7, <2>9, <4>1, OthersAnswer
    <3> QED
      BY <3>1, <3>2
  <2> QED
    BY <2>7, <2>9 DEF IInv, CapInv
<1>8. CASE call' = [call EXCEPT ![c] = done] /\ cutShort' = TRUE
  BY <1>2, <1>4, <1>8, CallStep, CapCutShort, CallFacts DEF IInv
<1> QED
  BY <1>3, <1>6, <1>7, <1>8

\* One turn of the eviction loop: the session x leaves the table and the list.
LEMMA EvictionStep ==
  ASSUME IInv, NEW k \in Call, NEW x \in k.cand, NEW u \in Users, k.user = u,
         IsFiniteSet(k.cand), Reduces(k), k.excess > 0,
         SessionsOf(u)' \subseteq SessionsOf(u) \ {x[1]}, MaxSessions > 0,
         Cardinality(SessionsOf(u)') > MaxSessions
  PROVE  /\ k.excess - 1 # 0 /\ k.cand \ {x} # {}
         /\ \A l : /\ l.pc = "evict" /\ l.user = u
                   /\ l.cand = k.cand \ {x} /\ l.excess = k.excess - 1
                  => Reduces(l)'
<1> DEFINE rest == k.cand \ {x}
           S == SessionsOf(u)'
           A == Outside(k)
           B == {y[1] : y \in rest}
           C == S \ B
<1>1. k.cand \in SUBSET (Sids \X Nat) /\ k.excess \in Nat /\ x[1] \in Sids
  BY DEF Call
<1>2. A \in SUBSET Sids /\ S \in SUBSET Sids /\ C \in SUBSET Sids
  BY SessionsOfType DEF Outside
<1>3. IsFiniteSet(rest) /\ Cardinality(rest) = Cardinality(k.cand) - 1
      /\ Cardinality(rest) \in Nat /\ Cardinality(k.cand) \in Nat
  BY FS_RemoveElement, FS_CardinalityType
<1>4. /\ B \in SUBSET Sids /\ Cardinality(B) <= Cardinality(rest) /\ Cardinality(B) \in Nat
  <2>1. rest \in SUBSET (Sids \X Nat)
    BY <1>1
  <2> HIDE DEF rest
  <2> QED
    BY <1>3, <2>1, ListedSessions
<1>5. S \subseteq A \union B /\ C \subseteq A
  BY DEF Outside, Listed
<1>6. Cardinality(A) \in Nat /\ Cardinality(S) \in Nat /\ Cardinality(C) \in Nat
  BY <1>2, FiniteSessions
<1>7. Cardinality(S) <= Cardinality(A) + Cardinality(B) /\ Cardinality(C) <= Cardinality(A)
  BY <1>2, <1>4, <1>5, Cover, FewerSessions
<1>8. Cardinality(A) <= MaxSessions
      /\ Cardinality(A) + Cardinality(k.cand) - k.excess <= MaxSessions
  BY DEF Reduces
<1>9. k.excess - 1 # 0
  <2> HIDE DEF A, B, rest
  <2> QED
    BY <1>1, <1>3, <1>4, <1>6, <1>7, <1>8, SessionBounds
<1>10. rest # {}
  <2>1. ASSUME rest = {} PROVE FALSE
    <3>1. Cardinality(rest) = 0
      BY <2>1, NoneIsFinite
    <3> HIDE DEF A, B, rest
    <3> QED
      BY <3>1, <1>4, <1>6, <1>7, <1>8, SessionBounds
  <2> QED
    BY <2>1
<1>11. ASSUME NEW l, l.pc = "evict", l.user = u, l.cand = rest, l.excess = k.excess - 1
       PROVE  Reduces(l)'
  <2>1. Outside(l)' = C
    BY <1>11 DEF Outside, Listed
  <2>2. Cardinality(C) <= MaxSessions
        /\ Cardinality(C) + Cardinality(rest) - (k.excess - 1) <= MaxSessions
    <3> HIDE DEF A, C, rest
    <3> QED
      BY <1>1, <1>3, <1>6, <1>7, <1>8, SessionBounds
  <2> HIDE DEF C, rest
  <2> QED
    BY <1>11, <2>1, <2>2 DEF Reduces
<1> QED
  BY <1>9, <1>10, <1>11

LEMMA EvictPreserves == ASSUME IInv, NEW c \in Calls, EvictSession(c) PROVE IInv'
<1>0. PICK k \in Call : k = call[c] /\ CallInv(k) /\ k.pc = "evict" /\ k.excess > 0
                        /\ k.user \in Users /\ IsFiniteSet(k.cand)
  BY CallFacts DEF EvictSession, CallInv
<1> DEFINE Left(x, n) == IF n = 0 \/ k.cand \ {x} = {}
                         THEN [k EXCEPT !.pc = Issued(c), !.cand = {}, !.excess = 0]
                         ELSE [k EXCEPT !.cand = k.cand \ {x}, !.excess = n]
<1>1. PICK x \in k.cand :
        \/ /\ sessions' = [sessions EXCEPT ![x[1]] = NoSession]
           /\ call' = [call EXCEPT ![c] = Left(x, k.excess - 1)]
           /\ UNCHANGED cutShort
        \/ /\ call' = [call EXCEPT ![c] = Left(x, k.excess)]
           /\ cutShort' = TRUE
           /\ UNCHANGED sessions
  BY <1>0 DEF EvictSession, Oldest
<1>2. UNCHANGED <<now, stamp, sessionsOn, slot, held, nextSid, nextSecret, ended>>
  BY DEF EvictSession
<1>3. k.excess \in Nat /\ x[1] \in Sids /\ k.cand \in SUBSET (Sids \X Nat) /\ IsFiniteSet(k.cand \ {x})
  BY <1>0, FS_RemoveElement DEF Call
<1>4. Issued(c) \in PCs /\ Issued(c) \in {"retire", "respond"}
  BY DEF Issued, PCs
<1>5. ASSUME NEW n \in Nat
      PROVE  /\ Left(x, n) \in Call /\ CallInv(Left(x, n))
             /\ n # 0 /\ k.cand \ {x} # {} =>
                  /\ Left(x, n).pc = "evict" /\ Left(x, n).user = k.user
                  /\ Left(x, n).cand = k.cand \ {x} /\ Left(x, n).excess = n
  <2> DEFINE a == [k EXCEPT !.pc = Issued(c), !.cand = {}, !.excess = 0]
             b == [k EXCEPT !.cand = k.cand \ {x}, !.excess = n]
  <2>1. a \in Call /\ a.pc = Issued(c) /\ a.user = k.user /\ a.cand = {}
    BY <1>4 DEF Call
  <2>2. b \in Call /\ b.pc = "evict" /\ b.user = k.user /\ b.cand = k.cand \ {x} /\ b.excess = n
    BY <1>0, <1>3 DEF Call
  <2>3. Left(x, n) = IF n = 0 \/ k.cand \ {x} = {} THEN a ELSE b
    OBVIOUS
  <2> HIDE DEF a, b, Left
  <2>4. CallInv(a)
    BY <1>0, <1>4, <2>1, NoneIsFinite DEF CallInv
  <2>5. n # 0 => CallInv(b)
    BY <1>0, <1>3, <2>2 DEF CallInv
  <2> QED
    BY <2>1, <2>2, <2>3, <2>4, <2>5
<1> HIDE DEF Left
<1>6. CASE /\ sessions' = [sessions EXCEPT ![x[1]] = NoSession]
           /\ call' = [call EXCEPT ![c] = Left(x, k.excess - 1)]
           /\ UNCHANGED cutShort
  <2>1. PICK l : l = Left(x, k.excess - 1)
    OBVIOUS
  <2>2. k.excess - 1 \in Nat
    BY <1>0, <1>3
  <2>3. l \in Call /\ CallInv(l)
        /\ (k.excess - 1 # 0 /\ k.cand \ {x} # {} =>
             l.pc = "evict" /\ l.user = k.user /\ l.cand = k.cand \ {x} /\ l.excess = k.excess - 1)
    BY <1>5, <2>1, <2>2
  <2>4. sessions' \in [Sids -> Session] /\ NoneOpened
    BY <1>3, <1>6, DeletedRow
  <2>5. TypeOK' /\ CallsInv' /\ call'[c] = l /\ \A d \in Calls : d # c => call'[d] = call[d]
    BY <1>2, <1>6, <2>1, <2>3, <2>4, CallStep, CallFacts
  <2>6. \A u \in Users : SessionsOf(u)' \subseteq SessionsOf(u) \ {x[1]}
    BY <1>3, <1>6, Nulls, CallFacts DEF SessionsOf
  <2>7. ASSUME MaxSessions > 0, ~cutShort', NEW u \in Users,
               Cardinality(SessionsOf(u)') > MaxSessions
        PROVE  \E d \in Calls : Answers(call[d], u)'
    <3>1. CASE Answers(call[c], u)
      <4>1. k.user = u /\ Reduces(k)
        BY <1>0, <3>1 DEF Answers
      <4>2. Reduces(l)' /\ l.user = u
        BY <1>0, <2>3, <2>6, <2>7, <4>1, EvictionStep
      <4>3. Answers(l, u)'
        BY <4>2 DEF Answers
      <4>4. Answers(call[c], u)'
        BY <2>5, <4>3
      <4> QED
        BY <4>4
    <3>2. CASE ~Answers(call[c], u)
      BY <1>6, <2>5, <2>6, <2>7, <3>2, OthersAnswer
    <3> QED
      BY <3>1, <3>2
  <2> QED
    BY <2>5, <2>7 DEF IInv, CapInv
<1>7. CASE /\ call' = [call EXCEPT ![c] = Left(x, k.excess)]
           /\ cutShort' = TRUE
           /\ UNCHANGED sessions
  BY <1>2, <1>3, <1>5, <1>7, CallStep, CapCutShort, CallFacts DEF IInv
<1> QED
  BY <1>1, <1>6, <1>7

LEMMA RetireSlotPreserves == ASSUME IInv, NEW c \in Calls, RetireSlot(c) PROVE IInv'
<1> DEFINE k == [call[c] EXCEPT !.pc = "respond"]
<1>1. call[c].pc = "retire" /\ call[c].user \in Users
  BY CallFacts DEF RetireSlot, CallInv
<1>2. k \in Call /\ k.pc = "respond" /\ k.user = call[c].user /\ k.cand = call[c].cand
  BY CallFacts DEF Call, PCs
<1>3. CallInv(k)
  BY <1>1, <1>2, CallFacts DEF CallInv
<1>4. slot' \in [Users -> Slot]
  BY <1>1, Nulls, CallFacts DEF RetireSlot
<1>5. call' = [call EXCEPT ![c] = k] /\ ~Enforcing(c)
      /\ UNCHANGED <<now, stamp, sessionsOn, sessions, held, nextSid, nextSecret, cutShort, ended>>
  BY <1>1 DEF RetireSlot, Enforcing
<1> HIDE DEF k
<1> QED
  BY <1>2, <1>3, <1>4, <1>5, QuietStep, SameSessions, CallFacts

LEMMA RespondPreserves == ASSUME IInv, NEW c \in Calls, Respond(c) PROVE IInv'
<1>1. held' \in SUBSET ((0..MaxSids) \X Secrets)
  BY CallFacts DEF Respond, Call
<1>2. call' = [call EXCEPT ![c] = Idle] /\ ~Enforcing(c)
      /\ UNCHANGED <<now, stamp, sessionsOn, sessions, slot, nextSid, nextSecret, cutShort, ended>>
  BY DEF Respond, Enforcing
<1> QED
  BY <1>1, <1>2, QuietStep, SameSessions, Nulls, CallFacts

-----------------------------------------------------------------------------
(* The actions of Refresh and Revoke *)

LEMMA ValidateLegacySlotPreserves ==
  ASSUME IInv, NEW c \in Calls, NEW s \in 1..MaxSecrets, ValidateLegacySlot(c, s) PROVE IInv'
<1> DEFINE k == [call[c] EXCEPT !.pc = "issue", !.legacy = sessionsOn,
                                !.born = slot[call[c].user].born]
<1>1. call[c].pc = "loaded" /\ call[c].user \in Users
  BY CallFacts DEF ValidateLegacySlot, CallInv
<1>2. slot[call[c].user].born \in Nat /\ sessionsOn \in BOOLEAN
  BY <1>1, CallFacts DEF Slot
<1>3. k \in Call /\ k.pc = "issue" /\ k.user = call[c].user /\ k.cand = call[c].cand
  BY <1>2, CallFacts DEF Call, PCs
<1>4. CallInv(k)
  BY <1>1, <1>3, CallFacts DEF CallInv
<1>5. call' = [call EXCEPT ![c] = k] /\ ~Enforcing(c)
      /\ UNCHANGED <<now, stamp, sessionsOn, sessions, slot, held, nextSid, nextSecret, cutShort, ended>>
  BY <1>1 DEF ValidateLegacySlot, Enforcing
<1> HIDE DEF k
<1> QED
  BY <1>3, <1>4, <1>5, QuietStep, SameSessions, CallFacts

LEMMA GetRefreshTokenPreserves ==
  ASSUME IInv, NEW c \in Calls, NEW s \in Sids, NEW secret \in 1..MaxSecrets,
         GetRefreshTokenBySession(c, s, secret)
  PROVE  IInv'
<1> DEFINE k == [call[c] EXCEPT !.pc = "update", !.sid = s, !.hash = secret, !.at = now,
                                !.born = sessions[s].born]
<1>1. call[c].pc = "loaded" /\ call[c].user \in Users
  BY CallFacts DEF GetRefreshTokenBySession, CallInv
<1>2. sessions[s].born \in Nat /\ secret \in Secrets /\ s \in 0..MaxSids /\ now \in Nat
  BY CallFacts, SessionBounds DEF Session, Secrets, Sids
<1>3. k \in Call /\ k.pc = "update" /\ k.user = call[c].user /\ k.cand = call[c].cand /\ k.sid = s
  BY <1>2, CallFacts DEF Call, PCs
<1>4. CallInv(k)
  BY <1>1, <1>3, CallFacts DEF CallInv
<1>5. call' = [call EXCEPT ![c] = k] /\ ~Enforcing(c)
      /\ UNCHANGED <<now, stamp, sessionsOn, sessions, slot, held, nextSid, nextSecret, cutShort, ended>>
  BY <1>1 DEF GetRefreshTokenBySession, Enforcing
<1> HIDE DEF k
<1> QED
  BY <1>3, <1>4, <1>5, QuietStep, SameSessions, CallFacts

\* The row a refresh leaves belongs to the same user, and a dead row stays dead.
LEMMA RefreshedRowFacts ==
  ASSUME IInv, NEW c \in Calls, call[c].pc = "update", nextSecret < MaxSecrets,
         NEW r, r = RefreshedRow(c, nextSecret + 1)
  PROVE  /\ call[c].sid \in Sids /\ r \in Session /\ r.user = sessions[call[c].sid].user
         /\ r.live <=> sessions[call[c].sid].live
         /\ sessions[call[c].sid].live => r.hash = nextSecret + 1
<1> DEFINE s == call[c].sid
<1>1. s \in Sids /\ call[c].at + RefreshTTL \in Nat /\ nextSecret + 1 \in Secrets
      /\ sessions[s] \in Session
  BY CallFacts, NextSecret, SessionBounds DEF CallInv, Call
<1>2. r = IF sessions[s].live
          THEN [sessions[s] EXCEPT !.hash = nextSecret + 1, !.exp = call[c].at + RefreshTTL]
          ELSE sessions[s]
  BY DEF RefreshedRow
<1> QED
  BY <1>1, <1>2 DEF Session

LEMMA UpdateRefreshTokenPreserves ==
  ASSUME IInv, NEW c \in Calls, UpdateRefreshToken(c) PROVE IInv'
<1> DEFINE s == call[c].sid
           k == [call[c] EXCEPT !.pc = "respond", !.hash = nextSecret + 1, !.at = 0]
<1>1. call[c].pc = "update" /\ nextSecret < MaxSecrets /\ nextSecret + 1 \in Secrets
      /\ call[c].user \in Users
  BY CallFacts, NextSecret DEF UpdateRefreshToken, CallInv
<1>2. PICK r : r = RefreshedRow(c, nextSecret + 1)
  OBVIOUS
<1>3. s \in Sids /\ r \in Session /\ r.user = sessions[s].user /\ (r.live <=> sessions[s].live)
  BY <1>1, <1>2, RefreshedRowFacts
<1>4. sessions' = [sessions EXCEPT ![s] = r] /\ nextSecret' = nextSecret + 1
      /\ call' = [call EXCEPT ![c] = IF sessions[s].live THEN k ELSE Idle]
      /\ UNCHANGED <<now, stamp, sessionsOn, slot, held, nextSid, cutShort, ended>>
  BY <1>2 DEF UpdateRefreshToken
<1>5. sessions' \in [Sids -> Session] /\ NoneOpened
  <2>1. sessions' \in [Sids -> Session]
        /\ \A t \in Sids : sessions'[t] = (IF t = s THEN r ELSE sessions[t])
    BY <1>3, <1>4, CallFacts
  <2> QED
    BY <1>3, <2>1 DEF NoneOpened, SessionsOf
<1>6. k \in Call /\ k.pc = "respond" /\ k.user = call[c].user /\ k.cand = call[c].cand
  BY <1>1, CallFacts DEF Call, PCs
<1>7. CallInv(k)
  BY <1>1, <1>6, CallFacts DEF CallInv
<1>8. ~Enforcing(c)
  BY <1>1 DEF Enforcing
<1> HIDE DEF k
<1>9. CASE sessions[s].live
  BY <1>1, <1>4, <1>5, <1>6, <1>7, <1>8, <1>9, QuietStep, CallFacts
<1>10. CASE ~sessions[s].live
  BY <1>1, <1>4, <1>5, <1>8, <1>10, Nulls, QuietStep, CallFacts
<1> QED
  BY <1>9, <1>10

LEMMA RevokeSlotPreserves ==
  ASSUME IInv, NEW c \in Calls, NEW u \in Users, RevokeSlot(c, u) PROVE IInv'
<1> DEFINE k == [Idle EXCEPT !.pc = "revoke", !.user = u]
<1>1. k \in Call /\ k.pc = "revoke" /\ k.user = u /\ k.cand = {}
  BY Nulls DEF Call, PCs
<1>2. CallInv(k)
  BY <1>1, NoneIsFinite DEF CallInv
<1>3. slot' \in [Users -> Slot]
  BY Nulls, CallFacts DEF RevokeSlot
<1>4. call' = [call EXCEPT ![c] = IF sessionsOn THEN k ELSE Idle] /\ ~Enforcing(c) /\ ended' = TRUE
      /\ UNCHANGED <<now, stamp, sessionsOn, sessions, held, nextSid, nextSecret, cutShort>>
  BY DEF RevokeSlot, Enforcing
<1> HIDE DEF k
<1>5. CASE sessionsOn
  BY <1>1, <1>2, <1>3, <1>4, <1>5, QuietStep, SameSessions, CallFacts
<1>6. CASE ~sessionsOn
  BY <1>3, <1>4, <1>6, Nulls, QuietStep, SameSessions, CallFacts
<1> QED
  BY <1>5, <1>6

LEMMA DeleteUserRefreshTokensPreserves ==
  ASSUME IInv, NEW c \in Calls, DeleteUserRefreshTokens(c) PROVE IInv'
<1>1. sessions' \in [Sids -> Session] /\ NoneOpened
  BY DeletedRows, SessionsOfType DEF DeleteUserRefreshTokens
<1>2. call' = [call EXCEPT ![c] = Idle] /\ ~Enforcing(c)
      /\ UNCHANGED <<now, stamp, sessionsOn, slot, held, nextSid, nextSecret, cutShort, ended>>
  BY DEF DeleteUserRefreshTokens, Enforcing
<1> QED
  BY <1>1, <1>2, QuietStep, Nulls, CallFacts

-----------------------------------------------------------------------------
LEMMA NextPreservesIInv == IInv /\ [Next]_vars => IInv'
<1> SUFFICES ASSUME IInv, [Next]_vars PROVE IInv'
  OBVIOUS
<1>1. CASE UNCHANGED vars
  <2>1. TypeOK' /\ CallsInv'
    BY <1>1 DEF IInv, TypeOK, CallsInv, vars
  <2>2. UNCHANGED <<sessions, call, cutShort>>
    BY <1>1 DEF vars
  <2> QED
    BY <2>1, <2>2, CapKept, SameSessions DEF IInv, Carries
<1>2. CASE Tick \/ WithSessionStore \/ \E u \in Users : UpdateSecurityStamp(u)
  BY <1>2, SurroundingsPreserve
<1>3. CASE \E u \in Users, s \in 0..MaxSids, secret \in 1..MaxSecrets : RevokeSession(u, s, secret)
  BY <1>3, RevokeSessionPreserves
<1>4. ASSUME NEW c \in Calls, Service(c) PROVE IInv'
  BY <1>4, LoadUserPreserves, SetTokenPreserves, CreateRefreshTokenPreserves,
     DeleteExpiredPreserves, ListPreserves, EvictPreserves, RetireSlotPreserves,
     RespondPreserves, ValidateLegacySlotPreserves, GetRefreshTokenPreserves,
     UpdateRefreshTokenPreserves, RevokeSlotPreserves, DeleteUserRefreshTokensPreserves,
     AbandonPreserves
     DEF Service
<1> QED
  BY <1>1, <1>2, <1>3, <1>4 DEF Next

LEMMA Invariance == Spec => []IInv
BY InitIInv, NextPreservesIInv, PTL DEF Spec

\* The rows, slots, locals and tokens of the token service always have the
\* types their declarations say.
THEOREM TypeCorrect == Spec => []TypeOK
<1>1. IInv => TypeOK
  BY DEF IInv
<1> QED
  BY <1>1, Invariance, PTL

\* newSessionRefresh and enforceMaxSessions: with any number of logins of any
\* users in progress, evicting each other's sessions in any order, no user is
\* left above MaxSessions when they are done, unless an enforcement failed.
THEOREM CapHolds == Spec => []SessionCap
<1>1. IInv => SessionCap
  <2> SUFFICES ASSUME IInv, MaxSessions > 0, ~cutShort, \A c \in Calls : ~Enforcing(c),
                      NEW u \in Users
               PROVE  Cardinality(SessionsOf(u)) <= MaxSessions
    BY DEF SessionCap
  <2>1. \A c \in Calls : ~Answers(call[c], u)
    BY DEF Answers, Reduces, Enforcing
  <2>2. Cardinality(SessionsOf(u)) \in Nat
    BY SessionsOfType, FiniteSessions
  <2> QED
    BY <2>1, <2>2, SessionBounds DEF IInv, CapInv
<1> QED
  BY <1>1, Invariance, PTL

-----------------------------------------------------------------------------
(* What a step may do to a row or a slot *)

\* A row stays, dies, or gets the next secret: a live row, or the next one.
RowStep(x) ==
  \/ sessions'[x] = sessions[x]
  \/ ~sessions'[x].live
  \/ sessions'[x].hash = nextSecret + 1 /\ (sessions[x].live \/ x = nextSid + 1)

SlotStep(u) == slot'[u] = slot[u] \/ slot'[u].hash = 0 \/ slot'[u].hash = nextSecret + 1

RowsAndSlotsStep == (\A x \in Sids : RowStep(x)) /\ (\A u \in Users : SlotStep(u))

LEMMA ServiceRowsAndSlots == ASSUME IInv, NEW c \in Calls, Service(c) PROVE RowsAndSlotsStep
<1>1. CASE UNCHANGED <<sessions, slot>>
  BY <1>1 DEF RowsAndSlotsStep, RowStep, SlotStep
<1>2. CASE SetToken(c)
  <2>1. call[c].user \in Users /\ UNCHANGED sessions
    BY <1>2, CallFacts DEF SetToken, CallInv
  <2>2. \A u \in Users : SlotStep(u)
    BY <1>2, <2>1, CallFacts DEF SetToken, SlotStep
  <2> QED
    BY <2>1, <2>2 DEF RowsAndSlotsStep, RowStep
<1>3. CASE CreateRefreshToken(c)
  <2>1. \A x \in Sids : RowStep(x)
    BY <1>3, CallFacts DEF CreateRefreshToken, RowStep
  <2> QED
    BY <1>3, <2>1 DEF RowsAndSlotsStep, SlotStep, CreateRefreshToken
<1>4. CASE DeleteExpiredRefreshTokens(c)
  <2>1. \A x \in Sids : sessions'[x] = sessions[x] \/ sessions'[x] = NoSession
    BY <1>4 DEF DeleteExpiredRefreshTokens
  <2> QED
    BY <1>4, <2>1, Nulls DEF RowsAndSlotsStep, RowStep, SlotStep, DeleteExpiredRefreshTokens
<1>5. CASE EvictSession(c)
  <2>1. UNCHANGED sessions \/ \E x : sessions' = [sessions EXCEPT ![x] = NoSession]
    BY <1>5 DEF EvictSession
  <2>2. \A x \in Sids : sessions'[x] = sessions[x] \/ sessions'[x] = NoSession
    BY <2>1, CallFacts
  <2> QED
    BY <1>5, <2>2, Nulls DEF RowsAndSlotsStep, RowStep, SlotStep, EvictSession
<1>6. CASE DeleteUserRefreshTokens(c)
  <2>1. \A x \in Sids : sessions'[x] = sessions[x] \/ sessions'[x] = NoSession
    BY <1>6 DEF DeleteUserRefreshTokens
  <2> QED
    BY <1>6, <2>1, Nulls DEF RowsAndSlotsStep, RowStep, SlotStep, DeleteUserRefreshTokens
<1>7. CASE RetireSlot(c) \/ \E u \in Users : RevokeSlot(c, u)
  <2>1. UNCHANGED sessions /\ (UNCHANGED slot \/ \E u : slot' = [slot EXCEPT ![u] = EmptySlot])
    BY <1>7 DEF RetireSlot, RevokeSlot
  <2>2. \A u \in Users : slot'[u] = slot[u] \/ slot'[u] = EmptySlot
    BY <2>1, CallFacts
  <2> QED
    BY <2>1, <2>2, Nulls DEF RowsAndSlotsStep, RowStep, SlotStep
<1>8. CASE UpdateRefreshToken(c)
  <2>1. call[c].pc = "update" /\ nextSecret < MaxSecrets /\ UNCHANGED slot
        /\ sessions' = [sessions EXCEPT ![call[c].sid] = RefreshedRow(c, nextSecret + 1)]
    BY <1>8 DEF UpdateRefreshToken
  <2>2. PICK r : r = RefreshedRow(c, nextSecret + 1)
    OBVIOUS
  <2>3. call[c].sid \in Sids /\ (r.live <=> sessions[call[c].sid].live)
        /\ (sessions[call[c].sid].live => r.hash = nextSecret + 1)
    BY <2>1, <2>2, RefreshedRowFacts
  <2>4. \A x \in Sids : sessions'[x] = (IF x = call[c].sid THEN r ELSE sessions[x])
    BY <2>1, <2>2, <2>3, CallFacts
  <2> QED
    BY <2>1, <2>3, <2>4 DEF RowsAndSlotsStep, RowStep, SlotStep
<1>9. CASE \/ \E u \in Users : LoadUser(c, u)
           \/ ListUserRefreshTokens(c) \/ Respond(c) \/ Abandon(c)
           \/ \E s \in 1..MaxSecrets : ValidateLegacySlot(c, s)
           \/ \E s \in Sids, secret \in 1..MaxSecrets : GetRefreshTokenBySession(c, s, secret)
  BY <1>1, <1>9 DEF LoadUser, ListUserRefreshTokens, Respond, Abandon, ValidateLegacySlot,
     GetRefreshTokenBySession
<1> QED
  BY <1>2, <1>3, <1>4, <1>5, <1>6, <1>7, <1>8, <1>9 DEF Service

LEMMA RowsAndSlots == IInv /\ [Next]_vars => RowsAndSlotsStep
<1> SUFFICES ASSUME IInv, [Next]_vars PROVE RowsAndSlotsStep
  OBVIOUS
<1>1. CASE UNCHANGED <<sessions, slot>>
  BY <1>1 DEF RowsAndSlotsStep, RowStep, SlotStep
<1>2. CASE UNCHANGED vars \/ Tick \/ WithSessionStore \/ \E u \in Users : UpdateSecurityStamp(u)
  BY <1>1, <1>2 DEF vars, Tick, WithSessionStore, UpdateSecurityStamp
<1>3. ASSUME NEW u \in Users, NEW s \in 0..MaxSids, NEW secret \in 1..MaxSecrets,
             RevokeSession(u, s, secret)
      PROVE  RowsAndSlotsStep
  <2>1. \/ UNCHANGED slot /\ sessions' = [sessions EXCEPT ![s] = NoSession]
        \/ UNCHANGED sessions /\ slot' = [slot EXCEPT ![u] = EmptySlot]
    BY <1>3 DEF RevokeSession
  <2>2. \A x \in Sids : sessions'[x] = sessions[x] \/ sessions'[x] = NoSession
    BY <2>1 DEF IInv, TypeOK
  <2>3. \A v \in Users : slot'[v] = slot[v] \/ slot'[v] = EmptySlot
    BY <2>1 DEF IInv, TypeOK
  <2> QED
    BY <2>2, <2>3, Nulls DEF RowsAndSlotsStep, RowStep, SlotStep
<1> QED
  BY <1>2, <1>3, ServiceRowsAndSlots DEF Next

\* RevokeSession, enforceMaxSessions, the sweep and UpdateRefreshToken's WHERE
\* clause: a session that has ended never comes back, whatever refresh had read
\* its row before.
THEOREM EndedSessionsStayEnded == Spec => SessionsNeverReturn
<1>1. ASSUME IInv, [Next]_vars
      PROVE  [\A s \in Sids : s <= nextSid /\ ~sessions[s].live => ~sessions'[s].live]_vars
  <2> SUFFICES ASSUME NEW s \in Sids, s <= nextSid, ~sessions[s].live PROVE ~sessions'[s].live
    OBVIOUS
  <2>1. RowStep(s)
    BY <1>1, RowsAndSlots DEF RowsAndSlotsStep
  <2>2. s # nextSid + 1
    BY <1>1, SessionBounds DEF IInv, TypeOK, Sids
  <2> QED
    BY <2>1, <2>2 DEF RowStep
<1> QED
  BY <1>1, Invariance, PTL DEF Spec, SessionsNeverReturn

\* refreshSession, validateLegacySlot and the revocations: a secret that the
\* tables no longer hold is never held again, however refreshes race.
THEOREM SpentSecretsAreSpent == Spec => SpentSecretsStaySpent
<1>1. ASSUME IInv, [Next]_vars
      PROVE  [\A s \in 1..MaxSecrets : s <= nextSecret /\ ~Redeemable(s) => ~Redeemable(s)']_vars
  <2> SUFFICES ASSUME NEW s \in 1..MaxSecrets, s <= nextSecret, ~Redeemable(s)
               PROVE  ~Redeemable(s)'
    OBVIOUS
  <2>1. s # nextSecret + 1 /\ s # 0
    BY <1>1, SessionBounds DEF IInv, TypeOK, Secrets
  <2>2. (\A x \in Sids : RowStep(x)) /\ (\A u \in Users : SlotStep(u))
    BY <1>1, RowsAndSlots DEF RowsAndSlotsStep
  <2>3. \A x \in Sids : ~(sessions'[x].live /\ sessions'[x].hash = s)
    BY <2>1, <2>2 DEF RowStep, Redeemable
  <2>4. \A u \in Users : slot'[u].hash # s
    BY <2>1, <2>2 DEF SlotStep, Redeemable
  <2> QED
    BY <2>3, <2>4 DEF Redeemable
<1> QED
  BY <1>1, Invariance, PTL DEF Spec, SpentSecretsStaySpent
-----------------------------------------------------------------------------
(* The refinement of SessionLifecycle *)

\* A row that is gone holds nothing, and no row is ahead of the ids drawn.
RowsInv ==
  \A x \in Sids : /\ ~sessions[x].live => sessions[x] = NoSession
                  /\ x > nextSid => ~sessions[x].live

\* What a step does to the tables: one of these.
Ends == UNCHANGED <<slot, nextSid, nextSecret>> /\ \A x \in Sids : sessions'[x] \in {sessions[x], NoSession}

Clears(u) ==
  /\ UNCHANGED <<sessions, nextSid, nextSecret>> /\ slot'[u].hash = 0
  /\ \A v \in Users \ {u} : slot'[v] = slot[v]

NewSecret == nextSecret' = nextSecret + 1 /\ nextSecret + 1 \in 1..MaxSecrets

Replaces(u) ==
  /\ UNCHANGED <<sessions, nextSid>> /\ NewSecret
  /\ slot'[u].hash = nextSecret + 1
  /\ \A v \in Users \ {u} : slot'[v] = slot[v]

Opens(x, u) ==
  /\ x = nextSid + 1 /\ nextSid' = x /\ NewSecret /\ UNCHANGED slot
  /\ sessions'[x].live /\ sessions'[x].user = u /\ sessions'[x].hash = nextSecret + 1
  /\ \A y \in Sids \ {x} : sessions'[y] = sessions[y]

Rotates(x) ==
  /\ UNCHANGED <<slot, nextSid>> /\ NewSecret
  /\ sessions[x].live /\ sessions'[x].live
  /\ sessions'[x].user = sessions[x].user /\ sessions'[x].hash = nextSecret + 1
  /\ \A y \in Sids \ {x} : sessions'[y] = sessions[y]

Wastes == UNCHANGED <<slot, nextSid>> /\ NewSecret /\ \A x \in Sids : sessions'[x] = sessions[x]

LifeStep ==
  \/ Ends \/ Wastes
  \/ \E u \in Users : Clears(u) \/ Replaces(u)
  \/ \E x \in Sids : Rotates(x) \/ \E u \in Users : Opens(x, u)

LEMMA Drawn ==
  ASSUME IInv, nextSecret < MaxSecrets PROVE nextSecret + 1 \in 1..MaxSecrets
BY SessionBounds DEF IInv, TypeOK, Secrets

LEMMA ServiceLifeStep == ASSUME IInv, NEW c \in Calls, Service(c) PROVE LifeStep
<1>1. CASE UNCHANGED <<sessions, slot, nextSid, nextSecret>>
  BY <1>1 DEF LifeStep, Ends
<1>2. CASE SetToken(c)
  <2>1. call[c].user \in Users /\ UNCHANGED <<sessions, nextSid>> /\ NewSecret
    <3>1. /\ call[c].pc # "idle" /\ nextSecret < MaxSecrets /\ nextSecret' = nextSecret + 1
          /\ UNCHANGED <<sessions, nextSid>>
      BY <1>2 DEF SetToken
    <3>2. call[c].user \in Users
      BY <3>1, CallFacts DEF CallInv
    <3> QED
      BY <3>1, <3>2, Drawn DEF NewSecret
  <2>2. Replaces(call[c].user)
    BY <1>2, <2>1, CallFacts DEF SetToken, Replaces
  <2> QED
    BY <2>1, <2>2 DEF LifeStep
<1>3. CASE CreateRefreshToken(c)
  <2>1. call[c].user \in Users /\ nextSid + 1 \in Sids /\ NewSecret
    <3>1. /\ call[c].pc # "idle" /\ nextSid < MaxSids /\ nextSecret < MaxSecrets
          /\ nextSecret' = nextSecret + 1
      BY <1>3 DEF CreateRefreshToken
    <3>2. call[c].user \in Users
      BY <3>1, CallFacts DEF CallInv
    <3>3. nextSid + 1 \in Sids
      BY <3>1, CallFacts, SessionBounds DEF Sids
    <3> QED
      BY <3>1, <3>2, <3>3, Drawn DEF NewSecret
  <2>2. PICK x \in Sids, u \in Users : x = nextSid + 1 /\ u = call[c].user
    BY <2>1
  <2>3. PICK row : row = [live |-> TRUE, user |-> u, hash |-> nextSecret + 1,
                          exp |-> now + RefreshTTL, born |-> call[c].born]
    OBVIOUS
  <2>4. nextSid' = x /\ UNCHANGED slot /\ sessions' = [sessions EXCEPT ![x] = row]
    BY <1>3, <2>2, <2>3 DEF CreateRefreshToken
  <2>5. sessions'[x] = row /\ \A y \in Sids \ {x} : sessions'[y] = sessions[y]
    BY <2>4, CallFacts
  <2>6. row.live /\ row.user = u /\ row.hash = nextSecret + 1
    BY <2>3
  <2>7. Opens(x, u)
    BY <2>1, <2>2, <2>4, <2>5, <2>6 DEF Opens
  <2> QED
    BY <2>7 DEF LifeStep
<1>4. CASE DeleteExpiredRefreshTokens(c)
  <2>1. \A x \in Sids : sessions'[x] = sessions[x] \/ sessions'[x] = NoSession
    BY <1>4 DEF DeleteExpiredRefreshTokens
  <2> QED
    BY <1>4, <2>1 DEF LifeStep, Ends, DeleteExpiredRefreshTokens
<1>5. CASE EvictSession(c)
  <2>1. UNCHANGED sessions \/ \E x : sessions' = [sessions EXCEPT ![x] = NoSession]
    BY <1>5 DEF EvictSession
  <2>2. \A x \in Sids : sessions'[x] = sessions[x] \/ sessions'[x] = NoSession
    BY <2>1, CallFacts
  <2> QED
    BY <1>5, <2>2 DEF LifeStep, Ends, EvictSession
<1>6. CASE DeleteUserRefreshTokens(c)
  <2>1. \A x \in Sids : sessions'[x] = sessions[x] \/ sessions'[x] = NoSession
    BY <1>6 DEF DeleteUserRefreshTokens
  <2> QED
    BY <1>6, <2>1 DEF LifeStep, Ends, DeleteUserRefreshTokens
<1>7. CASE RetireSlot(c) \/ \E u \in Users : RevokeSlot(c, u)
  <2>1. UNCHANGED <<sessions, nextSid, nextSecret>>
    BY <1>7 DEF RetireSlot, RevokeSlot
  <2>2. UNCHANGED slot \/ \E u \in Users : slot' = [slot EXCEPT ![u] = EmptySlot]
    BY <1>7, CallFacts DEF RetireSlot, RevokeSlot, CallInv
  <2>3. UNCHANGED slot \/ \E u \in Users : Clears(u)
    BY <2>1, <2>2, CallFacts, Nulls DEF Clears
  <2> QED
    BY <1>1, <2>1, <2>3 DEF LifeStep
<1>8. CASE UpdateRefreshToken(c)
  <2>1. /\ call[c].pc = "update" /\ UNCHANGED <<slot, nextSid>> /\ NewSecret
        /\ sessions' = [sessions EXCEPT ![call[c].sid] = RefreshedRow(c, nextSecret + 1)]
    BY <1>8, Drawn DEF UpdateRefreshToken, NewSecret
  <2>2. PICK r, x : r = RefreshedRow(c, nextSecret + 1) /\ x = call[c].sid
    OBVIOUS
  <2>3. x \in Sids /\ sessions[x] \in Session
    BY <2>1, <2>2, CallFacts DEF CallInv
  <2>4. \A y \in Sids : sessions'[y] = (IF y = x THEN r ELSE sessions[y])
    BY <2>1, <2>2, <2>3, CallFacts
  <2>5. CASE sessions[x].live
    <3>1. r = [sessions[x] EXCEPT !.hash = nextSecret + 1, !.exp = call[c].at + RefreshTTL]
      BY <2>2, <2>5 DEF RefreshedRow
    <3>2. r.live /\ r.user = sessions[x].user /\ r.hash = nextSecret + 1
      BY <2>3, <2>5, <3>1 DEF Session
    <3>3. Rotates(x)
      BY <2>1, <2>3, <2>4, <2>5, <3>2 DEF Rotates
    <3> QED
      BY <2>3, <3>3 DEF LifeStep
  <2>6. CASE ~sessions[x].live
    <3>1. r = sessions[x]
      BY <2>2, <2>6 DEF RefreshedRow
    <3> QED
      BY <2>1, <2>4, <3>1 DEF LifeStep, Wastes
  <2> QED
    BY <2>5, <2>6
<1>9. CASE \/ \E u \in Users : LoadUser(c, u)
           \/ ListUserRefreshTokens(c) \/ Respond(c) \/ Abandon(c)
           \/ \E s \in 1..MaxSecrets : ValidateLegacySlot(c, s)
           \/ \E s \in Sids, secret \in 1..MaxSecrets : GetRefreshTokenBySession(c, s, secret)
  BY <1>1, <1>9 DEF LoadUser, ListUserRefreshTokens, Respond, Abandon, ValidateLegacySlot,
     GetRefreshTokenBySession
<1> QED
  BY <1>2, <1>3, <1>4, <1>5, <1>6, <1>7, <1>8, <1>9 DEF Service

LEMMA EveryLifeStep == IInv /\ [Next]_vars => LifeStep
<1> SUFFICES ASSUME IInv, [Next]_vars PROVE LifeStep
  OBVIOUS
<1>1. CASE UNCHANGED <<sessions, slot, nextSid, nextSecret>>
  BY <1>1 DEF LifeStep, Ends
<1>2. CASE UNCHANGED vars \/ Tick \/ WithSessionStore \/ \E u \in Users : UpdateSecurityStamp(u)
  BY <1>1, <1>2 DEF vars, Tick, WithSessionStore, UpdateSecurityStamp
<1>3. ASSUME NEW u \in Users, NEW s \in 0..MaxSids, NEW key \in 1..MaxSecrets,
             RevokeSession(u, s, key)
      PROVE  LifeStep
  <2>1. /\ UNCHANGED <<nextSid, nextSecret>>
        /\ \/ UNCHANGED slot /\ sessions' = [sessions EXCEPT ![s] = NoSession]
           \/ UNCHANGED sessions /\ slot' = [slot EXCEPT ![u] = EmptySlot]
    BY <1>3 DEF RevokeSession
  <2>2. CASE UNCHANGED slot /\ sessions' = [sessions EXCEPT ![s] = NoSession]
    <3>1. \A x \in Sids : sessions'[x] = sessions[x] \/ sessions'[x] = NoSession
      BY <2>2 DEF IInv, TypeOK
    <3> QED
      BY <2>1, <2>2, <3>1 DEF LifeStep, Ends
  <2>3. CASE UNCHANGED sessions /\ slot' = [slot EXCEPT ![u] = EmptySlot]
    <3>1. Clears(u)
      BY <2>1, <2>3, Nulls DEF Clears, IInv, TypeOK
    <3> QED
      BY <3>1 DEF LifeStep
  <2> QED
    BY <2>1, <2>2, <2>3
<1> QED
  BY <1>2, <1>3, ServiceLifeStep DEF Next

LEMMA RowsHold == Spec => []RowsInv
<1>1. Init => RowsInv
  BY Nulls DEF Init, RowsInv
<1>2. ASSUME IInv, RowsInv, [Next]_vars PROVE RowsInv'
  <2>0. nextSid \in Int /\ Sids \subseteq Int
    BY <1>2, SessionBounds DEF IInv, TypeOK, Sids
  <2>1. LifeStep
    BY <1>2, EveryLifeStep
  <2>2. CASE Ends
    BY <1>2, <2>2, Nulls DEF Ends, RowsInv
  <2>3. CASE Wastes \/ \E u \in Users : Clears(u) \/ Replaces(u)
    BY <1>2, <2>3 DEF Wastes, Clears, Replaces, RowsInv
  <2>4. ASSUME NEW x \in Sids, Rotates(x) PROVE RowsInv'
    BY <1>2, <2>4 DEF Rotates, RowsInv
  <2>5. ASSUME NEW x \in Sids, NEW u \in Users, Opens(x, u) PROVE RowsInv'
    BY <1>2, <2>0, <2>5 DEF Opens, RowsInv
  <2> QED
    BY <2>1, <2>2, <2>3, <2>4, <2>5 DEF LifeStep
<1> QED
  BY <1>1, <1>2, Invariance, PTL DEF Spec

\* The values the refinement mapping gives to the abstract variables.
LifeOf(s) == IF sessions[s].live THEN "live" ELSE IF s <= nextSid THEN "gone" ELSE "absent"
Life   == [s \in Sids |-> LifeOf(s)]
Owner  == [s \in Sids |-> sessions[s].user]
Secret == [s \in Sids |-> sessions[s].hash]
Single == [u \in Users |-> slot[u].hash]
Used   == 1..nextSecret

LEMMA DrawStep == ASSUME IInv, NewSecret PROVE nextSecret + 1 \notin Used /\ Used' = Used \union {nextSecret + 1}
<1>1. nextSecret \in Nat
  BY SessionBounds DEF IInv, TypeOK, Secrets
<1> QED
  BY <1>1 DEF Used, NewSecret

LEMMA EndStep == ASSUME IInv, RowsInv, Ends PROVE \E S \in SUBSET Sids : Lifecycle!End(S)
<1>1. PICK S \in SUBSET Sids : S = {x \in Sids : sessions[x].live /\ ~sessions'[x].live}
  OBVIOUS
<1>2. \A x \in S : LifeOf(x) = "live" /\ x <= nextSid
  BY <1>1, SessionBounds DEF LifeOf, RowsInv, IInv, TypeOK, Sids
<1>3. \A x \in Sids : sessions'[x] = IF x \in S THEN NoSession ELSE sessions[x]
  BY <1>1, Nulls DEF Ends, RowsInv
<1>4. \A x \in Sids : LifeOf(x)' = IF x \in S THEN "gone" ELSE LifeOf(x)
  BY <1>2, <1>3, Nulls DEF LifeOf, Ends
<1>5. NoSession.user = NoUser /\ NoSession.hash = 0
  BY DEF NoSession
<1>6. /\ Life' = [x \in Sids |-> IF x \in S THEN "gone" ELSE Life[x]]
      /\ Owner' = [x \in Sids |-> IF x \in S THEN NoUser ELSE Owner[x]]
      /\ Secret' = [x \in Sids |-> IF x \in S THEN 0 ELSE Secret[x]]
  BY <1>3, <1>4, <1>5 DEF Life, Owner, Secret
<1>7. UNCHANGED <<Single, Used>>
  BY DEF Ends, Single, Used
<1>8. Lifecycle!End(S)
  BY <1>2, <1>6, <1>7 DEF Lifecycle!End, Life, LifeOf, Owner, Secret, Single, Used
<1> QED
  BY <1>8

LEMMA ClearStep == ASSUME IInv, NEW u \in Users, Clears(u) PROVE Lifecycle!Clear(u)
<1>1. Single' = [Single EXCEPT ![u] = 0] /\ UNCHANGED <<Life, Owner, Secret, Used>>
  BY DEF Clears, Single, Life, LifeOf, Owner, Secret, Used
<1> QED
  BY <1>1 DEF Lifecycle!Clear, Life, LifeOf, Owner, Secret, Single, Used

LEMMA ReplaceStep ==
  ASSUME IInv, NEW u \in Users, Replaces(u), NEW k, k = nextSecret + 1 PROVE Lifecycle!Replace(u, k)
<1>1. Single' = [Single EXCEPT ![u] = k] /\ UNCHANGED <<Life, Owner, Secret>>
  BY DEF Replaces, Single, Life, LifeOf, Owner, Secret
<1>2. k \notin Used /\ Used' = Used \union {k}
  BY DrawStep DEF Replaces
<1> QED
  BY <1>1, <1>2 DEF Lifecycle!Replace, Lifecycle!Draw, Life, LifeOf, Owner, Secret, Single, Used

LEMMA WasteStep == ASSUME IInv, Wastes, NEW k, k = nextSecret + 1 PROVE Lifecycle!Waste(k)
<1>1. UNCHANGED <<Life, Owner, Secret, Single>>
  BY DEF Wastes, Single, Life, LifeOf, Owner, Secret
<1>2. k \notin Used /\ Used' = Used \union {k}
  BY DrawStep DEF Wastes
<1> QED
  BY <1>1, <1>2 DEF Lifecycle!Waste, Lifecycle!Draw, Life, LifeOf, Owner, Secret, Single, Used

LEMMA RotateStep ==
  ASSUME IInv, NEW x \in Sids, Rotates(x), NEW k, k = nextSecret + 1 PROVE Lifecycle!Rotate(x, k)
<1>1. \A y \in Sids : LifeOf(y)' = LifeOf(y) /\ sessions'[y].user = sessions[y].user
        /\ sessions'[y].hash = IF y = x THEN k ELSE sessions[y].hash
  BY DEF Rotates, LifeOf
<1>2. Life[x] = "live" /\ Life' = Life /\ Owner' = Owner /\ Single' = Single
      /\ Secret' = [Secret EXCEPT ![x] = k]
  BY <1>1 DEF Rotates, Life, LifeOf, Owner, Secret, Single
<1>3. k \notin Used /\ Used' = Used \union {k}
  BY DrawStep DEF Rotates
<1> QED
  BY <1>2, <1>3 DEF Lifecycle!Rotate, Lifecycle!Draw, Life, LifeOf, Owner, Secret, Single, Used

LEMMA OpenStep ==
  ASSUME IInv, RowsInv, NEW x \in Sids, NEW u \in Users, Opens(x, u), NEW k, k = nextSecret + 1
  PROVE  Lifecycle!Open(x, u, k)
<1>1. nextSid \in Int /\ Sids \subseteq Int
  BY SessionBounds DEF IInv, TypeOK, Sids
<1>2. LifeOf(x) = "absent"
  BY <1>1 DEF Opens, RowsInv, LifeOf
<1>3. \A y \in Sids : LifeOf(y)' = IF y = x THEN "live" ELSE LifeOf(y)
  BY <1>1 DEF Opens, LifeOf, RowsInv
<1>4. Life[x] = "absent" /\ Life' = [Life EXCEPT ![x] = "live"] /\ Single' = Single
  BY <1>2, <1>3 DEF Life, Single, Opens
<1>5. Owner' = [Owner EXCEPT ![x] = u] /\ Secret' = [Secret EXCEPT ![x] = k]
  BY DEF Opens, Owner, Secret
<1>6. k \notin Used /\ Used' = Used \union {k}
  BY DrawStep DEF Opens
<1> QED
  BY <1>4, <1>5, <1>6 DEF Lifecycle!Open, Lifecycle!Draw, Life, LifeOf, Owner, Secret, Single, Used

\* The store calls of IssuePair, Refresh, Revoke, RevokeSession, the eviction and
\* the sweep, interleaved in any way, never show more than the session life cycle:
\* one owner and one secret per session, no session after its end, no secret twice.
THEOREM ImplementsSessionLifecycle == Spec => SessionLifecycleSpec
<1>1. Init => Lifecycle!LifeInit
  <2> SUFFICES ASSUME Init PROVE Lifecycle!LifeInit
    OBVIOUS
  <2>1. /\ \A s \in Sids : sessions[s] = NoSession /\ ~sessions[s].live
                           /\ sessions[s].user = NoUser /\ sessions[s].hash = 0 /\ ~(s <= nextSid)
        /\ \A u \in Users : slot[u].hash = 0
        /\ 1..nextSecret = {}
    BY Nulls, SessionBounds DEF Init, NoSession, EmptySlot, Sids
  <2> QED
    BY <2>1 DEF Lifecycle!LifeInit
<1>2. IInv /\ RowsInv /\ [Next]_vars => [Lifecycle!LifeNext]_(Lifecycle!lifeVars)
  <2> SUFFICES ASSUME IInv, RowsInv, [Next]_vars PROVE Lifecycle!LifeNext
    OBVIOUS
  <2>1. CASE Ends
    BY <2>1, EndStep DEF Lifecycle!LifeNext
  <2>2. CASE Wastes
    <3>1. PICK k \in 1..MaxSecrets : k = nextSecret + 1
      BY <2>2 DEF Wastes, NewSecret
    <3>2. Lifecycle!Waste(k)
      BY <2>2, <3>1, WasteStep
    <3> QED
      BY <3>1, <3>2 DEF Lifecycle!LifeNext
  <2>3. ASSUME NEW u \in Users, Clears(u) PROVE Lifecycle!LifeNext
    BY <2>3, ClearStep DEF Lifecycle!LifeNext
  <2>4. ASSUME NEW u \in Users, Replaces(u) PROVE Lifecycle!LifeNext
    <3>1. PICK k \in 1..MaxSecrets : k = nextSecret + 1
      BY <2>4 DEF Replaces, NewSecret
    <3>2. Lifecycle!Replace(u, k)
      BY <2>4, <3>1, ReplaceStep
    <3> QED
      BY <3>1, <3>2 DEF Lifecycle!LifeNext
  <2>5. ASSUME NEW x \in Sids, Rotates(x) PROVE Lifecycle!LifeNext
    <3>1. PICK k \in 1..MaxSecrets : k = nextSecret + 1
      BY <2>5 DEF Rotates, NewSecret
    <3>2. Lifecycle!Rotate(x, k)
      BY <2>5, <3>1, RotateStep
    <3> QED
      BY <3>1, <3>2 DEF Lifecycle!LifeNext
  <2>6. ASSUME NEW x \in Sids, NEW u \in Users, Opens(x, u) PROVE Lifecycle!LifeNext
    <3>1. PICK k \in 1..MaxSecrets : k = nextSecret + 1
      BY <2>6 DEF Opens, NewSecret
    <3>2. Lifecycle!Open(x, u, k)
      BY <2>6, <3>1, OpenStep
    <3> QED
      BY <3>1, <3>2 DEF Lifecycle!LifeNext
  <2> QED
    BY <2>1, <2>2, <2>3, <2>4, <2>5, <2>6, EveryLifeStep DEF LifeStep
<1> QED
  BY <1>1, <1>2, Invariance, RowsHold, PTL DEF Spec, SessionLifecycleSpec, Lifecycle!LifeSpec
=============================================================================
