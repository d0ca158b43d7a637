--------------------------- MODULE RefreshSessions ---------------------------
(***************************************************************************)
(* The first-party token service (identity/token_service.go) over its      *)
(* session store (stores/memstore/refreshtoken.go) and the user-token slot *)
(* it used before sessions existed.                                        *)
(*                                                                         *)
(* A call of IssuePair, Refresh, Revoke or RevokeSession is a process      *)
(* whose steps are its store calls.  The caller loads the user first, so   *)
(* the stamp that ends up in an access token may be stale.  A deployment   *)
(* starts with the single slot and may later be restarted with a session   *)
(* store, which migrates slot tokens as they are presented.                *)
(*                                                                         *)
(* Session ids and secrets are random and never repeat: both are numbered  *)
(* in the order they are stored.  Session 0 is the legacy slot, secret 0   *)
(* the empty slot.  A time that a call does not use again is forgotten.    *)
(***************************************************************************)
EXTENDS Integers, FiniteSets

CONSTANTS Calls,        \* concurrent calls (goroutines)
          Users,
          MaxSids,      \* bound on the sessions opened
          MaxSecrets,   \* bound on the secrets stored
          MaxStamp,     \* bound on stamp rotations per user
          MaxTime,      \* bound on the clock
          RefreshTTL,   \* TokenOptions.RefreshTokenTTL
          MaxSessions,  \* TokenOptions.MaxSessions, 0 for no cap
          NoUser

ASSUME SessionBounds ==
  /\ MaxSids \in Nat /\ MaxSecrets \in Nat /\ MaxStamp \in Nat /\ MaxTime \in Nat
  /\ RefreshTTL \in Nat /\ MaxSessions \in Nat
  /\ NoUser \notin Users

VARIABLES
  now,         \* nowFn
  stamp,       \* stamp[u]: User.SecurityStamp
  sessionsOn,  \* TokenService.Sessions is set
  sessions,    \* identity_refresh_tokens
  slot,        \* slot[u]: the user token ("GoIdentity", "RefreshToken")
  call,        \* call[c]: where call c is, and what it remembers
  held,        \* refresh tokens <<sid, secret>> that were handed out
  nextSid, nextSecret,
  cutShort,    \* history: an enforcement of the cap did not run to its end
  ended        \* history: a session has ended other than by a newer login

vars == <<now, stamp, sessionsOn, sessions, slot, call, held,
          nextSid, nextSecret, cutShort, ended>>

Sids    == 1..MaxSids
Secrets == 0..MaxSecrets

\* born is history: the user's stamp at the sign-in this token descends from.
Session == [live: BOOLEAN, user: Users \union {NoUser}, hash: Secrets, exp: Nat, born: Nat]
NoSession == [live |-> FALSE, user |-> NoUser, hash |-> 0, exp |-> 0, born |-> 0]
Slot == [hash: Secrets, exp: Nat, born: Nat]
EmptySlot == [hash |-> 0, exp |-> 0, born |-> 0]

PCs == {"idle", "loaded", "issue", "gc", "list", "evict", "retire", "update",
        "respond", "revoke"}

\* cand and excess are the rest of the eviction loop; legacy: the token
\* presented came from the slot.
Call == [pc: PCs, user: Users \union {NoUser}, stamp: Nat, sid: 0..MaxSids,
         hash: Secrets, at: Nat, born: Nat, legacy: BOOLEAN,
         cand: SUBSET (Sids \X Nat), excess: Nat]
Idle == [pc |-> "idle", user |-> NoUser, stamp |-> 0, sid |-> 0, hash |-> 0, at |-> 0,
         born |-> 0, legacy |-> FALSE, cand |-> {}, excess |-> 0]

SessionsOf(u) == {s \in Sids : sessions[s].live /\ sessions[s].user = u}

Init ==
  /\ now = 0
  /\ stamp = [u \in Users |-> 0]
  /\ sessionsOn = FALSE
  /\ sessions = [s \in Sids |-> NoSession]
  /\ slot = [u \in Users |-> EmptySlot]
  /\ call = [c \in Calls |-> Idle]
  /\ held = {}
  /\ nextSid = 0
  /\ nextSecret = 0
  /\ cutShort = FALSE
  /\ ended = FALSE

-----------------------------------------------------------------------------
(* The surroundings *)

Tick ==
  /\ now < MaxTime
  /\ now' = now + 1
  /\ UNCHANGED <<stamp, sessionsOn, sessions, slot, call, held,
                 nextSid, nextSecret, cutShort, ended>>

\* UserManager.UpdateSecurityStamp, and every change that rotates the stamp.
UpdateSecurityStamp(u) ==
  /\ stamp[u] < MaxStamp
  /\ stamp' = [stamp EXCEPT ![u] = @ + 1]
  /\ UNCHANGED <<now, sessionsOn, sessions, slot, call, held,
                 nextSid, nextSecret, cutShort, ended>>

\* The service is restarted with a session store.
WithSessionStore ==
  /\ ~sessionsOn
  /\ \A c \in Calls : call[c].pc = "idle"
  /\ sessionsOn' = TRUE
  /\ UNCHANGED <<now, stamp, sessions, slot, call, held,
                 nextSid, nextSecret, cutShort, ended>>

\* The caller of IssuePair or Refresh has found (or signed in) the user.
LoadUser(c, u) ==
  /\ call[c].pc = "idle"
  /\ call' = [call EXCEPT ![c] = [Idle EXCEPT !.pc = "loaded", !.user = u,
                !.stamp = stamp[u], !.born = stamp[u]]]
  /\ UNCHANGED <<now, stamp, sessionsOn, sessions, slot, held,
                 nextSid, nextSecret, cutShort, ended>>

\* A call ends early: a store error, a cancelled context, a crash.
Abandon(c) ==
  /\ call[c].pc # "idle"
  /\ call' = [call EXCEPT ![c] = Idle]
  /\ cutShort' = (cutShort \/ call[c].pc \in {"gc", "list", "evict"})
  /\ UNCHANGED <<now, stamp, sessionsOn, sessions, slot, held,
                 nextSid, nextSecret, ended>>

-----------------------------------------------------------------------------
(* IssuePair *)

\* The legacy path: the slot is overwritten.
SetToken(c) ==
  /\ call[c].pc \in {"loaded", "issue"}
  /\ ~sessionsOn
  /\ nextSecret < MaxSecrets
  /\ nextSecret' = nextSecret + 1
  /\ slot' = [slot EXCEPT ![call[c].user] =
                [hash |-> nextSecret + 1, exp |-> now + RefreshTTL, born |-> call[c].born]]
  /\ call' = [call EXCEPT ![c].pc = "respond", ![c].hash = nextSecret + 1]
  /\ UNCHANGED <<now, stamp, sessionsOn, sessions, held, nextSid, cutShort, ended>>

\* newSessionRefresh: one row per login.
CreateRefreshToken(c) ==
  /\ call[c].pc \in {"loaded", "issue"}
  /\ sessionsOn
  /\ nextSid < MaxSids /\ nextSecret < MaxSecrets
  /\ nextSid' = nextSid + 1
  /\ nextSecret' = nextSecret + 1
  /\ sessions' = [sessions EXCEPT ![nextSid + 1] =
       [live |-> TRUE, user |-> call[c].user, hash |-> nextSecret + 1,
        exp |-> now + RefreshTTL, born |-> call[c].born]]
  /\ call' = [call EXCEPT ![c].pc = "gc", ![c].sid = nextSid + 1,
                          ![c].hash = nextSecret + 1, ![c].at = now]
  /\ UNCHANGED <<now, stamp, sessionsOn, slot, held, cutShort, ended>>

\* The opportunistic sweep, with the time read before the row was created; its
\* failure is only logged.
DeleteExpiredRefreshTokens(c) ==
  /\ call[c].pc = "gc"
  /\ LET dead == {s \in Sids : sessions[s].live /\ sessions[s].exp < call[c].at}
     IN \/ /\ sessions' = [s \in Sids |-> IF s \in dead THEN NoSession ELSE sessions[s]]
           /\ ended' = (ended \/ dead # {})
        \/ UNCHANGED <<sessions, ended>>
  /\ call' = [call EXCEPT ![c].pc = "list", ![c].at = 0]
  /\ UNCHANGED <<now, stamp, sessionsOn, slot, held, nextSid, nextSecret, cutShort>>

\* What IssuePair does after the cap is enforced: a migrated token's slot is
\* retired before the pair is returned.
Issued(c) == IF call[c].legacy THEN "retire" ELSE "respond"

\* Mutant: the new session is not counted.
AboveCap_OffByOne(n) == MaxSessions > 0 /\ n - 1 > MaxSessions

\* enforceMaxSessions has something to evict.
AboveCap(n) == MaxSessions > 0 /\ n > MaxSessions

\* enforceMaxSessions: nothing to do below the cap, else the rest of the list
\* is kept for the loop.
ListUserRefreshTokens(c) ==
  /\ call[c].pc = "list"
  /\ LET mine == SessionsOf(call[c].user)
     IN \/ /\ ~AboveCap(Cardinality(mine))
           /\ call' = [call EXCEPT ![c].pc = Issued(c)]
           /\ UNCHANGED cutShort
        \/ /\ AboveCap(Cardinality(mine))
           /\ call' = [call EXCEPT ![c].pc = "evict",
                         ![c].excess = Cardinality(mine) - MaxSessions,
                         ![c].cand = {<<s, sessions[s].exp>> : s \in mine \ {call[c].sid}}]
           /\ UNCHANGED cutShort
        \/ /\ MaxSessions > 0
           /\ call' = [call EXCEPT ![c].pc = Issued(c)]
           /\ cutShort' = TRUE
  /\ UNCHANGED <<now, stamp, sessionsOn, sessions, slot, held,
                 nextSid, nextSecret, ended>>

\* The next session to evict: one of those that expire first.
Oldest(cand) == {x \in cand : \A y \in cand : x[2] <= y[2]}

\* One turn of the eviction loop.  A failed deletion is logged and skipped.
EvictSession(c) ==
  /\ call[c].pc = "evict"
  /\ \E x \in Oldest(call[c].cand) :
       LET rest == call[c].cand \ {x}
           Left(n) == IF n = 0 \/ rest = {}
                      THEN [call[c] EXCEPT !.pc = Issued(c), !.cand = {}, !.excess = 0]
                      ELSE [call[c] EXCEPT !.cand = rest, !.excess = n]
       IN \/ /\ sessions' = [sessions EXCEPT ![x[1]] = NoSession]
             /\ call' = [call EXCEPT ![c] = Left(call[c].excess - 1)]
             /\ UNCHANGED cutShort
          \/ /\ call' = [call EXCEPT ![c] = Left(call[c].excess)]
             /\ cutShort' = TRUE
             /\ UNCHANGED sessions
  /\ UNCHANGED <<now, stamp, sessionsOn, slot, held, nextSid, nextSecret, ended>>

\* RemoveToken at the end of a migration; its error is dropped.
RetireSlot(c) ==
  /\ call[c].pc = "retire"
  /\ slot' \in {[slot EXCEPT ![call[c].user] = EmptySlot], slot}
  /\ call' = [call EXCEPT ![c].pc = "respond"]
  /\ UNCHANGED <<now, stamp, sessionsOn, sessions, held,
                 nextSid, nextSecret, cutShort, ended>>

\* The pair goes back to the caller.
Respond(c) ==
  /\ call[c].pc = "respond"
  /\ held' = held \union {<<call[c].sid, call[c].hash>>}
  /\ call' = [call EXCEPT ![c] = Idle]
  /\ UNCHANGED <<now, stamp, sessionsOn, sessions, slot, nextSid, nextSecret, cutShort, ended>>

-----------------------------------------------------------------------------
(* Refresh *)

\* validateLegacySlot.
ValidateLegacySlot(c, s) ==
  /\ call[c].pc = "loaded"
  /\ <<0, s>> \in held
  /\ slot[call[c].user].hash = s
  /\ now <= slot[call[c].user].exp
  /\ call' = [call EXCEPT ![c].pc = "issue", ![c].legacy = sessionsOn,
                          ![c].born = slot[call[c].user].born]
  /\ UNCHANGED <<now, stamp, sessionsOn, sessions, slot, held,
                 nextSid, nextSecret, cutShort, ended>>

\* A session is refreshed only for its own user.
SessionOwnerMatches(s, u) == sessions[s].user = u

\* refreshSession: read the row and check owner, expiry and secret.
GetRefreshTokenBySession(c, s, secret) ==
  /\ call[c].pc = "loaded"
  /\ sessionsOn
  /\ <<s, secret>> \in held
  /\ sessions[s].live
  /\ SessionOwnerMatches(s, call[c].user)
  /\ now <= sessions[s].exp
  /\ sessions[s].hash = secret
  /\ call' = [call EXCEPT ![c].pc = "update", ![c].sid = s, ![c].hash = secret,
                          ![c].at = now, ![c].born = sessions[s].born]
  /\ UNCHANGED <<now, stamp, sessionsOn, sessions, slot, held,
                 nextSid, nextSecret, cutShort, ended>>

\* Mutant: an upsert (INSERT ... ON CONFLICT DO UPDATE).
RefreshedRow_Upsert(c, new) ==
  [live |-> TRUE, user |-> call[c].user, hash |-> new,
   exp |-> call[c].at + RefreshTTL, born |-> call[c].born]

\* Mutant: a refresh that finds the row changed puts back what it had read.
RefreshedRow_Rollback(c, new) ==
  LET s == call[c].sid
  IN  IF ~sessions[s].live THEN sessions[s]
      ELSE [sessions[s] EXCEPT !.hash = IF @ = call[c].hash THEN new ELSE call[c].hash]

\* Mutant: the lifetime is subtracted.
RefreshedRow_Backdated(c, new) ==
  [sessions[call[c].sid] EXCEPT !.hash = new, !.exp = call[c].at - RefreshTTL]

\* The row UpdateRefreshToken leaves: UPDATE ... WHERE session_id, so a row
\* that is gone stays gone.
RefreshedRow(c, new) ==
  LET s == call[c].sid
  IN  IF sessions[s].live
      THEN [sessions[s] EXCEPT !.hash = new, !.exp = call[c].at + RefreshTTL]
      ELSE sessions[s]

UpdateRefreshToken(c) ==
  /\ call[c].pc = "update"
  /\ nextSecret < MaxSecrets
  /\ nextSecret' = nextSecret + 1
  /\ LET s == call[c].sid IN
     /\ sessions' = [sessions EXCEPT ![s] = RefreshedRow(c, nextSecret + 1)]
     /\ call' = [call EXCEPT ![c] = IF sessions[s].live
                   THEN [@ EXCEPT !.pc = "respond", !.hash = nextSecret + 1, !.at = 0]
                   ELSE Idle]
  /\ UNCHANGED <<now, stamp, sessionsOn, slot, held, nextSid, cutShort, ended>>

-----------------------------------------------------------------------------
(* Revoke and RevokeSession *)

\* Revoke removes the slot first ...
RevokeSlot(c, u) ==
  /\ call[c].pc = "idle"
  /\ slot' = [slot EXCEPT ![u] = EmptySlot]
  /\ ended' = TRUE
  /\ call' = [call EXCEPT ![c] = IF sessionsOn
                THEN [Idle EXCEPT !.pc = "revoke", !.user = u] ELSE Idle]
  /\ UNCHANGED <<now, stamp, sessionsOn, sessions, held,
                 nextSid, nextSecret, cutShort>>

\* ... then every session.
DeleteUserRefreshTokens(c) ==
  /\ call[c].pc = "revoke"
  /\ sessions' = [s \in Sids |-> IF s \in SessionsOf(call[c].user) THEN NoSession
                                  ELSE sessions[s]]
  /\ call' = [call EXCEPT ![c] = Idle]
  /\ UNCHANGED <<now, stamp, sessionsOn, slot, held,
                 nextSid, nextSecret, cutShort, ended>>

\* The owner never changes, so the check and the deletion are one step.
RevokeSession(u, s, secret) ==
  /\ <<s, secret>> \in held
  /\ IF sessionsOn /\ s # 0
     THEN /\ s \in SessionsOf(u)
          /\ sessions' = [sessions EXCEPT ![s] = NoSession]
          /\ UNCHANGED slot
     ELSE /\ slot' = [slot EXCEPT ![u] = EmptySlot]
          /\ UNCHANGED sessions
  /\ ended' = TRUE
  /\ UNCHANGED <<now, stamp, sessionsOn, call, held, nextSid, nextSecret, cutShort>>

-----------------------------------------------------------------------------
Service(c) ==
  \/ \E u \in Users : LoadUser(c, u)
  \/ SetToken(c)
  \/ CreateRefreshToken(c)
  \/ DeleteExpiredRefreshTokens(c)
  \/ ListUserRefreshTokens(c)
  \/ EvictSession(c)
  \/ RetireSlot(c)
  \/ Respond(c)
  \/ \E s \in 1..MaxSecrets : ValidateLegacySlot(c, s)
  \/ \E s \in Sids, secret \in 1..MaxSecrets : GetRefreshTokenBySession(c, s, secret)
  \/ UpdateRefreshToken(c)
  \/ \E u \in Users : RevokeSlot(c, u)
  \/ DeleteUserRefreshTokens(c)
  \/ Abandon(c)

Next ==
  \/ Tick
  \/ WithSessionStore
  \/ \E u \in Users : UpdateSecurityStamp(u)
  \/ \E u \in Users, s \in 0..MaxSids, secret \in 1..MaxSecrets : RevokeSession(u, s, secret)
  \/ \E c \in Calls : Service(c)

Spec == Init /\ [][Next]_vars

-----------------------------------------------------------------------------
(* Properties *)

\* Rows, slots, locals and tokens are what their declarations say.
TypeOK ==
  /\ now \in Nat
  /\ stamp \in [Users -> Nat]
  /\ sessionsOn \in BOOLEAN
  /\ sessions \in [Sids -> Session]
  /\ slot \in [Users -> Slot]
  /\ call \in [Calls -> Call]
  /\ held \in SUBSET ((0..MaxSids) \X Secrets)
  /\ nextSid \in 0..MaxSids
  /\ nextSecret \in Secrets
  /\ cutShort \in BOOLEAN /\ ended \in BOOLEAN

Enforcing(c) == call[c].pc \in {"gc", "list", "evict"}

\* Once the logins in progress have finished, no user is above MaxSessions,
\* however their creations, listings and evictions interleaved.
SessionCap ==
  (MaxSessions > 0 /\ ~cutShort /\ \A c \in Calls : ~Enforcing(c)) =>
    \A u \in Users : Cardinality(SessionsOf(u)) <= MaxSessions

\* A session that was revoked, evicted or swept never comes back, although
\* refreshSession may have read its row before it went.  (SessionLifecycleSpec
\* says it, too.)
SessionsNeverReturn ==
  [][\A s \in Sids : s <= nextSid /\ ~sessions[s].live => ~sessions'[s].live]_vars

\* A secret can be redeemed while the session table or the slot holds its hash.
Redeemable(s) ==
  \/ \E x \in Sids : sessions[x].live /\ sessions[x].hash = s
  \/ \E u \in Users : slot[u].hash = s

\* A refresh token that was rotated away or revoked stays worthless: two
\* refreshes that race on one session never put an old secret back.
SpentSecretsStaySpent ==
  [][\A s \in 1..MaxSecrets :
       s <= nextSecret /\ ~Redeemable(s) => ~Redeemable(s)']_vars

\* The session table and the slot as SessionLifecycle sees them.
Lifecycle == INSTANCE SessionLifecycle WITH
  Ids <- Sids, Owners <- Users, Tokens <- 1..MaxSecrets, Nobody <- NoUser, NoToken <- 0,
  life <- [s \in Sids |-> IF sessions[s].live THEN "live"
                          ELSE IF s <= nextSid THEN "gone" ELSE "absent"],
  owner <- [s \in Sids |-> sessions[s].user],
  secret <- [s \in Sids |-> sessions[s].hash],
  single <- [u \in Users |-> slot[u].hash],
  used <- 1..nextSecret

\* However logins, refreshes, evictions, sweeps, sign-outs and the migration
\* interleave, what they do is the life cycle of SessionLifecycle: a session keeps
\* its owner, answers to one secret, and ends for good.
SessionLifecycleSpec == Lifecycle!LifeSpec

\* An access token that is returned and that ValidateAccessToken accepts
\* descends from a sign-in under the user's present stamp: rotating the stamp
\* signs out everywhere.
SignOutEverywhere ==
  \A c \in Calls :
    call[c].pc = "respond" /\ call[c].stamp = stamp[call[c].user]
      => call[c].born = stamp[call[c].user]

\* With MaxSessions = 1 a login signs out the previous one, as the slot did:
\* as long as nobody signs out and nothing expires, one session remains.  TLC
\* refutes it with two concurrent logins that evict each other (README, known
\* divergences).
LatestLoginRemains ==
  (/\ sessionsOn /\ MaxSessions = 1
   /\ ~ended /\ nextSid > 0
   /\ \A c \in Calls : ~Enforcing(c)) =>
     \E s \in Sids : sessions[s].live
=============================================================================
