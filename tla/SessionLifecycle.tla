-------------------------- MODULE SessionLifecycle --------------------------
(***************************************************************************)
(* What the first-party token service promises about refresh tokens, with  *)
(* the calls, the store and the races between them left out.               *)
(*                                                                         *)
(* A session is opened once, for one owner, and never comes back after its *)
(* end.  While it lives it answers to one secret, which a refresh replaces *)
(* by a new one.  Beside the sessions an owner has a single token, which   *)
(* a newer one replaces.  No secret is ever used a second time.            *)
(***************************************************************************)
CONSTANTS Ids, Owners, Tokens,   \* sessions, users and secrets
          Nobody, NoToken

VARIABLES life,     \* life[s]: has session s been opened, and has it ended?
          owner,    \* owner[s]: whose session a live one is
          secret,   \* secret[s]: what a live session answers to
          single,   \* single[u]: the token of u that belongs to no session
          used      \* the secrets drawn so far

lifeVars == <<life, owner, secret, single, used>>

LifeInit ==
  /\ life = [s \in Ids |-> "absent"]
  /\ owner = [s \in Ids |-> Nobody]
  /\ secret = [s \in Ids |-> NoToken]
  /\ single = [u \in Owners |-> NoToken]
  /\ used = {}

Draw(k) == k \notin used /\ used' = used \union {k}

\* A login, or the migration of a single token.
Open(s, u, k) ==
  /\ life[s] = "absent"
  /\ Draw(k)
  /\ life' = [life EXCEPT ![s] = "live"]
  /\ owner' = [owner EXCEPT ![s] = u]
  /\ secret' = [secret EXCEPT ![s] = k]
  /\ UNCHANGED single

Rotate(s, k) ==
  /\ life[s] = "live"
  /\ Draw(k)
  /\ secret' = [secret EXCEPT ![s] = k]
  /\ UNCHANGED <<life, owner, single>>

\* A sign-out, an eviction or a sweep ends live sessions.
End(S) ==
  /\ \A s \in S : life[s] = "live"
  /\ life' = [s \in Ids |-> IF s \in S THEN "gone" ELSE life[s]]
  /\ owner' = [s \in Ids |-> IF s \in S THEN Nobody ELSE owner[s]]
  /\ secret' = [s \in Ids |-> IF s \in S THEN NoToken ELSE secret[s]]
  /\ UNCHANGED <<single, used>>

Replace(u, k) ==
  /\ Draw(k)
  /\ single' = [single EXCEPT ![u] = k]
  /\ UNCHANGED <<life, owner, secret>>

Clear(u) ==
  /\ single' = [single EXCEPT ![u] = NoToken]
  /\ UNCHANGED <<life, owner, secret, used>>

\* A refresh that finds its session gone has drawn a secret for nothing.
Waste(k) == Draw(k) /\ UNCHANGED <<life, owner, secret, single>>

LifeNext ==
  \/ \E s \in Ids, u \in Owners, k \in Tokens : Open(s, u, k)
  \/ \E s \in Ids, k \in Tokens : Rotate(s, k)
  \/ \E S \in SUBSET Ids : End(S)
  \/ \E u \in Owners, k \in Tokens : Replace(u, k)
  \/ \E u \in Owners : Clear(u)
  \/ \E k \in Tokens : Waste(k)

LifeSpec == LifeInit /\ [][LifeNext]_lifeVars
=============================================================================
