--------------------------- MODULE GrantLifecycle ---------------------------
(***************************************************************************)
(* What the token endpoint of the authorization server promises, with the  *)
(* requests, the store calls and the races between them left out.          *)
(*                                                                         *)
(* An authorization code is spent at most once and opens one grant.  A     *)
(* grant is live from then until something ends it, and never again after. *)
(* A grant that carries refresh tokens holds a chain of them: rotation     *)
(* consumes the newest link, and only that one, and appends the next.      *)
(***************************************************************************)
EXTENDS Naturals

CONSTANTS Codes,    \* authorization codes
          Grants    \* grant identifiers

VARIABLES life,      \* life[g]: has grant g been opened, and has it ended?
          spent,     \* the codes that opened a grant
          chain,     \* chain[g]: the newest link of g's refresh chain, 0 for none
          consumed   \* consumed[g]: the links that have been rotated away

lifeVars == <<life, spent, chain, consumed>>

LifeInit ==
  /\ life = [g \in Grants |-> "absent"]
  /\ spent = {}
  /\ chain = [g \in Grants |-> 0]
  /\ consumed = [g \in Grants |-> {}]

\* A code is exchanged: it opens a grant with no refresh token or with one.
Redeem(c, g, first) ==
  /\ c \notin spent
  /\ life[g] = "absent"
  /\ spent' = spent \union {c}
  /\ life' = [life EXCEPT ![g] = "live"]
  /\ chain' = [chain EXCEPT ![g] = first]
  /\ UNCHANGED consumed

\* The newest refresh token is traded for the next one.
Rotate(g) ==
  /\ life[g] = "live"
  /\ chain[g] > 0
  /\ chain[g] \notin consumed[g]
  /\ chain' = [chain EXCEPT ![g] = @ + 1]
  /\ consumed' = [consumed EXCEPT ![g] = @ \union {chain[g]}]
  /\ UNCHANGED <<life, spent>>

\* Revocation, reuse detection, expiry or a deleted user end live grants.
End(S) ==
  /\ \A g \in S : life[g] = "live"
  /\ life' = [g \in Grants |-> IF g \in S THEN "gone" ELSE life[g]]
  /\ UNCHANGED <<spent, chain, consumed>>

LifeNext ==
  \/ \E c \in Codes, g \in Grants, first \in {0, 1} : Redeem(c, g, first)
  \/ \E g \in Grants : Rotate(g)
  \/ \E S \in SUBSET Grants : End(S)

LifeSpec == LifeInit /\ [][LifeNext]_lifeVars
=============================================================================
