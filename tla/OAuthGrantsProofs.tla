-------------------------- MODULE OAuthGrantsProofs --------------------------
(***************************************************************************)
(* Proofs about OAuthGrants for every number of requests, users, clients,  *)
(* scopes and codes and every value of the bounds and of the options.      *)
(***************************************************************************)
EXTENDS OAuthGrants, TLAPS

CodePCs    == {"codeUser", "codeMark", "codeLost", "codeCreate"}
RefreshPCs == {"refreshUser", "refreshRotate"}

\* A grant id carries an approval: it was created from a code, and u, cl and
\* sc do not exceed what that code stands for.
Approved(g, u, cl, sc) ==
  /\ g \in GrantIds
  /\ origin[g] \in Codes
  /\ codes[origin[g]].user = u
  /\ codes[origin[g]].client = cl
  /\ sc \subseteq codes[origin[g]].scopes
  /\ u \in Users
  /\ cl \in Clients

\* An issued code belongs to a user and a client.
CodesInv ==
  \A c \in Codes : codes[c].st # "unborn" => codes[c].user \in Users /\ codes[c].client \in Clients

\* Grant ids are drawn in order, and a grant's code is no longer redeemable.
OriginInv ==
  \A g \in GrantIds :
    /\ origin[g] # NoCode => g <= nextGid /\ codes[origin[g]].st \in {"used", "purged"}
    /\ origin[g] = NoCode => ~grants[g].live /\ minted[g] = 0

\* What a request redeeming a code remembers agrees with the code.
ExchangeInv ==
  \A r \in Requests : req[r].pc \in CodePCs =>
    /\ req[r].code \in Codes
    /\ codes[req[r].code].st # "unborn"
    /\ codes[req[r].code].user = req[r].user
    /\ codes[req[r].code].client = req[r].client
    /\ codes[req[r].code].scopes = req[r].scopes
    /\ req[r].user \in Users
    /\ req[r].client \in Clients

\* A request that won MarkCodeUsed owns its code and its fresh grant id.
WinnerInv ==
  \A r \in Requests : req[r].pc = "codeCreate" =>
    /\ req[r].gid \in 1..nextGid
    /\ origin[req[r].gid] = NoCode
    /\ codes[req[r].code].st \in {"used", "purged"}
    /\ \A g \in GrantIds : origin[g] # req[r].code
    /\ \A q \in Requests \ {r} : req[q].pc = "codeCreate" =>
         req[q].gid # req[r].gid /\ req[q].code # req[r].code

\* Live grants, and requests on their way to a response, stay within an approval.
GrantInv ==
  \A g \in GrantIds : grants[g].live =>
    Approved(g, grants[g].user, grants[g].client, grants[g].scopes)

ResponseInv ==
  \A r \in Requests : req[r].pc \in RefreshPCs \union {"respond"} =>
    Approved(req[r].gid, req[r].user, req[r].client, req[r].scopes)

TokenInv ==
  \A t \in tokens : Approved(t.gid, t.user, t.holder, t.scopes)

\* The stored hash is the newest secret; rotations link neighbours.
ChainInv ==
  /\ \A g \in GrantIds : grants[g].live => grants[g].hash = minted[g]
  /\ \A x \in rotations : x.old > 0 /\ x.new = x.old + 1 /\ x.new <= minted[x.gid]
  /\ \A r \in Requests : req[r].pc \in RefreshPCs =>
       req[r].hash > 0 /\ req[r].hash <= minted[req[r].gid]
  /\ \A x \in held : x[2] <= minted[x[1]]
  /\ \A r \in Requests : req[r].pc = "respond" => req[r].hash <= minted[req[r].gid]

\* Nobody remembers a stamp from the future.
StampInv ==
  /\ \A t \in tokens : t.stamp <= stamp[t.user]
  /\ \A g \in GrantIds : grants[g].live => grants[g].stamp <= stamp[grants[g].user]
  /\ \A r \in Requests :
       req[r].pc \in RefreshPCs \union {"codeMark", "codeCreate", "respond"} =>
         req[r].stamp <= stamp[req[r].user]

\* What a request knew to be revoked when it began still is.
DeadInv ==
  \A r \in Requests :
    /\ req[r].pc = "codeUser" /\ req[r].dead => ~exists[req[r].user]
    /\ req[r].pc = "refreshUser" /\ req[r].dead =>
         ~exists[req[r].user] \/ req[r].stamp < stamp[req[r].user]
    /\ req[r].pc = "tokenGrant" /\ req[r].dead =>
         req[r].gid \in GrantIds /\ ~grants[req[r].gid].live /\ origin[req[r].gid] # NoCode
    /\ req[r].pc \in {"codeMark", "codeLost", "codeCreate", "refreshRotate", "respond",
                      "accepted"} => ~req[r].dead

\* A request that still holds the current secret read the clock after the last
\* rotation did.
ClockInv ==
  /\ \A g \in GrantIds : grants[g].live =>
       grants[g].exp <= now + RefreshTTL /\ grants[g].used <= now
  /\ \A r \in Requests :
       /\ req[r].at <= now
       /\ req[r].pc \in RefreshPCs /\ grants[req[r].gid].live
          /\ req[r].hash = grants[req[r].gid].hash =>
            /\ grants[req[r].gid].used <= req[r].at
            /\ grants[req[r].gid].exp <= req[r].at + RefreshTTL

IInv ==
  /\ TypeOK /\ CodesInv /\ OriginInv /\ ExchangeInv /\ WinnerInv
  /\ OneGrantPerCode /\ GrantInv /\ ResponseInv /\ TokenInv /\ ChainInv
  /\ StampInv /\ DeadInv /\ ClockInv
-----------------------------------------------------------------------------
(* Records: the provers handle an update of a typed record best when the     *)
(* null records stay folded.                                                 *)

LEMMA NullRecords ==
  /\ Idle \in Request /\ Idle.pc = "idle" /\ Idle.at = 0
  /\ NoGrant \in Grant /\ ~NoGrant.live
BY BoundsAssumption DEF Idle, Request, PCs, Secrets, NoGrant, Grant

LEMMA Purged ==
  ASSUME NEW k \in Code
  PROVE  LET p == [k EXCEPT !.st = "purged"]
         IN  /\ p \in Code /\ p.st = "purged"
             /\ p.user = k.user /\ p.client = k.client /\ p.scopes = k.scopes
BY DEF Code

\* A grant's row after a rotation.
RotatedRow(k, old, new, e, at) == [k EXCEPT !.prev = old, !.hash = new, !.exp = e, !.used = at]

-----------------------------------------------------------------------------
(* Steps that only take something away                                       *)

QuietPCs == {"idle", "delete", "replay"}

\* Requests turn back or go on to delete, rows disappear, users disappear.
QuietStep ==
  /\ \A r \in Requests :
       req'[r] = req[r] \/ (req'[r].pc \in QuietPCs /\ req'[r].at = 0)
  /\ \A g \in GrantIds : grants'[g] = grants[g] \/ ~grants'[g].live
  /\ \A c \in Codes :
       \/ codes'[c] = codes[c]
       \/ /\ codes[c].st \in {"valid", "used"}
          /\ codes'[c].st = "purged"
          /\ codes'[c].user = codes[c].user
          /\ codes'[c].client = codes[c].client
          /\ codes'[c].scopes = codes[c].scopes
  /\ \A u \in Users : exists'[u] => exists[u]
  /\ UNCHANGED <<now, stamp, tokens, held, nextGid, minted, origin, rotations>>

\* No part of the invariant needs anything that such a step removes.
LEMMA QuietPreserves == ASSUME IInv, TypeOK', QuietStep PROVE IInv'
<1> USE DEF QuietPCs, CodePCs, RefreshPCs
<1>1. CodesInv'
  BY DEF IInv, CodesInv, QuietStep
<1>2. OriginInv'
  BY DEF IInv, TypeOK, OriginInv, QuietStep
<1>3. ExchangeInv'
  BY DEF IInv, ExchangeInv, QuietStep
<1>4. WinnerInv'
  BY DEF IInv, WinnerInv, ExchangeInv, QuietStep
<1>5. OneGrantPerCode'
  BY DEF IInv, OneGrantPerCode, QuietStep
<1>6. GrantInv'
  BY DEF IInv, GrantInv, Approved, QuietStep
<1>7. ResponseInv'
  BY DEF IInv, ResponseInv, Approved, QuietStep
<1>8. TokenInv'
  BY DEF IInv, TokenInv, Approved, QuietStep
<1>9. ChainInv'
  BY DEF IInv, ChainInv, QuietStep
<1>10. StampInv'
  BY DEF IInv, StampInv, QuietStep
<1>11. DeadInv'
  BY DEF IInv, DeadInv, ExchangeInv, ResponseInv, Approved, QuietStep
<1>12. ClockInv'
  BY BoundsAssumption DEF IInv, TypeOK, ClockInv, ResponseInv, Approved, QuietStep
<1> QED
  BY <1>1, <1>2, <1>3, <1>4, <1>5, <1>6, <1>7, <1>8, <1>9, <1>10, <1>11, <1>12 DEF IInv

LEMMA DeleteUserPreserves == ASSUME IInv, NEW u \in Users, DeleteUser(u) PROVE IInv'
<1>1. \A c \in Codes : codes[c] \in Code
  BY DEF IInv, TypeOK
<1>2. codes' \in [Codes -> Code]
  BY <1>1, Purged DEF IInv, TypeOK, DeleteUser
<1>3. TypeOK'
  BY <1>2, NullRecords DEF IInv, TypeOK, DeleteUser
<1>4. QuietStep
  BY <1>1, Purged, NullRecords DEF IInv, TypeOK, DeleteUser, QuietStep, CodeRowExists
<1> QED
  BY <1>3, <1>4, QuietPreserves

LEMMA DeleteExpiredCodesPreserves ==
  ASSUME IInv, NEW cutoff \in 0..now, DeleteExpiredCodes(cutoff) PROVE IInv'
<1>1. \A c \in Codes : codes[c] \in Code
  BY DEF IInv, TypeOK
<1>2. codes' \in [Codes -> Code]
  BY <1>1, Purged DEF IInv, TypeOK, DeleteExpiredCodes
<1>3. TypeOK'
  BY <1>2 DEF IInv, TypeOK, DeleteExpiredCodes
<1>4. QuietStep
  BY <1>1, Purged DEF IInv, TypeOK, DeleteExpiredCodes, QuietStep, CodeRowExists
<1> QED
  BY <1>3, <1>4, QuietPreserves

LEMMA RowsPreserves ==
  ASSUME IInv,
         \/ \E u \in Users : ToggleLockout(u)
         \/ \E u \in Users, g \in GrantIds : RevokeGrant(u, g)
         \/ \E u \in Users, cl \in Clients : DeleteUserClientGrants(u, cl)
         \/ \E cutoff \in 0..now : DeleteExpiredGrants(cutoff)
  PROVE  IInv'
<1>1. TypeOK'
  BY NullRecords
     DEF IInv, TypeOK, ToggleLockout, RevokeGrant, DeleteUserClientGrants, DeleteExpiredGrants
<1>2. QuietStep
  BY NullRecords
     DEF IInv, TypeOK, ToggleLockout, RevokeGrant, DeleteUserClientGrants, DeleteExpiredGrants,
         QuietStep
<1> QED
  BY <1>1, <1>2, QuietPreserves

\* A request gives up, or has established which grant to delete.
LEMMA TurnBackPreserves ==
  ASSUME IInv, NEW r \in Requests, NEW q \in Request, q.pc \in QuietPCs, q.at = 0,
         req' = [req EXCEPT ![r] = q],
         UNCHANGED <<now, exists, locked, stamp, codes, grants, tokens, held,
                     nextGid, minted, origin, rotations, replayed>>
  PROVE  IInv'
<1>1. TypeOK'
  BY DEF IInv, TypeOK
<1>2. QuietStep
  BY DEF IInv, TypeOK, QuietStep
<1> QED
  BY <1>1, <1>2, QuietPreserves

LEMMA DeletionRequest ==
  ASSUME NEW pc \in {"delete", "replay"}, NEW g \in 0..MaxGrants
  PROVE  /\ LET q == [Idle EXCEPT !.pc = pc, !.gid = g]
            IN q \in Request /\ q.pc \in QuietPCs /\ q.at = 0
         /\ \A c \in Codes :
              LET q == [Idle EXCEPT !.pc = pc, !.code = c, !.gid = g]
              IN q \in Request /\ q.pc \in QuietPCs /\ q.at = 0
BY NullRecords DEF Request, PCs, QuietPCs

LEMMA DeleteGrantPreserves == ASSUME IInv, NEW r \in Requests, DeleteGrant(r) PROVE IInv'
<1>1. replayed' \in SUBSET (0..MaxGrants)
  BY DEF IInv, TypeOK, DeleteGrant, Request
<1>2. TypeOK'
  BY <1>1, NullRecords DEF IInv, TypeOK, DeleteGrant
<1>3. QuietStep
  BY NullRecords DEF IInv, TypeOK, DeleteGrant, QuietStep, QuietPCs
<1> QED
  BY <1>2, <1>3, QuietPreserves

LEMMA RevokePreserves ==
  ASSUME IInv, NEW r \in Requests,
         \/ Serve(r) \/ Abandon(r) \/ ExchangeLost(r)
         \/ \E g \in GrantIds, s \in 1..MaxSecrets, cl \in Clients : RevokeRefreshToken(r, g, s, cl)
         \/ \E t \in tokens, cl \in Clients : RevokeAccessToken(r, t, cl)
  PROVE  IInv'
<1>1. CASE Serve(r) \/ Abandon(r)
  BY <1>1, NullRecords, TurnBackPreserves DEF Serve, Abandon, QuietPCs
<1>2. CASE ExchangeLost(r)
  <2>1. req[r].code \in Codes /\ codes[req[r].code].gid \in 0..MaxGrants
    BY <1>2 DEF ExchangeLost, IInv, ExchangeInv, CodePCs, TypeOK, Code
  <2>2. CASE CodeRowExists(req[r].code)
    BY <1>2, <2>1, <2>2, DeletionRequest, TurnBackPreserves DEF ExchangeLost
  <2>3. CASE ~CodeRowExists(req[r].code)
    BY <1>2, <2>3, NullRecords, TurnBackPreserves DEF ExchangeLost, QuietPCs
  <2> QED
    BY <2>2, <2>3
<1>3. ASSUME NEW g \in GrantIds, NEW s \in 1..MaxSecrets, NEW cl \in Clients,
             RevokeRefreshToken(r, g, s, cl)
      PROVE  IInv'
  <2>1. g \in 0..MaxGrants
    BY BoundsAssumption DEF GrantIds
  <2> QED
    BY <1>3, <2>1, DeletionRequest, TurnBackPreserves DEF RevokeRefreshToken
<1>4. ASSUME NEW t \in tokens, NEW cl \in Clients, RevokeAccessToken(r, t, cl)
      PROVE  IInv'
  <2>1. t.gid \in 0..MaxGrants
    BY BoundsAssumption DEF GrantIds, IInv, TypeOK, AccessToken
  <2> QED
    BY <1>4, <2>1, DeletionRequest, TurnBackPreserves DEF RevokeAccessToken
<1> QED
  BY <1>1, <1>2, <1>3, <1>4

-----------------------------------------------------------------------------
(* The surroundings *)

LEMMA TickPreserves == ASSUME IInv, Tick PROVE IInv'
<1>1. TypeOK'
  BY DEF IInv, TypeOK, Tick
<1>2. CodesInv' /\ OriginInv' /\ ExchangeInv' /\ WinnerInv' /\ OneGrantPerCode'
  BY DEF IInv, Tick, CodesInv, OriginInv, ExchangeInv, WinnerInv, OneGrantPerCode
<1>3. GrantInv' /\ ResponseInv' /\ TokenInv'
  BY DEF IInv, Tick, GrantInv, ResponseInv, TokenInv, Approved
<1>4. ChainInv' /\ StampInv' /\ DeadInv'
  BY DEF IInv, Tick, ChainInv, StampInv, DeadInv
<1>5. ClockInv'
  BY BoundsAssumption DEF IInv, TypeOK, Tick, ClockInv, Grant, Request
<1> QED
  BY <1>1, <1>2, <1>3, <1>4, <1>5 DEF IInv

LEMMA IssueCodePreserves ==
  ASSUME IInv, NEW c \in Codes, NEW u \in Users, NEW cl \in Clients, NEW sc \in Approvals,
         issueCode(c, u, cl, sc)
  PROVE  IInv'
<1> DEFINE row == [st |-> "valid", user |-> u, client |-> cl, scopes |-> sc,
                   exp |-> now + CodeTTL, gid |-> 0]
<1>1. row \in Code /\ row.st = "valid" /\ row.user = u /\ row.client = cl
  BY BoundsAssumption, NullAssumption DEF IInv, TypeOK, Code
<1>2. codes[c].st = "unborn" /\ codes' = [codes EXCEPT ![c] = row]
  BY DEF issueCode
<1>3. UNCHANGED <<now, exists, locked, stamp, grants, req, tokens, held,
                  nextGid, minted, origin, rotations, replayed>>
  BY DEF issueCode
<1> HIDE DEF row
<1>4. TypeOK'
  BY <1>1, <1>2, <1>3 DEF IInv, TypeOK
<1>5. codes'[c] = row /\ \A d \in Codes : d # c => codes'[d] = codes[d]
  BY <1>2 DEF IInv, TypeOK
<1>6. CodesInv' /\ ExchangeInv'
  BY <1>1, <1>2, <1>3, <1>5 DEF IInv, CodesInv, ExchangeInv, CodePCs
<1>7. OriginInv'
  BY <1>2, <1>3, <1>5 DEF IInv, TypeOK, OriginInv
<1>8. WinnerInv'
  BY <1>2, <1>3, <1>5 DEF IInv, WinnerInv, ExchangeInv, CodePCs
<1>9. OneGrantPerCode' /\ ChainInv' /\ StampInv' /\ DeadInv' /\ ClockInv'
  BY <1>3 DEF IInv, OneGrantPerCode, ChainInv, StampInv, DeadInv, ClockInv
<1>10. \A g \in GrantIds : origin[g] # NoCode => origin[g] \in Codes /\ codes'[origin[g]] = codes[origin[g]]
  BY <1>2, <1>5 DEF IInv, TypeOK, OriginInv
<1>11. GrantInv' /\ ResponseInv' /\ TokenInv'
  BY <1>3, <1>10, NullAssumption DEF IInv, GrantInv, ResponseInv, TokenInv, Approved
<1> QED
  BY <1>4, <1>6, <1>7, <1>8, <1>9, <1>11 DEF IInv

LEMMA RotateStampPreserves == ASSUME IInv, NEW u \in Users, RotateStamp(u) PROVE IInv'
<1>1. /\ stamp' \in [Users -> Nat]
      /\ \A x \in Users : stamp'[x] >= stamp[x]
  BY DEF IInv, TypeOK, RotateStamp, NewStamp
<1>2. UNCHANGED <<now, exists, locked, codes, grants, req, tokens, held,
                  nextGid, minted, origin, rotations, replayed>>
  BY DEF RotateStamp
<1>3. TypeOK'
  BY <1>1, <1>2 DEF IInv, TypeOK
<1>4. CodesInv' /\ OriginInv' /\ ExchangeInv' /\ WinnerInv' /\ OneGrantPerCode'
  BY <1>2 DEF IInv, CodesInv, OriginInv, ExchangeInv, WinnerInv, OneGrantPerCode
<1>5. GrantInv' /\ ResponseInv' /\ TokenInv' /\ ChainInv' /\ ClockInv'
  BY <1>2 DEF IInv, GrantInv, ResponseInv, TokenInv, Approved, ChainInv, ClockInv
<1>6. StampInv'
  <2>1. \A t \in tokens : t.stamp \in Nat /\ t.user \in Users
    BY DEF IInv, TypeOK, AccessToken
  <2>2. \A g \in GrantIds : grants[g].live => grants[g].stamp \in Nat /\ grants[g].user \in Users
    BY DEF IInv, TypeOK, Grant, GrantInv, Approved
  <2>3. \A r \in Requests : req[r].pc \in RefreshPCs \union CodePCs \union {"respond"} =>
          req[r].stamp \in Nat /\ req[r].user \in Users
    BY DEF IInv, TypeOK, Request, ResponseInv, ExchangeInv, Approved
  <2>4. \A x \in Users : stamp[x] \in Nat /\ stamp'[x] \in Nat
    BY <1>1 DEF IInv, TypeOK
  <2> QED
    BY <1>1, <1>2, <2>1, <2>2, <2>3, <2>4 DEF IInv, StampInv, CodePCs
<1>7. DeadInv'
  <2>1. \A r \in Requests : req[r].pc = "refreshUser" => req[r].stamp \in Nat /\ req[r].user \in Users
    BY DEF IInv, TypeOK, Request, ResponseInv, Approved, RefreshPCs
  <2>2. \A x \in Users : stamp[x] \in Nat /\ stamp'[x] \in Nat
    BY <1>1 DEF IInv, TypeOK
  <2> QED
    BY <1>1, <1>2, <2>1, <2>2 DEF IInv, DeadInv
<1> QED
  BY <1>3, <1>4, <1>5, <1>6, <1>7 DEF IInv

-----------------------------------------------------------------------------
(* A request takes a step of its own *)

\* What the invariant asks of the record of one request, other than a winner's.
RequestOK(q) ==
  /\ q.pc # "codeCreate"
  /\ q.pc \in CodePCs =>
       /\ q.code \in Codes
       /\ codes[q.code].st # "unborn"
       /\ codes[q.code].user = q.user
       /\ codes[q.code].client = q.client
       /\ codes[q.code].scopes = q.scopes
       /\ q.user \in Users
       /\ q.client \in Clients
  /\ q.pc \in RefreshPCs \union {"respond"} =>
       Approved(q.gid, q.user, q.client, q.scopes) /\ q.hash <= minted[q.gid]
  /\ q.pc \in RefreshPCs => q.hash > 0
  /\ q.pc \in RefreshPCs \union {"codeMark", "respond"} => q.stamp <= stamp[q.user]
  /\ q.pc = "codeUser" /\ q.dead => ~exists[q.user]
  /\ q.pc = "refreshUser" /\ q.dead => ~exists[q.user] \/ q.stamp < stamp[q.user]
  /\ q.pc = "tokenGrant" /\ q.dead =>
       q.gid \in GrantIds /\ ~grants[q.gid].live /\ origin[q.gid] # NoCode
  /\ q.pc \in {"codeMark", "codeLost", "refreshRotate", "respond", "accepted"} => ~q.dead
  /\ q.at <= now
  /\ q.pc \in RefreshPCs /\ grants[q.gid].live /\ q.hash = grants[q.gid].hash =>
       grants[q.gid].used <= q.at /\ grants[q.gid].exp <= q.at + RefreshTTL

\* A step that changes one request's record and nothing else.
LEMMA ForwardPreserves ==
  ASSUME IInv, NEW r \in Requests, NEW q \in Request, RequestOK(q),
         req' = [req EXCEPT ![r] = q],
         UNCHANGED <<now, exists, locked, stamp, codes, grants, tokens, held,
                     nextGid, minted, origin, rotations, replayed>>
  PROVE  IInv'
<1>1. req'[r] = q /\ \A x \in Requests : x # r => req'[x] = req[x]
  BY DEF IInv, TypeOK
<1>2. TypeOK'
  BY DEF IInv, TypeOK
<1>3. CodesInv' /\ OriginInv' /\ OneGrantPerCode' /\ GrantInv' /\ TokenInv'
  BY DEF IInv, CodesInv, OriginInv, OneGrantPerCode, GrantInv, TokenInv, Approved
<1>4. ExchangeInv'
  BY <1>1 DEF IInv, ExchangeInv, RequestOK
<1>5. WinnerInv'
  BY <1>1 DEF IInv, WinnerInv, RequestOK
<1>6. ResponseInv'
  BY <1>1 DEF IInv, ResponseInv, RequestOK, Approved
<1>7. ChainInv'
  BY <1>1 DEF IInv, ChainInv, RequestOK
<1>8. StampInv'
  BY <1>1 DEF IInv, StampInv, RequestOK
<1>9. DeadInv'
  BY <1>1 DEF IInv, DeadInv, RequestOK
<1>10. ClockInv'
  BY <1>1 DEF IInv, ClockInv, RequestOK
<1> QED
  BY <1>2, <1>3, <1>4, <1>5, <1>6, <1>7, <1>8, <1>9, <1>10 DEF IInv

-----------------------------------------------------------------------------
(* exchangeCode *)

LEMMA ExchangeGetCodePreserves ==
  ASSUME IInv, NEW r \in Requests, NEW c \in Codes, NEW cl \in Clients, ExchangeGetCode(r, c, cl)
  PROVE  IInv'
<1> DEFINE q == [Idle EXCEPT !.pc = "codeUser", !.code = c, !.client = cl,
                   !.user = codes[c].user, !.scopes = codes[c].scopes,
                   !.at = now, !.dead = ~exists[codes[c].user]]
<1>1. codes[c] \in Code /\ now \in Nat
  BY DEF IInv, TypeOK
<1>2. UNCHANGED <<now, exists, locked, stamp, codes, grants, tokens, held,
                  nextGid, minted, origin, rotations, replayed>>
  BY DEF ExchangeGetCode
<1>3. CASE codes[c].st = "used" /\ req' = [req EXCEPT ![r] = [Idle EXCEPT !.pc = "replay",
                                             !.code = c, !.gid = codes[c].gid]]
  <2>1. codes[c].gid \in 0..MaxGrants
    BY <1>1 DEF Code
  <2> QED
    BY <1>2, <1>3, <2>1, DeletionRequest, TurnBackPreserves
<1>4. CASE codes[c].st = "valid" /\ codes[c].client = cl /\ req' = [req EXCEPT ![r] = q]
  <2>1. /\ q \in Request /\ q.pc = "codeUser" /\ q.code = c /\ q.client = cl
        /\ q.user = codes[c].user /\ q.scopes = codes[c].scopes /\ q.at = now
    BY <1>1, NullRecords DEF Request, PCs, Code
  <2>2. q.dead => ~exists[codes[c].user]
    BY NullRecords DEF Request
  <2> HIDE DEF q
  <2>3. RequestOK(q)
    BY <1>1, <1>4, <2>1, <2>2 DEF IInv, CodesInv, RequestOK, CodePCs, RefreshPCs
  <2> QED
    BY <1>2, <1>4, <2>1, <2>3, ForwardPreserves
<1> QED
  BY <1>3, <1>4 DEF ExchangeGetCode

LEMMA ExchangeFindUserPreserves ==
  ASSUME IInv, NEW r \in Requests, ExchangeFindUser(r) PROVE IInv'
<1> DEFINE q == [req[r] EXCEPT !.pc = "codeMark", !.stamp = stamp[req[r].user]]
<1>1. req[r] \in Request /\ req[r].pc = "codeUser" /\ req[r].user \in Users
  BY DEF IInv, TypeOK, ExchangeInv, CodePCs, ExchangeFindUser
<1>2. UNCHANGED <<now, exists, locked, stamp, codes, grants, tokens, held,
                  nextGid, minted, origin, rotations, replayed>>
  BY DEF ExchangeFindUser
<1>3. CASE ~UserAvailable(req[r].user)
  BY <1>2, <1>3, NullRecords, TurnBackPreserves DEF ExchangeFindUser, QuietPCs
<1>4. CASE UserAvailable(req[r].user)
  <2>1. req' = [req EXCEPT ![r] = q]
    BY <1>4 DEF ExchangeFindUser, IInv, TypeOK
  <2>2. stamp[req[r].user] \in Nat
    BY <1>1 DEF IInv, TypeOK
  <2>3. /\ q \in Request /\ q.pc = "codeMark" /\ q.stamp = stamp[req[r].user]
        /\ q.code = req[r].code /\ q.user = req[r].user /\ q.client = req[r].client
        /\ q.scopes = req[r].scopes /\ q.dead = req[r].dead /\ q.at = req[r].at
    BY <1>1, <2>2 DEF Request, PCs
  <2> HIDE DEF q
  <2>4. ~req[r].dead /\ req[r].at <= now
    BY <1>1, <1>4 DEF IInv, DeadInv, ClockInv, UserAvailable
  <2>5. RequestOK(q)
    BY <1>1, <2>2, <2>3, <2>4 DEF IInv, ExchangeInv, RequestOK, CodePCs, RefreshPCs
  <2> QED
    BY <1>2, <2>1, <2>3, <2>5, ForwardPreserves
<1> QED
  BY <1>3, <1>4

LEMMA MarkCodeUsedPreserves ==
  ASSUME IInv, NEW r \in Requests, MarkCodeUsed(r) PROVE IInv'
<1> DEFINE c == req[r].code
<1>1. req[r] \in Request /\ req[r].pc = "codeMark" /\ c \in Codes /\ codes[c] \in Code
  BY DEF IInv, TypeOK, ExchangeInv, CodePCs, MarkCodeUsed
<1>2. UNCHANGED <<now, exists, locked, stamp, grants, tokens, held, minted,
                  origin, rotations, replayed>>
  BY DEF MarkCodeUsed
<1>3. CASE ~MarkCodeUsedWins(c)
  <2> DEFINE q == [req[r] EXCEPT !.pc = "codeLost"]
  <2>1. req' = [req EXCEPT ![r] = q] /\ UNCHANGED <<codes, nextGid>>
    BY <1>3 DEF MarkCodeUsed, IInv, TypeOK
  <2>2. /\ q \in Request /\ q.pc = "codeLost"
        /\ q.code = req[r].code /\ q.user = req[r].user /\ q.client = req[r].client
        /\ q.scopes = req[r].scopes /\ q.dead = req[r].dead /\ q.at = req[r].at
    BY <1>1 DEF Request, PCs
  <2> HIDE DEF q
  <2>3. ~req[r].dead /\ req[r].at <= now
    BY <1>1 DEF IInv, DeadInv, ClockInv
  <2>4. RequestOK(q)
    BY <1>1, <2>2, <2>3 DEF IInv, ExchangeInv, RequestOK, CodePCs, RefreshPCs
  <2> QED
    BY <1>2, <2>1, <2>2, <2>4, ForwardPreserves
<1>4. CASE MarkCodeUsedWins(c)
  <2> DEFINE q == [req[r] EXCEPT !.pc = "codeCreate", !.gid = nextGid + 1]
             k == MarkedUsed(codes[c], nextGid + 1)
  <2>1. /\ codes[c].st = "valid" /\ nextGid < MaxGrants /\ nextGid' = nextGid + 1
        /\ codes' = [codes EXCEPT ![c] = k]
        /\ req' = [req EXCEPT ![r] = q]
    <3>1. codes[c].st = "valid" /\ nextGid < MaxGrants /\ nextGid' = nextGid + 1
      BY <1>4 DEF MarkCodeUsed, MarkCodeUsedWins
    <3>2. codes' = [codes EXCEPT ![c] = MarkedUsed(codes[c], nextGid + 1)]
      BY <1>1, <1>4, Zenon DEF MarkCodeUsed
    <3>3. req' = [req EXCEPT ![r] = [req[r] EXCEPT !.pc = "codeCreate", !.gid = nextGid + 1]]
      BY <1>1, <1>4, Zenon DEF MarkCodeUsed
    <3> QED
      BY <3>1, <3>2, <3>3
  <2>2. nextGid + 1 \in 0..MaxGrants /\ nextGid + 1 \in GrantIds /\ nextGid \in Nat
    BY <2>1, BoundsAssumption DEF IInv, TypeOK, GrantIds
  <2>3. /\ q \in Request /\ q.pc = "codeCreate" /\ q.gid = nextGid + 1
        /\ q.code = req[r].code /\ q.user = req[r].user /\ q.client = req[r].client
        /\ q.stamp = req[r].stamp
        /\ q.scopes = req[r].scopes /\ q.dead = req[r].dead /\ q.at = req[r].at
    BY <1>1, <2>2 DEF Request, PCs
  <2>4. /\ k \in Code /\ k.st = "used" /\ k.gid = nextGid + 1
        /\ k.user = codes[c].user /\ k.client = codes[c].client /\ k.scopes = codes[c].scopes
    BY <1>1, <2>2 DEF Code, MarkedUsed
  <2> HIDE DEF q, k
  <2>5. req'[r] = q /\ \A x \in Requests : x # r => req'[x] = req[x]
    BY <2>1 DEF IInv, TypeOK
  <2>6. codes'[c] = k /\ \A d \in Codes : d # c => codes'[d] = codes[d]
    BY <2>1, <1>1 DEF IInv, TypeOK
  <2>7. TypeOK'
    <3>1. \A d \in Codes : codes'[d].st = "used" => codes'[d].gid \in 1..nextGid'
      BY <2>1, <2>2, <2>4, <2>6 DEF IInv, TypeOK
    <3> QED
      BY <1>2, <2>1, <2>2, <2>3, <2>4, <1>1, <3>1 DEF IInv, TypeOK
  <2>8. CodesInv' /\ OneGrantPerCode'
    BY <1>1, <1>2, <2>1, <2>4, <2>6 DEF IInv, CodesInv, OneGrantPerCode
  <2>9. OriginInv'
    BY <1>2, <2>1, <2>2, <2>4, <2>6 DEF IInv, TypeOK, OriginInv, GrantIds
  <2>10. ExchangeInv'
    BY <1>1, <1>2, <2>1, <2>3, <2>4, <2>5, <2>6 DEF IInv, ExchangeInv, CodePCs
  <2>11. origin[nextGid + 1] = NoCode /\ \A g \in GrantIds : origin[g] # c
    <3>1. \A g \in GrantIds : origin[g] # NoCode => g <= nextGid /\ codes[origin[g]].st # "valid"
      BY DEF IInv, OriginInv
    <3> QED
      BY <1>1, <2>1, <2>2, <3>1, NullAssumption
  <2>12. \A x \in Requests : x # r /\ req[x].pc = "codeCreate" =>
           req[x].gid # nextGid + 1 /\ req[x].code # c
    BY <2>1, <2>2 DEF IInv, WinnerInv
  <2>13. WinnerInv'
    <3>1. \A x \in Requests : x # r /\ req[x].pc = "codeCreate" =>
            /\ req[x].gid \in 1..(nextGid + 1) /\ origin[req[x].gid] = NoCode
            /\ codes'[req[x].code].st \in {"used", "purged"}
      BY <2>2, <2>6, <2>12 DEF IInv, WinnerInv, ExchangeInv, CodePCs
    <3>2. q.gid \in 1..(nextGid + 1)
      BY <2>2, <2>3
    <3> QED
      BY <1>1, <1>2, <2>1, <2>3, <2>4, <2>5, <2>6, <2>11, <2>12, <3>1, <3>2
         DEF IInv, WinnerInv, CodePCs
  <2>14. \A d \in Codes : /\ codes'[d].user = codes[d].user
                          /\ codes'[d].client = codes[d].client
                          /\ codes'[d].scopes = codes[d].scopes
    BY <1>1, <2>4, <2>6
  <2>15. GrantInv' /\ TokenInv' /\ ResponseInv'
    BY <1>2, <2>3, <2>5, <2>14 DEF IInv, GrantInv, TokenInv, ResponseInv, Approved, RefreshPCs
  <2>16. ChainInv' /\ StampInv'
    BY <1>1, <1>2, <2>3, <2>5 DEF IInv, ChainInv, StampInv, RefreshPCs
  <2>17. DeadInv' /\ ClockInv'
    BY <1>1, <1>2, <2>3, <2>5 DEF IInv, DeadInv, ClockInv, RefreshPCs
  <2> QED
    BY <2>7, <2>8, <2>9, <2>10, <2>13, <2>15, <2>16, <2>17 DEF IInv
<1> QED
  BY <1>3, <1>4

LEMMA CreateGrantPreserves ==
  ASSUME IInv, NEW r \in Requests, CreateGrant(r) PROVE IInv'
<1> DEFINE gid == req[r].gid
           first == IF issuesRefresh(req[r].client, req[r].scopes) THEN 1 ELSE 0
           row == [live |-> TRUE, user |-> req[r].user, client |-> req[r].client,
                   scopes |-> req[r].scopes, stamp |-> req[r].stamp, hash |-> first,
                   prev |-> 0, exp |-> req[r].at + RefreshTTL, used |-> 0]
           q == [req[r] EXCEPT !.pc = "respond", !.hash = first]
<1>1. /\ req[r] \in Request /\ req[r].pc = "codeCreate" /\ req[r].code \in Codes
      /\ req[r].user \in Users /\ req[r].client \in Clients
      /\ gid \in GrantIds /\ gid <= nextGid /\ origin[gid] = NoCode
      /\ first \in Secrets /\ first \in Nat /\ minted[gid] = 0
  <2>1. gid \in 1..nextGid /\ origin[gid] = NoCode
    BY DEF CreateGrant, IInv, WinnerInv
  <2>2. gid \in GrantIds /\ gid <= nextGid
    BY <2>1, BoundsAssumption DEF IInv, TypeOK, GrantIds
  <2>3. first \in Secrets /\ first \in Nat
    BY BoundsAssumption DEF CreateGrant, Secrets
  <2> HIDE DEF first
  <2> QED
    BY <2>1, <2>2, <2>3 DEF CreateGrant, IInv, TypeOK, OriginInv, ExchangeInv, CodePCs
<1>2. /\ UNCHANGED <<now, exists, locked, stamp, codes, tokens, held, nextGid,
                     rotations, replayed>>
      /\ grants' = [grants EXCEPT ![gid] = row]
      /\ minted' = [minted EXCEPT ![gid] = first]
      /\ origin' = [origin EXCEPT ![gid] = req[r].code]
      /\ req' = [req EXCEPT ![r] = q]
  BY DEF CreateGrant, IInv, TypeOK
<1> HIDE DEF first
<1>3. /\ row \in Grant /\ row.live /\ row.user = req[r].user /\ row.client = req[r].client
      /\ row.scopes = req[r].scopes /\ row.stamp = req[r].stamp /\ row.hash = first
      /\ row.exp = req[r].at + RefreshTTL /\ row.used = 0
  BY <1>1, BoundsAssumption DEF Grant, Request, Secrets
<1>4. /\ q \in Request /\ q.pc = "respond" /\ q.hash = first /\ q.gid = gid
      /\ q.user = req[r].user /\ q.client = req[r].client /\ q.scopes = req[r].scopes
      /\ q.stamp = req[r].stamp /\ q.dead = req[r].dead /\ q.at = req[r].at
  BY <1>1 DEF Request, PCs
<1> HIDE DEF row, q
<1>5. req'[r] = q /\ \A x \in Requests : x # r => req'[x] = req[x]
  BY <1>2 DEF IInv, TypeOK
<1>6. /\ grants'[gid] = row /\ minted'[gid] = first /\ origin'[gid] = req[r].code
      /\ \A g \in GrantIds : g # gid =>
           grants'[g] = grants[g] /\ minted'[g] = minted[g] /\ origin'[g] = origin[g]
  BY <1>1, <1>2 DEF IInv, TypeOK
<1> HIDE DEF gid
<1>7. TypeOK'
  BY <1>1, <1>2, <1>3, <1>4 DEF IInv, TypeOK
<1>8. CodesInv' /\ ExchangeInv'
  BY <1>2, <1>4, <1>5 DEF IInv, CodesInv, ExchangeInv, CodePCs
<1>9. req[r].code # NoCode /\ codes[req[r].code].st \in {"used", "purged"}
      /\ \A g \in GrantIds : origin[g] # req[r].code
  BY <1>1, NullAssumption DEF IInv, WinnerInv
<1>10. OriginInv'
  BY <1>1, <1>2, <1>3, <1>6, <1>9 DEF IInv, OriginInv
<1>11. OneGrantPerCode'
  BY <1>6, <1>9 DEF IInv, OneGrantPerCode
<1>12. WinnerInv'
  <2>1. \A x \in Requests : x # r /\ req[x].pc = "codeCreate" =>
          req[x].gid # gid /\ req[x].code # req[r].code /\ req[x].gid \in GrantIds
    BY <1>1, BoundsAssumption DEF IInv, WinnerInv, TypeOK, GrantIds, gid
  <2> QED
    BY <1>1, <1>2, <1>4, <1>5, <1>6, <2>1 DEF IInv, WinnerInv
<1>13. \A g \in GrantIds : origin[g] \in Codes => g # gid
  BY <1>1, NullAssumption
<1>14. ResponseInv' /\ TokenInv' /\ GrantInv'
  <2>1. ResponseInv'
    BY <1>1, <1>2, <1>4, <1>5, <1>6, <1>13 DEF IInv, ResponseInv, ExchangeInv, Approved, CodePCs
  <2>2. TokenInv'
    BY <1>2, <1>6, <1>13 DEF IInv, TokenInv, Approved
  <2>3. GrantInv'
    BY <1>1, <1>2, <1>3, <1>6, <1>13 DEF IInv, GrantInv, ExchangeInv, Approved, CodePCs
  <2> QED
    BY <2>1, <2>2, <2>3
<1>15. ChainInv'
  <2>1. \A g \in GrantIds : minted'[g] >= minted[g] /\ minted[g] \in Nat /\ minted'[g] \in Nat
    BY <1>1, <1>6, <1>7, BoundsAssumption DEF IInv, TypeOK, Secrets
  <2>2. \A g \in GrantIds : grants'[g].live => grants'[g].hash = minted'[g]
    BY <1>3, <1>6 DEF IInv, ChainInv
  <2>3. \A x \in rotations : x.gid \in GrantIds /\ x.new \in Nat
    BY BoundsAssumption DEF IInv, TypeOK, Secrets
  <2>4. \A x \in held : x[1] \in GrantIds /\ x[2] \in Nat
    BY BoundsAssumption DEF IInv, TypeOK, Secrets
  <2>5. \A x \in Requests : req[x].pc \in RefreshPCs \union {"respond"} =>
          req[x].gid \in GrantIds /\ req[x].hash \in Nat
    BY BoundsAssumption DEF IInv, TypeOK, Secrets, Request, ResponseInv, Approved
  <2>6. first <= minted'[gid]
    BY <1>1, <1>6
  <2> QED
    BY <1>2, <1>4, <1>5, <2>1, <2>2, <2>3, <2>4, <2>5, <2>6 DEF IInv, ChainInv, RefreshPCs
<1>16. StampInv'
  BY <1>1, <1>2, <1>3, <1>4, <1>5, <1>6 DEF IInv, StampInv, RefreshPCs
<1>17. DeadInv'
  BY <1>1, <1>2, <1>4, <1>5, <1>6 DEF IInv, DeadInv
<1>18. ClockInv'
  <2>1. req[r].at <= now /\ req[r].at \in Nat /\ now \in Nat
    BY <1>1 DEF IInv, TypeOK, ClockInv, Request
  <2>2. \A g \in GrantIds : grants'[g].live =>
          grants'[g].exp <= now + RefreshTTL /\ grants'[g].used <= now
    BY <1>3, <1>6, <2>1, BoundsAssumption DEF IInv, ClockInv
  <2>3. \A x \in Requests : x # r /\ req[x].pc \in RefreshPCs => req[x].gid \in GrantIds /\ req[x].gid # gid
    BY <1>13 DEF IInv, ResponseInv, Approved
  <2> QED
    BY <1>2, <1>4, <1>5, <1>6, <2>1, <2>2, <2>3 DEF IInv, ClockInv, RefreshPCs
<1> QED
  BY <1>7, <1>8, <1>10, <1>11, <1>12, <1>14, <1>15, <1>16, <1>17, <1>18 DEF IInv

-----------------------------------------------------------------------------
(* refreshGrant *)

LEMMA RefreshGetGrantPreserves ==
  ASSUME IInv, NEW r \in Requests, NEW g \in GrantIds, NEW s \in 1..MaxSecrets, NEW cl \in Clients,
         RefreshGetGrant(r, g, s, cl)
  PROVE  IInv'
<1> DEFINE q == [Idle EXCEPT !.pc = "refreshUser", !.client = cl,
                   !.gid = g, !.user = grants[g].user, !.stamp = grants[g].stamp,
                   !.hash = s, !.scopes = grants[g].scopes, !.at = now,
                   !.dead = \/ ~exists[grants[g].user]
                            \/ stamp[grants[g].user] # grants[g].stamp]
<1>1. /\ grants[g] \in Grant /\ grants[g].live /\ grants[g].client = cl /\ now \in Nat
      /\ g \in 0..MaxGrants /\ s \in Secrets /\ s > 0 /\ s \in Nat
  BY BoundsAssumption DEF IInv, TypeOK, RefreshGetGrant, RefreshClientMatches, GrantIds, Secrets
<1>2. UNCHANGED <<now, exists, locked, stamp, codes, grants, tokens, held,
                  nextGid, minted, origin, rotations, replayed>>
  BY DEF RefreshGetGrant
<1>3. CASE req' = [req EXCEPT ![r] = [Idle EXCEPT !.pc = "delete", !.gid = g]]
  BY <1>1, <1>2, <1>3, DeletionRequest, TurnBackPreserves
<1>4. CASE s = grants[g].hash /\ req' = [req EXCEPT ![r] = q]
  <2>1. /\ q \in Request /\ q.pc = "refreshUser" /\ q.client = cl /\ q.gid = g
        /\ q.user = grants[g].user /\ q.stamp = grants[g].stamp /\ q.hash = s
        /\ q.scopes = grants[g].scopes /\ q.at = now
    BY <1>1, NullRecords DEF Request, PCs, Grant
  <2>0. q.dead => ~exists[grants[g].user] \/ stamp[grants[g].user] # grants[g].stamp
    BY NullRecords DEF Request
  <2> HIDE DEF q
  <2>2. /\ Approved(g, grants[g].user, cl, grants[g].scopes)
        /\ grants[g].stamp <= stamp[grants[g].user] /\ s <= minted[g]
        /\ grants[g].stamp \in Nat /\ stamp[grants[g].user] \in Nat
    <3>1. Approved(g, grants[g].user, cl, grants[g].scopes)
      BY <1>1 DEF IInv, GrantInv
    <3>2. s = minted[g]
      BY <1>1, <1>4 DEF IInv, ChainInv
    <3> QED
      BY <1>1, <3>1, <3>2 DEF IInv, TypeOK, StampInv, Grant, Approved
  <2>3. grants[g].used <= now /\ grants[g].exp <= now + RefreshTTL
    BY <1>1 DEF IInv, ClockInv
  <2>4. Approved(q.gid, q.user, q.client, q.scopes)
    BY <2>1, <2>2
  <2>5. q.dead => ~exists[q.user] \/ q.stamp < stamp[q.user]
    BY <2>0, <2>1, <2>2
  <2>6. RequestOK(q)
    BY <1>1, <2>1, <2>2, <2>3, <2>4, <2>5 DEF RequestOK, CodePCs, RefreshPCs
  <2> QED
    BY <1>2, <1>4, <2>1, <2>6, ForwardPreserves
<1> QED
  BY <1>3, <1>4 DEF RefreshGetGrant

LEMMA RefreshFindUserPreserves ==
  ASSUME IInv, NEW r \in Requests, RefreshFindUser(r) PROVE IInv'
<1>1. /\ req[r] \in Request /\ req[r].pc = "refreshUser" /\ req[r].gid \in 0..MaxGrants
      /\ Approved(req[r].gid, req[r].user, req[r].client, req[r].scopes)
  BY DEF IInv, TypeOK, RefreshFindUser, ResponseInv, RefreshPCs, Request
<1>2. UNCHANGED <<now, exists, locked, stamp, codes, grants, tokens, held,
                  nextGid, minted, origin, rotations, replayed>>
  BY DEF RefreshFindUser
<1>3. CASE ~UserAvailable(req[r].user)
  BY <1>2, <1>3, NullRecords, TurnBackPreserves DEF RefreshFindUser, QuietPCs
<1>4. CASE UserAvailable(req[r].user) /\ ~StampMatches(req[r].user, req[r].stamp)
  BY <1>1, <1>2, <1>4, DeletionRequest, TurnBackPreserves DEF RefreshFindUser
<1>5. CASE UserAvailable(req[r].user) /\ StampMatches(req[r].user, req[r].stamp)
  <2>1. PICK want \in Narrowed(req[r].scopes) :
          req' = [req EXCEPT ![r] = [req[r] EXCEPT !.pc = "refreshRotate", !.scopes = want,
                                                   !.stamp = stamp[req[r].user]]]
    BY <1>5 DEF RefreshFindUser, IInv, TypeOK
  <2> DEFINE q == [req[r] EXCEPT !.pc = "refreshRotate", !.scopes = want,
                                 !.stamp = stamp[req[r].user]]
  <2>2. want \subseteq req[r].scopes /\ req[r].scopes \subseteq Scopes
    BY <1>1 DEF Narrowed, Request
  <2>3. stamp[req[r].user] \in Nat
    BY <1>1 DEF IInv, TypeOK, Approved
  <2>4. /\ q \in Request /\ q.pc = "refreshRotate" /\ q.scopes = want
        /\ q.stamp = stamp[req[r].user] /\ q.user = req[r].user /\ q.client = req[r].client
        /\ q.gid = req[r].gid /\ q.hash = req[r].hash /\ q.at = req[r].at /\ q.dead = req[r].dead
    BY <1>1, <2>2, <2>3 DEF Request, PCs
  <2>5. req' = [req EXCEPT ![r] = q]
    BY <2>1
  <2> HIDE DEF q
  <2>6. ~req[r].dead
    BY <1>1, <1>5, <2>3 DEF IInv, DeadInv, UserAvailable, StampMatches
  <2>7. Approved(q.gid, q.user, q.client, q.scopes)
    BY <1>1, <2>2, <2>4 DEF Approved
  <2>8. RequestOK(q)
    BY <1>1, <2>3, <2>4, <2>6, <2>7 DEF IInv, RequestOK, ChainInv, ClockInv, CodePCs, RefreshPCs
  <2> QED
    BY <1>2, <2>4, <2>5, <2>8, ForwardPreserves
<1> QED
  BY <1>3, <1>4, <1>5

LEMMA RotateGrantPreserves ==
  ASSUME IInv, NEW r \in Requests, RotateGrant(r) PROVE IInv'
<1> DEFINE g == req[r].gid
           new == minted[g] + 1
           e == req[r].at + RefreshTTL
           row == RotatedRow(grants[g], req[r].hash, new, e, req[r].at)
           q == [req[r] EXCEPT !.pc = "respond", !.hash = new]
           rot == [gid |-> g, old |-> req[r].hash, new |-> new]
<1>1. /\ req[r] \in Request /\ req[r].pc = "refreshRotate" /\ g \in GrantIds
      /\ Approved(g, req[r].user, req[r].client, req[r].scopes)
      /\ grants[g] \in Grant /\ minted[g] \in Nat /\ req[r].hash \in Nat
      /\ req[r].at \in Nat /\ req[r].at <= now /\ now \in Nat
  BY BoundsAssumption
     DEF RotateGrant, IInv, TypeOK, ResponseInv, RefreshPCs, Approved, ClockInv, Request, Secrets
<1>2. UNCHANGED <<now, exists, locked, stamp, codes, tokens, held, nextGid, origin, replayed>>
  BY DEF RotateGrant
<1>3. CASE ~RotateGrantWins(g, req[r].hash)
  BY <1>2, <1>3, NullRecords, TurnBackPreserves DEF RotateGrant, QuietPCs
<1>4. CASE RotateGrantWins(g, req[r].hash)
  <2>1. /\ grants[g].live /\ grants[g].hash = req[r].hash /\ new <= MaxSecrets
        /\ minted' = [minted EXCEPT ![g] = new]
        /\ grants' = [grants EXCEPT ![g] = row]
        /\ rotations' = rotations \union {rot}
        /\ req' = [req EXCEPT ![r] = q]
    BY <1>4 DEF RotateGrant, RotateGrantWins, RotatedRow, IInv, TypeOK
  <2>2. new \in Secrets /\ new \in Nat /\ new = minted[g] + 1 /\ req[r].hash = minted[g]
        /\ req[r].hash > 0 /\ req[r].hash \in Secrets
    BY <1>1, <2>1, BoundsAssumption DEF Secrets, IInv, ChainInv, RefreshPCs
  <2> HIDE DEF new
  <2>3. /\ row \in Grant /\ row.live /\ row.user = grants[g].user /\ row.client = grants[g].client
        /\ row.scopes = grants[g].scopes /\ row.stamp = grants[g].stamp /\ row.hash = new
        /\ row.exp = e /\ row.used = req[r].at
    <3>1. e \in Nat
      BY <1>1, BoundsAssumption
    <3>2. /\ grants[g] \in Grant /\ grants[g].live /\ req[r].hash \in Secrets
          /\ new \in Secrets /\ req[r].at \in Nat
      BY <1>1, <2>1, <2>2
    <3> HIDE DEF g, e
    <3>3. row \in Grant
      BY <3>1, <3>2 DEF Grant, RotatedRow
    <3>4. row.live
      BY <3>1, <3>2 DEF Grant, RotatedRow
    <3>5. row.user = grants[g].user /\ row.client = grants[g].client /\ row.scopes = grants[g].scopes
      BY <3>1, <3>2 DEF Grant, RotatedRow
    <3>6. row.stamp = grants[g].stamp /\ row.hash = new /\ row.exp = e
      BY <3>1, <3>2 DEF Grant, RotatedRow
    <3>7. row.used = req[r].at
      BY <3>1, <3>2 DEF Grant, RotatedRow
    <3> QED
      BY <3>3, <3>4, <3>5, <3>6, <3>7
  <2>4. /\ q \in Request /\ q.pc = "respond" /\ q.hash = new /\ q.gid = g
        /\ q.user = req[r].user /\ q.client = req[r].client /\ q.scopes = req[r].scopes
        /\ q.stamp = req[r].stamp /\ q.dead = req[r].dead /\ q.at = req[r].at
    BY <1>1, <2>2 DEF Request, PCs
  <2>5. /\ rot \in [gid: GrantIds, old: Secrets, new: Secrets]
        /\ rot.gid = g /\ rot.old = minted[g] /\ rot.new = new
    BY <1>1, <2>2
  <2> HIDE DEF row, q, rot
  <2>6. req'[r] = q /\ \A x \in Requests : x # r => req'[x] = req[x]
    BY <2>1 DEF IInv, TypeOK
  <2>7. /\ grants'[g] = row /\ minted'[g] = new
        /\ \A h \in GrantIds : h # g => grants'[h] = grants[h] /\ minted'[h] = minted[h]
    BY <1>1, <2>1 DEF IInv, TypeOK
  <2>8. TypeOK'
    BY <1>1, <1>2, <2>1, <2>2, <2>3, <2>4, <2>5 DEF IInv, TypeOK
  <2> HIDE DEF g
  <2>9. CodesInv' /\ ExchangeInv' /\ OneGrantPerCode'
    BY <1>2, <2>4, <2>6 DEF IInv, CodesInv, ExchangeInv, OneGrantPerCode, CodePCs
  <2>10. OriginInv' /\ WinnerInv'
    BY <1>1, <1>2, <2>1, <2>4, <2>6, <2>7 DEF IInv, OriginInv, WinnerInv
  <2>11. ResponseInv' /\ TokenInv' /\ GrantInv'
    <3>1. Approved(q.gid, q.user, q.client, q.scopes)
      BY <1>1, <2>4
    <3>2. ResponseInv'
      BY <1>2, <2>4, <2>6, <3>1 DEF IInv, ResponseInv, Approved
    <3>3. TokenInv'
      BY <1>2 DEF IInv, TokenInv, Approved
    <3>4. GrantInv'
      BY <1>1, <1>2, <2>1, <2>3, <2>7 DEF IInv, GrantInv, Approved
    <3> QED
      BY <3>2, <3>3, <3>4
  <2>12. ChainInv'
    <3>1. \A h \in GrantIds : minted'[h] >= minted[h] /\ minted[h] \in Nat /\ minted'[h] \in Nat
      BY <1>1, <2>2, <2>7, <2>8, BoundsAssumption DEF IInv, TypeOK, Secrets
    <3>2. \A h \in GrantIds : grants'[h].live => grants'[h].hash = minted'[h]
      BY <2>3, <2>7 DEF IInv, ChainInv
    <3>3. \A x \in rotations : x.gid \in GrantIds /\ x.new \in Nat
      BY BoundsAssumption DEF IInv, TypeOK, Secrets
    <3>4. \A x \in rotations' : x.old > 0 /\ x.new = x.old + 1 /\ x.new <= minted'[x.gid]
      <4>1. ASSUME NEW x \in rotations
            PROVE  x.old > 0 /\ x.new = x.old + 1 /\ x.new <= minted'[x.gid]
        BY <3>1, <3>3 DEF IInv, ChainInv
      <4>2. rot.old > 0 /\ rot.new = rot.old + 1 /\ rot.new <= minted'[rot.gid]
        BY <1>1, <2>2, <2>5, <2>7
      <4> QED
        BY <2>1, <4>1, <4>2
    <3>5. \A x \in held : x[1] \in GrantIds /\ x[2] \in Nat
      BY BoundsAssumption DEF IInv, TypeOK, Secrets
    <3>6. \A x \in Requests : req[x].pc \in RefreshPCs \union {"respond"} =>
            req[x].gid \in GrantIds /\ req[x].hash \in Nat
      BY BoundsAssumption DEF IInv, TypeOK, Secrets, Request, ResponseInv, Approved
    <3>7. new <= minted'[g]
      BY <2>2, <2>7
    <3> QED
      BY <1>2, <2>4, <2>6, <3>1, <3>2, <3>4, <3>5, <3>6, <3>7 DEF IInv, ChainInv, RefreshPCs
  <2>13. StampInv'
    BY <1>1, <1>2, <2>1, <2>3, <2>4, <2>6, <2>7 DEF IInv, StampInv, RefreshPCs
  <2>14. DeadInv'
    BY <1>1, <1>2, <2>1, <2>4, <2>6, <2>7 DEF IInv, DeadInv
  <2>15. ClockInv'
    <3>1. \A h \in GrantIds : grants'[h].live =>
            grants'[h].exp <= now + RefreshTTL /\ grants'[h].used <= now
      BY <1>1, <2>3, <2>7, BoundsAssumption DEF IInv, ClockInv
    <3>2. \A x \in Requests : x # r /\ req[x].pc \in RefreshPCs =>
            /\ req[x].gid \in GrantIds
            /\ req[x].gid = g => req[x].hash # new
      <4>1. \A x \in Requests : req[x].pc \in RefreshPCs =>
              req[x].gid \in GrantIds /\ req[x].hash <= minted[req[x].gid] /\ req[x].hash \in Nat
        BY BoundsAssumption DEF IInv, TypeOK, Secrets, Request, ResponseInv, Approved, ChainInv
      <4> QED
        BY <1>1, <2>2, <4>1
    <3> QED
      BY <1>1, <1>2, <2>3, <2>4, <2>6, <2>7, <3>1, <3>2 DEF IInv, ClockInv, RefreshPCs
  <2> QED
    BY <2>8, <2>9, <2>10, <2>11, <2>12, <2>13, <2>14, <2>15 DEF IInv
<1> QED
  BY <1>3, <1>4

-----------------------------------------------------------------------------
(* The response, and the validation of an access token *)

LEMMA TokenResponsePreserves ==
  ASSUME IInv, NEW r \in Requests, tokenResponse(r) PROVE IInv'
<1> DEFINE t == [gid |-> req[r].gid, user |-> req[r].user, holder |-> req[r].client,
                 stamp |-> req[r].stamp, scopes |-> req[r].scopes, exp |-> now + AccessTTL]
           h == IF req[r].hash = 0 THEN {} ELSE {<<req[r].gid, req[r].hash>>}
<1>1. /\ req[r] \in Request /\ req[r].pc = "respond" /\ req[r].gid \in GrantIds
      /\ Approved(req[r].gid, req[r].user, req[r].client, req[r].scopes)
      /\ req[r].stamp <= stamp[req[r].user] /\ req[r].hash <= minted[req[r].gid]
  BY DEF tokenResponse, IInv, TypeOK, ResponseInv, Approved, StampInv, ChainInv
<1>2. /\ UNCHANGED <<now, exists, locked, stamp, codes, grants, nextGid, minted,
                     origin, rotations, replayed>>
      /\ tokens' = tokens \union {t}
      /\ held' = held \union h
      /\ req' = [req EXCEPT ![r] = Idle]
  BY DEF tokenResponse
<1>3. /\ t \in AccessToken /\ t.gid = req[r].gid /\ t.user = req[r].user
      /\ t.holder = req[r].client /\ t.stamp = req[r].stamp /\ t.scopes = req[r].scopes
  BY <1>1, BoundsAssumption DEF AccessToken, Approved, Request, IInv, TypeOK
<1>4. \A x \in h : x \in GrantIds \X Secrets /\ x[2] <= minted[x[1]]
  BY <1>1 DEF Request
<1> HIDE DEF t, h
<1>5. req'[r] = Idle /\ \A x \in Requests : x # r => req'[x] = req[x]
  BY <1>2 DEF IInv, TypeOK
<1>6. TypeOK'
  BY <1>2, <1>3, <1>4, NullRecords DEF IInv, TypeOK
<1>7. CodesInv' /\ OriginInv' /\ OneGrantPerCode' /\ GrantInv'
  BY <1>2 DEF IInv, CodesInv, OriginInv, OneGrantPerCode, GrantInv, Approved
<1>8. ExchangeInv' /\ WinnerInv'
  BY <1>2, <1>5, NullRecords DEF IInv, ExchangeInv, WinnerInv, CodePCs
<1>9. ResponseInv'
  BY <1>2, <1>5, NullRecords DEF IInv, ResponseInv, Approved, RefreshPCs
<1>10. TokenInv'
  <2>1. Approved(t.gid, t.user, t.holder, t.scopes)
    BY <1>1, <1>3
  <2> QED
    BY <1>2, <2>1 DEF IInv, TokenInv, Approved
<1>11. ChainInv'
  BY <1>2, <1>4, <1>5, NullRecords DEF IInv, ChainInv, RefreshPCs
<1>12. StampInv'
  BY <1>1, <1>2, <1>3, <1>5, NullRecords DEF IInv, StampInv, RefreshPCs
<1>13. DeadInv'
  BY <1>2, <1>5, NullRecords DEF IInv, DeadInv
<1>14. ClockInv'
  BY <1>2, <1>5, NullRecords DEF IInv, TypeOK, ClockInv, RefreshPCs
<1> QED
  BY <1>6, <1>7, <1>8, <1>9, <1>10, <1>11, <1>12, <1>13, <1>14 DEF IInv

LEMMA ValidateFindUserPreserves ==
  ASSUME IInv, NEW r \in Requests, NEW t \in tokens, ValidateFindUser(r, t) PROVE IInv'
<1> DEFINE q == [Idle EXCEPT !.pc = "tokenGrant", !.gid = t.gid, !.user = t.user,
                             !.stamp = t.stamp, !.dead = TokenRevoked(t)]
<1>1. /\ t \in AccessToken /\ t.gid \in GrantIds /\ origin[t.gid] # NoCode
      /\ t.gid \in 0..MaxGrants /\ t.user \in Users /\ t.stamp \in Nat
  BY BoundsAssumption, NullAssumption
     DEF IInv, TypeOK, TokenInv, Approved, AccessToken, GrantIds
<1>2. /\ UNCHANGED <<now, exists, locked, stamp, codes, grants, tokens, held,
                     nextGid, minted, origin, rotations, replayed>>
      /\ req' = [req EXCEPT ![r] = q]
  BY DEF ValidateFindUser
<1>3. TokenRevoked(t) \in BOOLEAN
  BY DEF TokenRevoked
<1>4. /\ q \in Request /\ q.pc = "tokenGrant" /\ q.gid = t.gid /\ q.at = 0
      /\ q.dead = TokenRevoked(t)
  BY <1>1, <1>3, NullRecords DEF Request, PCs
<1> HIDE DEF q
<1>5. TokenRevoked(t) => ~grants[t.gid].live
  BY DEF ValidateFindUser, UserAvailable, TokenRevoked
<1>6. RequestOK(q)
  BY <1>1, <1>4, <1>5 DEF RequestOK, CodePCs, RefreshPCs, IInv, TypeOK
<1> QED
  BY <1>2, <1>4, <1>6, ForwardPreserves

LEMMA ValidateGetGrantPreserves ==
  ASSUME IInv, NEW r \in Requests, ValidateGetGrant(r) PROVE IInv'
<1> DEFINE q == [req[r] EXCEPT !.pc = "accepted"]
<1>1. req[r] \in Request /\ req[r].pc = "tokenGrant" /\ req[r].at <= now
  BY DEF IInv, TypeOK, ClockInv, ValidateGetGrant
<1>2. UNCHANGED <<now, exists, locked, stamp, codes, grants, tokens, held,
                  nextGid, minted, origin, rotations, replayed>>
  BY DEF ValidateGetGrant
<1>3. CASE ~GrantStands(req[r].gid, req[r].user)
  BY <1>2, <1>3, NullRecords, TurnBackPreserves DEF ValidateGetGrant, QuietPCs
<1>4. CASE GrantStands(req[r].gid, req[r].user)
  <2>1. req' = [req EXCEPT ![r] = q]
    BY <1>4 DEF ValidateGetGrant, IInv, TypeOK
  <2>2. q \in Request /\ q.pc = "accepted" /\ q.at = req[r].at /\ q.dead = req[r].dead
    BY <1>1 DEF Request, PCs
  <2>3. ~req[r].dead
    BY <1>1, <1>4 DEF IInv, DeadInv, GrantStands
  <2> HIDE DEF q
  <2>4. RequestOK(q)
    BY <1>1, <2>2, <2>3 DEF RequestOK, CodePCs, RefreshPCs
  <2> QED
    BY <1>2, <2>1, <2>2, <2>4, ForwardPreserves
<1> QED
  BY <1>3, <1>4

-----------------------------------------------------------------------------
(* The theorems *)

LEMMA InitInv == Init => IInv
<1> SUFFICES ASSUME Init PROVE IInv
  OBVIOUS
<1>1. NoCodeRow \in Code /\ NoCodeRow.st = "unborn"
  BY BoundsAssumption DEF NoCodeRow, Code
<1>2. TypeOK
  BY <1>1, NullRecords, BoundsAssumption DEF Init, TypeOK, Secrets
<1>3. CodesInv /\ ExchangeInv /\ WinnerInv
  BY <1>1, NullRecords DEF Init, CodesInv, ExchangeInv, WinnerInv, CodePCs
<1>4. OriginInv /\ OneGrantPerCode /\ GrantInv /\ ResponseInv /\ TokenInv
  BY NullRecords
     DEF Init, OriginInv, OneGrantPerCode, GrantInv, ResponseInv, TokenInv, RefreshPCs
<1>5. ChainInv /\ StampInv /\ DeadInv
  BY NullRecords DEF Init, ChainInv, StampInv, DeadInv, RefreshPCs
<1>6. ClockInv
  BY NullRecords DEF Init, ClockInv, RefreshPCs
<1> QED
  BY <1>2, <1>3, <1>4, <1>5, <1>6 DEF IInv

LEMMA HandlerInv == ASSUME IInv, NEW r \in Requests, Handler(r) PROVE IInv'
<1>1. ASSUME NEW c \in Codes, NEW cl \in Clients, ExchangeGetCode(r, c, cl) PROVE IInv'
  BY <1>1, ExchangeGetCodePreserves
<1>2. CASE ExchangeFindUser(r)
  BY <1>2, ExchangeFindUserPreserves
<1>3. CASE MarkCodeUsed(r)
  BY <1>3, MarkCodeUsedPreserves
<1>4. CASE CreateGrant(r)
  BY <1>4, CreateGrantPreserves
<1>5. ASSUME NEW g \in GrantIds, NEW s \in 1..MaxSecrets, NEW cl \in Clients,
             RefreshGetGrant(r, g, s, cl)
      PROVE  IInv'
  BY <1>5, RefreshGetGrantPreserves
<1>6. CASE RefreshFindUser(r)
  BY <1>6, RefreshFindUserPreserves
<1>7. CASE RotateGrant(r)
  BY <1>7, RotateGrantPreserves
<1>8. CASE tokenResponse(r)
  BY <1>8, TokenResponsePreserves
<1>9. CASE DeleteGrant(r)
  BY <1>9, DeleteGrantPreserves
<1>10. ASSUME NEW t \in tokens, ValidateFindUser(r, t) PROVE IInv'
  BY <1>10, ValidateFindUserPreserves
<1>11. CASE ValidateGetGrant(r)
  BY <1>11, ValidateGetGrantPreserves
<1>12. CASE \/ Serve(r) \/ Abandon(r) \/ ExchangeLost(r)
            \/ \E g \in GrantIds, s \in 1..MaxSecrets, cl \in Clients :
                 RevokeRefreshToken(r, g, s, cl)
            \/ \E t \in tokens, cl \in Clients : RevokeAccessToken(r, t, cl)
  BY <1>12, RevokePreserves
<1> QED
  BY <1>1, <1>2, <1>3, <1>4, <1>5, <1>6, <1>7, <1>8, <1>9, <1>10, <1>11, <1>12 DEF Handler

LEMMA NextInv == IInv /\ [Next]_vars => IInv'
<1> SUFFICES ASSUME IInv, [Next]_vars PROVE IInv'
  OBVIOUS
<1>1. CASE UNCHANGED vars
  <2>1. QuietStep /\ TypeOK'
    BY <1>1 DEF vars, QuietStep, IInv, TypeOK
  <2> QED
    BY <2>1, QuietPreserves
<1>2. CASE Tick
  BY <1>2, TickPreserves
<1>3. CASE Account
  <2>1. ASSUME NEW c \in Codes, NEW u \in Users, NEW cl \in Clients, NEW sc \in Approvals,
               issueCode(c, u, cl, sc)
        PROVE  IInv'
    BY <2>1, IssueCodePreserves
  <2>2. ASSUME NEW u \in Users, RotateStamp(u) PROVE IInv'
    BY <2>2, RotateStampPreserves
  <2>3. ASSUME NEW u \in Users, ToggleLockout(u) PROVE IInv'
    BY <2>3, RowsPreserves
  <2>4. ASSUME NEW u \in Users, DeleteUser(u) PROVE IInv'
    BY <2>4, DeleteUserPreserves
  <2> QED
    BY <1>3, <2>1, <2>2, <2>3, <2>4 DEF Account
<1>4. CASE \E r \in Requests : Handler(r)
  BY <1>4, HandlerInv
<1>5. CASE Management
  <2>1. ASSUME NEW cutoff \in 0..now, DeleteExpiredCodes(cutoff) PROVE IInv'
    BY <2>1, DeleteExpiredCodesPreserves
  <2> QED
    BY <1>5, <2>1, RowsPreserves DEF Management
<1> QED
  BY <1>1, <1>2, <1>3, <1>4, <1>5 DEF Next

\* The inductive invariant holds in every reachable state of the token server.
THEOREM Invariant == Spec => []IInv
  BY InitInv, NextInv, PTL DEF Spec

\* Every row, every request's locals and every history stay well typed, for any
\* number of requests in exchangeCode, refreshGrant and ValidateResourceToken.
THEOREM TypeCorrect == Spec => []TypeOK
<1>1. IInv => TypeOK
  BY DEF IInv
<1> QED
  BY <1>1, Invariant, PTL

\* exchangeCode opens at most one grant per authorization code, however many
\* requests present it at once.
THEOREM CodeOpensOneGrant == Spec => []OneGrantPerCode
<1>1. IInv => OneGrantPerCode
  BY DEF IInv
<1> QED
  BY <1>1, Invariant, PTL

\* refreshGrant never answers two requests that present the same refresh token.
THEOREM RefreshNeverForks == Spec => []NoFork
<1>1. IInv => NoFork
  <2> SUFFICES ASSUME IInv, NEW x \in rotations, NEW y \in rotations,
                      x.gid = y.gid, x.old = y.old
               PROVE  x = y
    BY DEF NoFork
  <2>1. x.new = y.new
    BY DEF IInv, ChainInv
  <2>2. x \in [gid: GrantIds, old: Secrets, new: Secrets]
        /\ y \in [gid: GrantIds, old: Secrets, new: Secrets]
    BY DEF IInv, TypeOK
  <2> QED
    BY <2>1, <2>2
<1> QED
  BY <1>1, Invariant, PTL

\* An access token always names the user, the client and no more than the
\* scopes of the approval its grant was opened from.
THEOREM TokensTraceToApprovals == Spec => []TokenProvenance
<1>1. IInv => TokenProvenance
  BY NullAssumption DEF IInv, TokenInv, TokenProvenance, Approved
<1> QED
  BY <1>1, Invariant, PTL

\* A request that began with something revoked is never served, although the
\* user and the grant are read in separate store calls.
THEOREM RevokedIsNotServed == Spec => []NoServiceAfterRevocation
<1>1. IInv => NoServiceAfterRevocation
  BY DEF IInv, DeadInv, NoServiceAfterRevocation
<1> QED
  BY <1>1, Invariant, PTL

-----------------------------------------------------------------------------
(* What one step does to the grants table                                    *)

\* Rows stay or disappear, a winner inserts its fresh row, or a refresh
\* rotates the row whose hash it still knows.
RowsStayOrEnd ==
  /\ \A g \in GrantIds : grants'[g] = grants[g] \/ ~grants'[g].live
  /\ UNCHANGED <<minted, origin, rotations>>

Opens(r, g) ==
  LET first == IF issuesRefresh(req[r].client, req[r].scopes) THEN 1 ELSE 0
  IN  /\ g \in GrantIds /\ origin[g] = NoCode /\ ~grants[g].live
      /\ req[r].code \in Codes /\ \A h \in GrantIds : origin[h] # req[r].code
      /\ grants'[g].live
      /\ \A h \in GrantIds \ {g} : grants'[h] = grants[h]
      /\ minted' = [minted EXCEPT ![g] = first]
      /\ origin' = [origin EXCEPT ![g] = req[r].code]
      /\ rotations' = rotations

Rotates(r, g) ==
  /\ g \in GrantIds /\ origin[g] # NoCode /\ grants[g].live
  /\ grants'[g].live
  /\ minted[g] > 0 /\ req[r].hash = minted[g]
  /\ grants'[g].exp = req[r].at + RefreshTTL /\ grants'[g].used = req[r].at
  /\ grants[g].exp <= req[r].at + RefreshTTL /\ grants[g].used <= req[r].at
  /\ \A h \in GrantIds \ {g} : grants'[h] = grants[h]
  /\ minted' = [minted EXCEPT ![g] = minted[g] + 1]
  /\ rotations' = rotations \union {[gid |-> g, old |-> minted[g], new |-> minted[g] + 1]}
  /\ origin' = origin

LEMMA GrantSteps ==
  ASSUME IInv, Next
  PROVE  \/ RowsStayOrEnd
         \/ \E r \in Requests : Opens(r, req[r].gid)
         \/ \E r \in Requests : Rotates(r, req[r].gid)
<1>1. CASE Tick \/ Account
  BY <1>1, NullRecords
     DEF Tick, Account, issueCode, RotateStamp, ToggleLockout, DeleteUser, RowsStayOrEnd, IInv, TypeOK
<1>2. CASE Management
  BY <1>2, NullRecords
     DEF Management, RevokeGrant, DeleteUserClientGrants, DeleteExpiredCodes,
         DeleteExpiredGrants, RowsStayOrEnd, IInv, TypeOK
<1>3. ASSUME NEW r \in Requests, Handler(r)
      PROVE  RowsStayOrEnd \/ Opens(r, req[r].gid) \/ Rotates(r, req[r].gid)
  <2>1. CASE CreateGrant(r)
    <3>1. /\ req[r].pc = "codeCreate" /\ req[r].code \in Codes
          /\ req[r].gid \in GrantIds /\ origin[req[r].gid] = NoCode
          /\ \A h \in GrantIds : origin[h] # req[r].code
      BY <2>1, BoundsAssumption
         DEF CreateGrant, IInv, TypeOK, WinnerInv, ExchangeInv, CodePCs, GrantIds
    <3> QED
      BY <2>1, <3>1 DEF CreateGrant, Opens, IInv, TypeOK, OriginInv
  <2>2. CASE RotateGrant(r)
    <3>1. /\ req[r].pc = "refreshRotate" /\ req[r].gid \in GrantIds
          /\ origin[req[r].gid] # NoCode
      BY <2>2, NullAssumption DEF RotateGrant, IInv, ResponseInv, Approved, RefreshPCs
    <3>2. CASE RotateGrantWins(req[r].gid, req[r].hash)
      <4>1. req[r].hash = minted[req[r].gid] /\ minted[req[r].gid] > 0 /\ grants[req[r].gid].live
        BY <3>1, <3>2 DEF RotateGrantWins, IInv, ChainInv, RefreshPCs
      <4>2. /\ grants[req[r].gid].exp <= req[r].at + RefreshTTL
            /\ grants[req[r].gid].used <= req[r].at
        BY <3>1, <3>2, <4>1 DEF RotateGrantWins, IInv, ClockInv, RefreshPCs
      <4>3. grants[req[r].gid] \in Grant
        BY <3>1 DEF IInv, TypeOK
      <4>4. /\ grants' = [grants EXCEPT ![req[r].gid] = RotatedRow(grants[req[r].gid], req[r].hash,
                           minted[req[r].gid] + 1, req[r].at + RefreshTTL, req[r].at)]
            /\ minted' = [minted EXCEPT ![req[r].gid] = minted[req[r].gid] + 1]
            /\ rotations' = rotations \union {[gid |-> req[r].gid, old |-> req[r].hash,
                                               new |-> minted[req[r].gid] + 1]}
            /\ origin' = origin
        BY <2>2, <3>2 DEF RotateGrant, RotatedRow, IInv, TypeOK
      <4>5. /\ grants'[req[r].gid] = RotatedRow(grants[req[r].gid], req[r].hash,
                           minted[req[r].gid] + 1, req[r].at + RefreshTTL, req[r].at)
            /\ \A h \in GrantIds \ {req[r].gid} : grants'[h] = grants[h]
        BY <3>1, <4>4 DEF IInv, TypeOK
      <4>6. /\ grants'[req[r].gid].live /\ grants'[req[r].gid].exp = req[r].at + RefreshTTL
            /\ grants'[req[r].gid].used = req[r].at
        BY <4>1, <4>3, <4>5 DEF Grant, RotatedRow
      <4> QED
        BY <3>1, <4>1, <4>2, <4>4, <4>5, <4>6 DEF Rotates
    <3>3. CASE ~RotateGrantWins(req[r].gid, req[r].hash)
      BY <2>2, <3>3 DEF RotateGrant, RowsStayOrEnd
    <3> QED
      BY <3>2, <3>3
  <2>3. CASE DeleteGrant(r)
    BY <2>3, NullRecords DEF DeleteGrant, RowsStayOrEnd, IInv, TypeOK
  <2>4. CASE ~CreateGrant(r) /\ ~RotateGrant(r) /\ ~DeleteGrant(r)
    BY <1>3, <2>4
       DEF Handler, ExchangeGetCode, ExchangeFindUser, MarkCodeUsed, ExchangeLost, RefreshGetGrant,
           RefreshFindUser, tokenResponse, RevokeRefreshToken, RevokeAccessToken,
           ValidateFindUser, ValidateGetGrant, Serve, Abandon, RowsStayOrEnd
  <2> QED
    BY <2>1, <2>2, <2>3, <2>4
<1> QED
  BY <1>1, <1>2, <1>3 DEF Next

\* No rotation moves a live grant's expiry or its time of use backwards.
THEOREM LifetimesSlideForward == Spec => LifetimeSlidesForward
<1>1. ASSUME IInv, Next, NEW g \in GrantIds, grants[g].live, grants'[g].live
      PROVE  grants'[g].exp >= grants[g].exp /\ grants'[g].used >= grants[g].used
  <2>1. grants[g].exp \in Nat /\ grants[g].used \in Nat
    BY <1>1 DEF IInv, TypeOK, Grant
  <2>2. CASE RowsStayOrEnd
    BY <1>1, <2>1, <2>2 DEF RowsStayOrEnd
  <2>3. ASSUME NEW r \in Requests, Opens(r, req[r].gid)
        PROVE  grants'[g].exp >= grants[g].exp /\ grants'[g].used >= grants[g].used
    BY <1>1, <2>1, <2>3 DEF Opens
  <2>4. ASSUME NEW r \in Requests, Rotates(r, req[r].gid)
        PROVE  grants'[g].exp >= grants[g].exp /\ grants'[g].used >= grants[g].used
    <3>1. req[r].at \in Nat /\ req[r].at + RefreshTTL \in Nat
      BY BoundsAssumption, <1>1 DEF IInv, TypeOK, Request
    <3> QED
      BY <1>1, <2>1, <2>4, <3>1 DEF Rotates
  <2> QED
    BY <1>1, <2>2, <2>3, <2>4, GrantSteps
<1>2. IInv /\ [Next]_vars =>
        [\A g \in GrantIds : grants[g].live /\ grants[g]'.live =>
           grants[g]'.exp >= grants[g].exp /\ grants[g]'.used >= grants[g].used]_vars
  BY <1>1
<1> QED
  BY <1>2, Invariant, PTL DEF Spec, LifetimeSlidesForward

\* Only the account's own operations touch the account.
LEMMA AccountSteps ==
  ASSUME Next
  PROVE  \/ UNCHANGED <<exists, stamp>>
         \/ \E u \in Users : RotateStamp(u)
         \/ \E u \in Users : DeleteUser(u)
<1>1. CASE Tick \/ Account
  BY <1>1 DEF Tick, Account, issueCode, ToggleLockout
<1>2. CASE Management
  BY <1>2 DEF Management, RevokeGrant, DeleteUserClientGrants, DeleteExpiredCodes, DeleteExpiredGrants
<1>3. ASSUME NEW r \in Requests, Handler(r) PROVE UNCHANGED <<exists, stamp>>
  BY <1>3 DEF Handler, ExchangeGetCode, ExchangeFindUser, MarkCodeUsed, ExchangeLost,
     CreateGrant, RefreshGetGrant, RefreshFindUser, RotateGrant, tokenResponse, DeleteGrant,
     RevokeRefreshToken, RevokeAccessToken, ValidateFindUser, ValidateGetGrant, Serve, Abandon
<1> QED
  BY <1>1, <1>2, <1>3 DEF Next

\* An access token whose user, stamp or grant is gone never validates again.
THEOREM RevocationsArePermanent == Spec => RevocationPermanent
<1>1. ASSUME IInv, Next, NEW t \in tokens, TokenRevoked(t)
      PROVE  TokenRevoked(t)'
  <2>1. /\ t.user \in Users /\ t.gid \in GrantIds /\ origin[t.gid] # NoCode
        /\ t.stamp \in Nat /\ t.stamp <= stamp[t.user] /\ stamp[t.user] \in Nat
    BY <1>1, NullAssumption DEF IInv, TypeOK, TokenInv, Approved, StampInv, AccessToken
  <2>2. ~exists[t.user] => ~exists'[t.user]
    BY <1>1, <2>1, AccountSteps DEF IInv, TypeOK, DeleteUser, RotateStamp
  <2>3. stamp'[t.user] >= stamp[t.user] /\ stamp'[t.user] \in Nat
    BY <1>1, <2>1, AccountSteps DEF IInv, TypeOK, DeleteUser, RotateStamp, NewStamp
  <2>4. ~grants[t.gid].live => ~grants'[t.gid].live
    BY <1>1, <2>1, GrantSteps DEF RowsStayOrEnd, Opens, Rotates
  <2> QED
    BY <1>1, <2>1, <2>2, <2>3, <2>4 DEF TokenRevoked
<1>2. IInv /\ [Next]_vars => [\A t \in tokens : TokenRevoked(t) => TokenRevoked(t)']_vars
  BY <1>1
<1> QED
  BY <1>2, Invariant, PTL DEF Spec, RevocationPermanent

-----------------------------------------------------------------------------
(* The refinement of GrantLifecycle: the initial states map to its initial *)
(* state and each step to a step of it or to a stutter.                    *)

\* The values the refinement mapping gives to the abstract variables.
LifeOf(g)     == IF grants[g].live THEN "live" ELSE IF origin[g] = NoCode THEN "absent" ELSE "gone"
Life          == [g \in GrantIds |-> LifeOf(g)]
Spent         == {origin[g] : g \in GrantIds} \ {NoCode}
Consumed(g)   == {x.old : x \in {y \in rotations : y.gid = g}}
ConsumedLinks == [g \in GrantIds |-> Consumed(g)]

\* Rows that stay or disappear: every row that was live and is no more ends.
LEMMA EndStep ==
  ASSUME IInv, RowsStayOrEnd
  PROVE  \E S \in SUBSET GrantIds : Lifecycle!End(S)
<1>0. PICK S \in SUBSET GrantIds : S = {g \in GrantIds : grants[g].live /\ ~grants'[g].live}
  OBVIOUS
<1>1. \A g \in S : LifeOf(g) = "live"
  BY <1>0 DEF LifeOf
<1>2. ASSUME NEW g \in GrantIds PROVE LifeOf(g)' = IF g \in S THEN "gone" ELSE LifeOf(g)
  BY <1>0 DEF LifeOf, RowsStayOrEnd, IInv, OriginInv
<1>3. Life' = [g \in GrantIds |-> IF g \in S THEN "gone" ELSE Life[g]]
  BY <1>2 DEF Life
<1>4. UNCHANGED <<Spent, minted, ConsumedLinks>>
  BY DEF RowsStayOrEnd, Spent, ConsumedLinks, Consumed
<1>5. Lifecycle!End(S)
  BY <1>1, <1>3, <1>4 DEF Lifecycle!End, Life, LifeOf, Spent, ConsumedLinks, Consumed
<1> QED
  BY <1>5

\* A winner's insertion: its code was not spent and its grant was absent.
LEMMA RedeemStep ==
  ASSUME IInv, NEW r \in Requests, Opens(r, req[r].gid)
  PROVE  \E c \in Codes, g \in GrantIds, first \in {0, 1} : Lifecycle!Redeem(c, g, first)
<1>0. PICK g \in GrantIds, c \in Codes, first \in {0, 1} :
        /\ g = req[r].gid /\ c = req[r].code
        /\ first = IF issuesRefresh(req[r].client, req[r].scopes) THEN 1 ELSE 0
  BY DEF Opens
<1>1. /\ g \in GrantIds /\ c \in Codes /\ first \in {0, 1}
      /\ origin[g] = NoCode /\ ~grants[g].live /\ grants'[g].live
      /\ \A h \in GrantIds : origin[h] # c
      /\ \A h \in GrantIds \ {g} : grants'[h] = grants[h]
      /\ minted' = [minted EXCEPT ![g] = first]
      /\ origin' = [origin EXCEPT ![g] = c]
      /\ rotations' = rotations
  BY <1>0 DEF Opens
<1>2. origin'[g] = c /\ \A h \in GrantIds : h # g => origin'[h] = origin[h]
  BY <1>1 DEF IInv, TypeOK
<1>3. c \notin Spent /\ Spent' = Spent \union {c}
  BY <1>1, <1>2, NullAssumption DEF Spent
<1>4. Life[g] = "absent" /\ Life' = [Life EXCEPT ![g] = "live"]
  <2>1. \A h \in GrantIds : LifeOf(h)' = IF h = g THEN "live" ELSE LifeOf(h)
    BY <1>1, <1>2 DEF LifeOf
  <2> QED
    BY <1>1, <2>1 DEF Life, LifeOf
<1>5. ConsumedLinks' = ConsumedLinks
  BY <1>1 DEF ConsumedLinks, Consumed
<1>6. Lifecycle!Redeem(c, g, first)
  BY <1>1, <1>3, <1>4, <1>5 DEF Lifecycle!Redeem, Life, LifeOf, Spent, ConsumedLinks, Consumed
<1> QED
  BY <1>6

\* A rotation: it consumes the newest link, which no earlier rotation consumed.
LEMMA RotateStep ==
  ASSUME IInv, NEW r \in Requests, Rotates(r, req[r].gid)
  PROVE  \E g \in GrantIds : Lifecycle!Rotate(g)
<1>0. PICK g \in GrantIds : g = req[r].gid
  BY DEF Rotates
<1> DEFINE rot == [gid |-> g, old |-> minted[g], new |-> minted[g] + 1]
<1>1. /\ g \in GrantIds /\ grants[g].live /\ grants'[g].live
      /\ minted[g] > 0 /\ origin' = origin
      /\ \A h \in GrantIds \ {g} : grants'[h] = grants[h]
      /\ minted' = [minted EXCEPT ![g] = minted[g] + 1]
      /\ rotations' = rotations \union {rot}
  BY <1>0 DEF Rotates
<1>2. rot.gid = g /\ rot.old = minted[g]
  OBVIOUS
<1> HIDE DEF rot
<1>3. Spent' = Spent
  BY <1>1 DEF Spent
<1>4. Life[g] = "live" /\ Life' = Life
  <2>1. \A h \in GrantIds : LifeOf(h)' = LifeOf(h)
    BY <1>1 DEF LifeOf
  <2> QED
    BY <1>1, <2>1 DEF Life, LifeOf
<1>5. minted[g] \notin Consumed(g)
  <2>1. \A x \in rotations : x.old < minted[x.gid]
    <3>1. \A x \in rotations : x.old \in Nat /\ x.gid \in GrantIds /\ minted[x.gid] \in Nat
      BY BoundsAssumption DEF IInv, TypeOK, Secrets
    <3> QED
      BY <3>1 DEF IInv, ChainInv
  <2>2. minted[g] \in Nat
    BY <1>1, BoundsAssumption DEF IInv, TypeOK, Secrets
  <2> QED
    BY <2>1, <2>2 DEF Consumed
<1>6. ConsumedLinks' = [ConsumedLinks EXCEPT ![g] = Consumed(g) \union {minted[g]}]
  <2>1. \A h \in GrantIds : Consumed(h)' = IF h = g THEN Consumed(g) \union {minted[g]} ELSE Consumed(h)
    BY <1>1, <1>2 DEF Consumed
  <2> QED
    BY <1>1, <2>1 DEF ConsumedLinks
<1>7. Lifecycle!Rotate(g)
  BY <1>1, <1>3, <1>4, <1>5, <1>6 DEF Lifecycle!Rotate, Life, LifeOf, Spent, ConsumedLinks, Consumed
<1> QED
  BY <1>7

\* The store calls of exchangeCode, refreshGrant, RevokeHandler and the purges,
\* interleaved in any way, never show more than the grant life cycle: one grant
\* per code, one chain of refresh tokens per grant, and no grant after its end.
THEOREM ImplementsLifecycle == Spec => LifecycleSpec
<1>1. Init => Lifecycle!LifeInit
  BY NullRecords DEF Init, Lifecycle!LifeInit
<1>2. IInv /\ [Next]_vars => [Lifecycle!LifeNext]_(Lifecycle!lifeVars)
  <2> SUFFICES ASSUME IInv, [Next]_vars
               PROVE  Lifecycle!LifeNext \/ UNCHANGED Lifecycle!lifeVars
    OBVIOUS
  <2>1. CASE UNCHANGED vars
    BY <2>1 DEF vars, Lifecycle!lifeVars
  <2>2. CASE Next
    BY <2>2, GrantSteps, EndStep, RedeemStep, RotateStep DEF Lifecycle!LifeNext
  <2> QED
    BY <2>1, <2>2
<1> QED
  BY <1>1, <1>2, Invariant, PTL DEF Spec, LifecycleSpec, Lifecycle!LifeSpec
=============================================================================
