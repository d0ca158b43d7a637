---------------------------- MODULE OAuthConsent ----------------------------
(***************************************************************************)
(* The authorization endpoint (oauth/authorize.go) and RevokeClient        *)
(* (oauth/server.go) over the remembered consents.                         *)
(*                                                                         *)
(* A GET that a remembered consent covers is answered with a code at once; *)
(* otherwise the user is shown a form, and the POST that approves it reads *)
(* the consent, adds the scopes, writes it back and creates a code.        *)
(* RevokeClient deletes the grants and then the consent.  The steps of     *)
(* several requests interleave at every store call.                        *)
(*                                                                         *)
(* The parameters that identify a request are the client and the scopes;   *)
(* redirect URI, PKCE challenge, state and resource are bound in the same  *)
(* way, by the form's token, and only refuse.  So does a lockout.          *)
(***************************************************************************)
EXTENDS Integers

CONSTANTS ConsentRequests,  \* concurrent requests (goroutines)
          Users, Clients, Scopes,
          AskedScopes, \* the sets of scopes that clients ask for
          MaxCodes,    \* bound on the codes that are issued
          NoUser, NoClientId

ASSUME ConsentAssumption ==
  /\ AskedScopes \subseteq SUBSET Scopes
  /\ MaxCodes \in Nat
  /\ NoUser \notin Users /\ NoClientId \notin Clients

VARIABLES
  accounts,      \* the users that exist
  consents,      \* identity_oauth_consents, by user and client
  forms,         \* the consent forms on users' screens, with their tokens
  openCodes,     \* identity_oauth_codes: the ones not redeemed yet
  issued,        \* how many codes have been issued
  connected,     \* the users and clients with a grant
  flow,          \* flow[r]: where request r is, and what it remembers
  standing,      \* history: what the user approved since the last disconnection
  disconnected   \* history: disconnected, and nothing approved since

consentVars == <<accounts, consents, forms, openCodes, issued, connected, flow, standing, disconnected>>

Pairs == Users \X Clients

Consent == [row: BOOLEAN, scopes: SUBSET Scopes]
NoConsent == [row |-> FALSE, scopes |-> {}]

Form == [user: Users, client: Clients, scopes: AskedScopes]
Code == [id: 1..MaxCodes, user: Users, client: Clients, scopes: AskedScopes]

PCs == {"idle", "consult", "merge", "save", "issue", "forget"}

\* merged: the scopes saveConsent is about to write.
Flow == [pc: PCs, user: Users \union {NoUser}, client: Clients \union {NoClientId},
            scopes: SUBSET Scopes, merged: SUBSET Scopes]
NoFlow == [pc |-> "idle", user |-> NoUser, client |-> NoClientId, scopes |-> {}, merged |-> {}]

PairOf(q) == <<q.user, q.client>>

ConsentInit ==
  /\ accounts = Users
  /\ consents = [p \in Pairs |-> NoConsent]
  /\ forms = {}
  /\ openCodes = {}
  /\ issued = 0
  /\ connected = {}
  /\ flow = [r \in ConsentRequests |-> NoFlow]
  /\ standing = [p \in Pairs |-> NoConsent]
  /\ disconnected = [p \in Pairs |-> FALSE]

-----------------------------------------------------------------------------
(* The surroundings *)

\* The cascade takes codes, consents and grants along.
DeleteUser(u) ==
  /\ u \in accounts
  /\ accounts' = accounts \ {u}
  /\ consents' = [p \in Pairs |-> IF p[1] = u THEN NoConsent ELSE consents[p]]
  /\ openCodes' = {c \in openCodes : c.user # u}
  /\ connected' = {p \in connected : p[1] # u}
  /\ UNCHANGED <<forms, issued, flow, standing, disconnected>>

\* A form grows older than csrfMaxAge.
ExpireForm(f) ==
  /\ f \in forms
  /\ forms' = forms \ {f}
  /\ UNCHANGED <<accounts, consents, openCodes, issued, connected, flow, standing, disconnected>>

\* A request is cancelled, its process dies, or a store call fails.
AbandonFlow(r) ==
  /\ flow[r].pc # "idle"
  /\ flow' = [flow EXCEPT ![r] = NoFlow]
  /\ UNCHANGED <<accounts, consents, forms, openCodes, issued, connected, standing, disconnected>>

\* The exchange that spends a code, from MarkCodeUsed to CreateGrant in one step:
\* afterwards the code is gone and the pair has a grant.  The races and the
\* checks of exchangeCode are in OAuthGrants.
exchangeCode(c) ==
  /\ c \in openCodes
  /\ c.user \in accounts
  /\ openCodes' = openCodes \ {c}
  /\ connected' = connected \union {PairOf(c)}
  /\ UNCHANGED <<accounts, consents, forms, issued, flow, standing, disconnected>>

-----------------------------------------------------------------------------
(* GET *)

AuthorizeGet(r, u, c, scopes) ==
  /\ flow[r].pc = "idle"
  /\ u \in accounts
  /\ flow' = [flow EXCEPT ![r] =
       [NoFlow EXCEPT !.pc = "consult", !.user = u, !.client = c, !.scopes = scopes]]
  /\ UNCHANGED <<accounts, consents, forms, openCodes, issued, connected, standing, disconnected>>

\* A remembered consent covers a request for the same or fewer scopes.
Covers(consent, scopes) == consent.row /\ scopes \subseteq consent.scopes

\* The code is issued without asking, or the form is rendered.
GetConsent(r) ==
  LET q == flow[r] IN
  /\ q.pc = "consult"
  /\ \/ /\ Covers(consents[PairOf(q)], q.scopes)
        /\ flow' = [flow EXCEPT ![r].pc = "issue"]
        /\ UNCHANGED forms
     \/ /\ ~Covers(consents[PairOf(q)], q.scopes)
        /\ forms' = forms \union {[user |-> q.user, client |-> q.client, scopes |-> q.scopes]}
        /\ flow' = [flow EXCEPT ![r] = NoFlow]
  /\ UNCHANGED <<accounts, consents, openCodes, issued, connected, standing, disconnected>>

-----------------------------------------------------------------------------
(* POST *)

\* Mutant: the token is not bound to the scopes.
checkCSRF_AnyScopes(f, u, c, scopes) == f.user = u /\ f.client = c

\* The token of a form is good for its user and its parameters.
checkCSRF(f, u, c, scopes) == f.user = u /\ f.client = c /\ f.scopes = scopes

\* The signed-in user u posts the form f, with these parameters in its fields.
\* What the user has approved is what the form showed.
SubmitConsent(r, f, u, c, scopes) ==
  /\ flow[r].pc = "idle"
  /\ f \in forms
  /\ u \in accounts
  /\ checkCSRF(f, u, c, scopes)
  /\ flow' = [flow EXCEPT ![r] =
       [NoFlow EXCEPT !.pc = "merge", !.user = u, !.client = c, !.scopes = scopes]]
  /\ standing' = [standing EXCEPT ![PairOf(f)] =
       [row |-> TRUE, scopes |-> @.scopes \union f.scopes]]
  /\ disconnected' = [disconnected EXCEPT ![PairOf(f)] = FALSE]
  /\ UNCHANGED <<accounts, consents, forms, openCodes, issued, connected>>

\* Mutant: a consent that is already stored is written back as it was.
Merged_Stored(stored, scopes) == IF stored = {} THEN scopes ELSE stored

\* What saveConsent is about to remember.
Merged(stored, scopes) == stored \union scopes

\* saveConsent adds the scopes to the ones it reads; a read that fails counts
\* as nothing remembered.
MergeConsent(r) ==
  LET q == flow[r] IN
  /\ q.pc = "merge"
  /\ \E prev \in {consents[PairOf(q)].scopes, {}} :
       flow' = [flow EXCEPT ![r].pc = "save", ![r].merged = Merged(prev, q.scopes)]
  /\ UNCHANGED <<accounts, consents, forms, openCodes, issued, connected, standing, disconnected>>

\* An upsert, whatever the row has become since.
SaveConsent(r) ==
  LET q == flow[r] IN
  /\ q.pc = "save"
  /\ consents' = [consents EXCEPT ![PairOf(q)] = [row |-> TRUE, scopes |-> q.merged]]
  /\ flow' = [flow EXCEPT ![r].pc = "issue", ![r].merged = {}]
  /\ UNCHANGED <<accounts, forms, openCodes, issued, connected, standing, disconnected>>

\* The code is a random value, never one that was drawn before.
issueCode(r) ==
  LET q == flow[r] IN
  /\ q.pc = "issue"
  /\ issued < MaxCodes
  /\ issued' = issued + 1
  /\ openCodes' = openCodes \union
       {[id |-> issued + 1, user |-> q.user, client |-> q.client, scopes |-> q.scopes]}
  /\ flow' = [flow EXCEPT ![r] = NoFlow]
  /\ UNCHANGED <<accounts, consents, forms, connected, standing, disconnected>>

-----------------------------------------------------------------------------
(* RevokeClient *)

DeleteUserClientGrants(r, p) ==
  /\ flow[r].pc = "idle"
  /\ connected' = connected \ {p}
  /\ flow' = [flow EXCEPT ![r] =
       [NoFlow EXCEPT !.pc = "forget", !.user = p[1], !.client = p[2]]]
  /\ UNCHANGED <<accounts, consents, forms, openCodes, issued, standing, disconnected>>

\* Mutant: the row is kept.
Forgotten_Kept(p) == consents[p]

\* What DeleteConsent leaves of a consent.
Forgotten(p) == NoConsent

\* No authorization request of this user and client is under way.
Quiet(p) == \A r \in ConsentRequests : PairOf(flow[r]) = p => flow[r].pc = "forget"

\* The disconnection is complete.  Only one that no authorization overlapped
\* counts for the histories.
DeleteConsent(r) ==
  LET p == PairOf(flow[r]) IN
  /\ flow[r].pc = "forget"
  /\ consents' = [consents EXCEPT ![p] = Forgotten(p)]
  /\ flow' = [flow EXCEPT ![r] = NoFlow]
  /\ standing' = IF Quiet(p) THEN [standing EXCEPT ![p] = NoConsent] ELSE standing
  /\ disconnected' = [disconnected EXCEPT ![p] = @ \/ Quiet(p)]
  /\ UNCHANGED <<accounts, forms, openCodes, issued, connected>>

-----------------------------------------------------------------------------
Handler(r) ==
  \/ \E u \in Users, c \in Clients, scopes \in AskedScopes :
       \/ AuthorizeGet(r, u, c, scopes)
       \/ \E f \in forms : SubmitConsent(r, f, u, c, scopes)
  \/ GetConsent(r)
  \/ MergeConsent(r)
  \/ SaveConsent(r)
  \/ issueCode(r)
  \/ \E p \in Pairs : DeleteUserClientGrants(r, p)
  \/ DeleteConsent(r)
  \/ AbandonFlow(r)

ConsentNext ==
  \/ \E r \in ConsentRequests : Handler(r)
  \/ \E u \in Users : DeleteUser(u)
  \/ \E f \in forms : ExpireForm(f)
  \/ \E c \in openCodes : exchangeCode(c)

ConsentSpec == ConsentInit /\ [][ConsentNext]_consentVars

-----------------------------------------------------------------------------
(* Properties *)

\* The tables and the locals are what their declarations say, and what
\* saveConsent is about to write holds what the user has just approved, whatever
\* it read of earlier approvals.
ConsentTypeOK ==
  /\ accounts \subseteq Users
  /\ consents \in [Pairs -> Consent]
  /\ forms \subseteq Form
  /\ openCodes \subseteq Code
  /\ issued \in 0..MaxCodes
  /\ connected \subseteq Pairs
  /\ flow \in [ConsentRequests -> Flow]
  /\ \A r \in ConsentRequests : flow[r].pc = "save" => flow[r].scopes \subseteq flow[r].merged
  /\ standing \in [Pairs -> Consent]
  /\ disconnected \in [Pairs -> BOOLEAN]

\* Every code is for scopes that its user has approved for its client, in one
\* form or in several, and has not withdrawn: after a disconnection that no
\* authorization overlapped, the client gets no code before the user approves
\* something again, however approvals read, merge and write back the consent.
CodesFollowApprovals ==
  [][\A c \in openCodes' \ openCodes :
       standing[PairOf(c)].row /\ c.scopes \subseteq standing[PairOf(c)].scopes]_consentVars

\* What is remembered was approved since the last disconnection that no
\* authorization overlapped, so that no later request is waved through on
\* scopes that were withdrawn.
DisconnectForgets ==
  \A p \in Pairs :
    consents[p].row => standing[p].row /\ consents[p].scopes \subseteq standing[p].scopes

\* "RevokeClient disconnects a client from the user: all its grants and the
\* remembered consent" (oauth/server.go:405): until the user approves something
\* again, the client has no grant.  TLC refutes it with a code that was issued
\* before and is redeemed after (README, known divergences).
DisconnectedHasNoGrant ==
  \A p \in Pairs : disconnected[p] => p \notin connected
=============================================================================
