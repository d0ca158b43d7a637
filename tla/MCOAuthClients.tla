--------------------------- MODULE MCOAuthClients ---------------------------
(* The clients of the authorization server for TLC: a behaviour is either   *)
(* about a native client and a web client that register, act and are purged *)
(* (ClientRegistration), or about what a user lets a client do              *)
(* (OAuthConsent).  The two share no state.                                 *)
EXTENDS ClientRegistration, OAuthConsent, TLC

VARIABLE side   \* which of the two this behaviour is about

\* The store matters to registered clients only.
SidesInit ==
  /\ side \in {"registration", "consent"} /\ Init /\ ConsentInit
  /\ side = "consent" => store = "mem"

SidesNext ==
  \/ side = "registration" /\ Next /\ UNCHANGED <<side, consentVars>>
  \/ side = "consent" /\ ConsentNext /\ UNCHANGED <<side, vars>>

SidesSpec == SidesInit /\ [][SidesNext]_<<side, vars, consentVars>>

Symmetry == Permutations(Requests) \union Permutations(ConsentRequests) \union Permutations(Scopes)

AnyScopes == SUBSET Scopes

At(scheme, host, port, path) ==
  [scheme |-> scheme, host |-> host, port |-> port, path |-> path, user |-> FALSE, fragment |-> FALSE]

Native == At("http", "localhost", 1, "/cb")
Web == At("https", "app", 1, "/cb")

MCSubmissions ==
  { [uris |-> {Native}, method |-> "none", grantTypes |-> {}, responses |-> {}],
    [uris |-> {Web}, method |-> "", grantTypes |-> {"code", "refresh"}, responses |-> {"code"}],
    [uris |-> {At("http", "app", 1, "/cb")}, method |-> "none", grantTypes |-> {"code"}, responses |-> {}],
    [uris |-> {Web}, method |-> "none", grantTypes |-> {"refresh"}, responses |-> {}] }

\* Of the URIs that are not registered only the first is accepted.
MCAsked ==
  { [At("http", "localhost", 2, "/cb") EXCEPT !.user = TRUE], At("http", "localhost", 2, "/x"),
    At("http", "127.0.0.1", 1, "/cb"), Web, At("https", "app", 2, "/cb"), [Web EXCEPT !.user = TRUE] }
=============================================================================
