---------------------------- MODULE MCOAuthGrants ----------------------------
(* Instances of OAuthGrants for TLC. *)
EXTENDS OAuthGrants, TLC

CONSTANTS u1, c1, a, b, read, offline, r1, r2

\* An approval with offline_access, which gets a refresh token, and one without.
ScopeSets == {{read}, {offline}}

Symmetry == Permutations(Requests) \union Permutations(Clients)
=============================================================================
