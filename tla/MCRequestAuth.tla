--------------------------- MODULE MCRequestAuth ---------------------------
(* Instances of RequestAuth for TLC. *)
EXTENDS RequestAuth, TLC

Symmetry == Permutations(Calls) \union Permutations(Kids)
=============================================================================
