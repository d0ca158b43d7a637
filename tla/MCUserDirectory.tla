--------------------------- MODULE MCUserDirectory ---------------------------
(* Instances of UserDirectory for TLC. *)
EXTENDS UserDirectory, TLC

Symmetry == Permutations(Calls)
=============================================================================
