------------------------- MODULE MCClientAssertions -------------------------
(* Instances of ClientAssertions for TLC. *)
EXTENDS ClientAssertions, TLC

Symmetry == Permutations(Requests) \union Permutations(Keys)
=============================================================================
