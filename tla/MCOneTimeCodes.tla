--------------------------- MODULE MCOneTimeCodes ---------------------------
(* Instances of OneTimeCodes for TLC. *)
EXTENDS OneTimeCodes, TLC

Symmetry == Permutations(Calls) \union Permutations(Addrs)
=============================================================================
