--------------------------- MODULE MCAllowedOrigins ---------------------------
(* Instances of AllowedOrigins for TLC. *)
EXTENDS AllowedOrigins, TLC

CONSTANTS i1, i2, o1, o2, c1, c2

Symmetry == Permutations(Instances) \cup Permutations(Origins) \cup Permutations(Checks)
===============================================================================
