-------------------------- MODULE MCGoogleConnection --------------------------
(* Instances of GoogleConnection for TLC. *)
EXTENDS GoogleConnection, TLC

CONSTANTS anna, bela, a1, a2, f1, f2, f3, k1, k2, k3

Symmetry == Permutations(Coaches) \cup Permutations(Accounts) \cup Permutations(Flows) \cup Permutations(Calls)
================================================================================
