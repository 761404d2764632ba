---------------------------- MODULE MCCoachSessions ----------------------------
(* Instances of CoachSessions for TLC. *)
EXTENDS CoachSessions, TLC

CONSTANTS c1, c2, c3, p1, p2

Symmetry == Permutations(Calls) \cup Permutations(Passwords)
================================================================================
