---------------------------- MODULE MCCoachAccounts ----------------------------
(* Instances of CoachAccounts for TLC. *)
EXTENDS CoachAccounts, TLC

\* No request is distinguished from another, and no address but the admin's.
Symmetry == Permutations(Requests) \cup Permutations(Emails \ {AdminEmail})
================================================================================
