------------------------- MODULE MCMembershipCache -------------------------
(* Model-checking instance of MembershipCache. *)
EXTENDS MembershipCache, TLC

(* Roles and checks are interchangeable: no property tells them apart. *)
Symmetry == Permutations(Roles) \cup Permutations(Checks)
=============================================================================
