------------------------------ MODULE MCRoles -------------------------------
(* Instances of Roles for TLC: whatever is not a role is interchangeable.  *)
EXTENDS Roles, TLC

MCSymmetry == Permutations(Handlers) \cup Permutations(Members)
                \cup Permutations(Permissions)
=============================================================================
