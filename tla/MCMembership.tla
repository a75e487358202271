---------------------------- MODULE MCMembership ----------------------------
(* Membership on small instances; see the .cfg files for the bounds.       *)
EXTENDS Membership, TLC

CONSTANTS c1, c2, c3

Symmetry == Permutations(Client)
=============================================================================
