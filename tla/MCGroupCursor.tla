--------------------------- MODULE MCGroupCursor ---------------------------
(* GroupCursor on small instances; see the .cfg files for the bounds.  The *)
(* clients of a group are interchangeable, which the safety runs use.      *)
EXTENDS GroupCursor, TLC

CONSTANTS g1, c1, c2

Interchangeable == Permutations(Instance)
=============================================================================
