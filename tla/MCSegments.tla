----------------------------- MODULE MCSegments -----------------------------
(* Small instances of Segments; see the .cfg files for the bounds.         *)
EXTENDS Segments
=============================================================================
