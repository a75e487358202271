--------------------------- MODULE MCPartitionLog ---------------------------
(* Small instances of PartitionLog for TLC; the .cfg files give the values. *)
EXTENDS PartitionLogRefinement
=============================================================================
