----------------------------- MODULE MCCatalog -----------------------------
(* Catalog on small instances; see the .cfg files for the bounds.          *)
EXTENDS Catalog, TLC

CONSTANTS t1, t2, t3

Symmetry == Permutations(Topic)
=============================================================================
