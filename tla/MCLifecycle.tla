----------------------------- MODULE MCLifecycle ----------------------------
(* Small instances of Lifecycle; see the .cfg files for the bounds.        *)
EXTENDS Lifecycle

TwoPartitions == <<"p1", "p2">>
=============================================================================
