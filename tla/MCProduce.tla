------------------------------ MODULE MCProduce -----------------------------
(* Small instances of Produce; see the .cfg file for the bounds.           *)
EXTENDS Produce, TLC

CONSTANTS p1, p2, a

Rec(k, p, f) == [key |-> k, partition |-> p, fits |-> f]

(* One producer sends records with a key, which may be too large, the      *)
(* other records without, some for a partition that does not exist.        *)
SomeRequests ==
    p1 :> {Rec(a, -1, TRUE), Rec(a, -1, FALSE)}
        @@ p2 :> {Rec(NoKey, -1, TRUE), Rec(NoKey, 1, TRUE),
                   Rec(NoKey, N, TRUE)}

(* A hash with its top bit set.                                            *)
SomeHash == [k \in Key |-> 3]
=============================================================================
