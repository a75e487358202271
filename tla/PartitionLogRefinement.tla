----------------------- MODULE PartitionLogRefinement -----------------------
(***************************************************************************)
(* PartitionLog implements DurableLog.  The mapping reads the abstract log *)
(* off the segments in memory, the way ReadFrom serves them, and the debts *)
(* off the history: a record is owed from the moment Append publishes it   *)
(* until retention selects its segment.                                    *)
(***************************************************************************)
EXTENDS PartitionLog

At(b, i) == [off |-> b + i - 1, id |-> frames[b][i]]

(* Every record that ReadFrom can return.                                  *)
Visible == UNION {{At(b, i) : i \in 1..records[b]} : b \in segments}

Owed(E) == {[off |-> OffsetOf(e), id |-> e.id] : e \in Live(E)}

D == INSTANCE DurableLog WITH
        up <- status = "open",
        log <- Visible,
        next <- nextOffset,
        offered <- 1..(nextId - 1),
        kept <- Owed(published),
        safe <- Owed(acked)

(* Every step of the partition, seen through what readers can observe, is  *)
(* a step the contract allows: records appear at the end only, none moves, *)
(* none is duplicated by a fenced or recovered append, none that is owed   *)
(* disappears.                                                             *)
Implements == D!Spec
=============================================================================
