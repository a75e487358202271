----------------------------- MODULE DurableLog -----------------------------
(***************************************************************************)
(* What one partition promises its clients, whatever its files look like:  *)
(* the contract of DURABILITY.md, which PartitionLog is shown to implement *)
(* (PartitionLogRefinement).                                               *)
(*                                                                         *)
(* A reader of a partition that is up sees log.  A record is offered, then *)
(* perhaps appended at the next offset, with or without an fsync.  kept    *)
(* are the records the partition still owes its readers and safe those it  *)
(* owes them even after a power loss; retention releases records from      *)
(* both, and may drop what it released only afterwards.  A record that was *)
(* offered but not appended (an uncertain result) may turn up when the     *)
(* partition recovers, and so may records already released, but never out  *)
(* of order, never twice, and never at an offset owed to another record.   *)
(***************************************************************************)
EXTENDS Naturals

VARIABLES
    up,             \* the partition is open
    log,            \* records visible to readers, as [off, id]
    next,           \* the offset the next record gets, the LEO
    offered,        \* records handed to Append so far
    kept,           \* records a process crash may not lose
    safe            \* records a power loss may not lose

vars == <<up, log, next, offered, kept, safe>>

(* Offsets and records agree on their order, so neither occurs twice.      *)
InOrder(L) ==
    \A r, q \in L : (r.off < q.off <=> r.id < q.id)

Init ==
    /\ up = TRUE /\ log = {} /\ next = 0
    /\ offered = {} /\ kept = {} /\ safe = {}

Offer ==
    /\ up
    /\ offered \subseteq offered'
    /\ UNCHANGED <<up, log, next, kept, safe>>

Append ==
    /\ up
    /\ \E id \in offered, ack \in BOOLEAN :
          LET r == [off |-> next, id |-> id]
          IN  /\ InOrder(log \cup {r})
              /\ log' = log \cup {r}
              /\ kept' = kept \cup {r}
              /\ safe' = IF ack THEN safe \cup {r} ELSE safe
    /\ next' = next + 1
    /\ UNCHANGED <<up, offered>>

(* Retention decides: the records are owed to nobody any more.             *)
Release ==
    /\ up
    /\ kept' \subseteq kept
    /\ safe' = safe \cap kept'
    /\ UNCHANGED <<up, log, next, offered>>

(* Retention acts: what is no longer owed may go, the end stays.           *)
Trim ==
    /\ up
    /\ log' \subseteq log /\ kept \subseteq log'
    /\ UNCHANGED <<up, next, offered, kept, safe>>

Stop ==
    /\ up' = FALSE /\ log' = {} /\ next' = 0
    /\ UNCHANGED <<offered, safe>>

Crash == Stop /\ UNCHANGED kept

PowerLoss == Stop /\ kept' = safe

Recover ==
    /\ ~up /\ up' = TRUE
    /\ kept \subseteq log'
    /\ InOrder(log')
    /\ \A r \in log' : r.id \in offered /\ r.off < next'
    /\ UNCHANGED <<offered, kept, safe>>

Next == \/ Offer \/ Append \/ Release \/ Trim
        \/ Crash \/ PowerLoss \/ Recover

Spec == Init /\ [][Next]_vars
=============================================================================
