---------------------------- MODULE PartitionLog ----------------------------
(***************************************************************************)
(* One partition of marchiq: storage/partition_log.go (Append, roll, open, *)
(* read) and the deleting half of storage/retention.go, over a disk that   *)
(* distinguishes what is visible (page cache, directory entries) from what *)
(* is durable (fsync, directory sync).                                     *)
(*                                                                         *)
(* Every operation below runs under the partition lock p.mu, so at most    *)
(* one is in progress; pc says how far it is, because a crash may come     *)
(* between any two of its system calls.                                    *)
(*                                                                         *)
(* Simplifications                                                         *)
(*  - A record is its identity (Id); key, value and time are left out.     *)
(*  - Frame sizes are left out: an append to a non-empty segment may roll  *)
(*    or not, which covers every frame size and every maxSegmentBytes.     *)
(*  - The sparse index is a cache (see FORMAT.md section 5); only the      *)
(*    directory syncs its rewriting performs are kept.                     *)
(*  - Which sealed segments retention picks is left to its policy: a       *)
(*    prefix, or any of them when file times are not monotone.             *)
(***************************************************************************)
EXTENDS Naturals, Sequences, FiniteSets

CONSTANTS
    MaxOffset,      \* stands for math.MaxInt64, the offset never assigned
    MaxRecords,     \* bound: appends attempted in one behaviour
    SteppedClock    \* TRUE: segment mtimes need not grow with base offsets

ASSUME MaxOffsetAssumption == MaxOffset \in Nat \ {0}
ASSUME MaxRecordsAssumption == MaxRecords \in Nat
ASSUME SteppedClockAssumption == SteppedClock \in BOOLEAN

Offset == 0..MaxOffset
Id == 1..MaxRecords
Acks == {"none", "leader"}
Op == [id : 0..MaxRecords, acks : Acks]
Entry == [base : Offset, idx : Nat \ {0}, id : Id]

VARIABLES
    \* Memory: the PartitionLog value, lost with the process.
    status,         \* "down", "open", or "refused" when openPartition failed
    segments,       \* base offsets of p.segments
    active,         \* base offset of p.active(), the last of p.segments
    records,        \* published records of each segment in p.segments
    nextOffset,     \* p.nextOffset, the LEO
    failed,         \* p.failed # nil
    pc,             \* next step of the operation that holds p.mu
    op,             \* the append in progress: its record and its acks
    doomed,         \* retention: segments still to unlink
    gone,           \* retention: segments unlinked and closed
    \* Disk.
    frames,         \* whole frames in each segment's .log
    tail,           \* what follows them: "clean" end, "torn" frame, "corrupt"
    synced,         \* how many of those frames are on stable storage
    dir,            \* .log entries of the partition directory
    durDir,         \* .log entries as of its last sync
    \* History.
    nextId,         \* records handed to Append so far, plus one
    published,      \* entries made visible and not lost in an OS crash
    acked,          \* entries acknowledged with acks=1
    released        \* segments retention decided to delete

memory == <<status, segments, active, records, nextOffset, failed>>
retain == <<doomed, gone>>
disk == <<frames, tail, synced, dir, durDir>>
history == <<nextId, published, acked, released>>
vars == <<memory, pc, op, retain, disk, history>>

NoOp == [id |-> 0, acks |-> "none"]

MinOf(S) == CHOOSE x \in S : \A y \in S : x <= y

-----------------------------------------------------------------------------
(* A partition as CreateTopic leaves it: one empty segment, synced.        *)
Init ==
    /\ status = "open" /\ segments = {0} /\ active = 0
    /\ records = [b \in Offset |-> 0]
    /\ nextOffset = 0 /\ failed = FALSE
    /\ pc = "idle" /\ op = NoOp /\ doomed = {} /\ gone = {}
    /\ frames = [b \in Offset |-> <<>>]
    /\ tail = [b \in Offset |-> "clean"]
    /\ synced = [b \in Offset |-> 0]
    /\ dir = {0} /\ durDir = {0}
    /\ nextId = 1 /\ published = {} /\ acked = {} /\ released = {}

(* p.failed is set: every later Append and retention pass returns early.   *)
Fence ==
    /\ failed' = TRUE /\ pc' = "idle" /\ op' = NoOp
    /\ UNCHANGED <<status, segments, active, records, nextOffset>>

-----------------------------------------------------------------------------
(* Append.                                                                 *)

(* Mutants: the overflow check, or the fence check, is missing.            *)
Append_Start_NoOverflowCheck(acks) ==
    /\ status = "open" /\ pc = "idle" /\ ~failed /\ nextId <= MaxRecords
    /\ op' = [id |-> nextId, acks |-> acks]
    /\ nextId' = nextId + 1
    /\ pc' \in {"write"} \cup (IF records[active] > 0 THEN {"seal"} ELSE {})
    /\ UNCHANGED <<memory, retain, disk, published, acked, released>>

Append_Start_NoFence(acks) ==
    /\ status = "open" /\ pc = "idle"
    /\ nextOffset # MaxOffset /\ nextId <= MaxRecords
    /\ op' = [id |-> nextId, acks |-> acks]
    /\ nextId' = nextId + 1
    /\ pc' \in {"write"} \cup (IF records[active] > 0 THEN {"seal"} ELSE {})
    /\ UNCHANGED <<memory, retain, disk, published, acked, released>>

Append_Start(acks) ==
    /\ status = "open" /\ pc = "idle"
    /\ ~failed
    /\ nextOffset # MaxOffset
    /\ nextId <= MaxRecords
    /\ op' = [id |-> nextId, acks |-> acks]
    /\ nextId' = nextId + 1
    /\ \/ pc' = "write"
       \/ records[active] > 0 /\ pc' = "seal"
    /\ UNCHANGED <<memory, retain, disk, published, acked, released>>

(* Mutant: the segment is sealed without its sync.                         *)
Roll_Seal_NoSync ==
    /\ pc = "seal" /\ pc' = "create"
    /\ UNCHANGED <<memory, op, retain, disk, history>>

(* rollLocked: sync the segment being sealed.                              *)
Roll_Seal ==
    /\ pc = "seal"
    /\ synced' = [synced EXCEPT ![active] = Len(frames[active])]
    /\ pc' = "create"
    /\ UNCHANGED <<memory, op, retain, frames, tail, dir, durDir, history>>

(* rollLocked: create the new .log and .index with O_EXCL.                 *)
Roll_Create ==
    /\ pc = "create"
    /\ nextOffset \notin dir
    /\ dir' = dir \cup {nextOffset}
    /\ frames' = [frames EXCEPT ![nextOffset] = <<>>]
    /\ tail' = [tail EXCEPT ![nextOffset] = "clean"]
    /\ synced' = [synced EXCEPT ![nextOffset] = 0]
    /\ \/ pc' = "syncdir" /\ UNCHANGED <<memory, op>>
       \/ Fence                            \* the .index could not be created
    /\ UNCHANGED <<retain, durDir, history>>

(* Mutant: no directory sync, the new file's entry stays volatile.         *)
Roll_Finish_NoDirSync ==
    /\ pc = "syncdir" /\ pc' = "write"
    /\ segments' = segments \cup {nextOffset} /\ active' = nextOffset
    /\ records' = [records EXCEPT ![nextOffset] = 0]
    /\ UNCHANGED <<status, nextOffset, failed, op, retain, disk, history>>

(* rollLocked: sync the directory and switch to the new segment.           *)
Roll_Finish ==
    /\ pc = "syncdir"
    /\ durDir' = dir
    /\ segments' = segments \cup {nextOffset}
    /\ active' = nextOffset
    /\ records' = [records EXCEPT ![nextOffset] = 0]
    /\ pc' = "write"
    /\ UNCHANGED <<status, nextOffset, failed, op, retain,
                   frames, tail, synced, dir, history>>

(* A roll step failed before it changed anything on disk.                  *)
Roll_Fail ==
    /\ pc \in {"seal", "create", "syncdir"}
    /\ Fence
    /\ UNCHANGED <<retain, disk, history>>

(* The record becomes visible and Append returns it.                       *)
Publish(ack) ==
    LET e == [base |-> active, idx |-> records[active] + 1, id |-> op.id]
    IN  /\ records' = [records EXCEPT ![active] = @ + 1]
        /\ nextOffset' = nextOffset + 1
        /\ published' = published \cup {e}
        /\ acked' = IF ack THEN acked \cup {e} ELSE acked
        /\ pc' = "idle" /\ op' = NoOp
        /\ UNCHANGED <<status, segments, active, failed, nextId, released>>

(* One whole frame reaches the page cache.  Behind a partial frame it does *)
(* not start at a frame boundary, so no scan can tell the records apart.   *)
AppendFrame(b) ==
    IF tail[b] = "clean"
    THEN /\ frames' = [frames EXCEPT ![b] = Append(@, op.id)]
         /\ UNCHANGED tail
    ELSE /\ tail' = [tail EXCEPT ![b] = "corrupt"]
         /\ UNCHANGED frames

Append_Write ==
    /\ pc = "write"
    /\ AppendFrame(active)
    /\ IF op.acks = "leader"
       THEN pc' = "sync" /\ UNCHANGED <<memory, op, history>>
       ELSE Publish(FALSE)
    /\ UNCHANGED <<retain, synced, dir, durDir>>

(* The index or frame write failed; a short write leaves a partial frame.  *)
Append_WriteFail ==
    /\ pc = "write"
    /\ Fence
    /\ \/ UNCHANGED tail
       \/ tail' = [tail EXCEPT ![active] =
                       IF @ = "clean" THEN "torn" ELSE "corrupt"]
    /\ UNCHANGED <<retain, frames, synced, dir, durDir, history>>

Append_Sync ==
    /\ pc = "sync"
    /\ synced' = [synced EXCEPT ![active] = Len(frames[active])]
    /\ Publish(TRUE)
    /\ UNCHANGED <<retain, frames, tail, dir, durDir>>

(* Mutant: a failed sync is reported but does not fence the partition.     *)
Append_SyncFail_NoFence ==
    /\ pc = "sync" /\ pc' = "idle" /\ op' = NoOp
    /\ UNCHANGED <<memory, retain, disk, history>>

(* The frame stays in the file: ErrResultUncertain.                        *)
Append_SyncFail ==
    /\ pc = "sync"
    /\ Fence
    /\ UNCHANGED <<retain, disk, history>>

-----------------------------------------------------------------------------
(* enforceRetention.                                                       *)

(* Mutant: the candidates include the active segment.                      *)
Selectable_ActiveToo(D) == D # {} /\ D \subseteq segments

(* Sealed segments a pass may select.  With growing file times and the     *)
(* oldest-first size rule both loops select a prefix.                      *)
Selectable(D) ==
    /\ D # {} /\ D \subseteq segments \ {active}
    /\ SteppedClock \/ \A d \in D : \A s \in segments : s < d => s \in D

Retention_Start ==
    /\ status = "open" /\ pc = "idle"
    /\ ~failed
    /\ \E D \in SUBSET segments :
          /\ Selectable(D)
          /\ doomed' = D
          /\ released' = released \cup D
    /\ pc' = "unlink"
    /\ UNCHANGED <<memory, op, gone, disk, nextId, published, acked>>

(* Segments go oldest first; a missing file is not an error.               *)
Retention_Unlink ==
    /\ pc = "unlink"
    /\ \E b \in doomed :
          /\ \A d \in doomed : b <= d
          /\ dir' = dir \ {b}
          /\ gone' = gone \cup {b}
          /\ doomed' = doomed \ {b}
    /\ UNCHANGED <<memory, pc, op, frames, tail, synced, durDir, history>>

(* Unlinking failed before or after the .log: the segment is kept.         *)
Retention_UnlinkFail ==
    /\ pc = "unlink"
    /\ \E b \in doomed :
          /\ \A d \in doomed : b <= d
          /\ dir' \in {dir, dir \ {b}}
          /\ doomed' = doomed \ {b}
    /\ UNCHANGED <<memory, pc, op, gone, frames, tail, synced, durDir, history>>

(* Mutant: as many segments are dropped from the front of p.segments as    *)
(* were unlinked, whichever they were.                                     *)
Retention_Finish_FromFront ==
    /\ pc = "unlink" /\ doomed = {}
    /\ segments' \in SUBSET segments
    /\ Cardinality(segments) = Cardinality(segments') + Cardinality(gone)
    /\ \A b \in segments \ segments' : \A c \in segments' : b < c
    /\ gone' = {} /\ pc' = "idle" /\ durDir' = dir
    /\ UNCHANGED <<status, active, records, nextOffset, failed, op, doomed,
                   frames, tail, synced, dir, history>>

(* The directory sync may fail; memory forgets the unlinked anyway.        *)
Retention_Finish ==
    /\ pc = "unlink"
    /\ doomed = {}
    /\ \/ gone # {} /\ durDir' = dir
       \/ UNCHANGED durDir
    /\ segments' = segments \ gone
    /\ gone' = {}
    /\ pc' = "idle"
    /\ UNCHANGED <<status, active, records, nextOffset, failed, op, doomed,
                   frames, tail, synced, dir, history>>

-----------------------------------------------------------------------------
(* Crashes and openPartition.                                              *)

LoseMemory ==
    /\ status' = "down" /\ segments' = {} /\ active' = 0
    /\ records' = [b \in Offset |-> 0]
    /\ nextOffset' = 0 /\ failed' = FALSE
    /\ pc' = "idle" /\ op' = NoOp /\ doomed' = {} /\ gone' = {}

(* kill -9, or Close between operations: the page cache survives.          *)
ProcessCrash ==
    /\ status # "down"
    /\ LoseMemory
    /\ UNCHANGED <<disk, history>>

(* Power loss: each file keeps a prefix that includes what was synced, the *)
(* frame after it may be torn, and each unsynced directory change is kept  *)
(* or lost.  What survived is on the disk and stays.                       *)
AtRisk == {b \in dir \cup durDir :
              synced[b] < Len(frames[b]) \/ tail[b] = "torn"}

OSCrash ==
    /\ LoseMemory
    /\ \E keep \in [AtRisk -> Offset], cut \in SUBSET AtRisk :
          /\ \A b \in AtRisk : keep[b] \in synced[b]..Len(frames[b])
          /\ \A b \in cut : keep[b] < Len(frames[b]) \/ tail[b] = "torn"
          /\ frames' = [b \in Offset |-> IF b \in AtRisk
                                         THEN SubSeq(frames[b], 1, keep[b])
                                         ELSE frames[b]]
          /\ tail' = [b \in Offset |-> IF b \in cut THEN "torn"
                                       ELSE IF b \in AtRisk THEN "clean"
                                       ELSE tail[b]]
          /\ synced' = [b \in Offset |-> IF b \in AtRisk THEN keep[b]
                                         ELSE synced[b]]
    /\ dir' \in SUBSET (dir \cup durDir)
    /\ dir \cap durDir \subseteq dir'
    /\ durDir' = dir'
    /\ published' = acked
    /\ UNCHANGED <<nextId, acked, released>>

(* scanSegment on every .log in base order; rewriting each .index syncs    *)
(* the directory.                                                          *)
Openable ==
    /\ dir # {}
    /\ \A b \in dir : \/ tail[b] = "clean"
                      \/ tail[b] = "torn" /\ \A c \in dir : c <= b

Replay ==
    /\ status' = "open"
    /\ segments' = dir
    /\ \E a \in dir :
          /\ \A b \in dir : b <= a
          /\ active' = a
          /\ nextOffset' = a + Len(frames[a])
          /\ IF tail[a] = "torn"           \* truncate to lastGood, then sync
             THEN /\ tail' = [tail EXCEPT ![a] = "clean"]
                  /\ synced' = [synced EXCEPT ![a] = Len(frames[a])]
             ELSE UNCHANGED <<tail, synced>>
    /\ records' = [b \in Offset |-> IF b \in dir THEN Len(frames[b]) ELSE 0]
    /\ durDir' = dir
    /\ UNCHANGED <<failed, pc, op, retain, frames, dir, history>>

Refuse ==
    /\ status' = "refused"
    /\ UNCHANGED <<segments, active, records, nextOffset, failed,
                   pc, op, retain, disk, history>>

OpenPartition ==
    /\ status = "down"
    /\ IF Openable THEN Replay ELSE Refuse

-----------------------------------------------------------------------------
AppendStep ==
    \/ \E acks \in Acks : Append_Start(acks)
    \/ Roll_Seal \/ Roll_Create \/ Roll_Finish \/ Roll_Fail
    \/ Append_Write \/ Append_WriteFail \/ Append_Sync \/ Append_SyncFail

RetentionStep ==
    \/ Retention_Start \/ Retention_Unlink \/ Retention_UnlinkFail
    \/ Retention_Finish

Next == \/ AppendStep \/ RetentionStep
        \/ ProcessCrash \/ OSCrash \/ OpenPartition

Spec == Init /\ [][Next]_vars

(* ReadFrom(o, 1, _) at an offset below the LEO: the first segment, in     *)
(* base order, whose end lies beyond o, entered at o or at its base.       *)
FirstRead(o) ==
    LET beyond == {b \in segments : b + records[b] > o}
        seg == MinOf(beyond)
        start == IF o < seg THEN seg ELSE o
    IN  [off |-> start, id |-> frames[seg][start - seg + 1]]

OffsetOf(e) == e.base + e.idx - 1

OnStableStorage(e) ==
    /\ e.base \in durDir /\ e.base \in dir
    /\ e.idx <= synced[e.base]
    /\ frames[e.base][e.idx] = e.id

Live(E) == {e \in E : e.base \notin released}

(* Every variable holds a value of its type.                               *)
TypeOK ==
    /\ status \in {"down", "open", "refused"}
    /\ segments \in SUBSET Offset /\ active \in Offset
    /\ records \in [Offset -> Nat] /\ nextOffset \in Offset
    /\ failed \in BOOLEAN
    /\ pc \in {"idle", "seal", "create", "syncdir", "write", "sync", "unlink"}
    /\ op \in Op
    /\ doomed \in SUBSET Offset /\ gone \in SUBSET Offset
    /\ frames \in [Offset -> Seq(Id)]
    /\ tail \in [Offset -> {"clean", "torn", "corrupt"}]
    /\ synced \in [Offset -> Nat]
    /\ dir \in SUBSET Offset /\ durDir \in SUBSET Offset
    /\ nextId \in 1..(MaxRecords + 1)
    /\ published \in SUBSET Entry /\ acked \in SUBSET Entry
    /\ released \in SUBSET Offset

(* DURABILITY.md, acks=1: once Append has returned success the record is   *)
(* on stable storage at its offset, in whatever step a crash comes, until  *)
(* retention decides to delete its segment.                                *)
AckedDurable == \A e \in Live(acked) : OnStableStorage(e)

(* An acks=1 success covers the acks=0 records before it: its sync, or the *)
(* seal of their segment, made them durable, so a crash never leaves a     *)
(* hole below an acknowledged offset.                                      *)
AckCoversPrefix ==
    \A e \in Live(acked) : \A f \in Live(published) :
        OffsetOf(f) < OffsetOf(e) => OnStableStorage(f)

(* A record that Append published stays readable at the offset it was      *)
(* given: through fences, failed rolls and retention passes, through       *)
(* kill -9 whatever its acks, and through power loss when acks=1.          *)
PublishedReadable ==
    status = "open" /\ pc = "idle" =>
        \A e \in Live(published) :
            /\ OffsetOf(e) < nextOffset
            /\ FirstRead(OffsetOf(e)) = [off |-> OffsetOf(e), id |-> e.id]

(* openPartition never refuses what the program itself left behind: no     *)
(* crash or failed step leaves a corrupt frame, a torn sealed segment or   *)
(* an empty directory.                                                     *)
NeverRefused == status # "refused"

(* rollLocked creates <LEO>.log with O_EXCL: no failed roll, crash or      *)
(* retention pass leaves a .log of that name in its way.                   *)
RollNameFree == pc = "create" => nextOffset \notin dir
=============================================================================
