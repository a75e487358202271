---------------------------- MODULE GroupCursor ----------------------------
(***************************************************************************)
(* Consumer groups over one partition: storage/group.go (JoinGroup,        *)
(* FetchGroup, CommitOffset, groups.json) together with the retention pass *)
(* that reads the groups' cursors (storage/retention.go) and the client    *)
(* loop of cmd/demo.                                                       *)
(*                                                                         *)
(* Steps are cut where the code lets go of a lock.  FetchGroup reads the   *)
(* committed offset under gmu, then the partition's offsets, then the      *)
(* records, each under its own lock; CommitOffset validates under p.mu and *)
(* writes under gmu; a retention pass takes the clamp under gmu and        *)
(* deletes under p.mu.  Anything may happen in between.                    *)
(*                                                                         *)
(* Simplifications                                                         *)
(*  - One topic with one partition.  A group is the set of clients that    *)
(*    present the member name the partition is assigned to: more than one  *)
(*    when a client was restarted while its predecessor still runs.        *)
(*  - Append and a pass over the partition are one step each: PartitionLog *)
(*    has their system calls.  What a pass may leave behind is kept: a     *)
(*    segment that could not be unlinked, with a gap beside it, and a      *)
(*    deletion that a power loss undoes.                                   *)
(*  - A file named groups.json is its content; a write of it that fails    *)
(*    may fail before or after the rename took effect.                     *)
(***************************************************************************)
EXTENDS Integers, Sequences, FiniteSets

CONSTANTS
    Group,          \* groups that may join the topic
    Instance,       \* names for the clients of each group
    MaxRecords,     \* bound: records appended in one behaviour
    MaxFaults,      \* bound: crashes, client restarts, failed saves and passes
    AnyCommit       \* TRUE: clients commit any offset, not their last batch

ASSUME GroupAssumption == IsFiniteSet(Group)
ASSUME InstanceAssumption == IsFiniteSet(Instance)
ASSUME MaxRecordsAssumption == MaxRecords \in Nat \ {0}
ASSUME MaxFaultsAssumption == MaxFaults \in Nat
ASSUME AnyCommitAssumption == AnyCommit \in BOOLEAN

None == -1                              \* no committed offset
Offset == 0..MaxRecords
Id == 1..MaxRecords
Client == Group \X Instance
GroupOf(c) == c[1]
(* What groups.json holds, and the broker's copy of it.                    *)
Meta == [joined : SUBSET Group, committed : [Group -> None..(MaxRecords - 1)]]
Phase == {"idle", "snapshot", "ranged", "holding", "validated"}

VARIABLES
    log,            \* records of the partition, at offsets 0, 1, ...
    bases,          \* base offsets of all segments it ever had
    segments,       \* those it serves, p.segments
    dir,            \* those with a file in the partition's directory
    durDir,         \* those with a file there if the power fails now
    synced,         \* how many records are on stable storage
    groups,         \* b.groups
    saved,          \* what groups.json holds
    stable,         \* what it may hold after an operating system crash
    client,         \* each client and the request it is waiting for
    clamp,          \* the pass's snapshot of the clamp, None between passes
    nextId,         \* records appended so far, plus one
    faults,         \* faults so far
    \* History.
    delivered,      \* records each group has processed
    disowned,       \* offsets each group had committed when a crash of the
                    \* machine took their records
    returned,       \* those each group had passed when a crash brought their
                    \* deleted records back
    stale,          \* those lost or brought back below a batch that a client
                    \* of the group held through the crash
    sheltered       \* groups the clamp has promised to protect

partition == <<log, bases, segments, dir, durDir, synced, nextId>>
meta == <<groups, saved, stable>>
exempt == <<disowned, returned, stale>>
history == <<delivered, exempt, sheltered>>
vars == <<partition, meta, client, clamp, faults, history>>

MinOf(S) == CHOOSE x \in S : \A y \in S : x <= y
Earliest == MinOf(segments)
Latest == Len(log)

(* The segment with base b ends at or below o; the active one never does.  *)
EndsBy(b, o) == \E x \in bases : b < x /\ x <= o

(* The offsets that the given segments hold.                               *)
Held(segs) == {o \in 0..(Latest - 1) :
                 \E b \in segs : b <= o /\ ~EndsBy(b, o)}
Readable == Held(segments)

NextFetch(g) == groups.committed[g] + 1
Idle == [at |-> "idle", pos |-> 0, batch |-> {}, off |-> 0]
NoGroups == [joined |-> {}, committed |-> [g \in Group |-> None]]

Init ==
    /\ log = <<>> /\ synced = 0 /\ nextId = 1
    /\ bases = {0} /\ segments = {0} /\ dir = {0} /\ durDir = {0}
    /\ groups = NoGroups /\ saved = NoGroups /\ stable = {NoGroups}
    /\ client = [c \in Client |-> Idle]
    /\ clamp = None
    /\ faults = 0
    /\ delivered = [g \in Group |-> {}]
    /\ disowned = [g \in Group |-> {}]
    /\ returned = [g \in Group |-> {}]
    /\ stale = [g \in Group |-> {}]
    /\ sheltered = {}

Fault == faults < MaxFaults /\ faults' = faults + 1

-----------------------------------------------------------------------------
(* rollLocked: create the segment and sync the directory.                  *)
Roll == /\ Latest \notin bases
        /\ bases' = bases \cup {Latest}
        /\ segments' = segments \cup {Latest}
        /\ dir' = dir \cup {Latest}
        /\ durDir' = dir'

(* Mutant: the segment being sealed is not synced.                         *)
AppendRecord_RollUnsynced(roll, acks) ==
    /\ nextId <= MaxRecords
    /\ IF roll THEN Roll ELSE UNCHANGED <<bases, segments, dir, durDir>>
    /\ log' = Append(log, nextId)
    /\ nextId' = nextId + 1
    /\ synced' = IF acks = "leader" THEN Latest + 1 ELSE synced
    /\ UNCHANGED <<meta, client, clamp, faults, history>>

(* Append: possibly into a new segment, which syncs the old one, and       *)
(* followed by a sync when acks=1.                                         *)
AppendRecord(roll, acks) ==
    /\ nextId <= MaxRecords
    /\ IF roll THEN Roll ELSE UNCHANGED <<bases, segments, dir, durDir>>
    /\ log' = Append(log, nextId)
    /\ nextId' = nextId + 1
    /\ synced' = IF acks = "leader" THEN Latest + 1
                 ELSE IF roll THEN Latest ELSE synced
    /\ UNCHANGED <<meta, client, clamp, faults, history>>

-----------------------------------------------------------------------------
(* saveGroupsLocked: write a temporary file, sync it, rename it over       *)
(* groups.json, sync the directory.                                        *)
Save(new) == saved' = new /\ stable' = {new}

(* It fails before the rename, or at the directory sync after it.          *)
SaveFail == Fault /\ UNCHANGED <<saved, stable>>
SaveSyncFail(new) == Fault /\ saved' = new /\ stable' = stable \cup {new}

Joining(g) == [groups EXCEPT !.joined = @ \cup {g}]
Committing(g, off) == [groups EXCEPT !.committed[g] = off]

(* No segment with a record at or above the cursor is gone from disk.      *)
Whole(cursor) == \A b \in bases \ dir : EndsBy(b, cursor)

(* The clamp protects a cursor that the next pass will see and above which *)
(* nothing is gone already.                                                *)
Protected(cursor) == clamp = None /\ Whole(cursor)

(* JoinGroup; the groups it changed in memory stay changed when the save   *)
(* fails.                                                                  *)
Join(c) ==
    LET g == GroupOf(c) IN
    /\ client[c].at = "idle"
    /\ groups' = Joining(g)
    /\ Save(Joining(g))
    /\ sheltered' = IF Protected(NextFetch(g)) THEN sheltered \cup {g}
                    ELSE sheltered
    /\ UNCHANGED <<partition, client, clamp, faults, delivered, exempt>>

Join_Fail(c) ==
    /\ client[c].at = "idle"
    /\ groups' = Joining(GroupOf(c))
    /\ SaveFail
    /\ UNCHANGED <<partition, client, clamp, history>>

Join_SyncFail(c) ==
    /\ client[c].at = "idle"
    /\ groups' = Joining(GroupOf(c))
    /\ SaveSyncFail(Joining(GroupOf(c)))
    /\ UNCHANGED <<partition, client, clamp, history>>

-----------------------------------------------------------------------------
(* FetchGroup: the committed offset, under gmu.                            *)
Fetch_Snapshot(c) ==
    LET g == GroupOf(c) IN
    /\ client[c].at = "idle"
    /\ g \in groups.joined
    /\ client' = [client EXCEPT ![c].at = "snapshot", ![c].pos = NextFetch(g)]
    /\ UNCHANGED <<partition, meta, clamp, faults, history>>

(* Mutant: an offset that retention deleted is asked for all the same.     *)
Clamped_NoEarliest(pos) == IF pos > Latest THEN Latest ELSE pos

(* Where to read from: the committed offset plus one, moved up to the      *)
(* earliest record or down to the end of the log.                          *)
Clamped(pos) == IF pos < Earliest THEN Earliest
                ELSE IF pos > Latest THEN Latest ELSE pos

(* FetchGroup: the partition's offsets, under p.mu.  An empty poll ends    *)
(* the request.                                                            *)
Fetch_Offsets(c) ==
    LET start == Clamped(client[c].pos) IN
    /\ client[c].at = "snapshot"
    /\ client' = [client EXCEPT ![c] =
                    IF start < Latest
                    THEN [Idle EXCEPT !.at = "ranged", !.pos = start]
                    ELSE Idle]
    /\ UNCHANGED <<partition, meta, clamp, faults, history>>

(* Mutant: the high watermark, though the batch may stop short of it.      *)
NextOffset_HighWatermark(n) == Latest

(* next_offset of a response that ends with the record at offset n.        *)
NextOffset(n) == n + 1

(* ReadFrom, under p.mu again: at least one record, as many as max_records *)
(* and max_bytes allow, skipping what is gone, or ErrOffsetOutOfRange.  A  *)
(* client that holds a batch keeps next_offset, in pos.                    *)
Fetch_Read(c) ==
    LET from == {o \in Readable : client[c].pos <= o} IN
    /\ client[c].at = "ranged"
    /\ IF client[c].pos < Earliest \/ from = {}
       THEN client' = [client EXCEPT ![c] = Idle]
       ELSE \E n \in from :
              client' = [client EXCEPT
                           ![c].at = "holding",
                           ![c].pos = NextOffset(n),
                           ![c].batch = {log[o + 1] : o \in from \cap (0..n)}]
    /\ UNCHANGED <<partition, meta, clamp, faults, history>>

(* What a client holding a batch may commit.                               *)
CommitChoice(c) == IF AnyCommit THEN 0..(MaxRecords - 1)
                   ELSE {client[c].pos - 1}

-----------------------------------------------------------------------------
(* The client has processed its batch and calls CommitOffset, which checks *)
(* the offset against the end of the log, under p.mu.                      *)

(* Mutant: the offset is not checked.                                      *)
Commit_Check_NoRange(c) ==
    LET g == GroupOf(c) IN
    /\ client[c].at = "holding"
    /\ \E off \in CommitChoice(c) :
         client' = [client EXCEPT ![c].at = "validated", ![c].off = off]
    /\ delivered' = [delivered EXCEPT ![g] = @ \cup client[c].batch]
    /\ UNCHANGED <<partition, meta, clamp, faults, exempt, sheltered>>

Commit_Check(c) ==
    LET g == GroupOf(c) IN
    /\ client[c].at = "holding"
    /\ \E off \in CommitChoice(c) :
         client' = [client EXCEPT ![c] =
                      IF 0 <= off /\ off < Latest
                      THEN [@ EXCEPT !.at = "validated", !.off = off]
                      ELSE Idle]                   \* ErrOffsetOutOfRange
    /\ delivered' = [delivered EXCEPT ![g] = @ \cup client[c].batch]
    /\ UNCHANGED <<partition, meta, clamp, faults, exempt, sheltered>>

(* CommitOffset, under gmu: change the offset, save, and keep the change   *)
(* only if the save succeeded.                                             *)
Commit_Write(c) ==
    LET g == GroupOf(c)
        off == client[c].off
    IN
    /\ client[c].at = "validated"
    /\ g \in groups.joined
    /\ groups' = Committing(g, off)
    /\ Save(Committing(g, off))
    /\ client' = [client EXCEPT ![c] = Idle]
    /\ sheltered' = IF Protected(off + 1) THEN sheltered \cup {g}
                    ELSE IF clamp = None \/ off < groups.committed[g]
                    THEN sheltered \ {g} ELSE sheltered
    /\ UNCHANGED <<partition, clamp, faults, delivered, exempt>>

(* Mutant: the change is kept in memory although it is not on disk.        *)
Commit_WriteFail_NoRollback(c) ==
    /\ client[c].at = "validated"
    /\ GroupOf(c) \in groups.joined
    /\ groups' = Committing(GroupOf(c), client[c].off)
    /\ SaveFail
    /\ client' = [client EXCEPT ![c].at = "holding", ![c].off = 0]
    /\ UNCHANGED <<partition, clamp, history>>

Commit_WriteFail(c) ==
    /\ client[c].at = "validated"
    /\ GroupOf(c) \in groups.joined
    /\ SaveFail
    /\ client' = [client EXCEPT ![c].at = "holding", ![c].off = 0]
    /\ UNCHANGED <<partition, groups, clamp, history>>

(* The outcome is uncertain: the cursor a restart finds may be either one. *)
Commit_SyncFail(c) ==
    LET g == GroupOf(c) IN
    /\ client[c].at = "validated"
    /\ g \in groups.joined
    /\ SaveSyncFail(Committing(g, client[c].off))
    /\ client' = [client EXCEPT ![c].at = "holding", ![c].off = 0]
    /\ sheltered' = sheltered \ {g}
    /\ UNCHANGED <<partition, groups, clamp, delivered, exempt>>

(* groupTopicLocked fails: a restart forgot a join that was never saved.   *)
Commit_NotJoined(c) ==
    /\ client[c].at = "validated"
    /\ GroupOf(c) \notin groups.joined
    /\ client' = [client EXCEPT ![c] = Idle]
    /\ UNCHANGED <<partition, meta, clamp, faults, history>>

(* The client is killed; a new one starts over.                            *)
Client_Restart(c) ==
    /\ client[c].at # "idle"
    /\ Fault
    /\ client' = [client EXCEPT ![c] = Idle]
    /\ UNCHANGED <<partition, meta, clamp, history>>

-----------------------------------------------------------------------------
(* Mutant: a group without a commit does not count.                        *)
Boundary_CommittedOnly ==
    MinOf({MaxRecords} \cup {NextFetch(g) : g \in {h \in groups.joined :
                                              groups.committed[h] # None}})

(* retentionClampsLocked: the least cursor of the joined groups.           *)
Boundary == MinOf({MaxRecords} \cup {NextFetch(g) : g \in groups.joined})

(* EnforceRetention takes the clamp under gmu ...                          *)
Pass_Snapshot ==
    /\ clamp = None
    /\ clamp' = Boundary
    /\ UNCHANGED <<partition, meta, client, faults, history>>

(* ... and deletes under p.mu sealed segments that end at or below it.     *)
(* Which of them have expired is left open: the age policy looks at each.  *)
Deletable == {b \in segments : EndsBy(b, clamp)}

Pass_Delete ==
    /\ clamp # None
    /\ \E gone \in SUBSET Deletable :
         /\ segments' = segments \ gone
         /\ dir' = dir \ gone
         /\ durDir' = IF gone = {} THEN durDir ELSE dir'
    /\ clamp' = None
    /\ UNCHANGED <<log, bases, synced, nextId, meta, client, faults, history>>

(* A pass in which a step fails.  A segment whose .log is gone but not its *)
(* .index is still served until a later pass or a restart; a sync of the   *)
(* directory that fails is not tried again before the next roll, deletion  *)
(* or restart, and a power loss until then may undo what was unlinked.     *)
Pass_Fail ==
    /\ clamp # None
    /\ Fault
    /\ \E unlinked \in SUBSET Deletable : \E gone \in SUBSET unlinked :
         /\ segments' = segments \ gone
         /\ dir' = dir \ unlinked
         /\ durDir' \in IF gone = {} THEN {durDir} ELSE {durDir, dir'}
    /\ clamp' = None
    /\ UNCHANGED <<log, bases, synced, nextId, meta, client, history>>

-----------------------------------------------------------------------------
(* Requests in flight end with the broker; a client still has its batch.   *)
Dropped ==
    [c \in Client |->
       IF client[c].at \in {"snapshot", "ranged"} THEN Idle
       ELSE IF client[c].at = "validated"
       THEN [client[c] EXCEPT !.at = "holding", !.off = 0]
       ELSE client[c]]

(* The process dies and is restarted; every completed write survives.      *)
(* Opening rewrites the indexes, which syncs the directory.                *)
ProcessCrash ==
    /\ Fault
    /\ groups' = saved
    /\ segments' = dir /\ durDir' = dir
    /\ client' = Dropped
    /\ clamp' = None
    /\ UNCHANGED <<log, bases, dir, synced, nextId, saved, stable, history>>

(* Clients of g that hold a batch reaching beyond the offset o.            *)
HolderBeyond(g, o) ==
    \E c \in Client : /\ GroupOf(c) = g
                      /\ client[c].at \in {"holding", "validated"}
                      /\ o < client[c].pos

(* The machine dies: the log keeps what was synced and perhaps more, the   *)
(* directory any deletion that was not synced or not, and groups.json is   *)
(* any version whose rename may have reached the disk.                     *)
OSCrash ==
    /\ Fault
    /\ \E n \in synced..Latest, v \in stable, files \in SUBSET durDir :
         LET lost == n..(Latest - 1)
             found == (Held(files) \cap 0..(n - 1)) \ Readable
         IN
         /\ dir \subseteq files
         /\ log' = SubSeq(log, 1, n)
         /\ synced' = n
         /\ segments' = files /\ dir' = files /\ durDir' = files
         /\ groups' = v /\ saved' = v /\ stable' = {v}
         /\ disowned' = [g \in Group |->
                           disowned[g] \cup {o \in lost : o <= v.committed[g]}]
         /\ returned' = [g \in Group |->
                           returned[g] \cup
                             {o \in found : o <= v.committed[g]}]
         /\ stale' = [g \in Group |->
                        stale[g] \cup
                          {o \in lost \cup found : HolderBeyond(g, o)}]
    /\ client' = Dropped
    /\ clamp' = None
    /\ UNCHANGED <<bases, nextId, delivered, sheltered>>

-----------------------------------------------------------------------------
FetchStep(c) == Fetch_Snapshot(c) \/ Fetch_Offsets(c) \/ Fetch_Read(c)

CommitStep(c) == \/ Commit_Check(c)
                 \/ Commit_Write(c) \/ Commit_NotJoined(c)

Next ==
    \/ \E roll \in BOOLEAN, acks \in {"none", "leader"} :
         AppendRecord(roll, acks)
    \/ \E c \in Client :
         \/ Join(c) \/ Join_Fail(c) \/ Join_SyncFail(c)
         \/ FetchStep(c)
         \/ CommitStep(c) \/ Commit_WriteFail(c) \/ Commit_SyncFail(c)
         \/ Client_Restart(c)
    \/ Pass_Snapshot \/ Pass_Delete \/ Pass_Fail
    \/ ProcessCrash \/ OSCrash

Spec == Init /\ [][Next]_vars

(* Clients poll for ever, and a request the broker accepted is served: its *)
(* goroutine waits only for gmu and p.mu, which are always released.       *)
Fairness == \A c \in Client : WF_vars(FetchStep(c)) /\ WF_vars(CommitStep(c))

FairSpec == Spec /\ Fairness

-----------------------------------------------------------------------------
ClientState == [at : Phase, pos : Offset, batch : SUBSET Id,
                off : 0..(MaxRecords - 1)]

(* Every variable has its type; a segment is sealed only once synced; a    *)
(* segment on disk is served and survives a power loss, and the active     *)
(* segment is on disk.                                                     *)
TypeOK ==
    /\ log \in Seq(Id) /\ Len(log) < nextId /\ nextId \in 1..(MaxRecords + 1)
    /\ bases \in SUBSET Offset
    /\ synced \in 0..Len(log)
    /\ \A b \in bases : b <= synced
    /\ dir \subseteq segments /\ segments \subseteq bases
    /\ dir \subseteq durDir /\ durDir \subseteq bases
    /\ \E b \in dir : \A x \in bases : x <= b
    /\ groups \in Meta /\ saved \in Meta /\ stable \in SUBSET Meta
    /\ client \in [Client -> ClientState]
    /\ clamp \in None..MaxRecords
    /\ faults \in 0..MaxFaults
    /\ delivered \in [Group -> SUBSET Id]
    /\ disowned \in [Group -> SUBSET Offset]
    /\ returned \in [Group -> SUBSET Offset]
    /\ stale \in [Group -> SUBSET Offset]
    /\ sheltered \in SUBSET Group

(* At least once (PLAN.md, design rule 4): a readable record that a        *)
(* group's committed offset has passed was processed by the group.  Only a *)
(* crash of the machine makes exceptions, and only for this group: offsets *)
(* it had committed when the crash took their records, records deleted by  *)
(* retention that the crash brought back below its cursor, and offsets the *)
(* crash changed below a batch that one of its clients still held.  The    *)
(* last is not what DURABILITY.md:51-53 says: such a client commits the    *)
(* batch once the offsets are filled again, and the new records are passed.*)
Passed(g) == {o \in Readable : o <= groups.committed[g]}
Exempt(g) == disowned[g] \cup returned[g] \cup stale[g]

AtLeastOnce ==
    \A g \in Group : \A o \in Passed(g) :
        log[o + 1] \in delivered[g] \/ o \in Exempt(g)

(* Retention respects cursors across crashes: once a join or a commit has  *)
(* succeeded between two passes with nothing at or above the cursor gone,  *)
(* the records from the group's cursor on stay on disk until the group     *)
(* rewinds or gets an uncertain answer.                                    *)
CursorProtected ==
    \A g \in sheltered : g \in groups.joined /\ Whole(NextFetch(g))

(* The clamp as PLAN.md states it: a pass deletes nothing that a joined    *)
(* group still needs.                                                      *)
ClampHolds ==
    [][\A g \in groups.joined :
         \A b \in dir \ dir' : EndsBy(b, NextFetch(g))]_vars

(* A cursor beyond the end of the log, the negative lag of /debug/lag, is  *)
(* evidence of loss: the group had committed that offset before a crash    *)
(* took its record.                                                        *)
NegativeLagMeansLoss ==
    \A g \in Group : groups.committed[g] >= Latest =>
                        groups.committed[g] \in disowned[g]

(* A joined group with a live client catches up: from some time on its     *)
(* committed offset is past every readable record.                         *)
CatchesUp == <>[](\A g \in groups.joined : Passed(g) = Readable)
=============================================================================
