# marchiq in TLA+

marchiq is a single-broker, Kafka-shaped log in Go: topics with partitions,
an append-only segmented log per partition, consumer groups with static
membership and committed offsets, retention by age and size, and a thin HTTP
layer. Everything that matters happens in `storage/`. This directory holds TLA+
models of that code, the TLC configurations that check them on small
instances, and proofs checked by TLAPS.

Line numbers refer to files under `storage/` unless a path is given;
`PROJECT.json` has the exact lines behind every definition.

## 1. The system

| Component | State | Operations | Talks to |
|---|---|---|---|
| Partition log (`partition_log.go`) | `p.segments`, `p.nextOffset`, `p.failed`; `.log`/`.index` files and their directory | `Append` (with roll), `ReadFrom`, `Offsets`, `openPartition`, `Close` | called by the broker, the groups and retention; all under `p.mu` |
| Retention deletion (`retention.go`, `enforceRetention`) | the same, file times | selects sealed segments by age and size, unlinks them, syncs the directory | under `p.mu`, with the clamp as an argument |
| Retention pass (`EnforceRetention`, `retentionClampsLocked`) | the clamp, a local snapshot | snapshot of topics (`mu`), of cursors (`gmu`), then every partition | groups and partition logs |
| Retention janitor (`retentionLoop`, `SetRetentionInterval`) | interval, kick and stop channels | timer loop, re-timing, stop | `Close` waits for it |
| Group cursors (`group.go`) | `gt.Offsets`, `meta/groups.json` | `FetchGroup`, `CommitOffset`, `GroupLag` | partition logs (`p.mu`), retention reads the cursors |
| Group membership (`group.go`) | `gt.Size`, `gt.Members`, `meta/groups.json` | `JoinGroup`, member lookup of `FetchGroup` | same file, same lock `gmu` |
| Catalog and broker (`topic.go`, `types.go`) | `b.topics`, `b.closed`, `meta/topics.json`, `topics/` | `OpenWithConfig`, `CreateTopic`, `Close`, `InitDirs` | opens every partition log, starts the janitor |
| Produce routing (`topic.go`) | round-robin counter, produce counters | `Produce`, `resolvePartition` | partition logs; answers through the HTTP layer |
| Broker lifecycle (`topic.go`, `cmd/marchiq`) | `b.closed`, each `p.closed`, `mu`, `gmu`, `p.mu` | `Close` against everything else | waits for the janitor, then closes the partitions |
| Sparse index (`index.go`) | in-memory entries, `.index` files | `lookupIndex`, `rewriteIndexFile` | `ReadFrom`, `openSegment` |
| Record codec (`record.go`) | none | encode, decode | the partition log's scan |
| HTTP layer (`cmd/marchiq`) | none between requests | parse, call, map errors | the broker |
| Demo client (`cmd/demo`) | one batch at a time | join, fetch, print, commit | HTTP |

What is hard in this code, and what makes each part correct:

- **Crashes between system calls.** An append is index write, frame write, two fsyncs;
  a roll is two fsyncs, two `O_EXCL` creates, an fsync and a directory sync; a
  retention pass is pairs of unlinks and one directory sync. A process crash keeps the
  page cache, a power loss keeps only what was synced plus an arbitrary part of the
  rest. *Correct* means: acknowledged (acks=1) records survive at their offset, an
  acknowledged record never has a hole below it, and `openPartition` never refuses
  what the program itself left behind.
- **Steps that fail and are reported.** Write, sync and roll errors fence the
  partition; save errors roll the in-memory commit back but not an in-memory join; a
  failed directory sync after a rename leaves two possible files. *Correct* means:
  memory never promises what a restart may take back, or the caller is told.
- **State read under one lock and used under another.** `FetchGroup` reads the cursor
  under `gmu`, the offsets and the records under two separate critical sections of
  `p.mu`; `CommitOffset` validates under `p.mu` and writes under `gmu`; a retention
  pass takes its clamp under `gmu` and deletes under `p.mu`. *Correct* means:
  at-least-once delivery, and no deletion of what a joined group needs.
- **Log rewinds.** acks=0 records lost in a power loss rewind the LEO, and offsets are
  handed out a second time while groups and clients still hold the old ones.
- **Bytes and positions.** Offsets are nowhere on disk: they are counted by the scan,
  by the append and by the sparse index, which must agree for every mix of frame
  sizes, torn tails and restarts. *Correct* means: a read through the index returns
  what a scan of everything would.
- **Locks and goroutines.** `Close` takes `mu` and `gmu`, then waits for a janitor
  that takes both and every partition lock; an interval change must reach a janitor
  that is already waiting.
- **Answers that are late or lost.** A producer that gives up leaves its request
  running in the broker, and may send the record again.
- **Progress.** A group whose records were deleted or lost must go on; every call must
  return.

`PROJECT.json` lists these as hazards, each at its line, with the properties
that cover it or the reason why none does yet.

## 2. The models

### PartitionLog

One partition over a disk that separates what is visible from what is durable.

| Model | Code |
|---|---|
| `segments`, `active`, `records`, `nextOffset`, `failed` | `p.segments`, `p.active()`, each `Segment.records`, `p.nextOffset`, `p.failed != nil` |
| `pc`, `op`, `doomed`, `gone` | how far the operation that holds `p.mu` has come |
| `frames`, `tail`, `synced` | the whole frames of each `.log`, what follows them, how many are on stable storage |
| `dir`, `durDir` | the `.log` entries of the directory, and as of its last sync |
| `published`, `acked`, `released` | history: records made visible, acknowledged with acks=1, and segments retention decided to delete |

`Append` is cut at its system calls: `Append_Start` (checks, roll decision),
`Roll_Seal`, `Roll_Create`, `Roll_Finish`, `Append_Write`, `Append_Sync`, each
with the failure that fences the partition. `enforceRetention` is
`Retention_Start`, one `Retention_Unlink` or `Retention_UnlinkFail` per segment, and
`Retention_Finish`. `ProcessCrash` (which is also `Close` between two
operations) and `OSCrash` may come between any two of these; `OpenPartition` is
the scan, with the truncation of a torn tail and the refusals.

A power loss keeps of each file a prefix that contains what was synced, perhaps
with a torn frame behind it, and keeps or drops every unsynced directory change.

Left out: frame sizes (an append to a non-empty segment may roll or not,
which covers every size and limit), keys, values and times (a record is an
identity), the sparse index, and the policy by which retention picks segments
(any sealed ones, or a prefix if `SteppedClock` is `FALSE`). An `.index` file whose
`.log` was lost in a power loss is not modelled: a later roll at that very
offset then fails once on `O_EXCL` and fences the partition until it is reopened.

### DurableLog and PartitionLogRefinement

DurableLog says what a partition promises, with no segments, files or system
calls: a log that readers see, the records it owes them (`kept`), and those it owes them
even after a power loss (`safe`). Appending adds to the end; retention first
releases records and only then may drop them; a crash forgets everything but the
debts; recovery brings back at least what is owed, in order, each record once, and
possibly records of uncertain appends or ones already released.

PartitionLogRefinement maps PartitionLog onto it: the log is what `ReadFrom`
serves from the segments in memory, a debt begins when `Append` publishes and
ends when `enforceRetention` selects the segment. `Implements` is the abstract
specification under that mapping, checked as a property of `partition_log`.

### GroupCursor

Groups over one partition, together with the retention pass that reads their
cursors and clients that run the loop of `cmd/demo` (fetch, process, commit
`next_offset - 1`). Steps are cut exactly where the code releases a lock:

| Model | Code |
|---|---|
| `groups`, `saved`, `stable` | `b.groups`; the content of `groups.json`; what it may hold after a power loss |
| `client[c]` | a client and its request: `idle`, `snapshot` (cursor read), `ranged` (offsets read), `holding` (a batch), `validated` (commit checked, not written) |
| `clamp` | the pass's snapshot of the clamp, `None` between passes |
| `log`, `synced`, `bases` | the records appended, how many are on stable storage, the base offsets of all segments there ever were |
| `segments`, `dir`, `durDir` | the segments in `p.segments`, those with a file, those whose file would be there after a power loss |
| `delivered`, `sheltered` | history: records each group processed, groups the clamp has promised to protect |
| `disowned`, `returned`, `stale` | history, per group: offsets it had committed when a power loss took their records; offsets it had passed when a power loss brought their deleted records back; offsets changed either way below a batch that one of its clients held |

The partition's own steps are taken whole, as PartitionLog cuts them, but not what they
may leave behind. `Pass_Delete` is a pass whose system calls all succeed. `Pass_Fail` is
one where some do not: the loop goes on behind a segment whose unlink failed
(`retention.go:210-214`), which leaves a gap in `segments`; a segment whose `.log` is
gone while its `.index` could not be removed is served until the next pass or restart; and
a failed sync of the directory is only collected (222-226), so that an `OSCrash` may bring
deleted segments back. Until a roll, a pass or a restart syncs the directory, `durDir`
keeps them.

`saveGroupsLocked` succeeds, fails before the rename (`..Fail`) or fails at
the directory sync after it (`..SyncFail`); `CommitOffset` rolls memory back in
both cases, `JoinGroup` in neither. A group may have several clients under one
member name: a consumer taken for dead that is still running beside its successor.

The deletion is looser than the code in one respect: it may remove any segments at or
below the clamp, since which ones have expired depends on times (file times need not
grow, see section 4). `clamp = MaxRecords` when no group joined stands for
"unclamped".

### Membership

`JoinGroup` and the member lookup of `FetchGroup` for one group and topic: size
conflicts, full groups, rejoins, invented names, failing saves, crashes. A
join is one step because `gmu` is held from the lookup to the end of the save. The
name "member-k" is the number k, other names are larger numbers, 0 is the empty
name.

### Catalog

`CreateTopic` at its system calls, `saveCatalog` with both failures, crashes, and
`OpenWithConfig`. A topic's directory is `none`, `partial`, `whole` (its own
content synced) or `durable` (its entry in `topics/` too). Partitions are not
modelled one by one; `written` records that a topic holds an acks=1 record. The
initial state has `meta/` and `topics/` on stable storage: the program never
syncs those two entries (`types.go:244`), so this is an assumption about how the
data directory was set up, see section 6.

### Segments

The inside of the segments that PartitionLog leaves out. A file is a sequence of
chunks, one per write, each with its size and how much of it is there; positions are byte
counts, so that an index entry that is off by anything points between frames.

| Model | Code |
|---|---|
| `Decode`, `Good`, `ScanIndex`, `Opened` | `DecodeRecord` at one frame, the `lastGood` boundary and index of `scanSegment`, `openSegment` |
| `Indexed`, `Written`, `Rolled` | the index rule, the write and the roll rule of `Append` |
| `LookupIndex`, `ScanFrom`, `Budgeted`, `ReadFrom` | `lookupIndex` and the loops of `ReadFrom` |
| `SealedBelow`, `Expired`, `OverBudget`, `Doomed`, `Retention_Pass` | the clamp, age and size loops of `enforceRetention` |

`Surviving` is the reference definition that reads are compared with: every whole
frame, in file order. Each operation is one step, since all of them hold `p.mu`; the
failures kept are the short write, the restart, and a wall clock that may be stepped
either way. `Wrap` is the signed 64-bit arithmetic of `time.Duration`, with `SignBit`
for 2^63. `Picked` is a loop that keeps some elements of a list, as
`enforceRetention` builds `kept` and `ReadFrom` skips the records before the offset. The
`.index` files are left out because nothing reads them.

### Lifecycle

Who holds which lock. An operation is the list of its critical sections (`Produce`
is a read section of `mu`, then a write section of the partition's lock), and each
section can find its closed flag set and end the operation with `ErrClosed`. The
locks are Go's `RWMutex`: `Lock` first announces itself, which holds up new readers,
then waits for the readers inside. `retentionLoop`, `SetRetentionInterval` and
`Close` are modelled line by line, with channels as counts of how often they were
closed, because closing one twice is a panic.

The model has the two setters' race on the kick channel, two concurrent `Close`
calls, and a request of every kind at every point of them. It leaves out the five
seconds that `server.Shutdown` waits for requests (`cmd/marchiq/main.go:484`):
`Close` may come at any moment.

### Produce

Producers against one topic. Handlers live in the set `handlers` and go through
routing, the append and the counter, with the partition's lock around the append only.
A producer waits for an answer, or gives up and sends the record again while the
handler goes on; an answer nobody expects goes nowhere. An answer that is lost is
therefore one given after the producer gave up, and needs no action of its own. The
topic may be created at any time, between two attempts too: `Route_NoTopic` is the 404
of the lookup that every request begins with, the only rejection that depends on when
it is asked for. The demo producer stops instead of retrying, which is the case of a
producer that takes no further step; DURABILITY.md:27-29 tells callers that retries
may duplicate.

An uncertain append may leave the record in the file or not; the next start
publishes what is there. `SignBit` is 2^63 (2^31 for a 32-bit `int`), `Signed` and `GoMod`
are Go's conversion and remainder.

## 3. The runs

| Run | Properties | Bounds | Shows |
|---|---|---|---|
| `partition_log` | `TypeOK` `AckedDurable` `AckCoversPrefix` `PublishedReadable` `NeverRefused` `RollNameFree` `Implements` | 4 appends, offsets up to 3 | the durability contract, and that it implements DurableLog, under every failure and any number of crashes |
| `segments` | `TypeOK` `ReadsAgree` `SeeksAreShort` `RebuildAgrees` `OpenAccepts` `DeletedByPolicy` `PassSettles` | 4 records of sizes 3 and 5, segments of 9 bytes, an index entry per 4, one restart or short write, 3 instants, `SignBit` 8 | index, scan and retention policy agree for every mix of sizes, cuts and times |
| `retention_overflow` | `DeletedByPolicy` | the same with values of `retention_ms` near the end of the word | violated: finding 4 |
| `group_cursor` | `TypeOK` `AtLeastOnce` `NegativeLagMeansLoss` `CursorProtected` | 1 group, 2 clients under one name, 3 records, 2 faults | at-least-once with disciplined clients, but for what a power loss changes under the group itself, and retention that respects settled cursors |
| `catch_up` | `CatchesUp` | 1 group, 2 clients, 3 records, 1 fault, fairness | a group always gets to the end of what can be read, gaps included |
| `clamp_race` | `ClampHolds` | 1 group, 1 client, 3 records, no fault | violated: finding 1 |
| `membership` | `TypeOK` `AssignmentHonoured` | 3 clients, sizes 1 to 3, 3 faults | an answered join holds for good |
| `member_names` | `NoDuplicatePartition` | 3 clients, size 2, no fault | violated: finding 2 |
| `catalog` | `TypeOK` `CreatedSurvives` `NeverRefused` `ServesPublished` | 3 topics, 3 faults | an acknowledged topic survives |
| `uncertain_catalog` | `WrittenSurvives` | 2 topics, 3 faults | violated: finding 3 |
| `lifecycle` | `TypeOK` `NothingAfterClose` `JanitorGoneFirst` `IntervalApplied` `EveryCallReturns` | 2 partitions, a request, a setter, a closer, and a goroutine that does either; any number of passes; fairness | no deadlock, nothing at work after `Close`, no interval change missed |
| `produce` | `TypeOK` `AckNamesRecord` `KeyOrder` `CleanRejection` `PanicsLate` `CountsThisProcess` | 3 partitions, 2 producers with 2 records each, one retry, one restart, a topic created at any time, 2-bit ints | acknowledgements, key placement and order, rejections and counters under retries and lost answers |

**Why the bounds are enough.** Every protocol here is about the relation of two
neighbours: sealed and active segment, old and new file, cursor and clamp. Offsets 0
to 2 fill up to three segments, or two of which one holds two records; a fourth append
meets the overflow check, or refills an offset after a rewind. Crashes are not bounded
in PartitionLog at all: the number of append attempts bounds the behaviour. Three
records and two faults let a power loss cut the log, a second append refill it, and a
stale client and its successor race on it; or a failed pass leave a gap, or a deletion
which the power loss that follows takes back. One fault is enough for `CatchesUp`:
what is hard for it, passes that leave gaps and two clients that race, needs none, and
a gap can lie below an empty active segment once a power loss has cut the log. Faults
(crashes, client restarts, failed saves and passes) are counted because the log may be
cut and refilled without end otherwise.

In Segments, frames of 3 and 5 bytes, segments of 9 and an index interval of 4 give
segments of one to three records, index entries for each record, or for some of them
only, and cuts inside the prefix, right behind it, and inside the body. In Lifecycle
one request is enough, because requests share nothing with one another but the locks,
which the janitor and the setter contend for too. In Produce two records with one key,
one of them retried, are the shortest way to disorder, and with 2-bit ints the
round-robin counter turns negative after two uses and wraps after four.

**Symmetry** is used over clients, the clients of a group, or topics in runs with
invariants only; the values are interchangeable in the models. The liveness runs use none.

**Deadlock** is checked, in `lifecycle` as a property of the locks themselves, except in
Produce (every record sent and answered), in Membership (three slots of anonymous members
may all be taken and, once the faults are used up, every join is refused) and in
Catalog (a topic left half-created needs manual cleanup, and a broker that
refuses to start stays down). These ends are what the code does.

**Fairness.** GroupCursor's `FairSpec` asks for weak fairness of every client's fetch
steps and of its commit steps. Clients poll in a loop that retries failed fetches
(`cmd/demo/main.go:166`), and a request that the broker accepted runs in its own
goroutine that waits only for `gmu` and `p.mu`, both of which every operation releases
on all paths. The demo exits when a commit fails; fairness then stands for its being
started again. Nothing is assumed of appends, retention passes, joins or faults:
faults and appends stop because they are bounded, passes may go on for ever.
`CatchesUp` has content because a stale client may rewind the cursor behind its
successor, and because a pass may delete between a fetch's two looks at the partition,
so a single fetch may fail.

Lifecycle's `FairSpec` asks for weak fairness of the janitor, the setters and the
closers: a goroutine that can go on does. It asks for strong fairness where others may
come and go for ever: of a request's sections, since the janitor may take a
partition's lock again and again (a Go mutex hands over to a waiter that has starved
for a millisecond, and a waiting writer holds up new readers), and of the janitor's
stop and kick cases, since its select picks at random among those that are ready.
Nothing is assumed of the timer, whose interval may be as long as one likes, so
`IntervalApplied` cannot lean on it, nor that any call is made.

Each property has a mutant: a changed definition, written beside the original
and marked as such, that a plausible slip in the code would produce (a missing
directory sync, a dropped fence, the high watermark used as `next_offset`) and
that makes the run fail.

## 4. Findings

1. **Clamp race.** `EnforceRetention` reads the clamps under `gmu` (95-98) and deletes
   later. A group that joins in between, or commits an older offset, has records
   deleted that PLAN.md:220 promises to keep, and is moved up to the earliest survivor
   without an error. `CursorProtected` states what does hold, and is proved: a cursor
   that was settled between two passes is safe until its group rewinds or gets an
   uncertain answer.
2. **Invented member names.** `member-N` (`group.go:112`) may be a name some client
   chose. Two ordinals then carry one name, the lookup finds the first, and one
   partition is served twice while the other is served to nobody.
3. **Uncertain catalog.** When the directory sync after the rename of `topics.json`
   fails, `CreateTopic` returns an error and the broker carries on, where FORMAT.md:58
   asks to stop catalog changes. A restart serves the topic, acks=1 records go into
   it, and a power loss may still undo the rename.
4. **Overflow of `retention_ms`.** `retention.go:167` multiplies by 10^6 in 64 bits.
   `Validate` (`types.go:75`) accepts every value that is not negative; above 9.2e12
   (292 years, or "for ever") the product wraps, and for the largest value the cut-off
   lies one millisecond in the future: every sealed segment below the clamp is deleted
   at once. That nothing else makes a pass delete against the policy is proved
   (`DeletedByPolicyHolds`).

Seen while modelling, without a run of their own: the comment at
`group.go:233-236` ("never skip data ... new records arriving at the reused
offsets are delivered from here") disagrees with the code and with
DURABILITY.md:45-50, since a group that had committed the lost offsets
skips their successors; `FetchGroup` may return ErrOffsetOutOfRange when a pass
deletes between its two looks at the partition, although the comments promise a
clamp; and the high watermark in its response may be older than the records
beside it. Further:

- `retention.go:143` says segments are contiguous. An unlink that fails is skipped
  (210-214) and the loop deletes later segments, so the list gets a gap, which
  `ReadFrom` jumps without an error; with file times that do not grow the age loop
  even selects a set that is no prefix (179). When only an empty active segment is
  left above the gap, `ReadFrom` below the LEO returns nothing, where line 261 of
  `partition_log.go` promises at least one record. No published live record is lost by
  this: `PublishedReadable` and `Implements` hold with such selections.
- Above such a gap a group whose cursor lies in it gets an empty answer, although its
  lag is positive, until a pass drops the segment below the gap or a record is
  appended. It misses nothing: `CatchesUp` speaks of the records that can be read.
- The size loop counts later segments that the age loop has doomed already, so with
  such file times it may delete more than the budget asks for. `DeletedByPolicy`
  therefore asks for each deleted segment that it was too old, or that it and
  everything behind it were over the budget.
- A client that fetched records before a power loss took them, and commits them after
  new appends have filled the offsets again, passes the range check of `CommitOffset`
  (`group.go:142`), and its group never sees the new records. DURABILITY.md:51-53
  promises them to every group whose committed offset is below the loss. `AtLeastOnce`
  excepts just these offsets (`stale`), for the group in question only; without the
  exception TLC finds the skip with one client, two records and one power loss.
- A pass whose directory sync failed has deleted segments that a power loss may bring
  back. A group that joined meanwhile was moved up to the earliest survivor, and by
  its first commit has then passed readable records that it never saw (`returned`).
- A producer whose retry is answered 404 (no such topic) may find the record in the
  log all the same: the topic is created, and the first attempt, still running, looks
  it up after that. `CleanRejection` and `KeyOrder` except only such records
  (`doubtful`).
- `openSegment` opens the `.index` and then renames a new file over it
  (`partition_log.go:98-103`), so later entries go to an unlinked file. Nothing reads
  them back.
- A second concurrent `Close` returns at once, before the first has finished
  (`topic.go:309-313`).
- With a retry still running, the duplicate of a record may land behind newer records
  of its key: first copies are in order (`KeyOrder`), last copies need not be.
- A panic of `resolvePartition` needs 2^63 keyless produces, but 2^31 where an `int`
  has 32 bits (`topic.go:236`).
- The join handler answers 400 when the save failed (`cmd/marchiq/main.go:307`),
  although the member stays in memory and may be on disk.

## 5. What is proved

The eight modules named `...Proofs` hold for every value of the constants: any number
of offsets, records, groups, clients, topics, partitions, goroutines, crashes and
retries. They assume what the `ASSUME`s of the modules say, and what the paragraphs below
name for single theorems (`~AnyCommit`, `~Clash`, no overflow of `retention_ms`). Every
invariant below was model-checked before it was proved. With them every safety property
that a passing run checks is a theorem.

| Module | Theorems | State |
|---|---|---|
| `PartitionLogProofs` | `Inductive` | `TypeOK` `AckedDurable` `AckCoversPrefix` `PublishedReadable` `NeverRefused` `RollNameFree` |
| `PartitionLogRefinementProofs` | `OrderInductive`, `PartitionKeepsContract` | `Implements` |
| `GroupCursorProofs` | `CursorInductive`, `CursorIsProtected`, `CommittedWasProcessed`, `LagIsEvidence` | `TypeOK` `CursorProtected` `AtLeastOnce` `NegativeLagMeansLoss` |
| `ProduceProofs` | `ProduceInductive` and one per property | `TypeOK` `AckNamesRecord` `KeyOrder` `CleanRejection` `PanicsLate` `CountsThisProcess` |
| `CatalogProofs` | `CatalogInductive` and one per property | `TypeOK` `CreatedSurvives` `NeverRefused` `ServesPublished` |
| `MembershipProofs` | `MembershipInductive`, `JoinHoldsForGood`, `MembersAreDisjoint` | `TypeOK` `AssignmentHonoured` `NoDuplicatePartition` |
| `LifecycleProofs` | `LifecycleInductive` and one per property | `TypeOK` `NothingAfterClose` `JanitorGoneFirst` |
| `SegmentsProofs` | `SInvHolds`, `ReadsAgreeForAnyBudget` and one per property | `TypeOK` `ReadsAgree` `SeeksAreShort` `RebuildAgrees` `OpenAccepts` `DeletedByPolicy` `PassSettles` |

**PartitionLog.** All six properties follow from one inductive invariant, `IInv`.
None of them is inductive alone: that an acknowledged record stays synced
depends on where its segment lies among the others, and that on what the
steps of a roll leave behind. The conjuncts:

- `DiskOrdered`: no tail is corrupt; of two files on disk the lower one is
  sealed, clean, entirely synced, and ends before the higher one begins. This is
  why only the last file can be torn and `openPartition` does not refuse.
- `Anchored`: a durable file lies above everything retention released, so the
  directory is never empty and the numbering never restarts.
- `Quiet`, `MemoryMatches`: memory of an open partition describes those files;
  unless fenced, the active file is the highest and its tail clean.
- `WriterMatches`: what each step of `Append` finds when it starts.
- `EntriesPresent`: every live published entry is in its file.

`PublishedIsReadable` and `AckCovers` follow from it with `OffsetOrder` (a lower
offset lies in the same segment or in a lower one).

**The refinement.** `PartitionKeepsContract` shows that every step of PartitionLog,
failures and crashes included, is a step of DurableLog or none. `IInv` is not
enough: it says where published records are, while the contract also forbids that a
record, published or left behind by a failed append, shows up twice or out of order
after a restart. `RInv` adds that the frames of all files, read by offset, are in
the order in which they were offered (`FramesOrdered`), and that the record an append
has yet to write is newer than all of them (`OpIsNewest`).

**GroupCursor.** `CursorProtected` needs `Sheltered`: for a sheltered group, memory
and *every* version of `groups.json` that a restart may find have it joined at the
same cursor, every segment that is gone from the disk ends at or below that cursor
(`Whole`), and a clamp in progress is not above it. The quantifier over versions is
what carries it through failed saves and crashes. Type correctness includes that no
segment starts above what is synced, which is why a power loss never cuts the log
below a base, and that a file in the directory survives a power loss, which brings
files back but takes none. The runs have one group only; for several, all four
properties rest on the proofs.

`AtLeastOnce` needs `DoneInv`, which says of every version, and not only of the groups
in memory, that each offset it has passed is `Behind` the group: exempt for this very
group, not readable, or held by a record the group processed. Of every client it says
that each offset below its position is behind its group or in the batch it holds
(`InHand`), and that an offset it has validated ends within a batch it has processed.
The heart of the proof is `StepOnward`: no step but a power loss takes back a
deletion, a delivery, an exemption, or the record at an offset, which is why positions
read earlier may be used later. A power loss does take back deletions and records
(`CrashVersion`, `CrashInHand`), and each offset it changes is exempted for just those
groups that had passed it or had a client holding a batch beyond it. The theorem
assumes `~AnyCommit`, the loop of `cmd/demo`; a client that commits offsets it did not
process has no such guarantee, because the broker believes it. `NegativeLagMeansLoss`
needs no such assumption; its `LossInv` again covers all versions, and the offsets
that were validated but not yet written.

**Produce.** `KeyOrder` rests on what a producer knows when it turns to its next
record: the one before is in the log or can never get there. `PastWritten` says so of
each handler that runs for an attempt its producer has given up: if that handler may
still write, a copy of its record is there already, so it adds a second copy and never
a first; or the record was answered "no such topic" while that handler was running
(`doubtful`). `TopicFirst` says that nothing gets past the lookup of a topic that does
not exist, so that an answer 404 with no other attempt in the broker is final: the
record is `Gone`. `HandlersKnown`, `HandlersDiffer`, `HandlersRouted` and `LogRouted`
relate handlers to producers and entries to partitions; `LogMatches` and
`AnswersKnown` are what an answer needs to name the right offset; `RejectedFinally`
says of every rejected record that no partition takes it, or that it is doubtful or
gone. The counter is an equation between cardinalities, so the invariant carries the
finiteness of both sets.

**Catalog.** Each version of `topics.json` that may be on disk names only topics with
durable directories (`StableDurable`) and all that were acknowledged
(`StableHasCreated`); `DirectoryKnown` says how far the directory in creation has come
at each step of `CreateTopic`.

**Membership.** `MInv` says of every version of `groups.json` that may be found that it
has each answered member at its ordinal. `JoinHoldsForGood` and `MembersAreDisjoint`
assume `~Clash`: no client asks for a name that the broker may invent.
They are the other half of finding 2: with such a name TLC finds one partition
served twice, without one it is proved that this never happens.

**Lifecycle.** A worker looks at the closed flag while it holds the lock
(`WorkerKnown`), and `Close` sets it only when nobody does (`CloserKnown`,
`ClosedInOrder`). `KicksOnce` and `StopsOnce` are why no channel is closed twice,
which `TypeOK` states as a bound. The module assumes that there is a partition
and that requests, setters, closers, partitions and the names of locks and of the
janitor are told apart, as they are in the program.

**Segments.** The proofs hold for any frame sizes, segment and index limits, restarts
and short writes. Everything follows from one inductive invariant, `SInv`:

- `Matches`, for each segment: memory's count and size are those of the whole frames
  at the start of the file, which carry consecutive offsets from the base on; behind
  them is nothing, or one frame cut short.
- `Line`: the segments follow each other in offset order, perhaps with gaps that
  retention left, up to `nextOffset`; only the last may be empty or end in a torn
  frame.
- `Ending`: it does so only while the partition is fenced or not yet reopened.
- `Current`: the index in memory is what a scan of the file would build, or has one
  entry more, for the frame a failed append did not finish.

`OpenAccepts`, `RebuildAgrees` and `TypeOK` can be read off from it. Reads need a fact
about the index a scan builds (`Sparse`): it begins with the first record, its entries
are in order and at the positions of their frames, and every record lies less than an
interval behind the last entry at or before it. From that `SeeksAreShort` follows, and
that a read of one segment decodes the whole frames from its offset on, under their
own offsets (`ScanFromWhole`). `ReadsAgreeForAnyBudget` extends the run's few budgets
to all.

Positions, the index and what a loop keeps are recursive functions of the model, and
the library's induction theorems cannot be used with the provers. The module proves
what it needs from the least element of a set of naturals: a set that holds 0 and
passes from k to k + 1 holds every number (`Climb`); so a loop has its values
(`LoopRuns`), two that agree step by step agree (`Agree`), and `Total`, `Picked` and
`ScanIndex` can be unrolled by a step (`TotalLoop`, `PickedLoop`, `ScanLoop`).
`PickedMaps` describes what a pass leaves by a strictly rising map from new positions
to old.

`DeletedByPolicyHolds` assumes that no value of `retention_ms`, in the clock's ticks,
is above 2^63, which finding 4 is about; the clock may be stepped at will.
`PassSettlesHolds` assumes nothing: a segment that a second pass would select ended
below the clamp and was as old before the first, and had no fewer bytes behind it
(`TotalPicks`), so the first would have selected it.

**Model-checked only:** `CatchesUp`, `IntervalApplied` and `EveryCallReturns`, because
liveness under fairness is out of the prover's reach.

## 6. Not modelled, and the plan

In this order:

1. **First start**: `InitDirs` (`types.go:244`) never syncs the data directory, so
   `meta/` and `topics/` may vanish in an early power loss. Catalog assumes they are
   durable.
2. **GroupCursor over DurableLog**: its partition is abstracted by hand; it could be
   composed with the abstract log instead.

Left out for good: the parsing of the HTTP layer, which keeps no state; the layout of
the bytes of a record (only whole, torn and malformed frames are told apart); the
`.index` files; the fetch counters, which count a partition's records before a
later partition may fail the request (`group.go:250`) and which nothing reads back;
parsing and validation of the JSON files; two processes on one data
directory, which the code excludes by assumption.

## 7. Running

    tlc -config MCPartitionLog.cfg MCPartitionLog
    tlapm PartitionLogProofs.tla

The longest run is `catch_up`, two minutes for 670,000 states; `group_cursor` (1.2
million), `lifecycle` and `segments` take about a minute, every other seconds. Four
runs end in a counterexample, as section 4 says.
