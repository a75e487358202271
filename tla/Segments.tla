------------------------------ MODULE Segments ------------------------------
(***************************************************************************)
(* The inside of one partition's segments: frames of different sizes, the  *)
(* sparse index that reads seek by, the scan that rebuilds both after a    *)
(* crash, and the age and size policies of retention with their times.     *)
(* Sources: storage/record.go, index.go, the scanning and reading half of  *)
(* partition_log.go, and the selecting half of retention.go.               *)
(*                                                                         *)
(* Simplifications                                                         *)
(*  - A frame is its size and the offset Append gave it; of its bytes only *)
(*    the length of the prefix (magic and body length) matters.            *)
(*  - Every operation runs under p.mu and is one step; what a failing      *)
(*    system call or a power loss does between them is in PartitionLog.    *)
(*    Kept here is the short write, the source of torn frames.             *)
(*  - The wall clock may be stepped to any time between two operations.    *)
(***************************************************************************)
EXTENDS Integers, Sequences, SequencesExt

CONSTANTS
    Prefix,             \* framePrefix
    FrameSizes,         \* sizes of whole frames, prefix included
    MaxSegmentBytes,    \* p.maxSegmentBytes
    IndexInterval,      \* p.indexIntervalBytes
    RetentionMS,        \* values of cfg.RetentionMS to try
    RetentionBytes,     \* values of cfg.RetentionBytes to try
    Millisecond,        \* time.Millisecond, in ticks of the clock
    SignBit,            \* what the top bit of time.Duration is worth, 2^63
    MaxTime,            \* bound: the clock shows 0..MaxTime
    MaxRecords,         \* bound: records appended
    MaxCrashes          \* bound: restarts

ASSUME SegmentsAssumption ==
    /\ Prefix \in Nat \ {0} /\ MaxSegmentBytes \in Nat \ {0}
    /\ IndexInterval \in Nat \ {0}
    /\ FrameSizes \subseteq Nat /\ \A n \in FrameSizes : n > Prefix
    /\ SignBit \in Nat \ {0} /\ Millisecond \in Nat \ {0}
    /\ RetentionMS \subseteq 0..(SignBit - 1) /\ RetentionBytes \subseteq Nat
    /\ MaxTime \in Nat /\ MaxRecords \in Nat /\ MaxCrashes \in Nat

Time == 0..MaxTime

VARIABLES
    status,     \* "open", "down", or "refused" when openPartition failed
    segments,   \* p.segments with their files, in base order
    nextOffset, \* p.nextOffset
    failed,     \* p.failed # nil
    cfg,        \* the topic's retention policy, [ms, bytes]
    now,        \* the wall clock
    crashes     \* restarts so far

vars == <<status, segments, nextOffset, failed, cfg, now, crashes>>

Entry == [rel : Nat, position : Nat]
Chunk == [off : Nat, size : FrameSizes, has : Nat]

(* file: what the .log holds, a chunk per write, has < size when cut short.*)
Segment == [base : Nat, file : Seq(Chunk), records : Nat, bytes : Nat,
            index : Seq(Entry), lastIndexed : Nat, mtime : Time]

NewSegment(base) ==
    [base |-> base, file |-> <<>>, records |-> 0, bytes |-> 0,
     index |-> <<>>, lastIndexed |-> 0, mtime |-> now]

Active == Last(segments)
EndOf(s) == s.base + s.records

Total(ns) ==
    LET upTo[k \in 0..Len(ns)] == IF k = 0 THEN 0 ELSE upTo[k - 1] + ns[k]
    IN  upTo[Len(ns)]

(* The elements of s at the positions in K, in their order.                *)
Picked(s, K) ==
    LET upTo[k \in 0..Len(s)] ==
            IF k = 0 THEN <<>>
            ELSE IF k \in K THEN Append(upTo[k - 1], s[k]) ELSE upTo[k - 1]
    IN  upTo[Len(s)]

(* Byte position at which the i-th chunk of a file begins.                 *)
Position(file, i) == Total([j \in 1..(i - 1) |-> file[j].has])

Init ==
    /\ cfg \in [ms : RetentionMS, bytes : RetentionBytes]
    /\ status = "open" /\ nextOffset = 0 /\ failed = FALSE
    /\ now = 0 /\ crashes = 0
    /\ segments = <<[base |-> 0, file |-> <<>>, records |-> 0, bytes |-> 0,
                     index |-> <<>>, lastIndexed |-> 0, mtime |-> 0]>>

-----------------------------------------------------------------------------
(* Append.                                                                 *)

(* The segment list the frame goes to, after the roll if one is due.       *)
Rolled(size) ==
    IF Active.records > 0 /\ Active.bytes + size > MaxSegmentBytes
    THEN Append(segments, NewSegment(nextOffset)) ELSE segments

(* Mutant: the distance is measured without remembering the last entry.    *)
Indexed_NotRemembered(s) ==
    IF s.records = 0 \/ s.bytes - s.lastIndexed >= IndexInterval
    THEN [s EXCEPT !.index = Append(@, [rel |-> s.records,
                                        position |-> s.bytes])]
    ELSE s

Indexed(s) ==
    IF s.records = 0 \/ s.bytes - s.lastIndexed >= IndexInterval
    THEN [s EXCEPT !.index = Append(@, [rel |-> s.records,
                                        position |-> s.bytes]),
                   !.lastIndexed = s.bytes]
    ELSE s

(* The frame, or its first n bytes, reach the end of the file.             *)
Written(s, size, n) ==
    [Indexed(s) EXCEPT
        !.mtime = IF n > 0 THEN now ELSE @,
        !.file = IF n > 0
                 THEN Append(@, [off |-> nextOffset, size |-> size, has |-> n])
                 ELSE @]

Append_Record(size) ==
    /\ status = "open" /\ ~failed /\ nextOffset < MaxRecords
    /\ LET target == Rolled(size)
           s == Written(Last(target), size, size)
       IN  segments' = Append(Front(target),
                           [s EXCEPT !.records = @ + 1, !.bytes = @ + size])
    /\ nextOffset' = nextOffset + 1
    /\ UNCHANGED <<status, failed, cfg, now, crashes>>

(* Mutant: the number of bytes written is not compared with the frame's.   *)
Append_ShortWrite_Unnoticed(size) ==
    /\ status = "open" /\ ~failed /\ nextOffset < MaxRecords
    /\ crashes < MaxCrashes
    /\ LET target == Rolled(size)
       IN  \E n \in 0..(size - 1) :
              LET s == Written(Last(target), size, n)
              IN  segments' = Append(Front(target),
                           [s EXCEPT !.records = @ + 1, !.bytes = @ + size])
    /\ nextOffset' = nextOffset + 1
    /\ UNCHANGED <<status, failed, cfg, now, crashes>>

(* Mutant: the append fails but the partition is not fenced.               *)
Append_ShortWrite_NoFence(size) ==
    /\ status = "open" /\ ~failed /\ nextOffset < MaxRecords
    /\ crashes < MaxCrashes
    /\ LET target == Rolled(size)
       IN  \E n \in 0..(size - 1) :
              segments' = Append(Front(target), Written(Last(target), size, n))
    /\ UNCHANGED <<status, nextOffset, failed, cfg, now, crashes>>

(* A short write fences the partition; the index entry stays in memory.    *)
Append_ShortWrite(size) ==
    /\ status = "open" /\ ~failed /\ nextOffset < MaxRecords
    /\ crashes < MaxCrashes
    /\ LET target == Rolled(size)
       IN  \E n \in 0..(size - 1) :
              segments' = Append(Front(target), Written(Last(target), size, n))
    /\ failed' = TRUE
    /\ UNCHANGED <<status, nextOffset, cfg, now, crashes>>

-----------------------------------------------------------------------------
(* DecodeRecord, the scan and the index.                                   *)

(* Mutant: a body of which no byte is there is taken for a clean end.      *)
Decode_BodyEOF(file, i) ==
    IF i > Len(file) \/ (i = Len(file) /\ file[i].has = Prefix) THEN "EOF"
    ELSE IF file[i].has = file[i].size THEN "ok"
    ELSE IF i = Len(file) THEN "unexpected EOF" ELSE "corrupt"

(* DecodeRecord at the i-th chunk.  Reading on behind a frame that was cut *)
(* short takes the next frame's bytes for its body.                        *)
Decode(file, i) ==
    IF i > Len(file) THEN "EOF"
    ELSE IF file[i].has = file[i].size THEN "ok"
    ELSE IF i = Len(file) THEN "unexpected EOF" ELSE "corrupt"

(* Whole frames from the start of the file: the lastGood boundary.         *)
Good(file) ==
    LET whole == {k \in 0..Len(file) :
                     \A i \in 1..k : Decode(file, i) = "ok"}
    IN  CHOOSE k \in whole : \A l \in whole : l <= k

(* Mutant: the rebuilt index begins with the second record due.            *)
ScanIndex_NoFirst(file) ==
    LET upTo[i \in 0..Good(file)] ==
            IF i = 0 THEN [index |-> <<>>, last |-> 0]
            ELSE IF Position(file, i) - upTo[i - 1].last >= IndexInterval
                 THEN [index |-> Append(upTo[i - 1].index,
                                        [rel |-> i - 1,
                                         position |-> Position(file, i)]),
                       last |-> Position(file, i)]
                 ELSE upTo[i - 1]
    IN  upTo[Good(file)]

(* The sparse index scanSegment builds as it goes.                         *)
ScanIndex(file) ==
    LET upTo[i \in 0..Good(file)] ==
            IF i = 0 THEN [index |-> <<>>, last |-> 0]
            ELSE IF i = 1 \/ Position(file, i) - upTo[i - 1].last
                                >= IndexInterval
                 THEN [index |-> Append(upTo[i - 1].index,
                                        [rel |-> i - 1,
                                         position |-> Position(file, i)]),
                       last |-> Position(file, i)]
                 ELSE upTo[i - 1]
    IN  upTo[Good(file)]

(* Mutant: after a restart the next index entry is due one interval behind *)
(* the end of the file, not behind the last entry.                         *)
Opened_FromEnd(s) ==
    LET good == Good(s.file)
        torn == Decode(s.file, good + 1) = "unexpected EOF"
    IN  [s EXCEPT !.records = good,
                  !.bytes = Position(s.file, good + 1),
                  !.index = ScanIndex(s.file).index,
                  !.lastIndexed = Position(s.file, good + 1),
                  !.file = IF torn THEN SubSeq(@, 1, good) ELSE @]

(* openSegment: memory rebuilt from the file, a torn tail cut off.         *)
Opened(s) ==
    LET good == Good(s.file)
        torn == Decode(s.file, good + 1) = "unexpected EOF"
        scan == ScanIndex(s.file)
    IN  [s EXCEPT !.records = good,
                  !.bytes = Position(s.file, good + 1),
                  !.index = scan.index, !.lastIndexed = scan.last,
                  !.file = IF torn THEN SubSeq(@, 1, good) ELSE @,
                  !.mtime = IF torn THEN now ELSE @]

Acceptable(i) ==
    LET end == Decode(segments[i].file, Good(segments[i].file) + 1)
    IN  end = "EOF" \/ (end = "unexpected EOF" /\ i = Len(segments))

(* The process ends: Close, kill -9 or a crash.  Files stay as they are.   *)
Stop ==
    /\ status = "open" /\ crashes < MaxCrashes
    /\ status' = "down" /\ crashes' = crashes + 1 /\ failed' = FALSE
    /\ UNCHANGED <<segments, nextOffset, cfg, now>>

OpenPartition ==
    /\ status = "down"
    /\ IF \A i \in DOMAIN segments : Acceptable(i)
       THEN /\ status' = "open"
            /\ segments' = [i \in DOMAIN segments |-> Opened(segments[i])]
            /\ nextOffset' = EndOf(Opened(Active))
       ELSE status' = "refused" /\ UNCHANGED <<segments, nextOffset>>
    /\ UNCHANGED <<failed, cfg, now, crashes>>

(* Mutant: the entry after the target instead of the one at or before it.  *)
LookupIndex_Next(index, target) ==
    LET after == {i \in DOMAIN index : index[i].rel >= target}
    IN  IF after = {} THEN [rel |-> 0, position |-> 0]
        ELSE index[CHOOSE i \in after : \A j \in after : i <= j]

(* lookupIndex: the entry with the largest rel at or below the target.     *)
LookupIndex(index, target) ==
    LET upTo == {i \in DOMAIN index : index[i].rel <= target}
    IN  IF upTo = {} THEN [rel |-> 0, position |-> 0]
        ELSE index[CHOOSE i \in upTo : \A j \in upTo : j <= i]

-----------------------------------------------------------------------------
(* ReadFrom.                                                               *)

(* The chunk that begins at a byte position, 0 if none does.               *)
ChunkAt(file, position) ==
    LET at == {i \in DOMAIN file : Position(file, i) = position}
    IN  IF at = {} THEN 0 ELSE CHOOSE i \in at : TRUE

(* What reading one segment from an offset on decodes, as pairs of the     *)
(* offset the reader counts and the chunk it finds: the index entry gives  *)
(* the offset and the position to start at, records before start are       *)
(* skipped.                                                                *)
ScanFrom(s, offset) ==
    LET start == IF offset < s.base THEN s.base ELSE offset
        entry == LookupIndex(s.index, start - s.base)
        first == ChunkAt(s.file, entry.position)
        decoded == [j \in 1..(s.records - entry.rel) |->
                       [off |-> s.base + entry.rel + j - 1,
                        chunk |-> s.file[first + j - 1]]]
    IN  Picked(decoded, {j \in DOMAIN decoded : decoded[j].off >= start})

(* The first records, at most maxRecords and at most maxBytes of frames,   *)
(* but at least one if there is any, even if it is larger than the budget. *)
Budgeted(found, maxRecords, maxBytes) ==
    LET fits(k) == /\ k <= maxRecords
                   /\ \/ k <= 1
                      \/ Total([i \in 1..k |-> found[i].chunk.size]) <= maxBytes
        counts == {k \in 0..Len(found) : \A l \in 0..k : fits(l)}
    IN  SubSeq(found, 1, CHOOSE k \in counts : \A l \in counts : l <= k)

(* The loop over segments begins with the first that ends behind offset.   *)
ReadFrom(offset, maxRecords, maxBytes) ==
    LET reached(i) == \E j \in 1..i : EndOf(segments[j]) > offset
        found == FlattenSeq([i \in DOMAIN segments |->
                    IF reached(i) THEN ScanFrom(segments[i], offset)
                    ELSE <<>>])
    IN  IF offset = nextOffset THEN <<>>
        ELSE Budgeted(found, maxRecords, maxBytes)

-----------------------------------------------------------------------------
(* enforceRetention.                                                       *)

(* Conversion to the signed word of time.Duration.                         *)
Wrap(n) == ((n + SignBit) % (2 * SignBit)) - SignBit

Cutoff == now + Wrap(-(cfg.ms * Millisecond))

(* Mutant: the clamp is compared with the first offset of a segment.       *)
SealedBelow_Base(clamp) ==
    {i \in 1..(Len(segments) - 1) :
        \A j \in 1..i : segments[j].base < clamp}

(* The sealed segments in front of the first one that reaches the clamp.   *)
SealedBelow(clamp) ==
    {i \in 1..(Len(segments) - 1) :
        \A j \in 1..i : EndOf(segments[j]) <= clamp}

(* Mutant: the active segment does not count towards the budget.           *)
OverBudget_SealedOnly(i) ==
    /\ cfg.bytes > 0
    /\ Total([j \in 1..(Len(segments) - i) |-> segments[i + j - 1].bytes])
          > cfg.bytes

(* Mutant: the total is not brought down by what the loop dooms.           *)
OverBudget_NotReduced(i) ==
    /\ cfg.bytes > 0
    /\ Total([j \in DOMAIN segments |-> segments[j].bytes]) > cfg.bytes

(* What is left when the size loop comes to the i-th segment is too much.  *)
OverBudget(i) ==
    /\ cfg.bytes > 0
    /\ Total([j \in 1..(Len(segments) - i + 1) |-> segments[i + j - 1].bytes])
          > cfg.bytes

Expired(i) == cfg.ms > 0 /\ segments[i].mtime < Cutoff

Doomed(clamp) == {i \in SealedBelow(clamp) : Expired(i) \/ OverBudget(i)}

(* A pass under a clamp; MaxRecords stands for "no group has joined".      *)
Retention_Pass(clamp) ==
    /\ status = "open" /\ ~failed
    /\ Doomed(clamp) # {}
    /\ segments' = Picked(segments, DOMAIN segments \ Doomed(clamp))
    /\ UNCHANGED <<status, nextOffset, failed, cfg, now, crashes>>

(* Time passes, or the clock is stepped.                                   *)
Clock ==
    /\ now' \in Time \ {now}
    /\ UNCHANGED <<status, segments, nextOffset, failed, cfg, crashes>>

Next ==
    \/ \E size \in FrameSizes : Append_Record(size) \/ Append_ShortWrite(size)
    \/ Stop \/ OpenPartition
    \/ \E clamp \in 0..MaxRecords : Retention_Pass(clamp)
    \/ Clock

Spec == Init /\ [][Next]_vars

-----------------------------------------------------------------------------
(* Every variable holds a value of its type; in particular memory's count  *)
(* and size of a segment never pass what its file holds.                   *)
TypeOK ==
    /\ status \in {"open", "down", "refused"}
    /\ nextOffset \in 0..MaxRecords
    /\ failed \in BOOLEAN
    /\ cfg \in [ms : RetentionMS, bytes : RetentionBytes]
    /\ now \in Time /\ crashes \in 0..MaxCrashes
    /\ segments # <<>>
    /\ \A i \in DOMAIN segments :
          LET s == segments[i]
          IN  /\ s.base \in 0..MaxRecords /\ s.mtime \in Time
              /\ s.records \in 0..Len(s.file)
              /\ s.bytes \in 0..Position(s.file, Len(s.file) + 1)
              /\ \A j \in DOMAIN s.file :
                    /\ s.file[j].size \in FrameSizes
                    /\ s.file[j].has \in 1..s.file[j].size

(* The whole frames from an offset on, found without index or positions.   *)
Surviving(offset) ==
    LET whole(file) ==
            Picked([k \in DOMAIN file |->
                       [off |-> file[k].off, chunk |-> file[k]]],
                   {k \in DOMAIN file : /\ file[k].off >= offset
                                        /\ file[k].has = file[k].size})
    IN  FlattenSeq([i \in DOMAIN segments |-> whole(segments[i].file)])

(* A fetch at any readable offset, within any budget, finds through the    *)
(* sparse index exactly the records a scan of everything would: the right  *)
(* frames under the right offsets, none left out.                          *)
ReadsAgree ==
    status = "open" =>
        \A offset \in segments[1].base..(nextOffset - 1),
           maxRecords \in 1..2,
           maxBytes \in {1, MaxSegmentBytes} :
              ReadFrom(offset, maxRecords, maxBytes)
                  = Budgeted(Surviving(offset), maxRecords, maxBytes)

(* FORMAT.md section 5 and partition_log.go:264: a read scans less than    *)
(* one index interval of bytes before the record it was asked for.         *)
SeeksAreShort ==
    status = "open" =>
        \A i \in DOMAIN segments :
            LET s == segments[i]
            IN  \A k \in 1..s.records :
                   Position(s.file, k)
                       - LookupIndex(s.index, k - 1).position < IndexInterval

(* Unless a failed append left an entry too many, the index built by       *)
(* appends is the one a scan of the file builds, so that restarts neither  *)
(* thin it out nor shift where its next entry falls.                       *)
RebuildAgrees ==
    status = "open" /\ ~failed =>
        \A i \in DOMAIN segments :
            LET s == segments[i]
            IN  [index |-> s.index, last |-> s.lastIndexed]
                    = ScanIndex(s.file)

(* A frame cut at any byte is recognised as torn and only ever found at    *)
(* the end of the last file: openPartition does not refuse it.             *)
OpenAccepts == status # "refused"

(* cmd/marchiq/main.go:25-28: the janitor "deletes sealed segments older   *)
(* than retention_ms or over retention_bytes, but never offsets a joined   *)
(* group still needs (min committed+1) and never the active segment".  A   *)
(* segment goes for its age, or because it and those behind it, without    *)
(* the older ones, are more than the budget.                               *)
DeletedByPolicy ==
    [][\A clamp \in 0..MaxRecords : Retention_Pass(clamp) =>
          \A i \in DOMAIN segments :
              (\A j \in DOMAIN segments' : segments'[j] # segments[i]) =>
                  /\ i < Len(segments) /\ EndOf(segments[i]) <= clamp
                  /\ \/ /\ cfg.ms > 0
                        /\ now - segments[i].mtime > cfg.ms * Millisecond
                     \/ /\ cfg.bytes > 0
                        /\ Total([j \in 1..(Len(segments) - i + 1) |->
                                     segments[i + j - 1].bytes])
                              > cfg.bytes]_vars

(* A pass finishes its job: a second one at the same time and under the    *)
(* same clamp finds nothing, what was expired is gone, and the partition   *)
(* is within its budget unless the clamp or the active segment forbids it. *)
PassSettles ==
    [][\A clamp \in 0..MaxRecords : Retention_Pass(clamp) =>
          /\ Doomed(clamp)' = {}
          /\ \/ cfg.bytes = 0
             \/ Total([j \in DOMAIN segments' |-> segments'[j].bytes])
                    <= cfg.bytes
             \/ SealedBelow(clamp)' = {}]_vars
=============================================================================
