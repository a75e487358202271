------------------------- MODULE PartitionLogProofs -------------------------
(***************************************************************************)
(* Proofs, for every MaxOffset and MaxRecords, of what the runs check on a *)
(* small PartitionLog.  The argument: the segments on disk are ordered and *)
(* every one but the last is sealed, hence clean and synced (DiskOrdered); *)
(* the last is the one memory appends to (MemoryMatches, WriterMatches);   *)
(* so what was published sits in a segment that only retention may remove  *)
(* (EntriesPresent) and what a sync covered outlives a power loss.         *)
(***************************************************************************)
EXTENDS PartitionLog, TLAPS

(* Files: no corrupt tail anywhere, and of two files the lower is sealed,  *)
(* whole on stable storage, and ends before the higher begins.             *)
DiskOrdered ==
    /\ \A b \in Offset : /\ tail[b] # "corrupt"
                         /\ synced[b] <= Len(frames[b])
                         /\ b + Len(frames[b]) <= MaxOffset
    /\ \A b, c \in dir \cup durDir :
          b < c => /\ tail[b] = "clean"
                   /\ synced[b] = Len(frames[b])
                   /\ b + Len(frames[b]) <= c

(* Some durable file lies above everything retention ever released.        *)
Anchored == \E c \in dir \cap durDir : \A r \in released : r < c

(* Without an open partition no operation is in progress.                  *)
Quiet == status # "open" => pc = "idle" /\ ~failed

(* Memory of an open partition against its files.                          *)
MemoryMatches ==
    status = "open" =>
        /\ active \in segments \cap dir \cap durDir
        /\ nextOffset = active + records[active]
        /\ \A s \in segments : s <= active
        /\ \A s, t \in segments : s < t => s + records[s] <= t
        /\ \A r \in released : r < active
        /\ ~failed => tail[active] = "clean"
        /\ ~failed /\ pc # "sync" => Len(frames[active]) = records[active]
        /\ ~failed /\ pc # "syncdir" => \A b \in dir \cup durDir : b <= active

(* What each step of Append finds when it starts.                          *)
WriterMatches ==
    /\ pc \in {"seal", "create", "syncdir", "write", "sync"} =>
          op.id \in Id /\ nextOffset < MaxOffset /\ ~failed
    /\ pc \in {"seal", "create", "syncdir"} => records[active] > 0
    /\ pc \in {"create", "syncdir"} => synced[active] = Len(frames[active])
    /\ pc = "syncdir" =>
          /\ nextOffset \in dir
          /\ frames[nextOffset] = <<>> /\ tail[nextOffset] = "clean"
          /\ \A b \in dir \cup durDir : b <= nextOffset
    /\ pc = "sync" => /\ Len(frames[active]) = records[active] + 1
                      /\ frames[active][records[active] + 1] = op.id
    /\ pc = "unlink" => ~failed

(* Published entries are in their files, and in memory while it is open.   *)
EntriesPresent ==
    /\ doomed \subseteq released /\ gone \subseteq released
    /\ acked \subseteq published
    /\ \A e \in Live(published) :
          /\ e.base \in dir \cap durDir
          /\ e.idx <= Len(frames[e.base])
          /\ frames[e.base][e.idx] = e.id
          /\ status = "open" => /\ e.base \in segments
                                /\ e.idx <= records[e.base]

IInv == /\ TypeOK /\ DiskOrdered /\ Anchored /\ Quiet /\ MemoryMatches
        /\ WriterMatches /\ EntriesPresent /\ AckedDurable /\ NeverRefused

-----------------------------------------------------------------------------
(* No operation in progress has the type of one.                           *)
LEMMA NoOpTyped == NoOp \in Op
  BY MaxRecordsAssumption DEF NoOp, Op, Acks

(* The fields of a published entry have their types.                       *)
LEMMA EntryTyped ==
    ASSUME TypeOK, NEW e \in published \cup acked
    PROVE  e.base \in Offset /\ e.idx \in Nat \ {0} /\ e.id \in Id
  BY DEF TypeOK, Entry

(* Type facts on which the arithmetic of an open partition rests.          *)
LEMMA OpenTyped ==
    ASSUME TypeOK
    PROVE  /\ MaxOffset \in Nat \ {0} /\ 0 \in Offset
           /\ Offset \subseteq Nat /\ \A b \in Offset : b <= MaxOffset
           /\ \A b \in Offset : /\ Len(frames[b]) \in Nat /\ synced[b] \in Nat
                                /\ records[b] \in Nat
                                /\ frames[b] \in Seq(Id)
           /\ active \in Offset /\ nextOffset \in Offset
           /\ dir \subseteq Offset /\ durDir \subseteq Offset
           /\ segments \subseteq Offset /\ released \subseteq Offset
<1>1. MaxOffset \in Nat \ {0} /\ 0 \in Offset
  BY MaxOffsetAssumption DEF Offset
<1>2. Offset \subseteq Nat /\ \A b \in Offset : b <= MaxOffset
  BY MaxOffsetAssumption DEF Offset
<1>3. ASSUME NEW b \in Offset
      PROVE  /\ Len(frames[b]) \in Nat /\ synced[b] \in Nat
             /\ records[b] \in Nat /\ frames[b] \in Seq(Id)
  BY DEF TypeOK
<1> QED
  BY <1>1, <1>2, <1>3 DEF TypeOK

(* A freshly created partition satisfies the invariant.                    *)
LEMMA InitInv == Init => IInv
<1> SUFFICES ASSUME Init PROVE IInv
  OBVIOUS
<1> USE MaxOffsetAssumption, MaxRecordsAssumption DEF Init
<1>1. TypeOK
  <2>1. /\ 0 \in Offset /\ nextId \in 1..(MaxRecords + 1)
        /\ <<>> \in Seq(Id)
    BY DEF Offset, Id
  <2>2. op \in Op
    BY NoOpTyped
  <2> QED
    BY <2>1, <2>2 DEF TypeOK
<1>2. DiskOrdered
  BY DEF DiskOrdered, Offset
<1>3. Anchored
  BY DEF Anchored
<1>4. Quiet /\ MemoryMatches /\ WriterMatches /\ NeverRefused
  BY DEF Quiet, MemoryMatches, WriterMatches, NeverRefused, Offset
<1>5. EntriesPresent /\ AckedDurable
  BY DEF EntriesPresent, AckedDurable, Live
<1> QED
  BY <1>1, <1>2, <1>3, <1>4, <1>5 DEF IInv

(* Append, up to its decision whether to roll.                             *)
LEMMA AppendStartInv ==
    ASSUME IInv, NEW acks \in Acks, Append_Start(acks) PROVE IInv'
<1> USE DEF Append_Start, memory, retain, disk
<1>1. TypeOK'
  BY MaxRecordsAssumption DEF IInv, TypeOK, Id, Op
<1>2. DiskOrdered' /\ Anchored' /\ Quiet' /\ NeverRefused'
  BY DEF IInv, DiskOrdered, Anchored, Quiet, NeverRefused
<1>3. MemoryMatches'
  BY DEF IInv, MemoryMatches
<1>4. WriterMatches'
  <2>1. op'.id \in Id
    BY MaxRecordsAssumption DEF IInv, TypeOK, Id
  <2>2. nextOffset < MaxOffset
    BY MaxOffsetAssumption DEF IInv, TypeOK, Offset
  <2>3. /\ pc' \in {"write", "seal"} /\ ~failed' /\ nextOffset' = nextOffset
        /\ pc' = "seal" => records'[active'] > 0
    OBVIOUS
  <2> QED
    BY <2>1, <2>2, <2>3 DEF WriterMatches
<1>5. EntriesPresent'
  BY DEF IInv, EntriesPresent, Live
<1>6. AckedDurable'
  BY DEF IInv, AckedDurable, Live, OnStableStorage
<1> QED
  BY <1>1, <1>2, <1>3, <1>4, <1>5, <1>6 DEF IInv

(* The sync of the segment being sealed.                                   *)
LEMMA RollSealInv == ASSUME IInv, Roll_Seal PROVE IInv'
<1> USE DEF Roll_Seal, memory, retain, history
<1>1. TypeOK'
  BY DEF IInv, TypeOK
<1>2. DiskOrdered'
  BY DEF IInv, TypeOK, DiskOrdered, MemoryMatches
<1>3. Anchored' /\ Quiet' /\ NeverRefused'
  BY DEF IInv, Anchored, Quiet, NeverRefused
<1>4. MemoryMatches'
  BY DEF IInv, TypeOK, MemoryMatches
<1>5. WriterMatches'
  BY DEF IInv, TypeOK, WriterMatches, Quiet
<1>6. EntriesPresent'
  BY DEF IInv, TypeOK, EntriesPresent, Live
<1>7. AckedDurable'
  BY DEF IInv, TypeOK, DiskOrdered, AckedDurable, Live, OnStableStorage, Entry
<1> QED
  BY <1>1, <1>2, <1>3, <1>4, <1>5, <1>6, <1>7 DEF IInv

(* The creation of the next segment, with or without its .index.           *)
LEMMA RollCreateInv == ASSUME IInv, Roll_Create PROVE IInv'
<1> DEFINE new == nextOffset
<1>1. /\ status = "open" /\ ~failed /\ pc = "create"
      /\ active \in Offset /\ new \in Offset /\ active < new
      /\ active \in segments \cap dir \cap durDir
      /\ new = active + Len(frames[active])
      /\ tail[active] = "clean" /\ synced[active] = Len(frames[active])
      /\ \A b \in dir \cup durDir : b <= active
      /\ new \notin dir \cup durDir
  <2>1. /\ status = "open" /\ ~failed /\ pc = "create"
        /\ records[active] > 0 /\ synced[active] = Len(frames[active])
    BY DEF Roll_Create, IInv, Quiet, WriterMatches
  <2>2. /\ active \in segments \cap dir \cap durDir
        /\ new = active + records[active] /\ tail[active] = "clean"
        /\ Len(frames[active]) = records[active]
        /\ \A b \in dir \cup durDir : b <= active
    BY <2>1 DEF IInv, MemoryMatches
  <2>3. TypeOK
    BY DEF IInv
  <2> QED
    BY <2>1, <2>2, <2>3, OpenTyped
<1>2. /\ dir' = dir \cup {new} /\ durDir' = durDir
      /\ frames'[new] = <<>> /\ tail'[new] = "clean" /\ synced'[new] = 0
      /\ \A b \in Offset \ {new} : /\ frames'[b] = frames[b]
                                   /\ tail'[b] = tail[b]
                                   /\ synced'[b] = synced[b]
  BY <1>1 DEF Roll_Create, IInv, TypeOK
<1>3. /\ UNCHANGED <<status, segments, active, records, nextOffset>>
      /\ UNCHANGED <<retain, history>>
      /\ \/ pc' = "syncdir" /\ failed' = failed /\ op' = op
         \/ pc' = "idle" /\ failed' = TRUE /\ op' = NoOp
  BY <1>1 DEF Roll_Create, Fence, memory, retain, history
<1>4. TypeOK'
  <2>1. /\ frames' \in [Offset -> Seq(Id)]
        /\ tail' \in [Offset -> {"clean", "torn", "corrupt"}]
        /\ synced' \in [Offset -> Nat]
    BY <1>1 DEF Roll_Create, IInv, TypeOK
  <2>2. op' \in Op
    BY <1>3, NoOpTyped DEF IInv, TypeOK
  <2>3. failed' \in BOOLEAN
    BY <1>3 DEF IInv, TypeOK
  <2> QED
    BY <1>1, <1>2, <1>3, <2>1, <2>2, <2>3 DEF IInv, TypeOK, retain, history
<1>5. DiskOrdered'
  <2>1. ASSUME NEW b \in Offset
        PROVE  /\ tail'[b] # "corrupt" /\ synced'[b] <= Len(frames'[b])
               /\ b + Len(frames'[b]) <= MaxOffset
    <3>1. CASE b = new
      <4>1. new <= MaxOffset
        BY <1>1, MaxOffsetAssumption DEF Offset
      <4>2. frames'[b] = <<>> /\ tail'[b] = "clean" /\ synced'[b] = 0
        BY <1>2, <3>1
      <4> QED
        BY <1>1, <3>1, <4>1, <4>2
    <3>2. CASE b # new
      BY <1>2, <3>2 DEF IInv, DiskOrdered
    <3> QED
      BY <3>1, <3>2
  <2>2. ASSUME NEW b \in dir' \cup durDir', NEW c \in dir' \cup durDir', b < c
        PROVE  /\ tail'[b] = "clean" /\ synced'[b] = Len(frames'[b])
               /\ b + Len(frames'[b]) <= c
    <3>1. b \in dir \cup durDir /\ b \in Offset /\ b # new /\ b <= active
      BY <1>1, <1>2, <2>2 DEF IInv, TypeOK, Offset
    <3>2. CASE c = new
      <4>1. CASE b = active
        BY <1>1, <1>2, <3>1, <3>2, <4>1, OpenTyped DEF IInv
      <4>2. CASE b < active
        <5>1. /\ tail[b] = "clean" /\ synced[b] = Len(frames[b])
              /\ b + Len(frames[b]) <= active
          BY <1>1, <3>1, <4>2 DEF IInv, DiskOrdered
        <5>2. /\ frames'[b] = frames[b] /\ tail'[b] = tail[b]
              /\ synced'[b] = synced[b]
          BY <1>2, <3>1
        <5>3. b + Len(frames[b]) <= new
          BY <1>1, <3>1, <5>1, OpenTyped DEF IInv
        <5> QED
          BY <3>2, <5>1, <5>2, <5>3
      <4> QED
        BY <1>1, <3>1, <4>1, <4>2, OpenTyped DEF IInv
    <3>3. CASE c # new
      BY <1>1, <1>2, <2>2, <3>1, <3>3 DEF IInv, DiskOrdered
    <3> QED
      BY <3>2, <3>3
  <2> QED
    BY <2>1, <2>2 DEF DiskOrdered
<1>6. Anchored' /\ Quiet' /\ NeverRefused'
  BY <1>1, <1>2, <1>3 DEF IInv, Anchored, NeverRefused, Quiet, history
<1>7. MemoryMatches'
  BY <1>1, <1>2, <1>3 DEF IInv, TypeOK, MemoryMatches, history
<1>8. WriterMatches'
  BY <1>1, <1>2, <1>3 DEF IInv, TypeOK, WriterMatches, Offset
<1>9. EntriesPresent'
  <2>1. /\ doomed' = doomed /\ gone' = gone /\ released' = released
        /\ acked' = acked /\ published' = published
        /\ status' = status /\ segments' = segments /\ records' = records
    BY <1>3 DEF retain, history
  <2>2. ASSUME NEW e \in Live(published)
        PROVE  /\ e.base \in dir' \cap durDir'
               /\ e.idx <= Len(frames'[e.base])
               /\ frames'[e.base][e.idx] = e.id
               /\ status = "open" => /\ e.base \in segments
                                     /\ e.idx <= records[e.base]
    <3>1. /\ e.base \in dir \cap durDir
          /\ e.idx <= Len(frames[e.base]) /\ frames[e.base][e.idx] = e.id
          /\ status = "open" => /\ e.base \in segments
                                /\ e.idx <= records[e.base]
      BY DEF IInv, EntriesPresent
    <3>2. e.base \in Offset \ {new}
      BY <1>1, <3>1 DEF IInv, TypeOK
    <3> QED
      BY <1>2, <3>1, <3>2
  <2>3. Live(published)' = Live(published)
    BY <2>1 DEF Live
  <2> QED
    BY <2>1, <2>2, <2>3 DEF IInv, EntriesPresent
<1>10. AckedDurable'
  <2> SUFFICES ASSUME NEW e \in Live(acked) PROVE OnStableStorage(e)'
    BY <1>3 DEF AckedDurable, Live, history
  <2>1. OnStableStorage(e) /\ e.base \in Offset
    BY EntryTyped DEF IInv, AckedDurable, Live
  <2> QED
    BY <1>1, <1>2, <2>1 DEF OnStableStorage
<1> QED
  BY <1>4, <1>5, <1>6, <1>7, <1>8, <1>9, <1>10 DEF IInv

(* The switch to the new segment.                                          *)
LEMMA RollFinishInv == ASSUME IInv, Roll_Finish PROVE IInv'
<1> DEFINE new == nextOffset
<1>1. /\ status = "open" /\ ~failed /\ pc = "syncdir"
      /\ active \in Offset /\ new \in Offset /\ active < new
      /\ active \in segments /\ new = active + records[active]
      /\ new \in dir /\ frames[new] = <<>> /\ tail[new] = "clean"
      /\ \A b \in dir \cup durDir : b <= new
  BY DEF Roll_Finish, IInv, TypeOK, Quiet, MemoryMatches, WriterMatches, Offset
<1>2. /\ pc' = "write" /\ UNCHANGED <<status, nextOffset, failed, op>>
      /\ durDir' = dir /\ UNCHANGED <<frames, tail, synced, dir>>
      /\ segments' = segments \cup {new} /\ active' = new
      /\ UNCHANGED <<retain, history>>
      /\ records'[new] = 0 /\ records' \in [Offset -> Nat]
      /\ \A b \in Offset \ {new} : records'[b] = records[b]
      /\ new \notin segments
  BY <1>1 DEF Roll_Finish, retain, history, IInv, TypeOK, MemoryMatches, Offset
<1>3. TypeOK'
  BY <1>1, <1>2 DEF IInv, TypeOK, retain, history
<1>4. DiskOrdered' /\ Anchored' /\ Quiet' /\ NeverRefused'
  BY <1>1, <1>2
     DEF IInv, DiskOrdered, Anchored, Quiet, NeverRefused, history
<1>5. MemoryMatches'
  <2>1. ASSUME NEW s \in segments', NEW t \in segments', s < t
        PROVE  s + records'[s] <= t
    <3>1. s \in segments /\ s \in Offset /\ s # new
      BY <1>1, <1>2, <2>1 DEF IInv, TypeOK, MemoryMatches, Offset
    <3>2. CASE t \in segments
      BY <1>1, <1>2, <2>1, <3>1, <3>2 DEF IInv, MemoryMatches
    <3>3. CASE t = new
      <4>1. s + records[s] <= active \/ s = active
        BY <1>1, <3>1 DEF IInv, TypeOK, MemoryMatches, Offset
      <4> QED
        BY <1>1, <1>2, <3>1, <3>3, <4>1 DEF IInv, TypeOK, Offset
    <3> QED
      BY <1>2, <3>2, <3>3
  <2>2. \A s \in segments' : s <= active'
    BY <1>1, <1>2 DEF IInv, TypeOK, MemoryMatches, Offset
  <2>3. \A r \in released' : r < active'
    BY <1>1, <1>2 DEF IInv, TypeOK, MemoryMatches, Offset, history
  <2> QED
    BY <1>1, <1>2, <2>1, <2>2, <2>3 DEF MemoryMatches, Offset
<1>6. WriterMatches'
  BY <1>1, <1>2 DEF IInv, WriterMatches
<1>7. EntriesPresent'
  <2>1. ASSUME NEW e \in Live(published)'
        PROVE  /\ e.base \in segments' /\ e.idx <= records'[e.base]
               /\ e.base \in (dir \cap durDir)'
    BY <1>1, <1>2 DEF IInv, TypeOK, EntriesPresent, Live, history, Entry
  <2> QED
    BY <1>1, <1>2, <2>1 DEF IInv, EntriesPresent, Live, retain, history
<1>8. AckedDurable'
  BY <1>1, <1>2 DEF IInv, AckedDurable, OnStableStorage, Live, history
<1> QED
  BY <1>3, <1>4, <1>5, <1>6, <1>7, <1>8 DEF IInv

(* A failed step only fences; the disk keeps what the step had written.    *)
LEMMA FenceInv ==
    ASSUME IInv, Fence, pc # "idle", DiskOrdered',
           tail' \in [Offset -> {"clean", "torn", "corrupt"}],
           UNCHANGED <<retain, frames, synced, dir, durDir, history>>
    PROVE  IInv'
<1>1. /\ status = "open" /\ failed' = TRUE /\ pc' = "idle" /\ op' = NoOp
      /\ UNCHANGED <<status, segments, active, records, nextOffset>>
  BY DEF Fence, IInv, Quiet
<1>2. TypeOK'
  BY <1>1, NoOpTyped DEF IInv, TypeOK, retain, history
<1>3. Anchored' /\ Quiet' /\ MemoryMatches' /\ WriterMatches' /\ NeverRefused'
  BY <1>1 DEF IInv, Anchored, Quiet, MemoryMatches, WriterMatches,
              NeverRefused, history
<1>4. EntriesPresent' /\ AckedDurable'
  BY <1>1 DEF IInv, EntriesPresent, AckedDurable, OnStableStorage, Live,
              retain, history
<1> QED
  BY <1>2, <1>3, <1>4 DEF IInv

(* A step that fails without touching the disk.                            *)
LEMMA UntouchedInv ==
    ASSUME IInv, Fence, pc # "idle", UNCHANGED <<retain, disk, history>>
    PROVE  IInv'
<1>1. DiskOrdered' /\ tail' \in [Offset -> {"clean", "torn", "corrupt"}]
  BY DEF IInv, DiskOrdered, TypeOK, disk
<1> QED
  BY <1>1, FenceInv DEF disk

(* A roll that fails at any of its steps.                                  *)
LEMMA RollFailInv == ASSUME IInv, Roll_Fail PROVE IInv'
  BY UntouchedInv DEF Roll_Fail

(* A sync that fails leaves the frame in the file, and the fence up.       *)
LEMMA AppendSyncFailInv == ASSUME IInv, Append_SyncFail PROVE IInv'
  BY UntouchedInv DEF Append_SyncFail

(* A write that fails may leave a torn frame at the end of the log.        *)
LEMMA AppendWriteFailInv == ASSUME IInv, Append_WriteFail PROVE IInv'
<1>1. /\ status = "open" /\ active \in Offset /\ tail[active] = "clean"
      /\ \A b \in dir \cup durDir : b <= active
  BY OpenTyped DEF Append_WriteFail, IInv, Quiet, WriterMatches, MemoryMatches
<1>2. /\ UNCHANGED <<frames, synced, dir, durDir>>
      /\ tail' \in [Offset -> {"clean", "torn", "corrupt"}]
      /\ tail'[active] \in {"clean", "torn"}
      /\ \A b \in Offset \ {active} : tail'[b] = tail[b]
  BY <1>1 DEF Append_WriteFail, IInv, TypeOK
<1>3. dir \subseteq Offset /\ durDir \subseteq Offset /\ Offset \subseteq Nat
  BY OpenTyped DEF IInv
<1>4. ASSUME NEW b \in dir \cup durDir, NEW c \in dir \cup durDir, b < c
      PROVE  b # active
  BY <1>1, <1>3, <1>4
<1>5. DiskOrdered'
  BY <1>1, <1>2, <1>3, <1>4 DEF IInv, DiskOrdered
<1> QED
  BY <1>2, <1>5, FenceInv DEF Append_WriteFail

(* The record Append publishes has the type of an entry.                   *)
LEMMA PublishTyped ==
    ASSUME IInv, NEW ack \in BOOLEAN, Publish(ack),
           op.id \in Id, nextOffset < MaxOffset,
           retain' = retain, dir' = dir, durDir' = durDir,
           frames' \in [Offset -> Seq(Id)],
           tail' \in [Offset -> {"clean", "torn", "corrupt"}],
           synced' \in [Offset -> Nat]
    PROVE  TypeOK'
<1>1. TypeOK /\ active \in Offset /\ records[active] \in Nat
  BY OpenTyped DEF IInv
<1>2. [base |-> active, idx |-> records[active] + 1, id |-> op.id] \in Entry
  BY <1>1 DEF Entry
<1>3. published' \in SUBSET Entry /\ acked' \in SUBSET Entry
  BY <1>1, <1>2 DEF TypeOK, Publish
<1>4. nextOffset' \in Offset
  BY <1>1, MaxOffsetAssumption DEF TypeOK, Publish, Offset
<1>5. records' \in [Offset -> Nat]
  BY <1>1 DEF TypeOK, Publish
<1> QED
  BY <1>1, <1>3, <1>4, <1>5, NoOpTyped DEF TypeOK, Publish, retain

(* Publishing the record that sits right behind the published ones: what   *)
(* Append_Write with acks=0 and Append_Sync with acks=1 have in common.    *)
LEMMA PublishInv ==
    ASSUME IInv, NEW ack \in BOOLEAN, Publish(ack),
           pc \in {"write", "sync"},
           TypeOK', DiskOrdered',
           retain' = retain, dir' = dir, durDir' = durDir,
           tail'[active] = "clean",
           Len(frames'[active]) = records[active] + 1,
           frames'[active][records[active] + 1] = op.id,
           ack => synced'[active] = records[active] + 1,
           \A b \in Offset : synced[b] <= synced'[b],
           \A b \in Offset : \A i \in 1..Len(frames[b]) :
               i <= Len(frames'[b]) /\ frames'[b][i] = frames[b][i]
    PROVE  IInv'
<1> DEFINE e == [base |-> active, idx |-> records[active] + 1, id |-> op.id]
<1>1. /\ status = "open" /\ ~failed
      /\ active \in segments \cap dir \cap durDir
      /\ \A r \in released : r < active
      /\ nextOffset = active + records[active]
      /\ \A b \in dir \cup durDir : b <= active
      /\ records[active] \in Nat /\ active \in Offset
  BY OpenTyped DEF IInv, Quiet, WriterMatches, MemoryMatches
<1>2. /\ UNCHANGED <<status, segments, active, failed, released>>
      /\ pc' = "idle" /\ nextOffset' = nextOffset + 1
      /\ published' = published \cup {e}
      /\ acked' = IF ack THEN acked \cup {e} ELSE acked
      /\ records'[active] = records[active] + 1
      /\ \A b \in Offset \ {active} : records'[b] = records[b]
  BY <1>1 DEF Publish, IInv, TypeOK
<1>3. Anchored' /\ Quiet' /\ NeverRefused' /\ WriterMatches'
  BY <1>1, <1>2 DEF IInv, Anchored, Quiet, NeverRefused, WriterMatches
<1>4. MemoryMatches'
  <2>1. ASSUME NEW s \in segments, NEW t \in segments, s < t
        PROVE  s + records'[s] <= t
    <3>1. s \in Offset /\ s # active /\ s + records[s] <= t
      BY <1>1, <2>1, OpenTyped DEF IInv, MemoryMatches
    <3> QED
      BY <1>2, <3>1
  <2>2. nextOffset' = active' + records'[active']
    BY <1>1, <1>2, OpenTyped DEF IInv
  <2>3. \A s \in segments : s <= active
    BY <1>1 DEF IInv, MemoryMatches
  <2> QED
    BY <1>1, <1>2, <2>1, <2>2, <2>3 DEF MemoryMatches
<1>5. EntriesPresent'
  <2>1. ASSUME NEW f \in Live(published)'
        PROVE  /\ f.base \in (dir \cap durDir)'
               /\ f.idx <= Len(frames'[f.base])
               /\ frames'[f.base][f.idx] = f.id
               /\ f.base \in segments' /\ f.idx <= records'[f.base]
    <3>1. CASE f = e
      BY <1>1, <1>2, <3>1
    <3>2. CASE f # e
      <4>1. /\ f \in Live(published) /\ f.base \in Offset
            /\ f.idx \in 1..Len(frames[f.base])
            /\ f.base \in dir \cap durDir /\ f.base \in segments
            /\ frames[f.base][f.idx] = f.id /\ f.idx <= records[f.base]
            /\ records[f.base] \in Nat
        <5>1. f \in Live(published)
          BY <1>2, <2>1, <3>2 DEF Live
        <5>2. f.base \in Offset /\ f.idx \in Nat \ {0}
          BY <5>1, EntryTyped DEF Live, IInv
        <5> QED
          BY <1>1, <5>1, <5>2, OpenTyped DEF IInv, EntriesPresent
      <4>2. f.idx <= Len(frames'[f.base]) /\ frames'[f.base][f.idx] = f.id
        BY <4>1
      <4>3. f.idx <= records'[f.base]
        <5>1. CASE f.base = active
          BY <1>1, <1>2, <4>1, <5>1, EntryTyped DEF Live, IInv
        <5>2. CASE f.base # active
          BY <1>2, <4>1, <5>2
        <5> QED
          BY <5>1, <5>2
      <4> QED
        BY <1>2, <4>1, <4>2, <4>3
    <3> QED
      BY <3>1, <3>2
  <2>2. acked' \subseteq published'
    BY <1>2 DEF IInv, EntriesPresent
  <2> QED
    BY <1>2, <2>1, <2>2 DEF IInv, EntriesPresent, retain
<1>6. AckedDurable'
  <2> SUFFICES ASSUME NEW f \in Live(acked)' PROVE OnStableStorage(f)'
    BY DEF AckedDurable
  <2>1. CASE f \in acked
    <3>1. /\ OnStableStorage(f) /\ f.base \in Offset /\ f.idx \in Nat \ {0}
      BY <1>2, <2>1, EntryTyped DEF Live, IInv, AckedDurable
    <3>2. /\ f.idx <= synced[f.base] /\ synced[f.base] <= Len(frames[f.base])
          /\ synced[f.base] <= synced'[f.base]
      BY <3>1 DEF OnStableStorage, IInv, DiskOrdered
    <3>3. /\ synced[f.base] \in Nat /\ Len(frames[f.base]) \in Nat
          /\ synced'[f.base] \in Nat
      BY <3>1, OpenTyped DEF IInv, TypeOK
    <3>4. f.idx \in 1..Len(frames[f.base]) /\ f.idx <= synced'[f.base]
      BY <3>1, <3>2, <3>3
    <3> QED
      BY <3>1, <3>4 DEF OnStableStorage
  <2>2. CASE f \notin acked
    <3>1. f = e /\ ack
      BY <1>2, <2>2 DEF Live
    <3> QED
      BY <1>1, <3>1 DEF OnStableStorage
  <2> QED
    BY <2>1, <2>2
<1> QED
  BY <1>3, <1>4, <1>5, <1>6 DEF IInv

(* The frame is written; with acks=0 the record is published.              *)
LEMMA AppendWriteInv == ASSUME IInv, Append_Write PROVE IInv'
<1>1. /\ status = "open" /\ pc = "write" /\ ~failed
      /\ op.id \in Id /\ nextOffset < MaxOffset
      /\ active \in segments \cap dir \cap durDir /\ active \in Offset
      /\ nextOffset = active + records[active] /\ records[active] \in Nat
      /\ tail[active] = "clean" /\ Len(frames[active]) = records[active]
      /\ \A b \in dir \cup durDir : b <= active
      /\ frames[active] \in Seq(Id)
  BY OpenTyped DEF Append_Write, IInv, Quiet, WriterMatches, MemoryMatches
<1>2. /\ UNCHANGED <<tail, synced, dir, durDir, retain>>
      /\ frames' = [frames EXCEPT ![active] = Append(@, op.id)]
  BY <1>1 DEF Append_Write, AppendFrame
<1>3. /\ frames' \in [Offset -> Seq(Id)]
      /\ frames'[active] = Append(frames[active], op.id)
      /\ \A b \in Offset \ {active} : frames'[b] = frames[b]
  BY <1>1, <1>2 DEF IInv, TypeOK
<1>4. /\ Len(frames'[active]) = records[active] + 1
      /\ frames'[active][records[active] + 1] = op.id
      /\ \A i \in 1..Len(frames[active]) :
            i <= Len(frames'[active]) /\ frames'[active][i] = frames[active][i]
  BY <1>1, <1>3
<1>5. \A b \in Offset : \A i \in 1..Len(frames[b]) :
          i <= Len(frames'[b]) /\ frames'[b][i] = frames[b][i]
  <2> SUFFICES ASSUME NEW b \in Offset, NEW i \in 1..Len(frames[b])
               PROVE  i <= Len(frames'[b]) /\ frames'[b][i] = frames[b][i]
    OBVIOUS
  <2>1. CASE b = active
    BY <1>4, <2>1
  <2>2. CASE b # active
    BY <1>3, <2>2, OpenTyped DEF IInv
  <2> QED
    BY <2>1, <2>2
<1>6. DiskOrdered'
  <2>1. ASSUME NEW b \in Offset
        PROVE  /\ tail'[b] # "corrupt" /\ synced'[b] <= Len(frames'[b])
               /\ b + Len(frames'[b]) <= MaxOffset
    <3>1. CASE b = active
      <4>1. synced[b] <= Len(frames[b])
        BY DEF IInv, DiskOrdered
      <4> QED
        BY <1>1, <1>2, <1>4, <3>1, <4>1, OpenTyped DEF IInv
    <3>2. CASE b # active
      BY <1>2, <1>3, <3>2 DEF IInv, DiskOrdered
    <3> QED
      BY <3>1, <3>2
  <2>2. ASSUME NEW b \in dir \cup durDir, NEW c \in dir \cup durDir, b < c
        PROVE  /\ tail[b] = "clean" /\ synced[b] = Len(frames'[b])
               /\ b + Len(frames'[b]) <= c
    <3>1. b \in Offset /\ b # active
      BY <1>1, <2>2, OpenTyped DEF IInv
    <3> QED
      BY <1>3, <2>2, <3>1 DEF IInv, DiskOrdered
  <2> QED
    BY <1>2, <2>1, <2>2 DEF DiskOrdered
<1>7. CASE op.acks = "leader"
  <2>1. /\ UNCHANGED <<memory, op, history>> /\ pc' = "sync"
    BY <1>7 DEF Append_Write
  <2>2. TypeOK'
    BY <1>2, <1>3, <2>1 DEF IInv, TypeOK, memory, history, retain
  <2>3. Anchored' /\ Quiet' /\ NeverRefused'
    BY <1>1, <1>2, <2>1
       DEF IInv, Anchored, Quiet, NeverRefused, memory, history
  <2>4. MemoryMatches'
    BY <1>1, <1>2, <2>1 DEF IInv, MemoryMatches, memory, history
  <2>5. WriterMatches'
    BY <1>1, <1>4, <2>1 DEF WriterMatches, memory
  <2>6. EntriesPresent'
    <3> SUFFICES ASSUME NEW f \in Live(published)
                 PROVE  /\ f.idx <= Len(frames'[f.base])
                        /\ frames'[f.base][f.idx] = f.id
      BY <1>2, <2>1 DEF IInv, EntriesPresent, Live, memory, history, retain
    <3>1. f.base \in Offset /\ f.idx \in 1..Len(frames[f.base])
      BY EntryTyped, OpenTyped DEF Live, IInv, EntriesPresent
    <3> QED
      BY <1>5, <3>1 DEF IInv, EntriesPresent
  <2>7. AckedDurable'
    <3> SUFFICES ASSUME NEW f \in Live(acked) PROVE OnStableStorage(f)'
      BY <2>1 DEF AckedDurable, Live, history
    <3>1. OnStableStorage(f) /\ f.base \in Offset /\ f.idx \in Nat \ {0}
      BY EntryTyped DEF Live, IInv, AckedDurable
    <3>2. f.idx \in 1..Len(frames[f.base])
      BY <3>1, OpenTyped DEF OnStableStorage, IInv, DiskOrdered
    <3> QED
      BY <1>2, <1>5, <3>1, <3>2 DEF OnStableStorage
  <2> QED
    BY <1>6, <2>2, <2>3, <2>4, <2>5, <2>6, <2>7 DEF IInv
<1>8. CASE op.acks # "leader"
  <2>1. Publish(FALSE)
    BY <1>8 DEF Append_Write
  <2>2. /\ tail' \in [Offset -> {"clean", "torn", "corrupt"}]
        /\ synced' \in [Offset -> Nat]
        /\ retain' = retain /\ dir' = dir /\ durDir' = durDir
    BY <1>2 DEF IInv, TypeOK
  <2>3. TypeOK'
    BY <1>1, <1>3, <2>1, <2>2, PublishTyped
  <2>4. \A b \in Offset : synced[b] <= synced'[b]
    BY <1>2, OpenTyped DEF IInv
  <2> QED
    BY <1>1, <1>2, <1>4, <1>5, <1>6, <2>1, <2>2, <2>3, <2>4, PublishInv
<1> QED
  BY <1>7, <1>8

(* The frame is synced and the record published, with acks=1.              *)
LEMMA AppendSyncInv == ASSUME IInv, Append_Sync PROVE IInv'
<1>1. /\ status = "open" /\ pc = "sync" /\ ~failed
      /\ op.id \in Id /\ nextOffset < MaxOffset
      /\ active \in Offset /\ records[active] \in Nat
      /\ tail[active] = "clean"
      /\ Len(frames[active]) = records[active] + 1
      /\ frames[active][records[active] + 1] = op.id
  BY OpenTyped DEF Append_Sync, IInv, Quiet, WriterMatches, MemoryMatches
<1>2. /\ Publish(TRUE) /\ UNCHANGED <<retain, frames, tail, dir, durDir>>
      /\ synced' \in [Offset -> Nat]
      /\ synced'[active] = Len(frames[active])
      /\ \A b \in Offset \ {active} : synced'[b] = synced[b]
  BY <1>1, OpenTyped DEF Append_Sync, IInv, TypeOK
<1>3. /\ frames' \in [Offset -> Seq(Id)]
      /\ tail' \in [Offset -> {"clean", "torn", "corrupt"}]
      /\ retain' = retain /\ dir' = dir /\ durDir' = durDir
  BY <1>2 DEF IInv, TypeOK
<1>4. TypeOK'
  BY <1>1, <1>2, <1>3, PublishTyped
<1>5. \A b \in Offset : /\ synced[b] <= synced'[b]
                        /\ synced'[b] <= Len(frames[b])
                        /\ b # active => synced'[b] = synced[b]
                        /\ Len(frames[b]) = synced[b] =>
                              synced'[b] = synced[b]
  <2> SUFFICES ASSUME NEW b \in Offset
               PROVE  /\ synced[b] <= synced'[b]
                      /\ synced'[b] <= Len(frames[b])
                      /\ b # active => synced'[b] = synced[b]
                      /\ Len(frames[b]) = synced[b] => synced'[b] = synced[b]
    OBVIOUS
  <2>1. /\ synced[b] <= Len(frames[b])
        /\ synced[b] \in Nat /\ Len(frames[b]) \in Nat
    BY OpenTyped DEF IInv, DiskOrdered
  <2> QED
    BY <1>2, <2>1
<1>6. DiskOrdered'
  <2>1. dir \subseteq Offset /\ durDir \subseteq Offset
    BY DEF IInv, TypeOK
  <2> QED
    BY <1>2, <1>5, <2>1 DEF IInv, DiskOrdered
<1>7. \A b \in Offset : \A i \in 1..Len(frames[b]) :
          i <= Len(frames'[b]) /\ frames'[b][i] = frames[b][i]
  BY <1>2, OpenTyped DEF IInv
<1> QED
  BY <1>1, <1>2, <1>3, <1>4, <1>5, <1>6, <1>7, PublishInv

(* A pass selects sealed segments only.                                    *)
LEMMA RetentionStartInv == ASSUME IInv, Retention_Start PROVE IInv'
<1>1. PICK D \in SUBSET segments :
          Selectable(D) /\ doomed' = D /\ released' = released \cup D
  BY DEF Retention_Start
<1>2. /\ status = "open" /\ pc = "idle" /\ ~failed /\ pc' = "unlink"
      /\ UNCHANGED <<memory, op, gone, disk, nextId, published, acked>>
  BY DEF Retention_Start
<1>3. /\ active \in segments \cap dir \cap durDir
      /\ \A s \in segments : s <= active
      /\ \A r \in released : r < active
      /\ active \in Nat /\ segments \subseteq Nat /\ segments \subseteq Offset
  BY <1>2, OpenTyped DEF IInv, MemoryMatches
<1>4. \A r \in released' : r < active
  <2>1. \A d \in D : d \in segments /\ d # active
    BY <1>1 DEF Selectable
  <2>2. \A d \in D : d < active
    BY <1>3, <2>1
  <2> QED
    BY <1>1, <1>3, <2>2
<1>5. TypeOK'
  BY <1>1, <1>2, <1>3 DEF IInv, TypeOK, memory, disk
<1>6. DiskOrdered' /\ Anchored' /\ Quiet' /\ NeverRefused'
  BY <1>2, <1>3, <1>4
     DEF IInv, DiskOrdered, Anchored, Quiet, NeverRefused, memory, disk
<1>7. MemoryMatches' /\ WriterMatches'
  BY <1>2, <1>4 DEF IInv, MemoryMatches, WriterMatches, memory, disk
<1>8. EntriesPresent' /\ AckedDurable'
  BY <1>1, <1>2
     DEF IInv, EntriesPresent, AckedDurable, OnStableStorage, Live, memory, disk
<1> QED
  BY <1>5, <1>6, <1>7, <1>8 DEF IInv

(* A segment is unlinked.                                                  *)
LEMMA RetentionUnlinkInv == ASSUME IInv, Retention_Unlink PROVE IInv'
<1>1. /\ status = "open" /\ pc = "unlink" /\ ~failed
      /\ active \in segments \cap dir \cap durDir
      /\ \A r \in released : r < active
      /\ active \notin doomed /\ active \in Nat
  BY OpenTyped DEF Retention_Unlink, IInv, Quiet, MemoryMatches, WriterMatches,
                   EntriesPresent
<1>2. /\ UNCHANGED <<status, segments, active, records, nextOffset, failed>>
      /\ UNCHANGED <<pc, op, frames, tail, synced, durDir, history>>
  BY DEF Retention_Unlink, memory
<1>3. /\ doomed' \subseteq doomed /\ gone' \subseteq gone \cup doomed
      /\ dir' \subseteq dir /\ dir \ doomed \subseteq dir'
  BY DEF Retention_Unlink
<1>4. doomed \cup gone \subseteq released
  BY DEF IInv, EntriesPresent
<1>5. TypeOK'
  BY <1>2, <1>3 DEF IInv, TypeOK, history
<1>6. DiskOrdered'
  BY <1>2, <1>3 DEF IInv, DiskOrdered
<1>7. Anchored' /\ Quiet' /\ NeverRefused'
  BY <1>1, <1>2, <1>3, <1>4 DEF IInv, Anchored, Quiet, NeverRefused, history
<1>8. MemoryMatches' /\ WriterMatches'
  BY <1>1, <1>2, <1>3 DEF IInv, MemoryMatches, WriterMatches, history
<1>9. EntriesPresent' /\ AckedDurable'
  BY <1>2, <1>3, <1>4
     DEF IInv, EntriesPresent, AckedDurable, OnStableStorage, Live, history
<1> QED
  BY <1>5, <1>6, <1>7, <1>8, <1>9 DEF IInv

(* An unlink fails and the segment is kept.                                *)
LEMMA RetentionUnlinkFailInv == ASSUME IInv, Retention_UnlinkFail PROVE IInv'
<1>1. /\ status = "open" /\ pc = "unlink" /\ ~failed
      /\ active \in segments \cap dir \cap durDir
      /\ \A r \in released : r < active
      /\ active \notin doomed /\ active \in Nat
  BY OpenTyped DEF Retention_UnlinkFail, IInv, Quiet, MemoryMatches,
                   WriterMatches, EntriesPresent
<1>2. /\ UNCHANGED <<status, segments, active, records, nextOffset, failed>>
      /\ UNCHANGED <<pc, op, frames, tail, synced, durDir, history>>
  BY DEF Retention_UnlinkFail, memory
<1>3. /\ doomed' \subseteq doomed /\ gone' \subseteq gone \cup doomed
      /\ dir' \subseteq dir /\ dir \ doomed \subseteq dir'
  BY DEF Retention_UnlinkFail
<1>4. doomed \cup gone \subseteq released
  BY DEF IInv, EntriesPresent
<1>5. TypeOK'
  BY <1>2, <1>3 DEF IInv, TypeOK, history
<1>6. DiskOrdered'
  BY <1>2, <1>3 DEF IInv, DiskOrdered
<1>7. Anchored' /\ Quiet' /\ NeverRefused'
  BY <1>1, <1>2, <1>3, <1>4 DEF IInv, Anchored, Quiet, NeverRefused, history
<1>8. MemoryMatches' /\ WriterMatches'
  BY <1>1, <1>2, <1>3 DEF IInv, MemoryMatches, WriterMatches, history
<1>9. EntriesPresent' /\ AckedDurable'
  BY <1>2, <1>3, <1>4
     DEF IInv, EntriesPresent, AckedDurable, OnStableStorage, Live, history
<1> QED
  BY <1>5, <1>6, <1>7, <1>8, <1>9 DEF IInv

(* The pass forgets the segments it unlinked.                              *)
LEMMA RetentionFinishInv == ASSUME IInv, Retention_Finish PROVE IInv'
<1>1. /\ status = "open" /\ pc = "unlink" /\ ~failed
      /\ active \in segments \cap dir \cap durDir
      /\ \A r \in released : r < active
      /\ gone \subseteq released /\ doomed \subseteq released
      /\ active \in Nat /\ active \notin gone
  BY OpenTyped DEF Retention_Finish, IInv, Quiet, MemoryMatches, WriterMatches,
                   EntriesPresent
<1>2. /\ pc' = "idle" /\ gone' = {} /\ segments' = segments \ gone
      /\ durDir' \in {dir, durDir} /\ dir' = dir
      /\ UNCHANGED <<status, active, records, nextOffset, failed, op, doomed>>
      /\ UNCHANGED <<frames, tail, synced, history>>
  BY DEF Retention_Finish
<1>3. TypeOK'
  BY <1>2 DEF IInv, TypeOK, history
<1>4. DiskOrdered'
  BY <1>2 DEF IInv, DiskOrdered
<1>5. Anchored' /\ Quiet' /\ NeverRefused'
  BY <1>1, <1>2 DEF IInv, Anchored, Quiet, NeverRefused, history
<1>6. MemoryMatches' /\ WriterMatches'
  BY <1>1, <1>2 DEF IInv, MemoryMatches, WriterMatches, history
<1>7. EntriesPresent' /\ AckedDurable'
  BY <1>1, <1>2
     DEF IInv, EntriesPresent, AckedDurable, OnStableStorage, Live, history
<1> QED
  BY <1>3, <1>4, <1>5, <1>6, <1>7 DEF IInv

(* The end of the process leaves the disk alone.                           *)
LEMMA ProcessCrashInv == ASSUME IInv, ProcessCrash PROVE IInv'
<1>1. LoseMemory /\ UNCHANGED <<disk, history>>
  BY DEF ProcessCrash
<1>2. TypeOK'
  BY <1>1, NoOpTyped, OpenTyped
     DEF LoseMemory, IInv, TypeOK, disk, history
<1>3. DiskOrdered' /\ Anchored' /\ Quiet' /\ NeverRefused'
  BY <1>1 DEF LoseMemory, IInv, DiskOrdered, Anchored, Quiet, NeverRefused,
              disk, history
<1>4. MemoryMatches' /\ WriterMatches'
  BY <1>1 DEF LoseMemory, MemoryMatches, WriterMatches
<1>5. EntriesPresent' /\ AckedDurable'
  BY <1>1 DEF LoseMemory, IInv, EntriesPresent, AckedDurable,
              OnStableStorage, Live, disk, history
<1> QED
  BY <1>2, <1>3, <1>4, <1>5 DEF IInv

(* A prefix of a file keeps the frames it has.                             *)
LEMMA PrefixFacts ==
    ASSUME NEW S, NEW s \in Seq(S), NEW k \in Nat, k <= Len(s)
    PROVE  /\ SubSeq(s, 1, k) \in Seq(S) /\ Len(SubSeq(s, 1, k)) = k
           /\ \A i \in 1..k : SubSeq(s, 1, k)[i] = s[i]
  OBVIOUS

(* Power loss shortens files above their synced part only.                 *)
LEMMA OSCrashInv == ASSUME IInv, OSCrash PROVE IInv'
<1>1. \A b \in Offset :
         /\ synced[b] \in Nat /\ Len(frames[b]) \in Nat
         /\ synced[b] <= Len(frames[b])
         /\ b + Len(frames[b]) <= MaxOffset /\ tail[b] # "corrupt"
         /\ tail[b] \in {"clean", "torn", "corrupt"}
         /\ frames[b] \in Seq(Id)
  BY OpenTyped DEF IInv, DiskOrdered, TypeOK
<1>2. PICK keep \in [AtRisk -> Offset], cut \in SUBSET AtRisk :
          /\ \A b \in AtRisk : keep[b] \in synced[b]..Len(frames[b])
          /\ frames' = [b \in Offset |-> IF b \in AtRisk
                                         THEN SubSeq(frames[b], 1, keep[b])
                                         ELSE frames[b]]
          /\ tail' = [b \in Offset |-> IF b \in cut THEN "torn"
                                       ELSE IF b \in AtRisk THEN "clean"
                                       ELSE tail[b]]
          /\ synced' = [b \in Offset |-> IF b \in AtRisk THEN keep[b]
                                         ELSE synced[b]]
  BY DEF OSCrash
<1>3. /\ LoseMemory /\ dir' \subseteq dir \cup durDir
      /\ dir \cap durDir \subseteq dir' /\ durDir' = dir'
      /\ published' = acked /\ UNCHANGED <<nextId, acked, released>>
  BY DEF OSCrash
<1>4. ASSUME NEW b \in Offset
      PROVE  /\ frames'[b] \in Seq(Id) /\ synced'[b] \in Nat
             /\ Len(frames'[b]) \in Nat
             /\ synced'[b] <= Len(frames'[b])
             /\ Len(frames'[b]) <= Len(frames[b])
             /\ synced[b] <= synced'[b]
             /\ \A i \in 1..synced[b] : frames'[b][i] = frames[b][i]
             /\ tail'[b] \in {"clean", "torn"}
             /\ b \notin AtRisk => /\ frames'[b] = frames[b]
                                   /\ tail'[b] = tail[b]
                                   /\ synced'[b] = synced[b]
  <2>1. CASE b \in AtRisk
    <3>1. /\ keep[b] \in Nat /\ synced[b] <= keep[b]
          /\ keep[b] <= Len(frames[b])
      BY <1>1, <1>2, <2>1
    <3>2. /\ frames'[b] = SubSeq(frames[b], 1, keep[b])
          /\ synced'[b] = keep[b] /\ tail'[b] \in {"clean", "torn"}
      BY <1>2, <2>1
    <3>3. /\ SubSeq(frames[b], 1, keep[b]) \in Seq(Id)
          /\ Len(SubSeq(frames[b], 1, keep[b])) = keep[b]
          /\ \A i \in 1..keep[b] :
                SubSeq(frames[b], 1, keep[b])[i] = frames[b][i]
      BY <1>1, <3>1, PrefixFacts
    <3>4. \A i \in 1..synced[b] : i \in 1..keep[b]
      BY <1>1, <3>1
    <3> QED
      BY <1>1, <2>1, <3>1, <3>2, <3>3, <3>4
  <2>2. CASE b \notin AtRisk
    <3>1. /\ frames'[b] = frames[b] /\ synced'[b] = synced[b]
          /\ tail'[b] = tail[b]
      BY <1>2, <2>2
    <3> QED
      BY <1>1, <3>1
  <2> QED
    BY <2>1, <2>2
<1>5. TypeOK'
  <2>1. /\ frames' \in [Offset -> Seq(Id)] /\ synced' \in [Offset -> Nat]
        /\ tail' \in [Offset -> {"clean", "torn", "corrupt"}]
    BY <1>2, <1>4
  <2>2. dir' \in SUBSET Offset /\ durDir' \in SUBSET Offset
    BY <1>3 DEF IInv, TypeOK
  <2> QED
    BY <1>3, <2>1, <2>2, NoOpTyped, OpenTyped DEF LoseMemory, IInv, TypeOK
<1>6. DiskOrdered'
  <2>1. ASSUME NEW b \in Offset
        PROVE  /\ tail'[b] # "corrupt" /\ synced'[b] <= Len(frames'[b])
               /\ b + Len(frames'[b]) <= MaxOffset
    <3>1. MaxOffset \in Nat /\ b \in Nat
      BY MaxOffsetAssumption DEF Offset
    <3>2. /\ tail'[b] \in {"clean", "torn"} /\ synced'[b] <= Len(frames'[b])
          /\ Len(frames'[b]) \in Nat /\ Len(frames'[b]) <= Len(frames[b])
      BY <1>4
    <3>3. Len(frames[b]) \in Nat /\ b + Len(frames[b]) <= MaxOffset
      BY <1>1
    <3>4. b + Len(frames'[b]) <= MaxOffset
      BY <3>1, <3>2, <3>3
    <3> QED
      BY <3>2, <3>4
  <2>2. ASSUME NEW b \in dir' \cup durDir', NEW c \in dir' \cup durDir', b < c
        PROVE  /\ tail'[b] = "clean" /\ synced'[b] = Len(frames'[b])
               /\ b + Len(frames'[b]) <= c
    <3>1. /\ b \in dir \cup durDir /\ c \in dir \cup durDir
      BY <1>3
    <3>2. /\ b \in Offset /\ tail[b] = "clean" /\ synced[b] = Len(frames[b])
          /\ b + Len(frames[b]) <= c
      BY <2>2, <3>1, OpenTyped DEF IInv, DiskOrdered
    <3>3. b \notin AtRisk
      BY <1>1, <3>2 DEF AtRisk
    <3> QED
      BY <1>4, <3>2, <3>3
  <2> QED
    BY <2>1, <2>2 DEF DiskOrdered
<1>7. Anchored' /\ Quiet' /\ NeverRefused' /\ MemoryMatches' /\ WriterMatches'
  BY <1>3 DEF LoseMemory, IInv, Anchored, Quiet, NeverRefused, MemoryMatches,
              WriterMatches
<1>8. ASSUME NEW e \in Live(acked)
      PROVE  /\ e.base \in dir' \cap durDir' /\ e.base \in Offset
             /\ e.idx <= synced'[e.base] /\ e.idx <= Len(frames'[e.base])
             /\ frames'[e.base][e.idx] = e.id
  <2>1. /\ OnStableStorage(e) /\ e.base \in Offset /\ e.idx \in Nat \ {0}
    BY EntryTyped DEF Live, IInv, AckedDurable
  <2>2. e.idx \in 1..synced[e.base]
    BY <1>1, <2>1 DEF OnStableStorage
  <2>3. /\ synced'[e.base] \in Nat /\ Len(frames'[e.base]) \in Nat
        /\ synced[e.base] \in Nat
        /\ synced[e.base] <= synced'[e.base]
        /\ synced'[e.base] <= Len(frames'[e.base])
        /\ frames'[e.base][e.idx] = frames[e.base][e.idx]
    BY <1>1, <1>4, <2>1, <2>2
  <2> QED
    BY <1>3, <2>1, <2>2, <2>3 DEF OnStableStorage
<1>9. EntriesPresent' /\ AckedDurable'
  BY <1>3, <1>8
     DEF EntriesPresent, AckedDurable, OnStableStorage, Live, LoseMemory
<1> QED
  BY <1>5, <1>6, <1>7, <1>9 DEF IInv

(* What a crash leaves can always be opened, and is read back whole.       *)
LEMMA OpenPartitionInv == ASSUME IInv, OpenPartition PROVE IInv'
<1>1. /\ status = "down" /\ pc = "idle" /\ ~failed
      /\ IF Openable THEN Replay ELSE Refuse
  BY DEF OpenPartition, IInv, Quiet
<1>2. /\ dir \subseteq Offset /\ durDir \subseteq Offset
      /\ Offset \subseteq Nat
      /\ \A b \in Offset : tail[b] \in {"clean", "torn"}
  BY OpenTyped DEF IInv, TypeOK, DiskOrdered
<1>3. Openable
  <2>1. dir # {}
    BY DEF IInv, Anchored
  <2>2. ASSUME NEW b \in dir, tail[b] # "clean", NEW c \in dir PROVE c <= b
    BY <1>2, <2>2 DEF IInv, DiskOrdered
  <2> QED
    BY <1>2, <2>1, <2>2 DEF Openable
<1>4. PICK a \in dir :
          /\ \A b \in dir : b <= a
          /\ active' = a /\ nextOffset' = a + Len(frames[a])
          /\ IF tail[a] = "torn"
             THEN /\ tail' = [tail EXCEPT ![a] = "clean"]
                  /\ synced' = [synced EXCEPT ![a] = Len(frames[a])]
             ELSE UNCHANGED <<tail, synced>>
  BY <1>1, <1>3 DEF Replay
<1>5. /\ status' = "open" /\ segments' = dir /\ durDir' = dir
      /\ records' = [b \in Offset |-> IF b \in dir THEN Len(frames[b]) ELSE 0]
      /\ UNCHANGED <<failed, pc, op, retain, frames, dir, history>>
  BY <1>1, <1>3 DEF Replay
<1>6. /\ \A b \in Offset : /\ Len(frames[b]) \in Nat /\ synced[b] \in Nat
                           /\ synced[b] <= Len(frames[b])
                           /\ b + Len(frames[b]) <= MaxOffset
      /\ a \in Offset /\ a \in Nat
  BY <1>2, OpenTyped DEF IInv, DiskOrdered
<1>7. ASSUME NEW b \in Offset
      PROVE  /\ tail'[b] \in {"clean", "torn"}
             /\ synced'[b] \in Nat
             /\ synced[b] <= synced'[b] /\ synced'[b] <= Len(frames[b])
             /\ b = a => tail'[b] = "clean"
             /\ b # a => tail'[b] = tail[b] /\ synced'[b] = synced[b]
  <2>1. CASE tail[a] = "torn"
    <3>1. /\ tail' = [tail EXCEPT ![a] = "clean"]
          /\ synced' = [synced EXCEPT ![a] = Len(frames[a])]
      BY <1>4, <2>1
    <3>2. CASE b = a
      BY <1>6, <3>1, <3>2 DEF IInv, TypeOK
    <3>3. CASE b # a
      <4>1. tail'[b] = tail[b] /\ synced'[b] = synced[b]
        BY <3>1, <3>3 DEF IInv, TypeOK
      <4> QED
        BY <1>2, <1>6, <3>3, <4>1
    <3> QED
      BY <3>2, <3>3
  <2>2. CASE tail[a] # "torn"
    BY <1>2, <1>4, <1>6, <2>2
  <2> QED
    BY <2>1, <2>2
<1>8. TypeOK'
  <2>1. records' \in [Offset -> Nat]
    BY <1>5, <1>6
  <2>2. nextOffset' \in Offset /\ active' \in Offset
    BY <1>4, <1>6, MaxOffsetAssumption DEF Offset
  <2>3. /\ tail' \in [Offset -> {"clean", "torn", "corrupt"}]
        /\ synced' \in [Offset -> Nat]
    BY <1>4, <1>6 DEF IInv, TypeOK
  <2> QED
    BY <1>5, <2>1, <2>2, <2>3 DEF IInv, TypeOK, retain, history
<1>9. DiskOrdered'
  <2>1. ASSUME NEW b \in dir, NEW c \in dir, b < c
        PROVE  /\ tail'[b] = "clean" /\ synced'[b] = Len(frames[b])
               /\ b + Len(frames[b]) <= c
    <3>1. b # a /\ b \in Offset
      BY <1>2, <1>4, <1>6, <2>1
    <3> QED
      BY <1>7, <2>1, <3>1 DEF IInv, DiskOrdered
  <2> QED
    BY <1>5, <1>6, <1>7, <2>1 DEF DiskOrdered
<1>10. \A r \in released : r < a
  <2>1. PICK c \in dir \cap durDir : \A r \in released : r < c
    BY DEF IInv, Anchored
  <2>2. released \subseteq Nat /\ c \in Nat /\ c <= a
    BY <1>2, <1>4, OpenTyped DEF IInv
  <2> QED
    BY <1>6, <2>1, <2>2
<1>11. Anchored' /\ Quiet' /\ NeverRefused' /\ WriterMatches'
  BY <1>1, <1>5, <1>10 DEF Anchored, Quiet, NeverRefused, WriterMatches, history
<1>12. MemoryMatches'
  <2>1. /\ records'[a] = Len(frames[a]) /\ tail'[a] = "clean"
    BY <1>5, <1>6, <1>7
  <2>2. ASSUME NEW s \in dir, NEW t \in dir, s < t PROVE s + records'[s] <= t
    BY <1>2, <1>5, <2>2 DEF IInv, DiskOrdered
  <2> QED
    BY <1>1, <1>4, <1>5, <1>10, <2>1, <2>2 DEF MemoryMatches, history
<1>13. EntriesPresent'
  <2>1. ASSUME NEW e \in Live(published)
        PROVE  /\ e.base \in dir /\ e.idx <= Len(frames[e.base])
               /\ frames[e.base][e.idx] = e.id
               /\ e.idx <= records'[e.base]
    BY <1>2, <1>5 DEF IInv, EntriesPresent
  <2> QED
    BY <1>5, <2>1 DEF IInv, EntriesPresent, Live, retain, history
<1>14. AckedDurable'
  <2> SUFFICES ASSUME NEW e \in Live(acked) PROVE OnStableStorage(e)'
    BY <1>5 DEF AckedDurable, Live, history
  <2>1. /\ OnStableStorage(e) /\ e.base \in Offset /\ e.idx \in Nat
    BY EntryTyped DEF Live, IInv, AckedDurable
  <2>2. e.idx <= synced[e.base] /\ synced[e.base] <= synced'[e.base]
    BY <1>7, <2>1 DEF OnStableStorage
  <2>3. synced[e.base] \in Nat /\ synced'[e.base] \in Nat
    BY <1>6, <1>7, <2>1
  <2>4. e.idx <= synced'[e.base]
    BY <2>1, <2>2, <2>3
  <2> QED
    BY <1>5, <2>1, <2>4 DEF OnStableStorage
<1> QED
  BY <1>8, <1>9, <1>11, <1>12, <1>13, <1>14 DEF IInv

-----------------------------------------------------------------------------
(* A stuttering step keeps the invariant.                                  *)
LEMMA StutterInv == ASSUME IInv, UNCHANGED vars PROVE IInv'
<1> USE DEF vars, memory, retain, disk, history
<1>1. TypeOK' /\ DiskOrdered' /\ Anchored' /\ Quiet' /\ MemoryMatches'
  BY DEF IInv, TypeOK, DiskOrdered, Anchored, Quiet, MemoryMatches
<1>2. WriterMatches' /\ EntriesPresent' /\ AckedDurable' /\ NeverRefused'
  BY DEF IInv, WriterMatches, EntriesPresent, AckedDurable, NeverRefused,
         OnStableStorage, Live
<1> QED
  BY <1>1, <1>2 DEF IInv

(* Every step keeps the invariant.                                         *)
LEMMA StepInv == IInv /\ [Next]_vars => IInv'
<1> SUFFICES ASSUME IInv, [Next]_vars PROVE IInv'
  OBVIOUS
<1>1. CASE AppendStep
  BY <1>1, AppendStartInv, RollSealInv, RollCreateInv, RollFinishInv,
     RollFailInv, AppendWriteInv, AppendWriteFailInv, AppendSyncInv,
     AppendSyncFailInv DEF AppendStep
<1>2. CASE RetentionStep
  BY <1>2, RetentionStartInv, RetentionUnlinkInv, RetentionUnlinkFailInv,
     RetentionFinishInv DEF RetentionStep
<1>3. CASE ProcessCrash \/ OSCrash \/ OpenPartition
  BY <1>3, ProcessCrashInv, OSCrashInv, OpenPartitionInv
<1>4. CASE UNCHANGED vars
  BY <1>4, StutterInv
<1> QED
  BY <1>1, <1>2, <1>3, <1>4 DEF Next

(* The inductive invariant holds in every reachable state.                 *)
THEOREM Inductive == Spec => []IInv
  BY InitInv, StepInv, PTL DEF Spec

(* Every variable keeps its type; in particular no offset reaches past     *)
(* math.MaxInt64, whatever crashes and failed syncs do to the LEO.         *)
THEOREM TypeCorrect == Spec => []TypeOK
<1>1. IInv => TypeOK
  BY DEF IInv
<1> QED
  BY <1>1, Inductive, PTL

(* acks=1: an acknowledged record is on stable storage at its offset until *)
(* retention releases its segment.                                         *)
THEOREM AckedIsDurable == Spec => []AckedDurable
<1>1. IInv => AckedDurable
  BY DEF IInv
<1> QED
  BY <1>1, Inductive, PTL

(* openPartition never refuses a partition this program left on disk.      *)
THEOREM OpenNeverRefuses == Spec => []NeverRefused
<1>1. IInv => NeverRefused
  BY DEF IInv
<1> QED
  BY <1>1, Inductive, PTL

(* The O_EXCL creation of the next segment never meets a leftover file.    *)
THEOREM RollNameIsFree == Spec => []RollNameFree
<1>1. ASSUME IInv, pc = "create" PROVE nextOffset \notin dir
  <2>1. /\ status = "open" /\ ~failed /\ records[active] > 0
        /\ nextOffset = active + records[active]
        /\ \A b \in dir : b <= active
    BY <1>1 DEF IInv, Quiet, WriterMatches, MemoryMatches
  <2> QED
    BY <1>1, <2>1, OpenTyped DEF IInv
<1>2. IInv => RollNameFree
  BY <1>1 DEF RollNameFree
<1> QED
  BY <1>2, Inductive, PTL

(* Of two live entries of one partition, the one at the lower offset lies  *)
(* in the same segment or in a lower one.                                  *)
LEMMA OffsetOrder ==
    ASSUME IInv, NEW e \in Live(published), NEW f \in Live(published),
           OffsetOf(f) < OffsetOf(e)
    PROVE  f.base < e.base \/ (f.base = e.base /\ f.idx < e.idx)
<1>1. /\ e.base \in Nat /\ e.idx \in Nat \ {0} /\ e.base \in dir
      /\ f.base \in Nat /\ f.idx \in Nat \ {0} /\ f.base \in dir
      /\ e.base \in Offset /\ Len(frames[e.base]) \in Nat
      /\ e.idx <= Len(frames[e.base])
  BY EntryTyped, OpenTyped DEF IInv, EntriesPresent, Live
<1>2. ~(e.base < f.base)
  <2> SUFFICES ASSUME e.base < f.base PROVE FALSE
    OBVIOUS
  <2>1. e.base + Len(frames[e.base]) <= f.base
    BY <1>1 DEF IInv, DiskOrdered
  <2>2. e.base + e.idx <= f.base
    BY <1>1, <2>1
  <2>3. e.base + e.idx - 1 < f.base + f.idx - 1
    BY <1>1, <2>2
  <2>4. f.base + f.idx - 1 < e.base + e.idx - 1
    BY DEF OffsetOf
  <2> QED
    BY <1>1, <2>3, <2>4
<1> QED
  BY <1>1, <1>2 DEF OffsetOf

(* An acks=1 success makes every record below it durable too.              *)
THEOREM AckCovers == Spec => []AckCoversPrefix
<1>1. ASSUME IInv, NEW e \in Live(acked), NEW f \in Live(published),
             OffsetOf(f) < OffsetOf(e)
      PROVE  OnStableStorage(f)
  <2>1. e \in Live(published)
    BY <1>1 DEF IInv, EntriesPresent, Live
  <2>2. /\ f.base \in dir \cap durDir /\ f.idx <= Len(frames[f.base])
        /\ frames[f.base][f.idx] = f.id /\ f.base \in Offset
        /\ f.idx \in Nat /\ e.idx \in Nat
        /\ Len(frames[f.base]) \in Nat /\ synced[f.base] \in Nat
    BY <1>1, <2>1, EntryTyped, OpenTyped DEF IInv, EntriesPresent, Live
  <2>3. OnStableStorage(e)
    BY <1>1 DEF IInv, AckedDurable
  <2>4. f.base < e.base \/ (f.base = e.base /\ f.idx < e.idx)
    BY <1>1, <2>1, OffsetOrder
  <2>5. CASE f.base < e.base
    <3>1. e.base \in dir \cup durDir
      BY <2>3 DEF OnStableStorage
    <3>2. synced[f.base] = Len(frames[f.base])
      BY <1>1, <2>2, <2>5, <3>1 DEF IInv, DiskOrdered
    <3> QED
      BY <2>2, <3>2 DEF OnStableStorage
  <2>6. CASE f.base = e.base /\ f.idx < e.idx
    BY <2>2, <2>3, <2>6 DEF OnStableStorage
  <2> QED
    BY <2>4, <2>5, <2>6
<1>2. IInv => AckCoversPrefix
  BY <1>1 DEF AckCoversPrefix
<1> QED
  BY <1>2, Inductive, PTL

(* ReadFrom returns every live published record at its own offset.         *)
THEOREM PublishedIsReadable == Spec => []PublishedReadable
<1>1. ASSUME IInv, status = "open", NEW e \in Live(published)
      PROVE  /\ OffsetOf(e) < nextOffset
             /\ FirstRead(OffsetOf(e)) = [off |-> OffsetOf(e), id |-> e.id]
  <2> DEFINE o == OffsetOf(e)
             beyond == {b \in segments : b + records[b] > o}
  <2>1. /\ e.base \in Nat /\ e.idx \in Nat \ {0} /\ e.id = frames[e.base][e.idx]
        /\ e.base \in segments /\ e.idx <= records[e.base]
        /\ o = e.base + e.idx - 1 /\ o \in Nat
        /\ \A s \in segments : s \in Nat /\ records[s] \in Nat
    BY <1>1, EntryTyped, OpenTyped
       DEF IInv, EntriesPresent, Live, OffsetOf
  <2>2. /\ \A s, t \in segments : s < t => s + records[s] <= t
        /\ \A s \in segments : s <= active
        /\ active \in segments /\ nextOffset = active + records[active]
    BY <1>1 DEF IInv, MemoryMatches
  <2>3. o < nextOffset
    <3>1. CASE e.base = active
      BY <2>1, <2>2, <3>1
    <3>2. CASE e.base < active
      BY <2>1, <2>2, <3>2
    <3> QED
      BY <2>1, <2>2, <3>1, <3>2
  <2>4. e.base \in beyond
    BY <2>1
  <2>5. \A s \in beyond : e.base <= s
    <3> SUFFICES ASSUME NEW s \in segments, s + records[s] > o, s < e.base
                 PROVE  FALSE
      BY <2>1
    <3>1. s + records[s] <= e.base
      BY <2>1, <2>2
    <3> QED
      BY <2>1, <3>1
  <2>6. MinOf(beyond) = e.base
    <3>1. \A s \in beyond : s \in Nat
      BY <2>1
    <3> HIDE DEF beyond
    <3> QED
      BY <2>1, <2>4, <2>5, <3>1 DEF MinOf
  <2>7. ~(o < e.base) /\ o - e.base + 1 = e.idx
    BY <2>1
  <2> QED
    BY <2>1, <2>3, <2>6, <2>7 DEF FirstRead
<1>2. IInv => PublishedReadable
  BY <1>1 DEF PublishedReadable
<1> QED
  BY <1>2, Inductive, PTL
=============================================================================
