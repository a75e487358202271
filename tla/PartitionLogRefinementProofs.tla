-------------------- MODULE PartitionLogRefinementProofs --------------------
(***************************************************************************)
(* Proof, for every MaxOffset and MaxRecords, that PartitionLog implements *)
(* DurableLog.  The invariant of PartitionLogProofs says where published   *)
(* records are; the contract also forbids that any record, published or    *)
(* left behind by an append that failed, shows up twice or out of order.   *)
(* FramesOrdered adds that the frames of all files, taken by offset, are   *)
(* in the order in which their records were offered, and OpIsNewest that   *)
(* the record an append has yet to write is newer than all of them.        *)
(***************************************************************************)
EXTENDS PartitionLogRefinement, PartitionLogProofs

Files == dir \cup durDir \cup segments

(* Frame i of file b comes before frame j of file c.                       *)
Before(b, i, c, j) == b < c \/ (b = c /\ i < j)

FramesOrdered ==
    /\ \A b \in Files : \A i \in 1..Len(frames[b]) : frames[b][i] < nextId
    /\ \A b, c \in Files :
          \A i \in 1..Len(frames[b]), j \in 1..Len(frames[c]) :
             Before(b, i, c, j) => frames[b][i] < frames[c][j]

OpIsNewest ==
    /\ pc \in {"seal", "create", "syncdir", "write", "sync"} =>
          op.id < nextId
    /\ pc \in {"seal", "create", "syncdir", "write"} =>
          \A b \in Files : \A i \in 1..Len(frames[b]) : frames[b][i] < op.id

WithinFiles ==
    status = "open" => \A b \in segments : records[b] <= Len(frames[b])

RInv == IInv /\ FramesOrdered /\ OpIsNewest /\ WithinFiles

(* No step but the write of a frame adds any: what a file holds afterwards *)
(* it held before.                                                         *)
NoNewFrames ==
    \A b \in Files' : \A i \in 1..Len(frames'[b]) :
        b \in Files /\ i \in 1..Len(frames[b]) /\ frames'[b][i] = frames[b][i]

-----------------------------------------------------------------------------
(* Files and their frames have the types of offsets and records.           *)
LEMMA FilesTyped ==
    ASSUME TypeOK
    PROVE  /\ Files \subseteq Offset /\ Offset \subseteq Nat
           /\ nextId \in Nat /\ op.id \in Nat
           /\ \A b \in Offset : /\ Len(frames[b]) \in Nat
                                /\ \A i \in 1..Len(frames[b]) :
                                      frames[b][i] \in Nat
<1>1. Files \subseteq Offset /\ Offset \subseteq Nat
  BY OpenTyped DEF Files
<1>2. nextId \in Nat /\ op.id \in Nat
  BY MaxRecordsAssumption DEF TypeOK, Op
<1>3. ASSUME NEW b \in Offset
      PROVE  /\ Len(frames[b]) \in Nat
             /\ \A i \in 1..Len(frames[b]) : frames[b][i] \in Nat
  <2>1. frames[b] \in Seq(Id)
    BY DEF TypeOK
  <2>2. Id \subseteq Nat
    BY MaxRecordsAssumption DEF Id
  <2>3. \A i \in 1..Len(frames[b]) : frames[b][i] \in Id
    BY <2>1
  <2>4. Len(frames[b]) \in Nat
    BY <2>1
  <2> QED
    BY <2>2, <2>3, <2>4
<1> QED
  BY <1>1, <1>2, <1>3

(* The order of frames outlives any step that adds none.                   *)
LEMMA OrderInherited ==
    ASSUME TypeOK, FramesOrdered, NoNewFrames,
           nextId' \in Nat, nextId <= nextId'
    PROVE  FramesOrdered'
<1>1. ASSUME NEW b \in Files', NEW i \in 1..Len(frames'[b])
      PROVE  frames'[b][i] < nextId'
  <2>1. /\ b \in Files /\ i \in 1..Len(frames[b])
        /\ frames'[b][i] = frames[b][i]
    BY DEF NoNewFrames
  <2>2. frames[b][i] < nextId /\ frames[b][i] \in Nat /\ nextId \in Nat
    BY <2>1, FilesTyped DEF FramesOrdered
  <2> QED
    BY <2>1, <2>2
<1>2. ASSUME NEW b \in Files', NEW c \in Files',
             NEW i \in 1..Len(frames'[b]), NEW j \in 1..Len(frames'[c]),
             Before(b, i, c, j)
      PROVE  frames'[b][i] < frames'[c][j]
  <2>1. /\ b \in Files /\ i \in 1..Len(frames[b])
        /\ frames'[b][i] = frames[b][i]
        /\ c \in Files /\ j \in 1..Len(frames[c])
        /\ frames'[c][j] = frames[c][j]
    BY DEF NoNewFrames
  <2> QED
    BY <1>2, <2>1 DEF FramesOrdered
<1> QED
  BY <1>1, <1>2 DEF FramesOrdered

(* So does being newer than all of them.                                   *)
LEMMA NewestInherited ==
    ASSUME OpIsNewest, NoNewFrames, op' = op, nextId' = nextId,
           pc' \in {"seal", "create", "syncdir", "write"} =>
              pc \in {"seal", "create", "syncdir", "write"},
           pc' = "sync" =>
              pc \in {"seal", "create", "syncdir", "write", "sync"}
    PROVE  OpIsNewest'
<1>1. pc' \in {"seal", "create", "syncdir", "write", "sync"} =>
          op'.id < nextId'
  BY DEF OpIsNewest
<1>2. ASSUME pc' \in {"seal", "create", "syncdir", "write"},
             NEW b \in Files', NEW i \in 1..Len(frames'[b])
      PROVE  frames'[b][i] < op'.id
  <2>1. /\ b \in Files /\ i \in 1..Len(frames[b])
        /\ frames'[b][i] = frames[b][i]
    BY DEF NoNewFrames
  <2> QED
    BY <1>2, <2>1 DEF OpIsNewest
<1> QED
  BY <1>1, <1>2 DEF OpIsNewest

(* Without an append in progress there is nothing to be newer.             *)
LEMMA NoOpNewest ==
    ASSUME pc' \in {"idle", "unlink"} PROVE OpIsNewest'
  BY DEF OpIsNewest

-----------------------------------------------------------------------------
(* A created partition is in order: it holds nothing.                      *)
LEMMA OrderInit == Init => FramesOrdered /\ OpIsNewest /\ WithinFiles
<1> SUFFICES ASSUME Init
             PROVE  FramesOrdered /\ OpIsNewest /\ WithinFiles
  OBVIOUS
<1>1. Files = {0} /\ 0 \in Offset /\ frames[0] = <<>> /\ records[0] = 0
  BY MaxOffsetAssumption DEF Init, Files, Offset
<1>2. Len(frames[0]) = 0
  BY <1>1
<1> QED
  BY <1>1, <1>2 DEF Init, FramesOrdered, OpIsNewest, WithinFiles

(* Append starts with a record newer than any before it.                   *)
LEMMA AppendStartOrder ==
    ASSUME RInv, NEW acks \in Acks, Append_Start(acks)
    PROVE  FramesOrdered' /\ OpIsNewest' /\ WithinFiles'
<1>1. /\ Files' = Files /\ frames' = frames /\ records' = records
      /\ segments' = segments /\ status' = status
      /\ op'.id = nextId /\ nextId' = nextId + 1
      /\ nextId \in Nat
  BY FilesTyped DEF Append_Start, RInv, IInv, memory, disk, Files
<1>2. FramesOrdered'
  <2>1. NoNewFrames
    BY <1>1 DEF NoNewFrames
  <2> QED
    BY <1>1, <2>1, OrderInherited DEF RInv, IInv
<1>3. OpIsNewest'
  BY <1>1 DEF RInv, FramesOrdered, OpIsNewest
<1> QED
  BY <1>1, <1>2, <1>3 DEF RInv, WithinFiles

(* The steps of a roll add a file without frames.                          *)
LEMMA RollOrder ==
    ASSUME RInv, IInv', Roll_Seal \/ Roll_Create \/ Roll_Finish \/ Roll_Fail
    PROVE  FramesOrdered' /\ OpIsNewest' /\ WithinFiles'
<1> USE DEF memory, disk, history
<1>1. TypeOK /\ nextId' = nextId /\ nextId \in Nat
  BY FilesTyped DEF RInv, IInv, Roll_Seal, Roll_Create, Roll_Finish, Roll_Fail
<1>2. NoNewFrames
  <2>1. CASE Roll_Seal \/ Roll_Fail
    BY <2>1 DEF Roll_Seal, Roll_Fail, Fence, Files, NoNewFrames
  <2>2. CASE Roll_Create
    <3>1. /\ Files' = Files \cup {nextOffset} /\ nextOffset \in Offset
          /\ \A b \in Offset \ {nextOffset} : frames'[b] = frames[b]
          /\ frames'[nextOffset] = <<>>
      BY <1>1, <2>2 DEF Roll_Create, Fence, Files, TypeOK
    <3>2. Len(frames'[nextOffset]) = 0
      BY <3>1
    <3>3. Files \subseteq Offset
      BY <1>1, FilesTyped
    <3> QED
      BY <3>1, <3>2, <3>3 DEF NoNewFrames
  <2>3. CASE Roll_Finish
    <3>1. nextOffset \in dir
      BY <2>3 DEF RInv, IInv, WriterMatches, Roll_Finish
    <3> QED
      BY <2>3, <3>1 DEF Roll_Finish, Files, NoNewFrames
  <2> QED
    BY <2>1, <2>2, <2>3
<1>3. FramesOrdered'
  BY <1>1, <1>2, OrderInherited DEF RInv
<1>4. OpIsNewest'
  <2>1. CASE pc' = "idle"
    BY <2>1, NoOpNewest
  <2>2. CASE pc' # "idle"
    <3>1. /\ op' = op /\ pc \in {"seal", "create", "syncdir"}
          /\ pc' \in {"create", "syncdir", "write"}
      BY <2>2 DEF Roll_Seal, Roll_Create, Roll_Finish, Roll_Fail, Fence
    <3> QED
      BY <1>1, <1>2, <3>1, NewestInherited DEF RInv
  <2> QED
    BY <2>1, <2>2
<1>5. WithinFiles'
  <2>1. CASE Roll_Seal \/ Roll_Fail
    BY <2>1 DEF Roll_Seal, Roll_Fail, Fence, RInv, WithinFiles
  <2>2. CASE Roll_Create
    <3>1. pc = "create" /\ status = "open" /\ nextOffset \notin segments
      <4>1. pc = "create" /\ status = "open"
        BY <2>2 DEF Roll_Create, RInv, IInv, Quiet
      <4>2. /\ records[active] > 0 /\ nextOffset = active + records[active]
            /\ \A s \in segments : s <= active
        BY <4>1 DEF RInv, IInv, WriterMatches, MemoryMatches
      <4> QED
        BY <1>1, <4>1, <4>2, OpenTyped
    <3>2. /\ segments' = segments /\ records' = records
          /\ \A b \in segments : frames'[b] = frames[b]
      BY <1>1, <2>2, <3>1 DEF Roll_Create, Fence, TypeOK
    <3> QED
      BY <3>1, <3>2 DEF RInv, WithinFiles
  <2>3. CASE Roll_Finish
    <3>1. /\ segments' = segments \cup {nextOffset} /\ nextOffset \in Offset
          /\ records'[nextOffset] = 0 /\ frames' = frames
          /\ \A b \in Offset \ {nextOffset} : records'[b] = records[b]
          /\ segments \subseteq Offset /\ status = "open"
      BY <1>1, <2>3 DEF Roll_Finish, TypeOK, RInv, IInv, Quiet
    <3>2. Len(frames[nextOffset]) \in Nat
      BY <1>1, <3>1, FilesTyped
    <3> QED
      BY <3>1, <3>2 DEF RInv, WithinFiles
  <2> QED
    BY <2>1, <2>2, <2>3
<1> QED
  BY <1>3, <1>4, <1>5

(* A fence changes no file that matters and leaves no append in progress.  *)
LEMMA FenceOrder ==
    ASSUME RInv, Append_WriteFail \/ Append_SyncFail
    PROVE  FramesOrdered' /\ OpIsNewest' /\ WithinFiles'
<1>1. /\ Files' = Files /\ frames' = frames /\ nextId' = nextId
      /\ pc' = "idle" /\ UNCHANGED <<status, segments, records>>
      /\ TypeOK /\ nextId \in Nat
  BY FilesTyped DEF Append_WriteFail, Append_SyncFail, Fence, Files, disk,
                    history, RInv, IInv
<1>2. NoNewFrames
  BY <1>1 DEF NoNewFrames
<1> QED
  BY <1>1, <1>2, OrderInherited, NoOpNewest DEF RInv, WithinFiles

(* The frame written last is the newest, and behind all others.            *)
LEMMA AppendWriteOrder ==
    ASSUME RInv, Append_Write
    PROVE  /\ FramesOrdered' /\ OpIsNewest' /\ WithinFiles'
           /\ frames' = [frames EXCEPT ![active] = Append(@, op.id)]
<1>1. /\ status = "open" /\ pc = "write" /\ ~failed
      /\ active \in segments \cap dir \cap durDir /\ active \in Offset
      /\ records[active] \in Nat /\ Len(frames[active]) = records[active]
      /\ tail[active] = "clean"
      /\ \A b \in Files : b <= active
      /\ frames[active] \in Seq(Id) /\ TypeOK
  BY OpenTyped DEF Append_Write, RInv, IInv, Quiet, WriterMatches,
                   MemoryMatches, Files
<1>2. /\ frames' = [frames EXCEPT ![active] = Append(@, op.id)]
      /\ Files' = Files /\ nextId' = nextId
      /\ UNCHANGED <<status, segments>>
  BY <1>1 DEF Append_Write, AppendFrame, Publish, Files, memory, history
<1>3. /\ \A b \in Files \ {active} : frames'[b] = frames[b]
      /\ Len(frames'[active]) = Len(frames[active]) + 1
      /\ frames'[active][Len(frames[active]) + 1] = op.id
      /\ \A i \in 1..Len(frames[active]) :
            frames'[active][i] = frames[active][i]
  <2>1. frames'[active] = Append(frames[active], op.id)
    BY <1>1, <1>2 DEF TypeOK
  <2>2. \A b \in Offset \ {active} : frames'[b] = frames[b]
    BY <1>2 DEF TypeOK
  <2> QED
    BY <1>1, <2>1, <2>2, FilesTyped
<1>4. op.id < nextId /\ \A b \in Files : \A i \in 1..Len(frames[b]) :
                            frames[b][i] < op.id
  BY <1>1 DEF RInv, OpIsNewest
(* Every frame is an old one in its old place, or the new one at the end.  *)
<1>5. ASSUME NEW b \in Files, NEW i \in 1..Len(frames'[b])
      PROVE  \/ i \in 1..Len(frames[b]) /\ frames'[b][i] = frames[b][i]
             \/ /\ b = active /\ i = Len(frames[active]) + 1
                /\ frames'[b][i] = op.id
  <2>1. CASE b = active
    BY <1>1, <1>3, <2>1
  <2>2. CASE b # active
    BY <1>3, <2>2
  <2> QED
    BY <2>1, <2>2
<1>6. FramesOrdered'
  <2>1. ASSUME NEW b \in Files, NEW i \in 1..Len(frames'[b])
        PROVE  frames'[b][i] < nextId
    BY <1>4, <1>5 DEF RInv, FramesOrdered
  <2>2. ASSUME NEW b \in Files, NEW c \in Files,
               NEW i \in 1..Len(frames'[b]), NEW j \in 1..Len(frames'[c]),
               Before(b, i, c, j)
        PROVE  frames'[b][i] < frames'[c][j]
    <3>1. CASE i \in 1..Len(frames[b]) /\ frames'[b][i] = frames[b][i]
      <4>1. CASE j \in 1..Len(frames[c]) /\ frames'[c][j] = frames[c][j]
        BY <2>2, <3>1, <4>1 DEF RInv, FramesOrdered
      <4>2. CASE frames'[c][j] = op.id
        BY <1>4, <3>1, <4>2
      <4> QED
        BY <1>5, <4>1, <4>2
    <3>2. CASE b = active /\ i = Len(frames[active]) + 1
      <4>1. c <= active /\ c \in Nat /\ active \in Nat
        BY <1>1, FilesTyped
      <4>2. c = active /\ j > Len(frames[active]) + 1
        BY <2>2, <3>2, <4>1 DEF Before
      <4> QED
        BY <1>1, <1>3, <4>2
    <3> QED
      BY <1>5, <3>1, <3>2
  <2> QED
    BY <1>2, <2>1, <2>2 DEF FramesOrdered
<1>7. OpIsNewest'
  <2>1. (pc' = "sync" /\ op' = op) \/ pc' = "idle"
    BY DEF Append_Write, Publish
  <2> QED
    BY <1>2, <1>4, <2>1 DEF OpIsNewest
<1>8. WithinFiles'
  <2>1. /\ \A b \in segments \ {active} : records'[b] = records[b]
        /\ records'[active] \in {records[active], records[active] + 1}
    BY <1>1 DEF Append_Write, Publish, memory, TypeOK
  <2>2. active \in Files /\ segments \subseteq Files
    BY <1>1 DEF Files
  <2>3. ASSUME NEW b \in segments PROVE records'[b] <= Len(frames'[b])
    <3>1. CASE b = active
      BY <1>1, <1>3, <2>1, <3>1
    <3>2. CASE b # active
      BY <1>1, <1>3, <2>1, <2>2, <3>2 DEF RInv, WithinFiles
    <3> QED
      BY <3>1, <3>2
  <2> QED
    BY <1>2, <2>3 DEF WithinFiles
<1> QED
  BY <1>2, <1>6, <1>7, <1>8

(* Its sync moves no frame and only makes the newest record visible.       *)
LEMMA AppendSyncOrder ==
    ASSUME RInv, Append_Sync
    PROVE  FramesOrdered' /\ OpIsNewest' /\ WithinFiles'
<1>1. /\ status = "open" /\ pc = "sync" /\ active \in segments
      /\ Len(frames[active]) = records[active] + 1
      /\ TypeOK /\ nextId \in Nat
  BY FilesTyped DEF Append_Sync, RInv, IInv, Quiet, WriterMatches,
                    MemoryMatches
<1>2. /\ Files' = Files /\ frames' = frames /\ nextId' = nextId
      /\ pc' = "idle" /\ UNCHANGED <<status, segments>>
      /\ records' = [records EXCEPT ![active] = @ + 1]
  BY DEF Append_Sync, Publish, Files
<1>3. NoNewFrames
  BY <1>2 DEF NoNewFrames
<1>4. FramesOrdered' /\ OpIsNewest'
  BY <1>1, <1>2, <1>3, OrderInherited, NoOpNewest DEF RInv
<1>5. \A b \in segments : records'[b] <= Len(frames[b])
  BY <1>1, <1>2, OpenTyped DEF TypeOK, RInv, WithinFiles
<1> QED
  BY <1>2, <1>4, <1>5 DEF WithinFiles

(* Retention takes files away and nothing else.                            *)
LEMMA RetentionOrder ==
    ASSUME RInv, RetentionStep
    PROVE  /\ FramesOrdered' /\ OpIsNewest' /\ WithinFiles'
           /\ UNCHANGED <<status, records, frames>>
           /\ segments' \subseteq segments
<1>1. /\ frames' = frames /\ nextId' = nextId
      /\ UNCHANGED <<status, records>> /\ segments' \subseteq segments
      /\ pc' \in {"idle", "unlink"}
  BY DEF RetentionStep, Retention_Start, Retention_Unlink,
         Retention_UnlinkFail, Retention_Finish, memory, disk, history
<1>2. Files' \subseteq Files
  BY DEF RetentionStep, Retention_Start, Retention_Unlink,
         Retention_UnlinkFail, Retention_Finish, memory, disk, Files
<1>3. NoNewFrames
  BY <1>1, <1>2 DEF NoNewFrames
<1>4. FramesOrdered'
  BY <1>1, <1>3, OrderInherited, FilesTyped DEF RInv, IInv
<1> QED
  BY <1>1, <1>4, NoOpNewest DEF RInv, WithinFiles

(* A crash keeps prefixes of files, and opening reads what is there.       *)
LEMMA CrashOrder ==
    ASSUME RInv, ProcessCrash \/ OSCrash
    PROVE  FramesOrdered' /\ OpIsNewest' /\ WithinFiles'
<1>1. /\ pc' = "idle" /\ nextId' = nextId /\ status' = "down"
      /\ segments' = {} /\ Files' \subseteq Files
  BY DEF ProcessCrash, OSCrash, LoseMemory, disk, history, Files
<1>2. ASSUME NEW b \in Files, NEW i \in 1..Len(frames'[b])
      PROVE  i \in 1..Len(frames[b]) /\ frames'[b][i] = frames[b][i]
  <2>1. CASE ProcessCrash
    BY <2>1 DEF ProcessCrash, disk
  <2>2. CASE OSCrash
    <3>1. PICK keep \in [AtRisk -> Offset] :
            /\ \A c \in AtRisk : keep[c] \in synced[c]..Len(frames[c])
            /\ frames' = [c \in Offset |-> IF c \in AtRisk
                                           THEN SubSeq(frames[c], 1, keep[c])
                                           ELSE frames[c]]
      BY <2>2 DEF OSCrash
    <3>2. b \in Offset /\ frames[b] \in Seq(Id) /\ synced[b] \in Nat
          /\ Len(frames[b]) \in Nat
      BY FilesTyped, OpenTyped DEF RInv, IInv
    <3>3. CASE b \in AtRisk
      <4>1. /\ frames'[b] = SubSeq(frames[b], 1, keep[b])
            /\ keep[b] \in 0..Len(frames[b])
        BY <3>1, <3>2, <3>3
      <4> QED
        BY <3>2, <4>1, PrefixFacts
    <3>4. CASE b \notin AtRisk
      BY <3>1, <3>2, <3>4
    <3> QED
      BY <3>3, <3>4
  <2> QED
    BY <2>1, <2>2
<1>3. NoNewFrames
  BY <1>1, <1>2 DEF NoNewFrames
<1>4. FramesOrdered'
  BY <1>1, <1>3, OrderInherited, FilesTyped DEF RInv, IInv
<1> QED
  BY <1>1, <1>4, NoOpNewest DEF WithinFiles

LEMMA OpenOrder ==
    ASSUME RInv, OpenPartition
    PROVE  FramesOrdered' /\ OpIsNewest' /\ WithinFiles'
<1>1. /\ frames' = frames /\ nextId' = nextId /\ pc' = pc
      /\ Files' \subseteq Files /\ pc = "idle"
  BY DEF OpenPartition, Replay, Refuse, disk, history, Files, RInv, IInv,
         Quiet
<1>2. NoNewFrames
  BY <1>1 DEF NoNewFrames
<1>3. FramesOrdered'
  BY <1>1, <1>2, OrderInherited, FilesTyped DEF RInv, IInv
<1>4. WithinFiles'
  <2>1. CASE Replay
    <3>1. /\ segments' = dir /\ frames' = frames /\ dir \subseteq Offset
          /\ records' = [b \in Offset |-> IF b \in dir THEN Len(frames[b])
                                          ELSE 0]
      BY <2>1, OpenTyped DEF Replay, RInv, IInv
    <3>2. \A b \in dir : records'[b] = Len(frames[b]) /\ Len(frames[b]) \in Nat
      BY <3>1, OpenTyped DEF RInv, IInv
    <3> QED
      BY <3>1, <3>2 DEF WithinFiles
  <2>2. CASE Refuse
    BY <2>2 DEF Refuse, WithinFiles
  <2> QED
    BY <2>1, <2>2 DEF OpenPartition
<1> QED
  BY <1>1, <1>3, <1>4, NoOpNewest

LEMMA StutterOrder ==
    ASSUME RInv, UNCHANGED vars
    PROVE  FramesOrdered' /\ OpIsNewest' /\ WithinFiles'
<1>1. UNCHANGED <<status, segments, records, pc, op, frames, dir, durDir,
                  nextId>>
  BY DEF vars, memory, disk, history
<1>2. Files' = Files
  BY <1>1 DEF Files
<1> QED
  BY <1>1, <1>2 DEF RInv, FramesOrdered, OpIsNewest, WithinFiles

(* The strengthened invariant holds in every reachable state.              *)
LEMMA RStepInv == RInv /\ [Next]_vars => RInv'
<1> SUFFICES ASSUME RInv, [Next]_vars PROVE RInv'
  OBVIOUS
<1>1. IInv'
  BY StepInv DEF RInv
<1>2. CASE AppendStep
  BY <1>1, <1>2, AppendStartOrder, RollOrder, FenceOrder, AppendWriteOrder,
     AppendSyncOrder DEF AppendStep, RInv
<1>3. CASE RetentionStep
  BY <1>1, <1>3, RetentionOrder DEF RInv
<1>4. CASE ProcessCrash \/ OSCrash \/ OpenPartition
  BY <1>1, <1>4, CrashOrder, OpenOrder DEF RInv
<1>5. CASE UNCHANGED vars
  BY <1>1, <1>5, StutterOrder DEF RInv
<1> QED
  BY <1>2, <1>3, <1>4, <1>5 DEF Next

THEOREM OrderInductive == Spec => []RInv
<1>1. Init => RInv
  BY InitInv, OrderInit DEF RInv
<1> QED
  BY <1>1, RStepInv, PTL DEF Spec

-----------------------------------------------------------------------------
(* What readers see of segments S with n[b] records of frames f[b] each.   *)
View(S, n, f) ==
    UNION {{[off |-> b + i - 1, id |-> f[b][i]] : i \in 1..n[b]} : b \in S}

(* Segments that do not overlap, with their records in the order of their  *)
(* offsets, show readers a log in order.                                   *)
LEMMA SegmentsInOrder ==
    ASSUME NEW S \in SUBSET Nat, NEW n, NEW f,
           \A b \in S : n[b] \in Nat,
           \A b, c \in S : b < c => b + n[b] <= c,
           \A b \in S : \A i \in 1..n[b] : f[b][i] \in Nat,
           \A b, c \in S : \A i \in 1..n[b], j \in 1..n[c] :
              Before(b, i, c, j) => f[b][i] < f[c][j]
    PROVE  D!InOrder(View(S, n, f))
<1>1. ASSUME NEW b \in S, NEW i \in 1..n[b], NEW c \in S, NEW j \in 1..n[c]
      PROVE  b + i - 1 < c + j - 1 <=> f[b][i] < f[c][j]
  <2>1. /\ b \in Nat /\ c \in Nat /\ i \in Nat /\ j \in Nat
        /\ 1 <= i /\ i <= n[b] /\ 1 <= j /\ j <= n[c]
        /\ n[b] \in Nat /\ n[c] \in Nat
        /\ f[b][i] \in Nat /\ f[c][j] \in Nat
    <3>1. b \in Nat /\ c \in Nat /\ n[b] \in Nat /\ n[c] \in Nat
      OBVIOUS
    <3> QED
      BY <3>1
  <2>2. CASE Before(b, i, c, j)
    <3>1. f[b][i] < f[c][j]
      BY <2>2
    <3>2. b + i - 1 < c + j - 1
      BY <2>1, <2>2 DEF Before
    <3> QED
      BY <3>1, <3>2
  <2>3. CASE Before(c, j, b, i)
    <3>1. f[c][j] < f[b][i]
      BY <2>3
    <3>2. c + j - 1 < b + i - 1
      BY <2>1, <2>3 DEF Before
    <3> QED
      BY <2>1, <3>1, <3>2
  <2>4. CASE b = c /\ i = j
    BY <2>1, <2>4
  <2> QED
    BY <2>1, <2>2, <2>3, <2>4 DEF Before
<1>2. \A r \in View(S, n, f) : \E b \in S : \E i \in 1..n[b] :
         r.off = b + i - 1 /\ r.id = f[b][i]
  BY DEF View
<1> QED
  BY <1>1, <1>2 DEF D!InOrder

(* Hence what readers see after a step is in order.                        *)
LEMMA VisibleInOrder ==
    ASSUME RInv', status' = "open"
    PROVE  D!InOrder(Visible')
<1>1. /\ segments' \subseteq Nat /\ segments' \subseteq Offset
      /\ segments' \subseteq Files'
  BY OpenTyped DEF RInv, IInv, TypeOK, Offset, Files
<1>2. \A b \in segments' : /\ records'[b] \in Nat /\ Len(frames'[b]) \in Nat
                           /\ records'[b] <= Len(frames'[b])
  BY <1>1 DEF RInv, IInv, TypeOK, WithinFiles
<1>3. \A b \in segments' : \A i \in 1..records'[b] :
         i \in 1..Len(frames'[b]) /\ frames'[b][i] \in Nat
  <2> SUFFICES ASSUME NEW b \in segments', NEW i \in 1..records'[b]
               PROVE  i \in 1..Len(frames'[b]) /\ frames'[b][i] \in Nat
    OBVIOUS
  <2>1. frames'[b] \in Seq(Id) /\ i \in 1..Len(frames'[b])
    BY <1>1, <1>2 DEF RInv, IInv, TypeOK
  <2>2. frames'[b][i] \in Id
    BY <2>1
  <2> QED
    BY <2>1, <2>2, MaxRecordsAssumption DEF Id
<1>4. \A b, c \in segments' : b < c => b + records'[b] <= c
  BY DEF RInv, IInv, MemoryMatches
<1>5. \A b, c \in segments' : \A i \in 1..records'[b], j \in 1..records'[c] :
         Before(b, i, c, j) => frames'[b][i] < frames'[c][j]
  BY <1>1, <1>3 DEF RInv, FramesOrdered
<1>6. D!InOrder(View(segments', records', frames'))
  BY <1>1, <1>2, <1>3, <1>4, <1>5, SegmentsInOrder
<1>7. Visible' = View(segments', records', frames')
  BY DEF Visible, At, View
<1> QED
  BY <1>6, <1>7

(* Publishing a record is one Append of the contract.                      *)
LEMMA PublishRefines ==
    ASSUME RInv, RInv', NEW ack \in BOOLEAN, Publish(ack),
           pc \in {"write", "sync"},
           frames'[active][records[active] + 1] = op.id,
           \A b \in segments : \A i \in 1..records[b] :
              frames'[b][i] = frames[b][i]
    PROVE  D!Append
<1> DEFINE r == [off |-> nextOffset, id |-> op.id]
           e == [base |-> active, idx |-> records[active] + 1, id |-> op.id]
<1>1. /\ status = "open" /\ active \in segments /\ active \in Offset
      /\ nextOffset = active + records[active] /\ active \notin released
      /\ records[active] \in Nat /\ active \in Nat
  BY OpenTyped DEF RInv, IInv, Quiet, MemoryMatches
<1>2. op.id \in 1..(nextId - 1)
  BY FilesTyped, MaxRecordsAssumption
     DEF RInv, IInv, WriterMatches, OpIsNewest, Id
<1>3. Visible' = Visible \cup {r}
  <2>1. /\ segments' = segments
        /\ records'[active] = records[active] + 1
        /\ \A b \in segments \ {active} : records'[b] = records[b]
    BY <1>1, OpenTyped DEF Publish, RInv, IInv, TypeOK
  <2>2. ASSUME NEW b \in segments \ {active}
        PROVE  {[off |-> b + i - 1, id |-> frames'[b][i]] :
                   i \in 1..records'[b]}
                 = {At(b, i) : i \in 1..records[b]}
    BY <2>1 DEF At
  <2>3. {[off |-> active + i - 1, id |-> frames'[active][i]] :
            i \in 1..records'[active]}
          = {At(active, i) : i \in 1..records[active]} \cup {r}
    <3>1. 1..records'[active] =
             (1..records[active]) \cup {records[active] + 1}
      BY <1>1, <2>1
    <3>2. r = [off |-> active + (records[active] + 1) - 1,
               id |-> frames'[active][records[active] + 1]]
      BY <1>1
    <3> HIDE DEF r
    <3> QED
      BY <1>1, <3>1, <3>2 DEF At
  <2> HIDE DEF r
  <2> QED
    BY <1>1, <2>1, <2>2, <2>3 DEF Visible, At
<1>4. D!InOrder(Visible \cup {r})
  BY <1>1, <1>3, VisibleInOrder DEF Publish
<1>5. ASSUME NEW E
      PROVE  Owed(E \cup {e}) = Owed(E) \cup {r}
  <2>1. Live(E \cup {e}) = Live(E) \cup {e}
    BY <1>1 DEF Live
  <2>2. [off |-> OffsetOf(e), id |-> e.id] = r
    BY <1>1 DEF OffsetOf
  <2> HIDE DEF e, r
  <2> QED
    BY <2>1, <2>2 DEF Owed
<1>6. /\ Owed(published)' = Owed(published) \cup {r}
      /\ Owed(acked)' = IF ack THEN Owed(acked) \cup {r} ELSE Owed(acked)
  <2>1. /\ published' = published \cup {e} /\ released' = released
        /\ acked' = IF ack THEN acked \cup {e} ELSE acked
    BY DEF Publish
  <2> HIDE DEF e, r
  <2>3. Owed(published)' = Owed(published \cup {e})
    BY <2>1 DEF Owed, Live, OffsetOf
  <2>4. Owed(acked)' = IF ack THEN Owed(acked \cup {e}) ELSE Owed(acked)
    BY <2>1 DEF Owed, Live, OffsetOf
  <2> QED
    BY <1>5, <2>3, <2>4
<1>7. /\ status' = status /\ nextOffset' = nextOffset + 1 /\ nextId' = nextId
  BY DEF Publish
<1> HIDE DEF e
<1> QED
  BY <1>1, <1>2, <1>3, <1>4, <1>6, <1>7 DEF D!Append

-----------------------------------------------------------------------------
(* A partition as CreateTopic leaves it is an empty log.                   *)
LEMMA InitRefines == Init => D!Init
<1> SUFFICES ASSUME Init PROVE D!Init
  OBVIOUS
<1>1. /\ segments = {0} /\ records[0] = 0 /\ nextId = 1 /\ nextOffset = 0
      /\ published = {} /\ acked = {} /\ status = "open"
  BY MaxOffsetAssumption DEF Init, Offset
<1>2. Visible = {} /\ 1..(nextId - 1) = {}
  BY <1>1 DEF Visible
<1>3. Owed(published) = {} /\ Owed(acked) = {}
  BY <1>1 DEF Owed, Live
<1> QED
  BY <1>1, <1>2, <1>3 DEF D!Init

(* The start of an append offers its record.                               *)
LEMMA AppendStartRefines ==
    ASSUME RInv, NEW acks \in Acks, Append_Start(acks)
    PROVE  D!Offer
<1>1. /\ status = "open" /\ nextId' = nextId + 1
      /\ UNCHANGED <<status, segments, records, frames, nextOffset, published,
                     acked, released>>
  BY DEF Append_Start, memory, disk
<1>2. nextId \in Nat
  BY FilesTyped DEF RInv, IInv
<1>3. 1..(nextId - 1) \subseteq 1..(nextId' - 1)
  BY <1>1, <1>2
<1>4. Visible' = Visible
  BY <1>1 DEF Visible, At
<1>5. Owed(published)' = Owed(published) /\ Owed(acked)' = Owed(acked)
  BY <1>1 DEF Owed, Live, OffsetOf
<1> QED
  BY <1>1, <1>3, <1>4, <1>5 DEF D!Offer

(* A step that touches neither the segments in memory with their records   *)
(* nor the history is not seen.                                            *)
LEMMA Unseen ==
    ASSUME UNCHANGED <<status, segments, records, nextOffset, history>>,
           \A b \in segments : \A i \in 1..records[b] :
              frames'[b][i] = frames[b][i]
    PROVE  UNCHANGED D!vars
<1>1. Visible' = Visible
  <2>1. \A b \in segments : {[off |-> b + i - 1, id |-> frames'[b][i]] :
                                i \in 1..records[b]}
                              = {At(b, i) : i \in 1..records[b]}
    BY DEF At
  <2> QED
    BY <2>1 DEF Visible, At
<1>2. Owed(published)' = Owed(published) /\ Owed(acked)' = Owed(acked)
  BY DEF Owed, Live, OffsetOf, history
<1> QED
  BY <1>1, <1>2 DEF D!vars, history

(* Nor is any step of a roll.                                              *)
LEMMA RollRefines ==
    ASSUME RInv, Roll_Seal \/ Roll_Create \/ Roll_Finish \/ Roll_Fail
    PROVE  UNCHANGED D!vars
<1> USE DEF memory, disk, history
<1>1. CASE Roll_Seal \/ Roll_Fail
  BY <1>1, Unseen DEF Roll_Seal, Roll_Fail, Fence
<1>2. CASE Roll_Create
  <2>1. pc = "create" /\ status = "open"
    BY <1>2 DEF Roll_Create, RInv, IInv, Quiet
  <2>2. nextOffset \notin segments
    <3>1. /\ records[active] > 0 /\ nextOffset = active + records[active]
          /\ \A s \in segments : s <= active
      BY <2>1 DEF RInv, IInv, WriterMatches, MemoryMatches
    <3> QED
      BY <3>1, OpenTyped DEF RInv, IInv
  <2>3. \A b \in segments : frames'[b] = frames[b]
    BY <1>2, <2>2 DEF Roll_Create, RInv, IInv, TypeOK
  <2> QED
    BY <1>2, <2>3, Unseen DEF Roll_Create, Fence
<1>3. CASE Roll_Finish
  <2>1. /\ segments' = segments \cup {nextOffset} /\ nextOffset \in Offset
        /\ records'[nextOffset] = 0
        /\ \A b \in segments \ {nextOffset} : records'[b] = records[b]
        /\ UNCHANGED <<status, frames, nextOffset, history>>
        /\ pc = "syncdir" /\ status = "open"
    BY <1>3 DEF Roll_Finish, RInv, IInv, TypeOK, Quiet
  <2>2. nextOffset \notin segments
    <3>1. /\ records[active] > 0 /\ nextOffset = active + records[active]
          /\ \A s \in segments : s <= active
      BY <2>1 DEF RInv, IInv, WriterMatches, MemoryMatches
    <3> QED
      BY <3>1, OpenTyped DEF RInv, IInv
  <2>3. Visible' = Visible
    <3>1. Visible' = UNION {{At(b, i) : i \in 1..records'[b]} :
                               b \in segments \cup {nextOffset}}
      BY <2>1 DEF Visible, At
    <3>2. \A r : r \in Visible' <=>
             \E b \in segments \cup {nextOffset} : \E i \in 1..records'[b] :
                r = At(b, i)
      BY <3>1
    <3>3. \A r : r \in Visible <=>
             \E b \in segments : \E i \in 1..records[b] : r = At(b, i)
      BY DEF Visible
    <3>4. \A r : r \in Visible' <=> r \in Visible
      BY <2>1, <2>2, <3>2, <3>3
    <3> QED
      BY <3>4
  <2>4. Owed(published)' = Owed(published) /\ Owed(acked)' = Owed(acked)
    BY <2>1 DEF Owed, Live, OffsetOf
  <2> QED
    BY <2>1, <2>3, <2>4 DEF D!vars
<1> QED
  BY <1>1, <1>2, <1>3

(* The write appends (acks=0) or is not seen until its sync.               *)
LEMMA AppendWriteRefines ==
    ASSUME RInv, RInv', Append_Write
    PROVE  D!Append \/ UNCHANGED D!vars
<1>1. /\ pc = "write" /\ active \in Offset /\ active \in segments
      /\ records[active] \in Nat /\ frames[active] \in Seq(Id)
      /\ Len(frames[active]) = records[active] /\ op.id \in Id
      /\ segments \subseteq Offset
  BY OpenTyped DEF Append_Write, RInv, IInv, Quiet, WriterMatches,
                   MemoryMatches
<1>2. frames' = [frames EXCEPT ![active] = Append(@, op.id)]
  BY AppendWriteOrder
<1>3. /\ frames'[active] = Append(frames[active], op.id)
      /\ \A b \in Offset \ {active} : frames'[b] = frames[b]
  BY <1>1, <1>2 DEF RInv, IInv, TypeOK
<1>4. frames'[active][records[active] + 1] = op.id
  BY <1>1, <1>3
<1>5. \A b \in segments : \A i \in 1..records[b] :
         frames'[b][i] = frames[b][i]
  <2> SUFFICES ASSUME NEW b \in segments, NEW i \in 1..records[b]
               PROVE  frames'[b][i] = frames[b][i]
    OBVIOUS
  <2>1. CASE b = active
    BY <1>1, <1>3, <2>1
  <2>2. CASE b # active
    BY <1>1, <1>3, <2>2
  <2> QED
    BY <2>1, <2>2
<1>6. CASE op.acks = "leader"
  BY <1>5, <1>6, Unseen DEF Append_Write, memory, history
<1>7. CASE op.acks # "leader"
  BY <1>1, <1>4, <1>5, <1>7, PublishRefines DEF Append_Write
<1> QED
  BY <1>6, <1>7

LEMMA AppendSyncRefines ==
    ASSUME RInv, RInv', Append_Sync
    PROVE  D!Append
<1>1. /\ pc = "sync" /\ frames' = frames
      /\ frames[active][records[active] + 1] = op.id
  BY DEF Append_Sync, RInv, IInv, WriterMatches
<1> QED
  BY <1>1, PublishRefines DEF Append_Sync

(* Neither failure of an append is seen.                                   *)
LEMMA AppendFailRefines ==
    ASSUME Append_WriteFail \/ Append_SyncFail
    PROVE  UNCHANGED D!vars
  BY Unseen DEF Append_WriteFail, Append_SyncFail, Fence, disk, history

(* Entries that are still owed and agree on offset and record are one.     *)
LEMMA OwedOnce ==
    ASSUME RInv, NEW e \in Live(published), NEW f \in Live(published),
           OffsetOf(e) = OffsetOf(f)
    PROVE  e.base = f.base
<1>1. /\ e.base \in Nat /\ e.idx \in Nat \ {0} /\ e.base \in dir
      /\ f.base \in Nat /\ f.idx \in Nat \ {0} /\ f.base \in dir
      /\ e.base \in Offset /\ Len(frames[e.base]) \in Nat
      /\ f.base \in Offset /\ Len(frames[f.base]) \in Nat
      /\ e.idx <= Len(frames[e.base]) /\ f.idx <= Len(frames[f.base])
  BY EntryTyped, OpenTyped DEF RInv, IInv, EntriesPresent, Live
<1>2. /\ e.base < f.base => e.base + Len(frames[e.base]) <= f.base
      /\ f.base < e.base => f.base + Len(frames[f.base]) <= e.base
  BY <1>1 DEF RInv, IInv, DiskOrdered
<1>3. e.base + e.idx = f.base + f.idx
  <2>1. e.base + e.idx - 1 = f.base + f.idx - 1
    BY DEF OffsetOf
  <2> QED
    BY <1>1, <2>1, SMTT(30)
<1>4. CASE e.base < f.base
  <2>1. e.base + e.idx <= f.base
    BY <1>1, <1>2, <1>4
  <2> QED
    BY <1>1, <1>3, <2>1
<1>5. CASE f.base < e.base
  <2>1. f.base + f.idx <= e.base
    BY <1>1, <1>2, <1>5
  <2> QED
    BY <1>1, <1>3, <2>1
<1> QED
  BY <1>1, <1>4, <1>5

(* What retention selects is owed no longer, in either list.               *)
LEMMA RetentionStartRefines ==
    ASSUME RInv, Retention_Start
    PROVE  D!Release
<1>1. /\ status = "open" /\ released \subseteq released'
      /\ UNCHANGED <<status, segments, records, frames, nextOffset, nextId,
                     published, acked>>
  BY DEF Retention_Start, memory, disk
<1>2. Visible' = Visible
  BY <1>1 DEF Visible, At
<1>3. /\ Owed(published)' =
            {[off |-> OffsetOf(e), id |-> e.id] : e \in Live(published)'}
      /\ Owed(acked)' =
            {[off |-> OffsetOf(e), id |-> e.id] : e \in Live(acked)'}
  BY <1>1 DEF Owed, Live, OffsetOf
<1>4. /\ Live(published)' = {e \in published : e.base \notin released'}
      /\ Live(acked)' = {e \in acked : e.base \notin released'}
  BY <1>1 DEF Live
<1>5. /\ Live(published)' \subseteq Live(published)
      /\ Live(acked)' \subseteq Live(acked)
      /\ Live(acked) \subseteq Live(published)
      /\ Live(acked)' \subseteq Live(published)'
  BY <1>1, <1>4 DEF Live, RInv, IInv, EntriesPresent
<1>6. Owed(published)' \subseteq Owed(published)
  BY <1>3, <1>5 DEF Owed
<1>7. Owed(acked)' = Owed(acked) \cap Owed(published)'
  <2>1. /\ Owed(acked)' \subseteq Owed(acked)
        /\ Owed(acked)' \subseteq Owed(published)'
    BY <1>3, <1>5 DEF Owed
  <2>2. ASSUME NEW r \in Owed(acked), r \in Owed(published)'
        PROVE  r \in Owed(acked)'
    <3>1. PICK e \in Live(acked) : r = [off |-> OffsetOf(e), id |-> e.id]
      BY DEF Owed
    <3>2. PICK f \in Live(published)' :
             r = [off |-> OffsetOf(f), id |-> f.id]
      BY <1>3, <2>2
    <3>3. OffsetOf(e) = OffsetOf(f)
      BY <3>1, <3>2
    <3>4. e.base = f.base
      BY <1>5, <3>3, OwedOnce
    <3>5. e \in Live(acked)'
      BY <1>4, <3>4 DEF Live
    <3> QED
      BY <1>3, <3>1, <3>5
  <2> QED
    BY <2>1, <2>2
<1> QED
  BY <1>1, <1>2, <1>6, <1>7 DEF D!Release

(* What it drops from memory is owed to nobody.                            *)
LEMMA RetentionFinishRefines ==
    ASSUME RInv, IInv', Retention_Finish
    PROVE  D!Trim
<1>1. /\ status = "open" /\ segments' \subseteq segments
      /\ UNCHANGED <<status, records, frames, nextOffset, history>>
  BY DEF Retention_Finish, RInv, IInv, Quiet
<1>2. Visible' \subseteq Visible
  BY <1>1 DEF Visible, At
<1>3. Owed(published)' = Owed(published) /\ Owed(acked)' = Owed(acked)
  BY <1>1 DEF Owed, Live, OffsetOf, history
<1>4. Owed(published) \subseteq Visible'
  <2> SUFFICES ASSUME NEW e \in Live(published)
               PROVE  [off |-> OffsetOf(e), id |-> e.id] \in Visible'
    BY DEF Owed
  <2>1. e \in Live(published)'
    BY <1>1 DEF Live, history
  <2>2. /\ e.base \in segments' /\ e.idx <= records[e.base]
        /\ frames[e.base][e.idx] = e.id
    BY <1>1, <2>1 DEF IInv, EntriesPresent
  <2>3. e.base \in Offset /\ e.idx \in 1..records[e.base]
    BY <2>2, EntryTyped, OpenTyped DEF RInv, IInv, Live
  <2> QED
    BY <1>1, <2>2, <2>3 DEF Visible, At, OffsetOf
<1> QED
  BY <1>1, <1>2, <1>3, <1>4 DEF D!Trim, history

(* Unlinking is not seen: ReadFrom goes on with the open file.             *)
LEMMA RetentionRefines ==
    ASSUME RInv, IInv', RetentionStep
    PROVE  D!Release \/ D!Trim \/ UNCHANGED D!vars
<1>1. CASE Retention_Unlink \/ Retention_UnlinkFail
  BY <1>1, Unseen DEF Retention_Unlink, Retention_UnlinkFail, memory
<1> QED
  BY <1>1, RetentionStartRefines, RetentionFinishRefines DEF RetentionStep

(* Both kinds of crash stop the partition; only the power loss takes back  *)
(* what was never acknowledged with acks=1.                                *)
LEMMA CrashRefines ==
    ASSUME ProcessCrash \/ OSCrash
    PROVE  D!Crash \/ D!PowerLoss
<1>1. /\ status' = "down" /\ segments' = {} /\ nextOffset' = 0
      /\ nextId' = nextId /\ acked' = acked /\ released' = released
  BY DEF ProcessCrash, OSCrash, LoseMemory, history
<1>2. Visible' = {}
  BY <1>1 DEF Visible
<1>3. Owed(acked)' = Owed(acked)
  BY <1>1 DEF Owed, Live, OffsetOf
<1>4. D!Stop
  BY <1>1, <1>2, <1>3 DEF D!Stop
<1>5. CASE ProcessCrash
  <2>1. Owed(published)' = Owed(published)
    BY <1>5 DEF ProcessCrash, history, Owed, Live, OffsetOf
  <2> QED
    BY <1>4, <2>1 DEF D!Crash
<1>6. CASE OSCrash
  <2>1. Owed(published)' = Owed(acked)
    BY <1>1, <1>6 DEF OSCrash, Owed, Live, OffsetOf
  <2> QED
    BY <1>4, <2>1 DEF D!PowerLoss
<1> QED
  BY <1>5, <1>6

(* The opened partition shows everything it owes, at the offset owed, in   *)
(* order, and nothing that was never offered.                              *)
LEMMA OpenRefines ==
    ASSUME RInv, RInv', OpenPartition
    PROVE  D!Recover
<1>1. /\ status = "down" /\ status' = "open" /\ segments' = dir
      /\ UNCHANGED <<frames, history>>
  BY DEF OpenPartition, Replay, Refuse, RInv, IInv, NeverRefused
<1>2. Owed(published)' = Owed(published) /\ Owed(acked)' = Owed(acked)
  BY <1>1 DEF Owed, Live, OffsetOf, history
<1>3. Owed(published) \subseteq Visible'
  <2> SUFFICES ASSUME NEW e \in Live(published)
               PROVE  [off |-> OffsetOf(e), id |-> e.id] \in Visible'
    BY DEF Owed
  <2>1. e \in Live(published)'
    BY <1>1 DEF Live, history
  <2>2. /\ e.base \in segments' /\ e.idx <= records'[e.base]
        /\ frames[e.base][e.idx] = e.id
    BY <1>1, <2>1 DEF RInv, IInv, EntriesPresent
  <2>3. e.base \in Offset /\ e.idx \in Nat \ {0} /\ records'[e.base] \in Nat
    BY EntryTyped DEF RInv, IInv, Live, TypeOK
  <2> QED
    BY <1>1, <2>2, <2>3 DEF Visible, At, OffsetOf
<1>4. D!InOrder(Visible')
  BY <1>1, VisibleInOrder
<1>5. ASSUME NEW b \in segments', NEW i \in 1..records'[b]
      PROVE  frames[b][i] \in 1..(nextId - 1) /\ b + i - 1 < nextOffset'
  <2>1. /\ b \in dir /\ b \in Offset /\ b \in Nat /\ records'[b] \in Nat
        /\ records'[b] <= Len(frames[b]) /\ Len(frames[b]) \in Nat
        /\ frames[b] \in Seq(Id)
    BY <1>1, OpenTyped DEF RInv, IInv, TypeOK, WithinFiles
  <2>2. frames[b][i] \in Id /\ i \in 1..Len(frames[b])
    BY <2>1
  <2>3. frames[b][i] < nextId
    BY <2>1, <2>2 DEF RInv, FramesOrdered, Files
  <2>4. /\ active' \in segments' /\ nextOffset' = active' + records'[active']
        /\ b <= active'
        /\ b < active' => b + records'[b] <= active'
        /\ active' \in Nat /\ records'[active'] \in Nat
    BY <1>1 DEF RInv, IInv, MemoryMatches, TypeOK, Offset
  <2>5. b + i - 1 < nextOffset'
    <3>1. i \in Nat /\ i <= records'[b]
      BY <2>1
    <3>2. CASE b = active'
      BY <2>1, <2>4, <3>1, <3>2
    <3>3. CASE b < active'
      BY <2>1, <2>4, <3>1, <3>3
    <3> QED
      BY <2>1, <2>4, <3>2, <3>3
  <2> QED
    BY <2>2, <2>3, <2>5, FilesTyped, MaxRecordsAssumption DEF RInv, IInv, Id
<1>6. \A r \in Visible' : r.id \in 1..(nextId - 1) /\ r.off < nextOffset'
  BY <1>1, <1>5 DEF Visible, At
<1> QED
  BY <1>1, <1>2, <1>3, <1>4, <1>6 DEF D!Recover, history

-----------------------------------------------------------------------------
(* Every step of the partition is a step of the contract, or not seen.     *)
LEMMA StepRefines == RInv /\ RInv' /\ [Next]_vars => [D!Next]_(D!vars)
<1> SUFFICES ASSUME RInv, RInv', [Next]_vars
             PROVE  D!Next \/ UNCHANGED D!vars
  OBVIOUS
<1>1. CASE AppendStep
  BY <1>1, AppendStartRefines, RollRefines, AppendWriteRefines,
     AppendSyncRefines, AppendFailRefines DEF AppendStep, D!Next
<1>2. CASE RetentionStep
  BY <1>2, RetentionRefines DEF D!Next, RInv
<1>3. CASE ProcessCrash \/ OSCrash \/ OpenPartition
  BY <1>3, CrashRefines, OpenRefines DEF D!Next
<1>4. CASE UNCHANGED vars
  BY <1>4, Unseen DEF vars, memory, disk
<1> QED
  BY <1>1, <1>2, <1>3, <1>4 DEF Next

(* The partition keeps the contract of DURABILITY.md: to its readers it is *)
(* a log that grows at its end only, loses what was not acknowledged with  *)
(* acks=1 in a power loss only, and never shows a record twice, elsewhere  *)
(* or out of order, whatever failed, crashed or was deleted in between.    *)
THEOREM PartitionKeepsContract == Spec => Implements
<1>1. Init => D!Init
  BY InitRefines
<1> QED
  BY <1>1, StepRefines, OrderInductive, PTL DEF Spec, Implements, D!Spec
=============================================================================
