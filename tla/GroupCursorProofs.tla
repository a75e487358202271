------------------------- MODULE GroupCursorProofs -------------------------
(***************************************************************************)
(* Proof, for every set of groups, number of clients, of records and of    *)
(* faults, that retention respects the cursors it promised to protect,     *)
(* that committed offsets were processed, and that a cursor beyond the end *)
(* of the log has no cause but a crash of the machine.                     *)
(*                                                                         *)
(* CursorProtected is not inductive: a restart replaces the groups by a    *)
(* version of groups.json, and a pass deletes by a clamp taken earlier.    *)
(* Sheltered adds that every version a restart may find agrees with memory *)
(* on a protected group, and that a clamp in use is not above its cursor.  *)
(* DoneInv and LossInv do the same for the other two properties, and add   *)
(* what requests in flight carry across the steps of others.               *)
(***************************************************************************)
EXTENDS GroupCursor, WellFoundedInduction, TLAPS

Settled(g) ==
    \A v \in stable \cup {saved} :
        g \in v.joined /\ v.committed[g] = groups.committed[g]

Safe(g) == /\ g \in groups.joined
           /\ Whole(NextFetch(g)) /\ clamp <= NextFetch(g)
           /\ Settled(g)

Sheltered == \A g \in sheltered : Safe(g)

CInv == TypeOK /\ Sheltered

-----------------------------------------------------------------------------
(* Every non-empty set of naturals has a least element.                    *)
LEMMA NatHasMin ==
    ASSUME NEW S \in SUBSET Nat, S # {}
    PROVE  \E n \in S : \A m \in S : n <= m
<1> DEFINE R == OpToRel(<, Nat)
<1>1. IsWellFoundedOn(R, Nat)
  BY NatLessThanWellFounded, Zenon
<1>2. \A x, y \in Nat : y < x => <<y, x>> \in R
  BY DEF OpToRel
<1> HIDE DEF R
<1>3. PICK x \in S : \A y \in S : <<y, x>> \notin R
  BY <1>1, WFMin
<1>4. \A y \in S : ~ (y < x)
  BY <1>2, <1>3, Zenon
<1> QED
  BY <1>4

(* MinOf of a non-empty set of naturals is its least member.               *)
LEMMA MinOfNat ==
    ASSUME NEW S \in SUBSET Nat, S # {}
    PROVE  MinOf(S) \in S /\ \A m \in S : MinOf(S) <= m
  BY NatHasMin DEF MinOf

(* The earliest offset is the base of a segment and below the others.      *)
LEMMA EarliestIsMin ==
    ASSUME TypeOK
    PROVE  Earliest \in segments /\ \A b \in segments : Earliest <= b
<1>1. segments \in SUBSET Nat /\ segments # {}
  BY MaxRecordsAssumption DEF TypeOK, Offset
<1> QED
  BY <1>1, MinOfNat DEF Earliest

(* The type facts on which the arithmetic of offsets rests.                *)
LEMMA Typed ==
    ASSUME TypeOK
    PROVE  /\ MaxRecords \in Nat \ {0}
           /\ Latest \in 0..MaxRecords /\ Latest < nextId /\ nextId \in Nat
           /\ Earliest \in Offset /\ Earliest <= synced /\ synced \in Nat
           /\ \A g \in Group : NextFetch(g) \in Offset
<1>1. MaxRecords \in Nat \ {0}
  BY MaxRecordsAssumption
<1>2. Latest \in 0..MaxRecords /\ Latest < nextId /\ nextId \in Nat
  BY <1>1 DEF TypeOK, Latest
<1>3. Earliest \in Offset /\ Earliest <= synced /\ synced \in Nat
  BY <1>1, <1>2, EarliestIsMin DEF TypeOK, Latest
<1>4. ASSUME NEW g \in Group PROVE NextFetch(g) \in Offset
  BY <1>1 DEF TypeOK, Meta, NextFetch, None, Offset
<1> QED
  BY <1>1, <1>2, <1>3, <1>4

(* What can be read is a record of the log.                                *)
LEMMA ReadableTyped ==
    ASSUME TypeOK, NEW o \in Readable
    PROVE  o \in Nat /\ o < Latest /\ log[o + 1] \in Id
<1>1. log \in Seq(Id) /\ Latest = Len(log) /\ o \in 0..(Latest - 1)
  BY DEF TypeOK, Latest, Readable, Held
<1> QED
  BY <1>1

(* A cursor stays safe when it does not move back and nothing is unlinked. *)
LEMMA SafeStays ==
    ASSUME TypeOK, NEW g \in Group, NEW n \in Int,
           n <= NextFetch(g)', NextFetch(g)' \in Int, Whole(n),
           bases \subseteq bases', bases' \ dir' \subseteq bases \ dir,
           g \in groups'.joined, clamp' <= NextFetch(g)', Settled(g)'
    PROVE  Safe(g)'
<1>1. bases \in SUBSET Int
  BY MaxRecordsAssumption DEF TypeOK, Offset
<1>2. ASSUME NEW b \in bases' \ dir'
      PROVE  \E x \in bases' : b < x /\ x <= NextFetch(g)'
  <2>1. PICK x \in bases : b < x /\ x <= n
    BY <1>2 DEF Whole, EndsBy
  <2> QED
    BY <1>1, <2>1
<1>3. Whole(NextFetch(g))'
  BY <1>2 DEF Whole, EndsBy
<1> QED
  BY <1>3 DEF Safe

(* Steps that leave the groups and the pass alone and unlink nothing.      *)
LEMMA ShelterStays ==
    ASSUME TypeOK, Sheltered,
           UNCHANGED <<groups, saved, stable, clamp, sheltered>>,
           bases \subseteq bases', bases' \ dir' \subseteq bases \ dir
    PROVE  Sheltered'
<1> SUFFICES ASSUME NEW g \in sheltered
             PROVE  Safe(g)'
  BY DEF Sheltered
<1>1. g \in Group /\ Safe(g)
  BY DEF Sheltered, TypeOK
<1>2. NextFetch(g)' = NextFetch(g) /\ NextFetch(g) \in Int /\ Settled(g)'
  BY <1>1, Typed DEF NextFetch, Offset, Safe, Settled
<1> QED
  BY <1>1, <1>2, SafeStays DEF Safe

(* A client between requests has the type of a client.                     *)
LEMMA IdleTyped == Idle \in ClientState
  BY MaxRecordsAssumption DEF Idle, ClientState, Phase, Offset

(* A join keeps the shape of the group metadata.                           *)
LEMMA JoiningTyped ==
    ASSUME TypeOK, NEW g \in Group
    PROVE  Joining(g) \in Meta
  BY DEF TypeOK, Joining, Meta

(* So does the commit of an offset.                                        *)
LEMMA CommittingTyped ==
    ASSUME TypeOK, NEW g \in Group, NEW off \in 0..(MaxRecords - 1)
    PROVE  Committing(g, off) \in Meta
<1>1. off \in None..(MaxRecords - 1)
  BY MaxRecordsAssumption DEF None
<1> QED
  BY <1>1 DEF TypeOK, Committing, Meta

(* Clients keep their type when the broker drops their requests.           *)
LEMMA DroppedTyped ==
    ASSUME TypeOK
    PROVE  Dropped \in [Client -> ClientState]
<1> SUFFICES ASSUME NEW c \in Client
             PROVE  Dropped[c] \in ClientState
  BY DEF Dropped
<1>1. client[c] \in ClientState
  BY DEF TypeOK
<1>2. 0 \in 0..(MaxRecords - 1) /\ "holding" \in Phase
  BY MaxRecordsAssumption DEF Phase
<1>3. [client[c] EXCEPT !.at = "holding", !.off = 0] \in ClientState
  BY <1>1, <1>2 DEF ClientState
<1> QED
  BY <1>1, <1>3, IdleTyped DEF Dropped

(* The initial state satisfies the invariant.                              *)
LEMMA InitInv == Init => CInv
<1> SUFFICES ASSUME Init PROVE CInv
  OBVIOUS
<1> USE DEF Init
<1>1. NoGroups \in Meta
  BY MaxRecordsAssumption DEF NoGroups, Meta, None
<1>2. log \in Seq(Id) /\ Len(log) = 0
  OBVIOUS
<1>3. /\ bases \in SUBSET Offset /\ \A b \in bases : b <= synced
      /\ \E b \in dir : \A x \in bases : x <= b
      /\ dir \subseteq segments /\ segments \subseteq bases
      /\ dir \subseteq durDir /\ durDir \subseteq bases
  BY MaxRecordsAssumption DEF Offset
<1>4. TypeOK
  BY <1>1, <1>2, <1>3, IdleTyped, MaxRecordsAssumption, MaxFaultsAssumption
     DEF TypeOK, Offset, None
<1> QED
  BY <1>4 DEF CInv, Sheltered

-----------------------------------------------------------------------------
(* One lemma per action, or per group of actions with the same effect.     *)
LEMMA AppendInv ==
    ASSUME CInv, NEW roll \in BOOLEAN, NEW acks \in {"none", "leader"},
           AppendRecord(roll, acks)
    PROVE  CInv'
<1> USE DEF AppendRecord, meta, history, exempt
<1>1. TypeOK /\ Sheltered /\ MaxRecords \in Nat \ {0}
  BY MaxRecordsAssumption DEF CInv
<1>2. log' \in Seq(Id) /\ Len(log') = Latest + 1 /\ nextId' = nextId + 1
      /\ nextId \in 1..MaxRecords /\ Latest \in Nat /\ Latest < nextId
  BY <1>1 DEF TypeOK, Latest, Id
<1>3. /\ Latest \in Offset /\ synced \in 0..Latest
      /\ \A b \in bases : b \in Nat /\ b <= synced
  BY <1>1, <1>2 DEF TypeOK, Latest, Offset, Id
<1>4. /\ synced' \in 0..(Latest + 1) /\ synced <= synced'
      /\ roll => Latest <= synced'
  BY <1>2, <1>3
<1>5. /\ bases' \in SUBSET Offset /\ \A b \in bases' : b <= synced'
      /\ dir' \subseteq segments' /\ segments' \subseteq bases'
      /\ dir' \subseteq durDir' /\ durDir' \subseteq bases'
      /\ \E b \in dir' : \A x \in bases' : x <= b
      /\ bases \subseteq bases' /\ bases' \ dir' \subseteq bases \ dir
  <2>1. CASE roll
    <3>1. /\ bases' = bases \cup {Latest} /\ segments' = segments \cup {Latest}
          /\ dir' = dir \cup {Latest} /\ durDir' = dir'
      BY <2>1 DEF Roll
    <3>2. dir \subseteq segments /\ segments \subseteq bases
          /\ bases \in SUBSET Offset
      BY <1>1 DEF TypeOK
    <3>3. Latest \in dir' /\ \A x \in bases' : x <= Latest
      BY <1>2, <1>3, <3>1
    <3>4. \A b \in bases' : b <= synced'
      BY <1>2, <1>3, <1>4, <2>1, <3>1
    <3> QED
      BY <1>3, <3>1, <3>2, <3>3, <3>4
  <2>2. CASE ~roll
    <3>1. UNCHANGED <<bases, segments, dir, durDir>>
      BY <2>2
    <3>2. \A b \in bases : b <= synced'
      BY <1>3, <1>4
    <3> QED
      BY <1>1, <3>1, <3>2 DEF TypeOK
  <2> QED
    BY <2>1, <2>2
<1>6. TypeOK'
  <2>1. Len(log') < nextId' /\ nextId' \in 1..(MaxRecords + 1)
    BY <1>1, <1>2
  <2>2. synced' \in 0..Len(log')
    BY <1>2, <1>4
  <2> QED
    BY <1>1, <1>2, <1>5, <2>1, <2>2 DEF TypeOK
<1>7. UNCHANGED <<groups, saved, stable, clamp, sheltered>>
  OBVIOUS
<1> QED
  BY <1>1, <1>5, <1>6, <1>7, ShelterStays DEF CInv

(* A fault keeps the counter of faults within its bound.                   *)
LEMMA FaultTyped == ASSUME TypeOK, Fault PROVE faults' \in 0..MaxFaults
  BY MaxFaultsAssumption DEF TypeOK, Fault

(* Steps that leave the log, the groups and the pass as they are.          *)
LEMMA ClientStepInv ==
    ASSUME CInv,
           UNCHANGED <<partition, meta, clamp, exempt, sheltered>>,
           client' \in [Client -> ClientState],
           faults' \in 0..MaxFaults,
           delivered' \in [Group -> SUBSET Id]
    PROVE  CInv'
<1> USE DEF partition, meta, exempt
<1>1. TypeOK'
  BY DEF CInv, TypeOK
<1>2. Sheltered'
  BY ShelterStays DEF CInv
<1> QED
  BY <1>1, <1>2 DEF CInv

(* FetchGroup changes neither the log nor the groups.                      *)
LEMMA FetchInv == ASSUME CInv, NEW c \in Client, FetchStep(c) PROVE CInv'
<1> USE DEF history, exempt
<1>1. TypeOK
  BY DEF CInv
<1>2. client[c] \in ClientState /\ GroupOf(c) \in Group
  BY <1>1 DEF TypeOK, Client, GroupOf
<1>3. ASSUME Fetch_Snapshot(c) PROVE client' \in [Client -> ClientState]
  <2>1. NextFetch(GroupOf(c)) \in Offset /\ "snapshot" \in Phase
    BY <1>1, <1>2, Typed DEF Phase
  <2> QED
    BY <1>1, <1>2, <1>3, <2>1 DEF Fetch_Snapshot, TypeOK, ClientState
<1>4. ASSUME Fetch_Offsets(c) PROVE client' \in [Client -> ClientState]
  <2>1. Clamped(client[c].pos) \in Offset /\ "ranged" \in Phase
    BY <1>1, <1>2, Typed DEF Clamped, Offset, Phase, ClientState
  <2>2. [Idle EXCEPT !.at = "ranged", !.pos = Clamped(client[c].pos)]
           \in ClientState
    BY <2>1, IdleTyped DEF ClientState
  <2> QED
    BY <1>1, <1>4, <2>2, IdleTyped DEF Fetch_Offsets, TypeOK
<1>5. ASSUME Fetch_Read(c) PROVE client' \in [Client -> ClientState]
  <2>1. \/ client' = [client EXCEPT ![c] = Idle]
        \/ \E n \in Readable, B \in SUBSET Readable :
             client' = [client EXCEPT ![c].at = "holding", ![c].pos = n + 1,
                                      ![c].batch = {log[o + 1] : o \in B}]
    <3> DEFINE from == {o \in Readable : client[c].pos <= o}
    <3>1. ASSUME NEW n \in from
          PROVE  n \in Readable /\ from \cap (0..n) \in SUBSET Readable
      OBVIOUS
    <3> QED
      BY <1>5, <3>1, Zenon DEF Fetch_Read, NextOffset
  <2>2. CASE client' = [client EXCEPT ![c] = Idle]
    BY <1>1, <2>2, IdleTyped DEF TypeOK
  <2>3. ASSUME NEW n \in Readable, NEW B \in SUBSET Readable,
               client' = [client EXCEPT ![c].at = "holding", ![c].pos = n + 1,
                                        ![c].batch = {log[o + 1] : o \in B}]
        PROVE  client' \in [Client -> ClientState]
    <3>1. n + 1 \in Offset /\ "holding" \in Phase
      BY <1>1, Typed DEF Readable, Held, Offset, Phase
    <3>2. \A o \in Readable : log[o + 1] \in Id
      BY <1>1, ReadableTyped
    <3>3. {log[o + 1] : o \in B} \in SUBSET Id
      BY <3>2
    <3> QED
      BY <1>1, <1>2, <2>3, <3>1, <3>3 DEF TypeOK, ClientState
  <2> QED
    BY <2>1, <2>2, <2>3
<1> QED
  BY <1>1, <1>3, <1>4, <1>5, ClientStepInv
     DEF FetchStep, Fetch_Snapshot, Fetch_Offsets, Fetch_Read, TypeOK

(* The range check of CommitOffset keeps the invariant.                    *)
LEMMA CommitCheckInv ==
    ASSUME CInv, NEW c \in Client, Commit_Check(c) PROVE CInv'
<1>1. TypeOK /\ MaxRecords \in Nat \ {0}
  BY MaxRecordsAssumption DEF CInv
<1>2. client[c] \in ClientState /\ GroupOf(c) \in Group
  BY <1>1 DEF TypeOK, Client, GroupOf
<1>3. client' \in [Client -> ClientState]
  <2>1. PICK off \in CommitChoice(c) :
          client' = [client EXCEPT ![c] =
                       IF 0 <= off /\ off < Latest
                       THEN [@ EXCEPT !.at = "validated", !.off = off]
                       ELSE Idle]
    BY DEF Commit_Check
  <2>2. off \in Int /\ Latest \in 0..MaxRecords
    BY <1>1, <1>2, <2>1, Typed DEF CommitChoice, ClientState, Offset
  <2>3. ASSUME 0 <= off, off < Latest
        PROVE  [client[c] EXCEPT !.at = "validated", !.off = off]
                  \in ClientState
    <3>1. off \in 0..(MaxRecords - 1) /\ "validated" \in Phase
      BY <1>1, <2>2, <2>3 DEF Phase
    <3> QED
      BY <1>2, <3>1 DEF ClientState
  <2> QED
    BY <1>1, <2>1, <2>3, IdleTyped DEF TypeOK
<1>4. delivered' \in [Group -> SUBSET Id]
  BY <1>1, <1>2 DEF Commit_Check, TypeOK, ClientState
<1> QED
  BY <1>1, <1>3, <1>4, ClientStepInv DEF Commit_Check, TypeOK

(* A client that keeps its batch after a failed save, or starts over.      *)
LEMMA RetryTyped ==
    ASSUME TypeOK, NEW c \in Client
    PROVE  /\ [client EXCEPT ![c].at = "holding", ![c].off = 0]
                 \in [Client -> ClientState]
           /\ [client EXCEPT ![c] = Idle] \in [Client -> ClientState]
<1>1. 0 \in 0..(MaxRecords - 1) /\ "holding" \in Phase
  BY MaxRecordsAssumption DEF Phase
<1> QED
  BY <1>1, IdleTyped DEF TypeOK, ClientState

(* So do the failed save, the unknown group and the killed client.         *)
LEMMA ClientEndInv ==
    ASSUME CInv, NEW c \in Client,
           Commit_WriteFail(c) \/ Commit_NotJoined(c) \/ Client_Restart(c)
    PROVE  CInv'
<1>1. TypeOK
  BY DEF CInv
<1>2. client' \in [Client -> ClientState]
  BY <1>1, RetryTyped DEF Commit_WriteFail, Commit_NotJoined, Client_Restart
<1>3. faults' \in 0..MaxFaults
  BY <1>1, FaultTyped
     DEF Commit_WriteFail, Commit_NotJoined, Client_Restart, SaveFail, TypeOK
<1>4. UNCHANGED <<partition, meta, clamp, exempt, sheltered, delivered>>
  BY DEF Commit_WriteFail, Commit_NotJoined, Client_Restart, SaveFail,
         meta, history
<1> QED
  BY <1>1, <1>2, <1>3, <1>4, ClientStepInv DEF TypeOK

(* Type correctness of the steps that change the groups.                   *)
LEMMA GroupsTyped ==
    ASSUME TypeOK,
           UNCHANGED <<partition, clamp, delivered, exempt>>,
           groups' \in Meta, saved' \in Meta, stable' \in SUBSET Meta,
           client' \in [Client -> ClientState], faults' \in 0..MaxFaults,
           sheltered' \in SUBSET Group
    PROVE  TypeOK'
  BY DEF TypeOK, partition, exempt

(* JoinGroup, whatever becomes of its save.                                *)
LEMMA JoinInv ==
    ASSUME CInv, NEW c \in Client, Join(c) \/ Join_Fail(c) \/ Join_SyncFail(c)
    PROVE  CInv'
<1> DEFINE g == GroupOf(c)
<1> USE DEF Join, Join_Fail, Join_SyncFail, Save, SaveFail, SaveSyncFail
<1>1. TypeOK /\ g \in Group /\ Joining(g) \in Meta
  BY JoiningTyped DEF CInv, Client, GroupOf
<1>2. /\ UNCHANGED <<partition, client, clamp, delivered, exempt>>
      /\ groups' = Joining(g)
      /\ \/ saved' = Joining(g) /\ stable' = {Joining(g)}
         \/ UNCHANGED <<saved, stable>>
         \/ saved' = Joining(g) /\ stable' = stable \cup {Joining(g)}
  BY DEF history
<1>3. faults' \in 0..MaxFaults /\ sheltered' \in SUBSET Group
  BY <1>1, FaultTyped DEF TypeOK, history
<1>4. TypeOK'
  BY <1>1, <1>2, <1>3, GroupsTyped DEF TypeOK
<1>5. /\ Joining(g).committed = groups.committed
      /\ Joining(g).joined = groups.joined \cup {g}
  BY <1>1 DEF TypeOK, Meta, Joining
<1>6. ASSUME NEW h \in Group
      PROVE  NextFetch(h)' = NextFetch(h) /\ NextFetch(h) \in Int
  BY <1>1, <1>2, <1>5, Typed DEF NextFetch, Offset
<1>7. ASSUME NEW h \in sheltered', h \in sheltered
      PROVE  Safe(h)'
  <2>1. h \in Group /\ Safe(h)
    BY <1>3, <1>7 DEF CInv, Sheltered
  <2>2. Settled(h)'
    BY <1>2, <1>5, <2>1 DEF Settled, Safe
  <2>3. h \in groups'.joined
    BY <1>2, <1>5, <2>1 DEF Safe
  <2>4. NextFetch(h)' = NextFetch(h) /\ NextFetch(h) \in Int
    BY <1>6, <2>1
  <2> QED
    BY <1>1, <1>2, <2>1, <2>2, <2>3, <2>4, SafeStays
       DEF partition, Safe
<1>8. ASSUME NEW h \in sheltered', h \notin sheltered
      PROVE  Safe(h)'
  <2>1. h = g /\ Protected(NextFetch(g)) /\ Save(Joining(g))
    BY <1>8 DEF history
  <2>2. clamp <= NextFetch(g) /\ Whole(NextFetch(g))
    BY <1>1, <2>1, Typed DEF Protected, None, Offset
  <2>3. Settled(g)'
    BY <1>2, <1>5, <2>1 DEF Settled
  <2>4. NextFetch(g)' = NextFetch(g) /\ NextFetch(g) \in Int
    BY <1>1, <1>6
  <2> QED
    BY <1>1, <1>2, <1>5, <2>1, <2>2, <2>3, <2>4, SafeStays DEF partition
<1> QED
  BY <1>4, <1>7, <1>8 DEF CInv, Sheltered

(* What committing changes: one group's offset.                            *)
LEMMA CommittingGroup ==
    ASSUME TypeOK, NEW g \in Group, NEW off \in 0..(MaxRecords - 1)
    PROVE  /\ Committing(g, off).joined = groups.joined
           /\ Committing(g, off).committed[g] = off
           /\ \A h \in Group \ {g} :
                Committing(g, off).committed[h] = groups.committed[h]
  BY DEF TypeOK, Meta, Committing

(* A successful CommitOffset shelters its group, or ends its shelter.      *)
LEMMA CommitWriteInv ==
    ASSUME CInv, NEW c \in Client, Commit_Write(c)
    PROVE  CInv'
<1> DEFINE g == GroupOf(c)
           off == client[c].off
<1> USE DEF Commit_Write, Save
<1>1. TypeOK /\ g \in Group /\ client[c] \in ClientState
  BY DEF CInv, TypeOK, Client, GroupOf
<1>2. off \in 0..(MaxRecords - 1)
  BY <1>1 DEF ClientState
<1>3. Committing(g, off) \in Meta
  BY <1>1, <1>2, CommittingTyped
<1>4. /\ groups' = Committing(g, off) /\ saved' = groups' /\ stable' = {groups'}
      /\ sheltered' \in SUBSET Group /\ g \in groups.joined
      /\ UNCHANGED <<partition, clamp, faults, delivered, exempt>>
  BY <1>1 DEF TypeOK
<1>5. client' \in [Client -> ClientState]
  BY <1>1, RetryTyped
<1>6. TypeOK'
  BY <1>1, <1>3, <1>4, <1>5, GroupsTyped DEF TypeOK
<1>7. /\ groups'.joined = groups.joined /\ groups'.committed[g] = off
      /\ \A h \in Group \ {g} : groups'.committed[h] = groups.committed[h]
  BY <1>1, <1>2, <1>4, CommittingGroup
<1>8. \A h \in Group : Settled(h)' \/ h \notin groups.joined
  BY <1>4, <1>7 DEF Settled
<1>9. NextFetch(g)' = off + 1 /\ off + 1 \in Int
  BY <1>2, <1>7 DEF NextFetch
<1>10. ASSUME NEW h \in sheltered'
       PROVE  Safe(h)'
  <2>1. CASE h # g
    <3>1. h \in sheltered /\ h \in Group
      BY <1>4, <2>1
    <3>2. Safe(h) /\ h \in groups'.joined /\ Settled(h)'
      BY <1>7, <1>8, <3>1 DEF CInv, Sheltered, Safe
    <3>3. NextFetch(h)' = NextFetch(h) /\ NextFetch(h) \in Int
      BY <1>1, <1>7, <2>1, <3>1, Typed DEF NextFetch, Offset
    <3> QED
      BY <1>1, <1>4, <3>1, <3>2, <3>3, SafeStays DEF partition, Safe
  <2>2. CASE h = g /\ Protected(off + 1)
    <3>1. Whole(off + 1) /\ clamp <= off + 1
      BY <1>2, <2>2 DEF Protected, None
    <3> QED
      BY <1>1, <1>4, <1>7, <1>8, <1>9, <2>2, <3>1, SafeStays DEF partition
  <2>3. CASE h = g /\ ~Protected(off + 1)
    <3>1. g \in sheltered /\ ~(off < groups.committed[g])
      BY <2>3
    <3>2. Whole(NextFetch(g)) /\ clamp <= NextFetch(g)
      BY <3>1 DEF CInv, Sheltered, Safe
    <3>3. groups.committed[g] \in Int /\ clamp \in Int
      <4>1. groups \in Meta /\ clamp \in None..MaxRecords
        BY <1>1 DEF TypeOK
      <4>2. groups.committed[g] \in None..(MaxRecords - 1)
        BY <1>1, <4>1 DEF Meta
      <4> QED
        BY <4>1, <4>2, MaxRecordsAssumption DEF None
    <3>4. NextFetch(g) \in Int /\ NextFetch(g) <= off + 1 /\ clamp <= off + 1
      BY <1>2, <3>1, <3>2, <3>3 DEF NextFetch
    <3>5. g \in groups'.joined /\ Settled(g)'
      BY <1>1, <1>4, <1>7, <1>8
    <3> QED
      BY <1>1, <1>4, <1>9, <2>3, <3>2, <3>4, <3>5, SafeStays DEF partition
  <2> QED
    BY <2>1, <2>2, <2>3
<1> QED
  BY <1>6, <1>10 DEF CInv, Sheltered

(* An uncertain CommitOffset ends the shelter of its group.                *)
LEMMA CommitSyncFailInv ==
    ASSUME CInv, NEW c \in Client, Commit_SyncFail(c)
    PROVE  CInv'
<1> DEFINE g == GroupOf(c)
           new == Committing(g, client[c].off)
<1> USE DEF Commit_SyncFail, SaveSyncFail
<1>1. TypeOK /\ g \in Group /\ client[c] \in ClientState
  BY DEF CInv, TypeOK, Client, GroupOf
<1>2. client[c].off \in 0..(MaxRecords - 1)
  BY <1>1 DEF ClientState
<1>3. /\ new \in Meta /\ new.joined = groups.joined
      /\ \A h \in Group \ {g} : new.committed[h] = groups.committed[h]
  BY <1>1, <1>2, CommittingTyped, CommittingGroup
<1>4. /\ UNCHANGED <<partition, groups, clamp, delivered, exempt>>
      /\ saved' = new /\ stable' = stable \cup {new}
      /\ sheltered' = sheltered \ {g}
  OBVIOUS
<1>5. client' \in [Client -> ClientState] /\ faults' \in 0..MaxFaults
  BY <1>1, RetryTyped, FaultTyped
<1>6. sheltered' \in SUBSET Group /\ saved' \in Meta /\ stable' \in SUBSET Meta
  BY <1>1, <1>3, <1>4 DEF TypeOK
<1>7. TypeOK'
  BY <1>1, <1>4, <1>5, <1>6, GroupsTyped DEF TypeOK
<1>8. ASSUME NEW h \in sheltered'
      PROVE  Safe(h)'
  <2>1. h \in sheltered /\ h \in Group \ {g}
    BY <1>4, <1>6
  <2>2. Safe(h)
    BY <2>1 DEF CInv, Sheltered
  <2>3. Settled(h)'
    <3> HIDE DEF new
    <3> QED
      BY <1>3, <1>4, <2>1, <2>2 DEF Settled, Safe
  <2>4. NextFetch(h)' = NextFetch(h) /\ NextFetch(h) \in Int
    BY <1>1, <1>4, <2>1, Typed DEF NextFetch, Offset
  <2> QED
    BY <1>1, <1>4, <2>1, <2>2, <2>3, <2>4, SafeStays DEF partition, Safe
<1> QED
  BY <1>7, <1>8 DEF CInv, Sheltered

(* The clamp a pass takes is at or below the cursor of every joined group. *)
LEMMA BoundaryBelow ==
    ASSUME TypeOK
    PROVE  /\ Boundary \in Offset
           /\ \A g \in groups.joined : Boundary <= NextFetch(g)
<1> DEFINE S == {MaxRecords} \cup {NextFetch(g) : g \in groups.joined}
<1>1. groups.joined \subseteq Group
  BY DEF TypeOK, Meta
<1>2. S \subseteq Offset /\ S # {} /\ Offset \subseteq Nat
  BY <1>1, Typed DEF Offset
<1>3. MinOf(S) \in S /\ \A m \in S : MinOf(S) <= m
  BY <1>2, MinOfNat
<1> QED
  BY <1>2, <1>3 DEF Boundary

(* A retention pass deletes nothing of a sheltered group.                  *)
LEMMA PassInv ==
    ASSUME CInv, Pass_Snapshot \/ Pass_Delete \/ Pass_Fail PROVE CInv'
<1>1. TypeOK
  BY DEF CInv
<1>2. CASE Pass_Snapshot
  <2> USE <1>2 DEF Pass_Snapshot, partition, meta, history, exempt
  <2>1. clamp' \in None..MaxRecords
    BY <1>1, BoundaryBelow, MaxRecordsAssumption DEF Offset, None
  <2>2. TypeOK'
    BY <1>1, <2>1 DEF TypeOK
  <2>3. ASSUME NEW g \in sheltered' PROVE Safe(g)'
    <3>1. g \in Group /\ Safe(g)
      BY <1>1 DEF CInv, Sheltered, TypeOK
    <3>2. /\ NextFetch(g)' = NextFetch(g) /\ NextFetch(g) \in Int
          /\ clamp' <= NextFetch(g) /\ Settled(g)'
      BY <1>1, <3>1, BoundaryBelow, Typed DEF NextFetch, Safe, Settled, Offset
    <3> QED
      BY <1>1, <3>1, <3>2, SafeStays DEF Safe
  <2> QED
    BY <2>2, <2>3 DEF CInv, Sheltered
<1>3. CASE Pass_Delete \/ Pass_Fail
  <2>1. PICK unlinked \in SUBSET Deletable, gone \in SUBSET Deletable :
          /\ gone \subseteq unlinked
          /\ segments' = segments \ gone /\ dir' = dir \ unlinked
          /\ durDir' \in {durDir, dir'}
    BY <1>3 DEF Pass_Delete, Pass_Fail
  <2>2. /\ clamp' = None
        /\ UNCHANGED <<log, bases, synced, nextId, meta, client, history>>
        /\ UNCHANGED faults \/ Fault
    BY <1>3 DEF Pass_Delete, Pass_Fail
  <2>3. /\ bases \in SUBSET Nat /\ dir \subseteq segments
        /\ segments \subseteq bases /\ dir \subseteq durDir
        /\ durDir \subseteq bases /\ clamp \in Int
    BY <1>1, MaxRecordsAssumption DEF TypeOK, Offset, None
  <2>4. TypeOK'
    <3>1. PICK top \in dir : \A x \in bases : x <= top
      BY <1>1 DEF TypeOK
    <3>2. top \notin Deletable
      BY <2>3, <3>1 DEF Deletable, EndsBy
    <3>3. \E b \in dir' : \A x \in bases' : x <= b
      BY <2>1, <2>2, <3>1, <3>2
    <3>4. /\ dir' \subseteq segments' /\ segments' \subseteq bases'
          /\ dir' \subseteq durDir' /\ durDir' \subseteq bases'
      BY <2>1, <2>2, <2>3
    <3>5. clamp' \in None..MaxRecords /\ faults' \in 0..MaxFaults
      BY <1>1, <2>2, FaultTyped, MaxRecordsAssumption DEF None, TypeOK
    <3> QED
      BY <1>1, <2>2, <3>3, <3>4, <3>5 DEF TypeOK, meta, history, exempt
  <2>5. ASSUME NEW g \in sheltered' PROVE Safe(g)'
    <3>1. g \in Group /\ Safe(g)
      BY <1>1, <2>2 DEF CInv, Sheltered, TypeOK, history
    <3>2. /\ NextFetch(g) \in Nat /\ NextFetch(g)' = NextFetch(g)
          /\ clamp' <= NextFetch(g) /\ Settled(g)' /\ g \in groups'.joined
      BY <1>1, <2>2, <3>1, Typed
         DEF NextFetch, Safe, Settled, Offset, meta, None
    <3>3. ASSUME NEW b \in bases \ dir'
          PROVE  \E x \in bases : b < x /\ x <= NextFetch(g)
      <4>1. CASE b \in dir
        <5>1. b \in Deletable
          BY <2>1, <3>3, <4>1
        <5>2. PICK x \in bases : b < x /\ x <= clamp
          BY <5>1 DEF Deletable, EndsBy
        <5> QED
          BY <2>3, <3>1, <3>2, <5>2 DEF Safe
      <4>2. CASE b \notin dir
        BY <3>1, <3>3, <4>2 DEF Safe, Whole, EndsBy
      <4> QED
        BY <4>1, <4>2
    <3>4. Whole(NextFetch(g))'
      BY <2>2, <3>2, <3>3 DEF Whole, EndsBy
    <3> QED
      BY <3>2, <3>4 DEF Safe
  <2> QED
    BY <2>4, <2>5 DEF CInv, Sheltered
<1> QED
  BY <1>2, <1>3

(* A restart finds a version of groups.json that agrees with memory on     *)
(* every protected group.                                                  *)
LEMMA RestartKeeps ==
    ASSUME CInv, NEW v \in stable \cup {saved},
           groups' = v, saved' = v, stable' \subseteq stable \cup {v},
           sheltered' = sheltered, clamp' = None,
           bases' = bases, dir \subseteq dir'
    PROVE  Sheltered'
<1>1. TypeOK
  BY DEF CInv
<1>2. ASSUME NEW g \in sheltered
      PROVE  Safe(g)'
  <2>1. g \in Group /\ Safe(g)
    BY <1>1, <1>2 DEF CInv, Sheltered, TypeOK
  <2>2. g \in v.joined /\ v.committed[g] = groups.committed[g]
    BY <2>1 DEF Settled, Safe
  <2>3. NextFetch(g)' = NextFetch(g) /\ NextFetch(g) \in Nat
    BY <1>1, <2>1, <2>2, Typed DEF NextFetch, Offset
  <2>4. Settled(g)'
    BY <2>1, <2>2 DEF Settled, Safe
  <2>5. clamp' <= NextFetch(g)' /\ NextFetch(g)' \in Int
    BY <2>3 DEF None
  <2>6. bases \subseteq bases' /\ bases' \ dir' \subseteq bases \ dir
    OBVIOUS
  <2> QED
    BY <1>1, <2>1, <2>2, <2>3, <2>4, <2>5, <2>6, SafeStays DEF Safe
<1> QED
  BY <1>2 DEF Sheltered

(* A restart finds the groups.json that was written last.                  *)
LEMMA ProcessCrashInv == ASSUME CInv, ProcessCrash PROVE CInv'
<1> USE DEF ProcessCrash, history, exempt
<1>1. TypeOK
  BY DEF CInv
<1>2. client' \in [Client -> ClientState] /\ faults' \in 0..MaxFaults
  BY <1>1, DroppedTyped, FaultTyped
<1>3. clamp' = None /\ None \in None..MaxRecords
  BY MaxRecordsAssumption DEF None
<1>4. dir \subseteq bases
  BY <1>1 DEF TypeOK
<1>5. TypeOK'
  BY <1>1, <1>2, <1>3, <1>4 DEF TypeOK
<1>6. Sheltered'
  BY <1>3, RestartKeeps
<1> QED
  BY <1>5, <1>6 DEF CInv

(* What a crash of the machine takes, what it brings back, and what it     *)
(* leaves on disk.                                                         *)
Gone(n) == n..(Latest - 1)
Found(n, files) == (Held(files) \cap 0..(n - 1)) \ Readable

Crashed(n, v, files) ==
    /\ dir \subseteq files
    /\ log' = SubSeq(log, 1, n) /\ synced' = n
    /\ segments' = files /\ dir' = files /\ durDir' = files
    /\ groups' = v /\ saved' = v /\ stable' = {v}
    /\ disowned' = [g \in Group |->
                      disowned[g] \cup {o \in Gone(n) : o <= v.committed[g]}]
    /\ returned' = [g \in Group |->
                      returned[g] \cup
                        {o \in Found(n, files) : o <= v.committed[g]}]
    /\ stale' = [g \in Group |->
                   stale[g] \cup
                     {o \in Gone(n) \cup Found(n, files) : HolderBeyond(g, o)}]

(* OSCrash with its choices named.                                         *)
LEMMA CrashedBy ==
    ASSUME OSCrash
    PROVE  \E n \in synced..Latest, v \in stable, files \in SUBSET durDir :
             Crashed(n, v, files)
  BY ZenonT(30) DEF OSCrash, Crashed, Gone, Found

(* A restart of the machine finds any version that may be on disk.         *)
LEMMA OSCrashInv == ASSUME CInv, OSCrash PROVE CInv'
<1>1. TypeOK
  BY DEF CInv
<1>2. PICK n \in synced..Latest, v \in stable, files \in SUBSET durDir :
        Crashed(n, v, files)
  BY CrashedBy
<1>3. /\ client' = Dropped /\ clamp' = None /\ Fault
      /\ UNCHANGED <<bases, nextId, delivered, sheltered>>
  BY DEF OSCrash
<1>4. /\ Latest \in 0..MaxRecords /\ Latest < nextId /\ nextId \in Nat
      /\ synced \in Nat /\ n \in Nat /\ n <= Latest /\ synced <= n
      /\ MaxRecords \in Nat /\ log \in Seq(Id) /\ Latest = Len(log)
  BY <1>1, Typed DEF TypeOK, Latest
<1>5. log' \in Seq(Id) /\ Len(log') = n
  BY <1>2, <1>4 DEF Crashed
<1>6. \A b \in bases' : b <= synced'
  <2>1. synced' = n /\ bases' = bases
    BY <1>2, <1>3 DEF Crashed
  <2>2. bases \in SUBSET Offset /\ \A b \in bases : b <= synced
    BY <1>1, Zenon DEF TypeOK
  <2>3. \A b \in bases : b \in Nat
    BY <2>2, MaxRecordsAssumption DEF Offset
  <2> QED
    BY <1>4, <2>1, <2>2, <2>3
<1>7. /\ disowned' \in [Group -> SUBSET Offset]
      /\ returned' \in [Group -> SUBSET Offset]
      /\ stale' \in [Group -> SUBSET Offset]
  <2>1. 0..(Latest - 1) \subseteq Offset
    BY <1>4 DEF Offset
  <2>2. Gone(n) \subseteq Offset /\ Found(n, files) \subseteq Offset
    BY <1>4, <2>1 DEF Gone, Found, Held
  <2> HIDE DEF Gone, Found
  <2> QED
    BY <1>1, <1>2, <2>2 DEF TypeOK, Crashed
<1>8. client' \in [Client -> ClientState] /\ faults' \in 0..MaxFaults
  BY <1>1, <1>3, DroppedTyped, FaultTyped
<1>9. None \in None..MaxRecords
  BY <1>4 DEF None
<1>10. /\ dir' \subseteq segments' /\ segments' \subseteq bases'
       /\ dir' \subseteq durDir' /\ durDir' \subseteq bases'
       /\ \E b \in dir' : \A x \in bases' : x <= b
  BY <1>1, <1>2, <1>3 DEF TypeOK, Crashed
<1>11. TypeOK'
  <2>1. Len(log') < nextId' /\ synced' \in 0..Len(log')
    BY <1>2, <1>3, <1>4, <1>5 DEF Crashed
  <2>2. groups' \in Meta /\ saved' \in Meta /\ stable' \in SUBSET Meta
    BY <1>1, <1>2 DEF TypeOK, Crashed
  <2> QED
    BY <1>1, <1>3, <1>5, <1>6, <1>7, <1>8, <1>9, <1>10, <2>1, <2>2
       DEF TypeOK
<1>12. Sheltered'
  BY <1>2, <1>3, RestartKeeps DEF Crashed
<1> QED
  BY <1>11, <1>12 DEF CInv

-----------------------------------------------------------------------------
(* The strengthened invariant holds in every reachable state.              *)
THEOREM CursorInductive == Spec => []CInv
<1>1. Init => CInv
  BY InitInv
<1>2. CInv /\ [Next]_vars => CInv'
  <2> SUFFICES ASSUME CInv, [Next]_vars PROVE CInv'
    OBVIOUS
  <2>1. CASE \E roll \in BOOLEAN, acks \in {"none", "leader"} :
                AppendRecord(roll, acks)
    BY <2>1, AppendInv
  <2>2. ASSUME NEW c \in Client,
               \/ Join(c) \/ Join_Fail(c) \/ Join_SyncFail(c)
               \/ FetchStep(c)
               \/ CommitStep(c) \/ Commit_WriteFail(c) \/ Commit_SyncFail(c)
               \/ Client_Restart(c)
        PROVE  CInv'
    BY <2>2, JoinInv, FetchInv, CommitCheckInv, CommitWriteInv,
       CommitSyncFailInv, ClientEndInv DEF CommitStep
  <2>3. CASE Pass_Snapshot \/ Pass_Delete \/ Pass_Fail
    BY <2>3, PassInv
  <2>4. CASE ProcessCrash
    BY <2>4, ProcessCrashInv
  <2>5. CASE OSCrash
    BY <2>5, OSCrashInv
  <2>6. CASE UNCHANGED vars
    <3>1. TypeOK /\ Sheltered
      BY DEF CInv
    <3>2. client' \in [Client -> ClientState] /\ faults' \in 0..MaxFaults
          /\ delivered' \in [Group -> SUBSET Id]
      BY <2>6, <3>1 DEF vars, history, TypeOK
    <3> QED
      BY <2>6, <3>2, ClientStepInv DEF vars, history
  <2> QED
    BY <2>1, <2>2, <2>3, <2>4, <2>5, <2>6 DEF Next
<1> QED
  BY <1>1, <1>2, PTL DEF Spec

(* Every variable of the group model keeps its type, and every segment but *)
(* the last is synced.                                                     *)
THEOREM CursorTypeCorrect == Spec => []TypeOK
<1>1. CInv => TypeOK
  BY DEF CInv
<1> QED
  BY <1>1, CursorInductive, PTL

(* No pass, crash or failed save ever takes the next record of a group     *)
(* that the clamp has promised to protect.                                 *)
THEOREM CursorIsProtected == Spec => []CursorProtected
<1>1. CInv => CursorProtected
  BY DEF CInv, Sheltered, Safe, CursorProtected
<1> QED
  BY <1>1, CursorInductive, PTL

-----------------------------------------------------------------------------
(* At least once.  AtLeastOnce speaks of the groups in memory, but what    *)
(* they are after the next step is decided elsewhere: by the versions of   *)
(* groups.json a restart may find, and by requests in flight, which carry  *)
(* a fetch position read earlier and an offset validated earlier.          *)

(* The offset o is no concern of the group g any more: a crash changed it, *)
(* it is deleted, or its record was processed by the group.                *)
Behind(g, o) ==
    \/ o \in Exempt(g)
    \/ o < Latest /\ (o \notin Readable \/ log[o + 1] \in delivered[g])

DoneTo(g, n) == \A o \in Nat : o < n => Behind(g, o)

Versions == stable \cup {saved, groups}

VersionsDone ==
    \A v \in Versions : \A g \in Group : DoneTo(g, v.committed[g] + 1)

(* The record at offset o is in the batch of the client c.                 *)
InHand(c, o) == o < Latest /\ log[o + 1] \in client[c].batch

ClientDone(c) ==
    /\ \A o \in Nat : o < client[c].pos => Behind(GroupOf(c), o) \/ InHand(c, o)
    /\ client[c].at = "idle" => client[c] = Idle
    /\ client[c].at \in {"snapshot", "ranged"} => client[c].batch = {}
    /\ client[c].at = "validated" =>
         /\ client[c].off < client[c].pos
         /\ client[c].batch \subseteq delivered[GroupOf(c)]

DoneInv == VersionsDone /\ \A c \in Client : ClientDone(c)

(* What no step but a crash of the machine takes back: records stay at     *)
(* their offsets, what is gone stays gone, and what is processed or exempt *)
(* stays so.                                                               *)
Onward ==
    /\ \A o \in Nat : o < Latest => o < Latest' /\ log'[o + 1] = log[o + 1]
    /\ \A o \in Nat : o < Latest /\ o \in Readable' => o \in Readable
    /\ \A g \in Group : /\ delivered[g] \subseteq delivered'[g]
                        /\ Exempt(g) \subseteq Exempt(g)'

(* What a client step other than a fetch or a check leaves of its request. *)
Retried(r) == [r EXCEPT !.at = "holding", !.off = 0]
Kept(c) ==
    \/ client'[c] \in {client[c], Idle}
    \/ client[c].at = "validated" /\ client'[c] = Retried(client[c])

(* An append leaves the records before it alone.                           *)
LEMMA AppendOnward ==
    ASSUME TypeOK, NEW roll \in BOOLEAN, NEW acks \in {"none", "leader"},
           AppendRecord(roll, acks)
    PROVE  Onward
<1>1. /\ log' = Append(log, nextId) /\ nextId \in Id
      /\ bases' \in {bases, bases \cup {Latest}}
      /\ segments' \in {segments, segments \cup {Latest}}
      /\ exempt' = exempt /\ delivered' = delivered
  BY DEF AppendRecord, Roll, history, TypeOK, Id
<1>2. log \in Seq(Id) /\ Latest = Len(log) /\ Latest \in Nat
  BY DEF TypeOK, Latest
<1>3. /\ Latest' = Latest + 1
      /\ \A o \in Nat : o < Latest => log'[o + 1] = log[o + 1]
  BY <1>1, <1>2 DEF Latest
<1>4. ASSUME NEW o \in Nat, o < Latest, o \in Readable'
      PROVE  o \in Readable
  <2>1. PICK b \in segments' : b <= o /\ ~ \E x \in bases' : b < x /\ x <= o
    BY <1>4 DEF Readable, Held, EndsBy
  <2>2. b \in segments
    BY <1>1, <1>2, <1>4, <2>1
  <2>3. ~ EndsBy(b, o)
    BY <1>1, <2>1 DEF EndsBy
  <2> QED
    BY <1>2, <1>4, <2>1, <2>2, <2>3 DEF Readable, Held
<1> QED
  BY <1>1, <1>2, <1>3, <1>4 DEF Onward, exempt, Exempt

(* Deleting, or restarting the process, only takes segments away.          *)
LEMMA DeleteOnward ==
    ASSUME TypeOK, Pass_Delete \/ Pass_Fail \/ ProcessCrash
    PROVE  Onward
<1>1. /\ segments' \subseteq segments
      /\ UNCHANGED <<log, bases, delivered, exempt>>
  BY DEF Pass_Delete, Pass_Fail, ProcessCrash, history, TypeOK
<1>2. Latest' = Latest /\ Readable' \subseteq Readable
  BY <1>1 DEF Latest, Readable, Held, EndsBy
<1> QED
  BY <1>1, <1>2 DEF Onward, exempt, Exempt

(* Every step but a crash of the machine goes onward.                      *)
LEMMA StepOnward ==
    ASSUME TypeOK, [Next]_vars, ~OSCrash
    PROVE  Onward
<1>1. ASSUME UNCHANGED <<partition, exempt>>,
             \A g \in Group : delivered[g] \subseteq delivered'[g]
      PROVE  Onward
  <2>1. UNCHANGED <<log, bases, segments, disowned, returned, stale>>
    BY <1>1 DEF partition, exempt
  <2>2. Latest' = Latest /\ Readable' = Readable
        /\ \A g : Exempt(g)' = Exempt(g)
    BY <2>1 DEF Latest, Readable, Held, EndsBy, Exempt
  <2> QED
    BY <1>1, <2>1, <2>2 DEF Onward
<1>2. CASE \E roll \in BOOLEAN, acks \in {"none", "leader"} :
              AppendRecord(roll, acks)
  BY <1>2, AppendOnward
<1>3. ASSUME NEW c \in Client,
             \/ Join(c) \/ Join_Fail(c) \/ Join_SyncFail(c)
             \/ FetchStep(c) \/ Commit_Write(c) \/ Commit_NotJoined(c)
             \/ Commit_WriteFail(c) \/ Commit_SyncFail(c)
             \/ Client_Restart(c)
      PROVE  Onward
  <2>1. UNCHANGED <<partition, exempt, delivered>>
    BY <1>3 DEF Join, Join_Fail, Join_SyncFail, FetchStep, Fetch_Snapshot,
       Fetch_Offsets, Fetch_Read, Commit_Write, Commit_NotJoined,
       Commit_WriteFail, Commit_SyncFail, Client_Restart, history
  <2> QED
    BY <1>1, <2>1
<1>4. ASSUME NEW c \in Client, Commit_Check(c)
      PROVE  Onward
  <2>1. UNCHANGED <<partition, exempt>>
    BY <1>4 DEF Commit_Check
  <2>2. \A g \in Group : delivered[g] \subseteq delivered'[g]
    BY <1>4 DEF Commit_Check, TypeOK
  <2> QED
    BY <1>1, <2>1, <2>2
<1>5. CASE Pass_Snapshot
  BY <1>1, <1>5 DEF Pass_Snapshot, history
<1>6. CASE UNCHANGED vars
  BY <1>1, <1>6 DEF vars, history
<1> QED
  BY <1>2, <1>3, <1>4, <1>5, <1>6, DeleteOnward DEF Next, CommitStep

(* What a group is done with it stays done with.                           *)
LEMMA BehindStays ==
    ASSUME Onward, NEW g \in Group, NEW o \in Nat, Behind(g, o)
    PROVE  Behind(g, o)'
<1>1. CASE o \in Exempt(g)
  BY <1>1 DEF Onward, Behind
<1>2. CASE o < Latest /\ o \notin Readable
  BY <1>2 DEF Onward, Behind
<1>3. CASE o < Latest /\ log[o + 1] \in delivered[g]
  BY <1>3 DEF Onward, Behind
<1> QED
  BY <1>1, <1>2, <1>3 DEF Behind

(* The end of the log is a number after a step, too.                       *)
LEMMA TypedNext == ASSUME TypeOK' PROVE Latest' \in Nat
  BY DEF TypeOK, Latest

(* A version of groups.json after a step has the offsets of an earlier     *)
(* one, or one that a request in flight had validated.                     *)
LEMMA VersionsFrom ==
    ASSUME TypeOK, [Next]_vars, NEW v \in Versions', NEW g \in Group
    PROVE  \/ \E u \in Versions : v.committed[g] = u.committed[g]
           \/ \E c \in Client : /\ client[c].at = "validated"
                                /\ g = GroupOf(c)
                                /\ v.committed[g] = client[c].off
<1>1. ASSUME Versions' \subseteq Versions
      PROVE  \E u \in Versions : v.committed[g] = u.committed[g]
  BY <1>1
<1>2. ASSUME NEW c \in Client, Join(c) \/ Join_Fail(c) \/ Join_SyncFail(c)
      PROVE  \E u \in Versions : v.committed[g] = u.committed[g]
  <2>1. v \in Versions \cup {Joining(GroupOf(c))}
    BY <1>2 DEF Join, Join_Fail, Join_SyncFail, Save, SaveFail,
       SaveSyncFail, Versions
  <2>2. Joining(GroupOf(c)).committed = groups.committed
    BY DEF TypeOK, Meta, Joining
  <2> QED
    BY <2>1, <2>2 DEF Versions
<1>3. ASSUME NEW c \in Client, Commit_Write(c) \/ Commit_SyncFail(c)
      PROVE  \/ \E u \in Versions : v.committed[g] = u.committed[g]
             \/ /\ client[c].at = "validated" /\ g = GroupOf(c)
                /\ v.committed[g] = client[c].off
  <2> DEFINE new == Committing(GroupOf(c), client[c].off)
  <2>1. v \in Versions \cup {new} /\ client[c].at = "validated"
    BY <1>3 DEF Commit_Write, Commit_SyncFail, Save, SaveSyncFail, Versions
  <2>2. GroupOf(c) \in Group /\ client[c].off \in 0..(MaxRecords - 1)
    BY DEF TypeOK, Client, GroupOf, ClientState
  <2>3. /\ new.committed[GroupOf(c)] = client[c].off
        /\ \A h \in Group \ {GroupOf(c)} :
             new.committed[h] = groups.committed[h]
    BY <2>2, CommittingGroup
  <2> HIDE DEF new
  <2> QED
    BY <2>1, <2>3 DEF Versions
<1>4. ASSUME NEW c \in Client,
             \/ FetchStep(c) \/ Commit_Check(c) \/ Commit_NotJoined(c)
             \/ Commit_WriteFail(c) \/ Client_Restart(c)
      PROVE  Versions' \subseteq Versions
  BY <1>4 DEF FetchStep, Fetch_Snapshot, Fetch_Offsets, Fetch_Read,
     Commit_Check, Commit_NotJoined, Commit_WriteFail, SaveFail,
     Client_Restart, meta, Versions
<1>5. CASE \E roll \in BOOLEAN, acks \in {"none", "leader"} :
              AppendRecord(roll, acks)
  BY <1>1, <1>5 DEF AppendRecord, meta, Versions
<1>6. CASE Pass_Snapshot \/ Pass_Delete \/ Pass_Fail
  BY <1>1, <1>6 DEF Pass_Snapshot, Pass_Delete, Pass_Fail, meta, Versions
<1>7. CASE ProcessCrash \/ OSCrash
  BY <1>1, <1>7 DEF ProcessCrash, OSCrash, Versions
<1>8. CASE UNCHANGED vars
  BY <1>1, <1>8 DEF vars, meta, Versions
<1> QED
  BY <1>1, <1>2, <1>3, <1>4, <1>5, <1>6, <1>7, <1>8 DEF Next, CommitStep

(* The request of a client changes in its own fetch and check, or not at   *)
(* all, or falls back to holding the batch, or ends.                       *)
LEMMA ClientsKept ==
    ASSUME TypeOK, [Next]_vars, NEW c \in Client
    PROVE  Kept(c) \/ FetchStep(c) \/ Commit_Check(c)
<1>1. ASSUME NEW d \in Client, FetchStep(d) \/ Commit_Check(d), d # c
      PROVE  Kept(c)
  BY <1>1 DEF FetchStep, Fetch_Snapshot, Fetch_Offsets, Fetch_Read,
     Commit_Check, Kept, TypeOK
<1>2. ASSUME NEW d \in Client,
             Commit_Write(d) \/ Commit_NotJoined(d) \/ Client_Restart(d)
      PROVE  Kept(c)
  BY <1>2 DEF Commit_Write, Commit_NotJoined, Client_Restart, Kept, TypeOK
<1>3. ASSUME NEW d \in Client, Commit_WriteFail(d) \/ Commit_SyncFail(d)
      PROVE  Kept(c)
  BY <1>3 DEF Commit_WriteFail, Commit_SyncFail, Kept, Retried, TypeOK
<1>4. CASE UNCHANGED client
  BY <1>4 DEF Kept
<1>5. CASE ProcessCrash \/ OSCrash
  BY <1>5 DEF ProcessCrash, OSCrash, Dropped, Kept, Retried
<1>6. ASSUME NEW d \in Client, Join(d) \/ Join_Fail(d) \/ Join_SyncFail(d)
      PROVE  UNCHANGED client
  BY <1>6 DEF Join, Join_Fail, Join_SyncFail
<1>7. ASSUME \/ \E roll \in BOOLEAN, acks \in {"none", "leader"} :
                  AppendRecord(roll, acks)
             \/ Pass_Snapshot \/ Pass_Delete \/ Pass_Fail \/ UNCHANGED vars
      PROVE  UNCHANGED client
  BY <1>7 DEF AppendRecord, Pass_Snapshot, Pass_Delete, Pass_Fail, vars
<1> QED
  BY <1>1, <1>2, <1>3, <1>4, <1>5, <1>6, <1>7 DEF Next, CommitStep

-----------------------------------------------------------------------------
(* The types of a request.                                                 *)
LEMMA RequestTyped ==
    ASSUME TypeOK, NEW c \in Client
    PROVE  /\ GroupOf(c) \in Group /\ client[c] \in ClientState
           /\ client[c].pos \in Nat /\ client[c].off \in Nat
<1>1. GroupOf(c) \in Group /\ client[c] \in ClientState
  BY DEF TypeOK, Client, GroupOf
<1>2. client[c].pos \in Offset /\ client[c].off \in 0..(MaxRecords - 1)
  BY <1>1 DEF ClientState
<1> QED
  BY <1>1, <1>2, MaxRecordsAssumption DEF Offset

(* A client that starts over claims nothing.                               *)
LEMMA IdleDone ==
    ASSUME NEW c \in Client, client'[c] = Idle
    PROVE  ClientDone(c)'
  BY DEF ClientDone, Idle

(* A request that a step leaves alone, or throws back, keeps its claims.   *)
LEMMA KeptDone ==
    ASSUME TypeOK, Onward, NEW c \in Client, ClientDone(c), Kept(c)
    PROVE  ClientDone(c)'
<1> DEFINE g == GroupOf(c)
<1>1. g \in Group /\ client[c] \in ClientState
  BY RequestTyped
<1>2. CASE client'[c] = Idle
  BY <1>2, IdleDone
<1>3. CASE client'[c] # Idle
  <2>1. /\ client'[c].pos = client[c].pos
        /\ client'[c].batch = client[c].batch
        /\ client'[c].at # "holding" => client'[c] = client[c]
    BY <1>1, <1>3 DEF Kept, Retried, ClientState
  <2>2. ASSUME NEW o \in Nat, o < client'[c].pos
        PROVE  Behind(g, o)' \/ InHand(c, o)'
    <3>1. CASE Behind(g, o)
      BY <1>1, <3>1, BehindStays
    <3>2. CASE InHand(c, o)
      BY <2>1, <3>2 DEF InHand, Onward
    <3> QED
      BY <2>1, <2>2, <3>1, <3>2 DEF ClientDone
  <2>3. client'[c].at = "validated" =>
          /\ client'[c].off < client'[c].pos
          /\ client'[c].batch \subseteq delivered'[g]
    BY <1>1, <2>1 DEF ClientDone, Onward
  <2>4. /\ client'[c].at = "idle" => client'[c] = Idle
        /\ client'[c].at \in {"snapshot", "ranged"} => client'[c].batch = {}
    BY <2>1 DEF ClientDone
  <2> QED
    BY <2>2, <2>3, <2>4 DEF ClientDone
<1> QED
  BY <1>2, <1>3

(* A fetch asks for the first record its group is not done with, or, after *)
(* the broker moved it, for one with nothing undone below it, and returns  *)
(* every readable record from there to the last one of the batch.          *)
LEMMA FetchDone ==
    ASSUME TypeOK, Onward, VersionsDone,
           NEW c \in Client, ClientDone(c), FetchStep(c)
    PROVE  ClientDone(c)'
<1> DEFINE g == GroupOf(c)
           pos == client[c].pos
<1>1. g \in Group /\ client[c] \in ClientState /\ pos \in Nat
  BY RequestTyped
<1>2. /\ Earliest \in Nat /\ Latest \in Nat /\ Earliest <= Latest
      /\ \A o \in Readable : Earliest <= o
  <2>1. Earliest \in Nat /\ Latest \in Nat /\ Earliest <= Latest
    BY Typed DEF Offset, TypeOK, Latest
  <2>2. ASSUME NEW o \in Readable PROVE Earliest <= o
    <3>1. PICK b \in segments : b <= o
      BY DEF Readable, Held
    <3>2. Earliest <= b /\ b \in Nat /\ o \in Nat
      <4>1. o \in Nat
        BY ReadableTyped
      <4>2. b \in Nat
        BY MaxRecordsAssumption DEF TypeOK, Offset
      <4> QED
        BY <4>1, <4>2, EarliestIsMin
    <3> QED
      BY <2>1, <3>1, <3>2
  <2> QED
    BY <2>1, <2>2
<1>3. client[c].at \in {"snapshot", "ranged"} =>
        \A o \in Nat : o < pos => Behind(g, o)
  BY DEF ClientDone, InHand
<1>4. CASE Fetch_Snapshot(c)
  <2>1. /\ client'[c].pos = NextFetch(g) /\ client'[c].batch = {}
        /\ client'[c].at = "snapshot"
    BY <1>1, <1>4 DEF Fetch_Snapshot, TypeOK, ClientState, ClientDone, Idle
  <2>2. \A o \in Nat : o < NextFetch(g) => Behind(g, o)
    BY <1>1 DEF VersionsDone, Versions, DoneTo, NextFetch
  <2>3. \A o \in Nat : o < client'[c].pos => Behind(g, o)'
    BY <1>1, <2>1, <2>2, BehindStays
  <2> QED
    BY <2>1, <2>3 DEF ClientDone
<1>5. CASE Fetch_Offsets(c)
  <2>1. \/ client'[c] = Idle
        \/ client'[c] = [Idle EXCEPT !.at = "ranged", !.pos = Clamped(pos)]
    BY <1>1, <1>5 DEF Fetch_Offsets, TypeOK
  <2>2. ASSUME client'[c] = [Idle EXCEPT !.at = "ranged", !.pos = Clamped(pos)]
        PROVE  ClientDone(c)'
    <3>1. /\ client'[c].pos = Clamped(pos) /\ client'[c].batch = {}
          /\ client'[c].at = "ranged"
      BY <2>2 DEF Idle
    <3>2. ASSUME NEW o \in Nat, o < Clamped(pos)
          PROVE  Behind(g, o)
      <4>1. CASE o < pos
        BY <1>3, <1>5, <4>1 DEF Fetch_Offsets
      <4>2. CASE ~(o < pos)
        <5>1. o < Earliest
          BY <1>1, <1>2, <3>2, <4>2 DEF Clamped
        <5>2. o < Latest /\ o \notin Readable
          BY <1>2, <5>1
        <5> QED
          BY <5>2 DEF Behind
      <4> QED
        BY <4>1, <4>2
    <3>3. \A o \in Nat : o < client'[c].pos => Behind(g, o)'
      BY <1>1, <3>1, <3>2, BehindStays
    <3> QED
      BY <3>1, <3>3 DEF ClientDone
  <2> QED
    BY <2>1, <2>2, IdleDone
<1>6. CASE Fetch_Read(c)
  <2> DEFINE from == {o \in Readable : pos <= o}
  <2>1. \/ client'[c] = Idle
        \/ \E n \in from :
             /\ client'[c].at = "holding" /\ client'[c].pos = n + 1
             /\ client'[c].batch = {log[o + 1] : o \in from \cap (0..n)}
    <3>1. ASSUME client' = [client EXCEPT ![c] = Idle]
          PROVE  client'[c] = Idle
      BY <3>1 DEF TypeOK
    <3>2. ASSUME NEW n, NEW B,
                 client' = [client EXCEPT ![c].at = "holding", ![c].pos = n,
                                          ![c].batch = B]
          PROVE  /\ client'[c].at = "holding" /\ client'[c].pos = n
                 /\ client'[c].batch = B
      BY <1>1, <3>2 DEF TypeOK, ClientState
    <3>3. \/ client' = [client EXCEPT ![c] = Idle]
          \/ \E n \in from :
               client' = [client EXCEPT
                            ![c].at = "holding", ![c].pos = n + 1,
                            ![c].batch = {log[o + 1] : o \in from \cap (0..n)}]
      BY <1>6, Zenon DEF Fetch_Read, NextOffset
    <3> HIDE DEF from
    <3> QED
      BY <3>1, <3>2, <3>3
  <2>2. ASSUME NEW n \in from,
               /\ client'[c].at = "holding" /\ client'[c].pos = n + 1
               /\ client'[c].batch = {log[o + 1] : o \in from \cap (0..n)}
        PROVE  ClientDone(c)'
    <3>1. n \in Nat /\ n < Latest
      BY ReadableTyped
    <3>2. ASSUME NEW o \in Nat, o < n + 1
          PROVE  Behind(g, o)' \/ InHand(c, o)'
      <4>1. CASE o < pos
        BY <1>1, <1>3, <1>6, <4>1, BehindStays DEF Fetch_Read
      <4>2. CASE ~(o < pos) /\ o \in Readable
        <5>1. o \in from \cap (0..n) /\ o < Latest
          BY <1>1, <1>2, <3>1, <3>2, <4>2
        <5>2. log[o + 1] \in client'[c].batch
          BY <2>2, <5>1
        <5> QED
          BY <5>1, <5>2 DEF InHand, Onward
      <4>3. CASE o \notin Readable
        <5>1. o < Latest
          BY <1>2, <3>1, <3>2
        <5> QED
          BY <1>1, <4>3, <5>1, BehindStays DEF Behind
      <4> QED
        BY <4>1, <4>2, <4>3
    <3> QED
      BY <2>2, <3>2 DEF ClientDone
  <2> QED
    BY <2>1, <2>2, IdleDone
<1> QED
  BY <1>4, <1>5, <1>6 DEF FetchStep

(* A client that commits what it was told to commit has by then processed  *)
(* the whole batch, and the offset is the batch's last.                    *)
LEMMA CheckDone ==
    ASSUME ~AnyCommit, TypeOK, Onward,
           NEW c \in Client, ClientDone(c), Commit_Check(c)
    PROVE  ClientDone(c)'
<1> DEFINE g == GroupOf(c)
           r == client[c]
<1>1. g \in Group /\ r \in ClientState /\ r.pos \in Nat
  BY RequestTyped
<1>2. \/ client'[c] = Idle
      \/ client'[c] = [r EXCEPT !.at = "validated", !.off = r.pos - 1]
  BY DEF Commit_Check, CommitChoice, TypeOK
<1>3. CASE client'[c] = [r EXCEPT !.at = "validated", !.off = r.pos - 1]
  <2>1. /\ client'[c].pos = r.pos /\ client'[c].batch = r.batch
        /\ client'[c].at = "validated" /\ client'[c].off = r.pos - 1
    BY <1>1, <1>3 DEF ClientState
  <2>2. ASSUME NEW o \in Nat, o < client'[c].pos
        PROVE  Behind(g, o)' \/ InHand(c, o)'
    <3>1. CASE Behind(g, o)
      BY <1>1, <3>1, BehindStays
    <3>2. CASE InHand(c, o)
      BY <2>1, <3>2 DEF InHand, Onward
    <3> QED
      BY <2>1, <2>2, <3>1, <3>2 DEF ClientDone
  <2>3. client'[c].batch \subseteq delivered'[g]
    BY <1>1, <2>1 DEF Commit_Check, TypeOK
  <2>4. client'[c].off < client'[c].pos
    BY <1>1, <2>1
  <2> QED
    BY <2>1, <2>2, <2>3, <2>4 DEF ClientDone
<1> QED
  BY <1>2, <1>3, IdleDone

(* What a validated offset covers, the group is done with.                 *)
LEMMA ValidatedDone ==
    ASSUME TypeOK, NEW c \in Client, ClientDone(c), client[c].at = "validated"
    PROVE  DoneTo(GroupOf(c), client[c].off + 1)
<1>1. client[c].pos \in Nat /\ client[c].off \in Nat
  BY RequestTyped
<1>2. SUFFICES ASSUME NEW o \in Nat, o < client[c].off + 1
               PROVE  Behind(GroupOf(c), o)
  BY DEF DoneTo
<1>3. o < client[c].pos
  BY <1>1, <1>2 DEF ClientDone
<1> QED
  BY <1>3 DEF ClientDone, InHand, Behind

(* A crash of the machine exempts the offsets it changes from what the     *)
(* version of groups.json that it finds covers.                            *)
LEMMA CrashVersion ==
    ASSUME TypeOK, NEW n \in synced..Latest, NEW v \in stable,
           NEW files \in SUBSET durDir, Crashed(n, v, files),
           delivered' = delivered, bases' = bases,
           NEW g \in Group, NEW o \in Nat, Behind(g, o),
           o <= v.committed[g] \/ HolderBeyond(g, o)
    PROVE  Behind(g, o)'
<1>1. /\ log \in Seq(Id) /\ Latest = Len(log) /\ n \in Nat /\ n <= Latest
  BY Typed DEF TypeOK, Latest
<1>2. Latest' = n /\ \A x \in Nat : x < n => log'[x + 1] = log[x + 1]
  BY <1>1 DEF Crashed, Latest
<1>3. /\ disowned[g] \subseteq disowned'[g]
      /\ returned[g] \subseteq returned'[g]
      /\ stale[g] \subseteq stale'[g]
      /\ o \in Gone(n) \cup Found(n, files) =>
           o \in disowned'[g] \cup returned'[g] \cup stale'[g]
  BY DEF Crashed
<1>4. CASE o \in Exempt(g)
  BY <1>3, <1>4 DEF Exempt, Behind
<1>5. CASE o \notin Exempt(g) /\ n <= o
  <2>1. o \in Gone(n)
    BY <1>1, <1>5 DEF Behind, Gone
  <2> QED
    BY <1>3, <2>1 DEF Exempt, Behind
<1>6. CASE o \notin Exempt(g) /\ o < n /\ o \notin Readable
  <2>1. CASE o \in Readable'
    <3>1. o \in Held(files)
      <4>1. PICK b \in files : b <= o /\ ~ \E x \in bases : b < x /\ x <= o
        BY <2>1 DEF Readable, Held, EndsBy, Crashed
      <4> QED
        BY <1>1, <1>6, <4>1 DEF Held, EndsBy
    <3>2. o \in Found(n, files)
      BY <1>1, <1>6, <3>1 DEF Found
    <3> QED
      BY <1>3, <3>2 DEF Exempt, Behind
  <2>2. CASE o \notin Readable'
    BY <1>2, <1>6, <2>2 DEF Behind
  <2> QED
    BY <2>1, <2>2
<1>7. CASE o \notin Exempt(g) /\ o < n /\ o \in Readable
  BY <1>2, <1>7 DEF Behind
<1> QED
  BY <1>1, <1>4, <1>5, <1>6, <1>7

(* So does what a batch held through the crash had in hand.                *)
LEMMA CrashInHand ==
    ASSUME TypeOK, NEW n \in synced..Latest, NEW v \in stable,
           NEW files \in SUBSET durDir, Crashed(n, v, files),
           NEW c \in Client, client'[c].batch = client[c].batch,
           NEW o \in Nat, InHand(c, o), HolderBeyond(GroupOf(c), o)
    PROVE  Behind(GroupOf(c), o)' \/ InHand(c, o)'
<1>1. /\ log \in Seq(Id) /\ Latest = Len(log) /\ n \in Nat /\ n <= Latest
      /\ GroupOf(c) \in Group
  BY Typed, RequestTyped DEF TypeOK, Latest
<1>2. Latest' = n /\ \A x \in Nat : x < n => log'[x + 1] = log[x + 1]
  BY <1>1 DEF Crashed, Latest
<1>3. CASE o < n
  BY <1>2, <1>3 DEF InHand
<1>4. CASE ~(o < n)
  <2>1. o \in Gone(n)
    BY <1>1, <1>4 DEF InHand, Gone
  <2>2. o \in stale'[GroupOf(c)]
    BY <1>1, <2>1 DEF Crashed
  <2> QED
    BY <2>2 DEF Exempt, Behind
<1> QED
  BY <1>3, <1>4

(* A crash of the machine leaves no version of groups.json and no batch    *)
(* ahead of what the group has done, but for the offsets it changed.       *)
LEMMA CrashDone ==
    ASSUME TypeOK, DoneInv, OSCrash
    PROVE  DoneInv'
<1>1. PICK n \in synced..Latest, v \in stable, files \in SUBSET durDir :
        Crashed(n, v, files)
  BY CrashedBy
<1>2. client' = Dropped /\ delivered' = delivered /\ bases' = bases
  BY DEF OSCrash
<1>3. VersionsDone'
  <2>1. Versions' = {v} /\ v \in Versions /\ v \in Meta
    BY <1>1 DEF Versions, Crashed, TypeOK
  <2>2. ASSUME NEW g \in Group, NEW o \in Nat, o < v.committed[g] + 1
        PROVE  Behind(g, o)'
    <3>1. v.committed[g] \in Int
      BY <2>1, MaxRecordsAssumption DEF Meta, None
    <3>2. o <= v.committed[g]
      BY <2>2, <3>1
    <3>3. Behind(g, o)
      BY <2>1, <2>2 DEF DoneInv, VersionsDone, DoneTo
    <3> QED
      BY <1>1, <1>2, <3>2, <3>3, CrashVersion
  <2> QED
    BY <2>1, <2>2 DEF VersionsDone, DoneTo
<1>4. ASSUME NEW c \in Client
      PROVE  ClientDone(c)'
  <2> DEFINE g == GroupOf(c)
  <2>1. g \in Group /\ client[c] \in ClientState /\ ClientDone(c)
    BY RequestTyped DEF DoneInv
  <2>2. CASE client[c].at \notin {"holding", "validated"}
    <3>1. client'[c] = Idle
      BY <1>2, <2>1, <2>2 DEF Dropped, ClientState, Phase, ClientDone
    <3> QED
      BY <3>1, IdleDone
  <2>3. CASE client[c].at \in {"holding", "validated"}
    <3>1. /\ client'[c].at = "holding" /\ client'[c].pos = client[c].pos
          /\ client'[c].batch = client[c].batch
      BY <1>2, <2>1, <2>3 DEF Dropped, ClientState
    <3>2. ASSUME NEW o \in Nat, o < client[c].pos
          PROVE  Behind(g, o)' \/ InHand(c, o)'
      <4>1. HolderBeyond(g, o)
        BY <2>3, <3>2 DEF HolderBeyond
      <4>2. Behind(g, o) \/ InHand(c, o)
        BY <2>1, <3>2 DEF ClientDone
      <4>3. CASE Behind(g, o)
        BY <1>1, <1>2, <2>1, <4>1, <4>3, CrashVersion
      <4>4. CASE InHand(c, o)
        BY <1>1, <3>1, <4>1, <4>4, CrashInHand
      <4> QED
        BY <4>2, <4>3, <4>4
    <3> QED
      BY <3>1, <3>2 DEF ClientDone
  <2> QED
    BY <2>2, <2>3
<1> QED
  BY <1>3, <1>4 DEF DoneInv

(* With clients that commit what they processed, no interleaving, crash or *)
(* failed save makes a group's offset, in memory or in any groups.json a   *)
(* restart may find, run ahead of what the group has done.                 *)
LEMMA DoneStep ==
    ASSUME ~AnyCommit, TypeOK, DoneInv, [Next]_vars
    PROVE  DoneInv'
<1>1. CASE ~OSCrash
  <2>1. Onward
    BY <1>1, StepOnward
  <2>2. ASSUME NEW c \in Client
        PROVE  ClientDone(c)'
    BY <2>1, <2>2, ClientsKept, KeptDone, FetchDone, CheckDone DEF DoneInv
  <2>3. ASSUME NEW v \in Versions', NEW g \in Group
        PROVE  \A o \in Nat : o < v.committed[g] + 1 => Behind(g, o)'
    <3>1. CASE \E u \in Versions : v.committed[g] = u.committed[g]
      BY <2>1, <3>1, BehindStays DEF DoneInv, VersionsDone, DoneTo
    <3>2. CASE \E c \in Client : /\ client[c].at = "validated"
                                 /\ g = GroupOf(c)
                                 /\ v.committed[g] = client[c].off
      BY <2>1, <3>2, ValidatedDone, BehindStays DEF DoneInv, DoneTo
    <3> QED
      BY <2>3, <3>1, <3>2, VersionsFrom
  <2>4. VersionsDone'
    BY <2>3 DEF VersionsDone, DoneTo
  <2> QED
    BY <2>2, <2>4 DEF DoneInv
<1>2. CASE OSCrash
  BY <1>2, CrashDone
<1> QED
  BY <1>1, <1>2

(* It holds of an empty log and groups without offsets.                    *)
LEMMA DoneInit ==
    ASSUME Init
    PROVE  DoneInv
<1>1. \A v \in Versions : \A g \in Group : v.committed[g] = -1
  BY DEF Init, Versions, NoGroups, None
<1>2. \A c \in Client : ClientDone(c)
  BY DEF Init, ClientDone, Idle
<1> QED
  BY <1>1, <1>2 DEF DoneInv, VersionsDone, DoneTo

(* A committed offset says what it means: every readable record at or      *)
(* below it was processed by the group.  The exceptions are the offsets    *)
(* that a crash of the machine changed under this very group: lost after   *)
(* it had committed them, brought back below its cursor, or changed below  *)
(* a batch that one of its clients held through the crash.  The premise is *)
(* how cmd/demo commits: next_offset - 1 of the batch it processed.        *)
THEOREM CommittedWasProcessed == ~AnyCommit => (Spec => []AtLeastOnce)
<1> SUFFICES ASSUME ~AnyCommit
             PROVE  Spec => []AtLeastOnce
  OBVIOUS
<1>1. Init => DoneInv
  BY DoneInit
<1>2. TypeOK /\ DoneInv /\ [Next]_vars => DoneInv'
  BY DoneStep
<1>3. TypeOK /\ DoneInv => AtLeastOnce
  <2> SUFFICES ASSUME TypeOK, DoneInv, NEW g \in Group, NEW o \in Passed(g)
               PROVE  log[o + 1] \in delivered[g] \/ o \in Exempt(g)
    BY DEF AtLeastOnce
  <2>1. o \in Readable /\ o \in Nat /\ o <= groups.committed[g]
    BY ReadableTyped DEF Passed
  <2>2. groups.committed[g] \in Int
    BY MaxRecordsAssumption DEF TypeOK, Meta, None
  <2>3. o < groups.committed[g] + 1
    BY <2>1, <2>2
  <2>4. Behind(g, o)
    BY <2>1, <2>3 DEF DoneInv, VersionsDone, Versions, DoneTo
  <2> QED
    BY <2>1, <2>4 DEF Behind
<1> QED
  BY <1>1, <1>2, <1>3, CursorTypeCorrect, PTL DEF Spec

-----------------------------------------------------------------------------
(* Negative lag.  Again the versions of groups.json decide, and the        *)
(* offsets validated by requests in flight; no matter what clients commit. *)
Owned(v, g) == v.committed[g] < Latest \/ v.committed[g] \in disowned[g]

LossInv ==
    /\ \A v \in Versions : \A g \in Group : Owned(v, g)
    /\ \A c \in Client : client[c].at = "validated" => client[c].off < Latest

(* Only a crash of the machine shortens the log; other steps leave the     *)
(* offsets it took as they are.                                            *)
LEMMA LogGrows ==
    ASSUME TypeOK, [Next]_vars, ~OSCrash
    PROVE  Latest <= Latest' /\ disowned' = disowned
<1>1. log \in Seq(Id) /\ Latest \in Nat
  BY DEF TypeOK, Latest
<1>2. ASSUME UNCHANGED <<log, disowned>>
      PROVE  Latest <= Latest' /\ disowned' = disowned
  BY <1>1, <1>2 DEF Latest
<1>3. CASE \E roll \in BOOLEAN, acks \in {"none", "leader"} :
              AppendRecord(roll, acks)
  <2>1. log' = Append(log, nextId) /\ disowned' = disowned /\ nextId \in Id
    BY <1>3 DEF AppendRecord, history, exempt, TypeOK, Id
  <2> QED
    BY <1>1, <2>1 DEF Latest
<1>4. ASSUME NEW c \in Client,
             \/ Join(c) \/ Join_Fail(c) \/ Join_SyncFail(c)
             \/ FetchStep(c) \/ CommitStep(c)
             \/ Commit_WriteFail(c) \/ Commit_SyncFail(c)
             \/ Client_Restart(c)
      PROVE  UNCHANGED <<log, disowned>>
  BY <1>4 DEF Join, Join_Fail, Join_SyncFail, FetchStep, Fetch_Snapshot,
     Fetch_Offsets, Fetch_Read, CommitStep, Commit_Check, Commit_Write,
     Commit_NotJoined, Commit_WriteFail, Commit_SyncFail, Client_Restart,
     partition, history, exempt
<1>5. ASSUME Pass_Snapshot \/ Pass_Delete \/ Pass_Fail \/ ProcessCrash
             \/ UNCHANGED vars
      PROVE  UNCHANGED <<log, disowned>>
  BY <1>5 DEF Pass_Snapshot, Pass_Delete, Pass_Fail, ProcessCrash, vars,
     partition, history, exempt
<1> QED
  BY <1>2, <1>3, <1>4, <1>5 DEF Next

(* A step that keeps the log keeps every offset within it, or disowned.    *)
LEMMA LossStep ==
    ASSUME TypeOK, TypeOK', LossInv, [Next]_vars, ~OSCrash
    PROVE  LossInv'
<1>1. /\ Latest <= Latest' /\ disowned' = disowned
      /\ Latest \in Nat /\ Latest' \in Nat
  BY LogGrows, Typed, TypedNext
<1>2. ASSUME NEW v \in Versions, NEW g \in Group
      PROVE  /\ v.committed[g] \in Int
             /\ v.committed[g] < Latest' \/ v.committed[g] \in disowned'[g]
  <2>1. v \in Meta
    BY DEF Versions, TypeOK
  <2>2. v.committed[g] \in Int
    BY <2>1, MaxRecordsAssumption DEF Meta, None
  <2> QED
    BY <1>1, <2>2 DEF LossInv, Owned
<1>3. ASSUME NEW c \in Client, client[c].at = "validated"
      PROVE  client[c].off < Latest'
  BY <1>1, <1>3, RequestTyped DEF LossInv
<1>4. ASSUME NEW v \in Versions', NEW g \in Group
      PROVE  v.committed[g] < Latest' \/ v.committed[g] \in disowned'[g]
  BY <1>2, <1>3, <1>4, VersionsFrom
<1>5. ASSUME NEW c \in Client, client'[c].at = "validated"
      PROVE  client'[c].off < Latest'
  <2>1. CASE Kept(c)
    <3>1. Idle.at # "validated" /\ Retried(client[c]).at # "validated"
      BY RequestTyped DEF Idle, Retried, ClientState
    <3>2. client'[c] = client[c]
      BY <1>5, <2>1, <3>1 DEF Kept
    <3> QED
      BY <1>3, <1>5, <3>2
  <2>2. CASE FetchStep(c)
    <3>1. Idle.at # "validated" /\ client[c] \in ClientState
      BY RequestTyped DEF Idle
    <3>2. ASSUME Fetch_Snapshot(c) PROVE client'[c].at # "validated"
      BY <3>1, <3>2 DEF Fetch_Snapshot, TypeOK, ClientState
    <3>3. ASSUME Fetch_Offsets(c) PROVE client'[c].at # "validated"
      BY <3>1, <3>3 DEF Fetch_Offsets, TypeOK, Idle
    <3>4. ASSUME Fetch_Read(c) PROVE client'[c].at # "validated"
      <4>1. CASE client' = [client EXCEPT ![c] = Idle]
        BY <3>1, <4>1 DEF TypeOK
      <4>2. ASSUME NEW n, NEW b,
                   client' = [client EXCEPT ![c].at = "holding",
                                            ![c].pos = n, ![c].batch = b]
            PROVE  client'[c].at # "validated"
        BY <3>1, <4>2 DEF TypeOK, ClientState
      <4> QED
        BY <3>4, <4>1, <4>2 DEF Fetch_Read
    <3> QED
      BY <1>5, <2>2, <3>2, <3>3, <3>4 DEF FetchStep
  <2>3. CASE Commit_Check(c)
    <3>1. PICK off \in CommitChoice(c) :
            client' = [client EXCEPT ![c] =
                         IF 0 <= off /\ off < Latest
                         THEN [@ EXCEPT !.at = "validated", !.off = off]
                         ELSE Idle]
      BY <2>3 DEF Commit_Check
    <3>2. off < Latest /\ client'[c].off = off
      BY <1>5, <3>1, RequestTyped DEF Idle, TypeOK, ClientState
    <3>3. Latest' = Latest
      BY <2>3 DEF Commit_Check, partition, Latest
    <3> QED
      BY <3>2, <3>3
  <2> QED
    BY <2>1, <2>2, <2>3, ClientsKept
<1> QED
  BY <1>4, <1>5 DEF LossInv, Owned

(* A crash of the machine disowns what the version it finds had committed. *)
LEMMA LossCrash ==
    ASSUME TypeOK, LossInv, OSCrash
    PROVE  LossInv'
<1>1. PICK n \in synced..Latest, v \in stable :
        /\ log' = SubSeq(log, 1, n)
        /\ groups' = v /\ saved' = v /\ stable' = {v}
        /\ disowned' = [g \in Group |->
                          disowned[g] \cup
                            {o \in n..(Latest - 1) : o <= v.committed[g]}]
  BY CrashedBy DEF Crashed, Gone
<1>2. log \in Seq(Id) /\ Latest = Len(log) /\ n \in Nat /\ n <= Latest
  BY Typed DEF TypeOK, Latest
<1>3. Latest' = n
  BY <1>1, <1>2 DEF Latest
<1>4. ASSUME NEW g \in Group
      PROVE  v.committed[g] < n \/ v.committed[g] \in disowned'[g]
  <2>1. v \in Meta
    BY DEF TypeOK
  <2>2. v.committed[g] \in Int
    BY <2>1, MaxRecordsAssumption DEF Meta, None
  <2>3. v.committed[g] < Latest \/ v.committed[g] \in disowned[g]
    BY DEF LossInv, Owned, Versions
  <2> QED
    BY <1>1, <1>2, <2>2, <2>3
<1>5. \A c \in Client : client'[c].at # "validated"
  <2>1. client' = Dropped
    BY DEF OSCrash
  <2> QED
    BY <2>1, RequestTyped DEF Dropped, Idle, ClientState
<1>6. Versions' = {v}
  BY <1>1 DEF Versions
<1> QED
  BY <1>3, <1>4, <1>5, <1>6 DEF LossInv, Owned

(* A cursor beyond the end of the log proves that a crash of the machine   *)
(* took the record the group had committed: the negative lag that the      *)
(* broker reports has no other cause, whatever offsets clients commit.     *)
THEOREM LagIsEvidence == Spec => []NegativeLagMeansLoss
<1>1. Init => LossInv
  <2>1. ASSUME Init
        PROVE  LossInv
    BY <2>1 DEF Init, LossInv, Owned, Versions, NoGroups, None, Latest, Idle
  <2> QED
    BY <2>1
<1>2. TypeOK /\ TypeOK' /\ LossInv /\ [Next]_vars => LossInv'
  BY LossStep, LossCrash
<1>3. TypeOK /\ LossInv => NegativeLagMeansLoss
  <2> SUFFICES ASSUME TypeOK, LossInv, NEW g \in Group,
                      groups.committed[g] >= Latest
               PROVE  groups.committed[g] \in disowned[g]
    BY DEF NegativeLagMeansLoss
  <2>1. groups.committed[g] \in Int /\ Latest \in Nat
    BY Typed, MaxRecordsAssumption DEF TypeOK, Meta, None
  <2> QED
    BY <2>1 DEF LossInv, Owned, Versions
<1> QED
  BY <1>1, <1>2, <1>3, CursorTypeCorrect, PTL DEF Spec
=============================================================================
