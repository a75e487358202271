---------------------------- MODULE CatalogProofs --------------------------
(***************************************************************************)
(* Proofs about the topic catalog, for any number of topics and faults.    *)
(*                                                                         *)
(* The argument follows the order of CreateTopic: a version of topics.json *)
(* that may be found after a crash names only topics whose directories are *)
(* durable (StableDurable), because the one that is being added is synced  *)
(* before it is published (DirectoryKnown) and nobody touches a directory  *)
(* that is named already; and every such version has all the topics that   *)
(* were acknowledged (StableHasCreated), because the next version is built *)
(* from the topics the broker serves, which are one of them.               *)
(***************************************************************************)
EXTENDS Catalog, TLAPS

StableDurable ==
    \A v \in stable : \A t \in v : directory[t] = "durable"

StableHasCreated == \A v \in stable : created \subseteq v

CatalogStable == catalog \in stable

(* CreateTopic works on a directory no version names, until it is durable. *)
DirectoryKnown ==
    /\ pc \in {"partitions", "sync"} => directory[creating] # "durable"
    /\ pc = "publish" => directory[creating] = "durable"

OpenToCreate == pc # "idle" => status = "open"

CInv == /\ TypeOK /\ StableDurable /\ StableHasCreated /\ CatalogStable
        /\ DirectoryKnown /\ OpenToCreate /\ NeverRefused /\ ServesPublished

-----------------------------------------------------------------------------
LEMMA CatalogInit == Init => CInv
<1> SUFFICES ASSUME Init PROVE CInv
  OBVIOUS
<1>1. TypeOK
  BY MaxFaultsAssumption DEF Init, TypeOK, DirState
<1> QED
  BY <1>1 DEF Init, CInv, StableDurable, StableHasCreated, CatalogStable,
              DirectoryKnown, OpenToCreate, NeverRefused, ServesPublished

(* CreateTopic before it publishes: only the directory of a topic that no  *)
(* version names changes.                                                  *)
LEMMA CreateStep ==
    ASSUME CInv,
           \/ \E t \in Topic : Create_Start(t)
           \/ Create_Partitions \/ Create_Sync \/ Create_Fail
    PROVE  CInv'
<1> USE DEF broker, create, disk, history
<1>1. /\ UNCHANGED <<status, topics, catalog, stable, history>>
      /\ status = "open"
      /\ pc' = "idle" \/ creating' \notin topics
      /\ \/ directory' = directory
         \/ /\ pc \in {"partitions", "sync"}
            /\ \E s \in DirState :
                  directory' = [directory EXCEPT ![creating] = s]
  BY DEF CInv, TypeOK, OpenToCreate, DirState, Done, Create_Start,
         Create_Partitions, Create_Sync, Create_Fail
<1>2. TypeOK'
  <2>1. /\ pc' \in {"idle", "partitions", "sync", "publish"}
        /\ creating' \in IF pc' = "idle" THEN {NoTopic} ELSE Topic \ topics
        /\ faults' \in 0..MaxFaults
    BY MaxFaultsAssumption
       DEF CInv, TypeOK, Create_Start, Create_Partitions, Create_Sync,
           Create_Fail, Fault, Done
  <2>2. directory' \in [Topic -> DirState]
    BY <1>1 DEF CInv, TypeOK
  <2> QED
    BY <1>1, <2>1, <2>2 DEF CInv, TypeOK
<1>3. StableDurable'
  <2>1. CASE directory' = directory
    BY <1>1, <2>1 DEF CInv, StableDurable
  <2>2. CASE /\ pc \in {"partitions", "sync"}
             /\ \E s \in DirState :
                   directory' = [directory EXCEPT ![creating] = s]
    <3>1. \A v \in stable : creating \notin v
      BY <2>2 DEF CInv, StableDurable, DirectoryKnown
    <3> QED
      BY <1>1, <2>2, <3>1 DEF CInv, TypeOK, StableDurable
  <2> QED
    BY <1>1, <2>1, <2>2
<1>4. DirectoryKnown'
  <2>1. CASE \E t \in Topic : Create_Start(t)
    BY <2>1 DEF Create_Start, DirectoryKnown
  <2>2. CASE Create_Partitions
    BY <2>2 DEF Create_Partitions, DirectoryKnown, CInv, TypeOK
  <2>3. CASE Create_Sync
    BY <2>3 DEF Create_Sync, DirectoryKnown, CInv, TypeOK
  <2>4. CASE Create_Fail
    BY <2>4 DEF Create_Fail, Done, DirectoryKnown
  <2> QED
    BY <2>1, <2>2, <2>3, <2>4
<1> QED
  BY <1>1, <1>2, <1>3, <1>4
     DEF CInv, StableHasCreated, CatalogStable, OpenToCreate, NeverRefused,
         ServesPublished

(* The rename of topics.json: the new version has the topics that are      *)
(* served and the new one, whose directory is durable.                     *)
LEMMA PublishStep ==
    ASSUME CInv, Publish \/ Publish_SyncFail
    PROVE  CInv'
<1> USE DEF broker, create, disk, history
<1>1. /\ status = "open" /\ creating \in Topic /\ creating \notin topics
      /\ directory[creating] = "durable" /\ topics \in stable
      /\ created \subseteq topics
      /\ \A t \in topics : directory[t] = "durable"
  BY DEF CInv, TypeOK, OpenToCreate, DirectoryKnown, StableDurable,
         ServesPublished, StableHasCreated, Publish, Publish_SyncFail
<1>2. /\ status' = status /\ directory' = directory /\ pc' = "idle"
      /\ creating' = NoTopic /\ written' = written
      /\ catalog' = topics \cup {creating}
  BY DEF Publish, Publish_SyncFail, Done
<1>3. \/ /\ stable' = {catalog'} /\ topics' = catalog'
         /\ created' = created \cup {creating} /\ faults' = faults
      \/ /\ stable' = stable \cup {catalog'} /\ topics' = topics
         /\ created' = created /\ Fault
  BY DEF Publish, Publish_SyncFail
<1>4. TypeOK'
  BY <1>1, <1>2, <1>3, MaxFaultsAssumption DEF CInv, TypeOK, Fault
<1>5. StableDurable' /\ StableHasCreated' /\ CatalogStable'
  BY <1>1, <1>2, <1>3
     DEF CInv, StableDurable, StableHasCreated, CatalogStable
<1>6. ServesPublished'
  BY <1>1, <1>2, <1>3 DEF ServesPublished
<1> QED
  BY <1>1, <1>2, <1>4, <1>5, <1>6
     DEF CInv, DirectoryKnown, OpenToCreate, NeverRefused

(* A crash leaves a version of topics.json and every durable directory.    *)
LEMMA CrashStep ==
    ASSUME CInv, ProcessCrash \/ OSCrash
    PROVE  CInv'
<1> USE DEF broker, create, disk, history
<1>1. /\ status' = "down" /\ topics' = {} /\ pc' = "idle"
      /\ creating' = NoTopic /\ UNCHANGED <<created, written>> /\ Fault
  BY DEF ProcessCrash, OSCrash, Down, Done
<1>2. /\ stable' \subseteq stable /\ catalog' \in stable'
      /\ directory' \in [Topic -> DirState]
      /\ \A t \in Topic :
            directory[t] = "durable" => directory'[t] = "durable"
  <2>1. CASE ProcessCrash
    BY <2>1 DEF ProcessCrash, CInv, TypeOK, CatalogStable
  <2>2. CASE OSCrash
    BY <2>2 DEF OSCrash, Survives
  <2> QED
    BY <2>1, <2>2
<1>3. TypeOK'
  BY <1>1, <1>2, MaxFaultsAssumption DEF CInv, TypeOK, Fault
<1>4. StableDurable' /\ StableHasCreated' /\ CatalogStable'
  BY <1>1, <1>2
     DEF CInv, TypeOK, StableDurable, StableHasCreated, CatalogStable
<1> QED
  BY <1>1, <1>3, <1>4
     DEF CInv, DirectoryKnown, OpenToCreate, NeverRefused, ServesPublished

(* OpenWithConfig finds the logs of every topic that topics.json names.    *)
LEMMA OpenStep ==
    ASSUME CInv, Open
    PROVE  CInv'
<1> USE DEF broker, create, disk, history
<1>1. \A t \in catalog : directory[t] = "durable"
  BY DEF CInv, CatalogStable, StableDurable
<1>2. /\ status' = "open" /\ topics' = catalog
      /\ UNCHANGED <<pc, creating, directory, catalog, stable, faults,
                     created, written>>
  BY <1>1 DEF Open
<1>3. pc = "idle"
  BY DEF CInv, TypeOK, OpenToCreate, Open
<1> QED
  BY <1>2, <1>3
     DEF CInv, TypeOK, StableDurable, StableHasCreated, CatalogStable,
         DirectoryKnown, OpenToCreate, NeverRefused, ServesPublished

LEMMA OtherStep ==
    ASSUME CInv, (\E t \in Topic : Produce(t)) \/ UNCHANGED vars
    PROVE  CInv'
  BY DEF CInv, TypeOK, StableDurable, StableHasCreated, CatalogStable,
         DirectoryKnown, OpenToCreate, NeverRefused, ServesPublished,
         Produce, vars, broker, create, disk, history

(* What always holds of topics.json, the directories and the topics that   *)
(* the broker serves, wherever a call fails or a crash comes.              *)
THEOREM CatalogInductive == Spec => []CInv
<1>1. CInv /\ [Next]_vars => CInv'
  BY CreateStep, PublishStep, CrashStep, OpenStep, OtherStep DEF Next
<1> QED
  BY CatalogInit, <1>1, PTL DEF Spec

(* Every variable keeps its type, and a topic in creation is a new one.    *)
THEOREM CatalogTyped == Spec => []TypeOK
<1>1. CInv => TypeOK
  BY DEF CInv
<1> QED
  BY CatalogInductive, <1>1, PTL

(* A broker that runs has every topic whose creation was acknowledged.     *)
THEOREM CreatedTopicsSurvive == Spec => []CreatedSurvives
<1>1. CInv => CreatedSurvives
  BY DEF CInv, CreatedSurvives, ServesPublished, StableHasCreated
<1> QED
  BY CatalogInductive, <1>1, PTL

(* No crash leaves a catalog that the broker refuses to open.              *)
THEOREM AlwaysOpens == Spec => []NeverRefused
<1>1. CInv => NeverRefused
  BY DEF CInv
<1> QED
  BY CatalogInductive, <1>1, PTL

(* The topics a broker serves are those of a version that may be found     *)
(* after a crash.                                                          *)
THEOREM ServedIsPublished == Spec => []ServesPublished
<1>1. CInv => ServesPublished
  BY DEF CInv
<1> QED
  BY CatalogInductive, <1>1, PTL
=============================================================================
