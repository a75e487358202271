------------------------------ MODULE Catalog ------------------------------
(***************************************************************************)
(* The topic catalog: CreateTopic, saveCatalog and OpenWithConfig          *)
(* (storage/topic.go) over a data directory whose entries become durable   *)
(* only when their parent is synced.                                       *)
(*                                                                         *)
(* CreateTopic holds b.mu throughout, so at most one is in progress; every *)
(* system call of it may fail, and a crash may come between any two.       *)
(* A topic's directory is "none", "partial" (some of its partitions, or    *)
(* not all of its files synced), "whole" (all of it synced, but not its    *)
(* entry in topics/) or "durable".  Reads and writes of partitions are in  *)
(* PartitionLog; here a topic has acknowledged records or has not.         *)
(***************************************************************************)
EXTENDS Naturals

CONSTANTS
    Topic,          \* topic names
    NoTopic,        \* no topic
    MaxFaults       \* bound: crashes and failed system calls

ASSUME TopicAssumption == NoTopic \notin Topic
ASSUME MaxFaultsAssumption == MaxFaults \in Nat

DirState == {"none", "partial", "whole", "durable"}

VARIABLES
    status,         \* "open", "down", or "refused" when OpenWithConfig failed
    topics,         \* b.topics
    pc, creating,   \* next step of the CreateTopic in progress, and its topic
    directory,      \* each topic's directory in topics/
    catalog,        \* what topics.json holds
    stable,         \* what it may hold after an operating system crash
    faults,         \* faults so far
    \* History.
    created,        \* topics whose creation was acknowledged
    written         \* topics with a record acknowledged with acks=1

broker == <<status, topics>>
create == <<pc, creating>>
disk == <<directory, catalog, stable>>
history == <<created, written>>
vars == <<broker, create, disk, faults, history>>

(* An initialised, empty data directory whose own entries are durable.     *)
Init ==
    /\ status = "open" /\ topics = {}
    /\ pc = "idle" /\ creating = NoTopic
    /\ directory = [t \in Topic |-> "none"]
    /\ catalog = {} /\ stable = {{}}
    /\ faults = 0
    /\ created = {} /\ written = {}

Fault == faults < MaxFaults /\ faults' = faults + 1
Done == pc' = "idle" /\ creating' = NoTopic

-----------------------------------------------------------------------------
(* CreateTopic.                                                            *)

(* Mutant: neither the catalog nor the disk is asked whether t exists.     *)
Create_Start_Unchecked(t) ==
    /\ status = "open" /\ pc = "idle"
    /\ pc' = "partitions" /\ creating' = t
    /\ UNCHANGED <<broker, disk, faults, history>>

(* Not registered, and no directory of that name on disk.                  *)
Create_Start(t) ==
    /\ status = "open" /\ pc = "idle"
    /\ t \notin topics
    /\ directory[t] = "none"
    /\ pc' = "partitions" /\ creating' = t
    /\ UNCHANGED <<broker, disk, faults, history>>

(* The partition directories and their files: created and synced one after *)
(* the other.                                                              *)
Create_Partitions ==
    /\ pc = "partitions"
    /\ directory' = [directory EXCEPT
                       ![creating] = IF @ = "none" THEN "partial" ELSE "whole"]
    /\ pc' = IF directory[creating] = "none" THEN "partitions" ELSE "sync"
    /\ UNCHANGED <<broker, creating, catalog, stable, faults, history>>

(* Mutant: the topic's entry in topics/ is not synced.                     *)
Create_Sync_NotTopics ==
    /\ pc = "sync" /\ pc' = "publish"
    /\ UNCHANGED <<broker, creating, disk, faults, history>>

(* The syncs of the topic's directory and of topics/.                      *)
Create_Sync ==
    /\ pc = "sync"
    /\ directory' = [directory EXCEPT ![creating] = "durable"]
    /\ pc' = "publish"
    /\ UNCHANGED <<broker, creating, catalog, stable, faults, history>>

(* Mutant: the rename of topics.json is not followed by a directory sync.  *)
Publish_NoDirSync ==
    /\ pc = "publish"
    /\ catalog' = topics \cup {creating}
    /\ stable' = stable \cup {catalog'}
    /\ topics' = topics \cup {creating}
    /\ created' = created \cup {creating}
    /\ Done
    /\ UNCHANGED <<status, directory, faults, written>>

(* saveCatalog succeeds; the topic becomes visible and is acknowledged.    *)
Publish ==
    /\ pc = "publish"
    /\ catalog' = topics \cup {creating}
    /\ stable' = {catalog'}
    /\ topics' = topics \cup {creating}
    /\ created' = created \cup {creating}
    /\ Done
    /\ UNCHANGED <<status, directory, faults, written>>

(* Mutant: the topic stays registered although its save failed.            *)
Create_Fail_Exposed ==
    /\ pc # "idle"
    /\ Fault
    /\ topics' = IF pc = "publish" THEN topics \cup {creating} ELSE topics
    /\ Done
    /\ UNCHANGED <<status, disk, history>>

(* A step before the rename of topics.json fails; directories stay behind. *)
Create_Fail ==
    /\ pc # "idle"
    /\ Fault
    /\ Done
    /\ UNCHANGED <<broker, disk, history>>

(* The directory sync after the rename fails: the error is returned, and   *)
(* topics.json may or may not list the topic after a restart.              *)
Publish_SyncFail ==
    /\ pc = "publish"
    /\ Fault
    /\ catalog' = topics \cup {creating}
    /\ stable' = stable \cup {catalog'}
    /\ Done
    /\ UNCHANGED <<broker, directory, created, written>>

(* Produce with acks=1 to a topic the broker knows.                        *)
Produce(t) ==
    /\ status = "open" /\ pc = "idle"
    /\ t \in topics
    /\ written' = written \cup {t}
    /\ UNCHANGED <<broker, create, disk, faults, created>>

-----------------------------------------------------------------------------
Down == status' = "down" /\ topics' = {} /\ Done

ProcessCrash ==
    /\ status = "open"
    /\ Fault
    /\ Down
    /\ UNCHANGED <<disk, history>>

(* What may be left of a directory: one that is there after the crash is   *)
(* on disk.                                                                *)
Survives(state) ==
    CASE state = "partial" -> {"none", "partial"}
      [] state = "whole" -> {"none", "partial", "durable"}
      [] OTHER -> {state}

OSCrash ==
    /\ status = "open"
    /\ Fault
    /\ directory' \in {d \in [Topic -> DirState] :
                         \A t \in Topic : d[t] \in Survives(directory[t])}
    /\ \E v \in stable : catalog' = v /\ stable' = {v}
    /\ Down
    /\ UNCHANGED history

(* OpenWithConfig: a topic of the catalog whose logs are missing is fatal. *)
Open ==
    /\ status = "down"
    /\ IF \A t \in catalog : directory[t] \in {"whole", "durable"}
       THEN status' = "open" /\ topics' = catalog
       ELSE status' = "refused" /\ UNCHANGED topics
    /\ UNCHANGED <<create, disk, faults, history>>

Next ==
    \/ \E t \in Topic : Create_Start(t) \/ Produce(t)
    \/ Create_Partitions \/ Create_Sync \/ Create_Fail
    \/ Publish \/ Publish_SyncFail
    \/ ProcessCrash \/ OSCrash \/ Open

Spec == Init /\ [][Next]_vars

-----------------------------------------------------------------------------
(* Every variable has its type, and a topic in creation is a new one.      *)
TypeOK ==
    /\ status \in {"open", "down", "refused"}
    /\ topics \in SUBSET Topic
    /\ pc \in {"idle", "partitions", "sync", "publish"}
    /\ creating \in IF pc = "idle" THEN {NoTopic} ELSE Topic \ topics
    /\ directory \in [Topic -> DirState]
    /\ catalog \in SUBSET Topic /\ stable \in SUBSET SUBSET Topic
    /\ faults \in 0..MaxFaults
    /\ created \in SUBSET Topic /\ written \in SUBSET Topic

(* A topic whose creation was acknowledged is there whenever the broker    *)
(* runs, whatever failed or crashed in between.                            *)
CreatedSurvives == status = "open" => created \subseteq topics

(* The broker never refuses to start for a topic whose logs are missing:   *)
(* no version of topics.json names a topic before its logs are durable.    *)
NeverRefused == status # "refused"

(* The running broker serves exactly one of the versions topics.json may   *)
(* hold after a crash: no topic is exposed whose publication cannot have   *)
(* reached the disk (FORMAT.md, section 2).                                *)
ServesPublished == status = "open" => topics \in stable

(* A record acknowledged with acks=1 is there after any restart of the     *)
(* machine, as DURABILITY.md says of acks=1: so is its topic.              *)
WrittenSurvives == status = "open" => written \subseteq topics
=============================================================================
