----------------------------- MODULE Membership -----------------------------
(***************************************************************************)
(* Static membership of one consumer group in one topic: JoinGroup, the    *)
(* member lookup of FetchGroup, and groups.json (storage/group.go).        *)
(*                                                                         *)
(* A join is one step: gmu is held from the lookup to the end of the save. *)
(* It may fail before the rename of groups.json took effect or after it.   *)
(* A member name is a number: k > 0 stands for "member-k" as far as the    *)
(* broker invents such names, larger numbers for all others, and 0 for the *)
(* empty name of a client that leaves the choice to the broker.            *)
(***************************************************************************)
EXTENDS Integers, Sequences, FiniteSets

CONSTANTS
    Client,         \* consumer processes
    Size,           \* group sizes that clients declare
    Chosen,         \* member names that clients ask for
    NumPartitions,  \* partitions of the topic
    MaxFaults       \* bound: crashes and failed saves

ASSUME SizeAssumption == Size \subseteq Nat \ {0}
ASSUME ChosenAssumption == Chosen \subseteq Nat \ {0}
ASSUME NumPartitionsAssumption == NumPartitions \in Nat
ASSUME MaxFaultsAssumption == MaxFaults \in Nat

Anonymous == 0
Unset == 0                                \* no client has declared a size
Name == Chosen \cup UNION {1..s : s \in Size}
Partition == 0..(NumPartitions - 1)

VARIABLES
    topic,          \* the broker's groupTopic: declared size, members in order
    saved,          \* what groups.json holds
    stable,         \* what it may hold after an operating system crash
    assignment,     \* each client's last join response: its name and ordinal
    faults          \* faults so far

vars == <<topic, saved, stable, assignment, faults>>

NoTopic == [size |-> Unset, members |-> <<>>]
NoAssignment == [name |-> Anonymous, ordinal |-> -1]

Init ==
    /\ topic = NoTopic /\ saved = NoTopic /\ stable = {NoTopic}
    /\ assignment = [c \in Client |-> NoAssignment]
    /\ faults = 0

Fault == faults < MaxFaults /\ faults' = faults + 1

(* The first ordinal with that name, -1 if there is none.                  *)
Lookup(members, name) ==
    LET at == {i \in DOMAIN members : members[i] = name} IN
    IF at = {} THEN -1 ELSE (CHOOSE i \in at : \A j \in at : i <= j) - 1

-----------------------------------------------------------------------------
(* What a join adds: a known member nothing, a new one the next ordinal.   *)
Resolve(name) == IF name = Anonymous THEN Len(topic.members) + 1 ELSE name

Enlisted(name, size) ==
    IF Lookup(topic.members, name) >= 0 THEN topic
    ELSE [size |-> size, members |-> Append(topic.members, Resolve(name))]

OrdinalOf(name) ==
    IF Lookup(topic.members, name) >= 0 THEN Lookup(topic.members, name)
    ELSE Len(topic.members)

(* Mutant: the check against the declared size is off by one.              *)
MayJoin_OneMore(name, size) ==
    /\ topic.size \in {Unset, size}
    /\ Lookup(topic.members, name) >= 0 \/ Len(topic.members) <= size

(* JoinGroup answers ErrGroupConflict to a different size and to a new     *)
(* member of a full group.                                                 *)
MayJoin(name, size) ==
    /\ topic.size \in {Unset, size}
    /\ Lookup(topic.members, name) >= 0 \/ Len(topic.members) < size

(* Mutant: a member that is known already needs no save.                   *)
Join_RejoinUnsaved(c, name, size) ==
    /\ MayJoin(name, size)
    /\ topic' = Enlisted(name, size)
    /\ IF topic' = topic THEN UNCHANGED <<saved, stable>>
       ELSE saved' = topic' /\ stable' = {topic'}
    /\ assignment' = [assignment EXCEPT
                        ![c] = [name |-> Resolve(name),
                                ordinal |-> OrdinalOf(name)]]
    /\ UNCHANGED faults

Join(c, name, size) ==
    /\ MayJoin(name, size)
    /\ topic' = Enlisted(name, size)
    /\ saved' = topic' /\ stable' = {topic'}
    /\ assignment' = [assignment EXCEPT
                        ![c] = [name |-> Resolve(name),
                                ordinal |-> OrdinalOf(name)]]
    /\ UNCHANGED faults

(* The save fails: the client gets an error, the member stays in memory.   *)
Join_Fail(name, size) ==
    /\ Fault
    /\ MayJoin(name, size)
    /\ topic' = Enlisted(name, size)
    /\ UNCHANGED <<saved, stable, assignment>>

Join_SyncFail(name, size) ==
    /\ Fault
    /\ MayJoin(name, size)
    /\ topic' = Enlisted(name, size)
    /\ saved' = topic' /\ stable' = stable \cup {topic'}
    /\ UNCHANGED assignment

-----------------------------------------------------------------------------
(* A consumer process ends; its name stays a member.                       *)
Client_Stop(c) ==
    /\ assignment[c] # NoAssignment
    /\ assignment' = [assignment EXCEPT ![c] = NoAssignment]
    /\ UNCHANGED <<topic, saved, stable, faults>>

(* The broker restarts and loads groups.json.                              *)
ProcessCrash ==
    /\ Fault
    /\ topic' = saved
    /\ UNCHANGED <<saved, stable, assignment>>

OSCrash ==
    /\ Fault
    /\ \E v \in stable : topic' = v /\ saved' = v /\ stable' = {v}
    /\ UNCHANGED assignment

Next ==
    \/ \E name \in Chosen \cup {Anonymous}, size \in Size :
         \/ \E c \in Client : Join(c, name, size)
         \/ Join_Fail(name, size) \/ Join_SyncFail(name, size)
    \/ \E c \in Client : Client_Stop(c)
    \/ ProcessCrash \/ OSCrash

Spec == Init /\ [][Next]_vars

-----------------------------------------------------------------------------
(* FetchGroup: the ordinal it serves a member as, -1 for an error.         *)
Serves(name) ==
    IF Len(topic.members) = 1 /\ name \in {Anonymous, topic.members[1]} THEN 0
    ELSE IF name = Anonymous THEN -1 ELSE Lookup(topic.members, name)

(* The partitions whose records it returns.                                *)
Fetched(c) == {p \in Partition : p % topic.size = Serves(assignment[c].name)}

Joined == {c \in Client : assignment[c] # NoAssignment}

TopicState == [size : Size \cup {Unset}, members : Seq(Name)]

(* Every variable has its type; no group outgrows its declared size.       *)
TypeOK ==
    /\ topic \in TopicState /\ Len(topic.members) <= topic.size
    /\ saved \in TopicState
    /\ stable \in SUBSET TopicState
    /\ assignment \in [Client -> [name : Name \cup {Anonymous},
                                  ordinal : -1..(Len(topic.members) - 1)]]
    /\ faults \in 0..MaxFaults

(* A join that was answered holds for good, through failed saves and       *)
(* crashes: every later fetch under the returned name is served as the     *)
(* returned ordinal, so no partition changes hands (PLAN.md, design rules  *)
(* 1 and 2).                                                               *)
AssignmentHonoured ==
    \A c \in Joined : Serves(assignment[c].name) = assignment[c].ordinal

(* Clients that joined as different members fetch different partitions, as *)
(* PLAN.md promises of two consumers on two partitions.                    *)
NoDuplicatePartition ==
    \A c, d \in Joined :
        assignment[c].ordinal # assignment[d].ordinal =>
            Fetched(c) \cap Fetched(d) = {}
=============================================================================
