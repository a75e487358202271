------------------------------ MODULE Lifecycle -----------------------------
(***************************************************************************)
(* The broker's goroutines and locks: requests in flight, the retention    *)
(* janitor, SetRetentionInterval and Close, over the read-write mutexes mu *)
(* and gmu and one per partition.  Sources: storage/topic.go (Close and    *)
(* the locking of every operation), retention.go (retentionLoop,           *)
(* SetRetentionInterval, EnforceRetention), group.go and partition_log.go  *)
(* (their critical sections), cmd/marchiq/main.go (run).                   *)
(*                                                                         *)
(* An operation is the list of its critical sections; what it does inside  *)
(* is in the other modules.  A section that finds its closed flag set      *)
(* returns ErrClosed and ends the operation.                               *)
(*                                                                         *)
(* Simplifications                                                         *)
(*  - One topic with a retention policy, so that a pass has work to do.    *)
(*  - server.Shutdown waits five seconds for requests; here Close may come *)
(*    at any moment of any number of requests.                             *)
(*  - A closed channel is one that was closed at least once.               *)
(***************************************************************************)
EXTENDS Naturals, Sequences, FiniteSets

CONSTANTS
    Partitions,     \* the partitions of the topic, in order
    Request,        \* requests, each served by a goroutine of its own
    Setter,         \* goroutines that may call SetRetentionInterval once
    Closer          \* goroutines that may call Close, or else the former

Partition == {Partitions[i] : i \in DOMAIN Partitions}

ASSUME LifecycleAssumption ==
    /\ Partitions \in Seq(Partition) /\ Partitions # <<>>
    /\ Cardinality(Partition) = Len(Partitions)
    /\ Partition \cap {"mu", "gmu", "broker"} = {}
    /\ {"janitor", "nobody", "default"} \cap (Request \cup Setter \cup Closer)
          = {}
    /\ Request \cap (Setter \cup Closer) = {}

Process == Request \cup Setter \cup Closer \cup {"janitor"}
Lock == {"mu", "gmu"} \cup Partition

(* An interval is named for the call that set it; so is the channel that   *)
(* the call leaves in b.retentionKick.                                     *)
Default == "default"
Interval == Setter \cup {Default}
Kick == Setter \cup {Default}

VARIABLES
    pc,             \* where each process is
    todo,           \* critical sections its operation has yet to run
    writer,         \* who holds each lock for writing, or Nobody
    readers,        \* who holds it for reading
    pending,        \* writers whose Lock call holds up new readers
    closed,         \* the flags: b.closed as "broker", p.closed
    interval,       \* b.retentionInterval
    kick,           \* b.retentionKick
    closings,       \* how often each kick channel was closed
    replaced,       \* the channel each setter found in b.retentionKick
    stops,          \* how often retentionStop was closed
    wait            \* the janitor's: [interval, kick] of its current cycle

locks == <<writer, readers, pending>>
janitor == <<interval, kick, closings, replaced, stops, wait>>
vars == <<pc, todo, locks, closed, janitor>>

Nobody == "nobody"
Section == [lock : Lock, mode : {"r", "w"}]
R(l) == [lock |-> l, mode |-> "r"]
W(l) == [lock |-> l, mode |-> "w"]

Locked(mode) ==
    [i \in DOMAIN Partitions |-> [lock |-> Partitions[i], mode |-> mode]]

(* The critical sections of every operation, in order.  getTopic and       *)
(* getPartition are R("mu"), Offsets and ReadFrom are R(p).                *)
Produce(p) == <<R("mu"), W(p)>>
CreateTopic == <<W("mu")>>
Fetch(p) == <<R("mu"), R(p), R(p)>>
DescribeSegments(p) == <<R("mu"), R(p)>>
JoinGroup == <<R("mu"), W("gmu")>>
CommitOffset(p) == <<R("mu"), R(p), W("gmu")>>
FetchGroup(p) == <<R("mu"), R("gmu"), R(p), R(p)>>
GroupLag == <<R("gmu"), R("mu")>> \o Locked("r")
EnforceRetention == <<R("mu"), R("gmu")>> \o Locked("w")

Operations == {CreateTopic, JoinGroup, GroupLag} \cup
    UNION {{Produce(p), Fetch(p), DescribeSegments(p), CommitOffset(p),
            FetchGroup(p)} : p \in Partition}

Init ==
    /\ pc = [x \in Process |-> IF x = "janitor" THEN "arm" ELSE "idle"]
    /\ todo = [x \in Process |-> <<>>]
    /\ writer = [l \in Lock |-> Nobody]
    /\ readers = [l \in Lock |-> {}] /\ pending = [l \in Lock |-> Nobody]
    /\ closed = {}
    /\ interval = Default /\ kick = Default
    /\ closings = [k \in Kick |-> 0] /\ stops = 0
    /\ replaced = [x \in Setter |-> Default]
    /\ wait = [interval |-> Default, kick |-> Default]

Goto(x, label) == pc' = [pc EXCEPT ![x] = label]

-----------------------------------------------------------------------------
(* sync.RWMutex.  Lock first announces itself, which makes new readers     *)
(* wait, then waits for the readers that are inside.                       *)

Announce(x, l) ==
    /\ pending[l] = Nobody
    /\ pending' = [pending EXCEPT ![l] = x]
    /\ UNCHANGED <<writer, readers>>

LockFree(x, l) == pending[l] = x /\ writer[l] = Nobody /\ readers[l] = {}

TakeLock(x, l) ==
    /\ LockFree(x, l)
    /\ writer' = [writer EXCEPT ![l] = x]
    /\ UNCHANGED <<readers, pending>>

DropLock(l) ==
    /\ writer' = [writer EXCEPT ![l] = Nobody]
    /\ pending' = [pending EXCEPT ![l] = Nobody]
    /\ UNCHANGED readers

TakeRLock(x, l) ==
    /\ pending[l] = Nobody /\ writer[l] = Nobody
    /\ readers' = [readers EXCEPT ![l] = @ \cup {x}]
    /\ UNCHANGED <<writer, pending>>

DropRLock(x, l) ==
    /\ readers' = [readers EXCEPT ![l] = @ \ {x}]
    /\ UNCHANGED <<writer, pending>>

-----------------------------------------------------------------------------
(* Requests and passes run their sections one after the other.             *)

Current(x) == Head(todo[x])

(* The closed flag a section looks at once it has the lock.  The clamp     *)
(* snapshot of a pass, under gmu, looks at none.                           *)
FlagSet(x, l) ==
    IF l \in Partition THEN l \in closed
    ELSE "broker" \in closed /\ ~(x = "janitor" /\ l = "gmu")

Request_Start(x) ==
    /\ pc[x] = "idle"
    /\ Goto(x, "section")
    /\ \E op \in Operations : todo' = [todo EXCEPT ![x] = op]
    /\ UNCHANGED <<locks, closed, janitor>>

Section_Announce(x) ==
    /\ pc[x] = "section" /\ Current(x).mode = "w"
    /\ Announce(x, Current(x).lock)
    /\ Goto(x, "announced")
    /\ UNCHANGED <<todo, closed, janitor>>

Section_Enter(x) ==
    /\ \/ /\ pc[x] = "section" /\ Current(x).mode = "r"
          /\ TakeRLock(x, Current(x).lock)
       \/ /\ pc[x] = "announced"
          /\ TakeLock(x, Current(x).lock)
    /\ Goto(x, IF FlagSet(x, Current(x).lock) THEN "refused" ELSE "inside")
    /\ UNCHANGED <<todo, closed, janitor>>

(* Any section may end a request: unknown topics and groups, offsets out   *)
(* of range, failed saves.  A pass goes on to the next partition.          *)
Section_Leave(x) ==
    /\ pc[x] \in {"inside", "refused"}
    /\ IF Current(x).mode = "w" THEN DropLock(Current(x).lock)
       ELSE DropRLock(x, Current(x).lock)
    /\ \E rest \in {Tail(todo[x]), <<>>} :
          /\ IF x = "janitor" /\ (pc[x] = "inside"
                                  \/ Current(x).lock \in Partition)
             THEN rest = Tail(todo[x])
             ELSE pc[x] = "refused" => rest = <<>>
          /\ todo' = [todo EXCEPT ![x] = rest]
          /\ Goto(x, IF rest # <<>> THEN "section"
                     ELSE IF x = "janitor" THEN "arm" ELSE "done")
    /\ UNCHANGED <<closed, janitor>>

-----------------------------------------------------------------------------
(* retentionLoop.                                                          *)

(* Interval and channel are read in one critical section of mu, which only *)
(* waits for writers; it looks at no closed flag.                          *)
Janitor_Arm ==
    /\ pc["janitor"] = "arm" /\ pending["mu"] = Nobody
    /\ wait' = [interval |-> interval, kick |-> kick]
    /\ Goto("janitor", "select")
    /\ UNCHANGED <<todo, locks, closed, interval, kick, closings, replaced,
                   stops>>

Janitor_Stop ==
    /\ pc["janitor"] = "select" /\ stops > 0
    /\ Goto("janitor", "exited")
    /\ UNCHANGED <<todo, locks, closed, janitor>>

(* Mutant: the wait looks up b.retentionKick anew.                         *)
Janitor_Kicked_Current ==
    /\ pc["janitor"] = "select" /\ closings[kick] > 0
    /\ Goto("janitor", "arm")
    /\ UNCHANGED <<todo, locks, closed, janitor>>

Janitor_Kicked ==
    /\ pc["janitor"] = "select" /\ closings[wait.kick] > 0
    /\ Goto("janitor", "arm")
    /\ UNCHANGED <<todo, locks, closed, janitor>>

Janitor_Timer ==
    /\ pc["janitor"] = "select"
    /\ todo' = [todo EXCEPT !["janitor"] = EnforceRetention]
    /\ Goto("janitor", "section")
    /\ UNCHANGED <<locks, closed, janitor>>

-----------------------------------------------------------------------------
(* SetRetentionInterval.                                                   *)

Set_Announce(x) ==
    /\ pc[x] = "idle"
    /\ Announce(x, "mu")
    /\ Goto(x, "announced")
    /\ UNCHANGED <<todo, closed, janitor>>

(* Interval and channel are replaced under mu.                             *)
Set_Replace(x) ==
    /\ pc[x] = "announced" /\ LockFree(x, "mu")
    /\ interval' = x /\ kick' = x
    /\ replaced' = [replaced EXCEPT ![x] = kick]
    /\ DropLock("mu")
    /\ Goto(x, "kick")
    /\ UNCHANGED <<todo, closed, closings, stops, wait>>

(* Mutant: the channel is looked up again outside the lock.                *)
Set_Kick_Current(x) ==
    /\ pc[x] = "kick"
    /\ closings' = [closings EXCEPT ![kick] = @ + 1]
    /\ Goto(x, "done")
    /\ UNCHANGED <<todo, locks, closed, interval, kick, replaced, stops, wait>>

(* The old channel is closed outside it, by whoever replaced it.           *)
Set_Kick(x) ==
    /\ pc[x] = "kick"
    /\ closings' = [closings EXCEPT ![replaced[x]] = @ + 1]
    /\ Goto(x, "done")
    /\ UNCHANGED <<todo, locks, closed, interval, kick, replaced, stops, wait>>

-----------------------------------------------------------------------------
(* Broker.Close.                                                           *)

Close_Announce(x) ==
    /\ pc[x] = "idle"
    /\ Announce(x, "mu")
    /\ Goto(x, "mu announced")
    /\ UNCHANGED <<todo, closed, janitor>>

Close_LockMu(x) ==
    /\ pc[x] = "mu announced"
    /\ TakeLock(x, "mu")
    /\ Goto(x, "mu")
    /\ UNCHANGED <<todo, closed, janitor>>

(* Mutant: gmu is not taken.                                               *)
Close_AnnounceGmu_Omitted(x) ==
    /\ pc[x] = "mu"
    /\ Goto(x, IF "broker" \in closed THEN "done" ELSE "stop")
    /\ closed' = closed \cup {"broker"}
    /\ DropLock("mu")
    /\ UNCHANGED <<todo, janitor>>

Close_AnnounceGmu(x) ==
    /\ pc[x] = "mu"
    /\ Announce(x, "gmu")
    /\ Goto(x, "gmu announced")
    /\ UNCHANGED <<todo, closed, janitor>>

(* Mutant: the locks are held until Close returns.                         *)
Close_Flag_KeepLocks(x) ==
    /\ pc[x] = "gmu announced"
    /\ LockFree(x, "gmu")
    /\ Goto(x, IF "broker" \in closed THEN "done" ELSE "stop")
    /\ closed' = closed \cup {"broker"}
    /\ UNCHANGED <<todo, locks, janitor>>

(* Under both locks: the first Close sets the flag, a later one returns.   *)
Close_Flag(x) ==
    /\ pc[x] = "gmu announced"
    /\ LockFree(x, "gmu")
    /\ Goto(x, IF "broker" \in closed THEN "done" ELSE "stop")
    /\ closed' = closed \cup {"broker"}
    /\ writer' = [writer EXCEPT !["mu"] = Nobody]
    /\ pending' = [pending EXCEPT !["mu"] = Nobody, !["gmu"] = Nobody]
    /\ UNCHANGED <<todo, readers, janitor>>

Close_Stop(x) ==
    /\ pc[x] = "stop"
    /\ stops' = stops + 1
    /\ Goto(x, "wait")
    /\ UNCHANGED <<todo, locks, closed, interval, kick, closings, replaced,
                   wait>>

(* Mutant: Close does not wait for the janitor.                            *)
Close_Wait_Skipped(x) ==
    /\ pc[x] = "wait"
    /\ todo' = [todo EXCEPT ![x] = Locked("w")]
    /\ Goto(x, "next")
    /\ UNCHANGED <<locks, closed, janitor>>

(* retentionWg.Wait.                                                       *)
Close_Wait(x) ==
    /\ pc[x] = "wait" /\ pc["janitor"] = "exited"
    /\ todo' = [todo EXCEPT ![x] = Locked("w")]
    /\ Goto(x, "next")
    /\ UNCHANGED <<locks, closed, janitor>>

Close_AnnouncePartition(x) ==
    /\ pc[x] = "next" /\ todo[x] # <<>>
    /\ Announce(x, Current(x).lock)
    /\ Goto(x, "partition")
    /\ UNCHANGED <<todo, closed, janitor>>

(* PartitionLog.Close: the flag is set and the files are closed under the  *)
(* write lock.                                                             *)
Close_Partition(x) ==
    /\ pc[x] = "partition" /\ LockFree(x, Current(x).lock)
    /\ closed' = closed \cup {Current(x).lock}
    /\ DropLock(Current(x).lock)
    /\ todo' = [todo EXCEPT ![x] = Tail(@)]
    /\ Goto(x, IF Tail(todo[x]) = <<>> THEN "done" ELSE "next")
    /\ UNCHANGED janitor

-----------------------------------------------------------------------------
RequestStep(x) ==
    Request_Start(x) \/ Section_Announce(x) \/ Section_Enter(x)
        \/ Section_Leave(x)

JanitorStep ==
    \/ Janitor_Arm \/ Janitor_Stop \/ Janitor_Kicked \/ Janitor_Timer
    \/ Section_Announce("janitor") \/ Section_Enter("janitor")
    \/ Section_Leave("janitor")

SetStep(x) == Set_Announce(x) \/ Set_Replace(x) \/ Set_Kick(x)

CloseStep(x) ==
    \/ Close_Announce(x) \/ Close_LockMu(x) \/ Close_AnnounceGmu(x)
    \/ Close_Flag(x) \/ Close_Stop(x) \/ Close_Wait(x)
    \/ Close_AnnouncePartition(x) \/ Close_Partition(x)

(* Everything has returned and the janitor is gone.                        *)
Finished ==
    /\ \A x \in Process : pc[x] \in {"done", "exited"}
    /\ UNCHANGED vars

Next ==
    \/ \E x \in Request : RequestStep(x)
    \/ JanitorStep
    \/ \E x \in Setter : SetStep(x)
    \/ \E x \in Closer : CloseStep(x)
    \/ Finished

Spec == Init /\ [][Next]_vars

(* A goroutine that can run does, and one that waits for a mutex or in a   *)
(* select gets its turn: Go's mutexes hand over to a waiter that starves,  *)
(* and select picks among ready cases at random.  Nothing is assumed of    *)
(* the timer, whose interval may be as long as one likes, nor that any     *)
(* call is made.                                                           *)
Fairness ==
    /\ \A x \in Request :
          SF_vars(Section_Announce(x) \/ Section_Enter(x) \/ Section_Leave(x))
    /\ \A x \in Setter : WF_vars(Set_Replace(x) \/ Set_Kick(x))
    /\ \A x \in Closer : WF_vars(CloseStep(x) /\ pc[x] # "idle")
    /\ WF_vars(Janitor_Arm \/ Section_Announce("janitor")
                 \/ Section_Enter("janitor") \/ Section_Leave("janitor"))
    /\ SF_vars(Janitor_Stop) /\ SF_vars(Janitor_Kicked)

FairSpec == Spec /\ Fairness

-----------------------------------------------------------------------------
(* Every variable holds a value of its type.  A channel is closed at most  *)
(* once: closing it again is a panic.                                      *)
TypeOK ==
    /\ pc \in [Process -> {"idle", "section", "announced", "inside",
                           "refused", "done", "arm", "select", "exited",
                           "kick", "mu announced", "mu", "gmu announced",
                           "stop", "wait", "next", "partition"}]
    /\ todo \in [Process -> Seq(Section)]
    /\ writer \in [Lock -> Process \cup {Nobody}]
    /\ pending \in [Lock -> Process \cup {Nobody}]
    /\ readers \in [Lock -> SUBSET Process]
    /\ closed \subseteq Partition \cup {"broker"}
    /\ interval \in Interval /\ kick \in Kick
    /\ replaced \in [Setter -> Kick]
    /\ wait \in [interval : Interval, kick : Kick]
    /\ closings \in [Kick -> 0..1] /\ stops \in 0..1

(* x has passed its closed check and may touch files.                      *)
Working(x) == pc[x] = "inside" /\ (Current(x).mode = "w"
                                   \/ Current(x).lock \in Partition)

(* Once Close has closed the last partition, no append, retention pass,    *)
(* save of groups.json, publication of a topic or read is at work or can   *)
(* start: a request that was in flight has either finished or is refused.  *)
NothingAfterClose ==
    Partition \subseteq closed =>
        \A x \in Request \cup {"janitor"} : ~Working(x)

(* types.go:169: retentionStop and retentionWg let Close stop the janitor  *)
(* before any segment file is closed.                                      *)
JanitorGoneFirst ==
    closed \cap Partition # {} => pc["janitor"] = "exited"

(* retention.go:36: "a shortened interval cannot be missed by a wait that  *)
(* already started".  Without any help from the timer, the janitor soon    *)
(* waits by the interval set last, unless it is stopped.                   *)
IntervalApplied ==
    []<>(\/ wait.interval = interval \/ pc["janitor"] = "exited"
         \/ \E x \in Setter : pc[x] \in {"announced", "kick"})

(* topic.go:320: Close "cannot deadlock", and neither can anything else:   *)
(* every call that is made returns, so that again and again (in the end    *)
(* for good, as each call is made once) none is under way.                 *)
EveryCallReturns ==
    []<>(\A x \in Request \cup Setter \cup Closer : pc[x] \in {"idle", "done"})
=============================================================================
