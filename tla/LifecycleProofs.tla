--------------------------- MODULE LifecycleProofs -------------------------
(***************************************************************************)
(* Proofs about the broker's goroutines and locks, for any number of       *)
(* requests, partitions, calls of SetRetentionInterval and calls of Close. *)
(*                                                                         *)
(* Nothing is at work once the partitions are closed, because a section    *)
(* looks at the closed flag while it holds the lock (WorkerKnown) and      *)
(* Close sets the flag only when nobody holds it.  Each process's locks    *)
(* are its own: a step of another one leaves them alone (Frame).  A        *)
(* channel is closed at most once because the setter that replaced it is   *)
(* the only one that will close it (KicksOnce), and retentionStop because  *)
(* only one Close finds the flag unset (StopsOnce).                        *)
(***************************************************************************)
EXTENDS Lifecycle, SequenceTheorems, TLAPS

Worker == Request \cup {"janitor"}

(* What a request or the janitor has and knows.                            *)
WorkerKnown(x) ==
    /\ pc[x] \in {"section", "announced", "inside", "refused"}
          => todo[x] # <<>>
    /\ pc[x] = "announced" => Current(x).mode = "w"
    /\ pc[x] \in {"inside", "refused"} =>
          /\ Current(x).mode = "w" => writer[Current(x).lock] = x
          /\ Current(x).mode = "r" => x \in readers[Current(x).lock]
    /\ pc[x] = "inside" =>
          /\ Current(x).lock \in Partition => Current(x).lock \notin closed
          /\ Current(x).mode = "w" /\ Current(x).lock \notin Partition
                => "broker" \notin closed
    /\ x = "janitor" =>
          \A i \in 1..Len(todo[x]) :
             todo[x][i].lock = "gmu" => todo[x][i].mode = "r"

(* What a call of Close has and knows.                                     *)
CloserKnown(x) ==
    /\ \A i \in 1..Len(todo[x]) : todo[x][i].lock \in Partition
    /\ pc[x] = "partition" => todo[x] # <<>>
    /\ pc[x] \in {"mu", "gmu announced"} => writer["mu"] = x
    /\ pc[x] \in {"stop", "wait", "next", "partition"} => "broker" \in closed
    /\ pc[x] \in {"next", "partition"} => pc["janitor"] = "exited"

ClosedInOrder ==
    closed \cap Partition # {} =>
        "broker" \in closed /\ pc["janitor"] = "exited"

StopsOnce ==
    /\ stops > 0 => "broker" \in closed
    /\ \A x \in Closer : pc[x] = "stop" =>
          stops = 0 /\ \A y \in Closer : pc[y] = "stop" => y = x

(* Every channel but those that are yet to be closed by the setter that    *)
(* replaced them is the current one, or not made yet, or closed.           *)
KicksOnce ==
    /\ closings[kick] = 0
    /\ \A x \in Setter : pc[x] \in {"idle", "announced"} =>
          /\ closings[x] = 0 /\ kick # x
          /\ \A y \in Setter : pc[y] = "kick" => replaced[y] # x
    /\ \A x \in Setter : pc[x] = "kick" =>
          /\ closings[replaced[x]] = 0 /\ replaced[x] # kick
          /\ \A y \in Setter :
                pc[y] = "kick" /\ replaced[y] = replaced[x] => y = x

LInv == /\ TypeOK
        /\ \A x \in Worker : WorkerKnown(x)
        /\ \A x \in Closer : CloserKnown(x)
        /\ ClosedInOrder /\ StopsOnce /\ KicksOnce

-----------------------------------------------------------------------------
LEMMA Names ==
    /\ Partitions \in Seq(Partition) /\ Len(Partitions) \in Nat \ {0}
    /\ DOMAIN Partitions = 1..Len(Partitions) /\ Partition # {}
    /\ "mu" \notin Partition /\ "gmu" \notin Partition
    /\ "broker" \notin Partition
    /\ Request \subseteq Worker /\ "janitor" \in Worker
    /\ Worker \subseteq Process /\ Setter \subseteq Process
    /\ Closer \subseteq Process /\ Nobody \notin Process
    /\ Worker \cap Setter = {} /\ Worker \cap Closer = {}
    /\ "janitor" \notin Request
    /\ Default \notin Setter /\ Default \in Kick /\ Setter \subseteq Kick
<1>1. /\ Partitions \in Seq(Partition) /\ Len(Partitions) \in Nat \ {0}
      /\ DOMAIN Partitions = 1..Len(Partitions)
  BY LifecycleAssumption
<1>2. Partitions[1] \in Partition
  BY <1>1
<1> QED
  BY <1>1, <1>2, LifecycleAssumption
     DEF Worker, Process, Nobody, Default, Kick

(* A list of all partitions is a list of sections.                         *)
LEMMA LockedTyped ==
    ASSUME NEW mode \in {"r", "w"}
    PROVE  /\ Locked(mode) \in Seq(Section) /\ Len(Locked(mode)) \in Nat
           /\ \A i \in 1..Len(Locked(mode)) : Locked(mode)[i].lock \in Partition
<1>1. \A i \in 1..Len(Partitions) :
         /\ Locked(mode)[i] = [lock |-> Partitions[i], mode |-> mode]
         /\ Partitions[i] \in Partition
  BY Names DEF Locked
<1>2. /\ Locked(mode) = [i \in 1..Len(Partitions) |-> Locked(mode)[i]]
      /\ \A i \in 1..Len(Partitions) : Locked(mode)[i] \in Section
  BY <1>1, Names DEF Locked, Section, Lock
<1>3. Locked(mode) \in Seq(Section) /\ Len(Locked(mode)) = Len(Partitions)
  BY <1>2, Names
<1>4. ASSUME NEW i \in 1..Len(Partitions)
      PROVE  Locked(mode)[i].lock \in Partition
  <2>1. Locked(mode)[i].lock = Partitions[i]
    BY Names DEF Locked
  <2> QED
    BY <1>1, <2>1
<1> QED
  BY <1>3, <1>4, Names

LEMMA OperationsTyped ==
    /\ \A op \in Operations : op \in Seq(Section) /\ op # <<>>
    /\ EnforceRetention \in Seq(Section) /\ EnforceRetention # <<>>
    /\ \A i \in 1..Len(EnforceRetention) :
          EnforceRetention[i].lock = "gmu" => EnforceRetention[i].mode = "r"
<1>1. /\ \A l \in Lock : R(l) \in Section /\ W(l) \in Section
      /\ "mu" \in Lock /\ "gmu" \in Lock /\ Partition \subseteq Lock
  BY DEF R, W, Section, Lock
<1>2. /\ CreateTopic \in Seq(Section) /\ CreateTopic # <<>>
      /\ JoinGroup \in Seq(Section) /\ JoinGroup # <<>>
  BY <1>1 DEF CreateTopic, JoinGroup
<1>3. GroupLag \in Seq(Section) /\ GroupLag # <<>>
  BY <1>1, LockedTyped DEF GroupLag
<1>4. \A p \in Partition :
         /\ Produce(p) \in Seq(Section) /\ Produce(p) # <<>>
         /\ Fetch(p) \in Seq(Section) /\ Fetch(p) # <<>>
         /\ DescribeSegments(p) \in Seq(Section) /\ DescribeSegments(p) # <<>>
         /\ CommitOffset(p) \in Seq(Section) /\ CommitOffset(p) # <<>>
         /\ FetchGroup(p) \in Seq(Section) /\ FetchGroup(p) # <<>>
  BY <1>1 DEF Produce, Fetch, DescribeSegments, CommitOffset, FetchGroup
<1>5. \A op \in Operations : op \in Seq(Section) /\ op # <<>>
  BY <1>2, <1>3, <1>4 DEF Operations
<1>6. /\ EnforceRetention \in Seq(Section) /\ EnforceRetention # <<>>
      /\ \A i \in 1..Len(EnforceRetention) :
            EnforceRetention[i].lock = "gmu" => EnforceRetention[i].mode = "r"
  <2> DEFINE s == <<R("mu"), R("gmu")>>
             t == Locked("w")
  <2>1. /\ s \in Seq(Section) /\ Len(s) = 2 /\ s[1].mode = "r"
        /\ s[2].mode = "r"
    BY <1>1 DEF R
  <2>2. /\ t \in Seq(Section) /\ Len(t) \in Nat
        /\ \A i \in 1..Len(t) : t[i].lock \in Partition
    BY LockedTyped
  <2>3. EnforceRetention = s \o t
    BY DEF EnforceRetention
  <2> HIDE DEF s, t
  <2>4. /\ EnforceRetention \in Seq(Section)
        /\ Len(EnforceRetention) = 2 + Len(t)
        /\ EnforceRetention[1] = s[1] /\ EnforceRetention[2] = s[2]
        /\ \A i \in 3..Len(EnforceRetention) : EnforceRetention[i] = t[i - 2]
    <3>1. /\ s \o t \in Seq(Section) /\ Len(s \o t) = Len(s) + Len(t)
          /\ \A i \in 1..Len(s) + Len(t) :
                (s \o t)[i] = IF i <= Len(s) THEN s[i] ELSE t[i - Len(s)]
      BY <2>1, <2>2, ConcatProperties, Zenon
    <3>2. \A i \in 1..(2 + Len(t)) :
             (s \o t)[i] = IF i <= 2 THEN s[i] ELSE t[i - 2]
      BY <2>1, <3>1
    <3>3. \A i \in 3..(2 + Len(t)) : (s \o t)[i] = t[i - 2]
      BY <2>1, <2>2, <3>1, <3>2
    <3>4. (s \o t)[1] = s[1] /\ (s \o t)[2] = s[2]
      BY <2>1, <2>2, <3>1, <3>2
    <3> QED
      BY <2>1, <2>3, <3>1, <3>3, <3>4
  <2>5. \A i \in 3..Len(EnforceRetention) :
           EnforceRetention[i].lock \in Partition
    BY <2>2, <2>4
  <2> QED
    BY <2>1, <2>2, <2>4, <2>5, Names
<1> QED
  BY <1>5, <1>6

LEMMA LifecycleInit == Init => LInv
<1> SUFFICES ASSUME Init PROVE LInv
  OBVIOUS
<1> USE DEF Init
<1>1. TypeOK
  <2>1. <<>> \in Seq(Section)
    OBVIOUS
  <2> QED
    BY <2>1, Names DEF TypeOK, Interval, Kick
<1>2. \A x \in Process : pc[x] \in {"idle", "arm"} /\ todo[x] = <<>>
  OBVIOUS
<1>3. \A x \in Worker : WorkerKnown(x)
  BY <1>2, Names DEF WorkerKnown
<1>4. \A x \in Closer : CloserKnown(x)
  <2>1. ASSUME NEW x \in Closer
        PROVE  pc[x] = "idle" /\ 1..Len(todo[x]) = {}
    <3>1. x \in Process /\ x # "janitor"
      BY Names
    <3> QED
      BY <3>1
  <2> QED
    BY <2>1 DEF CloserKnown
<1>5. ClosedInOrder /\ StopsOnce
  BY <1>2, Names DEF ClosedInOrder, StopsOnce
<1>6. KicksOnce
  BY <1>2, Names DEF KicksOnce
<1> QED
  BY <1>1, <1>3, <1>4, <1>5, <1>6 DEF LInv

-----------------------------------------------------------------------------
(* A step of x leaves the place, the sections and the locks of every other *)
(* process alone.                                                          *)
LocksTyped ==
    /\ writer \in [Lock -> Process \cup {Nobody}]
    /\ pending \in [Lock -> Process \cup {Nobody}]
    /\ readers \in [Lock -> SUBSET Process]

Keeps(x) ==
    \A y \in Process \ {x}, l \in Lock :
       /\ writer'[l] = y <=> writer[l] = y
       /\ y \in readers'[l] <=> y \in readers[l]

Frame(x) ==
    /\ LocksTyped' /\ Keeps(x)
    /\ \A y \in Process \ {x} : pc'[y] = pc[y] /\ todo'[y] = todo[y]

LEMMA LockSteps ==
    ASSUME LocksTyped, NEW x \in Process, NEW l \in Lock
    PROVE  /\ UNCHANGED locks => LocksTyped' /\ Keeps(x)
           /\ Announce(x, l) => LocksTyped' /\ Keeps(x)
           /\ TakeLock(x, l) => LocksTyped' /\ Keeps(x) /\ writer'[l] = x
           /\ TakeRLock(x, l) => LocksTyped' /\ Keeps(x) /\ x \in readers'[l]
           /\ DropLock(l) /\ writer[l] \in {x, Nobody}
                 => LocksTyped' /\ Keeps(x)
           /\ DropRLock(x, l) => LocksTyped' /\ Keeps(x)
<1> USE DEF LocksTyped, Keeps
<1>1. UNCHANGED locks => LocksTyped' /\ Keeps(x)
  BY DEF locks
<1>2. Announce(x, l) => LocksTyped' /\ Keeps(x)
  BY DEF Announce
<1>3. TakeLock(x, l) => LocksTyped' /\ Keeps(x) /\ writer'[l] = x
  BY Names DEF TakeLock, LockFree
<1>4. TakeRLock(x, l) => LocksTyped' /\ Keeps(x) /\ x \in readers'[l]
  BY DEF TakeRLock
<1>5. DropLock(l) /\ writer[l] \in {x, Nobody} => LocksTyped' /\ Keeps(x)
  BY Names DEF DropLock
<1>6. DropRLock(x, l) => LocksTyped' /\ Keeps(x)
  BY DEF DropRLock
<1> QED
  BY <1>1, <1>2, <1>3, <1>4, <1>5, <1>6

(* The first of the sections that a process has yet to run.                *)
LEMMA CurrentTyped ==
    ASSUME TypeOK, NEW x \in Process, todo[x] # <<>>
    PROVE  /\ Current(x) \in Section /\ Current(x).lock \in Lock
           /\ Current(x).mode \in {"r", "w"} /\ Current(x) = todo[x][1]
           /\ Tail(todo[x]) \in Seq(Section)
           /\ Len(todo[x]) \in Nat /\ 1 \in 1..Len(todo[x])
           /\ \A i \in 1..Len(Tail(todo[x])) :
                 i + 1 \in 1..Len(todo[x]) /\ Tail(todo[x])[i] = todo[x][i + 1]
<1>1. todo[x] \in Seq(Section)
  BY DEF TypeOK
<1>2. Current(x) = todo[x][1] /\ todo[x][1] \in Section
  BY <1>1 DEF Current
<1> QED
  BY <1>1, <1>2 DEF Section

(* Close sets a flag only when no worker is inside under that flag.        *)
NobodyCaught ==
    \A y \in Worker : pc[y] = "inside" =>
       /\ Current(y).lock \in Partition
             => Current(y).lock \notin closed' \ closed
       /\ Current(y).mode = "w" /\ Current(y).lock \notin Partition
             => "broker" \notin closed' \ closed

LEMMA OthersKnown ==
    ASSUME LInv, NEW x \in Process, Frame(x),
           closed \subseteq closed', NobodyCaught,
           pc["janitor"] = "exited" => x # "janitor",
           NEW y \in Process, y # x
    PROVE  /\ y \in Worker => WorkerKnown(y)'
           /\ y \in Closer => CloserKnown(y)'
<1>1. /\ pc'[y] = pc[y] /\ todo'[y] = todo[y]
      /\ \A l \in Lock : /\ writer'[l] = y <=> writer[l] = y
                         /\ y \in readers'[l] <=> y \in readers[l]
  BY DEF Frame, Keeps
<1>2. /\ TypeOK
      /\ y \in Worker => WorkerKnown(y)
      /\ y \in Closer => CloserKnown(y)
  BY DEF LInv
<1>3. ASSUME y \in Worker
      PROVE  WorkerKnown(y)'
  <2>1. todo[y] # <<>> => Current(y).lock \in Lock
    BY <1>2, CurrentTyped
  <2> QED
    BY <1>1, <1>2, <1>3, <2>1 DEF WorkerKnown, NobodyCaught, Current
<1>4. ASSUME y \in Closer
      PROVE  CloserKnown(y)'
  <2>1. pc["janitor"] = "exited" => pc'["janitor"] = "exited"
    BY Names DEF Frame
  <2>2. "mu" \in Lock
    BY DEF Lock
  <2> QED
    BY <1>1, <1>2, <1>4, <2>1, <2>2 DEF CloserKnown
<1> QED
  BY <1>3, <1>4

-----------------------------------------------------------------------------
(* Requests and the janitor.                                               *)
WorkerLabel == {"idle", "section", "announced", "inside", "refused", "done",
                "arm", "select", "exited"}

(* What a step of a worker does.                                           *)
WorkerMoves(x) ==
    /\ Frame(x) /\ WorkerKnown(x)'
    /\ \E s \in WorkerLabel : pc' = [pc EXCEPT ![x] = s]
    /\ todo' \in [Process -> Seq(Section)]
    /\ UNCHANGED <<closed, interval, kick, closings, replaced, stops>>
    /\ wait' = wait \/ wait' = [interval |-> interval, kick |-> kick]

LEMMA SectionMoves ==
    ASSUME LInv, NEW x \in Worker,
           Section_Announce(x) \/ Section_Enter(x) \/ Section_Leave(x)
    PROVE  WorkerMoves(x) /\ pc[x] # "exited"
<1> USE DEF janitor
<1>1. /\ TypeOK /\ WorkerKnown(x) /\ x \in Process /\ LocksTyped
      /\ pc \in [Process -> {"idle", "section", "announced", "inside",
                             "refused", "done", "arm", "select", "exited",
                             "kick", "mu announced", "mu", "gmu announced",
                             "stop", "wait", "next", "partition"}]
      /\ todo \in [Process -> Seq(Section)]
  BY Names DEF LInv, TypeOK, LocksTyped
<1>2. /\ todo[x] # <<>> /\ pc[x] # "exited"
      /\ Current(x).lock \in Lock /\ Current(x).mode \in {"r", "w"}
  <2>1. todo[x] # <<>> /\ pc[x] # "exited"
    BY <1>1 DEF WorkerKnown, Section_Announce, Section_Enter, Section_Leave
  <2> QED
    BY <1>1, <2>1, CurrentTyped
<1>3. CASE Section_Announce(x)
  <2>1. /\ pc' = [pc EXCEPT ![x] = "announced"] /\ todo' = todo
        /\ Announce(x, Current(x).lock)
        /\ UNCHANGED <<closed, janitor>>
    BY <1>3 DEF Section_Announce, Goto
  <2>2. Frame(x)
    BY <1>1, <1>2, <2>1, LockSteps DEF Frame
  <2>3. /\ pc'[x] = "announced" /\ todo'[x] = todo[x]
        /\ Current(x)' = Current(x) /\ Current(x).mode = "w"
    BY <1>1, <1>3, <2>1 DEF Section_Announce, Current
  <2>4. WorkerKnown(x)'
    BY <1>1, <1>2, <2>3 DEF WorkerKnown
  <2> QED
    BY <1>1, <1>2, <2>1, <2>2, <2>4 DEF WorkerMoves, WorkerLabel
<1>4. CASE Section_Enter(x)
  <2> DEFINE l == Current(x).lock
             s == IF FlagSet(x, l) THEN "refused" ELSE "inside"
  <2>1. /\ pc' = [pc EXCEPT ![x] = s] /\ todo' = todo
        /\ (TakeRLock(x, l) /\ Current(x).mode = "r") \/ TakeLock(x, l)
        /\ UNCHANGED <<closed, janitor>>
    BY <1>4 DEF Section_Enter, Goto
  <2>2. Frame(x)
    BY <1>1, <1>2, <2>1, LockSteps DEF Frame
  <2>3. /\ l \in Partition => (s = "inside" => l \notin closed)
        /\ Current(x).mode = "w" /\ l \notin Partition =>
              (s = "inside" => "broker" \notin closed)
    <3>1. x = "janitor" /\ l = "gmu" => Current(x).mode = "r"
      BY <1>1, <1>2, CurrentTyped DEF WorkerKnown
    <3> QED
      BY <3>1 DEF FlagSet
  <2>4. /\ Current(x).mode = "w" => writer'[l] = x
        /\ Current(x).mode = "r" => x \in readers'[l]
    <3>1. CASE TakeRLock(x, l) /\ Current(x).mode = "r"
      BY <1>1, <1>2, <3>1, LockSteps
    <3>2. CASE TakeLock(x, l) /\ Current(x).mode = "w"
      BY <1>1, <1>2, <3>2, LockSteps
    <3> QED
      BY <1>1, <1>4, <3>1, <3>2 DEF Section_Enter, WorkerKnown
  <2>5. /\ pc'[x] = s /\ s \in {"inside", "refused"} /\ todo'[x] = todo[x]
        /\ Current(x)' = Current(x) /\ closed' = closed
    BY <1>1, <2>1 DEF Current
  <2> HIDE DEF l, s
  <2>6. WorkerKnown(x)'
    BY <1>1, <1>2, <2>3, <2>4, <2>5 DEF WorkerKnown, l
  <2> QED
    BY <1>1, <1>2, <2>1, <2>2, <2>5, <2>6 DEF WorkerMoves, WorkerLabel
<1>5. CASE Section_Leave(x)
  <2> DEFINE l == Current(x).lock
  <2>1. PICK rest \in {Tail(todo[x]), <<>>} :
          /\ todo' = [todo EXCEPT ![x] = rest]
          /\ pc' = [pc EXCEPT ![x] = IF rest # <<>> THEN "section"
                                     ELSE IF x = "janitor" THEN "arm"
                                     ELSE "done"]
    BY <1>5 DEF Section_Leave, Goto
  <2>2. /\ (DropLock(l) /\ writer[l] = x) \/ DropRLock(x, l)
        /\ UNCHANGED <<closed, janitor>>
    BY <1>1, <1>2, <1>5 DEF Section_Leave, WorkerKnown
  <2>3. Frame(x)
    BY <1>1, <1>2, <2>1, <2>2, LockSteps DEF Frame
  <2>4. /\ Tail(todo[x]) \in Seq(Section)
        /\ \A i \in 1..Len(Tail(todo[x])) :
              i + 1 \in 1..Len(todo[x]) /\ Tail(todo[x])[i] = todo[x][i + 1]
    BY <1>1, <1>2, CurrentTyped, Zenon
  <2>5. /\ rest \in Seq(Section)
        /\ x = "janitor" => \A i \in 1..Len(rest) :
                               rest[i].lock = "gmu" => rest[i].mode = "r"
    <3>1. CASE rest = Tail(todo[x])
      <4>1. x = "janitor" => \A i \in 1..Len(todo[x]) :
               todo[x][i].lock = "gmu" => todo[x][i].mode = "r"
        BY <1>1 DEF WorkerKnown
      <4> QED
        BY <2>4, <3>1, <4>1
    <3>2. CASE rest = <<>>
      BY <3>2
    <3> QED
      BY <3>1, <3>2
  <2>6. /\ todo'[x] = rest
        /\ pc'[x] \in {"section", "arm", "done"}
        /\ pc'[x] = "section" => rest # <<>>
    BY <1>1, <2>1
  <2>7. WorkerKnown(x)'
    BY <2>5, <2>6 DEF WorkerKnown
  <2> QED
    BY <1>1, <1>2, <2>1, <2>2, <2>3, <2>5, <2>7 DEF WorkerMoves, WorkerLabel
<1> QED
  BY <1>2, <1>3, <1>4, <1>5

LEMMA StartMoves ==
    ASSUME LInv, NEW x \in Request, Request_Start(x)
    PROVE  WorkerMoves(x) /\ pc[x] # "exited"
<1> USE DEF janitor
<1>1. /\ TypeOK /\ x \in Process /\ x \in Worker /\ x # "janitor"
      /\ LocksTyped /\ todo \in [Process -> Seq(Section)]
      /\ pc[x] = "idle" /\ pc' = [pc EXCEPT ![x] = "section"]
      /\ UNCHANGED <<locks, closed, janitor>>
  BY Names DEF LInv, TypeOK, LocksTyped, Request_Start, Goto
<1>2. PICK op \in Operations : todo' = [todo EXCEPT ![x] = op]
  BY DEF Request_Start
<1>3. op \in Seq(Section) /\ op # <<>>
  BY OperationsTyped
<1>4. Frame(x)
  <2>1. LocksTyped' /\ Keeps(x)
    BY <1>1 DEF LocksTyped, Keeps, locks
  <2> QED
    BY <1>1, <1>2, <2>1 DEF Frame, TypeOK
<1>5. pc'[x] = "section" /\ todo'[x] = op
  BY <1>1, <1>2 DEF TypeOK
<1>6. WorkerKnown(x)'
  BY <1>1, <1>3, <1>5 DEF WorkerKnown
<1> QED
  BY <1>1, <1>2, <1>3, <1>4, <1>6 DEF WorkerMoves, WorkerLabel

LEMMA JanitorMoves ==
    ASSUME LInv,
           Janitor_Arm \/ Janitor_Stop \/ Janitor_Kicked \/ Janitor_Timer
    PROVE  WorkerMoves("janitor") /\ pc["janitor"] # "exited"
<1> USE DEF janitor
<1>1. /\ TypeOK /\ WorkerKnown("janitor") /\ "janitor" \in Process
      /\ LocksTyped /\ todo \in [Process -> Seq(Section)]
      /\ UNCHANGED <<locks, closed>>
      /\ UNCHANGED <<interval, kick, closings, replaced, stops>>
      /\ wait' = wait \/ wait' = [interval |-> interval, kick |-> kick]
      /\ pc["janitor"] # "exited"
  BY Names DEF LInv, TypeOK, LocksTyped, Janitor_Arm, Janitor_Stop,
               Janitor_Kicked, Janitor_Timer
<1>2. \/ /\ todo' = todo
         /\ \E s \in {"select", "exited", "arm"} :
               pc' = [pc EXCEPT !["janitor"] = s]
      \/ /\ todo' = [todo EXCEPT !["janitor"] = EnforceRetention]
         /\ pc' = [pc EXCEPT !["janitor"] = "section"]
  BY DEF Janitor_Arm, Janitor_Stop, Janitor_Kicked, Janitor_Timer, Goto
<1>3. Frame("janitor")
  <2>1. LocksTyped' /\ Keeps("janitor")
    BY <1>1 DEF LocksTyped, Keeps, locks
  <2> QED
    BY <1>1, <1>2, <2>1 DEF Frame, TypeOK
<1>4. /\ todo' \in [Process -> Seq(Section)]
      /\ WorkerKnown("janitor")'
  <2>1. CASE /\ todo' = todo
             /\ \E s \in {"select", "exited", "arm"} :
                   pc' = [pc EXCEPT !["janitor"] = s]
    <3>1. pc'["janitor"] \in {"select", "exited", "arm"}
      BY <1>1, <2>1 DEF TypeOK
    <3> QED
      BY <1>1, <2>1, <3>1 DEF WorkerKnown
  <2>2. CASE /\ todo' = [todo EXCEPT !["janitor"] = EnforceRetention]
             /\ pc' = [pc EXCEPT !["janitor"] = "section"]
    <3>1. pc'["janitor"] = "section" /\ todo'["janitor"] = EnforceRetention
      BY <1>1, <2>2 DEF TypeOK
    <3> QED
      BY <1>1, <2>2, <3>1, OperationsTyped DEF WorkerKnown
  <2> QED
    BY <1>2, <2>1, <2>2
<1> QED
  BY <1>1, <1>2, <1>3, <1>4 DEF WorkerMoves, WorkerLabel

(* A worker's step preserves the invariant.                                *)
LEMMA WorkerStep ==
    ASSUME LInv, NEW x \in Worker, WorkerMoves(x), pc[x] # "exited"
    PROVE  LInv'
<1>1. /\ TypeOK /\ x \in Process /\ Frame(x) /\ closed' = closed
      /\ x \notin Setter /\ x \notin Closer
      /\ UNCHANGED <<interval, kick, closings, replaced, stops>>
  BY Names DEF LInv, WorkerMoves
<1>2. TypeOK'
  <2>1. wait' \in [interval : Interval, kick : Kick]
    <3>1. /\ wait \in [interval : Interval, kick : Kick]
          /\ interval \in Interval /\ kick \in Kick
          /\ wait' = wait \/ wait' = [interval |-> interval, kick |-> kick]
      BY DEF LInv, TypeOK, WorkerMoves
    <3> QED
      BY <3>1
  <2>2. pc' \in [Process -> {"idle", "section", "announced", "inside",
                             "refused", "done", "arm", "select", "exited",
                             "kick", "mu announced", "mu", "gmu announced",
                             "stop", "wait", "next", "partition"}]
    BY <1>1 DEF TypeOK, WorkerMoves, WorkerLabel
  <2> QED
    BY <1>1, <2>1, <2>2 DEF WorkerMoves, TypeOK, Frame, LocksTyped
<1>3. NobodyCaught
  BY <1>1 DEF NobodyCaught
<1>4. pc["janitor"] = "exited" => pc'["janitor"] = "exited" /\ x # "janitor"
  BY <1>1, Names DEF Frame
<1>5. /\ \A y \in Worker : WorkerKnown(y)'
      /\ \A y \in Closer : CloserKnown(y)'
  BY <1>1, <1>3, <1>4, OthersKnown, Names DEF WorkerMoves
<1>6. \A y \in Setter \cup Closer : pc'[y] = pc[y]
  BY <1>1, Names DEF Frame
<1>7. ClosedInOrder' /\ StopsOnce'
  BY <1>1, <1>4, <1>6 DEF LInv, ClosedInOrder, StopsOnce
<1>8. KicksOnce'
  BY <1>1, <1>6 DEF LInv, KicksOnce
<1> QED
  BY <1>2, <1>5, <1>7, <1>8 DEF LInv

-----------------------------------------------------------------------------
(* SetRetentionInterval.                                                   *)
SetterMoves(x) ==
    /\ Frame(x) /\ todo' = todo
    /\ \E s \in {"announced", "kick", "done"} : pc' = [pc EXCEPT ![x] = s]
    /\ UNCHANGED <<closed, stops, wait>>

LEMMA SetMoves ==
    ASSUME LInv, NEW x \in Setter, SetStep(x)
    PROVE  SetterMoves(x)
<1> USE DEF janitor
<1>1. TypeOK /\ x \in Process /\ LocksTyped /\ "mu" \in Lock
  BY Names DEF LInv, TypeOK, LocksTyped, Lock
<1>2. /\ todo' = todo /\ UNCHANGED <<closed, stops, wait>>
      /\ \E s \in {"announced", "kick", "done"} : pc' = [pc EXCEPT ![x] = s]
  BY DEF SetStep, Set_Announce, Set_Replace, Set_Kick, Goto
<1>3. LocksTyped' /\ Keeps(x)
  <2>1. \/ Announce(x, "mu") \/ UNCHANGED locks
        \/ DropLock("mu") /\ writer["mu"] = Nobody
    BY DEF SetStep, Set_Announce, Set_Replace, Set_Kick, LockFree
  <2> QED
    BY <1>1, <2>1, LockSteps
<1> QED
  BY <1>1, <1>2, <1>3 DEF SetterMoves, Frame, TypeOK

LEMMA SetPreserves ==
    ASSUME LInv, NEW x \in Setter, SetStep(x)
    PROVE  LInv'
<1> USE DEF janitor
<1>1. /\ TypeOK /\ x \in Process /\ SetterMoves(x) /\ Frame(x)
      /\ closed' = closed /\ todo' = todo /\ stops' = stops
      /\ pc'[x] \in {"announced", "kick", "done"}
      /\ x \notin Worker /\ x # "janitor"
  <2>1. TypeOK /\ SetterMoves(x)
    BY SetMoves DEF LInv
  <2>2. x \in Process /\ x \notin Worker /\ x # "janitor"
    BY Names
  <2>3. pc'[x] \in {"announced", "kick", "done"}
    BY <2>1, <2>2 DEF TypeOK, SetterMoves
  <2> QED
    BY <2>1, <2>2, <2>3 DEF SetterMoves
<1>2. /\ closings \in [Kick -> 0..1] /\ replaced \in [Setter -> Kick]
      /\ kick \in Kick /\ x \in Kick /\ x \in Interval
      /\ pc[x] = "kick" => replaced[x] \in Kick /\ closings[replaced[x]] = 0
  BY <1>1, Names DEF LInv, TypeOK, KicksOnce, Interval
<1>3. /\ closings' \in [Kick -> 0..1] /\ replaced' \in [Setter -> Kick]
      /\ kick' \in Kick /\ interval' \in Interval
  <2>1. CASE Set_Announce(x)
    BY <1>1, <1>2, <2>1 DEF TypeOK, Set_Announce
  <2>2. CASE Set_Replace(x)
    BY <1>1, <1>2, <2>2 DEF TypeOK, Set_Replace
  <2>3. CASE Set_Kick(x)
    <3>1. /\ closings' = [closings EXCEPT ![replaced[x]] = @ + 1]
          /\ closings[replaced[x]] + 1 = 1 /\ 1 \in 0..1
          /\ UNCHANGED <<interval, kick, replaced>>
      BY <1>2, <2>3 DEF Set_Kick
    <3> QED
      BY <1>1, <1>2, <3>1 DEF TypeOK
  <2> QED
    BY <2>1, <2>2, <2>3 DEF SetStep
<1>4. TypeOK'
  <2>1. pc' \in [Process -> {"idle", "section", "announced", "inside",
                             "refused", "done", "arm", "select", "exited",
                             "kick", "mu announced", "mu", "gmu announced",
                             "stop", "wait", "next", "partition"}]
    BY <1>1 DEF TypeOK, SetterMoves
  <2> QED
    BY <1>1, <1>3, <2>1 DEF TypeOK, SetterMoves, Frame, LocksTyped
<1>5. NobodyCaught
  BY <1>1 DEF NobodyCaught
<1>6. CloserKnown(x)' \/ x \notin Closer
  BY <1>1 DEF LInv, CloserKnown
<1>7. /\ \A y \in Worker : WorkerKnown(y)'
      /\ \A y \in Closer : CloserKnown(y)'
  BY <1>1, <1>5, <1>6, OthersKnown, Names
<1>8. /\ \A y \in Process : y # x => pc'[y] = pc[y]
      /\ pc'["janitor"] = pc["janitor"]
  BY <1>1, Names DEF Frame
<1>9. ClosedInOrder' /\ StopsOnce'
  BY <1>1, <1>8, Names DEF LInv, ClosedInOrder, StopsOnce
<1>10. KicksOnce'
  <2> USE Names DEF LInv, KicksOnce
  <2>1. CASE Set_Announce(x)
    <3>1. /\ pc[x] = "idle" /\ pc'[x] = "announced"
          /\ UNCHANGED <<kick, closings, replaced>>
      BY <1>1, <2>1 DEF Set_Announce, TypeOK, Goto
    <3> QED
      BY <1>1, <1>8, <3>1
  <2>2. CASE Set_Replace(x)
    <3>1. /\ pc[x] = "announced" /\ kick' = x /\ pc'[x] = "kick"
          /\ replaced'[x] = kick /\ closings' = closings
          /\ \A y \in Setter : y # x => replaced'[y] = replaced[y]
      BY <1>1, <1>2, <2>2 DEF Set_Replace, TypeOK, Goto
    <3> QED
      BY <1>1, <1>8, <3>1
  <2>3. CASE Set_Kick(x)
    <3>1. /\ pc[x] = "kick" /\ kick' = kick /\ pc'[x] = "done"
          /\ replaced' = replaced
          /\ \A k \in Kick : k # replaced[x] => closings'[k] = closings[k]
      BY <1>1, <1>2, <2>3 DEF Set_Kick, TypeOK, Goto
    <3> QED
      BY <1>1, <1>2, <1>8, <3>1
  <2> QED
    BY <2>1, <2>2, <2>3 DEF SetStep
<1> QED
  BY <1>4, <1>7, <1>9, <1>10 DEF LInv

-----------------------------------------------------------------------------
(* Broker.Close.                                                           *)
CloserLabel == {"mu announced", "mu", "gmu announced", "stop", "wait", "next",
                "partition", "done"}

CloserMoves(x) ==
    /\ Frame(x) /\ NobodyCaught
    /\ \E s \in CloserLabel : pc' = [pc EXCEPT ![x] = s]
    /\ todo' \in [Process -> Seq(Section)]
    /\ closed \subseteq closed' /\ closed' \subseteq Partition \cup {"broker"}
    /\ UNCHANGED <<interval, kick, closings, replaced, wait>>

(* No worker is inside under a flag that did not change.                   *)
LEMMA FlagsKept == closed' = closed => NobodyCaught
BY DEF NobodyCaught

(* The steps that change no flag.                                          *)
LEMMA CloseMoves ==
    ASSUME LInv, NEW x \in Closer,
           \/ Close_Announce(x) \/ Close_LockMu(x) \/ Close_AnnounceGmu(x)
           \/ Close_Stop(x) \/ Close_Wait(x) \/ Close_AnnouncePartition(x)
    PROVE  CloserMoves(x) /\ CloserKnown(x)' /\ closed' = closed
<1> USE DEF janitor
<1>1. /\ TypeOK /\ x \in Process /\ x # "janitor" /\ LocksTyped
      /\ "mu" \in Lock /\ "gmu" \in Lock
      /\ CloserKnown(x) /\ closed' = closed
      /\ UNCHANGED <<interval, kick, closings, replaced, wait>>
  BY Names DEF LInv, TypeOK, LocksTyped, Lock, Close_Announce, Close_LockMu,
               Close_AnnounceGmu, Close_Stop, Close_Wait,
               Close_AnnouncePartition
<1>2. CASE Close_Announce(x) \/ Close_LockMu(x) \/ Close_AnnounceGmu(x)
  <2>1. /\ todo' = todo /\ closed' = closed
        /\ \E s \in {"mu announced", "mu", "gmu announced"} :
              pc' = [pc EXCEPT ![x] = s]
    BY <1>2 DEF Close_Announce, Close_LockMu, Close_AnnounceGmu, Goto
  <2>2. LocksTyped' /\ Keeps(x)
    BY <1>1, <1>2, LockSteps
       DEF Close_Announce, Close_LockMu, Close_AnnounceGmu
  <2>3. pc'[x] \in {"mu", "gmu announced"} => writer'["mu"] = x
    <3>1. CASE Close_Announce(x)
      BY <1>1, <3>1 DEF Close_Announce, Goto, TypeOK
    <3>2. CASE Close_LockMu(x)
      BY <1>1, <3>2, LockSteps DEF Close_LockMu
    <3>3. CASE Close_AnnounceGmu(x)
      BY <1>1, <3>3 DEF Close_AnnounceGmu, Announce, CloserKnown
    <3> QED
      BY <1>2, <3>1, <3>2, <3>3
  <2>4. pc'[x] \in {"mu announced", "mu", "gmu announced"}
    BY <1>1, <2>1 DEF TypeOK
  <2>5. CloserKnown(x)'
    BY <1>1, <2>1, <2>3, <2>4 DEF CloserKnown
  <2> QED
    BY <1>1, <2>1, <2>2, <2>5, FlagsKept
       DEF CloserMoves, Frame, CloserLabel, TypeOK
<1>3. CASE Close_Stop(x)
  <2>1. /\ pc[x] = "stop" /\ pc' = [pc EXCEPT ![x] = "wait"]
        /\ todo' = todo /\ UNCHANGED locks
    BY <1>3 DEF Close_Stop, Goto
  <2>2. LocksTyped' /\ Keeps(x)
    BY <1>1, <2>1, LockSteps
  <2>3. pc'[x] = "wait"
    BY <1>1, <2>1 DEF TypeOK
  <2>4. CloserKnown(x)'
    BY <1>1, <2>1, <2>3 DEF CloserKnown
  <2> QED
    BY <1>1, <2>1, <2>2, <2>4, FlagsKept
       DEF CloserMoves, Frame, CloserLabel, TypeOK
<1>4. CASE Close_Wait(x)
  <2>1. /\ pc[x] = "wait" /\ pc["janitor"] = "exited"
        /\ pc' = [pc EXCEPT ![x] = "next"]
        /\ todo' = [todo EXCEPT ![x] = Locked("w")] /\ UNCHANGED locks
    BY <1>4 DEF Close_Wait, Goto
  <2>2. LocksTyped' /\ Keeps(x)
    BY <1>1, <2>1, LockSteps
  <2>3. /\ pc'[x] = "next" /\ todo'[x] = Locked("w")
        /\ pc'["janitor"] = "exited"
    BY <1>1, <2>1, Names DEF TypeOK
  <2>4. /\ todo' \in [Process -> Seq(Section)]
        /\ \A i \in 1..Len(Locked("w")) : Locked("w")[i].lock \in Partition
    BY <1>1, <2>1, LockedTyped DEF TypeOK
  <2>5. CloserKnown(x)'
    BY <1>1, <2>1, <2>3, <2>4 DEF CloserKnown
  <2> QED
    BY <1>1, <2>1, <2>2, <2>4, <2>5, FlagsKept
       DEF CloserMoves, Frame, CloserLabel, TypeOK
<1>5. CASE Close_AnnouncePartition(x)
  <2>1. /\ pc[x] = "next" /\ pc' = [pc EXCEPT ![x] = "partition"]
        /\ todo' = todo /\ todo[x] # <<>> /\ Announce(x, Current(x).lock)
    BY <1>5 DEF Close_AnnouncePartition, Goto
  <2>2. LocksTyped' /\ Keeps(x)
    BY <1>1, <2>1, LockSteps, CurrentTyped
  <2>3. pc'[x] = "partition" /\ pc'["janitor"] = pc["janitor"]
    BY <1>1, <2>1, Names DEF TypeOK
  <2>4. CloserKnown(x)'
    BY <1>1, <2>1, <2>3 DEF CloserKnown
  <2> QED
    BY <1>1, <2>1, <2>2, <2>4, FlagsKept
       DEF CloserMoves, Frame, CloserLabel, TypeOK
<1> QED
  BY <1>1, <1>2, <1>3, <1>4, <1>5

(* The broker's flag is set while both mu and gmu are held.                *)
LEMMA FlagMoves ==
    ASSUME LInv, NEW x \in Closer, Close_Flag(x)
    PROVE  CloserMoves(x) /\ CloserKnown(x)'
<1> USE DEF janitor
<1>1. /\ TypeOK /\ x \in Process /\ LocksTyped /\ CloserKnown(x)
      /\ "mu" \in Lock /\ "gmu" \in Lock
      /\ writer["mu"] = x /\ writer["gmu"] = Nobody
      /\ closed' = closed \cup {"broker"} /\ todo' = todo
  BY Names DEF LInv, TypeOK, LocksTyped, Lock, Close_Flag, CloserKnown,
               LockFree
<1>2. /\ pc' = [pc EXCEPT ![x] = IF "broker" \in closed THEN "done" ELSE "stop"]
      /\ writer' = [writer EXCEPT !["mu"] = Nobody] /\ readers' = readers
      /\ pending' = [pending EXCEPT !["mu"] = Nobody, !["gmu"] = Nobody]
      /\ UNCHANGED <<interval, kick, closings, replaced, wait>>
  BY DEF Close_Flag, Goto
<1>3. LocksTyped' /\ Keeps(x)
  BY <1>1, <1>2, Names DEF LocksTyped, Keeps
<1>4. NobodyCaught
  <2> SUFFICES ASSUME NEW y \in Worker, pc[y] = "inside",
                      Current(y).mode = "w", Current(y).lock \notin Partition
               PROVE  FALSE
    BY <1>1, Names DEF NobodyCaught
  <2>1. /\ writer[Current(y).lock] = y /\ Current(y).lock \in Lock
        /\ y # x /\ y # Nobody
    BY <1>1, CurrentTyped, Names DEF LInv, WorkerKnown
  <2> QED
    BY <1>1, <2>1 DEF Lock
<1>5. pc'[x] \in {"done", "stop"} /\ "broker" \in closed'
  BY <1>1, <1>2 DEF TypeOK
<1>6. CloserKnown(x)'
  BY <1>1, <1>5 DEF CloserKnown
<1> QED
  BY <1>1, <1>2, <1>3, <1>4, <1>6 DEF CloserMoves, Frame, CloserLabel, TypeOK

(* A partition's flag is set while its lock is held.                       *)
LEMMA PartitionMoves ==
    ASSUME LInv, NEW x \in Closer, Close_Partition(x)
    PROVE  /\ CloserMoves(x) /\ CloserKnown(x)' /\ stops' = stops
           /\ "broker" \in closed /\ pc["janitor"] = "exited"
           /\ pc'[x] \in {"done", "next"}
<1> USE DEF janitor
<1> DEFINE l == Current(x).lock
<1>1. /\ TypeOK /\ x \in Process /\ x # "janitor" /\ LocksTyped
      /\ CloserKnown(x) /\ pc[x] = "partition" /\ todo[x] # <<>>
  BY Names DEF LInv, TypeOK, LocksTyped, Close_Partition, CloserKnown
<1>2. /\ l \in Lock /\ l \in Partition
      /\ Tail(todo[x]) \in Seq(Section)
      /\ \A i \in 1..Len(Tail(todo[x])) : Tail(todo[x])[i].lock \in Partition
  BY <1>1, CurrentTyped DEF CloserKnown
<1>3. /\ closed' = closed \cup {l} /\ DropLock(l)
      /\ writer[l] = Nobody /\ readers[l] = {}
      /\ todo' = [todo EXCEPT ![x] = Tail(@)]
      /\ pc' = [pc EXCEPT
                   ![x] = IF Tail(todo[x]) = <<>> THEN "done" ELSE "next"]
      /\ UNCHANGED <<interval, kick, closings, replaced, stops, wait>>
  BY DEF Close_Partition, LockFree, Goto
<1> HIDE DEF l
<1>4. LocksTyped' /\ Keeps(x)
  BY <1>1, <1>2, <1>3, LockSteps
<1>5. NobodyCaught
  <2> SUFFICES ASSUME NEW y \in Worker, pc[y] = "inside", Current(y).lock = l
               PROVE  FALSE
    BY <1>2, <1>3, Names DEF NobodyCaught
  <2>1. /\ Current(y).mode \in {"r", "w"} /\ y # Nobody
        /\ Current(y).mode = "w" => writer[l] = y
        /\ Current(y).mode = "r" => y \in readers[l]
    BY <1>1, CurrentTyped, Names DEF LInv, WorkerKnown
  <2> QED
    BY <1>3, <2>1
<1>6. /\ pc'[x] \in {"done", "next"} /\ todo'[x] = Tail(todo[x])
      /\ pc'["janitor"] = pc["janitor"]
  BY <1>1, <1>3, Names DEF TypeOK
<1>7. "broker" \in closed /\ pc["janitor"] = "exited"
  BY <1>1 DEF CloserKnown
<1>8. CloserKnown(x)'
  BY <1>2, <1>3, <1>6, <1>7 DEF CloserKnown
<1>9. /\ todo' \in [Process -> Seq(Section)]
      /\ closed' \subseteq Partition \cup {"broker"}
  BY <1>1, <1>2, <1>3 DEF TypeOK
<1> QED
  BY <1>1, <1>3, <1>4, <1>5, <1>6, <1>7, <1>8, <1>9
     DEF CloserMoves, Frame, CloserLabel, TypeOK

LEMMA ClosePreserves ==
    ASSUME LInv, NEW x \in Closer, CloseStep(x)
    PROVE  LInv'
<1> USE DEF janitor
<1>1. CloserMoves(x) /\ CloserKnown(x)'
  BY CloseMoves, FlagMoves, PartitionMoves DEF CloseStep
<1>2. /\ TypeOK /\ x \in Process /\ x # "janitor" /\ Frame(x) /\ NobodyCaught
      /\ x \notin Worker /\ closed \subseteq closed'
  BY <1>1, Names DEF LInv, CloserMoves
<1>3. /\ \A y \in Worker : WorkerKnown(y)'
      /\ \A y \in Closer : CloserKnown(y)'
  BY <1>1, <1>2, OthersKnown, Names
<1>4. /\ pc'[x] \in CloserLabel /\ pc'["janitor"] = pc["janitor"]
      /\ \A y \in Process : y # x => pc'[y] = pc[y]
  <2>1. pc'[x] \in CloserLabel
    BY <1>1, <1>2 DEF CloserMoves, TypeOK
  <2> QED
    BY <1>2, <2>1, Names DEF Frame
<1>5. KicksOnce'
  <2>1. pc'[x] \notin {"idle", "announced", "kick"}
    BY <1>4 DEF CloserLabel
  <2> QED
    BY <1>1, <1>4, <2>1, Names DEF LInv, KicksOnce, CloserMoves
<1>6. ClosedInOrder'
  <2>1. CASE closed' \cap Partition = closed \cap Partition
    BY <1>2, <1>4, <2>1 DEF LInv, ClosedInOrder
  <2>2. CASE Close_Partition(x)
    BY <1>2, <1>4, <2>2, PartitionMoves DEF ClosedInOrder
  <2>3. CASE Close_Flag(x)
    BY <2>1, <2>3, Names DEF Close_Flag
  <2> QED
    BY <2>1, <2>2, <2>3, CloseMoves DEF CloseStep
<1>7. StopsOnce' /\ stops' \in 0..1
  <2>0. /\ StopsOnce /\ stops \in 0..1
        /\ pc \in [Process -> {"idle", "section", "announced", "inside",
                               "refused", "done", "arm", "select", "exited",
                               "kick", "mu announced", "mu", "gmu announced",
                               "stop", "wait", "next", "partition"}]
        /\ \A y \in Closer : CloserKnown(y)
    BY DEF LInv, TypeOK
  <2>1. CASE Close_Stop(x)
    <3>1. /\ pc[x] = "stop" /\ stops' = stops + 1 /\ closed' = closed
          /\ pc'[x] = "wait" /\ stops = 0 /\ "broker" \in closed
      BY <1>2, <2>0, <2>1 DEF Close_Stop, Goto, CloserKnown, StopsOnce
    <3>2. \A y \in Closer : pc'[y] # "stop"
      BY <1>4, <2>0, <3>1, Names DEF StopsOnce
    <3>3. stops' = 1
      BY <3>1
    <3> QED
      BY <3>1, <3>2, <3>3 DEF StopsOnce
  <2>2. CASE Close_Flag(x)
    <3>1. /\ stops' = stops /\ closed' = closed \cup {"broker"}
          /\ pc'[x] = IF "broker" \in closed THEN "done" ELSE "stop"
      BY <1>2, <2>0, <2>2 DEF Close_Flag, Goto
    <3>2. \A y \in Closer : pc[y] = "stop" => "broker" \in closed
      BY <2>0 DEF CloserKnown
    <3>3. stops \in 0..1 /\ (stops > 0 => "broker" \in closed)
      BY <2>0 DEF StopsOnce
    <3>4. CASE "broker" \in closed
      <4>1. \A y \in Closer : pc'[y] = "stop" => pc[y] = "stop" /\ y # x
        BY <1>4, <3>1, <3>4, Names
      <4> QED
        BY <2>0, <3>1, <3>3, <4>1 DEF StopsOnce
    <3>5. CASE "broker" \notin closed
      <4>1. \A y \in Closer : pc'[y] = "stop" => y = x
        BY <1>4, <3>1, <3>2, <3>5, Names
      <4>2. stops' = 0
        BY <3>1, <3>3, <3>5
      <4> QED
        BY <3>1, <4>1, <4>2 DEF StopsOnce
    <3> QED
      BY <3>4, <3>5
  <2>3. CASE ~Close_Stop(x) /\ ~Close_Flag(x)
    <3>1. stops' = stops /\ pc'[x] # "stop"
      BY <1>2, <2>0, <2>3
         DEF CloseStep, Close_Announce, Close_LockMu, Close_AnnounceGmu,
             Close_Wait, Close_AnnouncePartition, Close_Partition, Goto
    <3> QED
      BY <1>2, <1>4, <2>0, <3>1, Names DEF StopsOnce
  <2> QED
    BY <2>1, <2>2, <2>3
<1>8. TypeOK'
  <2>1. pc' \in [Process -> {"idle", "section", "announced", "inside",
                             "refused", "done", "arm", "select", "exited",
                             "kick", "mu announced", "mu", "gmu announced",
                             "stop", "wait", "next", "partition"}]
    BY <1>1, <1>2 DEF TypeOK, CloserMoves, CloserLabel
  <2> QED
    BY <1>1, <1>2, <1>7, <2>1 DEF TypeOK, CloserMoves, Frame, LocksTyped
<1> QED
  BY <1>3, <1>5, <1>6, <1>7, <1>8 DEF LInv

-----------------------------------------------------------------------------
LEMMA LifecycleStutter ==
    ASSUME LInv, UNCHANGED vars
    PROVE  LInv'
<1> USE DEF vars, locks, janitor
<1>1. TypeOK' /\ ClosedInOrder' /\ StopsOnce' /\ KicksOnce'
  BY DEF LInv, TypeOK, ClosedInOrder, StopsOnce, KicksOnce
<1>2. /\ \A x \in Worker : WorkerKnown(x)'
      /\ \A x \in Closer : CloserKnown(x)'
  BY DEF LInv, WorkerKnown, CloserKnown, Current
<1> QED
  BY <1>1, <1>2 DEF LInv

(* What always holds of the locks, the flags and who is where.             *)
THEOREM LifecycleInductive == Spec => []LInv
<1>1. ASSUME LInv, Next PROVE LInv'
  <2>1. CASE \E x \in Request : RequestStep(x)
    BY <1>1, <2>1, StartMoves, SectionMoves, WorkerStep, Names DEF RequestStep
  <2>2. CASE JanitorStep
    BY <1>1, <2>2, JanitorMoves, SectionMoves, WorkerStep, Names
       DEF JanitorStep
  <2>3. CASE \E x \in Setter : SetStep(x)
    BY <1>1, <2>3, SetPreserves
  <2>4. CASE \E x \in Closer : CloseStep(x)
    BY <1>1, <2>4, ClosePreserves
  <2>5. CASE Finished
    BY <1>1, <2>5, LifecycleStutter DEF Finished
  <2> QED
    BY <1>1, <2>1, <2>2, <2>3, <2>4, <2>5 DEF Next
<1>2. LInv /\ [Next]_vars => LInv'
  BY <1>1, LifecycleStutter
<1> QED
  BY LifecycleInit, <1>2, PTL DEF Spec

(* Every variable keeps its type; in particular no channel is closed twice.*)
THEOREM LifecycleTyped == Spec => []TypeOK
<1>1. LInv => TypeOK
  BY DEF LInv
<1> QED
  BY LifecycleInductive, <1>1, PTL

(* The janitor has exited before Close closes the first partition.         *)
THEOREM JanitorExitsFirst == Spec => []JanitorGoneFirst
<1>1. LInv => JanitorGoneFirst
  BY DEF LInv, ClosedInOrder, JanitorGoneFirst
<1> QED
  BY LifecycleInductive, <1>1, PTL

(* Once all partitions are closed nothing works on a file or on a state    *)
(* that is saved to one.                                                   *)
THEOREM NothingWorksAfterClose == Spec => []NothingAfterClose
<1>1. ASSUME LInv, Partition \subseteq closed, NEW x \in Worker, Working(x)
      PROVE  FALSE
  <2>1. WorkerKnown(x) /\ pc[x] = "inside"
    BY <1>1 DEF LInv, Working
  <2>2. "broker" \in closed
    BY <1>1, Names DEF LInv, ClosedInOrder
  <2> QED
    BY <1>1, <2>1, <2>2 DEF WorkerKnown, Working
<1>2. LInv => NothingAfterClose
  BY <1>1 DEF NothingAfterClose, Worker
<1> QED
  BY LifecycleInductive, <1>2, PTL
=============================================================================
