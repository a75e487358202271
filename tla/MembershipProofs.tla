-------------------------- MODULE MembershipProofs -------------------------
(***************************************************************************)
(* Proofs about static membership, for any number of clients, sizes, names *)
(* and faults.                                                             *)
(*                                                                         *)
(* An assignment is honoured after a crash because every version of        *)
(* groups.json that may be found then has the member at its ordinal        *)
(* (Honours): a join that is answered leaves one version only, and each    *)
(* version that a later join saves extends the one in memory.  That a      *)
(* fetch finds the member at this ordinal also needs the names to differ,  *)
(* which they do unless a client asks for a name that the broker invents   *)
(* (Clash; what happens then is shown by a counterexample of TLC).         *)
(***************************************************************************)
EXTENDS Membership, WellFoundedInduction, TLAPS

(* Some client asks for a name of the form "member-k".                     *)
Clash == Chosen \cap UNION {1..s : s \in Size} # {}

(* What JoinGroup can have made of a group.                                *)
Grown(v) ==
    /\ v \in TopicState /\ Len(v.members) <= v.size
    /\ \A i \in 1..Len(v.members) : v.members[i] \in Chosen \/ v.members[i] = i
    /\ ~Clash => \A i, j \in 1..Len(v.members) :
                    v.members[i] = v.members[j] => i = j

(* v has every client's member at the ordinal the client was told.         *)
Honours(v) ==
    \A c \in Joined :
       /\ assignment[c].ordinal + 1 \in 1..Len(v.members)
       /\ v.members[assignment[c].ordinal + 1] = assignment[c].name

MInv == /\ TypeOK /\ saved \in stable
        /\ \A v \in stable \cup {topic} : Grown(v) /\ Honours(v)

-----------------------------------------------------------------------------
(* Every non-empty set of naturals has a least element.                    *)
LEMMA NatHasMin ==
    ASSUME NEW S \in SUBSET Nat, S # {}
    PROVE  \E n \in S : \A m \in S : n <= m
<1> DEFINE R == OpToRel(<, Nat)
<1>1. IsWellFoundedOn(R, Nat)
  BY NatLessThanWellFounded, Zenon
<1>2. \A x, y \in Nat : y < x => <<y, x>> \in R
  BY DEF OpToRel
<1> HIDE DEF R
<1>3. PICK x \in S : \A y \in S : <<y, x>> \notin R
  BY <1>1, WFMin
<1>4. \A y \in S : ~ (y < x)
  BY <1>2, <1>3, Zenon
<1> QED
  BY <1>4

(* Lookup finds a member of that name if there is one.                     *)
LEMMA LookupFinds ==
    ASSUME NEW members \in Seq(Name), NEW name
    PROVE  /\ Lookup(members, name) \in -1..(Len(members) - 1)
           /\ Lookup(members, name) >= 0 =>
                 members[Lookup(members, name) + 1] = name
           /\ Lookup(members, name) = -1 =>
                 \A i \in 1..Len(members) : members[i] # name
<1> DEFINE at == {i \in DOMAIN members : members[i] = name}
           least == CHOOSE i \in at : \A j \in at : i <= j
<1>1. DOMAIN members = 1..Len(members) /\ Len(members) \in Nat
  OBVIOUS
<1>2. CASE at = {}
  BY <1>1, <1>2 DEF Lookup
<1>3. CASE at # {}
  <2>1. at \in SUBSET Nat
    BY <1>1
  <2> HIDE DEF at
  <2>2. \E n \in at : \A m \in at : n <= m
    BY <1>3, <2>1, NatHasMin
  <2>3. least \in at
    BY <2>2
  <2>4. Lookup(members, name) = least - 1
    BY <1>3 DEF Lookup, at
  <2> HIDE DEF least
  <2>5. least \in 1..Len(members) /\ members[least] = name
    BY <1>1, <2>3 DEF at
  <2> QED
    BY <1>1, <2>4, <2>5
<1> QED
  BY <1>2, <1>3

(* No member is nameless.                                                  *)
LEMMA NamesTyped ==
    /\ Name \subseteq Nat \ {0} /\ Size \subseteq Nat \ {0}
    /\ \A s \in Size : 1..s \subseteq Name
<1>1. Chosen \subseteq Nat \ {0} /\ Size \subseteq Nat \ {0}
  BY ChosenAssumption, SizeAssumption
<1>2. \A s \in Size : 1..s \subseteq Nat \ {0}
  BY <1>1
<1> QED
  BY <1>1, <1>2 DEF Name

-----------------------------------------------------------------------------
LEMMA MembershipInit == Init => MInv
<1> SUFFICES ASSUME Init PROVE MInv
  OBVIOUS
<1>1. /\ topic = NoTopic /\ saved = NoTopic /\ stable = {NoTopic}
      /\ assignment = [c \in Client |-> NoAssignment] /\ faults = 0
  BY DEF Init
<1>2. NoTopic \in TopicState /\ NoTopic.members = <<>> /\ NoTopic.size = 0
  BY DEF NoTopic, TopicState, Unset
<1>3. Joined = {}
  BY <1>1 DEF Joined
<1>4. Grown(NoTopic) /\ Honours(NoTopic)
  BY <1>2, <1>3 DEF Grown, Honours
<1>5. TypeOK
  <2>1. NoAssignment \in [name : Name \cup {Anonymous}, ordinal : -1..-1]
    BY DEF NoAssignment
  <2> QED
    BY <1>1, <1>2, <2>1, MaxFaultsAssumption DEF TypeOK
<1> QED
  BY <1>1, <1>4, <1>5 DEF MInv

(* A join leaves the members there are where they are, and gives the new   *)
(* one the next ordinal, under a name that nobody has unless names clash.  *)
LEMMA JoinGrows ==
    ASSUME MInv, NEW name \in Chosen \cup {Anonymous}, NEW size \in Size,
           MayJoin(name, size)
    PROVE  LET n == Enlisted(name, size)
               o == OrdinalOf(name)
           IN  /\ Grown(n) /\ Honours(n)
               /\ Len(n.members) \in Nat
               /\ Len(topic.members) <= Len(n.members)
               /\ o + 1 \in 1..Len(n.members) /\ o \in Nat
               /\ n.members[o + 1] = Resolve(name)
               /\ Resolve(name) \in Name
<1> DEFINE known == Lookup(topic.members, name)
<1>1. /\ topic \in TopicState /\ topic.members \in Seq(Name)
      /\ Len(topic.members) \in Nat
      /\ Grown(topic) /\ Honours(topic)
  BY DEF MInv, TypeOK, TopicState
<1>2. /\ known \in -1..(Len(topic.members) - 1)
      /\ known >= 0 => topic.members[known + 1] = name
      /\ known = -1 => \A i \in 1..Len(topic.members) : topic.members[i] # name
  BY <1>1, LookupFinds
<1>3. CASE known >= 0
  <2>1. Enlisted(name, size) = topic /\ OrdinalOf(name) = known
    BY <1>3 DEF Enlisted, OrdinalOf
  <2>2. known + 1 \in 1..Len(topic.members) /\ known \in Nat
    BY <1>1, <1>2, <1>3
  <2>3. name \in Name
    BY <1>1, <1>2, <1>3, <2>2
  <2>4. Resolve(name) = name
    BY <2>3, NamesTyped DEF Resolve, Anonymous
  <2> QED
    BY <1>1, <1>2, <1>3, <2>1, <2>2, <2>3, <2>4
<1>4. CASE known = -1
  <2> DEFINE n == Enlisted(name, size)
             k == Len(topic.members)
  <2>1. /\ n = [size |-> size, members |-> Append(topic.members, Resolve(name))]
        /\ OrdinalOf(name) = k /\ k < size
    BY <1>4 DEF Enlisted, OrdinalOf, MayJoin
  <2>2. k + 1 \in 1..size /\ size \in Nat
    BY <1>1, <2>1, NamesTyped
  <2>3. /\ Resolve(name) \in Name
        /\ Resolve(name) \in Chosen \/ Resolve(name) = k + 1
    BY <2>2, NamesTyped DEF Resolve, Name
  <2>4. /\ n.members \in Seq(Name) /\ Len(n.members) = k + 1
        /\ n.members[k + 1] = Resolve(name) /\ n.size = size
        /\ \A i \in 1..k : n.members[i] = topic.members[i]
    BY <1>1, <2>1, <2>3
  <2> HIDE DEF n
  <2>5. n \in TopicState /\ Len(n.members) <= n.size
    BY <1>1, <2>1, <2>2, <2>3, <2>4 DEF TopicState
  <2>6. \A i \in 1..Len(n.members) : n.members[i] \in Chosen \/ n.members[i] = i
    BY <1>1, <2>3, <2>4 DEF Grown
  <2>7. ASSUME ~Clash, NEW i \in 1..k, topic.members[i] = Resolve(name)
        PROVE  FALSE
    <3>1. CASE name = Anonymous
      <4>1. Resolve(name) = k + 1
        BY <3>1 DEF Resolve
      <4>2. k + 1 \notin Chosen
        BY <2>2, <2>7 DEF Clash
      <4> QED
        BY <1>1, <2>7, <4>1, <4>2 DEF Grown
    <3>2. CASE name # Anonymous
      BY <1>2, <1>4, <2>7, <3>2 DEF Resolve
    <3> QED
      BY <3>1, <3>2
  <2>8. ASSUME ~Clash, NEW i \in 1..Len(n.members), NEW j \in 1..Len(n.members),
               n.members[i] = n.members[j]
        PROVE  i = j
    <3>1. CASE i \in 1..k /\ j \in 1..k
      BY <1>1, <2>4, <2>8, <3>1 DEF Grown
    <3>2. CASE i = k + 1 \/ j = k + 1
      BY <1>1, <2>4, <2>7, <2>8, <3>2, SMTT(30)
    <3> QED
      BY <1>1, <2>4, <3>1, <3>2
  <2>9. Grown(n)
    BY <2>5, <2>6, <2>8 DEF Grown
  <2>10. Honours(n)
    BY <1>1, <2>4 DEF Honours
  <2> QED
    BY <1>1, <2>1, <2>2, <2>3, <2>4, <2>9, <2>10 DEF n
<1> QED
  BY <1>2, <1>3, <1>4

(* Honours and Joined speak of the clients' answers.                       *)
LEMMA JoinStep ==
    ASSUME MInv, NEW name \in Chosen \cup {Anonymous}, NEW size \in Size,
           \/ \E c \in Client : Join(c, name, size)
           \/ Join_Fail(name, size) \/ Join_SyncFail(name, size)
    PROVE  MInv'
<1> DEFINE n == Enlisted(name, size)
           o == OrdinalOf(name)
<1>1. MayJoin(name, size) /\ topic' = n
  BY DEF Join, Join_Fail, Join_SyncFail
<1>2. /\ Grown(n) /\ Honours(n) /\ Len(n.members) \in Nat
      /\ Len(topic.members) <= Len(n.members) /\ Len(topic.members) \in Nat
      /\ o + 1 \in 1..Len(n.members) /\ o \in Nat
      /\ n.members[o + 1] = Resolve(name) /\ Resolve(name) \in Name
  BY <1>1, JoinGrows DEF MInv, TypeOK, TopicState
<1> HIDE DEF n, o
<1>3. \A v : Grown(v)' <=> Grown(v)
  BY DEF Grown, Clash, TopicState
<1>4. n \in TopicState /\ Len(n.members) <= n.size
  BY <1>2 DEF Grown
<1>5. ASSUME NEW c \in Client, Join(c, name, size)
      PROVE  MInv'
  <2> DEFINE a == [name |-> Resolve(name), ordinal |-> o]
  <2>1. /\ saved' = n /\ stable' = {n} /\ faults' = faults
        /\ assignment' = [assignment EXCEPT ![c] = a]
    BY <1>1, <1>5 DEF Join, o
  <2>2. /\ a.name = Resolve(name) /\ a.ordinal = o
        /\ a \in [name : Name \cup {Anonymous},
                  ordinal : -1..(Len(n.members) - 1)]
    BY <1>2
  <2> HIDE DEF a
  <2>3. /\ assignment' \in [Client ->
              [name : Name \cup {Anonymous},
               ordinal : -1..(Len(n.members) - 1)]]
    <3>1. \A d \in Client : assignment[d] \in [name : Name \cup {Anonymous},
                               ordinal : -1..(Len(n.members) - 1)]
      <4>1. \A i \in -1..(Len(topic.members) - 1) :
               i \in -1..(Len(n.members) - 1)
        BY <1>2
      <4>2. \A d \in Client : assignment[d] \in [name : Name \cup {Anonymous},
                                 ordinal : -1..(Len(topic.members) - 1)]
        BY DEF MInv, TypeOK
      <4> QED
        BY <4>1, <4>2
    <3> QED
      BY <2>1, <2>2, <3>1 DEF MInv, TypeOK
  <2>4. TypeOK'
    BY <1>1, <1>4, <2>1, <2>3 DEF MInv, TypeOK, TopicState
  <2>5. ASSUME NEW v, v = n
        PROVE  Honours(v)'
    <3>1. ASSUME NEW d \in Client, assignment'[d] # NoAssignment
          PROVE  /\ assignment'[d].ordinal + 1 \in 1..Len(v.members)
                 /\ v.members[assignment'[d].ordinal + 1] = assignment'[d].name
      <4>1. CASE d = c
        BY <1>2, <2>1, <2>2, <2>5, <4>1 DEF MInv, TypeOK
      <4>2. CASE d # c
        BY <1>2, <2>1, <2>5, <3>1, <4>2 DEF MInv, TypeOK, Honours, Joined
      <4> QED
        BY <4>1, <4>2
    <3> QED
      BY <3>1 DEF Honours, Joined
  <2> QED
    BY <1>1, <1>2, <1>3, <2>1, <2>4, <2>5 DEF MInv
<1>6. CASE Join_Fail(name, size) \/ Join_SyncFail(name, size)
  <2>1. /\ assignment' = assignment /\ faults' \in 0..MaxFaults
        /\ \/ saved' = saved /\ stable' = stable
           \/ saved' = n /\ stable' = stable \cup {n}
    BY <1>1, <1>6, MaxFaultsAssumption
       DEF Join_Fail, Join_SyncFail, Fault, MInv, TypeOK
  <2>2. assignment \in [Client -> [name : Name \cup {Anonymous},
                                  ordinal : -1..(Len(n.members) - 1)]]
    <3>1. \A i \in -1..(Len(topic.members) - 1) : i \in -1..(Len(n.members) - 1)
      BY <1>2
    <3> QED
      BY <3>1 DEF MInv, TypeOK
  <2>3. TypeOK'
    BY <1>1, <1>4, <2>1, <2>2 DEF MInv, TypeOK, TopicState
  <2>4. \A v : Honours(v)' <=> Honours(v)
    BY <2>1 DEF Honours, Joined
  <2> QED
    BY <1>1, <1>2, <1>3, <2>1, <2>3, <2>4 DEF MInv
<1> QED
  BY <1>5, <1>6

(* A client that stops no longer counts as joined.                         *)
LEMMA StopStep ==
    ASSUME MInv, NEW c \in Client, Client_Stop(c)
    PROVE  MInv'
<1>1. /\ assignment' = [assignment EXCEPT ![c] = NoAssignment]
      /\ UNCHANGED <<topic, saved, stable, faults>>
  BY DEF Client_Stop
<1>2. TypeOK'
  <2>1. NoAssignment \in [name : Name \cup {Anonymous},
                         ordinal : -1..(Len(topic.members) - 1)]
    BY DEF NoAssignment, MInv, TypeOK, TopicState
  <2> QED
    BY <1>1, <2>1 DEF MInv, TypeOK, TopicState
<1>3. ASSUME NEW v, Honours(v)
      PROVE  Honours(v)'
  <2>1. \A d \in Joined' : d \in Joined /\ assignment'[d] = assignment[d]
    BY <1>1 DEF MInv, TypeOK, Joined
  <2> QED
    BY <1>3, <2>1 DEF Honours
<1>4. \A v : Grown(v)' <=> Grown(v)
  BY DEF Grown, Clash, TopicState
<1> QED
  BY <1>1, <1>2, <1>3, <1>4 DEF MInv

(* A restart goes back to a version that honours every answer.             *)
LEMMA CrashStep ==
    ASSUME MInv, ProcessCrash \/ OSCrash
    PROVE  MInv'
<1>1. PICK v \in stable : topic' = v /\ saved' = v
  BY DEF MInv, ProcessCrash, OSCrash
<1>2. /\ assignment' = assignment /\ faults' \in 0..MaxFaults
      /\ v \in stable' /\ stable' \subseteq stable
  BY <1>1, MaxFaultsAssumption
     DEF MInv, TypeOK, ProcessCrash, OSCrash, Fault
<1>3. Grown(v) /\ Honours(v)
  BY DEF MInv
<1>4. TypeOK'
  <2>1. /\ v \in TopicState /\ Len(v.members) <= v.size
        /\ Len(v.members) \in Nat
    BY <1>3 DEF Grown, TopicState
  <2>2. ASSUME NEW c \in Client
        PROVE  assignment[c] \in [name : Name \cup {Anonymous},
                                 ordinal : -1..(Len(v.members) - 1)]
    <3>1. /\ assignment[c] \in [name : Name \cup {Anonymous},
                                ordinal : -1..(Len(topic.members) - 1)]
          /\ Len(topic.members) \in Nat
      BY DEF MInv, TypeOK, TopicState
    <3>2. CASE c \in Joined
      <4>1. assignment[c].ordinal + 1 \in 1..Len(v.members)
        BY <1>3, <3>2 DEF Honours
      <4>2. assignment[c].ordinal \in -1..(Len(v.members) - 1)
        BY <2>1, <3>1, <4>1
      <4> QED
        BY <3>1, <4>2
    <3>3. CASE c \notin Joined
      BY <2>1, <3>3 DEF Joined, NoAssignment
    <3> QED
      BY <3>2, <3>3
  <2>3. assignment' \in [Client -> [name : Name \cup {Anonymous},
                                   ordinal : -1..(Len(topic'.members) - 1)]]
    BY <1>1, <1>2, <2>2 DEF MInv, TypeOK
  <2>4. stable' \in SUBSET TopicState
    BY <1>2 DEF MInv, TypeOK
  <2> QED
    BY <1>1, <1>2, <2>1, <2>3, <2>4 DEF TypeOK, TopicState
<1>5. \A w : (Grown(w)' <=> Grown(w)) /\ (Honours(w)' <=> Honours(w))
  BY <1>2 DEF Grown, Clash, TopicState, Honours, Joined
<1> QED
  BY <1>1, <1>2, <1>3, <1>4, <1>5 DEF MInv

LEMMA StutterStep ==
    ASSUME MInv, UNCHANGED vars
    PROVE  MInv'
  BY DEF MInv, TypeOK, TopicState, Grown, Clash, Honours, Joined, vars

(* What always holds of a group in memory and in every version of          *)
(* groups.json that a restart may find.                                    *)
THEOREM MembershipInductive == Spec => []MInv
<1>1. MInv /\ [Next]_vars => MInv'
  BY JoinStep, StopStep, CrashStep, StutterStep DEF Next
<1> QED
  BY MembershipInit, <1>1, PTL DEF Spec

(* Every variable keeps its type, and no group outgrows its size.          *)
THEOREM MembershipTyped == Spec => []TypeOK
<1>1. MInv => TypeOK
  BY DEF MInv
<1> QED
  BY MembershipInductive, <1>1, PTL

(* A fetch under the name of a join's answer is served as its ordinal.     *)
LEMMA ServedAsTold ==
    ASSUME MInv, ~Clash, NEW c \in Joined
    PROVE  /\ Serves(assignment[c].name) = assignment[c].ordinal
           /\ assignment[c].ordinal \in Nat
<1> DEFINE name == assignment[c].name
           o == assignment[c].ordinal
           at == {i \in DOMAIN topic.members : topic.members[i] = name}
<1>1. /\ topic.members \in Seq(Name) /\ Len(topic.members) \in Nat
      /\ o + 1 \in 1..Len(topic.members) /\ topic.members[o + 1] = name
      /\ o \in Int /\ Grown(topic)
  BY DEF MInv, TypeOK, TopicState, Honours, Joined
<1>2. name # Anonymous
  BY <1>1, NamesTyped DEF Anonymous
<1>3. Lookup(topic.members, name) = o
  <2>1. at = {o + 1}
    BY <1>1 DEF Grown
  <2>2. (CHOOSE i \in at : \A j \in at : i <= j) = o + 1
    BY <1>1, <2>1
  <2> QED
    BY <1>1, <2>1, <2>2 DEF Lookup
<1> QED
  BY <1>1, <1>2, <1>3 DEF Serves

(* An answered join holds for good, through failed saves and crashes,      *)
(* provided that no client asks for a name the broker invents.             *)
THEOREM JoinHoldsForGood == ~Clash => (Spec => []AssignmentHonoured)
<1> SUFFICES ASSUME ~Clash PROVE Spec => []AssignmentHonoured
  OBVIOUS
<1>1. MInv => AssignmentHonoured
  BY ServedAsTold DEF AssignmentHonoured
<1> QED
  BY MembershipInductive, <1>1, PTL

(* Under the same condition, different members fetch different partitions. *)
THEOREM MembersAreDisjoint == ~Clash => (Spec => []NoDuplicatePartition)
<1> SUFFICES ASSUME ~Clash PROVE Spec => []NoDuplicatePartition
  OBVIOUS
<1>1. MInv => NoDuplicatePartition
  BY ServedAsTold DEF NoDuplicatePartition, Fetched
<1> QED
  BY MembershipInductive, <1>1, PTL
=============================================================================
