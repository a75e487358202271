---------------------------- MODULE ProduceProofs ---------------------------
(***************************************************************************)
(* Proofs about producers and the partitions they write to, for any number *)
(* of producers, keys, partitions, retries and kills.                      *)
(*                                                                         *)
(* The order of a key's records rests on what its producer knows when it   *)
(* goes on to the next one: the record before is in the log, or can never  *)
(* get there, or was answered "no such topic" while another attempt went   *)
(* on (PastWritten).  A handler that is still running for an old attempt   *)
(* then only adds a second copy.  Which records those are follows          *)
(* from how handlers relate to their producer (HandlersKnown) and entries  *)
(* to their partition (LogRouted); what an answer names follows from the   *)
(* LEO, which the files of a healthy partition match (LogMatches).         *)
(***************************************************************************)
EXTENDS Produce, FiniteSetTheorems, TLAPS

Keyed(request) == request.partition = -1 /\ request.key # NoKey

(* e is in the files of p.                                                 *)
Holds(p, e) == \E i \in 1..Len(log[p]) : log[p][i] = e

(* A producer that waits has sent something, once more than it retried.    *)
ClientsKnown ==
    /\ \A c \in Producer :
          /\ client[c].attempt <= retries + 1
          /\ client[c].state # "ready" =>
                client[c].seq >= 1 /\ client[c].request \in AnyRequest

(* The producer has given up on h and everything else about its record.    *)
Past(h) == h.seq < client[h.by].seq \/ client[h.by].state = "ready"

HandlersKnown ==
    \A h \in handlers :
       /\ h.seq <= client[h.by].seq
       /\ ~Past(h) => /\ h.request = client[h.by].request
                      /\ h.attempt <= client[h.by].attempt

(* No two handlers serve the same attempt.                                 *)
HandlersDiffer ==
    /\ IsFiniteSet(handlers)
    /\ \A g, h \in handlers :
          g.by = h.by /\ g.seq = h.seq /\ g.attempt = h.attempt => g = h

(* A record is only ever routed to, and found in, a partition that its     *)
(* request allows; one with a key always in the same.                      *)
Allowed(request, p) ==
    /\ p \in Partition
    /\ request.partition \in {-1, p}
    /\ Keyed(request) => p = KeyPick(request.key)

HandlersRouted ==
    \A h \in handlers : h.stage # "route" => Allowed(h.request, h.partition)

LogRouted ==
    \A p \in Partition : \A i \in 1..Len(log[p]) :
       /\ log[p][i].seq <= client[log[p][i].by].seq
       /\ log[p][i].request.fits
       /\ Allowed(log[p][i].request, p)

(* What a healthy partition has published is all there is in its files.    *)
LogMatches ==
    \A p \in Partition : /\ openedAt[p] <= published[p]
                         /\ published[p] <= Len(log[p])
                         /\ p \notin fenced => published[p] = Len(log[p])

(* A handler that has yet to answer knows where its record is.             *)
AnswersKnown ==
    \A h \in handlers : h.stage = "count" =>
       /\ h.offset \in 0..(published[h.partition] - 1)
       /\ log[h.partition][h.offset + 1] = EntryOf(h)

PastWritten ==
    \A h \in handlers :
       Past(h) /\ h.stage # "count" /\ h.request.fits /\ Keyed(h.request)
         => \/ EntryOf(h) \in doubtful
            \/ Holds(KeyPick(h.request.key), EntryOf(h))

(* Nothing gets past the lookup of a topic that does not exist.            *)
TopicFirst ==
    ~topic => /\ \A h \in handlers : h.stage = "route"
              /\ \A p \in Partition : log[p] = <<>>

(* No request of e is left, none will come, and no partition holds e.      *)
Gone(e) ==
    /\ e.seq <= client[e.by].seq /\ Past(e)
    /\ \A h \in handlers : EntryOf(h) # e
    /\ \A p \in Partition : ~Holds(p, e)

(* A rejected record is one that no partition takes, or one that was gone  *)
(* by the time of the answer, unless that answer was doubtful.             *)
NeverTaken(e) ==
    ~e.request.fits \/ e.request.partition \notin Partition \cup {-1}

RejectedFinally ==
    \A e \in rejected : NeverTaken(e) \/ e \in doubtful \/ Gone(e)

(* KeyOrder, said with the indexes of the files.                           *)
Follows(d, e) ==
    /\ d.by = e.by /\ d.seq < e.seq /\ d.request.key = e.request.key
    /\ Keyed(d.request) /\ Keyed(e.request)

KeysOrdered ==
    \A p, q \in Partition : \A i \in 1..Len(log[p]), j \in 1..Len(log[q]) :
       Follows(log[p][i], log[q][j])
         => /\ p = q
            /\ \/ log[p][i] \in doubtful
               \/ \E k \in 1..Len(log[p]) : log[p][k] = log[p][i] /\ k < j

CounterBehind == rr <= picked

AppendedFinite == IsFiniteSet(Appended)

PInv == /\ TypeOK /\ ClientsKnown /\ HandlersKnown /\ HandlersDiffer
        /\ HandlersRouted /\ LogRouted /\ LogMatches /\ AnswersKnown
        /\ PastWritten /\ TopicFirst /\ RejectedFinally /\ CounterBehind
        /\ AppendedFinite /\ AckNamesRecord /\ KeysOrdered /\ CountsThisProcess

-----------------------------------------------------------------------------
(* The constants have the values the arithmetic needs.                     *)
LEMMA Constants ==
    /\ NoKey \notin Key /\ N \in Nat \ {0} /\ SignBit \in Nat \ {0}
    /\ Word \in Nat /\ Word > 0 /\ SignBit < Word
    /\ \A k \in Key : Hash[k] \in Nat
    /\ MaxSeq \in Nat /\ MaxRetries \in Nat /\ MaxCrashes \in Nat
    /\ Partition \subseteq Nat /\ -1 \notin Partition
    /\ AnyRequest \subseteq [key : Key \cup {NoKey}, partition : -1..N,
                             fits : BOOLEAN]
<1>1. /\ NoKey \notin Key /\ N \in Nat \ {0} /\ SignBit \in Nat \ {0}
      /\ MaxSeq \in Nat /\ MaxRetries \in Nat /\ MaxCrashes \in Nat
  BY ProduceAssumption
<1>2. Word \in Nat /\ Word > 0 /\ SignBit < Word
  BY <1>1 DEF Word
<1>3. \A k \in Key : Hash[k] \in Nat
  BY <1>1, ProduceAssumption
<1>4. Partition \subseteq Nat /\ -1 \notin Partition
  BY <1>1 DEF Partition
<1>5. AnyRequest \subseteq [key : Key \cup {NoKey}, partition : -1..N,
                            fits : BOOLEAN]
  BY ProduceAssumption DEF AnyRequest
<1> QED
  BY <1>1, <1>2, <1>3, <1>4, <1>5

(* Both ways to pick a partition find one, unless the counter is negative. *)
LEMMA PicksTyped ==
    ASSUME rr \in 0..(Word - 1)
    PROVE  /\ \A k \in Key : KeyPick(k) \in Partition
           /\ (rr + 1) % Word \in 0..(Word - 1) /\ (rr + 1) % Word <= rr + 1
           /\ NextPick >= 0 => NextPick \in Partition
           /\ NextPick < 0 => rr >= SignBit
<1>1. \A k \in Key : KeyPick(k) \in Partition
  BY Constants DEF KeyPick, Partition
<1>2. (rr + 1) % Word \in 0..(Word - 1) /\ (rr + 1) % Word <= rr + 1
  BY Constants
<1>3. CASE rr < SignBit
  <2>1. rr \in Nat /\ NextPick = rr % N
    BY <1>3, Constants DEF NextPick, Signed, GoMod
  <2> QED
    BY <1>1, <1>2, <1>3, <2>1, Constants DEF Partition
<1>4. CASE rr >= SignBit
  <2>1. /\ Word - rr \in Nat \ {0}
        /\ NextPick = -((Word - rr) % N)
    BY <1>4, Constants DEF NextPick, Signed, GoMod, Word
  <2>2. (Word - rr) % N \in 0..(N - 1)
    BY <2>1, Constants
  <2>3. NextPick >= 0 => NextPick \in 0..(N - 1)
    BY <2>1, <2>2, Constants
  <2> QED
    BY <1>1, <1>2, <1>4, <2>3 DEF Partition
<1> QED
  BY <1>3, <1>4, Constants

(* A handler's fields, and what it stands for in a log.                    *)
LEMMA HandlerTyped ==
    ASSUME TypeOK, NEW h \in handlers
    PROVE  /\ h \in Handler /\ h.by \in Producer /\ h.seq \in 1..MaxSeq
           /\ h.attempt \in 1..(MaxRetries + 1) /\ h.request \in AnyRequest
           /\ EntryOf(h) \in Entry
           /\ h.stage # "route" => h.partition \in Partition
           /\ client[h.by].seq \in 0..MaxSeq
           /\ client[h.by].attempt \in 0..(MaxRetries + 1)
           /\ client[h.by].state \in {"ready", "waiting", "unsure"}
<1>1. h \in Handler /\ (h.stage # "route" => h.partition \in Partition)
  BY DEF TypeOK
<1>2. /\ h.by \in Producer /\ h.seq \in 1..MaxSeq
      /\ h.attempt \in 1..(MaxRetries + 1) /\ h.request \in AnyRequest
  BY <1>1 DEF Handler
<1>3. EntryOf(h) \in Entry
  BY <1>2 DEF EntryOf, Entry
<1>4. client[h.by] \in [state : {"ready", "waiting", "unsure"},
                        seq : 0..MaxSeq, attempt : 0..(MaxRetries + 1),
                        request : AnyRequest \cup {NoRequest}]
  BY <1>2 DEF TypeOK
<1> QED
  BY <1>1, <1>2, <1>3, <1>4

LEMMA ProduceInit == Init => PInv
<1> SUFFICES ASSUME Init PROVE PInv
  OBVIOUS
<1> USE DEF Init
<1>1. TypeOK
  <2>1. NoRequest \in AnyRequest \cup {NoRequest} /\ 0 \in 0..MaxSeq
        /\ 0 \in 0..(MaxRetries + 1) /\ 0 \in 0..(Word - 1)
        /\ 0 \in 0..MaxRetries /\ 0 \in 0..MaxCrashes
    BY Constants
  <2>2. <<>> \in Seq(Entry)
    OBVIOUS
  <2> QED
    BY <2>1, <2>2 DEF TypeOK
<1>2. ClientsKnown /\ HandlersKnown /\ HandlersDiffer /\ HandlersRouted
  BY FS_EmptySet
     DEF ClientsKnown, HandlersKnown, HandlersDiffer, HandlersRouted
<1>3. \A p \in Partition : log[p] = <<>> /\ Len(log[p]) = 0
  OBVIOUS
<1>4. LogRouted /\ LogMatches /\ AnswersKnown /\ PastWritten
  BY <1>3 DEF LogRouted, LogMatches, AnswersKnown, PastWritten
<1>5. RejectedFinally /\ CounterBehind /\ AckNamesRecord /\ TopicFirst
  BY <1>3 DEF RejectedFinally, CounterBehind, AckNamesRecord, TopicFirst
<1>6. KeysOrdered
  BY <1>3 DEF KeysOrdered
<1>7. CountsThisProcess /\ AppendedFinite
  <2>1. Appended = {}
    BY DEF Appended
  <2>2. {h \in handlers : h.stage = "count"} = {}
    OBVIOUS
  <2> QED
    BY <2>1, <2>2, FS_EmptySet DEF CountsThisProcess, AppendedFinite
<1> QED
  BY <1>1, <1>2, <1>4, <1>5, <1>6, <1>7 DEF PInv

-----------------------------------------------------------------------------
(* What one step of a handler does to its producer, to the handlers and to *)
(* the files.                                                              *)
ClientMoves(h) ==
    \/ client' = client
    \/ /\ Expected(h)
       /\ \/ client' = [client EXCEPT ![h.by].state = "unsure"]
          \/ client' = [client EXCEPT ![h.by].state = "ready",
                                      ![h.by].attempt = 0,
                                      ![h.by].request = NoRequest]

SameAttempt(g, h) ==
    /\ g.by = h.by /\ g.seq = h.seq /\ g.attempt = h.attempt
    /\ g.request = h.request

HandlerMoves(h) ==
    \/ handlers' = handlers \ {h}
    \/ /\ client' = client
       /\ \E g \in Handler :
             /\ handlers' = (handlers \ {h}) \cup {g}
             /\ SameAttempt(g, h)
             /\ g.stage # "route" /\ Allowed(g.request, g.partition)

LogMoves(h) ==
    /\ fenced \subseteq fenced' /\ fenced' \subseteq Partition
    /\ \/ log' = log /\ published' = published
       \/ /\ h.stage = "append" /\ h.request.fits /\ h.partition \notin fenced
          /\ log' = [log EXCEPT ![h.partition] = Append(@, EntryOf(h))]
          /\ \/ published' = [published EXCEPT ![h.partition] = @ + 1]
             \/ published' = published /\ h.partition \in fenced'

(* A handler that is routed stays the handler of its attempt.              *)
LEMMA RoutedMoves ==
    ASSUME TypeOK, NEW h \in handlers, NEW p \in Partition, Routed(h, p),
           Allowed(h.request, p)
    PROVE  HandlerMoves(h)
<1> DEFINE g == [h EXCEPT !.stage = "append", !.partition = p]
<1>1. h \in Handler /\ p \in Int
  BY HandlerTyped, Constants
<1>2. /\ g \in Handler /\ g.by = h.by /\ g.seq = h.seq
      /\ g.attempt = h.attempt /\ g.request = h.request
      /\ g.stage = "append" /\ g.partition = p
  BY <1>1 DEF Handler
<1>3. handlers' = (handlers \ {h}) \cup {g} /\ client' = client
  BY DEF Routed
<1> HIDE DEF g
<1> QED
  BY <1>2, <1>3 DEF HandlerMoves, SameAttempt

(* So does one whose record is published.                                  *)
LEMMA PublishMoves ==
    ASSUME TypeOK, HandlersRouted, NEW h \in handlers, h.stage = "append",
           Publish(h, published[h.partition])
    PROVE  /\ client' = client
           /\ \E g \in Handler :
                /\ handlers' = (handlers \ {h}) \cup {g}
                /\ SameAttempt(g, h) /\ EntryOf(g) = EntryOf(h)
                /\ g.stage = "count" /\ g.partition = h.partition
                /\ g.offset = published[h.partition]
                /\ Allowed(g.request, g.partition)
<1> DEFINE g == [h EXCEPT !.stage = "count",
                          !.offset = published[h.partition]]
<1>1. /\ h \in Handler /\ published[h.partition] \in Int
      /\ Allowed(h.request, h.partition)
  BY HandlerTyped DEF TypeOK, HandlersRouted
<1>2. /\ g \in Handler /\ g.by = h.by /\ g.seq = h.seq
      /\ g.attempt = h.attempt /\ g.request = h.request
      /\ g.stage = "count" /\ g.partition = h.partition
      /\ g.offset = published[h.partition]
  BY <1>1 DEF Handler
<1>3. handlers' = (handlers \ {h}) \cup {g} /\ client' = client
  BY DEF Publish
<1> HIDE DEF g
<1>4. EntryOf(g) = EntryOf(h) /\ SameAttempt(g, h)
  BY <1>2 DEF EntryOf, SameAttempt
<1> QED
  BY <1>1, <1>2, <1>3, <1>4

LEMMA HandleMoves ==
    ASSUME PInv, NEW h \in handlers, Handle(h)
    PROVE  /\ ClientMoves(h) /\ HandlerMoves(h) /\ LogMoves(h)
           /\ UNCHANGED <<retries, crashes, openedAt>>
<1> USE DEF broker, history, faults
<1>1. /\ TypeOK /\ HandlersRouted /\ rr \in 0..(Word - 1)
      /\ fenced \subseteq Partition
      /\ h.stage # "route" => h.partition \in Partition
      /\ h.request.key \in Key \cup {NoKey}
      /\ h.request.partition \in -1..N
  <2>1. /\ TypeOK /\ HandlersRouted /\ rr \in 0..(Word - 1)
        /\ fenced \subseteq Partition
    BY DEF PInv, TypeOK
  <2>2. /\ h.request \in AnyRequest
        /\ h.stage # "route" => h.partition \in Partition
    BY <2>1, HandlerTyped
  <2>3. h.request \in [key : Key \cup {NoKey}, partition : -1..N,
                       fits : BOOLEAN]
    BY <2>2, Constants
  <2> QED
    BY <2>1, <2>2, <2>3
<1>2. CASE Route_Explicit(h)
  <2>1. CASE h.request.partition \in Partition
    <3>1. Routed(h, h.request.partition)
      BY <1>2, <2>1 DEF Route_Explicit
    <3>2. Allowed(h.request, h.request.partition)
      BY <1>2, <2>1 DEF Route_Explicit, Allowed, Keyed
    <3> QED
      BY <1>1, <1>2, <2>1, <3>1, <3>2, RoutedMoves
         DEF Route_Explicit, Routed, ClientMoves, LogMoves
  <2>2. CASE h.request.partition \notin Partition
    BY <1>1, <1>2, <2>2 DEF Route_Explicit, AnswerRejected, Proceed,
                             ClientMoves, HandlerMoves, LogMoves
  <2> QED
    BY <2>1, <2>2
<1>3. CASE Route_Key(h)
  <2>1. Routed(h, KeyPick(h.request.key))
    BY <1>3 DEF Route_Key
  <2>2. h.request.partition = -1 /\ h.request.key # NoKey
    BY <1>3 DEF Route_Key
  <2>3. KeyPick(h.request.key) \in Partition
    BY <1>1, <2>2, PicksTyped
  <2>4. Allowed(h.request, KeyPick(h.request.key))
    BY <2>2, <2>3 DEF Allowed
  <2> QED
    BY <1>1, <1>3, <2>1, <2>3, <2>4, RoutedMoves
       DEF Route_Key, Routed, ClientMoves, LogMoves
<1>4. CASE Route_RoundRobin(h)
  <2>1. CASE NextPick >= 0
    <3>1. Routed(h, NextPick) /\ NextPick \in Partition
      BY <1>1, <1>4, <2>1, PicksTyped DEF Route_RoundRobin
    <3>2. Allowed(h.request, NextPick)
      BY <1>4, <3>1 DEF Route_RoundRobin, Allowed, Keyed
    <3> QED
      BY <1>1, <1>4, <3>1, <3>2, RoutedMoves
         DEF Route_RoundRobin, Routed, ClientMoves, LogMoves
  <2>2. CASE ~(NextPick >= 0)
    BY <1>1, <1>4, <2>2 DEF Route_RoundRobin, AnswerFailed, ClientMoves,
                      HandlerMoves, LogMoves
  <2> QED
    BY <2>1, <2>2
<1>5. CASE Append_Ok(h)
  <2>1. h.stage = "append" /\ Publish(h, published[h.partition])
    BY <1>5 DEF Append_Ok, Healthy
  <2>2. HandlerMoves(h)
    BY <1>1, <2>1, PublishMoves DEF HandlerMoves
  <2> QED
    BY <1>1, <1>5, <2>1, <2>2
       DEF Append_Ok, Healthy, Publish, Write, ClientMoves, LogMoves
<1>6. CASE Append_TooLarge(h)
  BY <1>1, <1>6 DEF Append_TooLarge, AnswerRejected, Proceed, ClientMoves,
              HandlerMoves, LogMoves
<1>7. CASE Append_Uncertain(h)
  <2>1. ClientMoves(h) /\ HandlerMoves(h) /\ UNCHANGED faults
    BY <1>7 DEF Append_Uncertain, AnswerFailed, ClientMoves, HandlerMoves
  <2>2. LogMoves(h)
    BY <1>1, <1>7 DEF Append_Uncertain, Healthy, Write, LogMoves
  <2> QED
    BY <1>7, <2>1, <2>2 DEF Append_Uncertain
<1>8. CASE Append_Fenced(h)
  BY <1>1, <1>8 DEF Append_Fenced, AnswerFailed, ClientMoves, HandlerMoves,
                    LogMoves
<1>9. CASE Count(h)
  BY <1>1, <1>9 DEF Count, AnswerOk, Proceed, ClientMoves, HandlerMoves,
                    LogMoves
<1>10. CASE Route_NoTopic(h)
  BY <1>1, <1>10 DEF Route_NoTopic, AnswerRejected, Proceed, ClientMoves,
                     HandlerMoves, LogMoves
<1> QED
  BY <1>2, <1>3, <1>4, <1>5, <1>6, <1>7, <1>8, <1>9, <1>10 DEF Handle

-----------------------------------------------------------------------------
(* Producers after a handler's step: nobody's record changes, and who has  *)
(* given up on an attempt stays so.                                        *)
LEMMA ClientsAfter ==
    ASSUME TypeOK, NEW h \in handlers, ClientMoves(h)
    PROVE  /\ client' \in [Producer ->
                 [state : {"ready", "waiting", "unsure"}, seq : 0..MaxSeq,
                  attempt : 0..(MaxRetries + 1),
                  request : AnyRequest \cup {NoRequest}]]
           /\ \A c \in Producer :
                /\ client'[c].seq = client[c].seq
                /\ client'[c].state # "ready" =>
                     /\ client[c].state # "ready"
                     /\ client'[c].request = client[c].request
                     /\ client'[c].attempt = client[c].attempt
                /\ client'[c].attempt <= client[c].attempt
                /\ \/ client'[c] = client[c] \/ client'[c].state # "ready"
                   \/ /\ c = h.by /\ client[c].state = "waiting"
                      /\ client[c].seq = h.seq /\ client' # client
<1>1. /\ h.by \in Producer /\ 0 \in 0..(MaxRetries + 1)
      /\ NoRequest \in AnyRequest \cup {NoRequest}
  BY HandlerTyped, Constants
<1>2. client \in [Producer ->
                 [state : {"ready", "waiting", "unsure"}, seq : 0..MaxSeq,
                  attempt : 0..(MaxRetries + 1),
                  request : AnyRequest \cup {NoRequest}]]
  BY DEF TypeOK
<1>3. CASE client' = client
  BY <1>2, <1>3, Constants
<1>4. CASE Expected(h) /\ client' = [client EXCEPT ![h.by].state = "unsure"]
  BY <1>1, <1>2, <1>4, Constants DEF Expected
<1>5. CASE Expected(h) /\ client' = [client EXCEPT ![h.by].state = "ready",
                                      ![h.by].attempt = 0,
                                      ![h.by].request = NoRequest]
  BY <1>1, <1>2, <1>5, Constants, SMTT(30) DEF Expected
<1> QED
  BY <1>3, <1>4, <1>5 DEF ClientMoves

(* Handlers after it: the one that moved, if it goes on, and the others.   *)
LEMMA HandlersAfter ==
    ASSUME TypeOK, NEW h \in handlers, HandlerMoves(h), NEW k \in handlers'
    PROVE  /\ k \in Handler /\ k.by \in Producer /\ k.seq \in 1..MaxSeq
           /\ \/ k \in handlers /\ k # h
              \/ /\ SameAttempt(k, h) /\ EntryOf(k) = EntryOf(h)
                 /\ client' = client
                 /\ k.stage # "route" /\ Allowed(k.request, k.partition)
  BY SMTT(30) DEF TypeOK, HandlerMoves, SameAttempt, EntryOf, Handler

LEMMA HandlersKnownAfter ==
    ASSUME PInv, NEW h \in handlers, Handle(h)
    PROVE  /\ ClientsKnown' /\ HandlersKnown'
           /\ \A k \in handlers' : Past(k) => Past(k)'
<1>1. TypeOK /\ ClientMoves(h) /\ HandlerMoves(h) /\ retries' = retries
  BY HandleMoves DEF PInv
<1>2. retries \in Nat /\ MaxSeq \in Nat /\ MaxRetries \in Nat
  BY <1>1, Constants DEF TypeOK
<1>3. \A c \in Producer : /\ client[c].seq \in Nat /\ client[c].attempt \in Nat
                          /\ client'[c].attempt \in Nat
  <2>1. /\ client \in [Producer ->
              [state : {"ready", "waiting", "unsure"}, seq : 0..MaxSeq,
               attempt : 0..(MaxRetries + 1),
               request : AnyRequest \cup {NoRequest}]]
        /\ client' \in [Producer ->
              [state : {"ready", "waiting", "unsure"}, seq : 0..MaxSeq,
               attempt : 0..(MaxRetries + 1),
               request : AnyRequest \cup {NoRequest}]]
    BY <1>1, ClientsAfter DEF TypeOK
  <2> QED
    BY <1>2, <2>1
<1>4. \A c \in Producer :
         /\ client'[c].seq = client[c].seq
         /\ client'[c].attempt <= client[c].attempt
         /\ client'[c].state # "ready" =>
              /\ client[c].state # "ready"
              /\ client'[c].request = client[c].request
              /\ client'[c].attempt = client[c].attempt
  BY <1>1, ClientsAfter
<1>5. ClientsKnown'
  BY <1>1, <1>2, <1>3, <1>4 DEF PInv, ClientsKnown
<1>6. ASSUME NEW k \in handlers'
      PROVE  /\ Past(k) => Past(k)'
             /\ k.seq <= client'[k.by].seq
             /\ ~Past(k)' => /\ k.request = client'[k.by].request
                             /\ k.attempt <= client'[k.by].attempt
  <2>1. /\ k.by \in Producer
        /\ \/ k \in handlers
           \/ SameAttempt(k, h)
    BY <1>1, HandlersAfter
  <2>2. /\ k.seq <= client[k.by].seq
        /\ ~Past(k) => /\ k.request = client[k.by].request
                       /\ k.attempt <= client[k.by].attempt
    <3>1. CASE k \in handlers
      BY <3>1 DEF PInv, HandlersKnown
    <3>2. CASE SameAttempt(k, h)
      BY <3>2 DEF PInv, HandlersKnown, SameAttempt, Past
    <3> QED
      BY <2>1, <3>1, <3>2
  <2> QED
    BY <1>3, <1>4, <2>1, <2>2 DEF Past
<1> QED
  BY <1>5, <1>6 DEF HandlersKnown

LEMMA HandlersDifferAfter ==
    ASSUME PInv, NEW h \in handlers, Handle(h)
    PROVE  HandlersDiffer' /\ HandlersRouted'
<1>1. TypeOK /\ HandlerMoves(h) /\ HandlersDiffer /\ HandlersRouted
  BY HandleMoves DEF PInv
<1>2. IsFiniteSet(handlers')
  <2>1. IsFiniteSet(handlers \ {h})
    BY <1>1, FS_RemoveElement DEF HandlersDiffer
  <2> QED
    BY <1>1, <2>1, FS_AddElement DEF HandlerMoves
<1>3. ASSUME NEW j \in handlers', NEW k \in handlers', j.by = k.by,
             j.seq = k.seq, j.attempt = k.attempt
      PROVE  j = k
  <2>1. CASE handlers' = handlers \ {h}
    BY <1>1, <1>3, <2>1 DEF HandlersDiffer
  <2>2. CASE \E g \in Handler : /\ handlers' = (handlers \ {h}) \cup {g}
                                /\ SameAttempt(g, h)
    BY <1>1, <1>3, <2>2 DEF HandlersDiffer, SameAttempt
  <2> QED
    BY <1>1, <2>1, <2>2 DEF HandlerMoves
<1>4. HandlersRouted'
  <2>1. \A k \in handlers' : \/ k \in handlers
                             \/ Allowed(k.request, k.partition)
    BY <1>1, HandlersAfter
  <2>2. \A r, p : Allowed(r, p)' <=> Allowed(r, p)
    BY DEF Allowed, Keyed, KeyPick
  <2> QED
    BY <1>1, <2>1, <2>2 DEF HandlersRouted
<1> QED
  BY <1>2, <1>3, <1>4 DEF HandlersDiffer

-----------------------------------------------------------------------------
(* The files after a handler's step: what was there stays where it is, and *)
(* the only record that may be new is the handler's own, at the end.       *)
LEMMA LogsAfter ==
    ASSUME PInv, NEW h \in handlers, LogMoves(h), NEW p \in Partition
    PROVE  /\ log'[p] \in Seq(Entry) /\ Len(log'[p]) \in Nat
           /\ Len(log[p]) \in Nat /\ Len(log[p]) <= Len(log'[p])
           /\ \A i \in 1..Len(log[p]) : log'[p][i] = log[p][i]
           /\ \A i \in 1..Len(log'[p]) :
                \/ i \in 1..Len(log[p])
                \/ /\ p = h.partition /\ h.stage = "append"
                   /\ h.request.fits /\ Allowed(h.request, p)
                   /\ i = Len(log[p]) + 1 /\ log'[p][i] = EntryOf(h)
<1>1. /\ log \in [Partition -> Seq(Entry)] /\ log[p] \in Seq(Entry)
      /\ EntryOf(h) \in Entry
      /\ h.stage = "append" => Allowed(h.request, h.partition)
  BY HandlerTyped DEF PInv, TypeOK, HandlersRouted
<1>2. CASE log'[p] = log[p]
  BY <1>1, <1>2
<1>3. CASE /\ h.stage = "append" /\ h.request.fits /\ p = h.partition
           /\ log'[p] = Append(log[p], EntryOf(h))
  BY <1>1, <1>3
<1> QED
  BY <1>1, <1>2, <1>3 DEF LogMoves

(* A partition goes on holding what it held.                               *)
LEMMA HoldsAfter ==
    ASSUME PInv, NEW h \in handlers, LogMoves(h), NEW p \in Partition, NEW e,
           Holds(p, e)
    PROVE  Holds(p, e)'
<1>1. PICK i \in 1..Len(log[p]) : log[p][i] = e
  BY DEF Holds
<1>2. i \in 1..Len(log'[p]) /\ log'[p][i] = e
  BY <1>1, LogsAfter
<1> QED
  BY <1>2 DEF Holds

LEMMA LogRoutedAfter ==
    ASSUME PInv, NEW h \in handlers, Handle(h)
    PROVE  LogRouted'
<1>1. TypeOK /\ ClientMoves(h) /\ LogMoves(h)
  BY HandleMoves DEF PInv
<1>2. \A c \in Producer : client'[c].seq = client[c].seq
  BY <1>1, ClientsAfter
<1>3. ASSUME NEW p \in Partition, NEW i \in 1..Len(log'[p])
      PROVE  /\ log'[p][i].seq <= client'[log'[p][i].by].seq
             /\ log'[p][i].request.fits
             /\ Allowed(log'[p][i].request, p)
  <2>1. CASE i \in 1..Len(log[p])
    <3>1. log'[p][i] = log[p][i] /\ log[p][i] \in Entry
      BY <1>1, <2>1, LogsAfter DEF TypeOK
    <3> QED
      BY <1>2, <2>1, <3>1 DEF PInv, LogRouted, Entry
  <2>2. CASE /\ h.request.fits /\ Allowed(h.request, p)
             /\ log'[p][i] = EntryOf(h)
    BY <1>1, <1>2, <2>2, HandlerTyped DEF PInv, HandlersKnown, EntryOf
  <2> QED
    BY <1>1, <2>1, <2>2, LogsAfter
<1>4. \A r, p : Allowed(r, p)' <=> Allowed(r, p)
  BY DEF Allowed, Keyed, KeyPick
<1> QED
  BY <1>3, <1>4 DEF LogRouted

-----------------------------------------------------------------------------
(* The LEO follows the files, and falls behind only where a write failed.  *)
LEMMA LogMatchesAfter ==
    ASSUME PInv, NEW h \in handlers, LogMoves(h), openedAt' = openedAt
    PROVE  /\ LogMatches'
           /\ log' \in [Partition -> Seq(Entry)]
           /\ published' \in [Partition -> Nat]
           /\ \A p \in Partition :
                 published[p] \in Nat /\ published[p] <= published'[p]
<1>1. /\ log \in [Partition -> Seq(Entry)] /\ LogMatches
      /\ published \in [Partition -> Nat] /\ openedAt \in [Partition -> Nat]
      /\ EntryOf(h) \in Entry
      /\ h.stage = "append" => h.partition \in Partition
  BY HandlerTyped DEF PInv, TypeOK
<1>2. CASE log' = log /\ published' = published
  BY <1>1, <1>2 DEF LogMatches, LogMoves
<1>3. CASE /\ h.stage = "append" /\ h.partition \notin fenced
           /\ log' = [log EXCEPT ![h.partition] = Append(@, EntryOf(h))]
           /\ \/ published' = [published EXCEPT ![h.partition] = @ + 1]
              \/ published' = published /\ h.partition \in fenced'
  <2>1. ASSUME NEW p \in Partition
        PROVE  /\ published'[p] \in Nat /\ published[p] \in Nat
               /\ published[p] <= published'[p]
               /\ openedAt'[p] <= published'[p]
               /\ published'[p] <= Len(log'[p])
               /\ p \notin fenced' => published'[p] = Len(log'[p])
    <3>1. CASE p = h.partition
      <4>1. /\ log'[p] = Append(log[p], EntryOf(h)) /\ log[p] \in Seq(Entry)
            /\ published[p] \in Nat /\ openedAt[p] \in Nat
            /\ openedAt[p] <= published[p] /\ published[p] = Len(log[p])
            /\ \/ published'[p] = published[p] + 1
               \/ published'[p] = published[p] /\ p \in fenced'
        BY <1>1, <1>3, <3>1 DEF LogMatches
      <4>2. Len(log'[p]) = Len(log[p]) + 1
        BY <1>1, <4>1
      <4> QED
        BY <1>1, <4>1, <4>2, openedAt' = openedAt
    <3>2. CASE p # h.partition
      BY <1>1, <1>3, <3>2 DEF LogMatches, LogMoves
    <3> QED
      BY <3>1, <3>2
  <2>2. log' \in [Partition -> Seq(Entry)]
    BY <1>1, <1>3
  <2>3. published' \in [Partition -> Nat]
    <3>1. \A n \in Nat : n + 1 \in Nat
      OBVIOUS
    <3>2. \/ published' = published
          \/ published' = [published EXCEPT ![h.partition] = @ + 1]
      BY <1>3
    <3> QED
      BY <1>1, <3>1, <3>2
  <2> QED
    BY <2>1, <2>2, <2>3 DEF LogMatches
<1> QED
  BY <1>2, <1>3 DEF LogMoves

(* What a step that neither publishes nor answers a record leaves alone.   *)
Idle(h) ==
    /\ h.stage # "count"
    /\ published' = published /\ counted' = counted /\ acked' = acked
    /\ \A g \in handlers' : g.stage = "count" => g \in handlers
    /\ handlers \ {h} \subseteq handlers'

LEMMA IdleUnless ==
    ASSUME PInv, NEW h \in handlers, Handle(h)
    PROVE  Append_Ok(h) \/ Count(h) \/ Idle(h)
<1> USE DEF broker, history, faults, Idle
<1>1. h \in Handler
  BY HandlerTyped DEF PInv
<1>2. ASSUME NEW p, Routed(h, p)
      PROVE  /\ \A g \in handlers' : g.stage = "count" => g \in handlers
             /\ handlers \ {h} \subseteq handlers' /\ acked' = acked
  BY <1>1, <1>2 DEF Routed, Handler
<1>3. CASE Route_Explicit(h)
  BY <1>2, <1>3 DEF Route_Explicit, AnswerRejected
<1>4. CASE Route_Key(h)
  BY <1>2, <1>4 DEF Route_Key
<1>5. CASE Route_RoundRobin(h)
  BY <1>2, <1>5 DEF Route_RoundRobin, AnswerFailed
<1>6. CASE Append_TooLarge(h)
  BY <1>6 DEF Append_TooLarge, Healthy, AnswerRejected
<1>7. CASE Append_Uncertain(h)
  BY <1>7 DEF Append_Uncertain, Healthy, AnswerFailed
<1>8. CASE Append_Fenced(h)
  BY <1>8 DEF Append_Fenced, AnswerFailed
<1>9. CASE Route_NoTopic(h)
  BY <1>9 DEF Route_NoTopic, AnswerRejected
<1> QED
  BY <1>3, <1>4, <1>5, <1>6, <1>7, <1>8, <1>9 DEF Handle

(* The counters after a handler's step.                                    *)
LEMMA CountersAfter ==
    ASSUME PInv, NEW h \in handlers, Handle(h)
    PROVE  /\ rr' \in 0..(Word - 1) /\ picked' \in Nat /\ CounterBehind'
           /\ counted' \in Nat
<1> USE DEF broker, history, faults
<1>1. /\ TypeOK /\ CounterBehind
      /\ rr \in 0..(Word - 1) /\ picked \in Nat /\ counted \in Nat
  BY DEF PInv, TypeOK
<1>2. \/ rr' = rr /\ picked' = picked
      \/ rr' = (rr + 1) % Word /\ picked' = picked + 1
  BY DEF Handle, Route_NoTopic, Route_Explicit, Route_Key, Route_RoundRobin,
         Append_Ok, Append_TooLarge, Append_Uncertain, Append_Fenced, Count
<1>3. rr' \in 0..(Word - 1) /\ picked' \in Nat /\ CounterBehind'
  BY <1>1, <1>2, PicksTyped, Constants DEF CounterBehind
<1>4. counted' = counted \/ counted' = counted + 1
  BY DEF Handle, Route_NoTopic, Route_Explicit, Route_Key, Route_RoundRobin,
         Append_Ok, Append_TooLarge, Append_Uncertain, Append_Fenced, Count
<1> QED
  BY <1>1, <1>3, <1>4

(* What a handler's step adds to the rejections, and why it may.           *)
LEMMA RejectsBecause ==
    ASSUME PInv, NEW h \in handlers, Handle(h)
    PROVE  /\ topic' = topic
           /\ h.stage = "route" \/ topic
           /\ ~topic => handlers' = handlers \ {h} /\ log' = log
           /\ \/ rejected' = rejected /\ doubtful' = doubtful
              \/ /\ rejected' = rejected \cup {EntryOf(h)}
                 /\ handlers' = handlers \ {h}
                 /\ \/ doubtful' = doubtful /\ NeverTaken(h)
                    \/ /\ Route_NoTopic(h) /\ Expected(h)
                       /\ doubtful' = doubtful \cup AlsoUnderWay(h)
<1> USE DEF broker, history, faults
<1>1. topic \/ h.stage = "route"
  BY DEF PInv, TopicFirst
<1>2. CASE Route_NoTopic(h)
  BY <1>2 DEF Route_NoTopic, AnswerRejected
<1>3. CASE Route_Explicit(h)
  <2>1. CASE h.request.partition \in Partition
    BY <1>3, <2>1 DEF Route_Explicit, Routed
  <2>2. CASE h.request.partition \notin Partition
    BY <1>3, <2>2 DEF Route_Explicit, AnswerRejected, NeverTaken
  <2> QED
    BY <2>1, <2>2
<1>4. CASE Append_TooLarge(h)
  BY <1>1, <1>4 DEF Append_TooLarge, Healthy, AnswerRejected, NeverTaken
<1>5. CASE Route_Key(h) \/ Route_RoundRobin(h)
  BY <1>5 DEF Route_Key, Route_RoundRobin, Routed, AnswerFailed
<1>6. CASE Append_Ok(h) \/ Append_Uncertain(h)
  BY <1>1, <1>6 DEF Append_Ok, Append_Uncertain, Healthy, Publish,
                    AnswerFailed
<1>7. CASE Append_Fenced(h) \/ Count(h)
  BY <1>1, <1>7 DEF Append_Fenced, Count, AnswerFailed, AnswerOk
<1> QED
  BY <1>2, <1>3, <1>4, <1>5, <1>6, <1>7 DEF Handle

LEMMA TopicFirstAfter ==
    ASSUME PInv, NEW h \in handlers, Handle(h)
    PROVE  TopicFirst' /\ topic' \in BOOLEAN
  BY RejectsBecause DEF PInv, TypeOK, TopicFirst

(* A record that is gone does not come back by a handler's step.           *)
LEMMA GoneAfter ==
    ASSUME PInv, NEW h \in handlers, Handle(h), NEW e \in Entry, Gone(e)
    PROVE  Gone(e)'
<1>1. /\ TypeOK /\ ClientMoves(h) /\ HandlerMoves(h) /\ LogMoves(h)
      /\ e.by \in Producer /\ EntryOf(h) # e
  BY HandleMoves DEF PInv, Entry, Gone
<1>2. /\ client'[e.by].seq = client[e.by].seq
      /\ client'[e.by].state # "ready" => client[e.by].state # "ready"
  BY <1>1, ClientsAfter
<1>3. \A k \in handlers' : EntryOf(k) # e
  <2>1. ASSUME NEW k \in handlers'
        PROVE  k \in handlers \/ EntryOf(k) = EntryOf(h)
    BY <1>1, HandlersAfter
  <2> QED
    BY <1>1, <2>1 DEF Gone
<1>4. ASSUME NEW p \in Partition, NEW i \in 1..Len(log'[p]), log'[p][i] = e
      PROVE  FALSE
  <2>1. i \in 1..Len(log[p]) /\ log[p][i] = e
    BY <1>1, <1>4, LogsAfter
  <2> QED
    BY <2>1 DEF Gone, Holds
<1> QED
  BY <1>2, <1>3, <1>4 DEF Gone, Past, Holds, EntryOf

(* A record whose only handler finds no topic is gone with the answer.     *)
LEMMA NoTopicGone ==
    ASSUME PInv, NEW h \in handlers, Route_NoTopic(h), Expected(h),
           EntryOf(h) \notin AlsoUnderWay(h)
    PROVE  Gone(EntryOf(h))'
<1> DEFINE e == EntryOf(h)
<1>1. /\ e.by = h.by /\ e.seq = h.seq /\ h.by \in Producer
      /\ client[h.by].seq = h.seq /\ h.seq \in Nat
      /\ client \in [Producer ->
            [state : {"ready", "waiting", "unsure"}, seq : 0..MaxSeq,
             attempt : 0..(MaxRetries + 1),
             request : AnyRequest \cup {NoRequest}]]
  <2>1. TypeOK /\ client[h.by].seq = h.seq
    BY DEF PInv, Expected
  <2>2. h.by \in Producer /\ h.seq \in Nat
    BY <2>1, HandlerTyped, Constants
  <2> QED
    BY <2>1, <2>2 DEF TypeOK, EntryOf
<1>2. /\ handlers' = handlers \ {h} /\ log' = log
      /\ client' = [client EXCEPT ![h.by].state = "ready",
                                  ![h.by].attempt = 0,
                                  ![h.by].request = NoRequest]
      /\ \A p \in Partition : log[p] = <<>>
  BY DEF Route_NoTopic, AnswerRejected, Proceed, broker, PInv, TopicFirst
<1>3. client'[h.by].state = "ready" /\ client'[h.by].seq = client[h.by].seq
  BY <1>1, <1>2
<1>4. \A g \in handlers' : EntryOf(g) # e
  BY <1>2 DEF AlsoUnderWay
<1>5. \A p \in Partition : 1..Len(log'[p]) = {}
  BY <1>2
<1> HIDE DEF e
<1>6. e.seq <= client'[e.by].seq /\ client'[e.by].state = "ready"
  BY <1>1, <1>3
<1>7. Gone(e)'
  BY <1>4, <1>5, <1>6 DEF Gone, Past, Holds, EntryOf
<1>8. e' = e
  BY DEF e, EntryOf
<1> QED
  BY <1>7, <1>8 DEF e

LEMMA RejectedAfter ==
    ASSUME PInv, NEW h \in handlers, Handle(h)
    PROVE  /\ rejected' \subseteq Entry /\ doubtful' \subseteq Entry
           /\ doubtful \subseteq doubtful' /\ RejectedFinally'
<1>1. /\ rejected \subseteq Entry /\ doubtful \subseteq Entry
      /\ RejectedFinally /\ EntryOf(h) \in Entry
      /\ EntryOf(h).request = h.request
  BY HandlerTyped DEF PInv, TypeOK, EntryOf
<1>2. AlsoUnderWay(h) \subseteq {EntryOf(h)}
  BY DEF AlsoUnderWay
<1>3. /\ rejected' \subseteq rejected \cup {EntryOf(h)}
      /\ doubtful \subseteq doubtful'
      /\ doubtful' \subseteq doubtful \cup {EntryOf(h)}
  BY <1>2, RejectsBecause
<1>4. ASSUME NEW e \in rejected'
      PROVE  NeverTaken(e) \/ e \in doubtful' \/ Gone(e)'
  <2>1. CASE e \in rejected
    BY <1>1, <1>3, <2>1, GoneAfter DEF RejectedFinally
  <2>2. CASE e \notin rejected
    <3>1. /\ e = EntryOf(h) /\ rejected' # rejected
      BY <1>3, <2>2, <1>4
    <3>2. CASE NeverTaken(h)
      BY <1>1, <3>1, <3>2 DEF NeverTaken
    <3>3. CASE /\ Route_NoTopic(h) /\ Expected(h)
               /\ doubtful' = doubtful \cup AlsoUnderWay(h)
      <4>1. CASE EntryOf(h) \in AlsoUnderWay(h)
        BY <3>1, <3>3, <4>1
      <4>2. CASE EntryOf(h) \notin AlsoUnderWay(h)
        BY <3>1, <3>3, <4>2, NoTopicGone DEF Gone, Past, Holds, EntryOf
      <4> QED
        BY <4>1, <4>2
    <3> QED
      BY <3>1, <3>2, <3>3, RejectsBecause
  <2> QED
    BY <2>1, <2>2
<1> QED
  BY <1>1, <1>3, <1>4 DEF RejectedFinally, NeverTaken

(* Handlers that are about to answer, and answers that were given, after   *)
(* a handler's step.                                                       *)
LEMMA AnswersAfter ==
    ASSUME PInv, NEW h \in handlers, Handle(h)
    PROVE  /\ AnswersKnown' /\ AckNamesRecord'
           /\ acked' \subseteq [entry : Entry, partition : Partition,
                                offset : Int]
<1> USE DEF broker, history, faults
<1>1. /\ TypeOK /\ LogMoves(h) /\ openedAt' = openedAt /\ LogMatches
      /\ HandlersRouted /\ AckNamesRecord /\ AnswersKnown
      /\ EntryOf(h) \in Entry
      /\ h.stage # "route" => h.partition \in Partition
  BY HandleMoves, HandlerTyped DEF PInv
<1>2. ASSUME NEW p \in Partition, NEW i \in 1..published[p]
      PROVE  i \in 1..published'[p] /\ log'[p][i] = log[p][i]
  <2>1. /\ published[p] \in Nat /\ published[p] <= Len(log[p])
        /\ published'[p] \in Nat
        /\ published[p] <= published'[p] /\ Len(log[p]) \in Nat
    BY <1>1, LogMatchesAfter, LogsAfter DEF LogMatches
  <2> QED
    BY <1>1, <2>1, LogsAfter
<1>3. ASSUME NEW g \in handlers, g.stage = "count"
      PROVE  /\ g.offset \in 0..(published'[g.partition] - 1)
             /\ log'[g.partition][g.offset + 1] = EntryOf(g)
  <2>1. /\ g.partition \in Partition
        /\ g.offset \in 0..(published[g.partition] - 1)
        /\ log[g.partition][g.offset + 1] = EntryOf(g)
        /\ published[g.partition] \in Nat
        /\ published'[g.partition] \in Nat
    BY <1>1, <1>3, HandlerTyped, LogMatchesAfter DEF AnswersKnown
  <2>2. g.offset + 1 \in 1..published[g.partition]
    BY <2>1
  <2>3. /\ g.offset + 1 \in 1..published'[g.partition]
        /\ log'[g.partition][g.offset + 1] = EntryOf(g)
    BY <1>2, <2>1, <2>2
  <2> QED
    BY <2>1, <2>3
<1>4. CASE Append_Ok(h)
  <2>1. /\ h.stage = "append" /\ h.partition \notin fenced
        /\ Publish(h, published[h.partition])
        /\ h.partition \in Partition /\ acked' = acked
    BY <1>1, <1>4 DEF Append_Ok, Healthy, Publish
  <2>2. PICK g \in Handler :
           /\ handlers' = (handlers \ {h}) \cup {g}
           /\ EntryOf(g) = EntryOf(h) /\ g.partition = h.partition
           /\ g.offset = published[h.partition]
    BY <1>1, <2>1, PublishMoves
  <2>3. /\ published[h.partition] = Len(log[h.partition])
        /\ published[h.partition] \in Nat
        /\ published'[h.partition] = published[h.partition] + 1
        /\ log[h.partition] \in Seq(Entry)
        /\ log'[h.partition] = Append(log[h.partition], EntryOf(h))
    BY <1>1, <2>1 DEF Publish, Write, LogMatches, TypeOK
  <2>4. /\ g.offset \in 0..(published'[g.partition] - 1)
        /\ log'[g.partition][g.offset + 1] = EntryOf(g)
    BY <1>1, <2>2, <2>3
  <2>5. AnswersKnown'
    BY <1>3, <2>2, <2>4 DEF AnswersKnown, EntryOf
  <2> QED
    BY <1>1, <1>2, <2>1, <2>5, SMTT(30) DEF AckNamesRecord, TypeOK
<1>5. CASE Count(h)
  <2>1. /\ h.stage = "count" /\ handlers' = handlers \ {h}
        /\ \/ acked' = acked
           \/ acked' = acked \cup {[entry |-> EntryOf(h), offset |-> Offered(h),
                                    partition |-> h.partition]}
    BY <1>5 DEF Count, AnswerOk
  <2>2. AnswersKnown'
    BY <1>3, <2>1 DEF AnswersKnown, EntryOf
  <2>3. /\ h.offset \in 0..(published[h.partition] - 1)
        /\ log[h.partition][h.offset + 1] = EntryOf(h)
        /\ published[h.partition] \in Nat /\ h.partition \in Partition
    BY <1>1, <2>1, LogMatchesAfter DEF AnswersKnown
  <2>4. Offered(h) = h.offset /\ h.offset \in Int
        /\ h.offset + 1 \in 1..published[h.partition]
    BY <2>3 DEF Offered
  <2>5. \A a \in acked' : /\ a.offset + 1 \in 1..published[a.partition]
                          /\ log[a.partition][a.offset + 1] = a.entry
                          /\ a \in [entry : Entry, partition : Partition,
                                    offset : Int]
    BY <1>1, <2>1, <2>3, <2>4, SMTT(30) DEF AckNamesRecord, TypeOK
  <2>6. AckNamesRecord'
    BY <1>2, <2>5 DEF AckNamesRecord
  <2> QED
    BY <2>2, <2>5, <2>6
<1>6. CASE Idle(h)
  <2>1. AnswersKnown'
    BY <1>3, <1>6 DEF AnswersKnown, EntryOf, Idle
  <2> QED
    BY <1>1, <1>2, <1>6, <2>1 DEF AckNamesRecord, TypeOK, Idle
<1> QED
  BY <1>4, <1>5, <1>6, IdleUnless

-----------------------------------------------------------------------------
(* A producer goes on to its next record only once this one is published,  *)
(* no partition takes it or its topic is not there.                        *)
LEMMA ReadyBecause ==
    ASSUME PInv, NEW h \in handlers, Handle(h), client' # client,
           client'[h.by].state = "ready"
    PROVE  \/ Count(h) \/ ~h.request.fits \/ h.request.partition # -1
           \/ /\ Route_NoTopic(h) /\ Expected(h)
              /\ doubtful' = doubtful \cup AlsoUnderWay(h)
<1>1. /\ client \in [Producer ->
            [state : {"ready", "waiting", "unsure"}, seq : 0..MaxSeq,
             attempt : 0..(MaxRetries + 1),
             request : AnyRequest \cup {NoRequest}]]
      /\ h.by \in Producer
  BY HandlerTyped DEF PInv, TypeOK
<1>2. ~AnswerFailed(h)
  BY <1>1 DEF AnswerFailed
<1>3. CASE Route_NoTopic(h)
  BY <1>3 DEF Route_NoTopic, AnswerRejected, Proceed
<1>4. CASE ~Route_NoTopic(h)
  BY <1>2, <1>4 DEF Handle, Route_Explicit, Route_Key, Route_RoundRobin,
              Append_Ok, Append_TooLarge, Append_Uncertain, Append_Fenced,
              Routed, Publish, Healthy, history, faults
<1> QED
  BY <1>3, <1>4

LEMMA PastWrittenAfter ==
    ASSUME PInv, NEW h \in handlers, Handle(h)
    PROVE  PastWritten'
<1> SUFFICES ASSUME NEW k \in handlers', Past(k)', k.stage # "count",
                    k.request.fits, Keyed(k.request)
             PROVE  \/ EntryOf(k) \in doubtful'
                    \/ Holds(KeyPick(k.request.key), EntryOf(k))'
  BY DEF PastWritten, Keyed, KeyPick, EntryOf
<1> DEFINE p == KeyPick(k.request.key)
<1>1. /\ TypeOK /\ ClientMoves(h) /\ HandlerMoves(h) /\ LogMoves(h)
      /\ k \in Handler /\ k.request \in AnyRequest
  BY HandleMoves, HandlersAfter DEF PInv, Handler
<1>2. p \in Partition
  BY <1>1, Constants, PicksTyped DEF Keyed, TypeOK
<1>3. SUFFICES EntryOf(k) \in doubtful' \/ Holds(p, EntryOf(k))
  BY <1>1, <1>2, HoldsAfter DEF KeyPick, EntryOf
<1>9. doubtful \subseteq doubtful'
  BY RejectedAfter
<1> HIDE DEF p
<1>4. CASE k \in handlers /\ Past(k)
  BY <1>4, <1>9 DEF PInv, PastWritten, p
<1>5. CASE k \in handlers /\ ~Past(k)
  <2>1. /\ k.by = h.by /\ client[h.by].state = "waiting"
        /\ client[h.by].seq = h.seq /\ client' # client
        /\ client'[h.by].state = "ready"
    <3>1. k.by \in Producer
      BY <1>1, <1>5, HandlerTyped
    <3>2. client'[k.by].seq = client[k.by].seq
      BY <1>1, <3>1, ClientsAfter
    <3>3. client'[k.by].state = "ready" /\ client'[k.by] # client[k.by]
      BY <1>5, <3>2 DEF Past
    <3> QED
      BY <1>1, <3>1, <3>3, ClientsAfter
  <2>2. k.seq = h.seq /\ k.request = h.request
    <3>1. /\ client[h.by].seq \in Nat /\ k.seq \in Nat /\ h.seq \in Nat
          /\ k.seq <= client[k.by].seq
      BY <1>1, <1>5, HandlerTyped, Constants DEF PInv, HandlersKnown
    <3>2. k.seq = h.seq
      BY <1>5, <2>1, <3>1 DEF Past
    <3>3. ~Past(h)
      BY <2>1, <3>1 DEF Past
    <3> QED
      BY <1>5, <2>1, <3>2, <3>3 DEF PInv, HandlersKnown
  <2>6. EntryOf(k) = EntryOf(h)
    BY <2>1, <2>2 DEF EntryOf
  <2>7. CASE /\ Route_NoTopic(h)
             /\ doubtful' = doubtful \cup AlsoUnderWay(h)
    <3>1. handlers' = handlers \ {h}
      BY <2>7 DEF Route_NoTopic, AnswerRejected
    <3>2. EntryOf(k) \in AlsoUnderWay(h)
      BY <1>5, <2>6, <3>1 DEF AlsoUnderWay
    <3> QED
      BY <2>7, <3>2
  <2>3. SUFFICES ASSUME Count(h) PROVE Holds(p, EntryOf(k))
    BY <2>1, <2>2, <2>7, ReadyBecause DEF Keyed
  <2>4. /\ h.offset \in 0..(published[h.partition] - 1)
        /\ log[h.partition][h.offset + 1] = EntryOf(h)
        /\ h.partition = p /\ h.partition \in Partition
    BY <2>2, <2>3 DEF PInv, AnswersKnown, HandlersRouted, Count, Allowed, p
  <2>5. h.offset + 1 \in 1..Len(log[p])
    <3>1. /\ published[p] \in Nat /\ published[p] <= Len(log[p])
          /\ Len(log[p]) \in Nat
      BY <1>1, <1>2 DEF PInv, LogMatches, TypeOK
    <3> QED
      BY <2>4, <3>1
  <2> QED
    BY <2>4, <2>5, <2>6 DEF Holds
<1>6. CASE k \notin handlers
  <2>1. /\ SameAttempt(k, h) /\ EntryOf(k) = EntryOf(h) /\ client' = client
    BY <1>1, <1>6, HandlersAfter
  <2>2. Past(h) /\ k.request = h.request
    BY <2>1 DEF Past, SameAttempt
  <2>3. h.stage # "count"
    <3>1. ~Count(h)
      BY <1>6 DEF Count, AnswerOk
    <3> QED
      BY <3>1, IdleUnless DEF Idle, Append_Ok, Healthy
  <2> QED
    BY <1>9, <2>1, <2>2, <2>3 DEF PInv, PastWritten, p
<1> QED
  BY <1>4, <1>5, <1>6

LEMMA KeysOrderedAfter ==
    ASSUME PInv, NEW h \in handlers, Handle(h)
    PROVE  KeysOrdered'
<1>1. /\ TypeOK /\ LogMoves(h) /\ LogRouted' /\ LogRouted /\ KeysOrdered
      /\ PastWritten
  BY HandleMoves, LogRoutedAfter DEF PInv
<1>2. \A p \in Partition : Len(log[p]) \in Nat /\ Len(log'[p]) \in Nat
  BY <1>1, LogsAfter
<1> SUFFICES ASSUME NEW p \in Partition, NEW q \in Partition,
                    NEW i \in 1..Len(log'[p]), NEW j \in 1..Len(log'[q]),
                    Follows(log'[p][i], log'[q][j])
             PROVE  /\ p = q
                    /\ \/ log'[p][i] \in doubtful'
                       \/ \E k \in 1..Len(log'[p]) :
                             log'[p][k] = log'[p][i] /\ k < j
  BY DEF KeysOrdered, Follows, Keyed
<1> DEFINE d == log'[p][i]
           e == log'[q][j]
<1>3. /\ p = KeyPick(d.request.key) /\ q = p
      /\ Keyed(d.request) /\ Keyed(e.request)
  <2>1. Keyed(d.request) /\ Keyed(e.request)
    BY DEF Follows
  <2>2. \A r, x : Allowed(r, x)' <=> Allowed(r, x)
    BY DEF Allowed, Keyed, KeyPick
  <2>3. Allowed(d.request, p) /\ Allowed(e.request, q)
    BY <1>1, <2>2 DEF LogRouted
  <2> QED
    BY <2>1, <2>3 DEF Allowed, Follows
<1>4. \A k \in 1..Len(log[p]) : k \in 1..Len(log'[p]) /\ log'[p][k] = log[p][k]
  BY <1>1, LogsAfter
<1>5. SUFFICES \/ d \in doubtful
                \/ \E k \in 1..Len(log[p]) : log[p][k] = d /\ k < j
  BY <1>3, <1>4, RejectedAfter
<1>6. CASE j \notin 1..Len(log[p])
  <2>1. e = EntryOf(h) /\ j = Len(log[p]) + 1
    BY <1>1, <1>3, <1>6, LogsAfter
  <2>2. i \in 1..Len(log[p])
    <3>1. h.seq \in Nat /\ e.seq = h.seq
      BY <1>1, <2>1, HandlerTyped, Constants DEF EntryOf
    <3>2. d # EntryOf(h)
      BY <2>1, <3>1 DEF Follows
    <3> QED
      BY <1>1, <3>2, LogsAfter
  <2> QED
    BY <1>2, <1>4, <2>1, <2>2
<1>7. CASE j \in 1..Len(log[p]) /\ i \in 1..Len(log[p])
  <2>1. log[p][i] = d /\ log[p][j] = e
    BY <1>3, <1>4, <1>7
  <2> QED
    BY <1>1, <1>7, <2>1 DEF KeysOrdered
<1>8. CASE j \in 1..Len(log[p]) /\ i \notin 1..Len(log[p])
  <2>1. d = EntryOf(h) /\ h.request.fits /\ h.stage = "append"
    BY <1>1, <1>8, LogsAfter
  <2>2. log[p][j] = e /\ e \in Entry /\ e.seq <= client[e.by].seq
    BY <1>1, <1>3, <1>4, <1>8, SMTT(30) DEF LogRouted, TypeOK
  <2>3. Past(h)
    <3>1. /\ e.by = h.by /\ h.seq < e.seq /\ e.seq \in Nat
          /\ h.seq \in Nat /\ client[h.by].seq \in Nat
      <4>1. d.by = h.by /\ d.seq = h.seq
        BY <2>1 DEF EntryOf
      <4>2. e.seq \in Nat
        BY <2>2, Constants DEF Entry
      <4>3. h.seq \in Nat /\ client[h.by].seq \in Nat
        BY <1>1, HandlerTyped, Constants
      <4> QED
        BY <4>1, <4>2, <4>3 DEF Follows
    <3> QED
      BY <2>2, <3>1 DEF Past
  <2>5. CASE d \in doubtful
    BY <2>5
  <2>4. SUFFICES ASSUME NEW k \in 1..Len(log[p]), log[p][k] = d
                 PROVE  \/ d \in doubtful
                        \/ \E n \in 1..Len(log[p]) : log[p][n] = d /\ n < j
    BY <1>1, <1>3, <2>1, <2>3, <2>5 DEF PastWritten, EntryOf, Holds
  <2> QED
    BY <1>1, <1>8, <2>2, <2>4, SMTT(30) DEF KeysOrdered
<1> QED
  BY <1>6, <1>7, <1>8

-----------------------------------------------------------------------------
(* Publishing adds one to what the process has appended.                   *)
LEMMA PublishAppends ==
    ASSUME published \in [Partition -> Nat], openedAt \in [Partition -> Nat],
           NEW p \in Partition, openedAt[p] <= published[p],
           openedAt' = openedAt,
           published' = [published EXCEPT ![p] = @ + 1]
    PROVE  /\ Appended' = Appended \cup {<<p, published[p]>>}
           /\ <<p, published[p]>> \notin Appended
<1>1. \A q \in Partition :
         /\ q # p => published'[q] = published[q]
         /\ published'[p] = published[p] + 1
  OBVIOUS
<1>2. openedAt[p]..(published'[p] - 1)
         = (openedAt[p]..(published[p] - 1)) \cup {published[p]}
  BY <1>1
<1>3. ASSUME NEW x
      PROVE  x \in Appended' <=> x \in Appended \/ x = <<p, published[p]>>
  BY <1>1, <1>2 DEF Appended
<1>4. ASSUME <<p, published[p]>> \in Appended
      PROVE  FALSE
  <2>1. PICK q \in Partition :
           <<p, published[p]>> \in {q} \X (openedAt[q]..(published[q] - 1))
    BY <1>4 DEF Appended
  <2>2. q = p /\ published[p] \in openedAt[p]..(published[p] - 1)
    BY <2>1
  <2> QED
    BY <2>2
<1> QED
  BY <1>3, <1>4

LEMMA CountsAfter ==
    ASSUME PInv, NEW h \in handlers, Handle(h)
    PROVE  CountsThisProcess' /\ AppendedFinite'
<1> DEFINE C == {g \in handlers : g.stage = "count"}
<1>1. /\ TypeOK /\ HandlersDiffer /\ HandlersRouted /\ openedAt' = openedAt
      /\ IsFiniteSet(C) /\ Cardinality(C) \in Nat /\ counted \in Nat
      /\ IsFiniteSet(Appended) /\ Cardinality(Appended) \in Nat
      /\ counted + Cardinality(C) = Cardinality(Appended)
  <2>1. IsFiniteSet(C)
    BY FS_Subset DEF PInv, HandlersDiffer
  <2>2. openedAt' = openedAt
    BY HandleMoves
  <2> QED
    BY <2>1, <2>2, FS_CardinalityType
       DEF PInv, TypeOK, AppendedFinite, CountsThisProcess
<1>2. CASE Append_Ok(h)
  <2>1. /\ h.stage = "append" /\ Publish(h, published[h.partition])
        /\ h.partition \in Partition /\ counted' = counted
    BY <1>1, <1>2, HandlerTyped DEF Append_Ok, Healthy
  <2>2. PICK g \in Handler : /\ handlers' = (handlers \ {h}) \cup {g}
                             /\ SameAttempt(g, h) /\ g.stage = "count"
    BY <1>1, <2>1, PublishMoves
  <2>3. {k \in handlers' : k.stage = "count"} = C \cup {g} /\ g \notin C
    BY <1>1, <2>1, <2>2 DEF HandlersDiffer, SameAttempt
  <2>4. /\ Appended' = Appended \cup {<<h.partition, published[h.partition]>>}
        /\ <<h.partition, published[h.partition]>> \notin Appended
    BY <1>1, <2>1, PublishAppends DEF PInv, TypeOK, LogMatches, Publish
  <2> HIDE DEF C
  <2>5. Cardinality(C \cup {g}) = Cardinality(C) + 1
    BY <1>1, <2>3, FS_AddElement
  <2>6. /\ Cardinality(Appended') = Cardinality(Appended) + 1
        /\ IsFiniteSet(Appended')
    BY <1>1, <2>4, FS_AddElement
  <2>7. Cardinality({k \in handlers' : k.stage = "count"})
           = Cardinality(C) + 1
    BY <2>3, <2>5
  <2> QED
    BY <1>1, <2>1, <2>6, <2>7 DEF CountsThisProcess, AppendedFinite
<1>3. CASE Count(h)
  <2>1. /\ h \in C /\ handlers' = handlers \ {h} /\ counted' = counted + 1
        /\ published' = published
    BY <1>3 DEF Count, AnswerOk
  <2>2. {k \in handlers' : k.stage = "count"} = C \ {h}
    BY <2>1
  <2>3. Appended' = Appended
    BY <1>1, <2>1 DEF Appended
  <2> HIDE DEF C
  <2>4. Cardinality(C \ {h}) = Cardinality(C) - 1
    BY <1>1, <2>1, FS_RemoveElement
  <2> QED
    BY <1>1, <2>1, <2>2, <2>3, <2>4 DEF CountsThisProcess, AppendedFinite
<1>4. CASE Idle(h)
  <2>1. {k \in handlers' : k.stage = "count"} = C
    BY <1>4 DEF Idle
  <2>2. Appended' = Appended
    BY <1>1, <1>4 DEF Appended, Idle
  <2> QED
    BY <1>1, <1>4, <2>1, <2>2 DEF CountsThisProcess, AppendedFinite, Idle
<1> QED
  BY <1>2, <1>3, <1>4, IdleUnless

(* A step of a handler preserves the invariant.                            *)
LEMMA HandleStep ==
    ASSUME PInv, NEW h \in handlers, Handle(h)
    PROVE  PInv'
<1>1. TypeOK /\ ClientMoves(h) /\ HandlerMoves(h) /\ LogMoves(h)
      /\ UNCHANGED <<retries, crashes, openedAt>>
  BY HandleMoves DEF PInv
<1>2. TypeOK'
  <2>1. \A k \in handlers' : /\ k \in Handler
                             /\ k.stage # "route" => k.partition \in Partition
    BY <1>1, HandlersAfter, HandlerTyped DEF Allowed
  <2>2. fenced' \subseteq Partition
    BY <1>1 DEF LogMoves
  <2>3. /\ openedAt' \in [Partition -> Nat] /\ retries' \in 0..MaxRetries
        /\ crashes' \in 0..MaxCrashes
    BY <1>1 DEF TypeOK
  <2> QED
    BY <1>1, <2>1, <2>2, <2>3, ClientsAfter, LogMatchesAfter, AnswersAfter,
       CountersAfter, RejectedAfter, TopicFirstAfter DEF TypeOK
<1> QED
  BY <1>1, <1>2, HandlersKnownAfter, HandlersDifferAfter, LogRoutedAfter,
     LogMatchesAfter, AnswersAfter, CountersAfter, RejectedAfter,
     TopicFirstAfter, PastWrittenAfter, KeysOrderedAfter, CountsAfter DEF PInv

-----------------------------------------------------------------------------
(* A new attempt adds the handler that serves it.                          *)
LEMMA RequestStep ==
    ASSUME PInv, NEW c \in Producer, NEW seq \in 1..MaxSeq,
           NEW attempt \in 1..(MaxRetries + 1), NEW request \in AnyRequest,
           Request(c, seq, attempt, request),
           retries' \in 0..MaxRetries, retries <= retries',
           attempt <= retries' + 1,
           \/ client[c].state = "ready" /\ seq = client[c].seq + 1
           \/ /\ client[c].state # "ready" /\ seq = client[c].seq
              /\ request = client[c].request
              /\ attempt = client[c].attempt + 1
    PROVE  PInv'
<1> DEFINE n == [by |-> c, seq |-> seq, attempt |-> attempt,
                 request |-> request, stage |-> "route", partition |-> -1,
                 offset |-> -1]
           T == [Producer -> [state : {"ready", "waiting", "unsure"},
                              seq : 0..MaxSeq, attempt : 0..(MaxRetries + 1),
                              request : AnyRequest \cup {NoRequest}]]
<1>1. /\ handlers' = handlers \cup {n}
      /\ client' = [client EXCEPT ![c] =
                       [state |-> "waiting", seq |-> seq,
                        attempt |-> attempt, request |-> request]]
      /\ UNCHANGED <<broker, history, crashes>>
  BY DEF Request
<1>2. /\ n \in Handler /\ n.by = c /\ n.seq = seq /\ n.attempt = attempt
      /\ n.request = request /\ n.stage = "route"
  BY DEF Handler
<1>3. /\ client \in T /\ client' \in T /\ retries \in Nat /\ retries' \in Nat
      /\ seq \in Nat /\ attempt \in Nat /\ MaxSeq \in Nat /\ MaxRetries \in Nat
  <2>1. /\ client \in T /\ retries \in Nat /\ seq \in Nat /\ attempt \in Nat
        /\ MaxSeq \in Nat /\ MaxRetries \in Nat /\ retries' \in Nat
    BY Constants DEF PInv, TypeOK
  <2>2. seq \in 0..MaxSeq /\ attempt \in 0..(MaxRetries + 1)
    BY <2>1
  <2> QED
    BY <1>1, <2>1, <2>2
<1>4. /\ \A b \in Producer : /\ client[b].seq \in Nat
                             /\ client[b].attempt \in Nat
                             /\ b # c => client'[b] = client[b]
      /\ client'[c] = [state |-> "waiting", seq |-> seq,
                       attempt |-> attempt, request |-> request]
  BY <1>1, <1>3
<1>5. client[c].seq <= seq
  BY <1>3, <1>4
<1> HIDE DEF n, T
<1>6. TypeOK'
  BY <1>1, <1>2, <1>3 DEF PInv, TypeOK, T, broker, history
<1>7. ClientsKnown'
  BY <1>3, <1>4 DEF PInv, ClientsKnown
<1>8. ASSUME NEW k \in handlers
      PROVE  /\ Past(k)' => Past(k)
             /\ k.seq <= client'[k.by].seq
             /\ ~Past(k)' => /\ k.request = client'[k.by].request
                             /\ k.attempt <= client'[k.by].attempt
  <2>1. /\ k.by \in Producer /\ k.seq \in Nat /\ k.attempt \in Nat
        /\ k.seq <= client[k.by].seq
        /\ ~Past(k) => /\ k.request = client[k.by].request
                       /\ k.attempt <= client[k.by].attempt
    BY <1>3, HandlerTyped DEF PInv, HandlersKnown
  <2>2. CASE k.by # c
    BY <1>4, <2>1, <2>2 DEF Past
  <2>3. CASE k.by = c
    <3>1. /\ client'[c].seq = seq /\ client'[c].attempt = attempt
          /\ client'[c].request = request /\ client'[c].state = "waiting"
      BY <1>4
    <3> QED
      BY <1>3, <1>4, <2>1, <2>3, <3>1 DEF Past
  <2> QED
    BY <2>2, <2>3
<1>9. HandlersKnown'
  <2>1. /\ n.seq <= client'[n.by].seq
        /\ n.request = client'[n.by].request
        /\ n.attempt <= client'[n.by].attempt
    BY <1>2, <1>3, <1>4
  <2> QED
    BY <1>1, <1>8, <2>1 DEF HandlersKnown, Past
<1>10. HandlersDiffer'
  <2>1. ASSUME NEW k \in handlers, k.by = c, k.seq = seq, k.attempt = attempt
        PROVE  FALSE
    <3>1. /\ k.seq <= client[c].seq
          /\ ~Past(k) => k.attempt <= client[c].attempt
      BY <2>1 DEF PInv, HandlersKnown
    <3> QED
      BY <1>3, <1>4, <2>1, <3>1 DEF Past
  <2>2. IsFiniteSet(handlers')
    BY <1>1, FS_AddElement DEF PInv, HandlersDiffer
  <2> QED
    BY <1>1, <1>2, <2>1, <2>2 DEF PInv, HandlersDiffer
<1>11. /\ UNCHANGED <<topic, log, published, fenced, rr, counted, openedAt,
                      picked>>
       /\ UNCHANGED <<acked, rejected, doubtful>>
  BY <1>1 DEF broker, history
<1>12. HandlersRouted' /\ AnswersKnown'
  BY <1>1, <1>2, <1>11
     DEF PInv, HandlersRouted, AnswersKnown, Allowed, Keyed, KeyPick, EntryOf
<1>13. LogRouted'
  <2>1. \A b \in Producer : /\ client[b].seq <= client'[b].seq
                            /\ client'[b].seq \in Nat
    BY <1>3, <1>4, <1>5
  <2>2. ASSUME NEW e \in Entry, e.seq <= client[e.by].seq
        PROVE  e.seq <= client'[e.by].seq
    <3>1. e.by \in Producer /\ e.seq \in Nat
      BY <1>3 DEF Entry
    <3> QED
      BY <1>4, <2>1, <2>2, <3>1
  <2>3. ASSUME NEW p \in Partition, NEW i \in 1..Len(log[p])
        PROVE  log[p][i].seq <= client'[log[p][i].by].seq
    <3>1. log[p][i] \in Entry
      BY DEF PInv, TypeOK
    <3>2. log[p][i].seq <= client[log[p][i].by].seq
      BY DEF PInv, LogRouted
    <3> QED
      BY <2>2, <3>1, <3>2
  <2> QED
    BY <1>11, <2>3 DEF PInv, LogRouted, Allowed, Keyed, KeyPick
<1>14. PastWritten'
  <2>1. ~Past(n)'
    BY <1>2, <1>3, <1>4 DEF Past
  <2> QED
    BY <1>1, <1>8, <1>11, <2>1, SMTT(30)
       DEF PInv, PastWritten, Holds, EntryOf, Keyed, KeyPick
<1>15. LogMatches' /\ CounterBehind' /\ AckNamesRecord' /\ KeysOrdered'
       /\ AppendedFinite'
  BY <1>11 DEF PInv, LogMatches, CounterBehind, AckNamesRecord, KeysOrdered,
               Follows, Keyed, AppendedFinite, Appended
<1>17. TopicFirst'
  BY <1>1, <1>2, <1>11 DEF PInv, TopicFirst
<1>18. ASSUME NEW e \in Entry, Gone(e)
       PROVE  Gone(e)'
  <2>1. e.by \in Producer /\ e.seq \in Nat
    BY <1>3 DEF Entry
  <2>2. e.by = c => e.seq < seq
    BY <1>3, <1>4, <1>18, <2>1 DEF Gone, Past
  <2>3. e.seq <= client'[e.by].seq /\ Past(e)'
    BY <1>3, <1>4, <1>18, <2>1, <2>2 DEF Gone, Past
  <2>4. EntryOf(n) # e
    BY <1>2, <1>3, <2>1, <2>2 DEF EntryOf
  <2> QED
    BY <1>1, <1>11, <1>18, <2>3, <2>4 DEF Gone, Holds, EntryOf
<1>19. RejectedFinally'
  BY <1>11, <1>18 DEF PInv, TypeOK, RejectedFinally, NeverTaken
<1>16. CountsThisProcess'
  <2>1. {h \in handlers' : h.stage = "count"}
           = {h \in handlers : h.stage = "count"}
    BY <1>1, <1>2
  <2> QED
    BY <1>11, <2>1 DEF PInv, CountsThisProcess, Appended
<1> QED
  BY <1>6, <1>7, <1>9, <1>10, <1>12, <1>13, <1>14, <1>15, <1>16, <1>17, <1>19
     DEF PInv

(* A producer's steps are requests.                                        *)
LEMMA ProducerStep ==
    ASSUME PInv, NEW c \in Producer, Send(c) \/ Retry(c)
    PROVE  PInv'
<1>1. /\ client[c].seq \in 0..MaxSeq
      /\ client[c].attempt \in 0..(MaxRetries + 1)
      /\ retries \in 0..MaxRetries
      /\ MaxSeq \in Nat /\ MaxRetries \in Nat
      /\ client[c].attempt <= retries + 1
      /\ client[c].state # "ready" =>
            client[c].seq >= 1 /\ client[c].request \in AnyRequest
  <2>1. client \in [Producer -> [state : {"ready", "waiting", "unsure"},
                        seq : 0..MaxSeq, attempt : 0..(MaxRetries + 1),
                        request : AnyRequest \cup {NoRequest}]]
    BY DEF PInv, TypeOK
  <2>2. client[c].seq \in 0..MaxSeq /\ client[c].attempt \in 0..(MaxRetries + 1)
    BY <2>1
  <2> QED
    BY <2>2, Constants DEF PInv, TypeOK, ClientsKnown
<1>2. CASE Send(c)
  <2>1. PICK r \in Requests[c] : Request(c, client[c].seq + 1, 1, r)
    BY <1>2 DEF Send
  <2>2. r \in AnyRequest
    BY DEF AnyRequest
  <2>3. /\ client[c].state = "ready" /\ client[c].seq + 1 \in 1..MaxSeq
        /\ retries' = retries /\ 1 \in 1..(MaxRetries + 1)
        /\ 1 <= retries + 1
    BY <1>1, <1>2 DEF Send
  <2> QED
    BY <1>1, <2>1, <2>2, <2>3, RequestStep
<1>3. CASE Retry(c)
  <2>1. /\ Request(c, client[c].seq, client[c].attempt + 1, client[c].request)
        /\ client[c].state # "ready" /\ retries' = retries + 1
        /\ retries' \in 0..MaxRetries
    BY <1>1, <1>3 DEF Retry
  <2>2. /\ client[c].request \in AnyRequest /\ client[c].seq \in 1..MaxSeq
        /\ client[c].attempt + 1 \in 1..(MaxRetries + 1)
        /\ client[c].attempt + 1 <= retries' + 1 /\ retries <= retries'
    BY <1>1, <2>1
  <2> QED
    BY <2>1, <2>2, RequestStep
<1> QED
  BY <1>2, <1>3

(* The order of the keys is a matter of the files and the doubtful answers *)
(* alone.                                                                  *)
LEMMA KeysOrderedSame ==
    ASSUME KeysOrdered, UNCHANGED <<log, doubtful>>
    PROVE  KeysOrdered'
<1>1. \A d, e : Follows(d, e)' <=> Follows(d, e)
  BY DEF Follows, Keyed
<1> QED
  BY <1>1 DEF KeysOrdered

(* After a kill no handler is left, and the log is what the files hold.    *)
LEMMA CrashStep ==
    ASSUME PInv, ProcessCrash
    PROVE  PInv'
<1>1. /\ handlers' = {} /\ UNCHANGED <<client, topic, log, retries>>
      /\ UNCHANGED <<acked, rejected, doubtful>>
      /\ published' = [p \in Partition |-> Len(log[p])]
      /\ openedAt' = published' /\ fenced' = {} /\ rr' = 0 /\ counted' = 0
      /\ picked' = 0 /\ crashes' = crashes + 1 /\ crashes < MaxCrashes
  BY DEF ProcessCrash, history
<1>2. \A p \in Partition : /\ Len(log[p]) \in Nat /\ published[p] \in Nat
                           /\ published[p] <= Len(log[p])
  BY DEF PInv, TypeOK, LogMatches
<1>3. TypeOK'
  <2>1. 0 \in 0..(Word - 1) /\ crashes' \in 0..MaxCrashes
    BY <1>1, Constants DEF PInv, TypeOK
  <2> QED
    BY <1>1, <1>2, <2>1 DEF PInv, TypeOK
<1>4. ClientsKnown' /\ HandlersKnown' /\ HandlersDiffer' /\ HandlersRouted'
  BY <1>1, FS_EmptySet DEF PInv, ClientsKnown, HandlersKnown, HandlersDiffer,
                           HandlersRouted
<1>5. LogRouted' /\ KeysOrdered'
  <2>1. LogRouted'
    BY <1>1 DEF PInv, LogRouted, Allowed, Keyed, KeyPick
  <2>2. KeysOrdered'
    <3>1. UNCHANGED <<log, doubtful>>
      BY <1>1
    <3> QED
      BY <3>1, KeysOrderedSame DEF PInv
  <2> QED
    BY <2>1, <2>2
<1>9. TopicFirst' /\ RejectedFinally'
  BY <1>1, SMTT(30) DEF PInv, TopicFirst, RejectedFinally, NeverTaken, Gone,
                        Past, Holds
<1>6. LogMatches' /\ AnswersKnown' /\ PastWritten' /\ CounterBehind'
  BY <1>1, <1>2 DEF LogMatches, AnswersKnown, PastWritten, CounterBehind
<1>7. AckNamesRecord'
  BY <1>1, <1>2 DEF PInv, TypeOK, AckNamesRecord
<1>8. AppendedFinite' /\ CountsThisProcess'
  <2>1. \A p \in Partition : openedAt'[p]..(published'[p] - 1) = {}
    BY <1>1, <1>2
  <2>2. Appended' = {}
    BY <2>1 DEF Appended
  <2>3. {h \in handlers' : h.stage = "count"} = {}
    BY <1>1
  <2> QED
    BY <1>1, <2>2, <2>3, FS_EmptySet DEF AppendedFinite, CountsThisProcess
<1> QED
  BY <1>3, <1>4, <1>5, <1>6, <1>7, <1>8, <1>9 DEF PInv

(* The topic appears, and nothing else changes.                            *)
LEMMA CreateTopicStep ==
    ASSUME PInv, CreateTopic
    PROVE  PInv'
<1> USE DEF CreateTopic, history, faults
<1>1. TypeOK' /\ ClientsKnown' /\ HandlersKnown' /\ HandlersDiffer'
  BY DEF PInv, TypeOK, ClientsKnown, HandlersKnown, HandlersDiffer, Past
<1>2. HandlersRouted' /\ LogRouted' /\ LogMatches' /\ AnswersKnown'
  BY DEF PInv, HandlersRouted, LogRouted, LogMatches, AnswersKnown, Allowed,
         Keyed, KeyPick, EntryOf
<1>3. PastWritten' /\ CounterBehind' /\ TopicFirst'
  BY SMTT(30) DEF PInv, PastWritten, Past, TopicFirst, Keyed, KeyPick, Holds,
                  EntryOf, CounterBehind
<1>6. KeysOrdered'
  BY KeysOrderedSame DEF PInv
<1>4. RejectedFinally'
  BY SMTT(30) DEF PInv, RejectedFinally, NeverTaken, Gone, Past, Holds,
                  EntryOf
<1>5. AppendedFinite' /\ AckNamesRecord' /\ CountsThisProcess'
  BY DEF PInv, AppendedFinite, AckNamesRecord, CountsThisProcess, Appended
<1> QED
  BY <1>1, <1>2, <1>3, <1>4, <1>5, <1>6 DEF PInv

(* The invariant only reads the variables of the specification.            *)
LEMMA ProduceStutter ==
    ASSUME PInv, UNCHANGED vars
    PROVE  PInv'
<1> USE DEF vars, broker, history, faults
<1>1. TypeOK' /\ ClientsKnown' /\ HandlersKnown' /\ HandlersDiffer'
  BY DEF PInv, TypeOK, ClientsKnown, HandlersKnown, HandlersDiffer, Past
<1>2. HandlersRouted' /\ LogRouted' /\ LogMatches' /\ AnswersKnown'
  BY DEF PInv, HandlersRouted, LogRouted, LogMatches, AnswersKnown, Allowed,
         Keyed, KeyPick, EntryOf
<1>3. PastWritten' /\ CounterBehind' /\ TopicFirst'
  BY SMTT(30) DEF PInv, PastWritten, Past, TopicFirst, Keyed, KeyPick, Holds,
                  EntryOf, CounterBehind
<1>6. KeysOrdered'
  BY KeysOrderedSame DEF PInv
<1>4. RejectedFinally'
  BY SMTT(30) DEF PInv, RejectedFinally, NeverTaken, Gone, Past, Holds,
                  EntryOf
<1>5. AppendedFinite' /\ AckNamesRecord' /\ CountsThisProcess'
  BY DEF PInv, AppendedFinite, AckNamesRecord, CountsThisProcess, Appended
<1> QED
  BY <1>1, <1>2, <1>3, <1>4, <1>5, <1>6 DEF PInv

(* What always holds of producers, handlers, files and counters, whatever  *)
(* is retried, given up, left unfinished by a failing append or killed.    *)
THEOREM ProduceInductive == Spec => []PInv
<1>1. PInv /\ [Next]_vars => PInv'
  BY HandleStep, ProducerStep, CreateTopicStep, CrashStep, ProduceStutter
     DEF Next
<1> QED
  BY ProduceInit, <1>1, PTL DEF Spec

(* Every variable keeps its type, and no handler appends to a partition    *)
(* that does not exist.                                                    *)
THEOREM ProduceTyped == Spec => []TypeOK
<1>1. PInv => TypeOK
  BY DEF PInv
<1> QED
  BY ProduceInductive, <1>1, PTL

(* An answered record stays at the partition and offset it was answered    *)
(* with.                                                                   *)
THEOREM AnswersStayTrue == Spec => []AckNamesRecord
<1>1. PInv => AckNamesRecord
  BY DEF PInv
<1> QED
  BY ProduceInductive, <1>1, PTL

(* A producer's records with one key are in one partition, and for the     *)
(* first time in the order in which they were sent, but for a record whose *)
(* producer was told that its topic does not exist while another attempt   *)
(* was in the broker.                                                      *)
THEOREM KeysStayInOrder == Spec => []KeyOrder
<1>1. ASSUME PInv PROVE KeyOrder
  <2>1. \A p \in Partition : DOMAIN log[p] = 1..Len(log[p])
    BY <1>1 DEF PInv, TypeOK
  <2>2. ASSUME NEW p \in Partition, NEW q \in Partition,
               NEW i \in DOMAIN log[p], NEW j \in DOMAIN log[q],
               log[p][i].by = log[q][j].by, log[p][i].seq < log[q][j].seq,
               log[p][i].request.key = log[q][j].request.key,
               log[p][i].request.key # NoKey,
               {log[p][i].request.partition, log[q][j].request.partition}
                  = {-1}
        PROVE  /\ p = q
               /\ \/ log[p][i] \in doubtful
                  \/ \E k \in IndexesOf(log[p][i], p) : k < j
    <3>1. /\ log[p][i].request.partition = -1
          /\ log[q][j].request.partition = -1
      BY <2>2
    <3>2. Follows(log[p][i], log[q][j])
      BY <2>2, <3>1 DEF Follows, Keyed
    <3>3. /\ p = q
          /\ \/ log[p][i] \in doubtful
             \/ \E k \in 1..Len(log[p]) : log[p][k] = log[p][i] /\ k < j
      BY <1>1, <2>1, <3>2 DEF PInv, KeysOrdered
    <3> QED
      BY <2>1, <3>3 DEF IndexesOf
  <2> QED
    BY <2>2, ZenonT(60) DEF KeyOrder
<1> QED
  BY ProduceInductive, <1>1, PTL

(* A record answered with a 4xx is in no partition, and will not turn up   *)
(* from a late attempt either, unless the answer was that there is no such *)
(* topic and another attempt was in the broker when it was given.          *)
THEOREM RejectedLeavesNothing == Spec => []CleanRejection
<1>1. ASSUME PInv PROVE CleanRejection
  <2>1. ASSUME NEW e \in rejected \ doubtful, NEW p \in Partition,
               NEW i \in DOMAIN log[p], log[p][i] = e
        PROVE  FALSE
    <3>1. i \in 1..Len(log[p])
      BY <1>1 DEF PInv, TypeOK
    <3>2. e.request.fits /\ Allowed(e.request, p)
      BY <1>1, <2>1, <3>1 DEF PInv, LogRouted
    <3>3. ~NeverTaken(e)
      BY <3>2 DEF NeverTaken, Allowed
    <3>4. ~Gone(e)
      BY <2>1, <3>1 DEF Gone, Holds
    <3> QED
      BY <1>1, <2>1, <3>3, <3>4 DEF PInv, RejectedFinally
  <2> QED
    BY <2>1 DEF CleanRejection, IndexesOf
<1> QED
  BY ProduceInductive, <1>1, PTL

(* The round robin finds no partition only once the counter has reached    *)
(* the sign bit.                                                           *)
THEOREM PanicIsLate == Spec => []PanicsLate
<1>1. ASSUME PInv PROVE PanicsLate
  BY <1>1, PicksTyped, Constants
     DEF PInv, TypeOK, CounterBehind, PanicsLate
<1> QED
  BY ProduceInductive, <1>1, PTL

(* The counter counts what this process has published.                     *)
THEOREM CounterCounts == Spec => []CountsThisProcess
<1>1. PInv => CountsThisProcess
  BY DEF PInv
<1> QED
  BY ProduceInductive, <1>1, PTL
=============================================================================
