------------------------------ MODULE Produce ------------------------------
(***************************************************************************)
(* Producers against one topic: the choice of a partition, appends under   *)
(* the partition locks, the produce counter, and answers that may be late  *)
(* or lost.  Sources: storage/topic.go (Produce, resolvePartition,         *)
(* getPartition), storage/partition_log.go (Append, its outcomes),         *)
(* cmd/marchiq/main.go (produce), cmd/demo/main.go (runProduce).           *)
(*                                                                         *)
(* A producer sends one record after the other.  An answer that does not   *)
(* come in time, or says that the result is uncertain, may be followed by  *)
(* a retry of the same record (DURABILITY.md:27-29) while the handler of   *)
(* the first attempt is still running.  The topic may be created at any    *)
(* time, between two attempts too.                                         *)
(*                                                                         *)
(* Simplifications                                                         *)
(*  - The process may be killed, the machine keeps running: what a write   *)
(*    left in the file is found at the next start (see PartitionLog for    *)
(*    power losses, Catalog for how a topic is published or fails to be).  *)
(*    There is no retention.                                               *)
(*  - The counter of records stands for that of bytes as well.             *)
(***************************************************************************)
EXTENDS Integers, Sequences, FiniteSets

CONSTANTS
    Producer,
    Key, NoKey,
    N,              \* number of partitions
    SignBit,        \* what the top bit of a Go int is worth, 2^63 or 2^31
    Hash,           \* fnv32a of each key, at most as wide as an int
    Requests,       \* what each producer sends: [key, partition, fits]
    MaxSeq,         \* bound: records of one producer
    MaxRetries,     \* bound: retries of all producers together
    MaxCrashes      \* bound: kills of the process

ASSUME ProduceAssumption ==
    /\ NoKey \notin Key
    /\ N \in Nat \ {0} /\ SignBit \in Nat \ {0}
    /\ Hash \in [Key -> 0..(2 * SignBit - 1)]
    /\ Requests \in [Producer -> SUBSET [key : Key \cup {NoKey},
                                          partition : -1..N, fits : BOOLEAN]]
    /\ {MaxSeq, MaxRetries, MaxCrashes} \subseteq Nat

Partition == 0..(N - 1)
Word == 2 * SignBit             \* a counter returns to 0 there

VARIABLES
    client,         \* each producer's current record and what it waits for
    handlers,       \* requests inside the broker
    topic,          \* whether Broker.topics has the topic
    log,            \* records in the files of each partition
    published,      \* nextOffset of each partition
    fenced,         \* partitions with p.failed set
    rr,             \* Topic.rr
    counted,        \* Broker.produceRecords
    openedAt,       \* history: published when the process started
    picked,         \* history: uses of rr by this process
    acked,          \* history: successful answers received
    rejected,       \* history: records answered 400, 404 or 413
    doubtful,       \* history: those answered "no such topic" while another
                    \* attempt was in the broker
    retries,
    crashes

broker == <<topic, log, published, fenced, rr, counted, openedAt, picked>>
history == <<acked, rejected, doubtful>>
faults == <<retries, crashes>>
vars == <<client, handlers, broker, history, faults>>

AnyRequest == UNION {Requests[c] : c \in Producer}
Entry == [by : Producer, seq : 1..MaxSeq, request : AnyRequest]
EntryOf(x) == [by |-> x.by, seq |-> x.seq, request |-> x.request]

Handler == [by : Producer, seq : 1..MaxSeq, attempt : 1..(MaxRetries + 1),
            request : AnyRequest, stage : {"route", "append", "count"},
            partition : Int, offset : Int]

NoRequest == [key |-> NoKey, partition |-> -1, fits |-> TRUE]

Init ==
    /\ client = [c \in Producer |->
                    [state |-> "ready", seq |-> 0, attempt |-> 0,
                     request |-> NoRequest]]
    /\ handlers = {} /\ topic = FALSE
    /\ log = [p \in Partition |-> <<>>]
    /\ published = [p \in Partition |-> 0]
    /\ fenced = {} /\ rr = 0 /\ counted = 0
    /\ openedAt = published /\ picked = 0
    /\ acked = {} /\ rejected = {} /\ doubtful = {}
    /\ retries = 0 /\ crashes = 0

-----------------------------------------------------------------------------
(* The producer.                                                           *)

Request(c, seq, attempt, request) ==
    /\ client' = [client EXCEPT ![c] =
                     [state |-> "waiting", seq |-> seq, attempt |-> attempt,
                      request |-> request]]
    /\ handlers' = handlers \cup
          {[by |-> c, seq |-> seq, attempt |-> attempt, request |-> request,
            stage |-> "route", partition |-> -1, offset |-> -1]}
    /\ UNCHANGED <<broker, history, crashes>>

Send(c) ==
    /\ client[c].state = "ready" /\ client[c].seq < MaxSeq
    /\ \E r \in Requests[c] : Request(c, client[c].seq + 1, 1, r)
    /\ UNCHANGED retries

(* After a timeout, a broken connection or an answer of 500.               *)
Retry(c) ==
    /\ client[c].state \in {"waiting", "unsure"}
    /\ retries < MaxRetries /\ retries' = retries + 1
    /\ Request(c, client[c].seq, client[c].attempt + 1, client[c].request)

-----------------------------------------------------------------------------
(* The answer ends the handler.  One for an attempt that was given up goes *)
(* nowhere, so that an answer which is lost or late is one that is given   *)
(* after the producer has stopped waiting for it.                          *)

Expected(h) ==
    /\ client[h.by].state = "waiting"
    /\ client[h.by].seq = h.seq /\ client[h.by].attempt = h.attempt

(* The producer turns to its next record.                                  *)
Proceed(h) ==
    client' = IF Expected(h)
              THEN [client EXCEPT ![h.by].state = "ready", ![h.by].attempt = 0,
                                  ![h.by].request = NoRequest]
              ELSE client

(* Only a mutant leaves the offset open until now.                         *)
Offered(h) == IF h.offset >= 0 THEN h.offset ELSE published[h.partition] - 1

AnswerOk(h) ==
    /\ handlers' = handlers \ {h} /\ Proceed(h)
    /\ acked' = IF Expected(h)
                THEN acked \cup {[entry |-> EntryOf(h), offset |-> Offered(h),
                                  partition |-> h.partition]}
                ELSE acked
    /\ UNCHANGED <<rejected, doubtful, faults>>

(* 404 for an unknown topic or partition, 413 for a record that is too     *)
(* large; doubts is what the answer leaves open.                           *)
AnswerRejected(h, doubts) ==
    /\ handlers' = handlers \ {h} /\ Proceed(h)
    /\ rejected' = IF Expected(h) THEN rejected \cup {EntryOf(h)} ELSE rejected
    /\ doubtful' = IF Expected(h) THEN doubtful \cup doubts ELSE doubtful
    /\ UNCHANGED <<acked, faults>>

(* 500, whether the partition was fenced before or by this very append, or *)
(* no answer at all.                                                       *)
AnswerFailed(h) ==
    /\ handlers' = handlers \ {h}
    /\ client' = IF Expected(h) THEN [client EXCEPT ![h.by].state = "unsure"]
                 ELSE client
    /\ UNCHANGED <<history, faults>>

-----------------------------------------------------------------------------
(* The broker: resolvePartition.                                           *)

Signed(x) == IF x < SignBit THEN x ELSE x - Word

(* Go's %, which takes the sign of its left operand.                       *)
GoMod(x, n) == IF x >= 0 THEN x % n ELSE -((-x) % n)

(* Mutant: the hash is converted before the modulus.                       *)
KeyPick_Signed(k) == GoMod(Signed(Hash[k]), N)

(* Mutant: records with a key go where the next one without would.         *)
KeyPick_RoundRobin(k) == rr % N

KeyPick(k) == Hash[k] % N

(* Mutant: the counter is used after it was advanced.                      *)
NextPick_Advanced == GoMod(Signed((rr + 1) % Word), N)

(* The value before the increment, as an int.                              *)
NextPick == GoMod(Signed(rr), N)

Routed(h, p) ==
    /\ handlers' = (handlers \ {h}) \cup
          {[h EXCEPT !.stage = "append", !.partition = p]}
    /\ UNCHANGED <<client, history, faults>>

(* The record of h, if another attempt at it is in the broker.             *)
AlsoUnderWay(h) == {EntryOf(h)} \cap {EntryOf(g) : g \in handlers \ {h}}

(* The topic is looked up before anything else: getPartition and getTopic  *)
(* fail alike while it does not exist.  Another attempt may find it.       *)
Route_NoTopic(h) ==
    /\ h.stage = "route" /\ ~topic
    /\ AnswerRejected(h, AlsoUnderWay(h))
    /\ UNCHANGED broker

(* An explicit partition, which may not exist.                             *)
Route_Explicit(h) ==
    /\ h.stage = "route" /\ topic /\ h.request.partition # -1
    /\ IF h.request.partition \in Partition THEN Routed(h, h.request.partition)
       ELSE AnswerRejected(h, {})
    /\ UNCHANGED broker

Route_Key(h) ==
    /\ h.stage = "route" /\ topic /\ h.request.partition = -1
    /\ h.request.key # NoKey
    /\ Routed(h, KeyPick(h.request.key))
    /\ UNCHANGED broker

(* The counter is advanced atomically.  A negative pick is an index out of *)
(* range: the handler panics and the connection is closed.                 *)
Route_RoundRobin(h) ==
    /\ h.stage = "route" /\ topic /\ h.request.partition = -1
    /\ h.request.key = NoKey
    /\ rr' = (rr + 1) % Word
    /\ picked' = picked + 1
    /\ IF NextPick >= 0 THEN Routed(h, NextPick) ELSE AnswerFailed(h)
    /\ UNCHANGED <<topic, log, published, fenced, counted, openedAt>>

-----------------------------------------------------------------------------
(* The broker: Append, which runs under the partition's lock.              *)

Write(p, h) == log' = [log EXCEPT ![p] = Append(@, EntryOf(h))]

Publish(h, offset) ==
    /\ Write(h.partition, h)
    /\ published' = [published EXCEPT ![h.partition] = @ + 1]
    /\ handlers' = (handlers \ {h}) \cup
          {[h EXCEPT !.stage = "count", !.offset = offset]}
    /\ UNCHANGED <<client, history, faults>>

Healthy(h) == h.stage = "append" /\ h.partition \notin fenced

(* Mutant: the offset of the answer is looked up when it is given.         *)
Append_Ok_LateOffset(h) ==
    /\ Healthy(h) /\ h.request.fits
    /\ Publish(h, -1)
    /\ UNCHANGED <<topic, fenced, rr, counted, openedAt, picked>>

Append_Ok(h) ==
    /\ Healthy(h) /\ h.request.fits
    /\ Publish(h, published[h.partition])
    /\ UNCHANGED <<topic, fenced, rr, counted, openedAt, picked>>

(* Mutant: the size is checked once the frame is in the file.              *)
Append_TooLarge_Written(h) ==
    /\ Healthy(h) /\ ~h.request.fits
    /\ Write(h.partition, h)
    /\ published' = [published EXCEPT ![h.partition] = @ + 1]
    /\ AnswerRejected(h, {})
    /\ UNCHANGED <<topic, fenced, rr, counted, openedAt, picked>>

(* The record does not fit in a frame; nothing was written.                *)
Append_TooLarge(h) ==
    /\ Healthy(h) /\ ~h.request.fits
    /\ AnswerRejected(h, {})
    /\ UNCHANGED broker

(* A write or sync fails: the frame is in the file, or part of it, or      *)
(* none, and the partition is fenced.                                      *)
Append_Uncertain(h) ==
    /\ Healthy(h) /\ h.request.fits
    /\ Write(h.partition, h) \/ UNCHANGED log
    /\ fenced' = fenced \cup {h.partition}
    /\ AnswerFailed(h)
    /\ UNCHANGED <<topic, published, rr, counted, openedAt, picked>>

(* Mutant: a fenced partition is answered like one that does not exist.    *)
Append_Fenced_Rejected(h) ==
    /\ h.stage = "append" /\ h.partition \in fenced
    /\ AnswerRejected(h, {})
    /\ UNCHANGED broker

Append_Fenced(h) ==
    /\ h.stage = "append" /\ h.partition \in fenced
    /\ AnswerFailed(h)
    /\ UNCHANGED broker

(* Once Append has returned the record is counted and the answer given.    *)
Count(h) ==
    /\ h.stage = "count"
    /\ counted' = counted + 1
    /\ AnswerOk(h)
    /\ UNCHANGED <<topic, log, published, fenced, rr, openedAt, picked>>

-----------------------------------------------------------------------------
(* The topic is published and exposed, with empty partitions.              *)
CreateTopic ==
    /\ ~topic /\ topic' = TRUE
    /\ UNCHANGED <<client, handlers, log, published, fenced, rr, counted,
                   openedAt, picked, history, faults>>

(* Mutant: the counter survives a restart.                                 *)
ProcessCrash_KeepCount ==
    /\ crashes < MaxCrashes /\ crashes' = crashes + 1
    /\ handlers' = {}
    /\ published' = [p \in Partition |-> Len(log[p])] /\ openedAt' = published'
    /\ fenced' = {} /\ rr' = 0 /\ picked' = 0
    /\ UNCHANGED <<client, topic, log, counted, history, retries>>

(* Killed and started again: the catalog has the topic, the log is what    *)
(* the files hold, everything else of the broker starts from nothing.      *)
ProcessCrash ==
    /\ crashes < MaxCrashes /\ crashes' = crashes + 1
    /\ handlers' = {}
    /\ published' = [p \in Partition |-> Len(log[p])] /\ openedAt' = published'
    /\ fenced' = {} /\ rr' = 0 /\ counted' = 0
    /\ picked' = 0
    /\ UNCHANGED <<client, topic, log, history, retries>>

Handle(h) ==
    \/ Route_NoTopic(h)
    \/ Route_Explicit(h) \/ Route_Key(h) \/ Route_RoundRobin(h)
    \/ Append_Ok(h) \/ Append_TooLarge(h) \/ Append_Uncertain(h)
    \/ Append_Fenced(h) \/ Count(h)

Next ==
    \/ \E c \in Producer : Send(c) \/ Retry(c)
    \/ \E h \in handlers : Handle(h)
    \/ CreateTopic
    \/ ProcessCrash

Spec == Init /\ [][Next]_vars

-----------------------------------------------------------------------------
(* Every variable holds a value of its type; a handler that appends does   *)
(* so to a partition that exists.                                          *)
TypeOK ==
    /\ client \in [Producer ->
          [state : {"ready", "waiting", "unsure"}, seq : 0..MaxSeq,
           attempt : 0..(MaxRetries + 1),
           request : AnyRequest \cup {NoRequest}]]
    /\ handlers \subseteq Handler
    /\ \A h \in handlers : h.stage # "route" => h.partition \in Partition
    /\ log \in [Partition -> Seq(Entry)]
    /\ published \in [Partition -> Nat] /\ openedAt \in [Partition -> Nat]
    /\ fenced \subseteq Partition
    /\ rr \in 0..(Word - 1) /\ counted \in Nat /\ picked \in Nat
    /\ acked \subseteq [entry : Entry, partition : Partition, offset : Int]
    /\ rejected \subseteq Entry /\ doubtful \subseteq Entry
    /\ topic \in BOOLEAN /\ retries \in 0..MaxRetries
    /\ crashes \in 0..MaxCrashes

(* A successful answer names the partition and offset at which the record  *)
(* is found ever after, however many producers appended in between.        *)
AckNamesRecord ==
    \A a \in acked : /\ a.offset + 1 \in 1..published[a.partition]
                     /\ log[a.partition][a.offset + 1] = a.entry

IndexesOf(e, p) == {i \in DOMAIN log[p] : log[p][i] = e}

(* PLAN.md:249 "same key, same partition": records that one producer sent  *)
(* with one key are all in the same partition, and for the first time in   *)
(* the order in which they were sent, whatever was retried, lost, left     *)
(* unfinished by a failing append or still running when it was given up.   *)
(* Only a record whose producer was told that there is no such topic, with *)
(* an earlier attempt still in the broker, may come late.                  *)
KeyOrder ==
    \A p, q \in Partition : \A i \in DOMAIN log[p], j \in DOMAIN log[q] :
        LET d == log[p][i]
            e == log[q][j]
        IN  /\ d.by = e.by /\ d.seq < e.seq
            /\ d.request.key = e.request.key /\ d.request.key # NoKey
            /\ {d.request.partition, e.request.partition} = {-1}
            => /\ p = q
               /\ d \in doubtful \/ \E k \in IndexesOf(d, p) : k < j

(* A record that was answered with a 4xx is nowhere in the log and will    *)
(* not turn up from an attempt that is still running.  The one exception   *)
(* is the 404 for a topic that did not exist yet: an earlier attempt that  *)
(* is still in the broker may find it created.                             *)
CleanRejection ==
    \A e \in rejected \ doubtful : \A p \in Partition : IndexesOf(e, p) = {}

(* A keyless produce that finds no partition comes after 2^63 others (2^31 *)
(* for ints of 32 bits) in one run of the process, never before.           *)
PanicsLate == NextPick < 0 => picked >= SignBit

(* Records published since the process started, as <<partition, offset>>.  *)
Appended ==
    UNION {{p} \X (openedAt[p]..(published[p] - 1)) : p \in Partition}

(* types.go:113: the counter says "what has THIS process moved since it    *)
(* started": every record published since then but those whose handler is  *)
(* about to count them, and no failed, rejected or recovered one.          *)
CountsThisProcess ==
    counted + Cardinality({h \in handlers : h.stage = "count"})
        = Cardinality(Appended)
=============================================================================
