-------------------------- MODULE KafkaPubSubBridge --------------------------
(***************************************************************************)
(* bridge/kafka_to_pubsub_bridge.py: one process that polls the domain     *)
(* topics of Kafka, dead-letters what fails validation, publishes the rest *)
(* to Pub/Sub with an ordering key, and commits offsets by hand.           *)
(*                                                                         *)
(* Around the process, modelled from how it uses them: the Kafka broker    *)
(* (logs and committed offsets), the ordered Pub/Sub publisher client (one *)
(* queue per ordering key, paused after a failure, requests that outlive   *)
(* the future or the process), and the asynchronous DLQ producer.          *)
(*                                                                         *)
(* A message is identified by its partition and its 1-based offset;        *)
(* committed[p] and position[p] count records, so they are Kafka's offset  *)
(* of the next record.                                                     *)
(***************************************************************************)
EXTENDS Naturals, Sequences, FiniteSets

CONSTANTS
    Partitions,   \* partitions of the subscribed topics
    Keys,         \* ordering keys (msg.key(), else the event_id)
    PartitionOf,  \* the broker's partitioner: Keys -> Partitions
    Kinds,        \* which outcomes of decode and validation occur
    MaxAttempts,  \* call_with_backoff(max_attempts=5)
    DlqCapacity,  \* queue.buffering.max.messages of the DLQ producer
    MaxRecords,   \* bound: records per partition
    MaxRuns,      \* bound: processes started; all but the last may crash
    MaxLostAcks,  \* bound: publish responses lost on the way back
    NoMessage     \* no message in hand

(* What json.loads and validate_event make of a record: an event, one of   *)
(* the two exceptions that are caught, or any other exception (bytes that  *)
(* are not UTF-8, a null value, JSON that is not an object).               *)
Rejected == {"invalid_json", "schema_validation_failed"}
AllKinds == {"valid", "undecodable"} \cup Rejected

ASSUME KeysAssumption == PartitionOf \in [Keys -> Partitions]
ASSUME KindsAssumption == Kinds \subseteq AllKinds
ASSUME BoundsAssumption ==
    /\ MaxAttempts \in Nat \ {0}
    /\ DlqCapacity \in Nat
    /\ MaxRecords \in Nat
    /\ MaxRuns \in Nat \ {0}
    /\ MaxLostAcks \in Nat

Message == [part : Partitions, off : Nat]
ASSUME NoMessageAssumption == NoMessage \notin Message

VARIABLES
    log,        \* log[p]: records of the partition, at the broker
    committed,  \* committed[p]: offset of the bridge's group, at the broker
    position,   \* position[p]: the consumer's fetch position, in memory
    pc,         \* where the process is
    msg,        \* the message in hand
    attempt,    \* publish attempts made for it
    outbox,     \* outbox[k]: publishes of k the client has not resolved
    paused,     \* ordering keys the publisher client has paused
    strays,     \* requests in flight when a process died
    topic,      \* topic[k]: what Pub/Sub accepted for ordering key k
    dlqBuffer,  \* DLQ records inside the producer
    dlqTopic,   \* DLQ records the broker has
    dlqLost,    \* history: messages whose DLQ record was dropped
    gaveUp,     \* history: messages given up after the retries
    runs,       \* processes started so far, for MaxRuns
    lostAcks    \* count for MaxLostAcks

broker == <<log, committed>>
loop   == <<position, pc, msg, attempt>>
client == <<outbox, paused, strays, topic, lostAcks>>
dlq    == <<dlqBuffer, dlqTopic, dlqLost>>
vars   == <<broker, loop, client, dlq, gaveUp, runs>>

Phase == {"poll", "publish", "wait", "commit", "closing", "down"}

Record == [key : Keys, kind : AllKinds]

TypeOK ==
    /\ log \in [Partitions -> Seq(Record)]
    /\ committed \in [Partitions -> Nat]
    /\ position \in [Partitions -> Nat]
    /\ pc \in Phase
    /\ msg \in Message \cup {NoMessage}
    /\ attempt \in 0 .. MaxAttempts
    /\ outbox \in [Keys -> Seq(Message)]
    /\ paused \subseteq Keys
    /\ strays \subseteq Message
    /\ topic \in [Keys -> Seq(Message)]
    /\ dlqBuffer \subseteq Message
    /\ dlqTopic \subseteq Message
    /\ dlqLost \subseteq Message
    /\ gaveUp \subseteq Message
    /\ runs \in 1 .. MaxRuns
    /\ lostAcks \in 0 .. MaxLostAcks

InLog(m) == m.off \in 1 .. Len(log[m.part])
RecordOf(m) == log[m.part][m.off]
KeyOf(m) == RecordOf(m).key
KindOf(m) == RecordOf(m).kind

(* Message m is somewhere in the Pub/Sub topic.                            *)
Published(m) == \E k \in Keys : \E i \in 1 .. Len(topic[k]) : topic[k][i] = m
PublishedMessages ==
    UNION {{topic[k][i] : i \in 1 .. Len(topic[k])} : k \in Keys}

Init ==
    /\ log = [p \in Partitions |-> <<>>]
    /\ committed = [p \in Partitions |-> 0]
    /\ position = [p \in Partitions |-> 0]
    /\ pc = "poll"
    /\ msg = NoMessage
    /\ attempt = 0
    /\ outbox = [k \in Keys |-> <<>>]
    /\ paused = {}
    /\ strays = {}
    /\ topic = [k \in Keys |-> <<>>]
    /\ dlqBuffer = {}
    /\ dlqTopic = {}
    /\ dlqLost = {}
    /\ gaveUp = {}
    /\ runs = 1
    /\ lostAcks = 0

-----------------------------------------------------------------------------
(* Producers append to the topics; the key chooses the partition.          *)
Produce(k, kind) ==
    LET p == PartitionOf[k] IN
    /\ Len(log[p]) < MaxRecords
    /\ log' = [log EXCEPT ![p] = Append(@, [key |-> k, kind |-> kind])]
    /\ UNCHANGED <<committed, loop, client, dlq, gaveUp, runs>>

-----------------------------------------------------------------------------
(* The loop of run(): poll, decode and validate.                           *)

(* An exception leaves the try block: the process runs its finally clause, *)
(* where flush(10) still drives the DLQ producer.                          *)
Raise ==
    /\ pc' = "closing"
    /\ msg' = NoMessage
    /\ attempt' = 0

(* poll() hands out the next record of some partition.                     *)
NextMessage(p) == [part |-> p, off |-> position[p] + 1]

Fetch(p) ==
    /\ pc = "poll"
    /\ position[p] < Len(log[p])
    /\ position' = [position EXCEPT ![p] = @ + 1]

(* What validates is published next.                                        *)
PollValid(p) ==
    /\ Fetch(p)
    /\ KindOf(NextMessage(p)) = "valid"
    /\ msg' = NextMessage(p)
    /\ pc' = "publish"
    /\ UNCHANGED <<attempt, broker, client, dlq, gaveUp, runs>>

(* send_kafka_dlq: produce() only queues the record; the offset is         *)
(* committed next without waiting for its delivery.                        *)
PollRejected(p) ==
    /\ Fetch(p)
    /\ KindOf(NextMessage(p)) \in Rejected
    /\ Cardinality(dlqBuffer) < DlqCapacity
    /\ dlqBuffer' = dlqBuffer \cup {NextMessage(p)}
    /\ msg' = NextMessage(p)
    /\ pc' = "commit"
    /\ UNCHANGED <<attempt, broker, client, dlqTopic, dlqLost, gaveUp, runs>>

(* produce() raises BufferError when the producer's queue is full.         *)
PollRejectedFull(p) ==
    /\ Fetch(p)
    /\ KindOf(NextMessage(p)) \in Rejected
    /\ Cardinality(dlqBuffer) >= DlqCapacity
    /\ Raise
    /\ UNCHANGED <<broker, client, dlq, gaveUp, runs>>

(* Neither except clause matches: the exception ends the process.          *)
PollUndecodable(p) ==
    /\ Fetch(p)
    /\ KindOf(NextMessage(p)) = "undecodable"
    /\ Raise
    /\ UNCHANGED <<broker, client, dlq, gaveUp, runs>>

-----------------------------------------------------------------------------
(* publish_to_pubsub inside call_with_backoff.                             *)

(* Mutant of AttemptFailed: one attempt too many.                          *)
AttemptFailedOffByOne(n) ==
    IF n <= MaxAttempts
    THEN /\ pc' = "publish"
         /\ attempt' = n
         /\ UNCHANGED <<msg, gaveUp>>
    ELSE /\ pc' = "poll"
         /\ attempt' = 0
         /\ msg' = NoMessage
         /\ gaveUp' = gaveUp \cup {msg}

(* One attempt failed: try again, or give up and go back to poll() with    *)
(* the offset uncommitted.                                                 *)
AttemptFailed(n) ==
    IF n < MaxAttempts
    THEN /\ pc' = "publish"
         /\ attempt' = n
         /\ UNCHANGED <<msg, gaveUp>>
    ELSE /\ pc' = "poll"
         /\ attempt' = 0
         /\ msg' = NoMessage
         /\ gaveUp' = gaveUp \cup {msg}

(* publisher.publish() queues the message behind the others of its key.    *)
PublishAttempt ==
    /\ pc = "publish"
    /\ KeyOf(msg) \notin paused
    /\ pc' = "wait"
    /\ attempt' = attempt + 1
    /\ outbox' = [outbox EXCEPT ![KeyOf(msg)] = Append(@, msg)]
    /\ UNCHANGED <<position, msg, broker, paused, strays, topic, lostAcks,
                   dlq, gaveUp, runs>>

(* publish() on a paused key fails at once, until a resume_publish() that  *)
(* the bridge never calls.                                                 *)
PublishPaused ==
    /\ pc = "publish"
    /\ KeyOf(msg) \in paused
    /\ AttemptFailed(attempt + 1)
    /\ UNCHANGED <<position, broker, client, dlq, runs>>

(* Mutant of Timeout: an expired wait is taken for a success.              *)
TimeoutIgnored ==
    /\ pc = "wait"
    /\ pc' = "commit"
    /\ UNCHANGED <<position, msg, attempt, broker, client, dlq, gaveUp, runs>>

(* future.result(timeout=30) expires; the request stays with the client.   *)
Timeout ==
    /\ pc = "wait"
    /\ AttemptFailed(attempt)
    /\ UNCHANGED <<position, broker, client, dlq, runs>>

(* The bridge waits on the last publish it queued for its key, so that one *)
(* is resolved when the queue has just this element.                       *)
WaitsFor(k) ==
    /\ pc = "wait"
    /\ KeyOf(msg) = k
    /\ Len(outbox[k]) = 1

(* Pub/Sub accepts the oldest request of a key and the client learns it.   *)
PublishAccepted(k) ==
    /\ outbox[k] # <<>>
    /\ topic' = [topic EXCEPT ![k] = Append(@, Head(outbox[k]))]
    /\ outbox' = [outbox EXCEPT ![k] = Tail(@)]
    /\ pc' = IF WaitsFor(k) THEN "commit" ELSE pc
    /\ UNCHANGED <<position, msg, attempt, broker, paused, strays, lostAcks,
                   dlq, gaveUp, runs>>

(* Pub/Sub accepts it but the response is lost: the client sends it again. *)
PublishAckLost(k) ==
    /\ outbox[k] # <<>>
    /\ lostAcks < MaxLostAcks
    /\ lostAcks' = lostAcks + 1
    /\ topic' = [topic EXCEPT ![k] = Append(@, Head(outbox[k]))]
    /\ UNCHANGED <<broker, loop, outbox, paused, strays, dlq, gaveUp, runs>>

(* The request fails for good: the client pauses the key and fails every   *)
(* request queued behind it.                                               *)
PublishRefused(k) ==
    /\ outbox[k] # <<>>
    /\ outbox' = [outbox EXCEPT ![k] = <<>>]
    /\ paused' = paused \cup {k}
    /\ IF pc = "wait" /\ KeyOf(msg) = k
       THEN AttemptFailed(attempt)
       ELSE UNCHANGED <<pc, msg, attempt, gaveUp>>
    /\ UNCHANGED <<position, broker, strays, topic, lostAcks, dlq, runs>>

-----------------------------------------------------------------------------
(* consumer.commit(msg, asynchronous=False)                                *)

CommitTo(m) == [committed EXCEPT ![m.part] = m.off]

Commit ==
    /\ pc = "commit"
    /\ committed' = CommitTo(msg)
    /\ pc' = "poll"
    /\ msg' = NoMessage
    /\ attempt' = 0
    /\ UNCHANGED <<log, position, client, dlq, gaveUp, runs>>

(* The commit raises, applied at the broker or not, and nothing catches it. *)
CommitFails ==
    /\ pc = "commit"
    /\ runs < MaxRuns
    /\ committed' \in {committed, CommitTo(msg)}
    /\ Raise
    /\ UNCHANGED <<log, position, client, dlq, gaveUp, runs>>

-----------------------------------------------------------------------------
(* The asynchronous DLQ producer, outside the loop.                        *)

DlqDelivered(m) ==
    /\ m \in dlqBuffer
    /\ dlqBuffer' = dlqBuffer \ {m}
    /\ dlqTopic' = dlqTopic \cup {m}
    /\ UNCHANGED <<broker, loop, client, dlqLost, gaveUp, runs>>

(* message.timeout.ms expires; no delivery callback is registered.         *)
DlqExpired(m) ==
    /\ m \in dlqBuffer
    /\ dlqBuffer' = dlqBuffer \ {m}
    /\ dlqLost' = dlqLost \cup {m}
    /\ UNCHANGED <<broker, loop, client, dlqTopic, gaveUp, runs>>

-----------------------------------------------------------------------------
(* The end of a process, and the next one.                                 *)

(* The clients' memory is gone; the first request of each key may already  *)
(* be on its way.                                                          *)
Die ==
    /\ pc' = "down"
    /\ msg' = NoMessage
    /\ attempt' = 0
    /\ strays' = strays \cup
                 {Head(outbox[k]) : k \in {j \in Keys : outbox[j] # <<>>}}
    /\ outbox' = [k \in Keys |-> <<>>]
    /\ paused' = {}
    /\ dlqLost' = dlqLost \cup dlqBuffer
    /\ dlqBuffer' = {}
    /\ UNCHANGED <<position, broker, topic, lostAcks, dlqTopic, gaveUp, runs>>

Crash ==
    /\ pc # "down"
    /\ runs < MaxRuns
    /\ Die

(* KeyboardInterrupt, at any point of the loop.                            *)
Interrupt ==
    /\ pc \notin {"closing", "down"}
    /\ runs < MaxRuns
    /\ Raise
    /\ UNCHANGED <<position, broker, client, dlq, gaveUp, runs>>

(* The finally clause is done: flush(10) returned, close() never commits.  *)
Close ==
    /\ pc = "closing"
    /\ Die

(* A request of a dead process is accepted late, or never.                 *)
StrayAccepted(m) ==
    /\ m \in strays
    /\ strays' = strays \ {m}
    /\ topic' = [topic EXCEPT ![KeyOf(m)] = Append(@, m)]
    /\ UNCHANGED <<broker, loop, outbox, paused, lostAcks, dlq, gaveUp, runs>>

StrayDropped(m) ==
    /\ m \in strays
    /\ strays' = strays \ {m}
    /\ UNCHANGED <<broker, loop, outbox, paused, topic, lostAcks, dlq, gaveUp,
                   runs>>

(* Mutant of Restart: the group starts at the end, as with                 *)
(* auto.offset.reset=latest and no committed offset.                       *)
RestartAtEnd ==
    /\ pc = "down"
    /\ runs < MaxRuns
    /\ runs' = runs + 1
    /\ pc' = "poll"
    /\ position' = [p \in Partitions |-> Len(log[p])]
    /\ UNCHANGED <<msg, attempt, broker, client, dlq, gaveUp>>

(* A new process of the same group starts where the group committed.       *)
Restart ==
    /\ pc = "down"
    /\ runs < MaxRuns
    /\ runs' = runs + 1
    /\ pc' = "poll"
    /\ position' = committed
    /\ UNCHANGED <<msg, attempt, broker, client, dlq, gaveUp>>

-----------------------------------------------------------------------------
Poll(p) ==
    PollValid(p) \/ PollRejected(p) \/ PollRejectedFull(p) \/ PollUndecodable(p)

Process ==
    \/ \E p \in Partitions : Poll(p)
    \/ PublishAttempt \/ PublishPaused \/ Timeout
    \/ Commit \/ Close \/ Restart

PubSub ==
    \/ \E k \in Keys :
        PublishAccepted(k) \/ PublishAckLost(k) \/ PublishRefused(k)
    \/ \E m \in strays : StrayAccepted(m) \/ StrayDropped(m)

DlqProducer == \E m \in dlqBuffer : DlqDelivered(m) \/ DlqExpired(m)

Faults == CommitFails \/ Crash \/ Interrupt

Next ==
    \/ \E k \in Keys, kind \in Kinds : Produce(k, kind)
    \/ Process
    \/ PubSub
    \/ DlqProducer
    \/ Faults

Spec == Init /\ [][Next]_vars

(* Fairness: the loop never stops polling, future.result() has a timeout,  *)
(* a stopped bridge is started again, and the background thread of the DLQ *)
(* producer delivers a record or expires it.                               *)
FairSpec == Spec /\ WF_vars(Process) /\ WF_vars(DlqProducer)

-----------------------------------------------------------------------------
(* Properties.                                                             *)

MessageAt(p, o) == [part |-> p, off |-> o]

(* What became of a record that was dealt with: an event is in Pub/Sub     *)
(* unless the bridge gave it up, a rejected record was queued for the DLQ. *)
Settled(m) ==
    /\ InLog(m)
    /\ \/ KindOf(m) = "valid" /\ (Published(m) \/ m \in gaveUp)
       \/ KindOf(m) \in Rejected /\ m \in dlqBuffer \cup dlqTopic \cup dlqLost

(* Every record the group has committed was dealt with, and a record that  *)
(* kills the decoder is never committed.                                   *)
CommittedIsSettled ==
    \A p \in Partitions : \A o \in 1 .. committed[p] : Settled(MessageAt(p, o))

(* Between the committed offset and the fetch position of a running        *)
(* process there is nothing but the message in hand and messages given up. *)
UncommittedIsGivenUp ==
    pc \in {"poll", "publish", "wait", "commit"} =>
        \A p \in Partitions : \A o \in committed[p] + 1 .. position[p] :
            MessageAt(p, o) \in gaveUp \cup {msg}

(* Pub/Sub only ever holds events that passed validation, in the queue of  *)
(* their own ordering key, and the DLQ only records that failed it, also   *)
(* for requests that outlive the process that sent them.                   *)
RoutedByValidation ==
    /\ \A k \in Keys : \A i \in 1 .. Len(topic[k]) :
        LET m == topic[k][i] IN
        InLog(m) /\ KindOf(m) = "valid" /\ KeyOf(m) = k
    /\ \A m \in dlqTopic : InLog(m) /\ KindOf(m) \in Rejected

(* An event first reaches Pub/Sub before every later event of its ordering *)
(* key, unless the bridge gave it up: through retries, timeouts answered   *)
(* late, paused keys, restarts and requests of dead processes.             *)
InOrderUnlessGivenUp ==
    \A k \in Keys : \A j \in 1 .. Len(topic[k]) :
        \A o \in 1 .. topic[k][j].off - 1 :
            LET m == MessageAt(topic[k][j].part, o) IN
            (KindOf(m) = "valid" /\ KeyOf(m) = k) =>
                \/ m \in gaveUp
                \/ \E i \in 1 .. j - 1 : topic[k][i] = m

(* The bridge implements the contract of a manual-commit consumer.         *)
Delivered == PublishedMessages \cup dlqTopic
Released == gaveUp \cup dlqBuffer \cup dlqTopic \cup dlqLost

Contract == INSTANCE CommitContract WITH
    delivered <- Delivered, released <- Released, acked <- committed

ContractSpec == Contract!Spec

(* A log the bridge can get through: no record that kills the decoder, and *)
(* no more rejected ones than the DLQ producer can hold.                   *)
Servable ==
    \A p \in Partitions :
        LET rejected == {o \in 1 .. Len(log[p]) : KindOf(MessageAt(p, o)) # "valid"}
        IN  /\ Cardinality(rejected) <= DlqCapacity
            /\ \A o \in rejected : KindOf(MessageAt(p, o)) # "undecodable"

(* Every record of such a log is eventually committed and its DLQ record   *)
(* resolved, or given up, over crashes, interrupts, failed commits,        *)
(* timeouts, lost responses and paused keys.                               *)
EverythingSettled ==
    []Servable =>
        \A p \in Partitions : \A o \in 1 .. MaxRecords :
            LET m == MessageAt(p, o) IN
            InLog(m) ~> (m \in gaveUp \/ (committed[p] >= o /\ m \notin dlqBuffer))

(* What the comment of the except clause says of an event given up: it is  *)
(* redelivered on restart instead of silently dropped, so as long as it is *)
(* not in Pub/Sub the group's offset stays below it.                       *)
GivenUpStaysUncommitted ==
    \A m \in gaveUp : Published(m) \/ committed[m.part] < m.off
=============================================================================
