----------------------------- MODULE KafkaConsumer -----------------------------
(***************************************************************************)
(* kafka/consumer/consumer.py: the reference consumer, as the members of   *)
(* one consumer group. A member polls, logs a valid event or queues a      *)
(* rejected one for the DLQ, and commits the offset of every message by    *)
(* itself before it polls again.                                           *)
(*                                                                         *)
(* Around the members, from how they use them: the broker's log, group     *)
(* coordinator (who owns a partition, the committed offsets, the fencing   *)
(* of members it has removed) and each member's DLQ producer. Offsets are  *)
(* as in KafkaPubSubBridge: counts of records.                             *)
(***************************************************************************)
EXTENDS Naturals, Sequences, FiniteSets

CONSTANTS
    Partitions,
    Members,     \* processes of the group
    Kinds,       \* which outcomes of decode and validation occur
    DlqCapacity, \* queue.buffering.max.messages of a DLQ producer
    MaxRecords,  \* bound: records per partition
    MaxFaults,   \* bound: crashes, interrupts, failed commits
    MaxMoves,    \* bound: rebalances and removals of live members
    Nobody,      \* a partition without an owner
    NoMessage    \* no message in hand

Rejected == {"invalid_json", "schema_validation_failed"}
AllKinds == {"valid", "undecodable"} \cup Rejected

ASSUME KindsAssumption == Kinds \subseteq AllKinds
ASSUME NobodyAssumption == Nobody \notin Members
ASSUME BoundsAssumption ==
    DlqCapacity \in Nat /\ MaxRecords \in Nat /\ MaxFaults \in Nat /\ MaxMoves \in Nat

Message == [part : Partitions, off : 1 .. MaxRecords]
ASSUME NoMessageAssumption == NoMessage \notin Message

VARIABLES
    log,       \* log[p]: the kinds of the records of p
    committed, \* committed[p]: offset of the group
    owner,     \* owner[p]: the member p is assigned to
    position,  \* position[p]: fetch position of its owner
    pc,        \* pc[c]: "poll", "commit", "closing" or "down"
    msg,       \* msg[c]: the message in hand
    times,     \* history: how often a message was processed or queued
    dlqBuffer, \* dlqBuffer[c]: records inside c's DLQ producer
    dlqTopic,  \* DLQ records the broker has
    dlqLost,   \* history: DLQ records that never got there
    faults, moves

group == <<committed, owner, position>>
dlq   == <<dlqBuffer, dlqTopic, dlqLost>>
vars  == <<log, group, pc, msg, times, dlq, faults, moves>>

TypeOK ==
    /\ log \in [Partitions -> Seq(AllKinds)]
    /\ committed \in [Partitions -> 0 .. MaxRecords]
    /\ owner \in [Partitions -> Members \cup {Nobody}]
    /\ position \in [Partitions -> 0 .. MaxRecords]
    /\ pc \in [Members -> {"poll", "commit", "closing", "down"}]
    /\ msg \in [Members -> Message \cup {NoMessage}]
    /\ times \in [Message -> Nat]
    /\ dlqBuffer \in [Members -> SUBSET Message]
    /\ dlqTopic \subseteq Message
    /\ dlqLost \subseteq Message
    /\ faults \in 0 .. MaxFaults
    /\ moves \in 0 .. MaxMoves

Init ==
    /\ log = [p \in Partitions |-> <<>>]
    /\ committed = [p \in Partitions |-> 0]
    /\ owner = [p \in Partitions |-> Nobody]
    /\ position = [p \in Partitions |-> 0]
    /\ pc = [c \in Members |-> "poll"]
    /\ msg = [c \in Members |-> NoMessage]
    /\ times = [m \in Message |-> 0]
    /\ dlqBuffer = [c \in Members |-> {}]
    /\ dlqTopic = {}
    /\ dlqLost = {}
    /\ faults = 0
    /\ moves = 0

KindOf(m) == log[m.part][m.off]
NextMessage(p) == [part |-> p, off |-> position[p] + 1]

-----------------------------------------------------------------------------
Produce(p, kind) ==
    /\ Len(log[p]) < MaxRecords
    /\ log' = [log EXCEPT ![p] = Append(@, kind)]
    /\ UNCHANGED <<group, pc, msg, times, dlq, faults, moves>>

(* The coordinator hands p to a member that polls, from the offset the     *)
(* group committed. p has no owner, or its owner polls too and gives it up.*)
Assign(p, c) ==
    /\ pc[c] = "poll"
    /\ owner[p] # c
    /\ IF owner[p] = Nobody
       THEN UNCHANGED moves
       ELSE pc[owner[p]] = "poll" /\ moves < MaxMoves /\ moves' = moves + 1
    /\ owner' = [owner EXCEPT ![p] = c]
    /\ position' = [position EXCEPT ![p] = committed[p]]
    /\ UNCHANGED <<log, committed, pc, msg, times, dlq, faults>>

Abandoned(c) == [p \in Partitions |-> IF owner[p] = c THEN Nobody ELSE owner[p]]

(* A member that does not poll for max.poll.interval.ms is removed; it     *)
(* learns so when it commits, or polls.                                    *)
Remove(c) ==
    /\ pc[c] \in {"poll", "commit"}
    /\ moves < MaxMoves
    /\ moves' = moves + 1
    /\ owner' = Abandoned(c)
    /\ UNCHANGED <<log, committed, position, pc, msg, times, dlq, faults>>

-----------------------------------------------------------------------------
(* The loop of run() and process_message.                                  *)

Fetch(p, c) ==
    /\ pc[c] = "poll"
    /\ owner[p] = c
    /\ position[p] < Len(log[p])
    /\ position' = [position EXCEPT ![p] = @ + 1]

(* An exception or KeyboardInterrupt leaves the loop.                      *)
Raise(c) ==
    /\ pc' = [pc EXCEPT ![c] = "closing"]
    /\ msg' = [msg EXCEPT ![c] = NoMessage]

(* process_message is done with m; commit(m) is next.                      *)
Handled(c, m) ==
    /\ pc' = [pc EXCEPT ![c] = "commit"]
    /\ msg' = [msg EXCEPT ![c] = m]
    /\ times' = [times EXCEPT ![m] = @ + 1]

PollValid(p, c) ==
    /\ Fetch(p, c)
    /\ KindOf(NextMessage(p)) = "valid"
    /\ Handled(c, NextMessage(p))
    /\ UNCHANGED <<log, committed, owner, dlq, faults, moves>>

(* Mutant of PollRejected: the record is skipped, not dead-lettered.       *)
PollRejectedDropped(p, c) ==
    /\ Fetch(p, c)
    /\ KindOf(NextMessage(p)) \in Rejected
    /\ Handled(c, NextMessage(p))
    /\ UNCHANGED <<log, committed, owner, dlq, faults, moves>>

(* Mutant of PollRejected: its offset is left uncommitted.                 *)
PollRejectedUncommitted(p, c) ==
    /\ Fetch(p, c)
    /\ KindOf(NextMessage(p)) \in Rejected
    /\ Cardinality(dlqBuffer[c]) < DlqCapacity
    /\ dlqBuffer' = [dlqBuffer EXCEPT ![c] = @ \cup {NextMessage(p)}]
    /\ times' = [times EXCEPT ![NextMessage(p)] = @ + 1]
    /\ UNCHANGED <<log, committed, owner, pc, msg, dlqTopic, dlqLost, faults, moves>>

(* send_to_dlq: produce() queues, nobody waits for the delivery.           *)
PollRejected(p, c) ==
    /\ Fetch(p, c)
    /\ KindOf(NextMessage(p)) \in Rejected
    /\ Cardinality(dlqBuffer[c]) < DlqCapacity
    /\ dlqBuffer' = [dlqBuffer EXCEPT ![c] = @ \cup {NextMessage(p)}]
    /\ Handled(c, NextMessage(p))
    /\ UNCHANGED <<log, committed, owner, dlqTopic, dlqLost, faults, moves>>

(* produce() raises BufferError.                                           *)
PollRejectedFull(p, c) ==
    /\ Fetch(p, c)
    /\ KindOf(NextMessage(p)) \in Rejected
    /\ Cardinality(dlqBuffer[c]) >= DlqCapacity
    /\ Raise(c)
    /\ UNCHANGED <<log, committed, owner, times, dlq, faults, moves>>

(* UnicodeDecodeError, TypeError or AttributeError: caught by neither      *)
(* except clause.                                                          *)
PollUndecodable(p, c) ==
    /\ Fetch(p, c)
    /\ KindOf(NextMessage(p)) = "undecodable"
    /\ Raise(c)
    /\ UNCHANGED <<log, committed, owner, times, dlq, faults, moves>>

(* Mutant of CommitTo: one past the next one, as when the caller adds the  *)
(* one that commit(msg) adds itself.                                       *)
CommitPastNext(m) == [committed EXCEPT ![m.part] = m.off + 1]

(* Mutant of CommitTo: the offset of the message, not of the next one.     *)
CommitToItself(m) == [committed EXCEPT ![m.part] = m.off - 1]

CommitTo(m) == [committed EXCEPT ![m.part] = m.off]

Commit(c) ==
    /\ pc[c] = "commit"
    /\ owner[msg[c].part] = c
    /\ committed' = CommitTo(msg[c])
    /\ pc' = [pc EXCEPT ![c] = "poll"]
    /\ msg' = [msg EXCEPT ![c] = NoMessage]
    /\ UNCHANGED <<log, owner, position, times, dlq, faults, moves>>

(* The broker refuses the commit of a member it has removed.               *)
CommitRefused(c) ==
    /\ pc[c] = "commit"
    /\ owner[msg[c].part] # c
    /\ Raise(c)
    /\ UNCHANGED <<log, group, times, dlq, faults, moves>>

(* It fails otherwise, applied or not; commit() raises.                    *)
CommitFails(c) ==
    /\ pc[c] = "commit"
    /\ owner[msg[c].part] = c
    /\ faults < MaxFaults
    /\ faults' = faults + 1
    /\ committed' \in {committed, CommitTo(msg[c])}
    /\ Raise(c)
    /\ UNCHANGED <<log, owner, position, times, dlq, moves>>

-----------------------------------------------------------------------------
DlqDelivered(c, m) ==
    /\ m \in dlqBuffer[c]
    /\ dlqBuffer' = [dlqBuffer EXCEPT ![c] = @ \ {m}]
    /\ dlqTopic' = dlqTopic \cup {m}
    /\ UNCHANGED <<log, group, pc, msg, times, dlqLost, faults, moves>>

DlqExpired(c, m) ==
    /\ m \in dlqBuffer[c]
    /\ dlqBuffer' = [dlqBuffer EXCEPT ![c] = @ \ {m}]
    /\ dlqLost' = dlqLost \cup {m}
    /\ UNCHANGED <<log, group, pc, msg, times, dlqTopic, faults, moves>>

(* The process is gone, with its memory; the group abandons its partitions.*)
Die(c) ==
    /\ pc' = [pc EXCEPT ![c] = "down"]
    /\ msg' = [msg EXCEPT ![c] = NoMessage]
    /\ owner' = Abandoned(c)
    /\ dlqLost' = dlqLost \cup dlqBuffer[c]
    /\ dlqBuffer' = [dlqBuffer EXCEPT ![c] = {}]
    /\ UNCHANGED <<log, committed, position, times, dlqTopic, moves>>

Crash(c) ==
    /\ pc[c] # "down"
    /\ faults < MaxFaults
    /\ faults' = faults + 1
    /\ Die(c)

Interrupt(c) ==
    /\ pc[c] \in {"poll", "commit"}
    /\ faults < MaxFaults
    /\ faults' = faults + 1
    /\ Raise(c)
    /\ UNCHANGED <<log, group, times, dlq, moves>>

(* finally: flush(10) has returned, close() leaves the group.              *)
Close(c) ==
    /\ pc[c] = "closing"
    /\ Die(c)
    /\ UNCHANGED faults

Start(c) ==
    /\ pc[c] = "down"
    /\ pc' = [pc EXCEPT ![c] = "poll"]
    /\ UNCHANGED <<log, group, msg, times, dlq, faults, moves>>

-----------------------------------------------------------------------------
Poll(p, c) ==
    \/ PollValid(p, c) \/ PollRejected(p, c)
    \/ PollRejectedFull(p, c) \/ PollUndecodable(p, c)

Member(c) ==
    \/ \E p \in Partitions : Poll(p, c)
    \/ Commit(c) \/ CommitRefused(c) \/ Close(c) \/ Start(c)

DlqProducer(c) == \E m \in dlqBuffer[c] : DlqDelivered(c, m) \/ DlqExpired(c, m)

Next ==
    \/ \E p \in Partitions, kind \in Kinds : Produce(p, kind)
    \/ \E p \in Partitions, c \in Members : Assign(p, c)
    \/ \E c \in Members :
        \/ Member(c) \/ DlqProducer(c)
        \/ Remove(c) \/ CommitFails(c) \/ Crash(c) \/ Interrupt(c)

Spec == Init /\ [][Next]_vars

(* A stopped member is started again and polls; the coordinator gives away *)
(* a partition without an owner as soon as a member polls.                 *)
FairSpec ==
    /\ Spec
    /\ \A c \in Members : WF_vars(Member(c))
    /\ \A p \in Partitions :
        WF_vars(\E c \in Members : owner[p] = Nobody /\ Assign(p, c))

-----------------------------------------------------------------------------
(* Properties.                                                             *)

(* A message is processed, or queued for the DLQ, again only after a       *)
(* fault or a move: redelivery has a cause.                                *)
RedeliveryHasCause ==
    \A m \in Message : times[m] <= 1 + faults + moves

(* The group implements the contract the bridge implements, with a logged  *)
(* event as delivered: only dealt-with records are acknowledged, and the   *)
(* committed offset never moves back, whoever commits.                     *)
Processed == {m \in Message : times[m] > 0 /\ KindOf(m) = "valid"}

Delivered == Processed \cup dlqTopic
Released  == dlqTopic \cup dlqLost \cup UNION {dlqBuffer[c] : c \in Members}

Contract == INSTANCE CommitContract WITH
    Record <- AllKinds,
    delivered <- Delivered,
    released <- Released,
    acked <- committed

ContractSpec == Contract!Spec

(* "Never left uncommitted on failure": every record is committed in the   *)
(* end, over crashes, refused or failed commits, rebalances and a full DLQ *)
(* producer. Only an undecodable record wedges the group: the partition    *)
(* from there on, and the others as far as its member never gets to them.  *)
NoWedge ==
    \A p \in Partitions : \A o \in 1 .. MaxRecords :
        Len(log[p]) >= o ~>
            \/ committed[p] >= o
            \/ \E q \in Partitions : \E i \in 1 .. Len(log[q]) :
                  log[q][i] = "undecodable" /\ (q = p => i <= o)
=============================================================================
