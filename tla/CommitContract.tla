--------------------------- MODULE CommitContract ---------------------------
(***************************************************************************)
(* What a manual-commit Kafka consumer of this platform promises about the *)
(* partitions it reads, whatever happens between poll() and commit():      *)
(*                                                                         *)
(*   - an offset is acknowledged only when every record at or below it has *)
(*     been delivered downstream, or has been let go of in one of the ways *)
(*     the code knows (given up after the retries, handed to the           *)
(*     asynchronous dead-letter producer);                                 *)
(*   - nothing is delivered that the log does not hold;                    *)
(*   - acknowledgements, deliveries and the log only grow.                 *)
(*                                                                         *)
(* The bridge (KafkaPubSubBridge) is shown to implement this contract.     *)
(* A record is identified by its partition and its 1-based offset;         *)
(* acked[p] is the number of records of p that are acknowledged.           *)
(***************************************************************************)
EXTENDS Naturals, Sequences

CONSTANTS
    Partitions,  \* partitions the consumer reads
    Record       \* what a producer may append

VARIABLES
    log,        \* log[p]: the records of partition p
    delivered,  \* messages that reached a topic somebody can read
    released,   \* messages the consumer let go of without that confirmation
    acked       \* acked[p]: committed offset of the consumer group

vars == <<log, delivered, released, acked>>

InLog(m) == m.off \in 1 .. Len(log[m.part])

Init ==
    /\ log = [p \in Partitions |-> <<>>]
    /\ delivered = {}
    /\ released = {}
    /\ acked = [p \in Partitions |-> 0]

(* A producer appends one record to one partition.                         *)
Extend(p) ==
    /\ \E r \in Record : log' = [log EXCEPT ![p] = Append(@, r)]
    /\ UNCHANGED <<delivered, released, acked>>

(* One message of the log reaches its destination; at-least-once, so it    *)
(* may already have been there.                                            *)
Deliver(m) ==
    /\ InLog(m)
    /\ delivered' = delivered \cup {m}
    /\ UNCHANGED <<log, released, acked>>

(* The consumer lets go of one message of the log.                         *)
Release(m) ==
    /\ InLog(m)
    /\ released' = released \cup {m}
    /\ UNCHANGED <<log, delivered, acked>>

(* Every record of p up to offset n has been dealt with.                   *)
SettledUpTo(p, n) ==
    \A o \in 1 .. n : [part |-> p, off |-> o] \in delivered \cup released

Acknowledge(p, n) ==
    /\ acked[p] < n
    /\ n <= Len(log[p])
    /\ SettledUpTo(p, n)
    /\ acked' = [acked EXCEPT ![p] = n]
    /\ UNCHANGED <<log, delivered, released>>

Next ==
    \E p \in Partitions :
        \/ Extend(p)
        \/ \E o \in 1 .. Len(log[p]) :
            \/ Deliver([part |-> p, off |-> o])
            \/ Release([part |-> p, off |-> o])
            \/ Acknowledge(p, o)

Spec == Init /\ [][Next]_vars
=============================================================================
