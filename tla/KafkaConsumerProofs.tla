-------------------------- MODULE KafkaConsumerProofs --------------------------
(***************************************************************************)
(* For any number of partitions and members and any number of faults and    *)
(* rebalances: a message is handled twice only with a cause, and the group  *)
(* implements the contract of a manual-commit consumer.                     *)
(***************************************************************************)
EXTENDS KafkaConsumer, Integers, TLAPS, SequenceTheorems

(* What a member has in hand for a partition it owns.                      *)
InHand(p) ==
    /\ owner[p] # Nobody
    /\ pc[owner[p]] = "commit"
    /\ msg[owner[p]].part = p

InLog(m) == m.off \in 1 .. Len(log[m.part])
MessageAt(p, o) == [part |-> p, off |-> o]
Settled(m) == (times[m] > 0 /\ KindOf(m) = "valid") \/ m \in Released

-----------------------------------------------------------------------------
(* The inductive invariant.                                                *)

(* History and dead letters are about records the log holds.               *)
ContentInv ==
    /\ \A p \in Partitions : Len(log[p]) <= MaxRecords
    /\ \A m \in Message : times[m] > 0 => InLog(m)
    /\ \A m \in dlqTopic \cup dlqLost : InLog(m)
    /\ \A c \in Members : \A m \in dlqBuffer[c] : InLog(m)

(* A member in commit has dealt with the message in hand.                  *)
HandInv ==
    \A c \in Members :
        pc[c] = "commit" => msg[c] \in Message /\ InLog(msg[c]) /\ Settled(msg[c])

(* The owner of a partition is ahead of the group by the message in hand    *)
(* at most; the position is that message, and a stopped member owns nothing. *)
OwnerInv ==
    \A p \in Partitions :
        /\ owner[p] # Nobody => pc[owner[p]] # "down"
        /\ owner[p] # Nobody /\ pc[owner[p]] \in {"poll", "commit"} =>
             position[p] = IF InHand(p) THEN msg[owner[p]].off ELSE committed[p]
        /\ InHand(p) => msg[owner[p]].off = committed[p] + 1

(* What is committed is settled.                                           *)
CommittedInv ==
    \A p \in Partitions :
        /\ committed[p] <= Len(log[p])
        /\ \A o \in 1 .. committed[p] : Settled(MessageAt(p, o))

(* Each handling of a message but the current one has been paid for.       *)
Counted(m) ==
    m.off <= committed[m.part] \/ (InHand(m.part) /\ msg[owner[m.part]] = m)
TimesInv ==
    \A m \in Message :
        /\ times[m] <= faults + moves + 1
        /\ ~Counted(m) => times[m] <= faults + moves

Inv == TypeOK /\ ContentInv /\ HandInv /\ OwnerInv /\ CommittedInv /\ TimesInv

-----------------------------------------------------------------------------
LEMMA InitInv == Init => Inv
<1> SUFFICES ASSUME Init PROVE Inv
  OBVIOUS
<1>1. TypeOK
  BY BoundsAssumption DEF Init, TypeOK
<1>2. ContentInv /\ HandInv
  BY BoundsAssumption DEF Init, ContentInv, HandInv
<1>3. OwnerInv
  BY DEF Init, OwnerInv, InHand
<1>4. CommittedInv
  BY DEF Init, CommittedInv
<1>5. TimesInv
  BY BoundsAssumption DEF Init, TimesInv
<1> QED
  BY <1>1, <1>2, <1>3, <1>4, <1>5 DEF Inv

(* What was settled stays settled.                                         *)
LEMMA SettledStays ==
    ASSUME NEW m, Settled(m), InLog(m),
           log'[m.part][m.off] = log[m.part][m.off],
           times[m] > 0 => times'[m] > 0,
           Released \subseteq Released'
    PROVE  Settled(m)'
BY DEF Settled, KindOf

LEMMA MessageParts ==
    ASSUME NEW m \in Message
    PROVE  m.part \in Partitions /\ m = MessageAt(m.part, m.off)
             /\ m.off \in 1 .. MaxRecords
BY DEF Message, MessageAt

LEMMA ProduceInv ==
    ASSUME Inv, NEW p \in Partitions, NEW kind \in Kinds, Produce(p, kind)
    PROVE  Inv'
<1>1. /\ log' = [log EXCEPT ![p] = Append(log[p], kind)]
      /\ Len(log[p]) < MaxRecords
      /\ UNCHANGED <<committed, owner, position, pc, msg, times, dlqBuffer, dlqTopic,
                     dlqLost, faults, moves>>
  BY DEF Produce, group, dlq
<1>2. /\ log' \in [Partitions -> Seq(AllKinds)]
      /\ \A q \in Partitions :
           /\ Len(log'[q]) \in Nat /\ Len(log[q]) \in Nat
           /\ Len(log[q]) <= Len(log'[q]) /\ Len(log'[q]) <= MaxRecords
           /\ \A i \in 1 .. Len(log[q]) : log'[q][i] = log[q][i]
  <2>1. log \in [Partitions -> Seq(AllKinds)] /\ kind \in AllKinds
    BY KindsAssumption DEF Inv, TypeOK
  <2>2. /\ Append(log[p], kind) \in Seq(AllKinds)
        /\ Len(Append(log[p], kind)) = Len(log[p]) + 1 /\ Len(log[p]) \in Nat
        /\ \A i \in 1 .. Len(log[p]) : Append(log[p], kind)[i] = log[p][i]
    BY <2>1
  <2> QED
    BY <1>1, <2>1, <2>2, BoundsAssumption DEF Inv, ContentInv
<1>3. \A m \in Message : InLog(m) => InLog(m)'
  BY <1>2, MessageParts DEF InLog
<1>4. \A m \in Message : InLog(m) /\ Settled(m) => Settled(m)'
  <2> SUFFICES ASSUME NEW m \in Message, InLog(m), Settled(m) PROVE Settled(m)'
    OBVIOUS
  <2>1. log'[m.part][m.off] = log[m.part][m.off]
    BY <1>2, MessageParts DEF InLog
  <2> QED
    BY <1>1, <2>1, SettledStays DEF Released
<1>5. TypeOK'
  BY <1>1, <1>2 DEF Inv, TypeOK
<1>6. ContentInv'
  BY <1>1, <1>2, <1>3 DEF Inv, ContentInv, TypeOK
<1>7. HandInv'
  BY <1>1, <1>3, <1>4 DEF Inv, HandInv
<1>8. OwnerInv'
  BY <1>1 DEF Inv, OwnerInv, InHand
<1>9. CommittedInv'
  <2> SUFFICES ASSUME NEW q \in Partitions
               PROVE  /\ committed[q] <= Len(log'[q])
                      /\ \A o \in 1 .. committed[q] : Settled(MessageAt(q, o))'
    BY <1>1 DEF CommittedInv
  <2>1. committed[q] \in Nat /\ committed[q] <= Len(log[q])
    BY DEF Inv, CommittedInv, TypeOK
  <2>2. ASSUME NEW o \in 1 .. committed[q] PROVE Settled(MessageAt(q, o))'
    <3>1. MessageAt(q, o) \in Message /\ InLog(MessageAt(q, o))
      BY <1>2, <2>1, BoundsAssumption DEF Message, MessageAt, InLog, Inv, ContentInv
    <3> QED
      BY <1>4, <3>1 DEF Inv, CommittedInv
  <2> QED
    BY <1>2, <2>1, <2>2
<1>10. TimesInv'
  BY <1>1 DEF Inv, TimesInv, Counted, InHand
<1> QED
  BY <1>5, <1>6, <1>7, <1>8, <1>9, <1>10 DEF Inv

(* Nothing is handled, and what was counted still is, or has been paid for. *)
LEMMA TimesKept ==
    ASSUME Inv, times' = times, faults' = faults,
           moves' = moves \/ moves' = moves + 1,
           \A m \in Message : Counted(m) => Counted(m)'
    PROVE  TimesInv'
<1> SUFFICES ASSUME NEW m \in Message
             PROVE  /\ times[m] <= faults + moves' + 1
                    /\ ~Counted(m)' => times[m] <= faults + moves'
  BY DEF TimesInv
<1>1. times[m] \in Nat /\ faults \in Nat /\ moves \in Nat
  BY BoundsAssumption DEF Inv, TypeOK
<1>2. times[m] <= faults + moves + 1
  BY DEF Inv, TimesInv
<1>3. times[m] <= faults + moves' + 1
  <2>1. CASE moves' = moves
    BY <1>2, <2>1
  <2>2. CASE moves' = moves + 1
    BY <1>1, <1>2, <2>2
  <2> QED
    BY <2>1, <2>2
<1>4. ASSUME ~Counted(m)' PROVE times[m] <= faults + moves'
  <2>1. times[m] <= faults + moves
    BY <1>4 DEF Inv, TimesInv
  <2>2. CASE moves' = moves
    BY <2>1, <2>2
  <2>3. CASE moves' = moves + 1
    BY <1>1, <2>1, <2>3
  <2> QED
    BY <2>2, <2>3
<1> QED
  BY <1>3, <1>4

LEMMA TimesPaid ==
    ASSUME Inv, times' = times,
           \/ faults' = faults + 1 /\ moves' = moves
           \/ faults' = faults /\ moves' = moves + 1
    PROVE  TimesInv'
<1> SUFFICES ASSUME NEW m \in Message
             PROVE  times[m] <= faults' + moves' /\ times[m] <= faults' + moves' + 1
  BY DEF TimesInv
<1>1. times[m] \in Nat /\ faults \in Nat /\ moves \in Nat
  BY BoundsAssumption DEF Inv, TypeOK
<1>2. times[m] <= faults + moves + 1
  BY DEF Inv, TimesInv
<1>3. CASE faults' = faults + 1 /\ moves' = moves
  BY <1>1, <1>2, <1>3
<1>4. CASE faults' = faults /\ moves' = moves + 1
  BY <1>1, <1>2, <1>4
<1> QED
  BY <1>3, <1>4

(* A partition changes hands while nothing of it is in hand.               *)
LEMMA AssignInv ==
    ASSUME Inv, NEW p \in Partitions, NEW c \in Members, Assign(p, c) PROVE Inv'
<1>1. /\ pc[c] = "poll" /\ (owner[p] # Nobody => pc[owner[p]] = "poll")
      /\ owner' = [owner EXCEPT ![p] = c]
      /\ position' = [position EXCEPT ![p] = committed[p]]
      /\ moves' \in 0 .. MaxMoves /\ (moves' = moves \/ moves' = moves + 1)
      /\ UNCHANGED <<log, committed, pc, msg, times, dlqBuffer, dlqTopic, dlqLost, faults>>
  BY BoundsAssumption DEF Assign, dlq, Inv, TypeOK
<1>2. /\ \A q \in Partitions : owner'[q] = IF q = p THEN c ELSE owner[q]
      /\ \A q \in Partitions : position'[q] = IF q = p THEN committed[p] ELSE position[q]
  BY <1>1 DEF Inv, TypeOK
<1>3. /\ \A q \in Partitions : q # p => InHand(q)' = InHand(q)
      /\ ~InHand(p) /\ ~InHand(p)'
  BY <1>1, <1>2 DEF InHand
<1>4. TypeOK'
  BY <1>1 DEF Inv, TypeOK
<1>5. ContentInv' /\ HandInv' /\ CommittedInv'
  BY <1>1 DEF Inv, ContentInv, HandInv, CommittedInv, InLog, Settled, KindOf, Released
<1>6. OwnerInv'
  <2> SUFFICES ASSUME NEW q \in Partitions
               PROVE  /\ owner'[q] # Nobody => pc[owner'[q]] # "down"
                      /\ owner'[q] # Nobody /\ pc[owner'[q]] \in {"poll", "commit"} =>
                           position'[q] = IF InHand(q)' THEN msg[owner'[q]].off
                                          ELSE committed[q]
                      /\ InHand(q)' => msg[owner'[q]].off = committed[q] + 1
    BY <1>1 DEF OwnerInv
  <2>1. CASE q = p
    BY <2>1, <1>1, <1>2, <1>3
  <2>2. CASE q # p
    BY <2>2, <1>2, <1>3 DEF Inv, OwnerInv
  <2> QED
    BY <2>1, <2>2
<1>7. TimesInv'
  <2>1. \A m \in Message : Counted(m) => Counted(m)'
    BY <1>1, <1>2, <1>3, MessageParts DEF Counted
  <2> QED
    BY <1>1, <2>1, TimesKept
<1> QED
  BY <1>4, <1>5, <1>6, <1>7 DEF Inv

(* The message in hand of a member that is removed is paid for with a move. *)
LEMMA RemoveInv ==
    ASSUME Inv, NEW c \in Members, Remove(c) PROVE Inv'
<1>1. /\ owner' = Abandoned(c) /\ moves' = moves + 1 /\ moves' \in 0 .. MaxMoves
      /\ UNCHANGED <<log, committed, position, pc, msg, times, dlqBuffer, dlqTopic,
                     dlqLost, faults>>
  BY BoundsAssumption DEF Remove, dlq, Inv, TypeOK
<1>2. \A q \in Partitions : owner'[q] = IF owner[q] = c THEN Nobody ELSE owner[q]
  BY <1>1 DEF Abandoned
<1>3. \A q \in Partitions : owner'[q] # Nobody =>
        owner'[q] = owner[q] /\ InHand(q)' = InHand(q)
  BY <1>1, <1>2 DEF InHand
<1>4. TypeOK'
  BY <1>1 DEF Inv, TypeOK, Abandoned
<1>5. ContentInv' /\ HandInv' /\ CommittedInv'
  BY <1>1 DEF Inv, ContentInv, HandInv, CommittedInv, InLog, Settled, KindOf, Released
<1>6. OwnerInv'
  BY <1>1, <1>3 DEF Inv, OwnerInv, InHand
<1>7. TimesInv'
  BY <1>1, TimesPaid
<1> QED
  BY <1>4, <1>5, <1>6, <1>7 DEF Inv

-----------------------------------------------------------------------------
(* A poll of a member takes the record after the committed one.            *)
LEMMA FetchParts ==
    ASSUME Inv, NEW p \in Partitions, NEW c \in Members, Fetch(p, c)
    PROVE  /\ owner[p] = c /\ c # Nobody /\ pc[c] = "poll"
           /\ position[p] = committed[p] /\ committed[p] \in Nat
           /\ position' = [position EXCEPT ![p] = committed[p] + 1]
           /\ position' \in [Partitions -> 0 .. MaxRecords]
           /\ NextMessage(p) = MessageAt(p, committed[p] + 1)
           /\ NextMessage(p) \in Message
           /\ InLog(NextMessage(p))
           /\ \A q \in Partitions : owner[q] = c => ~InHand(q) /\ position[q] = committed[q]
<1>1. owner[p] = c /\ c # Nobody /\ pc[c] = "poll"
  BY NobodyAssumption DEF Fetch
<1>2. \A q \in Partitions : owner[q] = c => ~InHand(q) /\ position[q] = committed[q]
  BY <1>1 DEF Inv, OwnerInv, InHand
<1>3. position[p] = committed[p]
  BY <1>1, <1>2
<1>4. /\ committed[p] \in Nat /\ committed[p] < Len(log[p]) /\ Len(log[p]) \in Nat
      /\ Len(log[p]) <= MaxRecords
      /\ position' = [position EXCEPT ![p] = committed[p] + 1]
  BY <1>3 DEF Fetch, Inv, TypeOK, ContentInv
<1>5. committed[p] + 1 \in 1 .. Len(log[p]) /\ committed[p] + 1 \in 1 .. MaxRecords
  BY <1>4, BoundsAssumption
<1>6. position' \in [Partitions -> 0 .. MaxRecords]
  BY <1>4, <1>5, BoundsAssumption DEF Inv, TypeOK
<1>7. NextMessage(p) = MessageAt(p, committed[p] + 1)
  BY <1>3 DEF NextMessage, MessageAt
<1>8. NextMessage(p) \in Message /\ InLog(NextMessage(p))
  BY <1>5, <1>7 DEF Message, MessageAt, InLog
<1> QED
  BY <1>1, <1>2, <1>3, <1>4, <1>6, <1>7, <1>8

(* A handled message: valid, or in the DLQ producer's buffer.              *)
LEMMA HandledInv ==
    ASSUME Inv, NEW p \in Partitions, NEW c \in Members, Fetch(p, c),
           Handled(c, NextMessage(p)),
           \/ dlqBuffer' = dlqBuffer /\ KindOf(NextMessage(p)) = "valid"
           \/ dlqBuffer' = [dlqBuffer EXCEPT ![c] = @ \cup {NextMessage(p)}],
           UNCHANGED <<log, committed, owner, dlqTopic, dlqLost, faults, moves>>
    PROVE  Inv'
<1>0. PICK m \in Message : m = NextMessage(p)
  BY FetchParts
<1>1. /\ owner[p] = c /\ c # Nobody /\ pc[c] = "poll"
      /\ position[p] = committed[p] /\ committed[p] \in Nat
      /\ position' = [position EXCEPT ![p] = committed[p] + 1]
      /\ position' \in [Partitions -> 0 .. MaxRecords]
      /\ m = MessageAt(p, committed[p] + 1)
      /\ InLog(m)
      /\ \A q \in Partitions : owner[q] = c => ~InHand(q) /\ position[q] = committed[q]
  BY <1>0, FetchParts
<1>2. m.part = p /\ m.off = committed[p] + 1
  BY <1>1 DEF MessageAt
<1>3. /\ pc' = [pc EXCEPT ![c] = "commit"]
      /\ msg' = [msg EXCEPT ![c] = m]
      /\ times' = [times EXCEPT ![m] = times[m] + 1]
  BY <1>0 DEF Handled
<1>4. /\ \A d \in Members : pc'[d] = IF d = c THEN "commit" ELSE pc[d]
      /\ \A d \in Members : msg'[d] = IF d = c THEN m ELSE msg[d]
      /\ \A n \in Message : times'[n] = IF n = m THEN times[m] + 1 ELSE times[n]
      /\ \A n \in Message : times[n] \in Nat
      /\ \A q \in Partitions : position'[q] = IF q = p THEN committed[p] + 1 ELSE position[q]
  BY <1>1, <1>3 DEF Inv, TypeOK
<1>5. /\ dlqBuffer' \in [Members -> SUBSET Message]
      /\ \A d \in Members : dlqBuffer[d] \subseteq dlqBuffer'[d]
                            /\ dlqBuffer'[d] \subseteq dlqBuffer[d] \cup {m}
      /\ m \in dlqBuffer'[c] \/ KindOf(m) = "valid"
  <2>1. dlqBuffer \in [Members -> SUBSET Message]
    BY DEF Inv, TypeOK
  <2>2. CASE dlqBuffer' = dlqBuffer /\ KindOf(m) = "valid"
    BY <2>1, <2>2
  <2>3. CASE dlqBuffer' = [dlqBuffer EXCEPT ![c] = @ \cup {m}]
    BY <2>1, <2>3, <1>1
  <2> QED
    BY <2>2, <2>3, <1>0
<1>6. Released \subseteq Released' /\ (m \in Released' \/ KindOf(m) = "valid")
  BY <1>5 DEF Released, Inv, TypeOK
<1>7. \A n \in Message : InLog(n)' = InLog(n)
  BY DEF InLog
<1>8. \A n \in Message : InLog(n) /\ Settled(n) => Settled(n)'
  <2> SUFFICES ASSUME NEW n \in Message, InLog(n), Settled(n) PROVE Settled(n)'
    OBVIOUS
  <2>1. times[n] > 0 => times'[n] > 0
    BY <1>1, <1>4
  <2> QED
    BY <2>1, <1>6, SettledStays
<1>9. Settled(m)'
  <2>1. times'[m] > 0
    BY <1>1, <1>4
  <2>2. KindOf(m)' = KindOf(m)
    BY DEF KindOf
  <2> QED
    BY <2>1, <2>2, <1>6 DEF Settled
<1>10. \A q \in Partitions : InHand(q)' <=> (q = p \/ InHand(q))
  <2> SUFFICES ASSUME NEW q \in Partitions PROVE InHand(q)' <=> (q = p \/ InHand(q))
    OBVIOUS
  <2>1. owner[q] # Nobody => owner[q] \in Members
    BY DEF Inv, TypeOK
  <2>2. CASE owner[q] = c
    BY <2>2, <1>1, <1>2, <1>4 DEF InHand
  <2>3. CASE owner[q] # c
    BY <2>1, <2>3, <1>1, <1>4 DEF InHand
  <2> QED
    BY <2>2, <2>3
<1>11. TypeOK'
  <2>1. times' \in [Message -> Nat]
    BY <1>3, <1>4 DEF Inv, TypeOK
  <2>2. pc' \in [Members -> {"poll", "commit", "closing", "down"}]
        /\ msg' \in [Members -> Message \cup {NoMessage}]
    BY <1>3 DEF Inv, TypeOK
  <2> QED
    BY <1>1, <1>5, <2>1, <2>2 DEF Inv, TypeOK
<1>12. ContentInv'
  <2>1. \A n \in Message : times'[n] > 0 => InLog(n)'
    BY <1>1, <1>4, <1>7 DEF Inv, ContentInv
  <2>2. \A n \in dlqTopic \cup dlqLost : InLog(n)'
    BY DEF Inv, ContentInv, InLog
  <2>3. \A d \in Members : \A n \in dlqBuffer'[d] : InLog(n)'
    BY <1>1, <1>5 DEF Inv, ContentInv, InLog
  <2> QED
    BY <2>1, <2>2, <2>3 DEF Inv, ContentInv
<1>13. HandInv'
  BY <1>1, <1>4, <1>7, <1>8, <1>9 DEF Inv, HandInv
<1>14. OwnerInv'
  <2> SUFFICES ASSUME NEW q \in Partitions
               PROVE  /\ owner[q] # Nobody => pc'[owner[q]] # "down"
                      /\ owner[q] # Nobody /\ pc'[owner[q]] \in {"poll", "commit"} =>
                           position'[q] = IF InHand(q)' THEN msg'[owner[q]].off
                                          ELSE committed[q]
                      /\ InHand(q)' => msg'[owner[q]].off = committed[q] + 1
    BY DEF OwnerInv
  <2>1. owner[q] # Nobody => owner[q] \in Members
    BY DEF Inv, TypeOK
  <2>2. CASE q = p
    BY <2>2, <1>1, <1>2, <1>4, <1>10
  <2>3. CASE q # p /\ owner[q] = c
    BY <2>3, <1>1, <1>4, <1>10
  <2>4. CASE owner[q] # c
    <3>1. q # p /\ position'[q] = position[q] /\ (InHand(q)' <=> InHand(q))
      BY <2>4, <1>1, <1>4, <1>10
    <3>2. owner[q] # Nobody =>
            pc'[owner[q]] = pc[owner[q]] /\ msg'[owner[q]] = msg[owner[q]]
      BY <2>1, <2>4, <1>4
    <3>3. InHand(q) => owner[q] # Nobody
      BY DEF InHand
    <3> QED
      BY <3>1, <3>2, <3>3 DEF Inv, OwnerInv
  <2> QED
    BY <2>2, <2>3, <2>4
<1>15. CommittedInv'
  <2> SUFFICES ASSUME NEW q \in Partitions, NEW o \in 1 .. committed[q]
               PROVE  Settled(MessageAt(q, o))'
    BY DEF CommittedInv, Inv
  <2>1. committed[q] \in 0 .. MaxRecords /\ committed[q] <= Len(log[q])
        /\ Len(log[q]) \in Nat
    BY DEF Inv, CommittedInv, TypeOK
  <2>2. MessageAt(q, o) \in Message /\ InLog(MessageAt(q, o))
    BY <2>1, BoundsAssumption DEF Message, MessageAt, InLog
  <2> QED
    BY <1>8, <2>2 DEF Inv, CommittedInv
<1>16. TimesInv'
  <2> SUFFICES ASSUME NEW n \in Message
               PROVE  /\ times'[n] <= faults + moves + 1
                      /\ ~Counted(n)' => times'[n] <= faults + moves
    BY DEF TimesInv
  <2>1. /\ times[n] \in Nat /\ faults \in Nat /\ moves \in Nat
        /\ times[n] <= faults + moves + 1
        /\ Counted(n) \/ times[n] <= faults + moves
    BY BoundsAssumption DEF Inv, TypeOK, TimesInv
  <2>2. CASE n = m
    <3>1. ~Counted(m)
      BY <1>1, <1>2 DEF Counted
    <3>2. Counted(m)'
      BY <1>1, <1>2, <1>4, <1>10 DEF Counted
    <3> QED
      BY <2>1, <2>2, <3>1, <3>2, <1>4
  <2>3. CASE n # m
    <3>1. Counted(n) => Counted(n)'
      <4> SUFFICES ASSUME InHand(n.part), msg[owner[n.part]] = n PROVE Counted(n)'
        BY DEF Counted
      <4>1. n.part \in Partitions /\ owner[n.part] # c /\ owner[n.part] \in Members
        BY <1>1, MessageParts DEF InHand, Inv, TypeOK
      <4> QED
        BY <4>1, <1>4, <1>10 DEF Counted
    <3> QED
      BY <2>1, <2>3, <3>1, <1>4
  <2> QED
    BY <2>2, <2>3
<1> QED
  BY <1>11, <1>12, <1>13, <1>14, <1>15, <1>16 DEF Inv

-----------------------------------------------------------------------------
LEMMA ContentStays ==
    ASSUME Inv, UNCHANGED <<log, times, dlqBuffer, dlqTopic, dlqLost>>
    PROVE  ContentInv' /\ (\A m \in Message : Settled(m) => Settled(m)')
BY DEF Inv, ContentInv, InLog, Settled, KindOf, Released

(* A member leaves the loop: what it has in hand is paid for with a fault,  *)
(* or it was the broker that took it away.                                 *)
LEMMA LeaveInv ==
    ASSUME Inv, NEW c \in Members, Raise(c),
           UNCHANGED <<log, committed, owner, times, dlqBuffer, dlqTopic, dlqLost, moves>>,
           position' \in [Partitions -> 0 .. MaxRecords],
           \A q \in Partitions : owner[q] # c => position'[q] = position[q],
           faults' \in 0 .. MaxFaults,
           \/ faults' = faults + 1
           \/ faults' = faults /\ \A q \in Partitions : owner[q] = c => ~InHand(q)
    PROVE  Inv'
<1>1. pc' = [pc EXCEPT ![c] = "closing"] /\ msg' = [msg EXCEPT ![c] = NoMessage]
  BY DEF Raise
<1>2. /\ \A d \in Members : pc'[d] = IF d = c THEN "closing" ELSE pc[d]
      /\ \A d \in Members : d # c => msg'[d] = msg[d]
  BY <1>1 DEF Inv, TypeOK
<1>3. TypeOK'
  BY <1>1 DEF Inv, TypeOK
<1>4. ContentInv' /\ (\A m \in Message : Settled(m) => Settled(m)')
  BY ContentStays
<1>5. HandInv'
  BY <1>2, <1>4 DEF Inv, HandInv, InLog
<1>6. OwnerInv'
  <2> SUFFICES ASSUME NEW q \in Partitions
               PROVE  /\ owner[q] # Nobody => pc'[owner[q]] # "down"
                      /\ owner[q] # Nobody /\ pc'[owner[q]] \in {"poll", "commit"} =>
                           position'[q] = IF InHand(q)' THEN msg'[owner[q]].off
                                          ELSE committed[q]
                      /\ InHand(q)' => msg'[owner[q]].off = committed[q] + 1
    BY DEF OwnerInv
  <2>1. CASE owner[q] = c
    <3>1. pc'[owner[q]] = "closing"
      BY <2>1, <1>2
    <3> QED
      BY <3>1 DEF InHand
  <2>2. CASE owner[q] # c
    <3>1. owner[q] # Nobody =>
            pc'[owner[q]] = pc[owner[q]] /\ msg'[owner[q]] = msg[owner[q]]
      BY <2>2, <1>2 DEF Inv, TypeOK
    <3>2. InHand(q)' <=> InHand(q)
      BY <3>1 DEF InHand
    <3>3. position'[q] = position[q] /\ (InHand(q) => owner[q] # Nobody)
      BY <2>2 DEF InHand
    <3> QED
      BY <3>1, <3>2, <3>3 DEF Inv, OwnerInv
  <2> QED
    BY <2>1, <2>2
<1>7. CommittedInv'
  <2>1. \A q \in Partitions : \A o \in 1 .. committed[q] : MessageAt(q, o) \in Message
    BY BoundsAssumption DEF Inv, TypeOK, Message, MessageAt
  <2> QED
    BY <1>4, <2>1 DEF Inv, CommittedInv
<1>8. TimesInv'
  <2>1. CASE faults' = faults + 1
    BY <2>1, TimesPaid
  <2>2. CASE faults' = faults /\ \A q \in Partitions : owner[q] = c => ~InHand(q)
    <3>1. \A m \in Message : Counted(m) => Counted(m)'
      <4> SUFFICES ASSUME NEW m \in Message, InHand(m.part), msg[owner[m.part]] = m
                   PROVE  Counted(m)'
        BY DEF Counted
      <4>1. m.part \in Partitions /\ owner[m.part] # c /\ owner[m.part] # Nobody
        BY <2>2, MessageParts DEF InHand
      <4>2. pc'[owner[m.part]] = pc[owner[m.part]] /\ msg'[owner[m.part]] = m
        BY <4>1, <1>2 DEF Inv, TypeOK
      <4>3. InHand(m.part)'
        BY <4>2 DEF InHand
      <4> QED
        BY <4>2, <4>3 DEF Counted
    <3> QED
      BY <2>2, <3>1, TimesKept
  <2> QED
    BY <2>1, <2>2
<1> QED
  BY <1>3, <1>4, <1>5, <1>6, <1>7, <1>8 DEF Inv

(* The offset of the message in hand is committed: it is the next one.      *)
LEMMA CommitInv ==
    ASSUME Inv, NEW c \in Members, NEW st \in {"poll", "closing"},
           pc[c] = "commit", owner[msg[c].part] = c,
           committed' = CommitTo(msg[c]),
           pc' = [pc EXCEPT ![c] = st],
           msg' = [msg EXCEPT ![c] = NoMessage],
           UNCHANGED <<log, owner, position, times, dlqBuffer, dlqTopic, dlqLost, moves>>,
           faults' \in 0 .. MaxFaults, faults' = faults \/ faults' = faults + 1
    PROVE  Inv'
<1>0. PICK m \in Message : m = msg[c] /\ InLog(m) /\ Settled(m)
  BY DEF Inv, HandInv
<1>1. /\ m.part \in Partitions /\ m.off \in 1 .. MaxRecords
      /\ m = MessageAt(m.part, m.off) /\ owner[m.part] = c /\ c # Nobody
  BY <1>0, MessageParts, NobodyAssumption
<1>2. InHand(m.part) /\ m.off = committed[m.part] + 1
      /\ position[m.part] = m.off /\ committed[m.part] \in Nat
  <2>1. InHand(m.part)
    BY <1>0, <1>1 DEF InHand
  <2> QED
    BY <1>0, <1>1, <2>1 DEF Inv, OwnerInv, TypeOK
<1>3. /\ committed' = [committed EXCEPT ![m.part] = m.off]
      /\ \A q \in Partitions : committed'[q] = IF q = m.part THEN m.off ELSE committed[q]
  BY <1>0, <1>1 DEF CommitTo, Inv, TypeOK
<1>4. \A d \in Members : /\ pc'[d] = IF d = c THEN st ELSE pc[d]
                         /\ d # c => msg'[d] = msg[d]
  BY DEF Inv, TypeOK
<1>5. TypeOK'
  <2>1. committed' \in [Partitions -> 0 .. MaxRecords]
    BY <1>1, <1>3, BoundsAssumption DEF Inv, TypeOK
  <2> QED
    BY <2>1 DEF Inv, TypeOK
<1>6. ContentInv' /\ (\A n \in Message : Settled(n) => Settled(n)')
  BY ContentStays
<1>7. HandInv'
  BY <1>4, <1>6 DEF Inv, HandInv, InLog
<1>8. OwnerInv'
  <2> SUFFICES ASSUME NEW q \in Partitions
               PROVE  /\ owner[q] # Nobody => pc'[owner[q]] # "down"
                      /\ owner[q] # Nobody /\ pc'[owner[q]] \in {"poll", "commit"} =>
                           position[q] = IF InHand(q)' THEN msg'[owner[q]].off
                                         ELSE committed'[q]
                      /\ InHand(q)' => msg'[owner[q]].off = committed'[q] + 1
    BY DEF OwnerInv
  <2>1. owner[q] = c => pc'[owner[q]] = st /\ ~InHand(q)'
    <3>1. owner[q] = c => pc'[owner[q]] = st
      BY <1>4
    <3> QED
      BY <3>1 DEF InHand
  <2>2. InHand(q) => owner[q] # Nobody
    BY DEF InHand
  <2>3. CASE q = m.part
    BY <2>1, <2>3, <1>1, <1>2, <1>3
  <2>4. CASE q # m.part /\ owner[q] = c
    <3>1. ~InHand(q)
      BY <2>4, <1>0 DEF InHand
    <3>2. position[q] = committed[q]
      BY <3>1, <2>4, <1>1 DEF Inv, OwnerInv
    <3> QED
      BY <2>1, <2>4, <3>2, <1>3
  <2>5. CASE owner[q] # c
    <3>1. owner[q] # Nobody =>
            pc'[owner[q]] = pc[owner[q]] /\ msg'[owner[q]] = msg[owner[q]]
      BY <2>5, <1>4 DEF Inv, TypeOK
    <3>2. InHand(q)' <=> InHand(q)
      BY <3>1 DEF InHand
    <3>3. committed'[q] = committed[q]
      BY <2>5, <1>1, <1>3
    <3> QED
      BY <2>2, <3>1, <3>2, <3>3 DEF Inv, OwnerInv
  <2> QED
    BY <2>3, <2>4, <2>5
<1>9. CommittedInv'
  <2> SUFFICES ASSUME NEW q \in Partitions
               PROVE  /\ committed'[q] <= Len(log[q])
                      /\ \A o \in 1 .. committed'[q] : Settled(MessageAt(q, o))'
    BY DEF CommittedInv
  <2>1. /\ committed[q] \in 0 .. MaxRecords /\ committed[q] <= Len(log[q])
        /\ \A o \in 1 .. committed[q] :
             MessageAt(q, o) \in Message /\ Settled(MessageAt(q, o))
    BY BoundsAssumption DEF Inv, TypeOK, CommittedInv, Message, MessageAt
  <2>2. CASE q = m.part
    <3>1. committed'[q] <= Len(log[q])
      BY <2>2, <1>0, <1>1, <1>3 DEF InLog
    <3>2. ASSUME NEW o \in 1 .. committed'[q] PROVE Settled(MessageAt(q, o))'
      <4>1. o \in 1 .. committed[q] \/ MessageAt(q, o) = m
        BY <2>1, <2>2, <3>2, <1>1, <1>2, <1>3
      <4> QED
        BY <4>1, <2>1, <1>0, <1>6
    <3> QED
      BY <3>1, <3>2
  <2>3. CASE q # m.part
    BY <2>1, <2>3, <1>3, <1>6
  <2> QED
    BY <2>2, <2>3
<1>10. TimesInv'
  <2>1. CASE faults' = faults + 1
    BY <2>1, TimesPaid
  <2>2. CASE faults' = faults
    <3>1. \A n \in Message : Counted(n) => Counted(n)'
      <4> SUFFICES ASSUME NEW n \in Message, Counted(n) PROVE Counted(n)'
        OBVIOUS
      <4>1. n.part \in Partitions /\ n.off \in 1 .. MaxRecords
            /\ committed[n.part] \in 0 .. MaxRecords
        BY MessageParts DEF Inv, TypeOK
      <4>2. CASE n.off <= committed[n.part]
        <5>1. n.off <= committed'[n.part]
          BY <4>1, <4>2, <1>1, <1>2, <1>3
        <5> QED
          BY <5>1 DEF Counted
      <4>3. CASE InHand(n.part) /\ msg[owner[n.part]] = n /\ owner[n.part] = c
        <5>1. n = m
          BY <4>3, <1>0
        <5>2. n.off <= committed'[n.part]
          BY <5>1, <1>1, <1>3
        <5> QED
          BY <5>2 DEF Counted
      <4>4. CASE InHand(n.part) /\ msg[owner[n.part]] = n /\ owner[n.part] # c
        <5>1. pc'[owner[n.part]] = pc[owner[n.part]] /\ msg'[owner[n.part]] = n
          BY <4>1, <4>4, <1>4 DEF InHand, Inv, TypeOK
        <5>2. InHand(n.part)'
          BY <4>4, <5>1 DEF InHand
        <5> QED
          BY <5>1, <5>2 DEF Counted
      <4> QED
        BY <4>2, <4>3, <4>4 DEF Counted
    <3> QED
      BY <2>2, <3>1, TimesKept
  <2> QED
    BY <2>1, <2>2
<1> QED
  BY <1>5, <1>6, <1>7, <1>8, <1>9, <1>10 DEF Inv

-----------------------------------------------------------------------------
(* Records in the DLQ producers, on the topic or lost: once released, a      *)
(* message is somewhere among them.                                        *)
LEMMA InReleased ==
    ASSUME NEW m
    PROVE  m \in Released <=> \/ m \in dlqTopic \/ m \in dlqLost
                              \/ \E c \in Members : m \in dlqBuffer[c]
BY DEF Released

LEMMA InReleasedNext ==
    ASSUME NEW m
    PROVE  m \in Released' <=> \/ m \in dlqTopic' \/ m \in dlqLost'
                               \/ \E c \in Members : m \in dlqBuffer'[c]
BY DEF Released

LEMMA BufferLeft ==
    ASSUME Inv, NEW c \in Members, NEW out \in SUBSET Message,
           out \subseteq dlqBuffer[c],
           dlqBuffer' = [dlqBuffer EXCEPT ![c] = dlqBuffer[c] \ out],
           \/ dlqTopic' = dlqTopic \cup out /\ dlqLost' = dlqLost
           \/ dlqTopic' = dlqTopic /\ dlqLost' = dlqLost \cup out,
           UNCHANGED <<log, times>>
    PROVE  /\ dlqBuffer' \in [Members -> SUBSET Message]
           /\ dlqTopic' \subseteq Message /\ dlqLost' \subseteq Message
           /\ Released' = Released
           /\ ContentInv'
           /\ \A m \in Message : Settled(m) => Settled(m)'
<1>1. /\ dlqBuffer \in [Members -> SUBSET Message]
      /\ dlqTopic \subseteq Message /\ dlqLost \subseteq Message
      /\ \A m \in dlqTopic \cup dlqLost : InLog(m)
      /\ \A d \in Members : \A m \in dlqBuffer[d] : InLog(m)
  BY DEF Inv, TypeOK, ContentInv
<1>2. /\ dlqBuffer' \in [Members -> SUBSET Message]
      /\ \A d \in Members : dlqBuffer'[d] = IF d = c THEN dlqBuffer[c] \ out ELSE dlqBuffer[d]
  BY <1>1
<1>3. dlqTopic' \subseteq Message /\ dlqLost' \subseteq Message
  BY <1>1
<1>4. \A m : m \in Released' <=> m \in Released
  <2> SUFFICES ASSUME NEW m PROVE m \in Released' <=> m \in Released
    OBVIOUS
  <2>1. m \in dlqTopic' \cup dlqLost' <=> m \in dlqTopic \cup dlqLost \cup out
    OBVIOUS
  <2>2. (\E d \in Members : m \in dlqBuffer'[d]) \/ m \in out
          <=> \E d \in Members : m \in dlqBuffer[d]
    BY <1>2
  <2> QED
    BY <2>1, <2>2, InReleased, InReleasedNext
<1>5. ContentInv'
  <2>1. \A m \in dlqTopic' \cup dlqLost' : InLog(m)
    BY <1>1
  <2>2. \A d \in Members : \A m \in dlqBuffer'[d] : InLog(m)
    BY <1>1, <1>2
  <2> QED
    BY <2>1, <2>2 DEF Inv, ContentInv, InLog
<1>6. Released' = Released
  BY <1>4
<1>7. \A m \in Message : Settled(m) => Settled(m)'
  BY <1>6 DEF Settled, KindOf
<1> QED
  BY <1>2, <1>3, <1>5, <1>6, <1>7

LEMMA DlqInv ==
    ASSUME Inv, NEW c \in Members, NEW m \in dlqBuffer[c],
           DlqDelivered(c, m) \/ DlqExpired(c, m)
    PROVE  Inv' /\ Released' = Released
<1>1. /\ m \in Message /\ {m} \subseteq dlqBuffer[c]
      /\ dlqBuffer' = [dlqBuffer EXCEPT ![c] = dlqBuffer[c] \ {m}]
      /\ \/ dlqTopic' = dlqTopic \cup {m} /\ dlqLost' = dlqLost
         \/ dlqTopic' = dlqTopic /\ dlqLost' = dlqLost \cup {m}
      /\ UNCHANGED <<log, committed, owner, position, pc, msg, times, faults, moves>>
  BY DEF DlqDelivered, DlqExpired, group, Inv, TypeOK
<1>2. /\ dlqBuffer' \in [Members -> SUBSET Message]
      /\ dlqTopic' \subseteq Message /\ dlqLost' \subseteq Message
      /\ Released' = Released
      /\ ContentInv'
      /\ \A n \in Message : Settled(n) => Settled(n)'
  <2>1. {m} \in SUBSET Message
    BY <1>1
  <2> DEFINE out == {m}
  <2>2. /\ out \in SUBSET Message /\ out \subseteq dlqBuffer[c]
        /\ dlqBuffer' = [dlqBuffer EXCEPT ![c] = dlqBuffer[c] \ out]
        /\ \/ dlqTopic' = dlqTopic \cup out /\ dlqLost' = dlqLost
           \/ dlqTopic' = dlqTopic /\ dlqLost' = dlqLost \cup out
        /\ UNCHANGED <<log, times>>
    BY <1>1, <2>1
  <2> HIDE DEF out
  <2> QED
    BY <2>2, BufferLeft
<1>3. TypeOK'
  BY <1>1, <1>2 DEF Inv, TypeOK
<1>4. HandInv'
  BY <1>1, <1>2 DEF Inv, HandInv, InLog
<1>5. OwnerInv' /\ TimesInv'
  BY <1>1 DEF Inv, OwnerInv, TimesInv, InHand, Counted
<1>6. CommittedInv'
  <2>1. \A q \in Partitions : \A o \in 1 .. committed[q] : MessageAt(q, o) \in Message
    BY BoundsAssumption DEF Inv, TypeOK, Message, MessageAt
  <2> QED
    BY <1>1, <1>2, <2>1 DEF Inv, CommittedInv
<1> QED
  BY <1>2, <1>3, <1>4, <1>5, <1>6 DEF Inv

(* A process that goes takes its DLQ producer's buffer with it.            *)
LEMMA DieInv ==
    ASSUME Inv, NEW c \in Members, Die(c), faults' \in 0 .. MaxFaults,
           faults' = faults + 1 \/ (faults' = faults /\ pc[c] # "commit")
    PROVE  Inv' /\ Released' = Released
<1>1. /\ pc' = [pc EXCEPT ![c] = "down"]
      /\ msg' = [msg EXCEPT ![c] = NoMessage]
      /\ owner' = Abandoned(c)
      /\ dlqLost' = dlqLost \cup dlqBuffer[c]
      /\ dlqBuffer' = [dlqBuffer EXCEPT ![c] = {}]
      /\ UNCHANGED <<log, committed, position, times, dlqTopic, moves>>
  BY DEF Die
<1>2. /\ \A q \in Partitions : owner'[q] = IF owner[q] = c THEN Nobody ELSE owner[q]
      /\ \A d \in Members : pc'[d] = IF d = c THEN "down" ELSE pc[d]
      /\ \A d \in Members : d # c => msg'[d] = msg[d]
  BY <1>1 DEF Inv, TypeOK, Abandoned
<1>3. /\ dlqBuffer' \in [Members -> SUBSET Message]
      /\ dlqTopic' \subseteq Message /\ dlqLost' \subseteq Message
      /\ Released' = Released
      /\ ContentInv'
      /\ \A n \in Message : Settled(n) => Settled(n)'
  <2>1. dlqBuffer[c] \in SUBSET Message
    BY DEF Inv, TypeOK
  <2>2. dlqBuffer[c] \ dlqBuffer[c] = {}
    OBVIOUS
  <2>3. dlqBuffer' = [dlqBuffer EXCEPT ![c] = dlqBuffer[c] \ dlqBuffer[c]]
    BY <1>1, <2>2
  <2> QED
    BY <1>1, <2>1, <2>3, BufferLeft
<1>4. TypeOK'
  <2>1. owner' \in [Partitions -> Members \cup {Nobody}]
    BY <1>1 DEF Inv, TypeOK, Abandoned
  <2> QED
    BY <1>1, <1>3, <2>1 DEF Inv, TypeOK
<1>5. HandInv'
  BY <1>1, <1>2, <1>3 DEF Inv, HandInv, InLog
<1>6. \A q \in Partitions : owner'[q] # Nobody =>
        /\ owner'[q] = owner[q] /\ owner[q] \in Members /\ owner[q] # c
        /\ pc'[owner[q]] = pc[owner[q]] /\ msg'[owner[q]] = msg[owner[q]]
        /\ (InHand(q)' <=> InHand(q))
  <2> SUFFICES ASSUME NEW q \in Partitions, owner'[q] # Nobody
               PROVE  /\ owner'[q] = owner[q] /\ owner[q] \in Members /\ owner[q] # c
                      /\ pc'[owner[q]] = pc[owner[q]] /\ msg'[owner[q]] = msg[owner[q]]
                      /\ (InHand(q)' <=> InHand(q))
    OBVIOUS
  <2>1. owner'[q] = owner[q] /\ owner[q] \in Members /\ owner[q] # c
    BY <1>2 DEF Inv, TypeOK
  <2>2. pc'[owner[q]] = pc[owner[q]] /\ msg'[owner[q]] = msg[owner[q]]
    BY <1>2, <2>1
  <2> QED
    BY <2>1, <2>2 DEF InHand
<1>7. OwnerInv'
  <2> SUFFICES ASSUME NEW q \in Partitions
               PROVE  /\ owner'[q] # Nobody => pc'[owner'[q]] # "down"
                      /\ owner'[q] # Nobody /\ pc'[owner'[q]] \in {"poll", "commit"} =>
                           position[q] = IF InHand(q)' THEN msg'[owner'[q]].off
                                         ELSE committed[q]
                      /\ InHand(q)' => msg'[owner'[q]].off = committed[q] + 1
    BY <1>1 DEF OwnerInv
  <2>1. InHand(q)' => owner'[q] # Nobody
    BY DEF InHand
  <2>2. CASE owner'[q] # Nobody
    BY <1>6, <2>2 DEF Inv, OwnerInv
  <2> QED
    BY <2>1, <2>2
<1>8. CommittedInv'
  <2>1. \A q \in Partitions : \A o \in 1 .. committed[q] : MessageAt(q, o) \in Message
    BY BoundsAssumption DEF Inv, TypeOK, Message, MessageAt
  <2> QED
    BY <1>1, <1>3, <2>1 DEF Inv, CommittedInv
<1>9. TimesInv'
  <2>1. CASE faults' = faults + 1
    BY <1>1, <2>1, TimesPaid
  <2>2. CASE faults' = faults /\ pc[c] # "commit"
    <3>1. \A m \in Message : Counted(m) => Counted(m)'
      <4> SUFFICES ASSUME NEW m \in Message, InHand(m.part), msg[owner[m.part]] = m
                   PROVE  Counted(m)'
        BY <1>1 DEF Counted
      <4>1. m.part \in Partitions /\ owner[m.part] # c /\ owner[m.part] # Nobody
        BY <2>2, MessageParts DEF InHand
      <4>2. owner'[m.part] # Nobody
        BY <4>1, <1>2
      <4> QED
        BY <4>1, <4>2, <1>6 DEF Counted
    <3> QED
      BY <1>1, <2>2, <3>1, TimesKept
  <2> QED
    BY <2>1, <2>2
<1> QED
  BY <1>3, <1>4, <1>5, <1>7, <1>8, <1>9 DEF Inv

LEMMA StartInv ==
    ASSUME Inv, NEW c \in Members, Start(c) PROVE Inv'
<1>1. /\ pc[c] = "down" /\ pc' = [pc EXCEPT ![c] = "poll"]
      /\ UNCHANGED <<log, committed, owner, position, msg, times, dlqBuffer, dlqTopic,
                     dlqLost, faults, moves>>
  BY DEF Start, group, dlq
<1>2. \A d \in Members : pc'[d] = IF d = c THEN "poll" ELSE pc[d]
  BY <1>1 DEF Inv, TypeOK
<1>3. \A q \in Partitions :
        /\ owner[q] # c
        /\ owner[q] # Nobody => pc'[owner[q]] = pc[owner[q]]
        /\ (InHand(q)' <=> InHand(q))
  <2> SUFFICES ASSUME NEW q \in Partitions
               PROVE  /\ owner[q] # c
                      /\ owner[q] # Nobody => pc'[owner[q]] = pc[owner[q]]
                      /\ (InHand(q)' <=> InHand(q))
    OBVIOUS
  <2>1. owner[q] # c
    BY <1>1, NobodyAssumption DEF Inv, OwnerInv
  <2>2. owner[q] # Nobody => pc'[owner[q]] = pc[owner[q]]
    BY <1>2, <2>1 DEF Inv, TypeOK
  <2> QED
    BY <1>1, <2>1, <2>2 DEF InHand
<1>4. TypeOK'
  BY <1>1 DEF Inv, TypeOK
<1>5. ContentInv' /\ CommittedInv'
  BY <1>1 DEF Inv, ContentInv, CommittedInv, InLog, Settled, KindOf, Released
<1>6. HandInv'
  BY <1>1, <1>2 DEF Inv, HandInv, InLog, Settled, KindOf, Released
<1>7. OwnerInv'
  BY <1>1, <1>3 DEF Inv, OwnerInv
<1>8. TimesInv'
  <2>1. \A m \in Message : Counted(m) => Counted(m)'
    BY <1>1, <1>3, MessageParts DEF Counted
  <2> QED
    BY <1>1, <2>1, TimesKept
<1> QED
  BY <1>4, <1>5, <1>6, <1>7, <1>8 DEF Inv

-----------------------------------------------------------------------------
(* Every step keeps the invariant.                                         *)
LEMMA PollInv ==
    ASSUME Inv, NEW p \in Partitions, NEW c \in Members, Poll(p, c) PROVE Inv'
<1>1. CASE PollValid(p, c)
  BY <1>1, HandledInv DEF PollValid, dlq
<1>2. CASE PollRejected(p, c)
  BY <1>2, HandledInv DEF PollRejected
<1>3. CASE PollRejectedFull(p, c) \/ PollUndecodable(p, c)
  <2>1. /\ Fetch(p, c) /\ Raise(c)
        /\ UNCHANGED <<log, committed, owner, times, dlqBuffer, dlqTopic, dlqLost,
                       faults, moves>>
    BY <1>3 DEF PollRejectedFull, PollUndecodable, dlq
  <2>2. /\ position' \in [Partitions -> 0 .. MaxRecords]
        /\ \A q \in Partitions : owner[q] = c => ~InHand(q)
        /\ position' = [position EXCEPT ![p] = committed[p] + 1]
        /\ owner[p] = c
    BY <2>1, FetchParts
  <2>3. \A q \in Partitions : owner[q] # c => position'[q] = position[q]
    BY <2>2 DEF Inv, TypeOK
  <2>4. faults' \in 0 .. MaxFaults /\ faults' = faults
    BY <2>1 DEF Inv, TypeOK
  <2> QED
    BY <2>1, <2>2, <2>3, <2>4, LeaveInv
<1> QED
  BY <1>1, <1>2, <1>3 DEF Poll

LEMMA CommitRefusedInv ==
    ASSUME Inv, NEW c \in Members, CommitRefused(c) PROVE Inv'
<1>1. /\ pc[c] = "commit" /\ owner[msg[c].part] # c /\ Raise(c)
      /\ UNCHANGED <<log, committed, owner, position, times, dlqBuffer, dlqTopic, dlqLost,
                     faults, moves>>
  BY DEF CommitRefused, group, dlq
<1>2. \A q \in Partitions : owner[q] = c => ~InHand(q)
  BY <1>1 DEF InHand
<1>3. faults' \in 0 .. MaxFaults /\ faults' = faults
      /\ position' \in [Partitions -> 0 .. MaxRecords]
  BY <1>1 DEF Inv, TypeOK
<1> QED
  BY <1>1, <1>2, <1>3, LeaveInv

LEMMA FaultAllowed ==
    ASSUME Inv, faults < MaxFaults, faults' = faults + 1
    PROVE  faults' \in 0 .. MaxFaults
BY BoundsAssumption DEF Inv, TypeOK

LEMMA InterruptInv ==
    ASSUME Inv, NEW c \in Members, Interrupt(c) PROVE Inv'
<1>1. /\ Raise(c) /\ faults' = faults + 1 /\ faults' \in 0 .. MaxFaults
      /\ UNCHANGED <<log, committed, owner, position, times, dlqBuffer, dlqTopic, dlqLost,
                     moves>>
  BY FaultAllowed DEF Interrupt, group, dlq
<1>2. position' \in [Partitions -> 0 .. MaxRecords]
  BY <1>1 DEF Inv, TypeOK
<1> QED
  BY <1>1, <1>2, LeaveInv

LEMMA CommitFailsInv ==
    ASSUME Inv, NEW c \in Members, CommitFails(c) PROVE Inv'
<1>1. /\ pc[c] = "commit" /\ owner[msg[c].part] = c
      /\ Raise(c) /\ faults' = faults + 1 /\ faults' \in 0 .. MaxFaults
      /\ committed' \in {committed, CommitTo(msg[c])}
      /\ UNCHANGED <<log, owner, position, times, dlqBuffer, dlqTopic, dlqLost, moves>>
  BY FaultAllowed DEF CommitFails, dlq
<1>2. CASE committed' = committed
  <2>1. position' \in [Partitions -> 0 .. MaxRecords]
    BY <1>1 DEF Inv, TypeOK
  <2> QED
    BY <1>1, <1>2, <2>1, LeaveInv
<1>3. CASE committed' = CommitTo(msg[c])
  BY <1>1, <1>3, CommitInv DEF Raise
<1> QED
  BY <1>1, <1>2, <1>3

LEMMA NextInv == Inv /\ [Next]_vars => Inv'
<1> SUFFICES ASSUME Inv, [Next]_vars PROVE Inv'
  OBVIOUS
<1>1. CASE UNCHANGED vars
  BY <1>1 DEF vars, group, dlq, Inv, TypeOK, ContentInv, HandInv, OwnerInv, CommittedInv,
     TimesInv, Counted, InHand, InLog, Settled, KindOf, Released
<1>2. ASSUME NEW c \in Members, Commit(c) PROVE Inv'
  <2>1. faults' \in 0 .. MaxFaults /\ faults' = faults
    BY <1>2 DEF Commit, Inv, TypeOK
  <2> QED
    BY <1>2, <2>1, CommitInv DEF Commit, dlq
<1>3. ASSUME NEW c \in Members, Close(c) PROVE Inv'
  <2>1. faults' \in 0 .. MaxFaults /\ faults' = faults /\ pc[c] # "commit"
    BY <1>3 DEF Close, Inv, TypeOK
  <2> QED
    BY <1>3, <2>1, DieInv DEF Close
<1>4. ASSUME NEW c \in Members, Crash(c) PROVE Inv'
  BY <1>4, FaultAllowed, DieInv DEF Crash
<1>5. CASE Next
  BY <1>2, <1>3, <1>4, <1>5, ProduceInv, AssignInv, RemoveInv, PollInv, CommitRefusedInv,
     InterruptInv, CommitFailsInv, DlqInv, StartInv
  DEF Next, Member, DlqProducer
<1> QED
  BY <1>1, <1>5

LEMMA InvHolds == Spec => []Inv
<1> QED
  BY InitInv, NextInv, PTL DEF Spec

(* Every variable of the group stays within its type.                      *)
THEOREM TypeCorrect == Spec => []TypeOK
<1>1. Inv => TypeOK
  BY DEF Inv
<1> QED
  BY <1>1, InvHolds, PTL

(* Nothing is handled a second time without a fault or a rebalance that    *)
(* accounts for it: the offset is committed before the next poll.          *)
THEOREM RedeliveryHasCauseHolds == Spec => []RedeliveryHasCause
<1>1. Inv => RedeliveryHasCause
  <2> SUFFICES ASSUME Inv, NEW m \in Message PROVE times[m] <= 1 + faults + moves
    BY DEF RedeliveryHasCause
  <2>1. times[m] \in Nat /\ faults \in Nat /\ moves \in Nat
    BY BoundsAssumption DEF Inv, TypeOK
  <2>2. times[m] <= faults + moves + 1
    BY DEF Inv, TimesInv
  <2> QED
    BY <2>1, <2>2
<1> QED
  BY <1>1, InvHolds, PTL

-----------------------------------------------------------------------------
(* The group implements the contract of a manual-commit consumer.          *)

(* The three kinds of steps the contract knows.                            *)
LEMMA ContractDeliver ==
    ASSUME NEW m \in Message, InLog(m),
           UNCHANGED <<log, committed, Released>>, Delivered' = Delivered \cup {m}
    PROVE  Contract!Next
<1>1. /\ m = [part |-> m.part, off |-> m.off] /\ m.part \in Partitions
      /\ m.off \in 1 .. Len(log[m.part])
  BY DEF Message, InLog
<1>2. Contract!Deliver(m)
  BY <1>1 DEF Contract!Deliver, Contract!InLog
<1> QED
  BY <1>1, <1>2 DEF Contract!Next

LEMMA ContractRelease ==
    ASSUME NEW m \in Message, InLog(m),
           UNCHANGED <<log, committed, Delivered>>, Released' = Released \cup {m}
    PROVE  Contract!Next
<1>1. /\ m = [part |-> m.part, off |-> m.off] /\ m.part \in Partitions
      /\ m.off \in 1 .. Len(log[m.part])
  BY DEF Message, InLog
<1>2. Contract!Release(m)
  BY <1>1 DEF Contract!Release, Contract!InLog
<1> QED
  BY <1>1, <1>2 DEF Contract!Next

(* The record in hand and those before it are settled, so committing it is *)
(* an acknowledgement the contract allows.                                 *)
LEMMA ContractAcknowledge ==
    ASSUME Inv, NEW c \in Members, pc[c] = "commit", owner[msg[c].part] = c,
           UNCHANGED <<log, Delivered, Released>>, committed' = CommitTo(msg[c])
    PROVE  Contract!Next
<1>0. PICK m \in Message : m = msg[c] /\ InLog(m) /\ Settled(m)
  BY DEF Inv, HandInv
<1>1. /\ m.part \in Partitions /\ m.off \in 1 .. Len(log[m.part])
      /\ m = MessageAt(m.part, m.off)
      /\ m.off = committed[m.part] + 1
      /\ committed[m.part] \in 0 .. MaxRecords
  <2>1. m.part \in Partitions /\ m = MessageAt(m.part, m.off)
    BY MessageParts
  <2>2. InHand(m.part) /\ msg[owner[m.part]] = m
    BY <1>0, <2>1, NobodyAssumption DEF InHand
  <2> QED
    BY <1>0, <2>1, <2>2 DEF Inv, OwnerInv, TypeOK, InLog
<1>2. \A n \in Message : Settled(n) => n \in Delivered \cup Released
  BY DEF Settled, Delivered, Processed
<1>3. \A o \in 1 .. m.off : MessageAt(m.part, o) \in Delivered \cup Released
  <2> SUFFICES ASSUME NEW o \in 1 .. m.off
               PROVE  MessageAt(m.part, o) \in Delivered \cup Released
    OBVIOUS
  <2>1. o \in 1 .. committed[m.part] \/ MessageAt(m.part, o) = m
    BY <1>1
  <2>2. MessageAt(m.part, o) \in Message
    BY <1>1, <2>1, BoundsAssumption DEF Message, MessageAt
  <2> QED
    BY <1>0, <1>1, <1>2, <2>1, <2>2 DEF Inv, CommittedInv
<1>4. Contract!Acknowledge(m.part, m.off)
  BY <1>0, <1>1, <1>3 DEF Contract!Acknowledge, Contract!SettledUpTo, MessageAt, CommitTo
<1> QED
  BY <1>1, <1>4 DEF Contract!Next

(* A record that is appended is none that was processed.                   *)
LEMMA ContractExtend ==
    ASSUME Inv, NEW p \in Partitions, NEW kind \in Kinds, Produce(p, kind)
    PROVE  Contract!Next
<1>1. /\ log' = [log EXCEPT ![p] = Append(log[p], kind)]
      /\ UNCHANGED <<committed, times, dlqBuffer, dlqTopic, dlqLost>>
      /\ log \in [Partitions -> Seq(AllKinds)] /\ kind \in AllKinds
  BY KindsAssumption DEF Produce, group, dlq, Inv, TypeOK
<1>2. \A m \in Message : InLog(m) => KindOf(m)' = KindOf(m)
  <2> SUFFICES ASSUME NEW m \in Message, InLog(m) PROVE KindOf(m)' = KindOf(m)
    OBVIOUS
  <2>1. m.part \in Partitions /\ m.off \in 1 .. Len(log[m.part])
    BY MessageParts DEF InLog
  <2>2. \A i \in 1 .. Len(log[p]) : Append(log[p], kind)[i] = log[p][i]
    BY <1>1
  <2> QED
    BY <1>1, <2>1, <2>2 DEF KindOf
<1>3. Processed' = Processed
  <2>1. \A m \in Message : times[m] > 0 => InLog(m)
    BY DEF Inv, ContentInv
  <2> QED
    BY <1>1, <1>2, <2>1 DEF Processed
<1>4. UNCHANGED <<Delivered, Released, committed>>
  BY <1>1, <1>3 DEF Delivered, Released
<1>5. Contract!Extend(p)
  BY <1>1, <1>4 DEF Contract!Extend
<1> QED
  BY <1>5 DEF Contract!Next

LEMMA ContractPoll ==
    ASSUME Inv, NEW p \in Partitions, NEW c \in Members, Poll(p, c)
    PROVE  Contract!Next \/ UNCHANGED <<log, committed, Delivered, Released>>
<1>0. CASE PollRejectedFull(p, c) \/ PollUndecodable(p, c)
  BY <1>0 DEF PollRejectedFull, PollUndecodable, dlq, Delivered, Released, Processed, KindOf
<1>1. ASSUME Fetch(p, c), Handled(c, NextMessage(p)), UNCHANGED log
      PROVE  \E m \in Message :
                /\ m = NextMessage(p) /\ InLog(m)
                /\ times' = [times EXCEPT ![m] = times[m] + 1]
                /\ Processed' = IF KindOf(m) = "valid" THEN Processed \cup {m} ELSE Processed
  <2>0. PICK m \in Message : m = NextMessage(p) /\ InLog(m)
    BY <1>1, FetchParts
  <2>1. times' = [times EXCEPT ![m] = times[m] + 1]
    BY <1>1, <2>0 DEF Handled
  <2>2. /\ \A n \in Message : times'[n] = IF n = m THEN times[m] + 1 ELSE times[n]
        /\ times[m] \in Nat
    BY <2>1 DEF Inv, TypeOK
  <2>3. \A n \in Message : KindOf(n)' = KindOf(n)
    BY <1>1 DEF KindOf
  <2>4. \A n : n \in Processed' <=> n \in Processed \/ (n = m /\ KindOf(m) = "valid")
    BY <2>2, <2>3 DEF Processed
  <2>5. Processed' = IF KindOf(m) = "valid" THEN Processed \cup {m} ELSE Processed
    BY <2>4
  <2> QED
    BY <2>0, <2>1, <2>5
<1>2. CASE PollValid(p, c)
  <2>1. PICK m \in Message : /\ m = NextMessage(p) /\ InLog(m)
                             /\ Processed' = Processed \cup {m}
    BY <1>1, <1>2 DEF PollValid
  <2>2. UNCHANGED <<log, committed, Released>> /\ Delivered' = Delivered \cup {m}
    BY <1>2, <2>1 DEF PollValid, dlq, Released, Delivered
  <2> QED
    BY <2>1, <2>2, ContractDeliver
<1>3. CASE PollRejected(p, c)
  <2>1. PICK m \in Message : /\ m = NextMessage(p) /\ InLog(m)
                             /\ Processed' = Processed
    BY <1>1, <1>3 DEF PollRejected, Rejected
  <2>2. UNCHANGED <<log, committed, Delivered>>
    BY <1>3, <2>1 DEF PollRejected, Delivered
  <2>3. dlqBuffer' = [dlqBuffer EXCEPT ![c] = dlqBuffer[c] \cup {m}]
        /\ UNCHANGED <<dlqTopic, dlqLost>>
    BY <1>3, <2>1 DEF PollRejected
  <2>4. \A d \in Members : dlqBuffer'[d] = IF d = c THEN dlqBuffer[c] \cup {m} ELSE dlqBuffer[d]
    BY <2>3 DEF Inv, TypeOK
  <2>5. \A n : n \in Released' <=> n \in Released \/ n = m
    BY <2>3, <2>4, InReleased, InReleasedNext
  <2>6. Released' = Released \cup {m}
    BY <2>5
  <2> QED
    BY <2>1, <2>2, <2>6, ContractRelease
<1> QED
  BY <1>0, <1>2, <1>3 DEF Poll

LEMMA ContractStep == Inv /\ [Next]_vars => [Contract!Next]_(Contract!vars)
<1> SUFFICES ASSUME Inv, [Next]_vars
             PROVE  Contract!Next \/ UNCHANGED <<log, committed, Delivered, Released>>
  BY DEF Contract!vars
<1>1. ASSUME UNCHANGED <<log, committed, times, dlqTopic, dlqLost, dlqBuffer>>
      PROVE  UNCHANGED <<log, committed, Delivered, Released>>
  BY <1>1 DEF Delivered, Released, Processed, KindOf
<1>2. ASSUME UNCHANGED <<log, times, dlqTopic>> PROVE Delivered' = Delivered
  BY <1>2 DEF Delivered, Processed, KindOf
<1>3. CASE UNCHANGED vars
  BY <1>1, <1>3 DEF vars, group, dlq
<1>4. ASSUME NEW p \in Partitions, NEW c \in Members, Assign(p, c)
      PROVE  UNCHANGED <<log, committed, Delivered, Released>>
  BY <1>1, <1>4 DEF Assign, dlq
<1>5. ASSUME NEW c \in Members, Remove(c) \/ CommitRefused(c) \/ Interrupt(c) \/ Start(c)
      PROVE  UNCHANGED <<log, committed, Delivered, Released>>
  BY <1>1, <1>5 DEF Remove, CommitRefused, Interrupt, Start, group, dlq
<1>6. ASSUME NEW c \in Members, Commit(c) \/ CommitFails(c)
      PROVE  Contract!Next \/ UNCHANGED <<log, committed, Delivered, Released>>
  <2>1. /\ pc[c] = "commit" /\ owner[msg[c].part] = c
        /\ (committed' = committed \/ committed' = CommitTo(msg[c]))
        /\ UNCHANGED <<log, times, dlqTopic, dlqLost, dlqBuffer>>
    BY <1>6 DEF Commit, CommitFails, dlq
  <2>2. UNCHANGED <<log, Delivered, Released>>
    BY <2>1 DEF Delivered, Released, Processed, KindOf
  <2> QED
    BY <2>1, <2>2, ContractAcknowledge
<1>7. ASSUME NEW c \in Members, Crash(c) \/ Close(c)
      PROVE  UNCHANGED <<log, committed, Delivered, Released>>
  <2>1. Die(c) /\ faults' \in 0 .. MaxFaults
        /\ (faults' = faults + 1 \/ (faults' = faults /\ pc[c] # "commit"))
    BY <1>7, FaultAllowed DEF Crash, Close, Inv, TypeOK
  <2>2. Released' = Released
    BY <2>1, DieInv
  <2> QED
    BY <1>2, <2>1, <2>2 DEF Die
<1>8. ASSUME NEW c \in Members, NEW m \in dlqBuffer[c], DlqDelivered(c, m)
      PROVE  Contract!Next
  <2>1. m \in Message /\ InLog(m)
    BY DEF Inv, TypeOK, ContentInv
  <2>2. Processed' = Processed
    BY <1>8 DEF DlqDelivered, Processed, KindOf
  <2>3. UNCHANGED <<log, committed, Released>> /\ Delivered' = Delivered \cup {m}
    BY <1>8, <2>2, DlqInv DEF DlqDelivered, group, Delivered
  <2> QED
    BY <2>1, <2>3, ContractDeliver
<1>9. ASSUME NEW c \in Members, NEW m \in dlqBuffer[c], DlqExpired(c, m)
      PROVE  UNCHANGED <<log, committed, Delivered, Released>>
  BY <1>2, <1>9, DlqInv DEF DlqExpired, group
<1>10. CASE Next
  BY <1>4, <1>5, <1>6, <1>7, <1>8, <1>9, <1>10, ContractExtend, ContractPoll
  DEF Next, Member, DlqProducer
<1> QED
  BY <1>3, <1>10

(* Every behaviour of the group is a behaviour of the contract: whoever     *)
(* commits, only records that were logged or let go of are acknowledged,   *)
(* and no offset moves back.                                               *)
THEOREM ImplementsContract == Spec => ContractSpec
<1>1. Init => Contract!Init
  BY BoundsAssumption DEF Init, Contract!Init, Delivered, Released, Processed
<1>2. Inv /\ [Next]_vars => [Contract!Next]_(Contract!vars)
  BY ContractStep
<1> QED
  BY <1>1, <1>2, InvHolds, PTL DEF Spec, ContractSpec, Contract!Spec
=============================================================================
