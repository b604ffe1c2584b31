----------------------- MODULE KafkaPubSubBridgeProofs -----------------------
(***************************************************************************)
(* Proofs about the bridge for every set of partitions and keys, every     *)
(* number of attempts, every DLQ capacity and every bound.                 *)
(***************************************************************************)
EXTENDS KafkaPubSubBridge, TLAPS

(* A message the publishing path may hold: an event of the log that passed *)
(* validation.                                                             *)
Publishable(m) == m \in Message /\ m.part \in Partitions /\ InLog(m) /\ KindOf(m) = "valid"

(* A message the dead-letter path may hold.                                *)
DeadLetterable(m) ==
    m \in Message /\ m.part \in Partitions /\ InLog(m) /\ KindOf(m) \in Rejected

Running == pc \in {"poll", "publish", "wait", "commit"}

(* What the bridge knows of the message in hand at each point of the loop. *)
HandInv ==
    /\ pc \in {"publish", "wait"} => Publishable(msg)
    /\ pc \in {"publish", "wait", "commit"} =>
        /\ msg \in Message /\ msg.part \in Partitions /\ InLog(msg)
        /\ position[msg.part] = msg.off
        /\ committed[msg.part] < msg.off
    /\ pc \in {"poll", "closing", "down"} => msg = NoMessage /\ attempt = 0
    /\ pc = "publish" => attempt < MaxAttempts
    /\ pc = "wait" => attempt > 0
    /\ pc = "commit" => Settled(msg)

(* The future the bridge waits on is that of the last request of its key.  *)
WaitInv ==
    (pc = "wait" /\ outbox[KeyOf(msg)] # <<>>) =>
        outbox[KeyOf(msg)][Len(outbox[KeyOf(msg)])] = msg

(* Every container of the publishing and dead-letter paths holds messages  *)
(* that belong there.                                                      *)
ContentInv ==
    /\ \A k \in Keys : \A i \in 1 .. Len(outbox[k]) :
        Publishable(outbox[k][i]) /\ KeyOf(outbox[k][i]) = k
    /\ \A k \in Keys : \A i \in 1 .. Len(topic[k]) :
        Publishable(topic[k][i]) /\ KeyOf(topic[k][i]) = k
    /\ \A m \in strays \cup gaveUp : Publishable(m)
    /\ \A m \in dlqBuffer \cup dlqTopic \cup dlqLost : DeadLetterable(m)

(* Offsets stay inside the log, and commits behind the fetch position.     *)
OffsetInv ==
    /\ \A p \in Partitions : committed[p] <= Len(log[p])
    /\ Running => \A p \in Partitions :
        committed[p] <= position[p] /\ position[p] <= Len(log[p])

Inv ==
    /\ TypeOK
    /\ HandInv
    /\ WaitInv
    /\ ContentInv
    /\ OffsetInv
    /\ UncommittedIsGivenUp
    /\ CommittedIsSettled

-----------------------------------------------------------------------------
(* Appending to one of the sequences a function holds.                     *)
LEMMA AppendAt ==
    ASSUME NEW D, NEW S, NEW f \in [D -> Seq(S)], NEW d \in D, NEW e \in S,
           NEW g, g = [f EXCEPT ![d] = Append(@, e)]
    PROVE  /\ g \in [D -> Seq(S)]
           /\ \A x \in D : x # d => g[x] = f[x]
           /\ \A x \in D : Len(f[x]) \in Nat
           /\ Len(g[d]) = Len(f[d]) + 1
           /\ g[d][Len(f[d]) + 1] = e
           /\ \A i \in 1 .. Len(f[d]) : g[d][i] = f[d][i]
<1>1. /\ g \in [D -> Seq(S)]
      /\ \A x \in D : x # d => g[x] = f[x]
      /\ \A x \in D : f[x] \in Seq(S)
      /\ g[d] = Append(f[d], e)
  OBVIOUS
<1>2. QED
  BY <1>1

(* A producer's append leaves every record already in a log where it is.   *)
LEMMA ProduceKeepsRecords ==
    ASSUME TypeOK, NEW k \in Keys, NEW kind \in Kinds, Produce(k, kind)
    PROVE  /\ log' \in [Partitions -> Seq(Record)]
           /\ \A p \in Partitions :
                /\ Len(log[p]) \in Nat /\ Len(log'[p]) \in Nat
                /\ Len(log[p]) <= Len(log'[p])
           /\ \A m \in Message : m.part \in Partitions /\ InLog(m) =>
                InLog(m)' /\ RecordOf(m)' = RecordOf(m)
<1> DEFINE q == PartitionOf[k]
           r == [key |-> k, kind |-> kind]
<1>1. q \in Partitions /\ r \in Record
  BY KeysAssumption, KindsAssumption DEF Record
<1>2. log \in [Partitions -> Seq(Record)]
  BY DEF TypeOK
<1>3. log' = [log EXCEPT ![q] = Append(@, r)]
  BY DEF Produce
<1> HIDE DEF q, r
<1>4. /\ log' \in [Partitions -> Seq(Record)]
      /\ \A p \in Partitions : p # q => log'[p] = log[p]
      /\ \A p \in Partitions : Len(log[p]) \in Nat
      /\ Len(log'[q]) = Len(log[q]) + 1
      /\ \A i \in 1 .. Len(log[q]) : log'[q][i] = log[q][i]
  BY <1>1, <1>2, <1>3, AppendAt
<1>5. \A p \in Partitions :
        /\ Len(log'[p]) \in Nat
        /\ Len(log[p]) <= Len(log'[p])
        /\ \A i \in 1 .. Len(log[p]) : log'[p][i] = log[p][i]
  BY <1>1, <1>4
<1>6. \A m \in Message : m.part \in Partitions /\ InLog(m) =>
                InLog(m)' /\ RecordOf(m)' = RecordOf(m)
  BY <1>4, <1>5 DEF Message, InLog, RecordOf
<1>7. QED
  BY <1>4, <1>5, <1>6

(* A message appended to the topic is published, and nothing is unpublished. *)
LEMMA AppendPublishes ==
    ASSUME topic \in [Keys -> Seq(Message)], NEW k \in Keys, NEW m \in Message,
           topic' = [topic EXCEPT ![k] = Append(@, m)]
    PROVE  /\ topic' \in [Keys -> Seq(Message)]
           /\ Published(m)'
           /\ \A x : Published(x) => Published(x)'
           /\ \A x : Published(x)' => x = m \/ Published(x)
           /\ \A j \in Keys : \A i \in 1 .. Len(topic'[j]) :
                \/ i \in 1 .. Len(topic[j]) /\ topic'[j][i] = topic[j][i]
                \/ j = k /\ topic'[j][i] = m
<1>1. topic' \in [Keys -> Seq(Message)]
  OBVIOUS
<1>2. \A j \in Keys : /\ topic'[j] = IF j = k THEN Append(topic[j], m) ELSE topic[j]
                      /\ topic[j] \in Seq(Message)
  OBVIOUS
<1>3. /\ Len(topic'[k]) = Len(topic[k]) + 1
      /\ topic'[k][Len(topic[k]) + 1] = m
      /\ Len(topic[k]) \in Nat
      /\ \A i \in 1 .. Len(topic[k]) : topic'[k][i] = topic[k][i]
  BY <1>2
<1>4. Published(m)'
  BY <1>3 DEF Published
<1>5. \A j \in Keys : \A i \in 1 .. Len(topic[j]) :
          i \in 1 .. Len(topic'[j]) /\ topic'[j][i] = topic[j][i]
  BY <1>2, <1>3
<1>6. \A x : Published(x) => Published(x)'
  BY <1>5 DEF Published
<1>7. \A j \in Keys : \A i \in 1 .. Len(topic'[j]) :
                \/ i \in 1 .. Len(topic[j]) /\ topic'[j][i] = topic[j][i]
                \/ j = k /\ topic'[j][i] = m
  BY <1>2, <1>3
<1>8. \A x : Published(x)' => x = m \/ Published(x)
  BY <1>7 DEF Published
<1>9. QED
  BY <1>1, <1>4, <1>6, <1>7, <1>8

THEOREM InitInv == Init => Inv
BY BoundsAssumption, NoMessageAssumption
DEF Init, Inv, TypeOK, HandInv, WaitInv, ContentInv, OffsetInv, Running, Phase,
    UncommittedIsGivenUp, CommittedIsSettled

-----------------------------------------------------------------------------
(* The ordering key of an event of the log.                                *)
LEMMA KeyOfPublishable ==
    ASSUME TypeOK, NEW m, Publishable(m) PROVE KeyOf(m) \in Keys
<1>1. log[m.part] \in Seq(Record) /\ m.off \in 1 .. Len(log[m.part])
  BY DEF TypeOK, Publishable, InLog
<1>2. log[m.part][m.off] \in Record
  BY <1>1
<1>3. QED
  BY <1>2 DEF KeyOf, RecordOf, Record

(* A step of the process or the clients leaves the logs alone.             *)
LEMMA SameLog ==
    ASSUME UNCHANGED log
    PROVE  \A m : /\ InLog(m)' <=> InLog(m)
                  /\ KindOf(m)' = KindOf(m)
                  /\ KeyOf(m)' = KeyOf(m)
                  /\ Publishable(m)' <=> Publishable(m)
                  /\ DeadLetterable(m)' <=> DeadLetterable(m)
BY DEF InLog, KindOf, KeyOf, RecordOf, Publishable, DeadLetterable

(* What was dealt with stays dealt with.                                   *)
LEMMA SettledStays ==
    ASSUME NEW m, Settled(m), InLog(m)', KindOf(m)' = KindOf(m),
           Published(m) => Published(m)',
           gaveUp \subseteq gaveUp',
           dlqBuffer \cup dlqTopic \cup dlqLost
                \subseteq dlqBuffer' \cup dlqTopic' \cup dlqLost'
    PROVE  Settled(m)'
BY DEF Settled

(* With a settled message in hand, every record up to it is settled.       *)
LEMMA SettledUpToHand ==
    ASSUME Inv, pc = "commit"
    PROVE  \A o \in 1 .. msg.off : Settled(MessageAt(msg.part, o))
<1>1. /\ msg \in Message /\ msg.part \in Partitions /\ msg.off \in Nat
      /\ position[msg.part] = msg.off
      /\ committed[msg.part] \in Nat
      /\ Settled(msg)
  BY DEF Inv, HandInv, TypeOK, Message
<1>2. SUFFICES ASSUME NEW o \in 1 .. msg.off
               PROVE  Settled(MessageAt(msg.part, o))
  OBVIOUS
<1>3. CASE o \in 1 .. committed[msg.part]
  BY <1>1, <1>3 DEF Inv, CommittedIsSettled
<1>4. CASE o \in committed[msg.part] + 1 .. position[msg.part]
  <2>1. MessageAt(msg.part, o) \in gaveUp \cup {msg}
    BY <1>1, <1>4 DEF Inv, UncommittedIsGivenUp
  <2>2. \A m \in gaveUp : Settled(m)
    BY DEF Inv, ContentInv, Publishable, Settled
  <2>3. QED
    BY <1>1, <2>1, <2>2
<1>5. QED
  BY <1>1, <1>3, <1>4

LEMMA CommitInv == Inv /\ Commit => Inv'
<1> SUFFICES ASSUME Inv, Commit PROVE Inv'
  OBVIOUS
<1>1. /\ UNCHANGED <<log, position, outbox, paused, strays, topic, lostAcks,
                     dlqBuffer, dlqTopic, dlqLost, gaveUp, runs>>
      /\ pc = "commit" /\ pc' = "poll" /\ msg' = NoMessage /\ attempt' = 0
      /\ committed' = [committed EXCEPT ![msg.part] = msg.off]
  BY DEF Commit, CommitTo, client, dlq
<1>2. /\ msg \in Message /\ msg.part \in Partitions /\ msg.off \in Nat
      /\ msg.off <= Len(log[msg.part])
      /\ position[msg.part] = msg.off
      /\ committed[msg.part] < msg.off
      /\ \A p \in Partitions : committed[p] \in Nat /\ position[p] \in Nat
      /\ \A p \in Partitions :
            committed'[p] = IF p = msg.part THEN msg.off ELSE committed[p]
  BY <1>1 DEF Inv, HandInv, TypeOK, Message, InLog
<1>3. \A m : Published(m) => Published(m)'
  BY <1>1 DEF Published
<1>4. TypeOK'
  BY <1>1, <1>2, BoundsAssumption DEF Inv, TypeOK, Phase
<1>5. HandInv'
  BY <1>1 DEF HandInv
<1>6. WaitInv'
  BY <1>1 DEF WaitInv
<1>7. ContentInv'
  BY <1>1, SameLog DEF Inv, ContentInv
<1>8. OffsetInv'
  BY <1>1, <1>2 DEF Inv, OffsetInv, Running
<1>9. UncommittedIsGivenUp'
  <2>1. ASSUME NEW p \in Partitions, NEW o \in committed'[p] + 1 .. position[p]
        PROVE  MessageAt(p, o) \in gaveUp
    <3>1. p # msg.part /\ MessageAt(p, o) # msg
      BY <1>2 DEF MessageAt
    <3>2. QED
      BY <1>1, <1>2, <3>1 DEF Inv, UncommittedIsGivenUp
  <2>2. QED
    BY <1>1, <2>1 DEF UncommittedIsGivenUp, MessageAt
<1>10. CommittedIsSettled'
  <2>1. ASSUME NEW p \in Partitions, NEW o \in 1 .. committed'[p]
        PROVE  Settled(MessageAt(p, o))
    BY <1>1, <1>2, SettledUpToHand DEF Inv, CommittedIsSettled
  <2>2. ASSUME NEW m, Settled(m) PROVE Settled(m)'
    BY <1>1, <1>3, <2>2, SettledStays, SameLog DEF Settled
  <2>3. QED
    BY <1>1, <2>1, <2>2 DEF CommittedIsSettled, MessageAt
<1>11. QED
  BY <1>4, <1>5, <1>6, <1>7, <1>8, <1>9, <1>10 DEF Inv

(* A step that commits nothing and forgets nothing keeps what is committed *)
(* settled.                                                                *)
LEMMA SettledPreserved ==
    ASSUME Inv, UNCHANGED <<log, committed>>,
           \A m : Published(m) => Published(m)',
           gaveUp \subseteq gaveUp',
           dlqBuffer \cup dlqTopic \cup dlqLost
                \subseteq dlqBuffer' \cup dlqTopic' \cup dlqLost'
    PROVE  CommittedIsSettled'
<1>1. ASSUME NEW m, Settled(m) PROVE Settled(m)'
  BY <1>1, SettledStays, SameLog DEF Settled
<1>2. QED
  BY <1>1 DEF Inv, CommittedIsSettled, MessageAt

LEMMA CommitFailsInv == Inv /\ CommitFails => Inv'
<1> SUFFICES ASSUME Inv, CommitFails PROVE Inv'
  OBVIOUS
<1>1. /\ UNCHANGED <<log, position, outbox, paused, strays, topic, lostAcks,
                     dlqBuffer, dlqTopic, dlqLost, gaveUp, runs>>
      /\ pc = "commit" /\ pc' = "closing" /\ msg' = NoMessage /\ attempt' = 0
      /\ \/ committed' = committed
         \/ committed' = [committed EXCEPT ![msg.part] = msg.off]
  BY DEF CommitFails, CommitTo, Raise, client, dlq
<1>2. /\ msg \in Message /\ msg.part \in Partitions /\ msg.off \in Nat
      /\ msg.off <= Len(log[msg.part])
      /\ \A p \in Partitions : committed[p] \in Nat
      /\ \A p \in Partitions :
            committed'[p] \in {committed[p], IF p = msg.part THEN msg.off ELSE committed[p]}
  BY <1>1 DEF Inv, HandInv, TypeOK, Message, InLog
<1>3. TypeOK'
  <2>1. committed' \in [Partitions -> Nat]
    BY <1>1, <1>2 DEF Inv, TypeOK
  <2>2. QED
    BY <1>1, <2>1, BoundsAssumption DEF Inv, TypeOK, Phase
<1>4. HandInv' /\ WaitInv'
  BY <1>1 DEF HandInv, WaitInv
<1>5. ContentInv'
  BY <1>1, SameLog DEF Inv, ContentInv
<1>6. OffsetInv' /\ UncommittedIsGivenUp'
  BY <1>1, <1>2 DEF Inv, OffsetInv, Running, UncommittedIsGivenUp
<1>7. CommittedIsSettled'
  <2>1. ASSUME NEW p \in Partitions, NEW o \in 1 .. committed'[p]
        PROVE  Settled(MessageAt(p, o))
    BY <1>1, <1>2, SettledUpToHand DEF Inv, CommittedIsSettled
  <2>2. ASSUME NEW m, Settled(m) PROVE Settled(m)'
    BY <1>1, <2>2, SettledStays, SameLog DEF Settled, Published
  <2>3. QED
    BY <1>1, <2>1, <2>2 DEF CommittedIsSettled, MessageAt
<1>8. QED
  BY <1>3, <1>4, <1>5, <1>6, <1>7 DEF Inv

-----------------------------------------------------------------------------
(* The four outcomes of poll().                                            *)

(* The message poll() hands out is the first of its partition that this    *)
(* process has not seen.                                                   *)
LEMMA FetchNext ==
    ASSUME Inv, NEW p \in Partitions, Fetch(p)
    PROVE  /\ NextMessage(p) \in Message
           /\ NextMessage(p).part = p
           /\ NextMessage(p).off = position[p] + 1
           /\ InLog(NextMessage(p))
           /\ position' \in [Partitions -> Nat]
           /\ position'[p] = position[p] + 1
           /\ position[p] \in Nat
           /\ committed[p] < position[p] + 1
           /\ position[p] + 1 <= Len(log[p])
           /\ \A q \in Partitions \ {p} : position'[q] = position[q]
           /\ MessageAt(p, position[p] + 1) = NextMessage(p)
<1>1. /\ position \in [Partitions -> Nat] /\ committed \in [Partitions -> Nat]
      /\ pc = "poll" /\ position[p] < Len(log[p])
      /\ position' = [position EXCEPT ![p] = @ + 1]
      /\ committed[p] <= position[p]
      /\ Len(log[p]) \in Nat
  BY DEF Inv, TypeOK, OffsetInv, Running, Fetch
<1>2. QED
  BY <1>1 DEF NextMessage, Message, MessageAt, InLog

LEMMA PollTakesInv ==
    ASSUME Inv, NEW p \in Partitions, Fetch(p),
           UNCHANGED <<log, committed, attempt, outbox, paused, strays, topic,
                       lostAcks, dlqTopic, dlqLost, gaveUp, runs>>,
           msg' = NextMessage(p),
           \/ /\ pc' = "publish"
              /\ KindOf(NextMessage(p)) = "valid"
              /\ UNCHANGED dlqBuffer
           \/ /\ pc' = "commit"
              /\ KindOf(NextMessage(p)) \in Rejected
              /\ dlqBuffer' = dlqBuffer \cup {NextMessage(p)}
    PROVE  Inv'
<1> DEFINE n == NextMessage(p)
<1>1. /\ n \in Message /\ n.part = p /\ n.off = position[p] + 1 /\ InLog(n)
      /\ position[p] \in Nat /\ position' \in [Partitions -> Nat]
      /\ position'[p] = position[p] + 1
      /\ committed[p] < position[p] + 1 /\ position[p] + 1 <= Len(log[p])
      /\ \A q \in Partitions \ {p} : position'[q] = position[q]
      /\ MessageAt(p, position[p] + 1) = n
  BY FetchNext
<1>2. pc = "poll" /\ msg = NoMessage
  BY DEF Fetch, Inv, HandInv
<1>3. \A m : Published(m) => Published(m)'
  BY DEF Published
<1> HIDE DEF n
<1>4. TypeOK'
  BY <1>1 DEF Inv, TypeOK, Phase, n
<1>5. HandInv'
  <2>1. attempt' < MaxAttempts
    BY <1>2, BoundsAssumption DEF Inv, HandInv
  <2>2. QED
    BY <1>1, <2>1, SameLog DEF HandInv, Publishable, Settled, n
<1>6. WaitInv'
  BY DEF WaitInv
<1>7. ContentInv'
  <2>1. DeadLetterable(n) \/ UNCHANGED dlqBuffer
    BY <1>1 DEF DeadLetterable, n
  <2>2. QED
    BY <2>1, SameLog DEF Inv, ContentInv, n
<1>8. OffsetInv'
  <2>1. \A q \in Partitions : /\ committed[q] <= Len(log[q])
                              /\ committed[q] <= position[q]
                              /\ position[q] <= Len(log[q])
    BY <1>2 DEF Inv, OffsetInv, Running
  <2>2. \A q \in Partitions : /\ committed[q] \in Nat
                              /\ committed[q] <= position'[q]
                              /\ position'[q] <= Len(log[q])
    <3>1. \A q \in Partitions : committed[q] \in Nat
      BY DEF Inv, TypeOK
    <3>2. ASSUME NEW q \in Partitions, q # p
          PROVE  position'[q] = position[q]
      BY <1>1, <3>2
    <3>3. committed[p] <= position'[p] /\ position'[p] <= Len(log[p])
      BY <1>1, <3>1
    <3>4. QED
      BY <2>1, <3>1, <3>2, <3>3
  <2>3. QED
    BY <2>1, <2>2 DEF OffsetInv
<1>9. UncommittedIsGivenUp'
  <2>1. ASSUME NEW q \in Partitions, NEW o \in committed[q] + 1 .. position'[q]
        PROVE  MessageAt(q, o) \in gaveUp \cup {n}
    <3>1. committed[q] \in Nat
      BY DEF Inv, TypeOK
    <3>2. ASSUME o \in committed[q] + 1 .. position[q]
          PROVE  MessageAt(q, o) \in gaveUp
      <4>1. MessageAt(q, o) \in gaveUp \cup {NoMessage}
        BY <1>2, <3>2 DEF Inv, UncommittedIsGivenUp
      <4>2. MessageAt(q, o) \in Message
        BY <3>1 DEF MessageAt, Message
      <4>3. QED
        BY <4>1, <4>2, NoMessageAssumption
    <3>3. CASE q # p
      BY <1>1, <3>2, <3>3
    <3>4. CASE q = p /\ o = position[p] + 1
      BY <1>1, <3>4
    <3>5. CASE q = p /\ o # position[p] + 1
      BY <1>1, <3>1, <3>2, <3>5
    <3>6. QED
      BY <3>3, <3>4, <3>5
  <2>2. QED
    BY <2>1 DEF UncommittedIsGivenUp, MessageAt, n
<1>10. CommittedIsSettled'
  BY <1>3, SettledPreserved
<1>11. QED
  BY <1>4, <1>5, <1>6, <1>7, <1>8, <1>9, <1>10 DEF Inv

LEMMA PollValidInv == ASSUME Inv, NEW p \in Partitions, PollValid(p) PROVE Inv'
BY PollTakesInv DEF PollValid, broker, client, dlq

LEMMA PollRejectedInv ==
    ASSUME Inv, NEW p \in Partitions, PollRejected(p) PROVE Inv'
BY PollTakesInv DEF PollRejected, broker, client

(* A step that leaves the loop by an exception.                            *)
LEMMA RaiseInv ==
    ASSUME Inv, Raise, position' \in [Partitions -> Nat],
           UNCHANGED <<broker, client, dlq, gaveUp, runs>>
    PROVE  Inv'
<1>1. /\ UNCHANGED <<log, committed, outbox, paused, strays, topic, lostAcks,
                     dlqBuffer, dlqTopic, dlqLost, gaveUp, runs>>
      /\ pc' = "closing" /\ msg' = NoMessage /\ attempt' = 0
  BY DEF Raise, broker, client, dlq
<1>2. TypeOK'
  BY <1>1, BoundsAssumption DEF Inv, TypeOK, Phase
<1>3. HandInv' /\ WaitInv' /\ OffsetInv' /\ UncommittedIsGivenUp'
  BY <1>1 DEF Inv, HandInv, WaitInv, OffsetInv, Running, UncommittedIsGivenUp
<1>4. ContentInv'
  BY <1>1, SameLog DEF Inv, ContentInv
<1>5. CommittedIsSettled'
  BY <1>1, SettledPreserved DEF Published
<1>6. QED
  BY <1>2, <1>3, <1>4, <1>5 DEF Inv

LEMMA PollRaisesInv ==
    ASSUME Inv, NEW p \in Partitions, PollRejectedFull(p) \/ PollUndecodable(p)
    PROVE  Inv'
BY RaiseInv, FetchNext DEF PollRejectedFull, PollUndecodable

LEMMA InterruptInv == Inv /\ Interrupt => Inv'
BY RaiseInv DEF Interrupt, Inv, TypeOK

-----------------------------------------------------------------------------
(* The publishing path.                                                    *)

(* An attempt failed, and the client at most dropped the requests of the   *)
(* key: the retry keeps the message in hand, the give-up records it.       *)
LEMMA AttemptFailedInv ==
    ASSUME Inv, NEW n \in 1 .. MaxAttempts, AttemptFailed(n),
           pc \in {"publish", "wait"}, paused' \subseteq Keys,
           UNCHANGED <<log, committed, position, strays, topic, lostAcks, dlq, runs>>,
           \/ UNCHANGED outbox
           \/ \E k \in Keys : outbox' = [outbox EXCEPT ![k] = <<>>]
    PROVE  Inv'
<1>1. /\ Publishable(msg)
      /\ position[msg.part] = msg.off
      /\ committed[msg.part] < msg.off
  BY DEF Inv, HandInv
<1>2. \/ /\ n < MaxAttempts /\ pc' = "publish" /\ attempt' = n
         /\ msg' = msg /\ gaveUp' = gaveUp
      \/ /\ pc' = "poll" /\ attempt' = 0 /\ msg' = NoMessage
         /\ gaveUp' = gaveUp \cup {msg}
  BY DEF AttemptFailed
<1>3. /\ outbox' \in [Keys -> Seq(Message)]
      /\ \A k \in Keys : outbox'[k] = outbox[k] \/ outbox'[k] = <<>>
  <2>1. outbox \in [Keys -> Seq(Message)] /\ <<>> \in Seq(Message)
    BY DEF Inv, TypeOK
  <2>2. ASSUME NEW k \in Keys, outbox' = [outbox EXCEPT ![k] = <<>>]
        PROVE  /\ outbox' \in [Keys -> Seq(Message)]
               /\ \A j \in Keys : outbox'[j] = outbox[j] \/ outbox'[j] = <<>>
    BY <2>1, <2>2
  <2>3. QED
    BY <2>1, <2>2
<1>4. TypeOK'
  BY <1>1, <1>2, <1>3, BoundsAssumption DEF Inv, TypeOK, Phase, Publishable, dlq
<1>5. HandInv'
  BY <1>1, <1>2, BoundsAssumption, SameLog DEF HandInv, Publishable
<1>6. WaitInv'
  BY <1>2 DEF WaitInv
<1>7. ContentInv'
  <2>1. \A m \in gaveUp' : Publishable(m)
    BY <1>1, <1>2 DEF Inv, ContentInv
  <2>2. \A k \in Keys : \A i \in 1 .. Len(outbox'[k]) :
            Publishable(outbox'[k][i]) /\ KeyOf(outbox'[k][i]) = k
    BY <1>3 DEF Inv, ContentInv
  <2>3. QED
    BY <2>1, <2>2, SameLog DEF Inv, ContentInv, dlq
<1>8. OffsetInv' /\ UncommittedIsGivenUp'
  BY <1>2 DEF Inv, OffsetInv, Running, UncommittedIsGivenUp, MessageAt
<1>9. CommittedIsSettled'
  BY <1>2, SettledPreserved DEF Published, dlq
<1>10. QED
  BY <1>4, <1>5, <1>6, <1>7, <1>8, <1>9 DEF Inv

LEMMA PublishAttemptInv == Inv /\ PublishAttempt => Inv'
<1> SUFFICES ASSUME Inv, PublishAttempt PROVE Inv'
  OBVIOUS
<1> DEFINE k == KeyOf(msg)
<1>1. /\ pc = "publish" /\ pc' = "wait" /\ attempt' = attempt + 1
      /\ outbox' = [outbox EXCEPT ![k] = Append(@, msg)]
      /\ UNCHANGED <<log, committed, position, msg, paused, strays, topic,
                     lostAcks, dlqBuffer, dlqTopic, dlqLost, gaveUp, runs>>
  BY DEF PublishAttempt, broker, dlq
<1>2. Publishable(msg) /\ msg \in Message /\ attempt < MaxAttempts
  BY <1>1 DEF Inv, HandInv, Publishable
<1>3. k \in Keys
  BY <1>2, KeyOfPublishable DEF Inv
<1> HIDE DEF k
<1>4. /\ outbox' \in [Keys -> Seq(Message)]
      /\ \A j \in Keys : j # k => outbox'[j] = outbox[j]
      /\ Len(outbox[k]) \in Nat
      /\ Len(outbox'[k]) = Len(outbox[k]) + 1
      /\ outbox'[k][Len(outbox[k]) + 1] = msg
      /\ \A i \in 1 .. Len(outbox[k]) : outbox'[k][i] = outbox[k][i]
  BY <1>1, <1>2, <1>3, AppendAt DEF Inv, TypeOK
<1>5. TypeOK'
  BY <1>1, <1>2, <1>4, BoundsAssumption DEF Inv, TypeOK, Phase
<1>6. HandInv'
  BY <1>1, SameLog, BoundsAssumption DEF Inv, HandInv, TypeOK
<1>7. WaitInv'
  BY <1>1, <1>4, SameLog DEF WaitInv, k
<1>8. ContentInv'
  <2>1. ASSUME NEW j \in Keys, NEW i \in 1 .. Len(outbox'[j])
        PROVE  Publishable(outbox'[j][i]) /\ KeyOf(outbox'[j][i]) = j
    <3>1. CASE j = k /\ i = Len(outbox[k]) + 1
      BY <1>2, <1>4, <3>1 DEF k
    <3>2. CASE j = k /\ i # Len(outbox[k]) + 1
      BY <1>4, <3>2 DEF Inv, ContentInv
    <3>3. CASE j # k
      BY <1>4, <3>3 DEF Inv, ContentInv
    <3>4. QED
      BY <3>1, <3>2, <3>3
  <2>2. QED
    BY <1>1, <2>1, SameLog DEF Inv, ContentInv
<1>9. OffsetInv' /\ UncommittedIsGivenUp'
  BY <1>1 DEF Inv, OffsetInv, Running, UncommittedIsGivenUp, MessageAt
<1>10. CommittedIsSettled'
  BY <1>1, SettledPreserved DEF Published
<1>11. QED
  BY <1>5, <1>6, <1>7, <1>8, <1>9, <1>10 DEF Inv

LEMMA PublishPausedInv == Inv /\ PublishPaused => Inv'
<1> SUFFICES ASSUME Inv, PublishPaused PROVE Inv'
  OBVIOUS
<1>1. attempt + 1 \in 1 .. MaxAttempts
  BY BoundsAssumption DEF Inv, TypeOK, HandInv, PublishPaused
<1>2. QED
  BY <1>1, AttemptFailedInv DEF PublishPaused, broker, client, Inv, TypeOK

LEMMA TimeoutInv == Inv /\ Timeout => Inv'
<1> SUFFICES ASSUME Inv, Timeout PROVE Inv'
  OBVIOUS
<1>1. attempt \in 1 .. MaxAttempts
  BY BoundsAssumption DEF Inv, TypeOK, HandInv, Timeout
<1>2. QED
  BY <1>1, AttemptFailedInv DEF Timeout, broker, client, Inv, TypeOK

(* Pub/Sub accepts a message: it is appended to the queue of its key.      *)
LEMMA AcceptedContent ==
    ASSUME Inv, NEW k \in Keys, NEW m, Publishable(m), KeyOf(m) = k,
           topic' = [topic EXCEPT ![k] = Append(@, m)], UNCHANGED log
    PROVE  /\ topic' \in [Keys -> Seq(Message)]
           /\ Published(m)'
           /\ \A x : Published(x) => Published(x)'
           /\ \A j \in Keys : \A i \in 1 .. Len(topic'[j]) :
                Publishable(topic'[j][i]) /\ KeyOf(topic'[j][i]) = j
<1>1. m \in Message /\ topic \in [Keys -> Seq(Message)]
  BY DEF Publishable, Inv, TypeOK
<1>2. /\ topic' \in [Keys -> Seq(Message)]
      /\ Published(m)'
      /\ \A x : Published(x) => Published(x)'
      /\ \A j \in Keys : \A i \in 1 .. Len(topic'[j]) :
            \/ i \in 1 .. Len(topic[j]) /\ topic'[j][i] = topic[j][i]
            \/ j = k /\ topic'[j][i] = m
  BY <1>1, AppendPublishes
<1>3. QED
  BY <1>2 DEF Inv, ContentInv

(* The oldest request of a key.                                            *)
LEMMA HeadOfOutbox ==
    ASSUME Inv, NEW k \in Keys, outbox[k] # <<>>
    PROVE  /\ Publishable(Head(outbox[k])) /\ KeyOf(Head(outbox[k])) = k
           /\ Tail(outbox[k]) \in Seq(Message)
           /\ Len(outbox[k]) \in Nat /\ Len(outbox[k]) >= 1
           /\ Len(Tail(outbox[k])) = Len(outbox[k]) - 1
           /\ \A i \in 1 .. Len(Tail(outbox[k])) :
                Tail(outbox[k])[i] = outbox[k][i + 1]
           /\ Head(outbox[k]) = outbox[k][1]
<1>1. outbox[k] \in Seq(Message) /\ outbox[k] # <<>>
  BY DEF Inv, TypeOK
<1>2. /\ Head(outbox[k]) = outbox[k][1]
      /\ Len(outbox[k]) \in Nat /\ Len(outbox[k]) >= 1
      /\ Tail(outbox[k]) \in Seq(Message)
      /\ Len(Tail(outbox[k])) = Len(outbox[k]) - 1
      /\ \A i \in 1 .. Len(Tail(outbox[k])) : Tail(outbox[k])[i] = outbox[k][i + 1]
  BY <1>1
<1>3. QED
  BY <1>2 DEF Inv, ContentInv

LEMMA PublishAcceptedInv ==
    ASSUME Inv, NEW k \in Keys, PublishAccepted(k) PROVE Inv'
<1>0. PICK h, t : h = Head(outbox[k]) /\ t = Tail(outbox[k])
  OBVIOUS
<1>1. /\ outbox[k] # <<>>
      /\ topic' = [topic EXCEPT ![k] = Append(@, h)]
      /\ outbox' = [outbox EXCEPT ![k] = t]
      /\ pc' = IF WaitsFor(k) THEN "commit" ELSE pc
      /\ UNCHANGED <<log, committed, position, msg, attempt, paused, strays,
                     lostAcks, dlqBuffer, dlqTopic, dlqLost, gaveUp, runs>>
  BY <1>0 DEF PublishAccepted, broker, dlq
<1>2. /\ Publishable(h) /\ KeyOf(h) = k /\ t \in Seq(Message)
      /\ Len(outbox[k]) \in Nat /\ Len(outbox[k]) >= 1
      /\ Len(t) = Len(outbox[k]) - 1
      /\ \A i \in 1 .. Len(t) : t[i] = outbox[k][i + 1]
      /\ h = outbox[k][1]
  BY <1>0, <1>1, HeadOfOutbox
<1>3. /\ topic' \in [Keys -> Seq(Message)]
      /\ Published(h)'
      /\ \A x : Published(x) => Published(x)'
      /\ \A j \in Keys : \A i \in 1 .. Len(topic'[j]) :
            Publishable(topic'[j][i]) /\ KeyOf(topic'[j][i]) = j
  BY <1>1, <1>2, AcceptedContent
<1>4. /\ outbox' \in [Keys -> Seq(Message)]
      /\ outbox'[k] = t
      /\ \A j \in Keys : j # k => outbox'[j] = outbox[j]
  BY <1>1, <1>2 DEF Inv, TypeOK
<1>5. TypeOK'
  BY <1>1, <1>3, <1>4 DEF Inv, TypeOK, Phase
<1>6. HandInv'
  <2>1. CASE WaitsFor(k)
    <3>1. msg = h /\ pc = "wait"
      BY <1>1, <1>2, <2>1 DEF WaitsFor, Inv, WaitInv
    <3>2. Settled(msg)'
      BY <1>1, <1>2, <1>3, <3>1, SameLog DEF Settled, Publishable
    <3>3. QED
      BY <1>1, <2>1, <3>1, <3>2, SameLog DEF Inv, HandInv, Publishable
  <2>2. CASE ~WaitsFor(k)
    <3>1. Settled(msg) => Settled(msg)'
      BY <1>1, <1>3, SameLog, SettledStays DEF Settled
    <3>2. QED
      BY <1>1, <2>2, <3>1, SameLog DEF Inv, HandInv
  <2>3. QED
    BY <2>1, <2>2
<1>7. WaitInv'
  <2>1. SUFFICES ASSUME pc' = "wait", outbox'[KeyOf(msg)] # <<>>
                 PROVE  outbox'[KeyOf(msg)][Len(outbox'[KeyOf(msg)])] = msg
    BY <1>1, SameLog DEF WaitInv
  <2>2. pc = "wait" /\ ~WaitsFor(k)
    BY <1>1, <2>1
  <2>3. CASE KeyOf(msg) = k
    <3>1. t # <<>>
      BY <1>4, <2>1, <2>3
    <3>2. Len(outbox[k]) # 1 /\ outbox[k][Len(outbox[k])] = msg
      BY <1>1, <2>2, <2>3 DEF WaitsFor, Inv, WaitInv
    <3>3. Len(t) >= 1 /\ t[Len(t)] = outbox[k][Len(outbox[k])]
      BY <1>2, <3>1
    <3>4. QED
      BY <1>4, <2>3, <3>2, <3>3
  <2>4. CASE KeyOf(msg) # k
    <3>1. KeyOf(msg) \in Keys
      BY <2>2, KeyOfPublishable DEF Inv, HandInv
    <3>2. QED
      BY <1>4, <2>1, <2>2, <2>4, <3>1 DEF Inv, WaitInv
  <2>5. QED
    BY <2>3, <2>4
<1>8. ContentInv'
  <2>1. ASSUME NEW j \in Keys, NEW i \in 1 .. Len(outbox'[j])
        PROVE  Publishable(outbox'[j][i]) /\ KeyOf(outbox'[j][i]) = j
    <3>1. CASE j = k
      <4>1. i \in 1 .. Len(t) /\ outbox'[j][i] = outbox[k][i + 1]
        BY <1>2, <1>4, <3>1
      <4>2. i + 1 \in 1 .. Len(outbox[k])
        BY <1>2, <4>1
      <4>3. QED
        BY <3>1, <4>1, <4>2 DEF Inv, ContentInv
    <3>2. CASE j # k
      BY <1>4, <3>2 DEF Inv, ContentInv
    <3>3. QED
      BY <3>1, <3>2
  <2>2. QED
    BY <1>1, <1>3, <2>1, SameLog DEF Inv, ContentInv
<1>9. OffsetInv' /\ UncommittedIsGivenUp'
  <2>1. pc' \in {"poll", "publish", "wait", "commit"} =>
            pc \in {"poll", "publish", "wait", "commit"}
    BY <1>1 DEF WaitsFor
  <2>2. QED
    BY <1>1, <2>1 DEF Inv, OffsetInv, Running, UncommittedIsGivenUp, MessageAt
<1>10. CommittedIsSettled'
  BY <1>1, <1>3, SettledPreserved
<1>11. QED
  BY <1>5, <1>6, <1>7, <1>8, <1>9, <1>10 DEF Inv

(* A step that only adds an accepted message to the topic, and at most     *)
(* takes requests out of strays.                                           *)
LEMMA AcceptedOnlyInv ==
    ASSUME Inv, NEW k \in Keys, NEW m, Publishable(m), KeyOf(m) = k,
           topic' = [topic EXCEPT ![k] = Append(@, m)],
           strays' \subseteq strays, lostAcks' \in 0 .. MaxLostAcks,
           UNCHANGED <<broker, loop, outbox, paused, dlq, gaveUp, runs>>
    PROVE  Inv'
<1>1. UNCHANGED <<log, committed, position, pc, msg, attempt, outbox, paused,
                  dlqBuffer, dlqTopic, dlqLost, gaveUp, runs>>
  BY DEF broker, loop, dlq
<1>2. UNCHANGED log
  BY <1>1
<1>3. /\ topic' \in [Keys -> Seq(Message)]
      /\ \A x : Published(x) => Published(x)'
      /\ \A j \in Keys : \A i \in 1 .. Len(topic'[j]) :
            Publishable(topic'[j][i]) /\ KeyOf(topic'[j][i]) = j
  BY <1>2, AcceptedContent
<1>4. TypeOK'
  BY <1>1, <1>3 DEF Inv, TypeOK
<1>5. HandInv'
  <2>1. Settled(msg) => Settled(msg)'
    BY <1>1, <1>3, SameLog DEF Settled
  <2>2. QED
    BY <1>1, <2>1, SameLog DEF Inv, HandInv
<1>6. WaitInv' /\ OffsetInv' /\ UncommittedIsGivenUp'
  BY <1>1, SameLog
  DEF Inv, WaitInv, OffsetInv, Running, UncommittedIsGivenUp, MessageAt
<1>7. ContentInv'
  BY <1>1, <1>3, SameLog DEF Inv, ContentInv
<1>8. CommittedIsSettled'
  BY <1>1, <1>3, SettledPreserved
<1>9. QED
  BY <1>4, <1>5, <1>6, <1>7, <1>8 DEF Inv

LEMMA PublishAckLostInv ==
    ASSUME Inv, NEW k \in Keys, PublishAckLost(k) PROVE Inv'
<1>0. PICK h : h = Head(outbox[k])
  OBVIOUS
<1>1. Publishable(h) /\ KeyOf(h) = k
  BY <1>0, HeadOfOutbox DEF PublishAckLost
<1>2. lostAcks' \in 0 .. MaxLostAcks
  BY BoundsAssumption DEF PublishAckLost, Inv, TypeOK
<1>3. topic' = [topic EXCEPT ![k] = Append(@, h)]
  BY <1>0 DEF PublishAckLost
<1>4. QED
  BY <1>1, <1>2, <1>3, AcceptedOnlyInv DEF PublishAckLost

LEMMA StrayAcceptedInv ==
    ASSUME Inv, NEW m \in strays, StrayAccepted(m) PROVE Inv'
<1>0. PICK k : k = KeyOf(m)
  OBVIOUS
<1>1. Publishable(m) /\ k \in Keys
  BY <1>0, KeyOfPublishable DEF Inv, ContentInv
<1>2. topic' = [topic EXCEPT ![k] = Append(@, m)]
  BY <1>0 DEF StrayAccepted
<1>3. QED
  BY <1>0, <1>1, <1>2, AcceptedOnlyInv DEF StrayAccepted, Inv, TypeOK

LEMMA StrayDroppedInv ==
    ASSUME Inv, NEW m \in strays, StrayDropped(m) PROVE Inv'
<1>1. /\ UNCHANGED <<log, committed, position, pc, msg, attempt, outbox, paused,
                     topic, lostAcks, dlqBuffer, dlqTopic, dlqLost, gaveUp, runs>>
      /\ strays' \subseteq strays
  BY DEF StrayDropped, broker, loop, dlq
<1>2. TypeOK' /\ WaitInv' /\ OffsetInv' /\ UncommittedIsGivenUp'
  BY <1>1, SameLog
  DEF Inv, TypeOK, WaitInv, OffsetInv, Running, UncommittedIsGivenUp, MessageAt
<1>3. HandInv'
  BY <1>1, SameLog DEF Inv, HandInv, Settled, Published
<1>4. ContentInv'
  BY <1>1, SameLog DEF Inv, ContentInv
<1>5. CommittedIsSettled'
  BY <1>1, SettledPreserved DEF Published
<1>6. QED
  BY <1>2, <1>3, <1>4, <1>5 DEF Inv

LEMMA PublishRefusedInv ==
    ASSUME Inv, NEW k \in Keys, PublishRefused(k) PROVE Inv'
<1>1. /\ UNCHANGED <<log, committed, position, strays, topic, lostAcks, dlq, runs>>
      /\ outbox' = [outbox EXCEPT ![k] = <<>>]
      /\ paused' \subseteq Keys
  BY DEF PublishRefused, broker, Inv, TypeOK
<1>2. CASE pc = "wait" /\ KeyOf(msg) = k
  <2>1. attempt \in 1 .. MaxAttempts
    BY <1>2, BoundsAssumption DEF Inv, TypeOK, HandInv
  <2>2. AttemptFailed(attempt)
    BY <1>2 DEF PublishRefused
  <2>3. QED
    BY <1>1, <1>2, <2>1, <2>2, AttemptFailedInv
<1>3. CASE ~(pc = "wait" /\ KeyOf(msg) = k)
  <2>1. UNCHANGED <<pc, msg, attempt, gaveUp, dlqBuffer, dlqTopic, dlqLost>>
    BY <1>1, <1>3 DEF PublishRefused, dlq
  <2>2. /\ outbox' \in [Keys -> Seq(Message)] /\ outbox'[k] = <<>>
        /\ \A j \in Keys : j # k => outbox'[j] = outbox[j]
    <3>1. outbox \in [Keys -> Seq(Message)] /\ <<>> \in Seq(Message)
      BY DEF Inv, TypeOK
    <3>2. QED
      BY <1>1, <3>1
  <2>3. TypeOK' /\ OffsetInv' /\ UncommittedIsGivenUp'
    BY <1>1, <2>1, <2>2
    DEF Inv, TypeOK, OffsetInv, Running, UncommittedIsGivenUp, MessageAt
  <2>4. HandInv'
    BY <1>1, <2>1, SameLog DEF Inv, HandInv, Settled, Published
  <2>5. WaitInv'
    <3>1. CASE pc = "wait"
      <4>1. KeyOf(msg) \in Keys /\ KeyOf(msg) # k
        BY <1>3, <3>1, KeyOfPublishable DEF Inv, HandInv
      <4>2. QED
        BY <1>1, <2>1, <2>2, <4>1, SameLog DEF Inv, WaitInv
    <3>2. QED
      BY <2>1, <3>1 DEF WaitInv
  <2>6. ContentInv'
    <3>1. ASSUME NEW j \in Keys, NEW i \in 1 .. Len(outbox'[j])
          PROVE  Publishable(outbox'[j][i]) /\ KeyOf(outbox'[j][i]) = j
      BY <2>2 DEF Inv, ContentInv
    <3>2. QED
      BY <1>1, <2>1, <3>1, SameLog DEF Inv, ContentInv
  <2>7. CommittedIsSettled'
    BY <1>1, <2>1, SettledPreserved DEF Published
  <2>8. QED
    BY <2>3, <2>4, <2>5, <2>6, <2>7 DEF Inv
<1>4. QED
  BY <1>2, <1>3

-----------------------------------------------------------------------------
(* The end of a process, the next one, the DLQ producer and the producers. *)

LEMMA DieInv == Inv /\ Die => Inv'
<1> SUFFICES ASSUME Inv, Die PROVE Inv'
  OBVIOUS
<1>1. /\ UNCHANGED <<log, committed, position, topic, lostAcks, dlqTopic, gaveUp, runs>>
      /\ pc' = "down" /\ msg' = NoMessage /\ attempt' = 0
      /\ outbox' = [k \in Keys |-> <<>>] /\ paused' = {}
      /\ dlqLost' = dlqLost \cup dlqBuffer /\ dlqBuffer' = {}
      /\ strays' = strays \cup {Head(outbox[k]) : k \in {j \in Keys : outbox[j] # <<>>}}
  BY DEF Die, broker
<1>2. \A m \in strays' : Publishable(m)
  BY <1>1, HeadOfOutbox DEF Inv, ContentInv
<1>3. TypeOK'
  <2>1. strays' \subseteq Message
    BY <1>2 DEF Publishable
  <2>2. QED
    BY <1>1, <2>1, BoundsAssumption DEF Inv, TypeOK, Phase
<1>4. HandInv' /\ WaitInv' /\ OffsetInv' /\ UncommittedIsGivenUp'
  BY <1>1 DEF Inv, HandInv, WaitInv, OffsetInv, Running, UncommittedIsGivenUp
<1>5. ContentInv'
  BY <1>1, <1>2, SameLog DEF Inv, ContentInv
<1>6. CommittedIsSettled'
  BY <1>1, SettledPreserved DEF Published
<1>7. QED
  BY <1>3, <1>4, <1>5, <1>6 DEF Inv

LEMMA RestartInv == Inv /\ Restart => Inv'
<1> SUFFICES ASSUME Inv, Restart PROVE Inv'
  OBVIOUS
<1>1. /\ UNCHANGED <<log, committed, msg, attempt, outbox, paused, strays, topic,
                     lostAcks, dlqBuffer, dlqTopic, dlqLost, gaveUp>>
      /\ pc = "down" /\ pc' = "poll" /\ position' = committed
      /\ runs < MaxRuns /\ runs' = runs + 1
  BY DEF Restart, broker, client, dlq
<1>2. TypeOK'
  BY <1>1, BoundsAssumption DEF Inv, TypeOK, Phase
<1>3. HandInv' /\ WaitInv'
  BY <1>1 DEF Inv, HandInv, WaitInv
<1>4. OffsetInv' /\ UncommittedIsGivenUp'
  <2>1. \A p \in Partitions : committed[p] \in Nat /\ committed[p] <= Len(log[p])
    BY DEF Inv, TypeOK, OffsetInv
  <2>2. QED
    BY <1>1, <2>1 DEF OffsetInv, Running, UncommittedIsGivenUp
<1>5. ContentInv'
  BY <1>1, SameLog DEF Inv, ContentInv
<1>6. CommittedIsSettled'
  BY <1>1, SettledPreserved DEF Published
<1>7. QED
  BY <1>2, <1>3, <1>4, <1>5, <1>6 DEF Inv

LEMMA DlqProducerInv == Inv /\ DlqProducer => Inv'
<1> SUFFICES ASSUME Inv, NEW m \in dlqBuffer, DlqDelivered(m) \/ DlqExpired(m)
             PROVE  Inv'
  BY DEF DlqProducer
<1>1. /\ UNCHANGED <<log, committed, position, pc, msg, attempt, outbox, paused,
                     strays, topic, lostAcks, gaveUp, runs>>
      /\ dlqBuffer' = dlqBuffer \ {m}
      /\ \/ dlqTopic' = dlqTopic \cup {m} /\ dlqLost' = dlqLost
         \/ dlqTopic' = dlqTopic /\ dlqLost' = dlqLost \cup {m}
  BY DEF DlqDelivered, DlqExpired, broker, loop, client
<1>2. /\ dlqBuffer' \cup dlqTopic' \cup dlqLost' = dlqBuffer \cup dlqTopic \cup dlqLost
      /\ dlqBuffer' \subseteq dlqBuffer
  BY <1>1
<1>3. TypeOK' /\ WaitInv' /\ OffsetInv' /\ UncommittedIsGivenUp'
  BY <1>1, SameLog
  DEF Inv, TypeOK, WaitInv, OffsetInv, Running, UncommittedIsGivenUp, MessageAt
<1>4. HandInv'
  BY <1>1, <1>2, SameLog DEF Inv, HandInv, Settled, Published
<1>5. ContentInv'
  BY <1>1, <1>2, SameLog DEF Inv, ContentInv
<1>6. CommittedIsSettled'
  BY <1>1, <1>2, SettledPreserved DEF Published
<1>7. QED
  BY <1>3, <1>4, <1>5, <1>6 DEF Inv

LEMMA ProduceInv ==
    ASSUME Inv, NEW k \in Keys, NEW kind \in Kinds, Produce(k, kind) PROVE Inv'
<1>1. UNCHANGED <<committed, position, pc, msg, attempt, outbox, paused, strays,
                  topic, lostAcks, dlqBuffer, dlqTopic, dlqLost, gaveUp, runs>>
  BY DEF Produce, loop, client, dlq
<1>2. /\ log' \in [Partitions -> Seq(Record)]
      /\ \A p \in Partitions : /\ Len(log[p]) \in Nat /\ Len(log'[p]) \in Nat
                               /\ Len(log[p]) <= Len(log'[p])
      /\ \A m \in Message : m.part \in Partitions /\ InLog(m) =>
            InLog(m)' /\ RecordOf(m)' = RecordOf(m)
  BY ProduceKeepsRecords DEF Inv
<1>3. \A m \in Message : m.part \in Partitions /\ InLog(m) =>
            InLog(m)' /\ KindOf(m)' = KindOf(m) /\ KeyOf(m)' = KeyOf(m)
  BY <1>2 DEF KindOf, KeyOf
<1>4. \A m : /\ Publishable(m) => Publishable(m)' /\ KeyOf(m)' = KeyOf(m)
             /\ DeadLetterable(m) => DeadLetterable(m)'
  BY <1>3 DEF Publishable, DeadLetterable
<1>5. \A m \in Message : m.part \in Partitions /\ Settled(m) => Settled(m)'
  BY <1>1, <1>3 DEF Settled, Published
<1>6. TypeOK'
  BY <1>1, <1>2 DEF Inv, TypeOK
<1>7. HandInv'
  BY <1>1, <1>3, <1>4, <1>5 DEF Inv, HandInv
<1>8. WaitInv'
  <2>1. SUFFICES ASSUME pc = "wait", outbox[KeyOf(msg)'] # <<>>
                 PROVE  outbox[KeyOf(msg)'][Len(outbox[KeyOf(msg)'])] = msg
    BY <1>1 DEF WaitInv
  <2>2. KeyOf(msg)' = KeyOf(msg)
    BY <1>1, <1>4, <2>1 DEF Inv, HandInv
  <2>3. QED
    BY <2>1, <2>2 DEF Inv, WaitInv
<1>9. ContentInv'
  BY <1>1, <1>4 DEF Inv, ContentInv
<1>10. OffsetInv'
  <2>1. \A p \in Partitions : committed[p] \in Nat /\ position[p] \in Nat
    BY DEF Inv, TypeOK
  <2>2. QED
    BY <1>1, <1>2, <2>1 DEF Inv, OffsetInv, Running
<1>11. UncommittedIsGivenUp'
  BY <1>1 DEF Inv, UncommittedIsGivenUp, MessageAt
<1>12. CommittedIsSettled'
  <2>1. ASSUME NEW p \in Partitions, NEW o \in 1 .. committed[p]
        PROVE  Settled(MessageAt(p, o))'
    <3>1. MessageAt(p, o) \in Message /\ MessageAt(p, o).part = p
      BY DEF Inv, TypeOK, MessageAt, Message
    <3>2. QED
      BY <1>5, <3>1 DEF Inv, CommittedIsSettled
  <2>2. QED
    BY <1>1, <2>1 DEF CommittedIsSettled
<1>13. QED
  BY <1>6, <1>7, <1>8, <1>9, <1>10, <1>11, <1>12 DEF Inv

-----------------------------------------------------------------------------
(* The invariant is inductive.                                             *)
LEMMA NextInv == Inv /\ [Next]_vars => Inv'
<1> SUFFICES ASSUME Inv, [Next]_vars PROVE Inv'
  OBVIOUS
<1>1. CASE UNCHANGED vars
  <2>1. UNCHANGED <<log, committed, position, pc, msg, attempt, outbox, paused,
                    strays, topic, lostAcks, dlqBuffer, dlqTopic, dlqLost,
                    gaveUp, runs>>
    BY <1>1 DEF vars, broker, loop, client, dlq
  <2>2. TypeOK' /\ WaitInv' /\ OffsetInv' /\ UncommittedIsGivenUp'
    BY <2>1, SameLog
    DEF Inv, TypeOK, WaitInv, OffsetInv, Running, UncommittedIsGivenUp, MessageAt
  <2>3. HandInv' /\ ContentInv'
    BY <2>1, SameLog DEF Inv, HandInv, ContentInv, Settled, Published
  <2>4. CommittedIsSettled'
    BY <2>1, SettledPreserved DEF Published
  <2>5. QED
    BY <2>2, <2>3, <2>4 DEF Inv
<1>2. ASSUME NEW k \in Keys, NEW kind \in Kinds, Produce(k, kind) PROVE Inv'
  BY <1>2, ProduceInv
<1>3. CASE Process
  BY <1>3, PollValidInv, PollRejectedInv, PollRaisesInv, PublishAttemptInv,
     PublishPausedInv, TimeoutInv, CommitInv, DieInv, RestartInv
  DEF Process, Poll, Close
<1>4. CASE PubSub
  BY <1>4, PublishAcceptedInv, PublishAckLostInv, PublishRefusedInv,
     StrayAcceptedInv, StrayDroppedInv DEF PubSub
<1>5. CASE DlqProducer
  BY <1>5, DlqProducerInv
<1>6. CASE Faults
  BY <1>6, CommitFailsInv, DieInv, InterruptInv DEF Faults, Crash
<1>7. QED
  BY <1>1, <1>2, <1>3, <1>4, <1>5, <1>6 DEF Next

THEOREM InvHolds == Spec => []Inv
<1>1. Init => Inv
  BY InitInv
<1>2. Inv /\ [Next]_vars => Inv'
  BY NextInv
<1>3. QED
  BY <1>1, <1>2, PTL DEF Spec

(* Every variable keeps its type: in particular the attempts never exceed  *)
(* max_attempts.                                                           *)
THEOREM TypeCorrect == Spec => []TypeOK
<1>1. Inv => TypeOK
  BY DEF Inv
<1>2. QED
  BY <1>1, InvHolds, PTL

(* Whatever the bridge's group has committed was published, given up after *)
(* the retries, or queued for the DLQ, over any number of crashes.         *)
THEOREM CommittedIsSettledHolds == Spec => []CommittedIsSettled
<1>1. Inv => CommittedIsSettled
  BY DEF Inv
<1>2. QED
  BY <1>1, InvHolds, PTL

(* A running process is ahead of its commits only by what it gave up and   *)
(* the message in hand.                                                    *)
THEOREM UncommittedIsGivenUpHolds == Spec => []UncommittedIsGivenUp
<1>1. Inv => UncommittedIsGivenUp
  BY DEF Inv
<1>2. QED
  BY <1>1, InvHolds, PTL

(* Only validated events reach Pub/Sub, in the queue of their own key, and *)
(* only rejected records reach the DLQ.                                    *)
THEOREM RoutedByValidationHolds == Spec => []RoutedByValidation
<1>1. Inv => RoutedByValidation
  BY DEF Inv, ContentInv, Publishable, DeadLetterable, RoutedByValidation
<1>2. QED
  BY <1>1, InvHolds, PTL

-----------------------------------------------------------------------------
(* Events of one ordering key first reach Pub/Sub in the order of their    *)
(* offsets. The topic alone does not say why: a request may wait in the    *)
(* client, or outlive its process, and land long after it was sent. So the *)
(* invariant says it of every place a request can be.                      *)

(* m is an event of the ordering key of x, at an earlier offset.           *)
Precedes(m, x) ==
    /\ m \in Message /\ m.part = x.part /\ m.off \in 1 .. x.off - 1
    /\ KindOf(m) = "valid" /\ KeyOf(m) = KeyOf(x)

Past(m) == m \in gaveUp \/ Published(m)

(* Nothing x would overtake is still to come.                              *)
Ready(x) == \A m \in Message : Precedes(m, x) => Past(m)

TopicInv ==
    \A k \in Keys : \A j \in 1 .. Len(topic[k]) :
        \A m \in Message : Precedes(m, topic[k][j]) =>
            m \in gaveUp \/ \E i \in 1 .. j - 1 : topic[k][i] = m

QueueInv ==
    \A k \in Keys : \A j \in 1 .. Len(outbox[k]) :
        \A m \in Message : Precedes(m, outbox[k][j]) =>
            Past(m) \/ \E i \in 1 .. j - 1 : outbox[k][i] = m

StraysReady == \A x \in strays : Ready(x)

OrderInv == TopicInv /\ QueueInv /\ StraysReady

(* A step moves no event: what precedes a message of the log stays the     *)
(* same, and what is past stays past.                                      *)
LEMMA StepKeepsRecords ==
    ASSUME Inv, [Next]_vars
    PROVE  \A m \in Message : m.part \in Partitions /\ InLog(m) =>
                KindOf(m)' = KindOf(m) /\ KeyOf(m)' = KeyOf(m)
<1>1. CASE UNCHANGED log
  BY <1>1, SameLog
<1>2. ASSUME NEW k \in Keys, NEW kind \in Kinds, Produce(k, kind)
      PROVE  \A m \in Message : m.part \in Partitions /\ InLog(m) =>
                RecordOf(m)' = RecordOf(m)
  BY <1>2, ProduceKeepsRecords DEF Inv
<1>3. UNCHANGED log \/ \E k \in Keys, kind \in Kinds : Produce(k, kind)
  BY DEF Next, vars, Process, Poll, PollValid, PollRejected, PollRejectedFull,
     PollUndecodable, PublishAttempt, PublishPaused, Timeout, Commit, Close,
     Die, Restart, PubSub, PublishAccepted, PublishAckLost, PublishRefused,
     StrayAccepted, StrayDropped, DlqProducer, DlqDelivered, DlqExpired,
     Faults, CommitFails, Crash, Interrupt, broker
<1>4. QED
  BY <1>1, <1>2, <1>3 DEF KindOf, KeyOf

LEMMA PrecedesStays ==
    ASSUME Inv, [Next]_vars, NEW x, Publishable(x), NEW m \in Message
    PROVE  Precedes(m, x)' <=> Precedes(m, x)
<1>1. x \in Message /\ x.part \in Partitions /\ InLog(x) /\ Len(log[x.part]) \in Nat
  BY DEF Publishable, Inv, TypeOK
<1>2. m.part = x.part /\ m.off \in 1 .. x.off - 1 => InLog(m)
  BY <1>1 DEF InLog, Message
<1>3. KeyOf(x)' = KeyOf(x)
  BY <1>1, StepKeepsRecords
<1>4. m.part = x.part /\ m.off \in 1 .. x.off - 1 =>
        KindOf(m)' = KindOf(m) /\ KeyOf(m)' = KeyOf(m)
  BY <1>1, <1>2, StepKeepsRecords
<1>5. QED
  BY <1>3, <1>4 DEF Precedes

(* What a step does to the topic: nothing, or it appends one request, the  *)
(* oldest in the client's queue of a key or one of a dead process.         *)
LEMMA TopicStep ==
    ASSUME Inv, [Next]_vars
    PROVE  \/ UNCHANGED topic
           \/ \E k \in Keys, x \in Message :
                /\ \/ outbox[k] # <<>> /\ x = Head(outbox[k])
                   \/ x \in strays /\ KeyOf(x) = k
                /\ topic' = [topic EXCEPT ![k] = Append(@, x)]
<1>1. ASSUME NEW k \in Keys, outbox[k] # <<>>
      PROVE  Head(outbox[k]) \in Message
  BY <1>1, HeadOfOutbox DEF Publishable
<1>2. ASSUME NEW x \in strays PROVE x \in Message /\ KeyOf(x) \in Keys
  BY KeyOfPublishable DEF Inv, ContentInv, Publishable
<1>3. CASE PubSub
  BY <1>1, <1>2, <1>3 DEF PubSub, PublishAccepted, PublishAckLost,
     PublishRefused, StrayAccepted, StrayDropped
<1>4. QED
  BY <1>3 DEF Next, vars, Produce, Process, Poll, PollValid, PollRejected,
     PollRejectedFull, PollUndecodable, PublishAttempt, PublishPaused, Timeout,
     Commit, Close, Die, Restart, DlqProducer, DlqDelivered, DlqExpired, Faults,
     CommitFails, Crash, Interrupt, client

(* What a step does to the client's queue of a key.                        *)
LEMMA QueueStep ==
    ASSUME Inv, [Next]_vars, NEW k \in Keys
    PROVE  \/ outbox'[k] = outbox[k]
           \/ outbox'[k] = <<>>
           \/ /\ outbox[k] # <<>> /\ outbox'[k] = Tail(outbox[k])
              /\ topic' = [topic EXCEPT ![k] = Append(@, Head(outbox[k]))]
           \/ /\ pc = "publish" /\ outbox'[k] = Append(outbox[k], msg)
<1>1. outbox \in [Keys -> Seq(Message)]
  BY DEF Inv, TypeOK
<1>2. CASE PubSub
  BY <1>1, <1>2 DEF PubSub, PublishAccepted, PublishAckLost, PublishRefused,
     StrayAccepted, StrayDropped
<1>3. CASE PublishAttempt
  BY <1>1, <1>3 DEF PublishAttempt
<1>4. CASE UNCHANGED outbox
  BY <1>4
<1>5. CASE Die
  BY <1>5 DEF Die
<1>6. QED
  BY <1>2, <1>3, <1>4, <1>5 DEF Next, vars, Produce, Process, Poll, PollValid,
     PollRejected, PollRejectedFull, PollUndecodable, PublishPaused, Timeout,
     Commit, Close, Restart, DlqProducer, DlqDelivered, DlqExpired, Faults,
     CommitFails, Crash, Interrupt, client

(* What a step does to the requests of dead processes: those of the        *)
(* process that dies join them, one of each key.                           *)
LEMMA StraysStep ==
    ASSUME Inv, [Next]_vars, NEW x \in strays'
    PROVE  x \in strays \/ \E k \in Keys : outbox[k] # <<>> /\ x = Head(outbox[k])
BY DEF Next, vars, Produce, Process, Poll, PollValid, PollRejected,
   PollRejectedFull, PollUndecodable, PublishAttempt, PublishPaused, Timeout,
   Commit, Close, Die, Restart, PubSub, PublishAccepted, PublishAckLost,
   PublishRefused, StrayAccepted, StrayDropped, DlqProducer, DlqDelivered,
   DlqExpired, Faults, CommitFails, Crash, Interrupt, client

(* Nothing takes a given-up event off the record.                          *)
LEMMA GaveUpStays ==
    ASSUME [Next]_vars PROVE gaveUp \subseteq gaveUp'
BY DEF Next, vars, Produce, Process, Poll, PollValid, PollRejected,
   PollRejectedFull, PollUndecodable, PublishAttempt, PublishPaused, Timeout,
   AttemptFailed, Commit, Close, Die, Restart, PubSub, PublishAccepted,
   PublishAckLost, PublishRefused, StrayAccepted, StrayDropped, DlqProducer,
   DlqDelivered, DlqExpired, Faults, CommitFails, Crash, Interrupt

LEMMA PastStays ==
    ASSUME Inv, [Next]_vars
    PROVE  \A m : Past(m) => Past(m)'
<1>1. gaveUp \subseteq gaveUp'
  BY GaveUpStays
<1>2. \A m : Published(m) => Published(m)'
  <2>1. CASE UNCHANGED topic
    BY <2>1 DEF Published
  <2>2. ASSUME NEW k \in Keys, NEW x \in Message,
               topic' = [topic EXCEPT ![k] = Append(@, x)]
        PROVE  \A m : Published(m) => Published(m)'
    BY <2>2, AppendPublishes DEF Inv, TypeOK
  <2>3. QED
    BY <2>1, <2>2, TopicStep
<1>3. QED
  BY <1>1, <1>2 DEF Past

(* The message being published overtakes nothing: what its process skipped *)
(* was given up, and what is committed was published or given up.          *)
LEMMA HandReady ==
    ASSUME Inv, pc = "publish" PROVE Publishable(msg) /\ Ready(msg)
<1>1. /\ Publishable(msg) /\ msg \in Message /\ msg.part \in Partitions
      /\ position[msg.part] = msg.off
      /\ committed[msg.part] \in Nat /\ msg.off \in Nat
  BY DEF Inv, HandInv, TypeOK, Message
<1>2. SUFFICES ASSUME NEW m \in Message, Precedes(m, msg) PROVE Past(m)
  BY <1>1 DEF Ready
<1>3. /\ m = MessageAt(msg.part, m.off) /\ m.off \in 1 .. msg.off - 1
      /\ KindOf(m) = "valid" /\ m # msg
  <2>1. m.part = msg.part /\ m.off \in 1 .. msg.off - 1 /\ KindOf(m) = "valid"
    BY <1>2 DEF Precedes
  <2>2. m = [part |-> m.part, off |-> m.off]
    BY DEF Message
  <2>3. QED
    BY <1>1, <2>1, <2>2 DEF MessageAt
<1>4. CASE m.off \in 1 .. committed[msg.part]
  <2>1. Settled(m)
    BY <1>1, <1>3, <1>4 DEF Inv, CommittedIsSettled
  <2>2. QED
    BY <1>3, <2>1 DEF Settled, Past, Rejected
<1>5. CASE m.off \in committed[msg.part] + 1 .. position[msg.part]
  BY <1>1, <1>3, <1>5 DEF Inv, UncommittedIsGivenUp, Past
<1>6. QED
  BY <1>1, <1>3, <1>4, <1>5

(* Everything a request could overtake once it is at the head of the       *)
(* client's queue is past.                                                 *)
LEMMA HeadReady ==
    ASSUME Inv, OrderInv, NEW k \in Keys, outbox[k] # <<>>
    PROVE  Ready(Head(outbox[k]))
<1>1. /\ 1 \in 1 .. Len(outbox[k]) /\ Head(outbox[k]) = outbox[k][1]
  BY HeadOfOutbox
<1>2. ASSUME NEW m \in Message, Precedes(m, outbox[k][1]) PROVE Past(m)
  BY <1>1, <1>2 DEF OrderInv, QueueInv
<1>3. QED
  BY <1>1, <1>2 DEF Ready

LEMMA ReadyStays ==
    ASSUME Inv, [Next]_vars, NEW x, Publishable(x), Ready(x) PROVE Ready(x)'
<1>1. ASSUME NEW m \in Message, Precedes(m, x)' PROVE Past(m)'
  BY <1>1, PrecedesStays, PastStays DEF Ready
<1>2. QED
  BY <1>1 DEF Ready

LEMMA StraysReadyStep ==
    ASSUME Inv, OrderInv, [Next]_vars PROVE StraysReady'
<1>1. SUFFICES ASSUME NEW x \in strays' PROVE Ready(x)'
  BY DEF StraysReady
<1>2. Publishable(x) /\ Ready(x)
  <2>1. CASE x \in strays
    BY <2>1 DEF Inv, ContentInv, OrderInv, StraysReady
  <2>2. ASSUME NEW k \in Keys, outbox[k] # <<>>, x = Head(outbox[k])
        PROVE  Publishable(x) /\ Ready(x)
    BY <2>2, HeadOfOutbox, HeadReady
  <2>3. QED
    BY <2>1, <2>2, StraysStep
<1>3. QED
  BY <1>2, ReadyStays

LEMMA QueueInvStep ==
    ASSUME Inv, OrderInv, [Next]_vars PROVE QueueInv'
<1>1. SUFFICES ASSUME NEW k \in Keys, NEW j \in 1 .. Len(outbox'[k]),
                      NEW m \in Message, Precedes(m, outbox[k][j])'
               PROVE  Past(m)' \/ \E i \in 1 .. j - 1 : outbox'[k][i] = m
  BY DEF QueueInv
<1>2. /\ outbox[k] \in Seq(Message) /\ Len(outbox[k]) \in Nat
      /\ \A i \in 1 .. Len(outbox[k]) : Publishable(outbox[k][i])
  BY DEF Inv, TypeOK, ContentInv
<1>3. ASSUME NEW i \in 1 .. Len(outbox[k]), NEW y, y = outbox[k][i],
             Precedes(m, y)'
      PROVE  Past(m)' \/ \E h \in 1 .. i - 1 : outbox[k][h] = m
  <2>1. Precedes(m, outbox[k][i])
    BY <1>2, <1>3, PrecedesStays
  <2>2. QED
    BY <2>1, PastStays DEF OrderInv, QueueInv
<1>4. CASE outbox'[k] = outbox[k]
  BY <1>1, <1>3, <1>4
<1>5. CASE outbox'[k] = <<>>
  BY <1>5
<1>6. CASE /\ outbox[k] # <<>> /\ outbox'[k] = Tail(outbox[k])
           /\ topic' = [topic EXCEPT ![k] = Append(@, Head(outbox[k]))]
  <2>0. PICK x : x = Head(outbox[k])
    OBVIOUS
  <2>1. /\ x = outbox[k][1] /\ x \in Message
        /\ Len(outbox'[k]) = Len(outbox[k]) - 1
        /\ \A i \in 1 .. Len(outbox[k]) - 1 : outbox'[k][i] = outbox[k][i + 1]
    BY <1>6, <2>0, HeadOfOutbox DEF Publishable
  <2>2. Past(x)'
    BY <1>6, <2>0, <2>1, AppendPublishes DEF Past, Inv, TypeOK
  <2>3. j + 1 \in 1 .. Len(outbox[k]) /\ outbox'[k][j] = outbox[k][j + 1]
    BY <1>2, <2>1
  <2>4. Past(m)' \/ \E h \in 1 .. j : outbox[k][h] = m
    BY <1>1, <1>3, <2>3
  <2>5. ASSUME NEW h \in 1 .. j, outbox[k][h] = m
        PROVE  Past(m)' \/ \E i \in 1 .. j - 1 : outbox'[k][i] = m
    <3>1. CASE h = 1
      BY <2>1, <2>2, <2>5, <3>1
    <3>2. CASE h # 1
      <4>1. h - 1 \in 1 .. j - 1 /\ h - 1 \in 1 .. Len(outbox[k]) - 1
        BY <1>2, <2>1, <3>2
      <4>2. outbox'[k][h - 1] = m
        BY <2>1, <2>5, <4>1
      <4>3. QED
        BY <4>1, <4>2
    <3>3. QED
      BY <3>1, <3>2
  <2>6. QED
    BY <2>4, <2>5
<1>7. CASE pc = "publish" /\ outbox'[k] = Append(outbox[k], msg)
  <2>1. Publishable(msg) /\ Ready(msg) /\ msg \in Message
    BY <1>7, HandReady DEF Publishable
  <2>2. /\ Len(outbox'[k]) = Len(outbox[k]) + 1
        /\ outbox'[k][Len(outbox[k]) + 1] = msg
        /\ \A i \in 1 .. Len(outbox[k]) : outbox'[k][i] = outbox[k][i]
    BY <1>2, <1>7, <2>1
  <2>3. CASE j = Len(outbox[k]) + 1
    <3>1. PICK y : y = msg
      OBVIOUS
    <3>2. Precedes(m, y)' /\ Publishable(y) /\ Ready(y)
      BY <1>1, <2>1, <2>2, <2>3, <3>1
    <3>3. QED
      BY <3>2, ReadyStays DEF Ready
  <2>4. CASE j # Len(outbox[k]) + 1
    <3>1. j \in 1 .. Len(outbox[k]) /\ outbox'[k][j] = outbox[k][j]
      BY <1>2, <2>2, <2>4
    <3>2. PICK y : y = outbox[k][j]
      OBVIOUS
    <3>3. Precedes(m, y)'
      BY <1>1, <3>1, <3>2
    <3>4. Past(m)' \/ \E i \in 1 .. j - 1 : outbox[k][i] = m
      BY <1>3, <3>1, <3>2, <3>3
    <3>5. QED
      BY <1>2, <2>2, <3>1, <3>4
  <2>5. QED
    BY <2>3, <2>4
<1>8. QED
  BY <1>4, <1>5, <1>6, <1>7, QueueStep

LEMMA TopicInvStep ==
    ASSUME Inv, OrderInv, [Next]_vars PROVE TopicInv'
<1>1. SUFFICES ASSUME NEW k \in Keys, NEW j \in 1 .. Len(topic'[k]),
                      NEW m \in Message, Precedes(m, topic[k][j])'
               PROVE  m \in gaveUp' \/ \E i \in 1 .. j - 1 : topic'[k][i] = m
  BY DEF TopicInv
<1>2. /\ topic[k] \in Seq(Message) /\ Len(topic[k]) \in Nat
      /\ \A i \in 1 .. Len(topic[k]) : Publishable(topic[k][i])
  BY DEF Inv, TypeOK, ContentInv
<1>3. gaveUp \subseteq gaveUp'
  BY GaveUpStays
<1>4. ASSUME NEW i \in 1 .. Len(topic[k]), NEW y, y = topic[k][i],
             Precedes(m, y)'
      PROVE  m \in gaveUp' \/ \E h \in 1 .. i - 1 : topic[k][h] = m
  <2>1. Precedes(m, topic[k][i])
    BY <1>2, <1>4, PrecedesStays
  <2>2. QED
    BY <1>3, <2>1 DEF OrderInv, TopicInv
<1>5. CASE topic'[k] = topic[k]
  BY <1>1, <1>4, <1>5
<1>6. ASSUME NEW x \in Message, topic'[k] = Append(topic[k], x),
             \/ outbox[k] # <<>> /\ x = Head(outbox[k])
             \/ x \in strays /\ KeyOf(x) = k
      PROVE  m \in gaveUp' \/ \E i \in 1 .. j - 1 : topic'[k][i] = m
  <2>1. Publishable(x) /\ Ready(x) /\ KeyOf(x) = k
    BY <1>6, HeadOfOutbox, HeadReady DEF Inv, ContentInv, OrderInv, StraysReady
  <2>2. /\ Len(topic'[k]) = Len(topic[k]) + 1
        /\ topic'[k][Len(topic[k]) + 1] = x
        /\ \A i \in 1 .. Len(topic[k]) : topic'[k][i] = topic[k][i]
    BY <1>2, <1>6
  <2>3. CASE j = Len(topic[k]) + 1
    <3>1. Precedes(m, x)
      BY <1>1, <2>1, <2>2, <2>3, PrecedesStays
    <3>2. Past(m) /\ KeyOf(m) = k
      BY <2>1, <3>1 DEF Ready, Precedes
    <3>3. CASE Published(m)
      <4>1. PICK l \in Keys : \E i \in 1 .. Len(topic[l]) : topic[l][i] = m
        BY <3>3 DEF Published
      <4>2. l = k
        BY <3>2, <4>1 DEF Inv, ContentInv
      <4>3. PICK i \in 1 .. Len(topic[k]) : topic[k][i] = m
        BY <4>1, <4>2
      <4>4. i \in 1 .. j - 1 /\ topic'[k][i] = m
        BY <1>2, <2>2, <2>3, <4>3
      <4>5. QED
        BY <4>4
    <3>4. QED
      BY <1>3, <3>2, <3>3 DEF Past
  <2>4. CASE j # Len(topic[k]) + 1
    <3>1. j \in 1 .. Len(topic[k]) /\ topic'[k][j] = topic[k][j]
      BY <1>2, <2>2, <2>4
    <3>2. QED
      BY <1>1, <1>2, <1>4, <2>2, <3>1
  <2>5. QED
    BY <2>3, <2>4
<1>7. QED
  <2>1. topic \in [Keys -> Seq(Message)]
    BY DEF Inv, TypeOK
  <2>2. ASSUME NEW l \in Keys, NEW x \in Message,
               topic' = [topic EXCEPT ![l] = Append(@, x)]
        PROVE  topic'[k] = IF l = k THEN Append(topic[k], x) ELSE topic[k]
    BY <2>1, <2>2
  <2>3. QED
    BY <1>5, <1>6, <2>2, TopicStep

LEMMA OrderHolds == Spec => [](Inv /\ OrderInv)
<1>1. Init => OrderInv
  BY DEF Init, OrderInv, TopicInv, QueueInv, StraysReady
<1>2. Inv /\ OrderInv /\ [Next]_vars => OrderInv'
  BY TopicInvStep, QueueInvStep, StraysReadyStep DEF OrderInv
<1>3. QED
  BY <1>1, <1>2, InitInv, NextInv, PTL DEF Spec

(* An event first reaches Pub/Sub before every later event of its ordering *)
(* key, unless the bridge gave it up.                                      *)
THEOREM InOrderUnlessGivenUpHolds == Spec => []InOrderUnlessGivenUp
<1>1. Inv /\ OrderInv => InOrderUnlessGivenUp
  <2>1. SUFFICES ASSUME Inv, OrderInv, NEW k \in Keys, NEW j \in 1 .. Len(topic[k]),
                        NEW o \in 1 .. topic[k][j].off - 1,
                        KindOf(MessageAt(topic[k][j].part, o)) = "valid",
                        KeyOf(MessageAt(topic[k][j].part, o)) = k
                 PROVE  \/ MessageAt(topic[k][j].part, o) \in gaveUp
                        \/ \E i \in 1 .. j - 1 :
                            topic[k][i] = MessageAt(topic[k][j].part, o)
    BY DEF InOrderUnlessGivenUp
  <2>2. PICK x, m : x = topic[k][j] /\ m = MessageAt(x.part, o)
    OBVIOUS
  <2>3. x \in Message /\ x.part \in Partitions /\ KeyOf(x) = k
    BY <2>1, <2>2 DEF Inv, ContentInv, Publishable
  <2>4. m \in Message /\ m.part = x.part /\ m.off = o
    BY <2>1, <2>2, <2>3 DEF MessageAt, Message
  <2>5. Precedes(m, x)
    BY <2>1, <2>2, <2>3, <2>4 DEF Precedes
  <2>6. QED
    BY <2>1, <2>2, <2>4, <2>5 DEF OrderInv, TopicInv
<1>2. QED
  BY <1>1, OrderHolds, PTL

-----------------------------------------------------------------------------
(* The bridge implements the contract of a manual-commit consumer.         *)

(* The three kinds of steps the contract knows.                            *)
LEMMA ContractDeliver ==
    ASSUME NEW m \in Message, m.part \in Partitions, InLog(m),
           UNCHANGED <<log, committed, Released>>, Delivered' = Delivered \cup {m}
    PROVE  Contract!Next
<1>1. m = [part |-> m.part, off |-> m.off] /\ m.off \in 1 .. Len(log[m.part])
  BY DEF Message, InLog
<1>2. Contract!Deliver(m)
  BY <1>1 DEF Contract!Deliver, Contract!InLog
<1>3. QED
  BY <1>1, <1>2 DEF Contract!Next

LEMMA ContractRelease ==
    ASSUME NEW m \in Message, m.part \in Partitions, InLog(m),
           UNCHANGED <<log, committed, Delivered>>, Released' = Released \cup {m}
    PROVE  Contract!Next
<1>1. m = [part |-> m.part, off |-> m.off] /\ m.off \in 1 .. Len(log[m.part])
  BY DEF Message, InLog
<1>2. Contract!Release(m)
  BY <1>1 DEF Contract!Release, Contract!InLog
<1>3. QED
  BY <1>1, <1>2 DEF Contract!Next

LEMMA ContractAcknowledge ==
    ASSUME Inv, pc = "commit", UNCHANGED <<log, Delivered, Released>>,
           committed' = [committed EXCEPT ![msg.part] = msg.off]
    PROVE  Contract!Next
<1>1. /\ msg.part \in Partitions /\ msg.off \in 1 .. Len(log[msg.part])
      /\ committed[msg.part] < msg.off
  BY DEF Inv, HandInv, InLog
<1>2. \A o \in 1 .. msg.off : MessageAt(msg.part, o) \in Delivered \cup Released
  BY SettledUpToHand DEF Settled, Delivered, Released, Published, PublishedMessages
<1>3. Contract!Acknowledge(msg.part, msg.off)
  BY <1>1, <1>2 DEF Contract!Acknowledge, Contract!SettledUpTo, MessageAt
<1>4. QED
  BY <1>1, <1>3 DEF Contract!Next

LEMMA ContractStep == Inv /\ [Next]_vars => [Contract!Next]_(Contract!vars)
<1> SUFFICES ASSUME Inv, [Next]_vars
             PROVE  Contract!Next \/ UNCHANGED <<log, committed, Delivered, Released>>
  BY DEF Contract!vars
<1> USE DEF Delivered, Released
<1>1. CASE UNCHANGED vars
  BY <1>1 DEF vars, broker, client, dlq, PublishedMessages
<1>2. ASSUME NEW k \in Keys, NEW kind \in Kinds, Produce(k, kind)
      PROVE  Contract!Next
  <2>1. PartitionOf[k] \in Partitions /\ [key |-> k, kind |-> kind] \in Record
    BY KeysAssumption, KindsAssumption DEF Record
  <2>2. UNCHANGED <<Delivered, Released, committed>>
    BY <1>2 DEF Produce, client, dlq, PublishedMessages
  <2>3. Contract!Extend(PartitionOf[k])
    BY <1>2, <2>1, <2>2 DEF Produce, Contract!Extend
  <2>4. QED
    BY <2>1, <2>3 DEF Contract!Next
<1>3. ASSUME NEW p \in Partitions, Poll(p)
      PROVE  Contract!Next \/ UNCHANGED <<log, committed, Delivered, Released>>
  <2>1. CASE PollRejected(p)
    <3>1. PICK n : n = NextMessage(p)
      OBVIOUS
    <3>2. n \in Message /\ n.part \in Partitions /\ InLog(n)
      BY <2>1, <3>1, FetchNext DEF PollRejected
    <3>3. /\ UNCHANGED <<log, committed, Delivered>>
          /\ Released' = Released \cup {n}
      BY <2>1, <3>1 DEF PollRejected, broker, client, PublishedMessages
    <3>4. QED
      BY <3>2, <3>3, ContractRelease
  <2>2. CASE PollValid(p) \/ PollRejectedFull(p) \/ PollUndecodable(p)
    BY <2>2 DEF PollValid, PollRejectedFull, PollUndecodable, broker, client, dlq,
       PublishedMessages
  <2>3. QED
    BY <1>3, <2>1, <2>2 DEF Poll
<1>4. ASSUME NEW n, AttemptFailed(n), pc \in {"publish", "wait"},
             UNCHANGED <<log, committed, topic, dlq>>
      PROVE  Contract!Next \/ UNCHANGED <<log, committed, Delivered, Released>>
  <2>1. PICK m : m = msg
    OBVIOUS
  <2>2. m \in Message /\ m.part \in Partitions /\ InLog(m)
    BY <1>4, <2>1 DEF Inv, HandInv
  <2>3. UNCHANGED <<log, committed, Delivered>>
    BY <1>4 DEF dlq, PublishedMessages
  <2>4. gaveUp' = gaveUp \/ gaveUp' = gaveUp \cup {m}
    BY <1>4, <2>1 DEF AttemptFailed
  <2>5. UNCHANGED Released \/ Released' = Released \cup {m}
    BY <1>4, <2>4 DEF dlq
  <2>6. QED
    BY <2>2, <2>3, <2>5, ContractRelease
<1>5. CASE PublishAttempt
  BY <1>5 DEF PublishAttempt, broker, dlq, PublishedMessages
<1>6. CASE PublishPaused \/ Timeout
  BY <1>4, <1>6 DEF PublishPaused, Timeout, broker, client
<1>7. CASE Commit
  BY <1>7, ContractAcknowledge DEF Commit, CommitTo, client, dlq, PublishedMessages
<1>8. CASE CommitFails
  BY <1>8, ContractAcknowledge
  DEF CommitFails, CommitTo, client, dlq, PublishedMessages
<1>9. CASE Die
  BY <1>9 DEF Die, broker, PublishedMessages
<1>10. CASE Restart \/ Interrupt
  BY <1>10 DEF Restart, Interrupt, broker, client, dlq, PublishedMessages
<1>11. ASSUME NEW k \in Keys, NEW m, Publishable(m), KeyOf(m) = k,
              topic' = [topic EXCEPT ![k] = Append(@, m)],
              UNCHANGED <<broker, dlq, gaveUp>>
       PROVE  Contract!Next
  <2>1. m \in Message /\ m.part \in Partitions /\ InLog(m)
    BY <1>11 DEF Publishable
  <2>2. \A x : Published(x)' <=> x = m \/ Published(x)
    <3>1. topic \in [Keys -> Seq(Message)]
      BY DEF Inv, TypeOK
    <3>2. /\ Published(m)'
          /\ \A x : Published(x) => Published(x)'
          /\ \A x : Published(x)' => x = m \/ Published(x)
      BY <1>11, <2>1, <3>1, AppendPublishes
    <3>3. QED
      BY <3>2
  <2>3. \A x : /\ x \in PublishedMessages <=> Published(x)
               /\ x \in PublishedMessages' <=> Published(x)'
    BY DEF PublishedMessages, Published
  <2>4. PublishedMessages' = PublishedMessages \cup {m}
    BY <2>2, <2>3
  <2>5. UNCHANGED <<log, committed, Released>> /\ Delivered' = Delivered \cup {m}
    BY <1>11, <2>4 DEF broker, dlq
  <2>6. QED
    BY <2>1, <2>5, ContractDeliver
<1>12. ASSUME NEW k \in Keys, PublishAccepted(k) \/ PublishAckLost(k)
       PROVE  Contract!Next
  <2>1. PICK h : h = Head(outbox[k])
    OBVIOUS
  <2>2. outbox[k] # <<>> /\ topic' = [topic EXCEPT ![k] = Append(@, h)]
    BY <1>12, <2>1 DEF PublishAccepted, PublishAckLost
  <2>3. Publishable(h) /\ KeyOf(h) = k
    BY <2>1, <2>2, HeadOfOutbox
  <2>4. QED
    BY <1>11, <1>12, <2>2, <2>3 DEF PublishAccepted, PublishAckLost
<1>13. ASSUME NEW k \in Keys, PublishRefused(k)
       PROVE  Contract!Next \/ UNCHANGED <<log, committed, Delivered, Released>>
  <2>1. UNCHANGED <<log, committed, topic, dlq>>
    BY <1>13 DEF PublishRefused, broker
  <2>2. CASE pc = "wait" /\ KeyOf(msg) = k
    BY <1>4, <1>13, <2>1, <2>2 DEF PublishRefused
  <2>3. CASE ~(pc = "wait" /\ KeyOf(msg) = k)
    BY <1>13, <2>1, <2>3 DEF PublishRefused, dlq, PublishedMessages
  <2>4. QED
    BY <2>2, <2>3
<1>14. ASSUME NEW m \in strays, StrayAccepted(m)
       PROVE  Contract!Next
  <2>1. PICK k : k = KeyOf(m)
    OBVIOUS
  <2>2. Publishable(m) /\ k \in Keys
    BY <2>1, KeyOfPublishable DEF Inv, ContentInv
  <2>3. topic' = [topic EXCEPT ![k] = Append(@, m)]
    BY <1>14, <2>1 DEF StrayAccepted
  <2>4. QED
    BY <1>11, <1>14, <2>1, <2>2, <2>3 DEF StrayAccepted
<1>15. ASSUME NEW m \in strays, StrayDropped(m)
       PROVE  UNCHANGED <<log, committed, Delivered, Released>>
  BY <1>15 DEF StrayDropped, broker, dlq, PublishedMessages
<1>16. ASSUME NEW m \in dlqBuffer, DlqDelivered(m)
       PROVE  Contract!Next
  <2>1. m \in Message /\ m.part \in Partitions /\ InLog(m)
    BY DEF Inv, ContentInv, DeadLetterable
  <2>2. UNCHANGED <<log, committed, topic, gaveUp, dlqLost>>
    BY <1>16 DEF DlqDelivered, broker, client
  <2>3. Delivered' = Delivered \cup {m} /\ UNCHANGED Released
    BY <1>16, <2>2 DEF DlqDelivered, PublishedMessages
  <2>4. QED
    BY <2>1, <2>2, <2>3, ContractDeliver
<1>17. ASSUME NEW m \in dlqBuffer, DlqExpired(m)
       PROVE  UNCHANGED <<log, committed, Delivered, Released>>
  BY <1>17 DEF DlqExpired, broker, client, PublishedMessages
<1>18. CASE Next
  BY <1>2, <1>3, <1>5, <1>6, <1>7, <1>8, <1>9, <1>10, <1>12, <1>13, <1>14,
     <1>15, <1>16, <1>17, <1>18
  DEF Next, Process, PubSub, DlqProducer, Faults, Crash, Close
<1>19. QED
  BY <1>1, <1>18

(* Every behaviour of the bridge is a behaviour of the contract: nothing   *)
(* is delivered that the log does not hold, offsets are acknowledged only  *)
(* over settled records, and neither ever moves back.                      *)
THEOREM ImplementsContract == Spec => ContractSpec
<1>1. Init => Contract!Init
  BY DEF Init, Contract!Init, Delivered, Released, PublishedMessages
<1>2. Inv /\ [Next]_vars => [Contract!Next]_(Contract!vars)
  BY ContractStep
<1>3. QED
  BY <1>1, <1>2, InvHolds, PTL DEF Spec, ContractSpec, Contract!Spec
=============================================================================
