------------------------ MODULE StreamingPipelineProofs ------------------------
(***************************************************************************)
(* What holds of the streaming pipeline for every set of events, every     *)
(* window and lateness, and every bound: which rows Bronze can have, which *)
(* events are dropped, and under which delays a MERGE leaves none behind.  *)
(***************************************************************************)
EXTENDS StreamingPipeline, TLAPS

(* A stopped job holds nothing. What is on its way to Bronze is marked as  *)
(* seen until its window is gone.                                          *)
StateInv ==
    /\ job = "stopped" => seen = {} /\ staged = {}
    /\ \A e \in staged : e \in seen \/ ExpiredAt(e, wm)

(* The row an event may still get in this job is spent once the event is   *)
(* staged: it is in seen, or too late.                                     *)
Spent(e) ==
    IF job = "running" /\ (e \in seen \/ ExpiredAt(e, wm)) THEN 1 ELSE 0

OnTheWay(e) == IF e \in staged THEN 1 ELSE 0

CopiesInv ==
    \A e \in Events : bronze[e] + OnTheWay(e) <= stops + retries[e] + Spent(e)

(* The watermark is behind everything the subscription holds.              *)
WatermarkInv ==
    /\ wm <= now
    /\ \A m \in pending : wm <= m.pub

Inv == TypeOK /\ StateInv /\ CopiesInv /\ WatermarkInv /\ DroppedWasLate

-----------------------------------------------------------------------------
(* A moment lies before the end of its window.                             *)
LEMMA BeforeWindowEnd ==
    ASSUME NEW t \in Nat, NEW W \in Nat \ {0}
    PROVE  /\ (t \div W + 1) * W \in Nat
           /\ t < (t \div W + 1) * W
  OBVIOUS

LEMMA WindowEndType ==
    ASSUME TypeOK, NEW e \in Events
    PROVE  WindowEnd(e) \in Nat /\ eventTime[e] < WindowEnd(e)
<1>1. eventTime[e] \in Nat /\ Window \in Nat \ {0}
  BY BoundsAssumption DEF TypeOK
<1> QED
  BY <1>1, BeforeWindowEnd DEF WindowEnd

(* A window that is gone stays gone.                                       *)
LEMMA ExpiredStays ==
    ASSUME TypeOK, NEW e \in Events, NEW v \in Nat, NEW w \in Nat, v <= w,
           ExpiredAt(e, v)
    PROVE  ExpiredAt(e, w)
  BY WindowEndType, BoundsAssumption DEF ExpiredAt

(* No step changes when an event happened.                                 *)
LEMMA EventTimeStays ==
    ASSUME [Next]_vars
    PROVE  eventTime' = eventTime
  BY DEF Next, Read, Write, vars, source, Tick, Publish, AdvanceWatermark,
         ReadMalformed, ReadUntimed, ReadLate, ReadDuplicate, ReadNew, Insert,
         InsertRepeated, InsertRefused, Drain, Cancel, Launch, Merge

-----------------------------------------------------------------------------
LEMMA InitInv ==
    ASSUME Init
    PROVE  Inv
<1>1. TypeOK
  BY BoundsAssumption DEF Init, TypeOK
<1>2. CopiesInv
  <2>1. \A e \in Events : Spent(e) \in {0, 1}
    BY DEF Spent
  <2>2. \A e \in Events : OnTheWay(e) = 0
    BY DEF Init, OnTheWay
  <2> SUFFICES ASSUME NEW e \in Events
               PROVE  bronze[e] + OnTheWay(e) <= stops + retries[e] + Spent(e)
    BY DEF CopiesInv
  <2>3. bronze[e] = 0 /\ stops = 0 /\ retries[e] = 0
    BY DEF Init
  <2> QED
    BY <2>1, <2>2, <2>3
<1> QED
  BY <1>1, <1>2 DEF Init, Inv, StateInv, WatermarkInv, DroppedWasLate

LEMMA TypeStays ==
    ASSUME TypeOK, [Next]_vars
    PROVE  TypeOK'
<1> USE BoundsAssumption
<1>1. CASE Tick
  BY <1>1 DEF Tick, TypeOK, source, input, ends, dedup, sink
<1>2. ASSUME NEW e \in Events, Publish(e)
      PROVE  TypeOK'
  <2>1. [event |-> e, copy |-> published[e] + 1, pub |-> now] \in Message
    BY <1>2 DEF Publish, TypeOK, Message
  <2>2. /\ published' \in [Events -> 0 .. MaxCopies]
        /\ pending' \subseteq Message /\ failing' \subseteq pending'
    BY <1>2, <2>1 DEF Publish, TypeOK
  <2> QED
    BY <1>2, <2>2 DEF Publish, TypeOK, clock, ends, dedup, sink
<1>3. CASE AdvanceWatermark
  BY <1>3 DEF AdvanceWatermark, TypeOK, clock, source, input, ends, sink
<1>4. ASSUME NEW m \in pending, Read(m)
      PROVE  TypeOK'
  <2>1. m.event \in Events
    BY DEF TypeOK, Message
  <2>2. CASE ReadMalformed(m)
    BY <2>2 DEF ReadMalformed, Take, TypeOK, clock, source, ends, dedup, sink
  <2>3. CASE ReadUntimed(m)
    <3>1. pending' = pending /\ failing' \subseteq pending
      BY <2>3 DEF ReadUntimed, TypeOK
    <3> QED
      BY <2>3, <3>1 DEF ReadUntimed, TypeOK, clock, source, ends, dedup, sink
  <2>4. CASE ReadLate(m)
    BY <2>4 DEF ReadLate, Take, TypeOK, clock, source, ends, dedup, sink
  <2>5. CASE ReadDuplicate(m)
    BY <2>5 DEF ReadDuplicate, Take, TypeOK, clock, source, ends, dedup, sink
  <2>6. CASE ReadNew(m)
    BY <2>6 DEF ReadNew, Take, TypeOK, clock, source, ends, sink
  <2> QED
    BY <1>4, <2>2, <2>3, <2>4, <2>5, <2>6 DEF Read
<1>5. ASSUME NEW e \in staged, Write(e)
      PROVE  TypeOK'
  <2>1. e \in Events /\ e \in Timed
    BY DEF TypeOK, Timed
  <2>2. CASE Insert(e)
    BY <2>1, <2>2 DEF Insert, TypeOK, clock, source, input, ends
  <2>3. CASE InsertRepeated(e)
    BY <2>1, <2>3 DEF InsertRepeated, TypeOK, clock, source, input, ends, dedup
  <2>4. CASE InsertRefused(e)
    BY <2>1, <2>4 DEF InsertRefused, TypeOK, clock, source, input, ends, sink
  <2> QED
    BY <1>5, <2>2, <2>3, <2>4 DEF Write
<1>6. CASE Drain
  BY <1>6 DEF Drain, Stop, TypeOK, clock, source, sink
<1>7. CASE Cancel
  BY <1>7 DEF Cancel, Stop, TypeOK, clock, source, sink
<1>8. CASE Launch
  BY <1>8 DEF Launch, TypeOK, clock, source, input, ends, dedup, sink
<1>9. CASE Merge
  <2>1. \A e \in Events : Inserted(e) \in Nat
    BY DEF Inserted, SourceRows
  <2> QED
    BY <1>9, <2>1 DEF Merge, TypeOK, source, input, ends, dedup, sink
<1>10. CASE UNCHANGED vars
  BY <1>10 DEF vars, TypeOK, clock, source, input, ends, dedup, sink
<1> QED
  BY <1>1, <1>2, <1>3, <1>4, <1>5, <1>6, <1>7, <1>8, <1>9, <1>10 DEF Next

-----------------------------------------------------------------------------
(* The steps that touch neither the state of the job nor the rows.         *)
Quiet == UNCHANGED <<job, wm, seen, staged, bronze, stops, retries, eventTime>>

LEMMA QuietSteps ==
    ASSUME NEW m \in pending,
           \/ Tick
           \/ \E e \in Events : Publish(e)
           \/ ReadMalformed(m)
           \/ ReadUntimed(m)
           \/ ReadLate(m)
           \/ ReadDuplicate(m)
           \/ Merge
           \/ UNCHANGED vars
    PROVE  Quiet
  BY DEF Quiet, Tick, Publish, ReadMalformed, ReadUntimed, ReadLate, ReadDuplicate,
         Merge, Take, vars, source, ends, dedup, sink

(* The same for the steps that read no message.                            *)
LEMMA QuietClock ==
    ASSUME Tick \/ (\E e \in Events : Publish(e)) \/ Merge \/ UNCHANGED vars
    PROVE  Quiet
  BY DEF Quiet, Tick, Publish, Merge, vars, source, ends, dedup, sink

LEMMA QuietKeeps ==
    ASSUME StateInv, CopiesInv, Quiet
    PROVE  StateInv' /\ CopiesInv'
<1>1. \A e \in Events : ExpiredAt(e, wm)' <=> ExpiredAt(e, wm)
  BY DEF Quiet, ExpiredAt, WindowEnd
<1>2. \A e \in Events : Spent(e)' = Spent(e) /\ OnTheWay(e)' = OnTheWay(e)
  BY <1>1 DEF Quiet, Spent, OnTheWay
<1>3. CopiesInv'
  BY <1>2 DEF Quiet, CopiesInv
<1>4. StateInv'
  BY DEF Quiet, StateInv, ExpiredAt, WindowEnd
<1> QED
  BY <1>3, <1>4

LEMMA StateStays ==
    ASSUME Inv, [Next]_vars
    PROVE  StateInv'
<1>1. TypeOK /\ StateInv /\ CopiesInv
  BY DEF Inv
<1>2. eventTime' = eventTime
  BY EventTimeStays
<1>3. \A e : ExpiredAt(e, wm)' <=> ExpiredAt(e, wm')
  BY <1>2 DEF ExpiredAt, WindowEnd
<1>4. \A e \in staged : e \in Events
  BY <1>1 DEF TypeOK, Timed
<1>5. CASE Tick \/ (\E e \in Events : Publish(e)) \/ Merge \/ UNCHANGED vars
  BY <1>1, <1>5, QuietClock, QuietKeeps
<1>6. CASE AdvanceWatermark
  <2>1. PICK w \in wm + 1 .. now : wm' = w /\ seen' = seen \ Collected(w)
    BY <1>6 DEF AdvanceWatermark
  <2>2. staged' = staged /\ job' = "running"
    BY <1>6 DEF AdvanceWatermark
  <2>3. wm \in Nat /\ w \in Nat /\ wm <= w
    BY <1>1 DEF TypeOK
  <2>4. \A e \in staged : e \in seen' \/ ExpiredAt(e, wm')
    BY <1>1, <1>4, <2>1, <2>3, ExpiredStays DEF StateInv, Collected
  <2> QED
    BY <1>3, <2>2, <2>4 DEF StateInv
<1>7. ASSUME NEW m \in pending, Read(m)
      PROVE  StateInv'
  <2>1. CASE ReadNew(m)
    <3>1. /\ job' = "running" /\ wm' = wm
          /\ seen' = seen \cup {m.event} /\ staged' = staged \cup {m.event}
      BY <2>1 DEF ReadNew, Take
    <3> QED
      BY <1>1, <1>3, <3>1 DEF StateInv
  <2>2. CASE ~ReadNew(m)
    BY <1>1, <1>7, <2>2, QuietSteps, QuietKeeps DEF Read
  <2> QED
    BY <2>1, <2>2
<1>8. ASSUME NEW e \in staged, Write(e)
      PROVE  StateInv'
  <2>1. staged' \subseteq staged /\ UNCHANGED <<seen, wm, job>>
    BY <1>8 DEF Write, Insert, InsertRepeated, InsertRefused, dedup
  <2> QED
    BY <1>1, <1>3, <2>1 DEF StateInv
<1>9. CASE Drain \/ Cancel
  BY <1>9 DEF Drain, Cancel, Stop, StateInv
<1>10. CASE Launch
  BY <1>1, <1>10 DEF Launch, StateInv, dedup
<1> QED
  BY <1>5, <1>6, <1>7, <1>8, <1>9, <1>10 DEF Next

LEMMA CopiesStay ==
    ASSUME Inv, [Next]_vars
    PROVE  CopiesInv'
<1>1. TypeOK /\ StateInv /\ CopiesInv
  BY DEF Inv
<1>2. TypeOK' /\ StateInv'
  BY <1>1, TypeStays, StateStays
<1>3. eventTime' = eventTime
  BY EventTimeStays
<1> SUFFICES ASSUME NEW e \in Events
             PROVE  bronze'[e] + OnTheWay(e)' <= stops' + retries'[e] + Spent(e)'
  BY DEF CopiesInv
<1>4. /\ bronze[e] \in Nat /\ stops \in Nat /\ retries[e] \in Nat
      /\ bronze[e] + OnTheWay(e) <= stops + retries[e] + Spent(e)
  BY <1>1 DEF TypeOK, CopiesInv
<1>5. /\ OnTheWay(e) \in {0, 1} /\ Spent(e) \in {0, 1}
      /\ OnTheWay(e)' \in {0, 1} /\ Spent(e)' \in {0, 1}
  BY DEF OnTheWay, Spent
<1>6. ExpiredAt(e, wm)' <=> ExpiredAt(e, wm')
  BY <1>3 DEF ExpiredAt, WindowEnd
<1>7. ASSUME UNCHANGED <<bronze, stops, retries>>,
             OnTheWay(e)' - OnTheWay(e) <= Spent(e)' - Spent(e)
      PROVE  bronze'[e] + OnTheWay(e)' <= stops' + retries'[e] + Spent(e)'
  BY <1>4, <1>5, <1>7
<1>8. CASE Tick \/ (\E d \in Events : Publish(d)) \/ Merge \/ UNCHANGED vars
  BY <1>1, <1>8, QuietClock, QuietKeeps DEF CopiesInv
<1>9. CASE AdvanceWatermark
  <2>1. PICK w \in wm + 1 .. now : wm' = w /\ seen' = seen \ Collected(w)
    BY <1>9 DEF AdvanceWatermark
  <2>2. /\ staged' = staged /\ job' = job
        /\ UNCHANGED <<bronze, stops, retries>>
    BY <1>9 DEF AdvanceWatermark, ends, sink
  <2>3. wm \in Nat /\ w \in Nat /\ wm <= w
    BY <1>1 DEF TypeOK
  <2>4. e \in seen \/ ExpiredAt(e, wm) => e \in seen' \/ ExpiredAt(e, wm')
    BY <1>1, <2>1, <2>3, ExpiredStays DEF Collected
  <2>5. Spent(e) <= Spent(e)'
    BY <1>5, <1>6, <2>2, <2>4 DEF Spent
  <2>6. OnTheWay(e)' = OnTheWay(e)
    BY <2>2 DEF OnTheWay
  <2> QED
    BY <1>5, <1>7, <2>2, <2>5, <2>6
<1>10. ASSUME NEW m \in pending, Read(m)
       PROVE  bronze'[e] + OnTheWay(e)' <= stops' + retries'[e] + Spent(e)'
  <2>1. CASE ReadNew(m)
    <3>1. /\ job = "running" /\ job' = "running" /\ wm' = wm
          /\ seen' = seen \cup {m.event} /\ staged' = staged \cup {m.event}
          /\ m.event \notin seen /\ ~ExpiredAt(m.event, wm)
          /\ UNCHANGED <<bronze, stops, retries>>
      BY <2>1 DEF ReadNew, Take, ends, sink
    <3>2. CASE e = m.event
      <4>1. Spent(e) = 0 /\ Spent(e)' = 1
        BY <1>6, <3>1, <3>2 DEF Spent
      <4> QED
        BY <1>5, <1>7, <3>1, <4>1
    <3>3. CASE e # m.event
      <4>1. OnTheWay(e)' = OnTheWay(e)
        BY <3>1, <3>3 DEF OnTheWay
      <4>2. Spent(e)' = Spent(e)
        BY <1>6, <3>1, <3>3 DEF Spent
      <4> QED
        BY <1>5, <1>7, <3>1, <4>1, <4>2
    <3> QED
      BY <3>2, <3>3
  <2>2. CASE ~ReadNew(m)
    BY <1>1, <1>10, <2>2, QuietSteps, QuietKeeps DEF Read, CopiesInv
  <2> QED
    BY <2>1, <2>2
<1>11. ASSUME NEW d \in staged, Write(d)
       PROVE  bronze'[e] + OnTheWay(e)' <= stops' + retries'[e] + Spent(e)'
  <2>1. d \in Events /\ UNCHANGED <<seen, wm, job, stops>>
    BY <1>1, <1>11
    DEF TypeOK, Timed, Write, Insert, InsertRepeated, InsertRefused, dedup, ends
  <2>2. Spent(e)' = Spent(e)
    BY <1>6, <2>1 DEF Spent
  <2>3. CASE Insert(d)
    <3>1. /\ staged' = staged \ {d} /\ retries' = retries
          /\ bronze' = [bronze EXCEPT ![d] = @ + 1]
      BY <2>3 DEF Insert
    <3>2. bronze'[e] + OnTheWay(e)' = bronze[e] + OnTheWay(e)
      BY <1>1, <1>4, <2>1, <3>1 DEF OnTheWay, TypeOK
    <3> QED
      BY <1>4, <2>1, <2>2, <3>1, <3>2
  <2>4. CASE InsertRepeated(d)
    <3>1. /\ staged' = staged /\ retries' = [retries EXCEPT ![d] = @ + 1]
          /\ bronze' = [bronze EXCEPT ![d] = @ + 1]
      BY <2>4 DEF InsertRepeated, dedup
    <3>2. OnTheWay(e)' = OnTheWay(e)
      BY <3>1 DEF OnTheWay
    <3>3. CASE e = d
      <4>1. bronze'[e] = bronze[e] + 1 /\ retries'[e] = retries[e] + 1
        BY <1>1, <2>1, <3>1, <3>3 DEF TypeOK
      <4> QED
        BY <1>4, <1>5, <2>1, <2>2, <3>2, <4>1
    <3>4. CASE e # d
      <4>1. bronze'[e] = bronze[e] /\ retries'[e] = retries[e]
        BY <1>1, <2>1, <3>1, <3>4 DEF TypeOK
      <4> QED
        BY <1>4, <2>1, <2>2, <3>2, <4>1
    <3> QED
      BY <3>3, <3>4
  <2>5. CASE InsertRefused(d)
    <3>1. staged' = staged /\ bronze' = bronze /\ retries' = retries
      BY <2>5 DEF InsertRefused, sink
    <3>2. OnTheWay(e)' = OnTheWay(e)
      BY <3>1 DEF OnTheWay
    <3> QED
      BY <1>5, <1>7, <2>1, <2>2, <3>1, <3>2
  <2> QED
    BY <1>11, <2>3, <2>4, <2>5 DEF Write
<1>12. CASE Drain \/ Cancel
  <2>1. /\ staged' = {} /\ stops' = stops + 1
        /\ bronze' = bronze /\ retries' = retries
    BY <1>12 DEF Drain, Cancel, Stop, sink
  <2>2. OnTheWay(e)' = 0
    BY <2>1 DEF OnTheWay
  <2> QED
    BY <1>4, <1>5, <2>1, <2>2
<1>13. CASE Launch
  <2>1. /\ job = "stopped" /\ staged' = staged
        /\ UNCHANGED <<bronze, stops, retries>>
    BY <1>13 DEF Launch, dedup, ends, sink
  <2>2. Spent(e) = 0 /\ OnTheWay(e)' = OnTheWay(e)
    BY <2>1 DEF Spent, OnTheWay
  <2> QED
    BY <1>5, <1>7, <2>1, <2>2
<1> QED
  BY <1>8, <1>9, <1>10, <1>11, <1>12, <1>13 DEF Next

LEMMA WatermarkStays ==
    ASSUME TypeOK, WatermarkInv, [Next]_vars
    PROVE  WatermarkInv'
<1>1. wm \in Nat /\ now \in Nat /\ \A m \in pending : m.pub \in Nat
  BY DEF TypeOK, Message
<1>2. CASE Tick
  BY <1>1, <1>2 DEF Tick, WatermarkInv, input
<1>3. ASSUME NEW e \in Events, Publish(e)
      PROVE  WatermarkInv'
  <2>1. /\ wm' = wm /\ now' = now
        /\ \A m \in pending' : m \in pending \/ m.pub = now
    BY <1>3 DEF Publish, clock
  <2> QED
    BY <1>1, <2>1 DEF WatermarkInv
<1>4. CASE AdvanceWatermark
  BY <1>1, <1>4 DEF AdvanceWatermark, WatermarkMayBe, WatermarkInv, clock, input
<1>5. CASE Launch
  BY <1>1, <1>5 DEF Launch, WatermarkMayBe, WatermarkInv, clock, input
<1>6. ASSUME NEW m \in pending, Read(m)
      PROVE  WatermarkInv'
  <2>1. pending' \subseteq pending /\ wm' = wm /\ now' = now
    BY <1>6 DEF Read, ReadMalformed, ReadUntimed, ReadLate, ReadDuplicate, ReadNew,
                Take, clock
  <2> QED
    BY <2>1 DEF WatermarkInv
<1>7. ASSUME UNCHANGED <<wm, now, pending>>
      PROVE  WatermarkInv'
  BY <1>7 DEF WatermarkInv
<1>8. ASSUME NEW e \in staged, Write(e)
      PROVE  WatermarkInv'
  BY <1>7, <1>8 DEF Write, Insert, InsertRepeated, InsertRefused, clock, input
<1>9. CASE Drain \/ Cancel \/ Merge \/ UNCHANGED vars
  BY <1>7, <1>9 DEF Drain, Cancel, Merge, vars, clock, input
<1> QED
  BY <1>2, <1>3, <1>4, <1>5, <1>6, <1>8, <1>9 DEF Next

LEMMA DroppedStays ==
    ASSUME Inv, [Next]_vars
    PROVE  DroppedWasLate'
<1>1. TypeOK /\ WatermarkInv /\ DroppedWasLate
  BY DEF Inv
<1>2. eventTime' = eventTime
  BY EventTimeStays
<1>3. ASSUME dropped' = dropped
      PROVE  DroppedWasLate'
  BY <1>1, <1>2, <1>3 DEF DroppedWasLate
<1>4. ASSUME NEW m \in pending, ReadLate(m)
      PROVE  DroppedWasLate'
  <2>1. /\ m.event \in Events /\ m.pub \in Nat /\ wm \in Nat
        /\ eventTime[m.event] \in Nat /\ Lateness \in Nat
    BY <1>1, BoundsAssumption DEF TypeOK, Message
  <2>2. WindowEnd(m.event) + Lateness <= wm /\ dropped' = dropped \cup {m}
    BY <1>4 DEF ReadLate, ExpiredAt
  <2>3. eventTime[m.event] < WindowEnd(m.event) /\ WindowEnd(m.event) \in Nat
    BY <1>1, <2>1, WindowEndType
  <2>4. wm <= m.pub
    BY <1>1 DEF WatermarkInv
  <2>5. eventTime[m.event] + Lateness < m.pub
    BY <2>1, <2>2, <2>3, <2>4
  <2> QED
    BY <1>1, <1>2, <2>2, <2>5 DEF DroppedWasLate
<1>5. ASSUME NEW m \in pending, Read(m), ~ReadLate(m)
      PROVE  dropped' = dropped
  BY <1>5 DEF Read, ReadMalformed, ReadUntimed, ReadDuplicate, ReadNew
<1>6. ASSUME \/ Tick \/ (\E e \in Events : Publish(e)) \/ AdvanceWatermark
             \/ (\E e \in staged : Write(e)) \/ Drain \/ Cancel \/ Launch \/ Merge
             \/ UNCHANGED vars
      PROVE  dropped' = dropped
  BY <1>6 DEF Tick, Publish, AdvanceWatermark, Write, Insert, InsertRepeated,
              InsertRefused, Drain, Cancel, Launch, Merge, vars
<1> QED
  BY <1>3, <1>4, <1>5, <1>6 DEF Next

LEMMA NextInv ==
    ASSUME Inv, [Next]_vars
    PROVE  Inv'
<1>1. TypeOK' /\ WatermarkInv'
  BY TypeStays, WatermarkStays DEF Inv
<1> QED
  BY <1>1, StateStays, CopiesStay, DroppedStays DEF Inv

LEMMA InvHolds == Spec => []Inv
<1>1. Init => Inv
  BY InitInv
<1>2. Inv /\ [Next]_vars => Inv'
  BY NextInv
<1> QED
  BY <1>1, <1>2, PTL DEF Spec

-----------------------------------------------------------------------------
(* Every variable of the pipeline keeps its type.                          *)
THEOREM TypeCorrect == Spec => []TypeOK
  BY InvHolds, PTL DEF Inv

(* DeduplicateByEventId lets a second row of an event into Bronze only     *)
(* after a repeated insert of it or a stop of the job, for every window    *)
(* and lateness: state and late data expire at the same watermark.         *)
THEOREM BronzeCopiesHaveCauseHolds == Spec => []BronzeCopiesHaveCause
<1>1. Inv => BronzeCopiesHaveCause
  <2> SUFFICES ASSUME Inv, NEW e \in Events
               PROVE  bronze[e] <= 1 + stops + retries[e]
    BY DEF BronzeCopiesHaveCause
  <2>1. /\ bronze[e] \in Nat /\ stops \in Nat /\ retries[e] \in Nat
        /\ bronze[e] + OnTheWay(e) <= stops + retries[e] + Spent(e)
    BY DEF Inv, TypeOK, CopiesInv
  <2>2. OnTheWay(e) \in {0, 1} /\ Spent(e) \in {0, 1}
    BY DEF OnTheWay, Spent
  <2> QED
    BY <2>1, <2>2
<1> QED
  BY <1>1, InvHolds, PTL

(* The allowed lateness of streaming_pipeline.py drops an event only if it *)
(* was published more than that after its own event_timestamp, whatever    *)
(* backlog the subscription has and however often the job is stopped.      *)
THEOREM DroppedWasLateHolds == Spec => []DroppedWasLate
  BY InvHolds, PTL DEF Inv

-----------------------------------------------------------------------------
(* The MERGE. The delays of a row add up: its event is published at most   *)
(* MaxLate after it happened, its message waits at most MaxLag, and the    *)
(* next MERGE is at most MergeEvery away.                                  *)

LookbackCovers == MaxLate + MaxLag + MergeEvery <= Lookback

(* No event stops a bundle for ever.                                       *)
NothingSticks == Untimed = {} /\ Unwritable = {}

UnstuckInv == failing = {} /\ held = {}

FreshInv ==
    /\ \A m \in pending : m.event \in Timed =>
         /\ m.pub <= now
         /\ now <= m.pub + MaxLag
         /\ m.pub <= eventTime[m.event] + MaxLate
    /\ \A e \in staged : now <= eventTime[e] + MaxLate + MaxLag
    /\ \A e \in Timed :
         bronze[e] > 0 /\ silver[e] = 0 =>
            now <= eventTime[e] + MaxLate + MaxLag + sinceMerge
    /\ \A e \in Events : bronze[e] > 0 => e \in Timed

MergeInv == TypeOK /\ SilverOnePerEvent /\ UnstuckInv /\ FreshInv

LEMMA UnstuckStays ==
    ASSUME NothingSticks, UnstuckInv, [Next]_vars
    PROVE  UnstuckInv'
  BY DEF NothingSticks, UnstuckInv, Next, Read, Write, vars, Tick, Publish,
         AdvanceWatermark, ReadMalformed, ReadUntimed, ReadLate, ReadDuplicate,
         ReadNew, Take, Insert, InsertRepeated, InsertRefused, Drain, Cancel, Stop,
         Launch, Merge, input, dedup

(* No MERGE inserts a second row of an event.                              *)
LEMMA SilverStays ==
    ASSUME TypeOK, SilverOnePerEvent, [Next]_vars
    PROVE  SilverOnePerEvent'
<1>1. CASE Merge
  <2> SUFFICES ASSUME NEW e \in Events
               PROVE  silver'[e] <= 1
    BY DEF SilverOnePerEvent
  <2>1. /\ silver[e] \in Nat /\ silver[e] <= 1
        /\ silver'[e] = silver[e] + Inserted(e)
    BY <1>1 DEF Merge, TypeOK, SilverOnePerEvent
  <2>2. Inserted(e) \in {0, 1} /\ (silver[e] # 0 => Inserted(e) = 0)
    BY DEF Inserted, SourceRows
  <2> QED
    BY <2>1, <2>2
<1>2. CASE ~Merge
  <2>1. silver' = silver
    BY <1>2 DEF Next, Read, Write, vars, Tick, Publish, AdvanceWatermark,
                ReadMalformed, ReadUntimed, ReadLate, ReadDuplicate, ReadNew,
                Insert, InsertRepeated, InsertRefused, Drain, Cancel, Launch
  <2> QED
    BY <2>1 DEF SilverOnePerEvent
<1> QED
  BY <1>1, <1>2

(* What a MERGE does to one event.                                         *)
LEMMA MergeOne ==
    ASSUME LookbackCovers, MergeInv, Merge, NEW e \in Events
    PROVE  /\ silver'[e] <= 1
           /\ bronze[e] > 0 => silver'[e] = 1
<1>1. /\ silver[e] \in Nat /\ silver[e] <= 1 /\ bronze[e] \in Nat
      /\ silver'[e] = silver[e] + Inserted(e)
  BY DEF MergeInv, TypeOK, SilverOnePerEvent, Merge
<1>2. Inserted(e) \in {0, 1} /\ (silver[e] # 0 => Inserted(e) = 0)
  BY DEF Inserted, SourceRows
<1>3. ASSUME bronze[e] > 0, silver[e] = 0
      PROVE  Inserted(e) = 1
  <2>1. /\ now \in Nat /\ sinceMerge \in Nat /\ sinceMerge <= MergeEvery
        /\ eventTime[e] \in Nat
    BY BoundsAssumption DEF MergeInv, TypeOK
  <2>2. now <= eventTime[e] + MaxLate + MaxLag + sinceMerge
    BY <1>3 DEF MergeInv, FreshInv
  <2>3. Recent(e)
    BY <2>1, <2>2, BoundsAssumption DEF LookbackCovers, Recent
  <2> QED
    BY <1>3, <2>3 DEF Inserted, SourceRows
<1> QED
  BY <1>1, <1>2, <1>3

LEMMA FreshStays ==
    ASSUME LookbackCovers, MergeInv, [Next]_vars
    PROVE  FreshInv'
<1>1. TypeOK /\ FreshInv
  BY DEF MergeInv
<1>2. eventTime' = eventTime
  BY EventTimeStays
<1>3. /\ now \in Nat /\ sinceMerge \in Nat
      /\ \A e \in Events : eventTime[e] \in Nat /\ bronze[e] \in Nat
      /\ \A m \in pending : m.event \in Events /\ m.pub \in Nat
  BY <1>1, BoundsAssumption DEF TypeOK, Message
<1>4. {MaxLate, MaxLag} \subseteq Nat /\ Timed \subseteq Events
  BY BoundsAssumption DEF Timed
<1>5. ASSUME pending' \subseteq pending, staged' \subseteq staged,
             UNCHANGED <<now, sinceMerge, bronze, silver>>
      PROVE  FreshInv'
  BY <1>1, <1>2, <1>5 DEF FreshInv
<1>6. CASE Tick
  <2>1. /\ now' = now + 1 /\ sinceMerge' = sinceMerge + 1 /\ staged' = {}
        /\ UNCHANGED <<pending, bronze, silver>>
        /\ \A m \in pending : m.event \notin Untimed => m.pub + MaxLag > now
    BY <1>6 DEF Tick, MergeInv, UnstuckInv, input, dedup, sink
  <2>2. \A m \in pending' : m.event \in Timed =>
          /\ m.pub <= now' /\ now' <= m.pub + MaxLag
          /\ m.pub <= eventTime'[m.event] + MaxLate
    BY <1>1, <1>2, <1>3, <1>4, <2>1 DEF FreshInv, Timed
  <2>3. \A e \in Timed : bronze'[e] > 0 /\ silver'[e] = 0 =>
          now' <= eventTime'[e] + MaxLate + MaxLag + sinceMerge'
    BY <1>1, <1>2, <1>3, <1>4, <2>1 DEF FreshInv
  <2> QED
    BY <1>1, <2>1, <2>2, <2>3 DEF FreshInv
<1>7. ASSUME NEW e \in Events, Publish(e)
      PROVE  FreshInv'
  <2>1. /\ UNCHANGED <<now, sinceMerge, bronze, silver, staged>>
        /\ now <= eventTime[e] + MaxLate
        /\ \A m \in pending' : m \in pending \/ (m.pub = now /\ m.event = e)
    BY <1>7 DEF Publish, clock, dedup, sink
  <2>2. \A m \in pending' : m.event \in Timed =>
          /\ m.pub <= now' /\ now' <= m.pub + MaxLag
          /\ m.pub <= eventTime'[m.event] + MaxLate
    BY <1>1, <1>2, <1>3, <1>4, <2>1 DEF FreshInv
  <2> QED
    BY <1>1, <1>2, <2>1, <2>2 DEF FreshInv
<1>8. ASSUME NEW m \in pending, Read(m)
      PROVE  FreshInv'
  <2>1. pending' \subseteq pending /\ UNCHANGED <<now, sinceMerge, bronze, silver>>
    BY <1>8 DEF Read, ReadMalformed, ReadUntimed, ReadLate, ReadDuplicate, ReadNew,
                Take, clock, sink
  <2>2. CASE ReadNew(m)
    <3>1. m.event \in Timed /\ staged' = staged \cup {m.event}
      BY <2>2 DEF ReadNew
    <3>2. now <= eventTime[m.event] + MaxLate + MaxLag
      BY <1>1, <1>3, <1>4, <3>1 DEF FreshInv
    <3> QED
      BY <1>1, <1>2, <2>1, <3>1, <3>2 DEF FreshInv
  <2>3. CASE ~ReadNew(m)
    <3>1. staged' = staged
      BY <1>8, <2>3 DEF Read, ReadMalformed, ReadUntimed, ReadLate, ReadDuplicate,
                        dedup
    <3> QED
      BY <1>5, <2>1, <3>1
  <2> QED
    BY <2>2, <2>3
<1>9. ASSUME NEW e \in staged, Write(e)
      PROVE  FreshInv'
  <2>1. /\ staged' \subseteq staged /\ e \in Timed /\ e \in Events
        /\ UNCHANGED <<now, sinceMerge, pending, silver>>
        /\ bronze' = bronze \/ bronze' = [bronze EXCEPT ![e] = @ + 1]
    BY <1>1, <1>4, <1>9
    DEF Write, Insert, InsertRepeated, InsertRefused, input, dedup, sink, clock, TypeOK
  <2>2. now <= eventTime[e] + MaxLate + MaxLag + sinceMerge
    <3>1. now <= eventTime[e] + MaxLate + MaxLag
      BY <1>1 DEF FreshInv
    <3> QED
      BY <1>3, <1>4, <2>1, <3>1
  <2>3. \A d \in Events : d # e => bronze'[d] = bronze[d]
    BY <1>1, <2>1 DEF TypeOK
  <2>4. \A d \in Timed : bronze'[d] > 0 /\ silver'[d] = 0 =>
          now' <= eventTime'[d] + MaxLate + MaxLag + sinceMerge'
    BY <1>1, <1>2, <1>4, <2>1, <2>2, <2>3 DEF FreshInv
  <2>5. \A d \in Events : bronze'[d] > 0 => d \in Timed
    BY <1>1, <2>1, <2>3 DEF FreshInv
  <2> QED
    BY <1>1, <1>2, <2>1, <2>4, <2>5 DEF FreshInv
<1>10. CASE Merge
  <2>1. UNCHANGED <<now, pending, bronze, staged>>
    BY <1>10 DEF Merge, input, dedup, sink
  <2>2. \A e \in Timed : ~(bronze'[e] > 0 /\ silver'[e] = 0)
    BY <1>4, <1>10, <2>1, MergeOne
  <2> QED
    BY <1>1, <1>2, <2>1, <2>2 DEF FreshInv
<1>11. ASSUME \/ AdvanceWatermark \/ Drain \/ Cancel \/ Launch \/ UNCHANGED vars
       PROVE  FreshInv'
  <2>1. /\ pending' \subseteq pending /\ staged' \subseteq staged
        /\ UNCHANGED <<now, sinceMerge, bronze, silver>>
    BY <1>11 DEF AdvanceWatermark, Drain, Cancel, Stop, Launch, vars, clock, input,
                 dedup, sink
  <2> QED
    BY <1>5, <2>1
<1> QED
  BY <1>6, <1>7, <1>8, <1>9, <1>10, <1>11 DEF Next

LEMMA MergeInvHolds == LookbackCovers /\ NothingSticks => (Spec => []MergeInv)
<1> SUFFICES ASSUME LookbackCovers, NothingSticks
             PROVE  Spec => []MergeInv
  OBVIOUS
<1>1. Init => MergeInv
  <2>1. Init => TypeOK
    BY InitInv DEF Inv
  <2> QED
    BY <2>1 DEF Init, MergeInv, SilverOnePerEvent, UnstuckInv, FreshInv
<1>2. MergeInv /\ [Next]_vars => MergeInv'
  <2> SUFFICES ASSUME MergeInv, [Next]_vars
               PROVE  MergeInv'
    OBVIOUS
  <2>1. TypeOK' /\ UnstuckInv' /\ FreshInv'
    BY TypeStays, UnstuckStays, FreshStays DEF MergeInv
  <2> QED
    BY <2>1, SilverStays DEF MergeInv
<1> QED
  BY <1>1, <1>2, PTL DEF Spec

(* silver_*.sql: when the lookback covers the delay of the events, the     *)
(* backlog of the subscription and the period of the schedule together,    *)
(* and no event stops a bundle for ever, no MERGE leaves an event of       *)
(* Bronze without its one row in Silver.                                   *)
THEOREM EveryMergeCatchesUpHolds ==
    LookbackCovers /\ NothingSticks => (Spec => EveryMergeCatchesUp)
<1> SUFFICES ASSUME LookbackCovers, NothingSticks
             PROVE  Spec => EveryMergeCatchesUp
  OBVIOUS
<1>1. MergeInv => [Merge => \A e \in Events : bronze[e] > 0 => silver'[e] = 1]_vars
  BY MergeOne
<1> QED
  BY <1>1, MergeInvHolds, PTL DEF EveryMergeCatchesUp

(* The same MERGE gives Silver at most one row of an event, whatever the   *)
(* lookback and however many rows Bronze has.                              *)
THEOREM SilverOnePerEventHolds == Spec => []SilverOnePerEvent
<1> DEFINE OneRow == TypeOK /\ SilverOnePerEvent
<1>1. Init => OneRow
  <2>1. Init => TypeOK
    BY InitInv DEF Inv
  <2> QED
    BY <2>1 DEF Init, SilverOnePerEvent
<1>2. OneRow /\ [Next]_vars => OneRow'
  <2> SUFFICES ASSUME OneRow, [Next]_vars
               PROVE  OneRow'
    OBVIOUS
  <2>1. TypeOK'
    BY TypeStays
  <2> QED
    BY <2>1, SilverStays
<1> QED
  BY <1>1, <1>2, PTL DEF Spec
=============================================================================
