------------------------- MODULE KafkaProducerProofs -------------------------
(***************************************************************************)
(* Why every call of produce_one() is accounted for when flush() empties   *)
(* the queue, and why two sendings of one event_id are the same event, for *)
(* any number of domains and any size of the ring and of the queue.        *)
(***************************************************************************)
EXTENDS KafkaProducer, TLAPS, FiniteSetTheorems, SequenceTheorems

(* The ids drawn so far are numbered up to the current call.               *)
IdsDrawn == \A e \in Sightings : e.id <= made

(* Between two turns nothing is in hand.                                   *)
HandEmpty == pc \in {"loop", "poll"} => event = NoEvent

QueueFinite == IsFiniteSet(queue)

Queued == {x.call : x \in queue}

AckedWritten == \A x \in queue : x.status = "acked" => x.call \in OnBroker

Accounted ==
    1 .. made \subseteq OnBroker \cup failed \cup givenUp \cup Interrupted \cup Queued

FlushedEmpty == exit = "flushed" => pc = "done" /\ queue = {}

Inv ==
    /\ TypeOK
    /\ QueueFinite
    /\ IdsDrawn
    /\ RepeatsAreVerbatim
    /\ HandEmpty
    /\ AckedWritten
    /\ Accounted
    /\ FlushedEmpty

-----------------------------------------------------------------------------
LEMMA Sizes ==
    /\ RecentSize \in Nat \ {0}
    /\ MaxAttempts \in Nat \ {0}
    /\ QueueSize \in Nat \ {0}
    /\ MaxCalls \in Nat
BY SizesAssumption

(* Where an event can be seen, and what is on the broker, element by       *)
(* element, before and after a step.                                       *)
RingEvents(ring) == UNION {{ring[d][i] : i \in DOMAIN ring[d]} : d \in Domains}
HeldEvents(held) ==
    UNION {{held[d][i].event : i \in DOMAIN held[d]} : d \in Domains}
EntryEvents(entries) == {entry.event : entry \in entries}
SightingsOf(ev, ring, entries, held) ==
    ({ev} \ {NoEvent}) \cup RingEvents(ring) \cup EntryEvents(entries)
    \cup HeldEvents(held)

LEMMA SightingsAre ==
    ASSUME NEW ev, NEW ring, NEW entries, NEW held, NEW e
    PROVE  e \in SightingsOf(ev, ring, entries, held) <=>
             \/ e = ev /\ e # NoEvent
             \/ \E d \in Domains : \E i \in DOMAIN ring[d] : e = ring[d][i]
             \/ \E x \in entries : e = x.event
             \/ \E d \in Domains : \E i \in DOMAIN held[d] : e = held[d][i].event
<1>1. e \in RingEvents(ring) <=>
        \E d \in Domains : \E i \in DOMAIN ring[d] : e = ring[d][i]
  BY DEF RingEvents
<1>2. e \in HeldEvents(held) <=>
        \E d \in Domains : \E i \in DOMAIN held[d] : e = held[d][i].event
  BY DEF HeldEvents
<1>3. e \in EntryEvents(entries) <=> \E x \in entries : e = x.event
  BY DEF EntryEvents
<1>4. e \in SightingsOf(ev, ring, entries, held) <=>
        \/ e = ev /\ e # NoEvent
        \/ e \in RingEvents(ring)
        \/ e \in EntryEvents(entries)
        \/ e \in HeldEvents(held)
  BY DEF SightingsOf
<1> QED
  BY <1>1, <1>2, <1>3, <1>4, Zenon

LEMMA SightingsNow ==
    /\ Sightings = SightingsOf(event, recent, queue, log)
    /\ Sightings' = SightingsOf(event', recent', queue', log')
BY DEF Sightings, SightingsOf, RingEvents, HeldEvents, EntryEvents

BrokerOf(held) == UNION {{held[d][i].call : i \in DOMAIN held[d]} : d \in Domains}

LEMMA BrokerHas ==
    ASSUME NEW held, NEW c
    PROVE  c \in BrokerOf(held) <=>
             \E d \in Domains : \E i \in DOMAIN held[d] : c = held[d][i].call
BY DEF BrokerOf

LEMMA BrokerNow == OnBroker = BrokerOf(log) /\ OnBroker' = BrokerOf(log')
BY DEF OnBroker, BrokerOf

LEMMA QueuedHas ==
    /\ \A c : c \in Queued <=> \E x \in queue : c = x.call
    /\ \A c : c \in Queued' <=> \E x \in queue' : c = x.call
BY Zenon DEF Queued

(* The ring keeps its bound and gains nothing but the new event.           *)
LEMMA RingRemembers ==
    ASSUME NEW ring \in Seq(Event), Len(ring) <= RecentSize, NEW e \in Event
    PROVE  /\ Remember(ring, e) \in Seq(Event)
           /\ Len(Remember(ring, e)) <= RecentSize
           /\ \A i \in DOMAIN Remember(ring, e) :
                \/ Remember(ring, e)[i] = e
                \/ \E j \in DOMAIN ring : Remember(ring, e)[i] = ring[j]
<1> DEFINE longer == Append(ring, e)
<1>0. RecentSize \in Nat
  BY Sizes
<1>1. /\ longer \in Seq(Event)
      /\ Len(longer) = Len(ring) + 1
      /\ \A i \in DOMAIN longer :
           longer[i] = e \/ \E j \in DOMAIN ring : longer[i] = ring[j]
  OBVIOUS
<1>2. CASE Len(longer) > RecentSize
  <2>1. /\ Tail(longer) \in Seq(Event)
        /\ Len(Tail(longer)) = Len(longer) - 1
        /\ \A i \in DOMAIN Tail(longer) :
             i + 1 \in DOMAIN longer /\ Tail(longer)[i] = longer[i + 1]
    BY <1>1
  <2> QED
    BY <1>0, <1>1, <1>2, <2>1 DEF Remember
<1>3. CASE ~(Len(longer) > RecentSize)
  BY <1>0, <1>1, <1>3 DEF Remember
<1> QED
  BY <1>2, <1>3

(* A fresh event and all its variants have an id nobody has seen.          *)
LEMMA FreshIsAnEvent ==
    ASSUME Inv, made < MaxCalls, NEW d \in Domains
    PROVE  /\ Generate(d) \in Event
           /\ \A e \in MakeMalformed(Generate(d)) \cup {MakeLate(Generate(d))} :
                e \in Event /\ e.id = made + 1
           /\ Generate(d).id = made + 1
<1> DEFINE fresh == Generate(d)
<1>1. made + 1 \in Calls
  BY Sizes DEF Inv, TypeOK, Calls
<1>2. fresh \in Event /\ fresh.id = made + 1
  BY <1>1 DEF Generate, Event, Kinds
<1>3. ASSUME NEW k \in Kinds
      PROVE  [fresh EXCEPT !.kind = k] \in Event /\ [fresh EXCEPT !.kind = k].id = made + 1
  BY <1>2 DEF Event
<1>4. MakeLate(fresh) \in Event /\ MakeLate(fresh).id = made + 1
  BY <1>2 DEF Event, MakeLate
<1> HIDE DEF fresh
<1>5. \A e \in MakeMalformed(fresh) : e \in Event /\ e.id = made + 1
  BY <1>3 DEF MakeMalformed
<1> QED
  BY <1>2, <1>4, <1>5 DEF fresh

LEMMA SightingsAreEvents == TypeOK => Sightings \subseteq Event
<1> SUFFICES ASSUME TypeOK, NEW e \in Sightings PROVE e \in Event
  OBVIOUS
<1>1. CASE e = event /\ e # NoEvent
  BY <1>1 DEF TypeOK
<1>2. CASE \E d \in Domains : \E i \in DOMAIN recent[d] : e = recent[d][i]
  BY <1>2 DEF TypeOK
<1>3. CASE \E x \in queue : e = x.event
  BY <1>3 DEF TypeOK, Entry
<1>4. CASE \E d \in Domains : \E i \in DOMAIN log[d] : e = log[d][i].event
  <2>1. PICK d \in Domains, i \in Nat :
          i \in DOMAIN log[d] /\ e = log[d][i].event
    BY <1>4 DEF TypeOK
  <2>2. log[d] \in Seq(Record)
    BY DEF TypeOK
  <2>3. log[d][i] \in Record
    BY <2>1, <2>2, ElementOfSeq
  <2> QED
    BY <2>1, <2>3 DEF Record
<1> QED
  BY <1>1, <1>2, <1>3, <1>4, SightingsAre, SightingsNow

(* Verbatim repeats survive one new event with a new id.                   *)
LEMMA VerbatimGrows ==
    ASSUME Inv, NEW e \in Event, e.id = made + 1, made' = made + 1,
           Sightings' \subseteq Sightings \cup {e}
    PROVE  IdsDrawn' /\ RepeatsAreVerbatim'
<1>1. made \in Nat /\ \A f \in Sightings : f.id <= made
  BY Sizes DEF Inv, TypeOK, IdsDrawn
<1>2. Sightings \subseteq Event
  BY SightingsAreEvents DEF Inv
<1>3. \A f \in Sightings : f.id \in Nat
  BY <1>2 DEF Event, Calls
<1>4. IdsDrawn'
  BY <1>1, <1>3 DEF IdsDrawn
<1>5. \A f \in Sightings : f.id # e.id
  BY <1>1, <1>3
<1> QED
  BY <1>4, <1>5 DEF RepeatsAreVerbatim, Inv

LEMMA VerbatimStays ==
    ASSUME Inv, made' = made, Sightings' \subseteq Sightings
    PROVE  IdsDrawn' /\ RepeatsAreVerbatim'
BY DEF Inv, IdsDrawn, RepeatsAreVerbatim

-----------------------------------------------------------------------------
LEMMA InitEstablishesInv == Init => Inv
<1> SUFFICES ASSUME Init PROVE Inv
  OBVIOUS
<1>1. IsFiniteSet(queue) /\ Cardinality(queue) = 0
  BY FS_EmptySet DEF Init
<1>2. TypeOK
  <2>1. recent \in [Domains -> Seq(Event)] /\ \A d \in Domains : Len(recent[d]) = 0
    BY DEF Init
  <2>2. log \in [Domains -> Seq(Record)]
    BY DEF Init
  <2> QED
    BY <1>1, <2>1, <2>2, Sizes DEF Init, TypeOK
<1>3. Sightings = {}
  <2>1. \A e : e \notin SightingsOf(event, recent, queue, log)
    BY SightingsAre DEF Init
  <2> QED
    BY <2>1, SightingsNow
<1>4. Accounted
  <2>1. 1 .. made = {}
    BY DEF Init
  <2> QED
    BY <2>1 DEF Accounted
<1> QED
  BY <1>1, <1>2, <1>3, <1>4
    DEF Inv, Init, QueueFinite, IdsDrawn, RepeatsAreVerbatim, HandEmpty,
        AckedWritten, FlushedEmpty

-----------------------------------------------------------------------------
(* A turn of the loop begins.                                              *)
LEMMA NextEventKeepsInv ==
    ASSUME Inv, NEW d \in Domains, NextEvent(d)
    PROVE  Inv'
<1> DEFINE fresh == Generate(d)
           ring == Remember(recent[d], fresh)
<1>1. /\ pc = "loop" /\ made < MaxCalls
      /\ made' = made + 1 /\ attempt' = 1 /\ pc' = "send"
      /\ UNCHANGED <<queue, log, failed, givenUp, exit>>
      /\ \/ /\ event' \in MakeMalformed(fresh) \cup {MakeLate(fresh)}
            /\ UNCHANGED recent
         \/ /\ event' \in {ring[i] : i \in DOMAIN ring}
            /\ recent' = [recent EXCEPT ![d] = ring]
  BY DEF NextEvent
<1>2. /\ made \in Nat /\ MaxCalls \in Nat
      /\ recent \in [Domains -> Seq(Event)]
      /\ \A c \in Domains : Len(recent[c]) <= RecentSize
      /\ event = NoEvent
      /\ MaxAttempts \in Nat \ {0}
  BY <1>1, Sizes DEF Inv, TypeOK, HandEmpty
<1>3. /\ fresh \in Event /\ fresh.id = made + 1
      /\ \A e \in MakeMalformed(fresh) \cup {MakeLate(fresh)} :
           e \in Event /\ e.id = made + 1
  BY <1>1, FreshIsAnEvent
<1>4. /\ ring \in Seq(Event)
      /\ Len(ring) <= RecentSize
      /\ \A i \in DOMAIN ring :
           ring[i] = fresh \/ \E j \in DOMAIN recent[d] : ring[i] = recent[d][j]
  BY <1>2, <1>3, RingRemembers
<1>5. event' \in Event
  <2>1. CASE event' \in MakeMalformed(fresh) \cup {MakeLate(fresh)}
    BY <2>1, <1>3
  <2>2. CASE event' \in {ring[i] : i \in DOMAIN ring}
    BY <2>2, <1>4
  <2> QED
    BY <1>1, <2>1, <2>2
<1>6. TypeOK'
  <2>1. /\ recent' \in [Domains -> Seq(Event)]
        /\ \A c \in Domains : Len(recent'[c]) <= RecentSize
    BY <1>1, <1>2, <1>4
  <2>2. made' \in 0 .. MaxCalls /\ attempt' \in 1 .. MaxAttempts
    BY <1>1, <1>2
  <2> QED
    BY <1>1, <1>5, <2>1, <2>2, NoEventAssumption DEF Inv, TypeOK
<1>7. IdsDrawn' /\ RepeatsAreVerbatim'
  <2>1. CASE /\ event' \in MakeMalformed(fresh) \cup {MakeLate(fresh)}
             /\ UNCHANGED recent
    <3>1. Sightings' \subseteq Sightings \cup {event'}
      BY <1>1, <2>1 DEF Sightings
    <3> QED
      BY <1>1, <1>3, <2>1, <3>1, VerbatimGrows
  <2>2. CASE /\ event' \in {ring[i] : i \in DOMAIN ring}
             /\ recent' = [recent EXCEPT ![d] = ring]
    <3>1. \A c \in Domains : \A i \in DOMAIN recent'[c] :
            recent'[c][i] = fresh
              \/ \E j \in DOMAIN recent[c] : recent'[c][i] = recent[c][j]
      BY <1>2, <1>4, <2>2
    <3>2. event' = fresh \/ \E j \in DOMAIN recent[d] : event' = recent[d][j]
      BY <1>4, <2>2
    <3>3. Sightings' \subseteq Sightings \cup {fresh}
      BY <1>1, <3>1, <3>2 DEF Sightings
    <3> QED
      BY <1>1, <1>3, <3>3, VerbatimGrows
  <2> QED
    BY <1>1, <2>1, <2>2
<1>8. Accounted'
  <2>1. Interrupted' = {made + 1} /\ Interrupted = {}
    BY <1>1, <1>2, <1>5, NoEventAssumption DEF Interrupted
  <2>2. 1 .. (made + 1) = (1 .. made) \cup {made + 1}
    BY <1>2
  <2>3. OnBroker' = OnBroker /\ Queued' = Queued
    BY <1>1 DEF OnBroker, Queued
  <2> QED
    BY <1>1, <2>1, <2>2, <2>3 DEF Inv, Accounted
<1>9. QueueFinite' /\ HandEmpty' /\ AckedWritten' /\ FlushedEmpty'
  BY <1>1 DEF Inv, QueueFinite, HandEmpty, AckedWritten, FlushedEmpty, OnBroker
<1> QED
  BY <1>6, <1>7, <1>8, <1>9 DEF Inv

(* librdkafka takes the event.                                             *)
LEMMA ProduceKeepsInv ==
    ASSUME Inv, Produce
    PROVE  Inv'
<1> DEFINE entry == [call |-> made, event |-> event, status |-> "waiting"]
<1>1. /\ pc = "send" /\ pc' = "poll" /\ event' = NoEvent
      /\ Cardinality(queue) < QueueSize
      /\ queue' = queue \cup {entry}
      /\ UNCHANGED <<made, recent, attempt, log, failed, givenUp, exit>>
  BY DEF Produce
<1>2. /\ TypeOK /\ IsFiniteSet(queue) /\ QueueSize \in Nat
      /\ event \in Event
  BY <1>1, Sizes DEF Inv, TypeOK, QueueFinite
<1>3. made \in Calls
  <2>1. event.id \in Nat \ {0} /\ event.id <= made
    BY <1>1, <1>2, NoEventAssumption DEF Inv, IdsDrawn, Sightings, Event, Calls
  <2> QED
    BY <1>2, <2>1, Sizes DEF TypeOK, Calls
<1>4. /\ IsFiniteSet(queue')
      /\ Cardinality(queue') \in Nat
      /\ Cardinality(queue') <= QueueSize
  <2>1. IsFiniteSet(queue')
    BY <1>1, <1>2, FS_AddElement
  <2>2. Cardinality(queue) \in Nat
    BY <1>2, FS_CardinalityType
  <2>3. Cardinality(queue') = Cardinality(queue)
          \/ Cardinality(queue') = Cardinality(queue) + 1
    BY <1>1, <1>2, FS_AddElement
  <2> QED
    BY <1>1, <1>2, <2>1, <2>2, <2>3
<1>5. entry \in Entry
  BY <1>2, <1>3 DEF Entry
<1>6. TypeOK'
  BY <1>1, <1>2, <1>4, <1>5 DEF TypeOK
<1>7. IdsDrawn' /\ RepeatsAreVerbatim'
  <2>1. \A x \in queue' : x \in queue \/ x.event = event
    BY <1>1
  <2>2. Sightings' \subseteq Sightings
    BY <1>1, <1>2, <2>1, NoEventAssumption DEF Sightings
  <2> QED
    BY <1>1, <2>2, VerbatimStays
<1>8. Accounted'
  <2>1. Interrupted = {made}
    BY <1>2, NoEventAssumption DEF Interrupted
  <2>2. Queued' = Queued \cup {made}
    <3>1. \A c : (\E x \in queue' : c = x.call) <=>
                 (\E x \in queue : c = x.call) \/ c = entry.call
      BY <1>1, Zenon
    <3>2. entry.call = made
      OBVIOUS
    <3> QED
      BY <3>1, <3>2, QueuedHas, Zenon
  <2>3. OnBroker' = OnBroker
    BY <1>1 DEF OnBroker
  <2> QED
    BY <1>1, <2>1, <2>2, <2>3 DEF Inv, Accounted
<1>9. AckedWritten'
  BY <1>1 DEF Inv, AckedWritten, OnBroker
<1>10. QueueFinite' /\ HandEmpty' /\ FlushedEmpty'
  BY <1>1, <1>4 DEF Inv, QueueFinite, HandEmpty, FlushedEmpty
<1> QED
  BY <1>6, <1>7, <1>8, <1>9, <1>10 DEF Inv

(* An attempt fails; the last one gives the event up.                      *)
LEMMA BufferErrorKeepsInv ==
    ASSUME Inv, BufferError
    PROVE  Inv'
<1>1. /\ pc = "send"
      /\ UNCHANGED <<made, recent, queue, log, failed, exit>>
      /\ \/ /\ attempt < MaxAttempts /\ attempt' = attempt + 1
            /\ UNCHANGED <<pc, event, givenUp>>
         \/ /\ givenUp' = givenUp \cup {made} /\ event' = NoEvent
            /\ pc' = "poll" /\ UNCHANGED attempt
  BY DEF BufferError
<1>2. event \in Event /\ TypeOK /\ MaxAttempts \in Nat
  BY <1>1, Sizes DEF Inv, TypeOK
<1>3. made \in Calls
  <2>1. event.id \in Nat \ {0} /\ event.id <= made
    BY <1>2, NoEventAssumption DEF Inv, IdsDrawn, Sightings, Event, Calls
  <2> QED
    BY <1>2, <2>1, Sizes DEF TypeOK, Calls
<1>4. TypeOK'
  <2>1. CASE attempt < MaxAttempts /\ attempt' = attempt + 1 /\ UNCHANGED <<pc, event, givenUp>>
    <3>1. attempt' \in 1 .. MaxAttempts
      BY <1>2, <2>1 DEF TypeOK
    <3> QED
      BY <1>1, <1>2, <2>1, <3>1 DEF TypeOK
  <2>2. CASE /\ givenUp' = givenUp \cup {made} /\ event' = NoEvent
             /\ pc' = "poll" /\ UNCHANGED attempt
    BY <1>1, <1>2, <1>3, <2>2 DEF TypeOK
  <2> QED
    BY <1>1, <2>1, <2>2
<1>5. IdsDrawn' /\ RepeatsAreVerbatim'
  <2>1. Sightings' \subseteq Sightings
    BY <1>1, <1>2, NoEventAssumption DEF Sightings
  <2> QED
    BY <1>1, <2>1, VerbatimStays
<1>6. Accounted'
  BY <1>1, <1>2, NoEventAssumption
    DEF Inv, Accounted, Interrupted, OnBroker, Queued
<1>7. QueueFinite' /\ HandEmpty' /\ AckedWritten' /\ FlushedEmpty'
  BY <1>1 DEF Inv, QueueFinite, HandEmpty, AckedWritten, FlushedEmpty, OnBroker
<1> QED
  BY <1>4, <1>5, <1>6, <1>7 DEF Inv

(* Reports are served, by poll() or by flush().                            *)
LEMMA ReportsKeepInv ==
    ASSUME Inv, ServeReports,
           UNCHANGED <<made, recent, event, attempt, log, givenUp, exit>>,
           \/ pc = "poll" /\ pc' = "loop"
           \/ pc = "flush" /\ pc' = pc
    PROVE  Inv'
<1>1. /\ queue' = {x \in queue : Waiting(x)}
      /\ failed' = failed \cup {x.call : x \in {y \in queue : y.status = "failed"}}
  BY DEF ServeReports
<1>2. TypeOK /\ IsFiniteSet(queue) /\ QueueSize \in Nat
  BY Sizes DEF Inv, QueueFinite
<1>3. /\ IsFiniteSet(queue')
      /\ Cardinality(queue') \in Nat /\ Cardinality(queue) \in Nat
      /\ Cardinality(queue') <= Cardinality(queue)
  <2>1. queue' \subseteq queue
    BY <1>1
  <2> QED
    BY <1>2, <2>1, FS_Subset, FS_CardinalityType
<1>4. TypeOK'
  <2>1. failed' \subseteq Calls
    BY <1>1, <1>2 DEF TypeOK, Entry
  <2>2. queue' \subseteq Entry /\ Cardinality(queue') <= QueueSize
    BY <1>1, <1>2, <1>3 DEF TypeOK
  <2> QED
    BY <1>2, <2>1, <2>2 DEF TypeOK
<1>5. IdsDrawn' /\ RepeatsAreVerbatim'
  <2>1. Sightings' \subseteq Sightings
    BY <1>1 DEF Sightings
  <2> QED
    BY <2>1, VerbatimStays
<1>6. Accounted'
  <2>1. \A x \in queue : \/ x \in queue'
                         \/ x.call \in OnBroker
                         \/ x.call \in failed'
    BY <1>1, <1>2 DEF Inv, AckedWritten, TypeOK, Entry, Waiting
  <2>2. Queued \subseteq Queued' \cup OnBroker \cup failed'
    BY <2>1 DEF Queued
  <2>3. OnBroker' = OnBroker /\ Interrupted' = Interrupted
    BY DEF OnBroker, Interrupted
  <2>4. failed \subseteq failed'
    BY <1>1
  <2> QED
    BY <2>2, <2>3, <2>4 DEF Inv, Accounted
<1>7. AckedWritten' /\ FlushedEmpty'
  BY <1>1 DEF Inv, AckedWritten, FlushedEmpty, OnBroker
<1>8. QueueFinite' /\ HandEmpty'
  BY <1>3 DEF Inv, QueueFinite, HandEmpty
<1> QED
  BY <1>4, <1>5, <1>6, <1>7, <1>8 DEF Inv

(* The end of the loop, of flush() and of the process.                     *)
LEMMA EndsKeepInv ==
    ASSUME Inv, Stop \/ FlushEnds \/ Killed
    PROVE  Inv'
<1>1. /\ pc' \in {"flush", "done"}
      /\ UNCHANGED <<made, recent, event, attempt, queue, log, failed, givenUp>>
      /\ \/ exit' = exit /\ pc \in {"loop", "send", "poll"}
         \/ /\ exit' \in {"flushed", "timed_out", "killed"} /\ pc' = "done"
            /\ exit' = "flushed" => queue = {}
  BY DEF Stop, FlushEnds, Killed
<1>2. TypeOK'
  BY <1>1 DEF Inv, TypeOK
<1>3. IdsDrawn' /\ RepeatsAreVerbatim'
  BY <1>1, VerbatimStays DEF Sightings
<1>4. Accounted' /\ AckedWritten'
  BY <1>1 DEF Inv, Accounted, AckedWritten, OnBroker, Interrupted, Queued
<1>5. FlushedEmpty' /\ QueueFinite' /\ HandEmpty'
  BY <1>1 DEF Inv, FlushedEmpty, QueueFinite, HandEmpty
<1> QED
  BY <1>2, <1>3, <1>4, <1>5 DEF Inv

(* A report comes back, for a message that the broker may hold or not.     *)
LEMMA DeliveryKeepsInv ==
    ASSUME Inv, NEW entry \in queue, Delivered(entry) \/ NotDelivered(entry)
    PROVE  Inv'
<1> DEFINE d == entry.event.domain
           written == [call |-> entry.call, event |-> entry.event]
<1>1. /\ pc # "done"
      /\ UNCHANGED <<pc, made, recent, event, attempt, failed, givenUp, exit>>
      /\ log' = log \/ Write(entry)
      /\ \/ Report(entry, "acked") /\ Write(entry)
         \/ Report(entry, "failed")
  BY DEF Delivered, NotDelivered, loop
<1>2. /\ TypeOK /\ IsFiniteSet(queue) /\ QueueSize \in Nat
      /\ entry \in Entry
  BY Sizes DEF Inv, QueueFinite, TypeOK
<1>3. d \in Domains /\ written \in Record
  BY <1>2 DEF Entry, Event, Record
<1>4. PICK status \in {"acked", "failed"} :
        /\ queue' = (queue \ {entry}) \cup {[entry EXCEPT !.status = status]}
        /\ status = "acked" => Write(entry)
  BY <1>1 DEF Report
<1> DEFINE reported == [entry EXCEPT !.status = status]
<1>5. /\ reported \in Entry /\ reported.call = entry.call
      /\ reported.event = entry.event /\ reported.status = status
  BY <1>2 DEF Entry
<1>6. /\ IsFiniteSet(queue')
      /\ Cardinality(queue') <= QueueSize
  <2>1. /\ IsFiniteSet(queue \ {entry})
        /\ Cardinality(queue \ {entry}) = Cardinality(queue) - 1
    BY <1>2, FS_RemoveElement
  <2>2. /\ IsFiniteSet(queue')
        /\ \/ Cardinality(queue') = Cardinality(queue \ {entry})
           \/ Cardinality(queue') = Cardinality(queue \ {entry}) + 1
    BY <1>4, <2>1, FS_AddElement
  <2>3. Cardinality(queue) \in Nat /\ Cardinality(queue) <= QueueSize
    BY <1>2, FS_CardinalityType DEF TypeOK
  <2> QED
    BY <1>2, <2>1, <2>2, <2>3
<1> HIDE DEF written
<1>7. /\ log' \in [Domains -> Seq(Record)]
      /\ \A c \in Domains : \A i \in DOMAIN log[c] :
           i \in DOMAIN log'[c] /\ log'[c][i] = log[c][i]
      /\ \A c \in Domains : \A i \in DOMAIN log'[c] :
           log'[c][i] = written \/ (i \in DOMAIN log[c] /\ log'[c][i] = log[c][i])
      /\ Write(entry) =>
           \E i \in DOMAIN log'[d] : log'[d][i] = written
  <2>0. log \in [Domains -> Seq(Record)]
    BY <1>2 DEF TypeOK
  <2>1. CASE Write(entry)
    <3>1. log' = [log EXCEPT ![d] = Append(log[d], written)]
      BY <2>1 DEF Write, written
    <3>2. /\ Append(log[d], written) \in Seq(Record)
          /\ Len(Append(log[d], written)) = Len(log[d]) + 1
          /\ \A i \in 1 .. Len(log[d]) : Append(log[d], written)[i] = log[d][i]
          /\ Append(log[d], written)[Len(log[d]) + 1] = written
      BY <1>3, <2>0, AppendProperties
    <3>3. log'[d] = Append(log[d], written)
            /\ \A c \in Domains \ {d} : log'[c] = log[c]
      BY <1>3, <2>0, <3>1
    <3>4. \A c \in Domains : DOMAIN log[c] = 1 .. Len(log[c]) /\ Len(log[c]) \in Nat
      BY <2>0
    <3>5. DOMAIN log'[d] = 1 .. (Len(log[d]) + 1)
      BY <1>3, <2>0, <3>2, <3>3
    <3>6. log' \in [Domains -> Seq(Record)]
      BY <2>0, <3>1, <3>2
    <3>7. ASSUME NEW c \in Domains, NEW i \in DOMAIN log[c]
          PROVE  i \in DOMAIN log'[c] /\ log'[c][i] = log[c][i]
      <4>1. CASE c = d
        BY <4>1, <3>2, <3>3, <3>4, <3>5
      <4>2. CASE c # d
        BY <4>2, <3>3
      <4> QED
        BY <4>1, <4>2
    <3>8. ASSUME NEW c \in Domains, NEW i \in DOMAIN log'[c]
          PROVE  log'[c][i] = written \/ (i \in DOMAIN log[c] /\ log'[c][i] = log[c][i])
      <4>1. CASE c = d
        <5>1. i \in 1 .. Len(log[d]) \/ i = Len(log[d]) + 1
          BY <4>1, <1>3, <3>4, <3>5
        <5> QED
          BY <4>1, <5>1, <1>3, <3>2, <3>3, <3>4
      <4>2. CASE c # d
        BY <4>2, <3>3
      <4> QED
        BY <4>1, <4>2
    <3>9. \E i \in DOMAIN log'[d] : log'[d][i] = written
      BY <1>3, <3>2, <3>3, <3>4, <3>5
    <3> QED
      BY <3>6, <3>7, <3>8, <3>9
  <2>2. CASE log' = log /\ ~Write(entry)
    BY <2>0, <2>2
  <2> QED
    BY <1>1, <2>1, <2>2
<1>8. OnBroker \subseteq OnBroker'
  BY <1>7 DEF OnBroker
<1>9. TypeOK'
  BY <1>1, <1>2, <1>4, <1>5, <1>6, <1>7 DEF TypeOK
<1>10. IdsDrawn' /\ RepeatsAreVerbatim'
  <2>1. \A x \in queue' : \E y \in queue : x.event = y.event
    BY <1>4, <1>5
  <2>2. \A c \in Domains : \A i \in DOMAIN log'[c] :
          log'[c][i].event = entry.event
            \/ (i \in DOMAIN log[c] /\ log'[c][i].event = log[c][i].event)
    BY <1>7 DEF written
  <2>3. Sightings' \subseteq Sightings
    BY <1>1, <2>1, <2>2 DEF Sightings
  <2> QED
    BY <1>1, <2>3, VerbatimStays
<1>11. Accounted'
  <2>1. Queued \subseteq Queued'
    BY <1>4, <1>5 DEF Queued
  <2>2. Interrupted' = Interrupted
    BY <1>1 DEF Interrupted
  <2> QED
    BY <1>1, <1>8, <2>1, <2>2 DEF Inv, Accounted
<1>12. AckedWritten'
  <2>1. Write(entry) => entry.call \in OnBroker'
    BY <1>3, <1>7 DEF OnBroker, written
  <2> QED
    BY <1>4, <1>5, <1>8, <2>1 DEF Inv, AckedWritten
<1>13. QueueFinite' /\ HandEmpty' /\ FlushedEmpty'
  BY <1>1, <1>6 DEF Inv, QueueFinite, HandEmpty, FlushedEmpty
<1> QED
  BY <1>9, <1>10, <1>11, <1>12, <1>13 DEF Inv

-----------------------------------------------------------------------------
LEMMA StepKeepsInv == Inv /\ [Next]_vars => Inv'
<1> SUFFICES ASSUME Inv, [Next]_vars PROVE Inv'
  OBVIOUS
<1>1. ASSUME NEW d \in Domains, NextEvent(d) PROVE Inv'
  BY <1>1, NextEventKeepsInv
<1>2. CASE Produce
  BY <1>2, ProduceKeepsInv
<1>3. CASE BufferError
  BY <1>3, BufferErrorKeepsInv
<1>4. CASE Poll
  BY <1>4, ReportsKeepInv DEF Poll
<1>5. CASE FlushServes
  BY <1>5, ReportsKeepInv DEF FlushServes, loop
<1>6. CASE FlushEnds \/ Stop \/ Killed
  BY <1>6, EndsKeepInv
<1>7. ASSUME NEW entry \in queue, Delivered(entry) \/ NotDelivered(entry)
      PROVE Inv'
  BY <1>7, DeliveryKeepsInv
<1>8. CASE UNCHANGED vars
  <2>1. UNCHANGED <<pc, made, recent, event, attempt, queue, log, failed,
                    givenUp, exit>>
    BY <1>8 DEF vars, loop
  <2> QED
    <3>1. TypeOK' /\ QueueFinite' /\ HandEmpty' /\ FlushedEmpty'
      BY <2>1 DEF Inv, TypeOK, QueueFinite, HandEmpty, FlushedEmpty
    <3>2. IdsDrawn' /\ RepeatsAreVerbatim'
      BY <2>1, SightingsNow, VerbatimStays
    <3>3. AckedWritten' /\ Accounted'
      BY <2>1 DEF Inv, AckedWritten, Accounted, OnBroker, Interrupted, Queued
    <3> QED
      BY <3>1, <3>2, <3>3 DEF Inv
<1> QED
  BY <1>1, <1>2, <1>3, <1>4, <1>5, <1>6, <1>7, <1>8 DEF Next, Producer

THEOREM InvHolds == Spec => []Inv
<1>1. Init => Inv
  BY InitEstablishesInv
<1>2. Inv /\ [Next]_vars => Inv'
  BY StepKeepsInv
<1> QED
  BY <1>1, <1>2, PTL DEF Spec

(* The ring, the queue and the attempts keep their bounds, for every size  *)
(* the producer is given.                                                  *)
THEOREM TypeCorrect == Spec => []TypeOK
<1>1. Inv => TypeOK
  BY DEF Inv
<1> QED
  BY <1>1, InvHolds, PTL

(* Two sendings of one event_id are the same event.                        *)
THEOREM RepeatsAreVerbatimHolds == Spec => []RepeatsAreVerbatim
<1>1. Inv => RepeatsAreVerbatim
  BY DEF Inv
<1> QED
  BY <1>1, InvHolds, PTL

(* A run that flushed has left nothing behind.                             *)
THEOREM NothingLeftBehindHolds == Spec => []NothingLeftBehind
<1>1. Inv => NothingLeftBehind
  BY DEF Inv, Accounted, FlushedEmpty, Queued, NothingLeftBehind
<1> QED
  BY <1>1, InvHolds, PTL
===============================================================================
