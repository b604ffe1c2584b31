---------------------------- MODULE KafkaProducer ----------------------------
(***************************************************************************)
(* kafka/producer/producer.py: the loop that generates an event, perhaps   *)
(* spoils, backdates or repeats one (event_generator.py), hands it to      *)
(* librdkafka with a few attempts on BufferError, serves the delivery      *)
(* reports with poll(0), and flushes for 30 seconds at the end.            *)
(*                                                                         *)
(* From how it is used: librdkafka. Its queue holds a message from         *)
(* produce() until poll() or flush() has served its delivery report, a     *)
(* thread of its own writes the messages of a topic in order, and an       *)
(* idempotent producer writes none twice. A call is one turn of the loop,  *)
(* numbered from 1; "sent %d" and the other log lines are left out.        *)
(***************************************************************************)
EXTENDS Naturals, Sequences, FiniteSets

CONSTANTS
    Domains,     \* domains the producer was started for
    RecentSize,  \* 50 events of each domain may be repeated
    MaxAttempts, \* 5 calls of produce() for one event
    QueueSize,   \* queue.buffering.max.messages of librdkafka
    MaxCalls,    \* bound: turns of the loop
    NoEvent      \* no event in hand

Calls == 1 .. MaxCalls

(* id and time name the call that drew the event_id and the timestamp;     *)
(* kind is what make_malformed did.                                        *)
Kinds == {"valid", "drop_required_field", "wrong_type", "unknown_field"}
Event == [id : Calls, domain : Domains, kind : Kinds, late : BOOLEAN]
Record == [call : Calls, event : Event]
Entry == [call : Calls, event : Event, status : {"waiting", "acked", "failed"}]

ASSUME SizesAssumption ==
    /\ {RecentSize, MaxAttempts, QueueSize} \subseteq Nat \ {0}
    /\ MaxCalls \in Nat
ASSUME NoEventAssumption == NoEvent \notin Event

VARIABLES
    pc,        \* where run() is: "loop", "send", "poll", "flush", "done"
    made,      \* events generated, the number of the current call
    recent,    \* recent_by_domain
    event,     \* the event produce_one() was called with
    attempt,   \* of call_with_backoff
    queue,     \* librdkafka's queue: entries whose report is not served yet
    log,       \* log[d]: what the broker holds of topic_name(d)
    failed,    \* history: calls whose delivery_report() had an error
    givenUp,   \* history: calls produce_one() gave up on
    exit       \* history: how the process ended, or "running"

loop == <<pc, made, recent, event, attempt>>
vars == <<loop, queue, log, failed, givenUp, exit>>

TypeOK ==
    /\ pc \in {"loop", "send", "poll", "flush", "done"}
    /\ made \in 0 .. MaxCalls
    /\ recent \in [Domains -> Seq(Event)]
    /\ \A d \in Domains : Len(recent[d]) <= RecentSize
    /\ event \in Event \cup {NoEvent}
    /\ (pc = "send") => event # NoEvent
    /\ attempt \in 1 .. MaxAttempts
    /\ queue \subseteq Entry
    /\ Cardinality(queue) <= QueueSize
    /\ log \in [Domains -> Seq(Record)]
    /\ failed \subseteq Calls
    /\ givenUp \subseteq Calls
    /\ exit \in {"running", "flushed", "timed_out", "killed"}

Init ==
    /\ pc = "loop"
    /\ made = 0
    /\ recent = [d \in Domains |-> <<>>]
    /\ event = NoEvent
    /\ attempt = 1
    /\ queue = {}
    /\ log = [d \in Domains |-> <<>>]
    /\ failed = {}
    /\ givenUp = {}
    /\ exit = "running"

-----------------------------------------------------------------------------
(* The generator.                                                          *)

(* GENERATORS[domain](): every one starts from _envelope, which draws a    *)
(* fresh event_id and the current time.                                    *)
Generate(d) ==
    [id |-> made + 1, domain |-> d, kind |-> "valid", late |-> FALSE]

(* make_malformed and make_late change a copy.                             *)
MakeMalformed(e) == {[e EXCEPT !.kind = k] : k \in Kinds \ {"valid"}}
MakeLate(e) == [e EXCEPT !.late = TRUE]

(* recent.append(event) and, above 50 events, recent.pop(0).               *)
RememberOneLess(ring, e) == \* mutant: len(recent) checked before the append
    IF Len(ring) > RecentSize THEN Append(Tail(ring), e) ELSE Append(ring, e)
Remember(ring, e) ==
    LET longer == Append(ring, e)
    IN  IF Len(longer) > RecentSize THEN Tail(longer) ELSE longer

(* The top of the loop: the three rates decide among the branches; the     *)
(* event that a repeat replaces is not sent in this call.                  *)
NextEventRemembersFirst(d) == \* mutant: every event is remembered, then spoilt
    LET fresh == Generate(d)
        ring  == Remember(recent[d], fresh)
    IN  /\ pc = "loop"
        /\ made < MaxCalls
        /\ recent' = [recent EXCEPT ![d] = ring]
        /\ event' \in MakeMalformed(fresh) \cup {MakeLate(fresh)}
                      \cup {ring[i] : i \in DOMAIN ring}
        /\ made' = made + 1
        /\ attempt' = 1
        /\ pc' = "send"
        /\ UNCHANGED <<queue, log, failed, givenUp, exit>>
NextEvent(d) ==
    LET fresh == Generate(d)
        ring  == Remember(recent[d], fresh)
    IN  /\ pc = "loop"
        /\ made < MaxCalls
        /\ \/ /\ event' \in MakeMalformed(fresh) \cup {MakeLate(fresh)}
              /\ UNCHANGED recent
           \/ /\ event' \in {ring[i] : i \in DOMAIN ring}
              /\ recent' = [recent EXCEPT ![d] = ring]
        /\ made' = made + 1
        /\ attempt' = 1
        /\ pc' = "send"
        /\ UNCHANGED <<queue, log, failed, givenUp, exit>>

-----------------------------------------------------------------------------
(* produce_one() and the rest of the loop.                                 *)

Produce ==
    /\ pc = "send"
    /\ Cardinality(queue) < QueueSize
    /\ queue' = queue \cup
         {[call |-> made, event |-> event, status |-> "waiting"]}
    /\ event' = NoEvent
    /\ pc' = "poll"
    /\ UNCHANGED <<made, recent, attempt, log, failed, givenUp, exit>>

(* produce() raises BufferError; call_with_backoff sleeps and tries again, *)
(* without a poll(), and after the last attempt produce_one() logs and     *)
(* returns.                                                                *)
BufferErrorForever == \* mutant: the attempts are not counted
    /\ pc = "send"
    /\ Cardinality(queue) = QueueSize
    /\ UNCHANGED vars
BufferError ==
    /\ pc = "send"
    /\ Cardinality(queue) = QueueSize
    /\ IF attempt < MaxAttempts
       THEN /\ attempt' = attempt + 1
            /\ UNCHANGED <<pc, event, givenUp>>
       ELSE /\ givenUp' = givenUp \cup {made}
            /\ event' = NoEvent
            /\ pc' = "poll"
            /\ UNCHANGED attempt
    /\ UNCHANGED <<made, recent, queue, log, failed, exit>>

(* The reports poll() and flush() serve: the entries leave the queue, and  *)
(* delivery_report() logs the errors.                                      *)
Waiting(entry) == entry.status = "waiting"
ServeReports ==
    /\ queue' = {entry \in queue : Waiting(entry)}
    /\ failed' = failed \cup
         {entry.call : entry \in {x \in queue : x.status = "failed"}}

Poll ==
    /\ pc = "poll"
    /\ ServeReports
    /\ pc' = "loop"
    /\ UNCHANGED <<made, recent, event, attempt, log, givenUp, exit>>

(* The duration is over, or Ctrl+C: wherever the loop is, the finally      *)
(* clause runs. Between two attempts the event stays in hand for good.     *)
StopWithoutFlush == \* mutant: Ctrl+C ends the process at once
    /\ pc \in {"loop", "send", "poll"}
    /\ pc' = "done"
    /\ exit' = "flushed"
    /\ UNCHANGED <<made, recent, event, attempt, queue, log, failed, givenUp>>
Stop ==
    /\ pc \in {"loop", "send", "poll"}
    /\ pc' = "flush"
    /\ UNCHANGED <<made, recent, event, attempt, queue, log, failed, givenUp,
                   exit>>

(* flush(30) serves reports until the queue is empty or the time is over.  *)
FlushServes ==
    /\ pc = "flush"
    /\ \E entry \in queue : ~Waiting(entry)
    /\ ServeReports
    /\ UNCHANGED <<loop, log, givenUp, exit>>

FlushEnds ==
    /\ pc = "flush"
    /\ pc' = "done"
    /\ exit' = IF queue = {} THEN "flushed" ELSE "timed_out"
    /\ UNCHANGED <<made, recent, event, attempt, queue, log, failed, givenUp>>

-----------------------------------------------------------------------------
(* librdkafka, the brokers and the operating system.                       *)

(* The first message of its topic that is still waiting.                   *)
NextInTopic(entry) ==
    /\ Waiting(entry)
    /\ \A x \in queue :
         Waiting(x) /\ x.event.domain = entry.event.domain => entry.call <= x.call

Write(entry) ==
    log' = [log EXCEPT ![entry.event.domain] =
              Append(@, [call |-> entry.call, event |-> entry.event])]

Report(entry, status) ==
    queue' = (queue \ {entry}) \cup {[entry EXCEPT !.status = status]}

(* acks=all: every replica in sync has it.                                 *)
Delivered(entry) ==
    /\ pc # "done"
    /\ NextInTopic(entry)
    /\ Write(entry)
    /\ Report(entry, "acked")
    /\ UNCHANGED <<loop, failed, givenUp, exit>>

(* The retries of librdkafka are over; the broker may hold the message and *)
(* only the acknowledgement be missing.                                    *)
NotDelivered(entry) ==
    /\ pc # "done"
    /\ NextInTopic(entry)
    /\ Write(entry) \/ UNCHANGED log
    /\ Report(entry, "failed")
    /\ UNCHANGED <<loop, failed, givenUp, exit>>

Killed ==
    /\ pc # "done"
    /\ pc' = "done"
    /\ exit' = "killed"
    /\ UNCHANGED <<made, recent, event, attempt, queue, log, failed, givenUp>>

-----------------------------------------------------------------------------
Producer ==
    \/ \E d \in Domains : NextEvent(d)
    \/ Produce \/ BufferError \/ Poll
    \/ FlushServes \/ FlushEnds

Next ==
    \/ Producer
    \/ Stop \/ Killed
    \/ \E entry \in queue : Delivered(entry) \/ NotDelivered(entry)

Spec == Init /\ [][Next]_vars

(* The thread that runs the loop is scheduled; nothing is assumed of the   *)
(* brokers, nor that the loop is ever stopped.                             *)
FairSpec == Spec /\ WF_vars(Producer)

-----------------------------------------------------------------------------
(* Properties.                                                             *)

(* Two sendings of one event_id are the same event, timestamp and body:    *)
(* malformed and backdated variants never share the id of an event that    *)
(* may be repeated, wherever the two are: on the broker, on their way, in  *)
(* hand or in recent_by_domain. The deduplication downstream keeps         *)
(* whichever copy it sees first and relies on this.                        *)
Sightings ==
    ({event} \ {NoEvent})
    \cup (UNION {{recent[d][i] : i \in DOMAIN recent[d]} : d \in Domains})
    \cup {entry.event : entry \in queue}
    \cup (UNION {{log[d][i].event : i \in DOMAIN log[d]} : d \in Domains})
RepeatsAreVerbatim ==
    \A e, f \in Sightings : e.id = f.id => e = f

(* A run whose flush emptied the queue has left nothing behind: every call *)
(* of produce_one() is on the broker, was reported as failed, was given up *)
(* in the log, or is the one that Ctrl+C interrupted.                      *)
OnBroker == UNION {{log[d][i].call : i \in DOMAIN log[d]} : d \in Domains}
Interrupted == IF event = NoEvent THEN {} ELSE {made}
NothingLeftBehind ==
    exit = "flushed" =>
      1 .. made \subseteq OnBroker \cup failed \cup givenUp \cup Interrupted

(* A full queue never holds the loop: every event in hand is accepted or   *)
(* given up, even if no broker ever answers again.                         *)
SendReturns == (pc = "send") ~> (pc # "send")
=============================================================================
