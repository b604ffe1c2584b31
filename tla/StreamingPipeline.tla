--------------------------- MODULE StreamingPipeline ---------------------------
(***************************************************************************)
(* dataflow/pipelines/streaming_pipeline.py for one domain, from its       *)
(* Pub/Sub subscription through ParseAndValidate, the event-time windows   *)
(* and DeduplicateByEventId to the Bronze table, and the scheduled MERGE   *)
(* of bigquery/sql/silver/ from there to the Silver table.                 *)
(*                                                                         *)
(* From how they are used: the subscription, the runner (watermark, state, *)
(* stop and launch of the job) and the BigQuery sink. Time is in ticks; a *)
(* tick is any unit that divides the durations of the code.                *)
(***************************************************************************)
EXTENDS Naturals

CONSTANTS
    Events,     \* event_ids
    Malformed,  \* those whose payload fails decode or validation
    Untimed,    \* those whose event_timestamp is a string, but not ISO 8601
    Unwritable, \* well-formed ones whose row BigQuery refuses every time
    Window,     \* WINDOW_SIZE_SECONDS
    Lateness,   \* ALLOWED_LATENESS_SECONDS
    Lookback,   \* INTERVAL 26 HOUR of the MERGE
    MergeEvery, \* period of the scheduled query
    MaxLate,    \* assumption: how old an event is at most when published
    MaxLag,     \* assumption: how long a message waits in the subscription
    MaxTime,    \* bound: the clock
    MaxCopies,  \* bound: publications of one event
    MaxRetries, \* bound: repeated inserts of one row
    MaxStops    \* bound: drains and cancels of the job

Timed == Events \ (Malformed \cup Untimed)

ASSUME KindsAssumption == Malformed \cap Untimed = {} /\ Unwritable \subseteq Timed
ASSUME BoundsAssumption ==
    /\ Window \in Nat \ {0}
    /\ {Lateness, Lookback, MergeEvery, MaxLate, MaxLag} \subseteq Nat
    /\ {MaxTime, MaxCopies, MaxRetries, MaxStops} \subseteq Nat

Message == [event : Events, copy : 1 .. MaxCopies, pub : 0 .. MaxTime]

VARIABLES
    now,        \* the clock
    eventTime,  \* eventTime[e]: event_timestamp
    published,  \* published[e]: how often the bridge has published e
    pending,    \* messages the subscription holds: not acknowledged
    failing,    \* those of them in a bundle that raises whenever it is retried
    job,        \* "running" or "stopped"
    wm,         \* watermark of the job
    seen,       \* DeduplicateByEventId.SEEN, by event
    staged,     \* rows on their way to Bronze
    held,       \* those of them retried in vain, or behind such a row
    bronze,     \* bronze[e]: rows of e in supplychain_bronze
    silver,     \* silver[e]: rows of e in supplychain_silver
    dlq,        \* events in the DLQ topic
    dropped,    \* history: messages dropped as late
    retries,    \* history: retries[e], repeated inserts of e
    stops,      \* history: drains and cancels of the job
    lost,       \* history: events whose row a cancel discarded
    sinceMerge  \* ticks since the last MERGE

clock  == <<now, sinceMerge>>
source == <<eventTime, published>>
ends   == <<stops, lost>>
input  == <<pending, failing>>
dedup  == <<seen, staged, held>>
sink   == <<bronze, retries>>
vars == <<clock, source, input, job, ends, wm, dedup, sink, silver, dlq, dropped>>

TypeOK ==
    /\ now \in 0 .. MaxTime
    /\ eventTime \in [Events -> 0 .. MaxTime]
    /\ published \in [Events -> 0 .. MaxCopies]
    /\ pending \subseteq Message
    /\ failing \subseteq pending
    /\ job \in {"running", "stopped"}
    /\ wm \in 0 .. MaxTime
    /\ seen \subseteq Timed
    /\ staged \subseteq Timed
    /\ held \subseteq staged
    /\ bronze \in [Events -> Nat]
    /\ silver \in [Events -> Nat]
    /\ dlq \subseteq Malformed
    /\ dropped \subseteq Message
    /\ retries \in [Events -> 0 .. MaxRetries]
    /\ stops \in 0 .. MaxStops
    /\ lost \subseteq Timed
    /\ sinceMerge \in 0 .. MergeEvery

Init ==
    /\ now = 0
    /\ eventTime \in [Events -> 0 .. MaxTime]
    /\ published = [e \in Events |-> 0]
    /\ pending = {}
    /\ failing = {}
    /\ job = "running"
    /\ wm = 0
    /\ seen = {}
    /\ staged = {}
    /\ held = {}
    /\ bronze = [e \in Events |-> 0]
    /\ silver = [e \in Events |-> 0]
    /\ dlq = {}
    /\ dropped = {}
    /\ retries = [e \in Events |-> 0]
    /\ stops = 0
    /\ lost = {}
    /\ sinceMerge = 0

-----------------------------------------------------------------------------
(* Around the job: the clock, the bridge, the watermark.                   *)

(* The assumptions on time: a message waits at most MaxLag ticks for the   *)
(* job and a row at most one tick for the sink, those retried in vain and  *)
(* those beside them excepted; the MERGE runs every MergeEvery ticks.      *)
Tick ==
    /\ now < MaxTime
    /\ sinceMerge < MergeEvery
    /\ staged = held
    /\ \A m \in pending \ failing : m.event \notin Untimed => m.pub + MaxLag > now
    /\ now' = now + 1
    /\ sinceMerge' = sinceMerge + 1
    /\ UNCHANGED <<source, input, job, ends, wm, dedup, sink, silver, dlq, dropped>>

(* The bridge publishes e, or publishes it again with the same timestamp.  *)
Publish(e) ==
    /\ published[e] < MaxCopies
    /\ eventTime[e] <= now
    /\ now <= eventTime[e] + MaxLate
    /\ published' = [published EXCEPT ![e] = @ + 1]
    /\ pending' = pending \cup
         {[event |-> e, copy |-> published[e] + 1, pub |-> now]}
    /\ UNCHANGED <<clock, eventTime, failing, job, ends, wm, dedup, sink, silver,
                   dlq, dropped>>

(* FixedWindows(WINDOW_SIZE_SECONDS) with allowed_lateness, against the    *)
(* watermark w: the window of e is gone.                                   *)
WindowEnd(e) == (eventTime[e] \div Window + 1) * Window
ExpiredAtWindowEnd(e, w) == WindowEnd(e) <= w \* mutant: no lateness
ExpiredAt(e, w) == WindowEnd(e) + Lateness <= w

(* Mutant of Collected: the state goes when the window closes.             *)
CollectedEarly(w) == {e \in Events : ExpiredAtWindowEnd(e, w)}

(* The events whose state the runner collects with their window.           *)
Collected(w) == {e \in Events : ExpiredAt(e, w)}

(* The watermark of a Pub/Sub source stays behind the publish time of what *)
(* it has not delivered yet.                                               *)
WatermarkMayBe(w) == \A m \in pending : w <= m.pub

AdvanceWatermark ==
    /\ job = "running"
    /\ \E w \in wm + 1 .. now :
         /\ WatermarkMayBe(w)
         /\ wm' = w
         /\ seen' = seen \ Collected(w)
    /\ UNCHANGED <<clock, source, input, job, ends, staged, held, sink, silver, dlq,
                   dropped>>

-----------------------------------------------------------------------------
(* ParseAndValidate, the windows and DeduplicateByEventId, on one message. *)

Take(m) ==
    /\ job = "running"
    /\ m \notin failing
    /\ pending' = pending \ {m}
    /\ failing' = failing

(* Mutant of ReadMalformed: no return after the DLQ output.                *)
ReadMalformedKept(m) ==
    /\ m.event \in Malformed
    /\ Take(m)
    /\ dlq' = dlq \cup {m.event}
    /\ staged' = staged \cup {m.event}
    /\ UNCHANGED <<clock, source, job, ends, wm, seen, held, sink, silver, dropped>>

ReadMalformed(m) ==
    /\ m.event \in Malformed
    /\ Take(m)
    /\ dlq' = dlq \cup {m.event}
    /\ UNCHANGED <<clock, source, job, ends, wm, dedup, sink, silver, dropped>>

(* The schema's "format" is not checked, so the timestamp passes           *)
(* validate_event and datetime.fromisoformat raises. That fails the bundle *)
(* the runner has put the message in, and a streaming job retries a bundle *)
(* for ever: none of its messages is acknowledged, none has an effect.     *)
ReadUntimed(m) ==
    /\ job = "running"
    /\ m.event \in Untimed
    /\ m \notin failing
    /\ \E neighbours \in SUBSET pending :
         failing' = failing \cup neighbours \cup {m}
    /\ UNCHANGED <<clock, source, pending, job, ends, wm, dedup, sink, silver,
                   dlq, dropped>>

(* The runner drops an element of an expired window at the first stateful  *)
(* step.                                                                   *)
ReadLate(m) ==
    /\ m.event \in Timed
    /\ ExpiredAt(m.event, wm)
    /\ Take(m)
    /\ dropped' = dropped \cup {m}
    /\ UNCHANGED <<clock, source, job, ends, wm, dedup, sink, silver, dlq>>

ReadDuplicate(m) ==
    /\ m.event \in Timed
    /\ ~ExpiredAt(m.event, wm)
    /\ m.event \in seen
    /\ Take(m)
    /\ UNCHANGED <<clock, source, job, ends, wm, dedup, sink, silver, dlq, dropped>>

ReadNew(m) ==
    /\ m.event \in Timed
    /\ ~ExpiredAt(m.event, wm)
    /\ m.event \notin seen
    /\ Take(m)
    /\ seen' = seen \cup {m.event}
    /\ staged' = staged \cup {m.event}
    /\ UNCHANGED <<clock, source, job, ends, wm, held, sink, silver, dlq, dropped>>

-----------------------------------------------------------------------------
(* WriteToBigQuery with STREAMING_INSERTS: a row is inserted, or inserted  *)
(* more than once when an attempt is repeated.                             *)

Insert(e) ==
    /\ e \in staged \ (held \cup Unwritable)
    /\ staged' = staged \ {e}
    /\ bronze' = [bronze EXCEPT ![e] = @ + 1]
    /\ UNCHANGED <<clock, source, input, job, ends, wm, seen, held, retries, silver,
                   dlq, dropped>>

InsertRepeated(e) ==
    /\ e \in staged \ (held \cup Unwritable)
    /\ retries[e] < MaxRetries
    /\ retries' = [retries EXCEPT ![e] = @ + 1]
    /\ bronze' = [bronze EXCEPT ![e] = @ + 1]
    /\ UNCHANGED <<clock, source, input, job, ends, wm, dedup, silver, dlq, dropped>>

(* The call names no insert_retry_strategy, and Beam's default retries a   *)
(* refused row in place, whatever the error: it does not come out of       *)
(* failed_rows_with_errors, and the rows behind it in its bundle wait.     *)
InsertRefused(e) ==
    /\ e \in (staged \cap Unwritable) \ held
    /\ \E behind \in SUBSET staged : held' = held \cup behind \cup {e}
    /\ UNCHANGED <<clock, source, input, job, ends, wm, seen, staged, sink, silver,
                   dlq, dropped>>

Stop ==
    /\ job = "running"
    /\ stops < MaxStops
    /\ job' = "stopped"
    /\ stops' = stops + 1
    /\ failing' = {}
    /\ seen' = {}
    /\ staged' = {}
    /\ held' = {}

(* `gcloud dataflow jobs drain`: what the job has taken reaches the sink   *)
(* first, so a job with a bundle it retries for ever does not drain; its   *)
(* state is gone.                                                          *)
Drain ==
    /\ failing = {}
    /\ staged = {}
    /\ Stop
    /\ UNCHANGED <<clock, source, pending, wm, sink, lost, silver, dlq, dropped>>

(* `gcloud dataflow jobs cancel`: what is under way is gone, acknowledged  *)
(* and not written. A bundle that failed stays with the subscription.      *)
Cancel ==
    /\ Stop
    /\ lost' = lost \cup staged
    /\ UNCHANGED <<clock, source, pending, wm, sink, silver, dlq, dropped>>

(* deploy_dataflow_pipeline.sh finds no running job and launches afresh:   *)
(* nothing of the old job's watermark is left.                             *)
Launch ==
    /\ job = "stopped"
    /\ job' = "running"
    /\ \E w \in 0 .. now : WatermarkMayBe(w) /\ wm' = w
    /\ UNCHANGED <<clock, source, input, ends, dedup, sink, silver, dlq, dropped>>

-----------------------------------------------------------------------------
(* The scheduled MERGE: one source row per event_id of the rows that are   *)
(* recent enough, inserted when the target has none.                       *)
RecentByHalf(e) == now <= eventTime[e] + Lookback \div 2 \* mutant of Recent
Recent(e) == now <= eventTime[e] + Lookback

SourceRows(e) == IF Recent(e) /\ bronze[e] > 0 THEN 1 ELSE 0

Inserted(e) == IF silver[e] = 0 THEN SourceRows(e) ELSE 0

Merge ==
    /\ silver' = [e \in Events |-> silver[e] + Inserted(e)]
    /\ sinceMerge' = 0
    /\ UNCHANGED <<now, source, input, job, ends, wm, dedup, sink, dlq, dropped>>

-----------------------------------------------------------------------------
Read(m) ==
    \/ ReadMalformed(m)
    \/ ReadUntimed(m)
    \/ ReadLate(m)
    \/ ReadDuplicate(m)
    \/ ReadNew(m)

Write(e) == Insert(e) \/ InsertRepeated(e) \/ InsertRefused(e)

Next ==
    \/ Tick
    \/ \E e \in Events : Publish(e)
    \/ AdvanceWatermark
    \/ \E m \in pending : Read(m)
    \/ \E e \in staged : Write(e)
    \/ Drain
    \/ Cancel
    \/ Launch
    \/ Merge

Spec == Init /\ [][Next]_vars

(* The subscription delivers to a running job what is not in a failing     *)
(* bundle, the sink tries the rows that wait behind nothing, the query is  *)
(* scheduled. That a stopped job is launched again is an assumption about  *)
(* its operators; that a stuck job is stopped is not assumed.              *)
Fairness ==
    /\ \A e \in Timed : WF_vars(\E m \in pending : m.event = e /\ Read(m))
    /\ \A e \in Timed : WF_vars(Insert(e) \/ InsertRefused(e))
    /\ WF_vars(Merge)
    /\ WF_vars(Launch)

FairSpec == Spec /\ Fairness

-----------------------------------------------------------------------------
(* However often an event is published, across redeliveries, repeated      *)
(* inserts and stopped jobs, the MERGE gives Silver at most one row of it. *)
SilverOnePerEvent == \A e \in Events : silver[e] <= 1

(* Deduplication state may be collected with its window, because late data *)
(* is dropped from the same moment: a second Bronze row of an event needs  *)
(* a repeated insert or a stopped job.                                     *)
BronzeCopiesHaveCause == \A e \in Events : bronze[e] <= 1 + stops + retries[e]

(* The watermark drops an event only for the time before it was published: *)
(* never because the subscription had a backlog or the job was stopped.    *)
DroppedWasLate ==
    \A m \in dropped : eventTime[m.event] + Lateness < m.pub

(* A MERGE leaves no event of Bronze without its row in Silver: "SAME      *)
(* grain as Bronze". It needs the lookback to cover everything that delays *)
(* a row on its way to Bronze.                                             *)
EveryMergeCatchesUp ==
    [][Merge => \A e \in Events : bronze[e] > 0 => silver'[e] = 1]_vars

(* The event's message is in a bundle that fails, or its row at the sink   *)
(* is refused or waits behind one that is.                                 *)
Stuck(e) == e \in held \/ \E m \in failing : m.event = e

=============================================================================
