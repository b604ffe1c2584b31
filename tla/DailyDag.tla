------------------------------- MODULE DailyDag -------------------------------
(***************************************************************************)
(* The daily Airflow DAG of the batch platform: the task graph             *)
(* airflow/dags/dag_builder.py builds from the configuration, the          *)
(* operators, trigger rules and batch ids airflow/dags/                    *)
(* supply_chain_daily.py gives to the tasks, and the sensor of             *)
(* airflow/plugins/scb/sensors.py.                                         *)
(*                                                                         *)
(* From how they are used: Airflow (scheduler, retries, lost workers, the  *)
(* state of a run, which it takes from the leaves of the graph) and        *)
(* Dataproc Serverless, where a batch id is used once:                     *)
(* DataprocCreateBatchOperator attaches to a batch that already has its id *)
(* and ends as that batch ended. What a task does inside is BatchIngestion *)
(* and SilverJob; here it moves the drops of the sources one layer on, and *)
(* a Spark job of silver_job.py or gold_job.py reads before it writes.     *)
(***************************************************************************)
EXTENDS Naturals

CONSTANTS
    Sources,    \* SOURCES
    FileBased,  \* those with a landing directory and a sensor
    Silver,     \* keys of SILVER_ENTITIES
    SourceOf,   \* SILVER_ENTITIES
    Gold,       \* keys of GOLD_ENTITIES
    DepsOf,     \* GOLD_ENTITIES, the Silver entities a Gold one reads
    Tries,      \* retries + 1
    MaxDays,    \* bound: days
    MaxClears   \* bound: tasks cleared in the UI, with what depends on them

Days == 1 .. MaxDays

ASSUME SourcesAssumption ==
    FileBased \subseteq Sources /\ SourceOf \in [Silver -> Sources]
ASSUME DepsAssumption == DOMAIN DepsOf = Gold
ASSUME DagBoundsAssumption ==
    /\ Tries \in Nat \ {0}
    /\ {MaxDays, MaxClears} \subseteq Nat

-----------------------------------------------------------------------------
(* dag_builder.build_pipeline.                                             *)

Task(kind, name) == [kind |-> kind, name |-> name]
start   == Task("marker", "start")
end     == Task("marker", "end")
dimDate == Task("gold", "dim_date")

Sensors     == {Task("sensor", s) : s \in FileBased}
Ingests     == {Task("ingest", s) : s \in Sources}
SilverTasks == {Task("silver", e) : e \in Silver}
GoldTasks   == {Task("gold", g) : g \in Gold}
ASSUME NamesAssumption == dimDate \notin GoldTasks
Tasks == {start, end, dimDate} \cup Sensors \cup Ingests \cup SilverTasks
           \cup GoldTasks

(* TaskSpec.upstream; a dependency no Silver task builds is left out.      *)
UpstreamOf(t) ==
    {u \in Tasks :
       \/ t = end /\ u \in GoldTasks \cup {dimDate}
       \/ t \in {dimDate} \cup Sensors /\ u = start
       \/ t \in Ingests
            /\ u = IF t.name \in FileBased THEN Task("sensor", t.name) ELSE start
       \/ t \in SilverTasks /\ u = Task("ingest", SourceOf[t.name])
       \/ t \in GoldTasks /\ u \in {Task("silver", e) : e \in DepsOf[t.name]}
       \/ t \in GoldTasks /\ DepsOf[t.name] \cap Silver = {} /\ u = start}
UpstreamNoGoldDeps == \* mutant: Gold hangs off start
    [t \in Tasks |-> IF t \in GoldTasks THEN {start} ELSE UpstreamOf(t)]
Upstream == [t \in Tasks |-> UpstreamOf(t)]

(* edges().                                                                *)
Edges == {e \in Tasks \X Tasks : e[1] \in Upstream[e[2]]}
Leaves == {t \in Tasks : \A e \in Edges : e[1] # t}

(* The tasks Airflow clears together with t.                               *)
Downstream ==
    [t \in Tasks |->
       {u \in Tasks :
          \A S \in SUBSET Tasks :
            t \in S /\ (\A e \in Edges : e[1] \in S => e[2] \in S) => u \in S}]

-----------------------------------------------------------------------------
(* What moves through the layers: the rows a source delivers for a day.    *)
Drop == [source : Sources, day : Days]

PythonTasks == Ingests \cup {dimDate}
BatchTasks  == SilverTasks \cup GoldTasks

(* f"scb-silver-{entity}-{{ ds_nodash }}": the day, not the try.           *)
BatchIdOfTry(t, d, n) == <<t, d, n>> \* mutant: {{ try_number }} in the id
BatchId(t, d, n) == <<t, d, 0>>

VARIABLES
    today,   \* the last day whose schedule has come
    runs,    \* runs[d]: the DAG run of day d
    ti,      \* ti[d][t]: state of the task instance
    tries,   \* tries[d][t]: times it was started, until it has ended
    batch,   \* batch[id]: what Dataproc knows of the ids used so far
    read,    \* the drops a batch has read and not written, <<id, drop>>
    orphans, \* history: batches whose task failed while they were running
    landing, \* drops the sources have delivered
    bronze,  \* drops in Bronze
    refused, \* drops whose files are audited as failed
    silver,  \* silver[e]: drops merged into the entity
    gold,    \* gold[g]: drops in the fact table
    byOrphan, \* history: fact tables an orphan was the last to overwrite
    clears   \* history: tasks cleared

dag      == <<today, runs, ti, tries, clears>>
dataproc == <<batch, read, orphans>>
facts    == <<gold, byOrphan>>
layers   == <<bronze, refused, silver, facts>>
vars == <<dag, dataproc, landing, layers>>

Finished == {"success", "failed", "upstream_failed"}
TiStates == {"none", "running", "up_for_retry"} \cup Finished

Phases  == {"created", "read", "written"}
Running == {id \in DOMAIN batch : batch[id] \in Phases}
Readers == {id \in DOMAIN batch : batch[id] = "read"}

TypeOK ==
    /\ today \in 0 .. MaxDays
    /\ runs \in [Days -> {"none", "running", "success", "failed"}]
    /\ ti \in [Days -> [Tasks -> TiStates]]
    /\ tries \in [Days -> [Tasks -> 0 .. Tries]]
    /\ DOMAIN batch \subseteq BatchTasks \X Days \X (0 .. Tries)
    /\ batch \in [DOMAIN batch -> Phases \cup {"succeeded", "failed"}]
    /\ read \subseteq Readers \X bronze
    /\ orphans \subseteq DOMAIN batch
    /\ landing \subseteq Drop
    /\ bronze \subseteq landing
    /\ refused \subseteq landing
    /\ silver \in [Silver -> SUBSET bronze]
    /\ gold \in [Gold -> SUBSET bronze]
    /\ byOrphan \subseteq Gold
    /\ clears \in 0 .. MaxClears

Init ==
    /\ today = 0
    /\ runs = [d \in Days |-> "none"]
    /\ ti = [d \in Days |-> [t \in Tasks |-> "none"]]
    /\ tries = [d \in Days |-> [t \in Tasks |-> 0]]
    /\ batch = << >>
    /\ read = {}
    /\ orphans = {}
    /\ landing = {}
    /\ bronze = {}
    /\ refused = {}
    /\ silver = [e \in Silver |-> {}]
    /\ gold = [g \in Gold |-> {}]
    /\ byOrphan = {}
    /\ clears = 0

-----------------------------------------------------------------------------
(* The sources and the calendar.                                           *)

(* A JDBC source has its rows of the day at once, a file source delivers   *)
(* them and the marker later, or never. Assumption: the files are complete *)
(* when the marker is there.                                               *)
NextDay ==
    /\ today < MaxDays
    /\ today' = today + 1
    /\ landing' = landing \cup
         [source : Sources \ FileBased, day : {today + 1}]
    /\ UNCHANGED <<runs, ti, tries, clears, dataproc, layers>>

Arrive(s) ==
    /\ today > 0
    /\ landing' = landing \cup {[source |-> s, day |-> today]}
    /\ UNCHANGED <<dag, dataproc, layers>>

-----------------------------------------------------------------------------
(* The scheduler.                                                          *)

(* catchup=False: only the last day is scheduled, others are left out for  *)
(* good; max_active_runs=1.                                                *)
Schedule ==
    /\ today > 0
    /\ runs[today] = "none"
    /\ \A d \in Days : runs[d] # "running"
    /\ runs' = [runs EXCEPT ![today] = "running"]
    /\ UNCHANGED <<today, ti, tries, clears, dataproc, landing, layers>>

(* TriggerRule.ALL_DONE of end, ALL_SUCCESS of the rest.                   *)
Triggered(d, t) ==
    \A u \in Upstream[t] :
        IF t = end THEN ti[d][u] \in Finished ELSE ti[d][u] = "success"

Ready(d, t) ==
    /\ runs[d] = "running"
    /\ ti[d][t] \in {"none", "up_for_retry"}
    /\ Triggered(d, t)

Ends(d, t, state) ==
    /\ ti' = [ti EXCEPT ![d][t] = state]
    /\ tries' = [tries EXCEPT ![d][t] = 0]

(* "retries": 2.                                                           *)
FailsOrRetriesOnceMore(d, t, n) == \* mutant: retries counted from 0
    IF n <= Tries
    THEN /\ ti' = [ti EXCEPT ![d][t] = "up_for_retry"]
         /\ tries' = [tries EXCEPT ![d][t] = n]
    ELSE Ends(d, t, "failed")
FailsOrRetries(d, t, n) ==
    IF n < Tries
    THEN /\ ti' = [ti EXCEPT ![d][t] = "up_for_retry"]
         /\ tries' = [tries EXCEPT ![d][t] = n]
    ELSE Ends(d, t, "failed")

UpstreamFails(d, t) ==
    /\ runs[d] = "running"
    /\ ti[d][t] = "none"
    /\ t # end
    /\ \E u \in Upstream[t] : ti[d][u] \in {"failed", "upstream_failed"}
    /\ Ends(d, t, "upstream_failed")
    /\ UNCHANGED <<today, runs, clears, dataproc, landing, layers>>

(* Airflow looks at the leaves alone.                                      *)
FinishRun(d) ==
    /\ runs[d] = "running"
    /\ \A t \in Tasks : ti[d][t] \in Finished
    /\ runs' = [runs EXCEPT ![d] =
         IF \A t \in Leaves : ti[d][t] = "success" THEN "success" ELSE "failed"]
    /\ UNCHANGED <<today, ti, tries, clears, dataproc, landing, layers>>

(* Someone clears a failed task of a run that is over.                     *)
Clear(d, t) ==
    /\ runs[d] \in {"success", "failed"}
    /\ \A c \in Days : runs[c] # "running"
    /\ ti[d][t] = "failed"
    /\ clears < MaxClears
    /\ clears' = clears + 1
    /\ runs' = [runs EXCEPT ![d] = "running"]
    /\ ti' = [ti EXCEPT ![d] =
         [u \in Tasks |-> IF u \in Downstream[t] THEN "none" ELSE @[u]]]
    /\ UNCHANGED <<today, tries, dataproc, landing, layers>>

-----------------------------------------------------------------------------
(* The operators.                                                          *)

EmptyOperator(d, t) ==
    /\ Ready(d, t)
    /\ Ends(d, t, "success")
    /\ UNCHANGED <<today, runs, clears, dataproc, landing, layers>>

(* FileArrivalSensor.poke: the marker of the day exists.                   *)
Poke(d, t) ==
    /\ Ready(d, t)
    /\ [source |-> t.name, day |-> d] \in landing
    /\ Ends(d, t, "success")
    /\ UNCHANGED <<today, runs, clears, dataproc, landing, layers>>

(* timeout=60 * 60 * 2: a failure without retry.                           *)
SensorWaitsOn(d, t) == FALSE /\ UNCHANGED vars \* mutant: no timeout
SensorTimesOut(d, t) ==
    /\ Ready(d, t)
    /\ Ends(d, t, "failed")
    /\ UNCHANGED <<today, runs, clears, dataproc, landing, layers>>

(* _run_ingest loads the directory of the day, or all rows past the        *)
(* watermark; _run_dim_date rewrites the same calendar. A file that cannot *)
(* be read is audited as failed, which makes it a duplicate of itself from *)
(* then on, and the task still succeeds.                                   *)
Loaded(d, t) ==
    {x \in landing : t = Task("ingest", x.source)
                     /\ (x.source \in FileBased => x.day = d)}

PythonSucceeds(d, t) ==
    /\ Ready(d, t)
    /\ \E unread \in SUBSET {x \in Loaded(d, t) : x.source \in FileBased} :
         refused' = refused \cup (unread \ bronze)
    /\ bronze' = bronze \cup (Loaded(d, t) \ refused')
    /\ Ends(d, t, "success")
    /\ UNCHANGED <<today, runs, clears, dataproc, landing, silver, facts>>

(* It raises, or its worker is lost, before or after the last file.        *)
PythonRaises(d, t) ==
    /\ Ready(d, t)
    /\ FailsOrRetries(d, t, tries[d][t] + 1)
    /\ \E some \in SUBSET (Loaded(d, t) \ refused) : bronze' = bronze \cup some
    /\ UNCHANGED <<today, runs, clears, dataproc, landing, refused, silver,
                   facts>>

(* A worker creates the batch, or attaches to the one that has its id.     *)
CreateBatch(d, t) ==
    /\ Ready(d, t)
    /\ ti' = [ti EXCEPT ![d][t] = "running"]
    /\ tries' = [tries EXCEPT ![d][t] = @ + 1]
    /\ batch' = LET id == BatchId(t, d, tries'[d][t])
                IN  [i \in DOMAIN batch \cup {id} |->
                       IF i \in DOMAIN batch THEN batch[i] ELSE "created"]
    /\ UNCHANGED <<today, runs, clears, read, orphans, landing, layers>>

(* It waits for the batch and ends as it ended.                            *)
BatchSeen(d, t) ==
    /\ ti[d][t] = "running"
    /\ LET state == batch[BatchId(t, d, tries[d][t])]
       IN  \/ state = "succeeded" /\ Ends(d, t, "success")
           \/ state = "failed" /\ FailsOrRetries(d, t, tries[d][t])
    /\ UNCHANGED <<today, runs, clears, dataproc, landing, layers>>

(* The worker is gone; the batch goes on without it, for good if that was  *)
(* the last try.                                                           *)
WorkerLost(d, t) ==
    /\ ti[d][t] = "running"
    /\ FailsOrRetries(d, t, tries[d][t])
    /\ orphans' = IF ti'[d][t] = "failed"
                  THEN orphans \cup ({BatchId(t, d, tries[d][t])} \cap Running)
                  ELSE orphans
    /\ UNCHANGED <<today, runs, clears, batch, read, landing, layers>>

-----------------------------------------------------------------------------
(* Dataproc. silver_job.py and gold_job.py read, work on what they read    *)
(* and write it; other batches and tasks go on between the two. The tables *)
(* of one Gold query are read at one moment.                               *)

(* A Silver batch lists Bronze of its source, a Gold one reads Silver.     *)
Input(id) ==
    LET name == id[1].name
    IN  IF id[1] \in SilverTasks
        THEN {x \in bronze : x.source = SourceOf[name]}
        ELSE UNION {silver[e] : e \in DepsOf[name] \cap Silver}

ReadBy(id) == {x \in bronze : <<id, x>> \in read}
Forgets(id) == read' = {r \in read : r[1] # id}

BatchReads(id) ==
    /\ batch[id] = "created"
    /\ batch' = [batch EXCEPT ![id] = "read"]
    /\ read' = read \cup ({id} \X Input(id))
    /\ UNCHANGED <<dag, orphans, landing, layers>>

(* The MERGE of a Silver batch adds; a Gold batch overwrites the fact.     *)
Merges(id) ==
    /\ id[1] \in SilverTasks
    /\ silver' = [silver EXCEPT ![id[1].name] = @ \cup ReadBy(id)]
    /\ UNCHANGED facts

Overwrites(id) ==
    /\ id[1] \in GoldTasks
    /\ gold' = [gold EXCEPT ![id[1].name] = ReadBy(id)]
    /\ byOrphan' = IF id \in orphans THEN byOrphan \cup {id[1].name}
                                    ELSE byOrphan \ {id[1].name}
    /\ UNCHANGED silver

BatchWrites(id) ==
    /\ batch[id] = "read"
    /\ batch' = [batch EXCEPT ![id] = "written"]
    /\ Merges(id) \/ Overwrites(id)
    /\ Forgets(id)
    /\ UNCHANGED <<dag, orphans, landing, bronze, refused>>

BatchSucceeds(id) ==
    /\ batch[id] = "written"
    /\ batch' = [batch EXCEPT ![id] = "succeeded"]
    /\ UNCHANGED <<dag, read, orphans, landing, layers>>

(* Before its write, or after it: a threshold is breached.                 *)
BatchFails(id) ==
    /\ id \in Running
    /\ batch' = [batch EXCEPT ![id] = "failed"]
    /\ Forgets(id)
    /\ UNCHANGED <<dag, orphans, landing, layers>>

-----------------------------------------------------------------------------
Airflow ==
    \/ Schedule
    \/ \E d \in Days :
         \/ FinishRun(d)
         \/ \E t \in {start, end} : EmptyOperator(d, t)
         \/ \E t \in Sensors : Poke(d, t) \/ SensorTimesOut(d, t)
         \/ \E t \in PythonTasks : PythonSucceeds(d, t) \/ PythonRaises(d, t)
         \/ \E t \in BatchTasks :
              CreateBatch(d, t) \/ BatchSeen(d, t) \/ WorkerLost(d, t)
         \/ \E t \in Tasks : UpstreamFails(d, t)

Dataproc ==
    \E id \in DOMAIN batch :
        BatchReads(id) \/ BatchWrites(id) \/ BatchSucceeds(id) \/ BatchFails(id)

Next ==
    \/ NextDay
    \/ \E s \in FileBased : Arrive(s)
    \/ Airflow \/ Dataproc
    \/ \E d \in Days, t \in Tasks : Clear(d, t)

Spec == Init /\ [][Next]_vars

(* Scheduler, workers and Dataproc go on; sources need not deliver.         *)
FairSpec == Spec /\ WF_vars(Airflow \/ Dataproc)

-----------------------------------------------------------------------------
(* Properties.                                                             *)

(* A green Gold task has the day, and keeps it while the batches of other  *)
(* days overwrite the fact: what every source behind it delivered for that *)
(* day has come through Bronze and Silver into the fact, unless its files  *)
(* are audited as failed, whatever else failed, was retried or was cleared *)
(* on the way. The exception: a batch that has lost the worker of every    *)
(* try goes on alone, and may overwrite the fact with an older read after  *)
(* the run of a later day.                                                 *)
GreenGoldHasTheDay ==
    \A d \in Days, g \in Gold :
        ti[d][Task("gold", g)] = "success" /\ g \notin byOrphan =>
          \A e \in DepsOf[g] \cap Silver :
            [source |-> SourceOf[e], day |-> d] \in gold[g] \cup refused

(* Two batches of one entity run at the same time only if the task of the  *)
(* older has lost its worker in every try: the job inside relies on being  *)
(* alone (SilverJob), and a retry must attach, not start a second.         *)
OneBatchAtATime ==
    \A x, y \in Running :
        x[1] = y[1] /\ x # y =>
          \E id \in {x, y} : ti[id[2]][id[1]] = "failed"

(* Every run of the DAG ends, delivered or not.                            *)
RunEnds == \A d \in Days : runs[d] = "running" ~> runs[d] # "running"
=============================================================================
