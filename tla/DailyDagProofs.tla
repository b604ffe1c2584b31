---------------------------- MODULE DailyDagProofs ----------------------------
(***************************************************************************)
(* For every set of sources, Silver and Gold entities: the graph that      *)
(* build_pipeline returns has no cycle, a green Gold task has its day, and *)
(* two batches of one entity overlap only where a task lost its workers.   *)
(***************************************************************************)
EXTENDS DailyDag, TLAPS

(* The layers of the pipeline, in the order of the graph.                  *)
Layer == [sensor |-> 1, ingest |-> 2, silver |-> 3, gold |-> 4, marker |-> 5]
Stage(t) == IF t = start THEN 0 ELSE Layer[t.kind]

-----------------------------------------------------------------------------
(* The graph.                                                              *)

LEMMA KindsOfTasks ==
    /\ start.kind = "marker" /\ end.kind = "marker" /\ start # end
    /\ dimDate.kind = "gold"
    /\ \A t \in Sensors : t.kind = "sensor" /\ t.name \in FileBased
    /\ \A t \in Ingests : t.kind = "ingest" /\ t.name \in Sources
    /\ \A t \in SilverTasks :
         t.kind = "silver" /\ t.name \in Silver /\ t = Task("silver", t.name)
    /\ \A t \in GoldTasks :
         t.kind = "gold" /\ t.name \in Gold /\ t = Task("gold", t.name)
BY DEF start, end, dimDate, Sensors, Ingests, SilverTasks, GoldTasks, Task

LEMMA UpstreamIs ==
    /\ Upstream[start] = {}
    /\ Upstream[end] = GoldTasks \cup {dimDate}
    /\ Upstream[dimDate] = {start}
    /\ \A t \in Sensors : Upstream[t] = {start}
    /\ \A t \in Ingests : \A u \in Upstream[t] :
         u = IF t.name \in FileBased THEN Task("sensor", t.name) ELSE start
    /\ \A t \in SilverTasks : Upstream[t] = {Task("ingest", SourceOf[t.name])}
    /\ \A t \in GoldTasks : \A u \in Upstream[t] :
         u = start \/ \E e \in Silver : u = Task("silver", e)
    /\ \A t \in GoldTasks : \A e \in DepsOf[t.name] \cap Silver :
         Task("silver", e) \in Upstream[t]
<1>1. \A t \in Tasks : Upstream[t] = UpstreamOf(t)
  BY DEF Upstream
<1>2. /\ start \in Tasks /\ end \in Tasks /\ dimDate \in Tasks
      /\ \A t \in Sensors \cup Ingests \cup SilverTasks \cup GoldTasks : t \in Tasks
  BY DEF Tasks
<1>3. UpstreamOf(start) = {}
  BY KindsOfTasks DEF UpstreamOf
<1>4. UpstreamOf(end) = GoldTasks \cup {dimDate}
  BY <1>2, KindsOfTasks DEF UpstreamOf
<1>5. UpstreamOf(dimDate) = {start}
  BY <1>2, KindsOfTasks, NamesAssumption DEF UpstreamOf
<1>6. ASSUME NEW t \in Sensors PROVE UpstreamOf(t) = {start}
  BY <1>2, KindsOfTasks DEF UpstreamOf
<1>7. ASSUME NEW t \in Ingests, NEW u \in UpstreamOf(t)
      PROVE  u = IF t.name \in FileBased THEN Task("sensor", t.name) ELSE start
  BY KindsOfTasks DEF UpstreamOf
<1>8. ASSUME NEW t \in SilverTasks
      PROVE  UpstreamOf(t) = {Task("ingest", SourceOf[t.name])}
  <2>1. Task("ingest", SourceOf[t.name]) \in Tasks
    BY KindsOfTasks, SourcesAssumption DEF Tasks, Ingests
  <2> QED
    BY <2>1, KindsOfTasks DEF UpstreamOf
<1>9. ASSUME NEW t \in GoldTasks
      PROVE  /\ \A u \in UpstreamOf(t) :
                  u = start \/ \E e \in Silver : u = Task("silver", e)
             /\ \A e \in DepsOf[t.name] \cap Silver :
                  Task("silver", e) \in UpstreamOf(t)
  <2>1. ASSUME NEW u \in UpstreamOf(t), u # start
        PROVE  \E e \in Silver : u = Task("silver", e)
    <3>1. PICK e \in DepsOf[t.name] : u = Task("silver", e)
      BY <2>1, KindsOfTasks, NamesAssumption DEF UpstreamOf
    <3>2. u \in SilverTasks
      BY <2>1, <3>1, KindsOfTasks DEF UpstreamOf, Tasks, Task
    <3> QED
      BY <3>2 DEF SilverTasks
  <2>2. ASSUME NEW e \in DepsOf[t.name] \cap Silver
        PROVE  Task("silver", e) \in UpstreamOf(t)
    BY DEF UpstreamOf, Tasks, SilverTasks
  <2> QED
    BY <2>1, <2>2
<1> QED
  BY <1>1, <1>2, <1>3, <1>4, <1>5, <1>6, <1>7, <1>8, <1>9

(* Every upstream exists and belongs to an earlier layer.                  *)
LEMMA EdgesGoForward ==
    ASSUME NEW t \in Tasks, NEW u \in Upstream[t]
    PROVE  u \in Tasks /\ Stage(u) < Stage(t) /\ Stage(u) \in 0 .. 5 /\ u # end
<1>1. CASE t = start
  BY <1>1, UpstreamIs
<1>2. CASE t = end
  <2>1. u \in GoldTasks \cup {dimDate}
    BY <1>2, UpstreamIs
  <2>2. u \in Tasks /\ u.kind = "gold"
    BY <2>1, KindsOfTasks DEF Tasks
  <2> QED
    BY <1>2, <2>2, KindsOfTasks DEF Stage, Layer
<1>3. CASE t = dimDate \/ t \in Sensors
  <2>1. u = start /\ t.kind \in {"gold", "sensor"}
    BY <1>3, UpstreamIs, KindsOfTasks
  <2> QED
    BY <2>1, KindsOfTasks DEF Stage, Layer, Tasks
<1>4. CASE t \in Ingests
  <2>1. u = start \/ (t.name \in FileBased /\ u = Task("sensor", t.name))
    BY <1>4, UpstreamIs
  <2>2. u \in Tasks /\ (u = start \/ u.kind = "sensor")
    BY <2>1, KindsOfTasks DEF Tasks, Sensors
  <2> QED
    BY <1>4, <2>2, KindsOfTasks DEF Stage, Layer
<1>5. CASE t \in SilverTasks
  <2>1. u = Task("ingest", SourceOf[t.name]) /\ SourceOf[t.name] \in Sources
    BY <1>5, UpstreamIs, KindsOfTasks, SourcesAssumption
  <2>2. u \in Tasks /\ u.kind = "ingest"
    BY <2>1, KindsOfTasks DEF Tasks, Ingests
  <2> QED
    BY <1>5, <2>2, KindsOfTasks DEF Stage, Layer
<1>6. CASE t \in GoldTasks
  <2>1. u = start \/ \E e \in Silver : u = Task("silver", e)
    BY <1>6, UpstreamIs
  <2>2. u \in Tasks /\ (u = start \/ u.kind = "silver")
    BY <2>1, KindsOfTasks DEF Tasks, SilverTasks
  <2> QED
    BY <1>6, <2>2, KindsOfTasks DEF Stage, Layer
<1> QED
  BY <1>1, <1>2, <1>3, <1>4, <1>5, <1>6 DEF Tasks

(* validate_acyclic: no unknown upstream, and in every set of tasks there  *)
(* is one that waits for no other of the set.                              *)
THEOREM PipelineIsAcyclic ==
    /\ \A t \in Tasks : Upstream[t] \subseteq Tasks
    /\ \A S \in SUBSET Tasks :
         S # {} => \E t \in S : Upstream[t] \cap S = {}
<1>1. \A t \in Tasks : Upstream[t] \subseteq Tasks
  BY EdgesGoForward
<1>2. ASSUME NEW S \in SUBSET Tasks, \A t \in S : Upstream[t] \cap S # {}
      PROVE  S = {}
  <2>1. \A t \in S : \E u \in S : Stage(u) < Stage(t) /\ Stage(u) \in 0 .. 5
    BY <1>2, EdgesGoForward
  <2>2. \A t \in S : Stage(t) \notin 0 .. 0
    BY <2>1
  <2>3. \A t \in S : Stage(t) \notin 0 .. 1
    BY <2>1, <2>2
  <2>4. \A t \in S : Stage(t) \notin 0 .. 2
    BY <2>1, <2>3
  <2>5. \A t \in S : Stage(t) \notin 0 .. 3
    BY <2>1, <2>4
  <2>6. \A t \in S : Stage(t) \notin 0 .. 4
    BY <2>1, <2>5
  <2>7. \A t \in S : Stage(t) \notin 0 .. 5
    BY <2>1, <2>6
  <2> QED
    BY <2>1, <2>7
<1> QED
  BY <1>1, <1>2

(* What is cleared together is closed under the edges.                     *)
LEMMA ClearedIsLeast ==
    ASSUME NEW t \in Tasks, NEW S \in SUBSET Tasks, t \in S,
           \A v \in Tasks : \A u \in Upstream[v] : u \in S => v \in S
    PROVE  Downstream[t] \subseteq S
<1>1. \A e \in Edges : e[1] \in S => e[2] \in S
  BY DEF Edges
<1> QED
  BY <1>1 DEF Downstream

(* A source with files waits for its sensor.                              *)
LEMMA IngestUpstream ==
    ASSUME NEW t \in Ingests, t.name \in FileBased
    PROVE  Task("sensor", t.name) \in Upstream[t]
<1>1. t \in Tasks /\ Task("sensor", t.name) \in Tasks
  BY DEF Tasks, Sensors
<1> QED
  BY <1>1 DEF Upstream, UpstreamOf

(* Which tasks exist, and that their kinds do not overlap.                 *)
LEMMA MoreOfTasks ==
    /\ \A s \in FileBased : Task("sensor", s) \in Tasks
    /\ \A s \in Sources : Task("ingest", s) \in Ingests /\ Task("ingest", s) \in Tasks
    /\ \A e \in Silver : Task("silver", e) \in SilverTasks
    /\ \A g \in Gold : Task("gold", g) \in GoldTasks
    /\ BatchTasks \subseteq Tasks
    /\ start \in Tasks /\ end \in Tasks
    /\ end \notin BatchTasks \cup PythonTasks \cup Sensors
    /\ start \notin BatchTasks \cup PythonTasks \cup Sensors
    /\ PythonTasks \cap BatchTasks = {} /\ PythonTasks \cap Sensors = {}
    /\ Sensors \cap BatchTasks = {}
    /\ SilverTasks \cap GoldTasks = {}
<1>1. \A s \in FileBased : Task("sensor", s) \in Tasks
  BY DEF Tasks, Sensors
<1>2. \A s \in Sources : Task("ingest", s) \in Ingests /\ Task("ingest", s) \in Tasks
  BY DEF Tasks, Ingests
<1>3. /\ \A e \in Silver : Task("silver", e) \in SilverTasks
      /\ \A g \in Gold : Task("gold", g) \in GoldTasks
  BY DEF SilverTasks, GoldTasks
<1>4. BatchTasks \subseteq Tasks /\ start \in Tasks /\ end \in Tasks
  BY DEF Tasks, BatchTasks
<1>5. /\ end \notin BatchTasks \cup PythonTasks \cup Sensors
      /\ start \notin BatchTasks \cup PythonTasks \cup Sensors
      /\ Sensors \cap BatchTasks = {} /\ PythonTasks \cap Sensors = {}
      /\ SilverTasks \cap GoldTasks = {}
  BY KindsOfTasks DEF BatchTasks, PythonTasks
<1>6. PythonTasks \cap BatchTasks = {}
  BY KindsOfTasks, NamesAssumption DEF BatchTasks, PythonTasks
<1> QED
  BY <1>1, <1>2, <1>3, <1>4, <1>5, <1>6

-----------------------------------------------------------------------------
(* The inductive invariant. Rows come with their day, and files only if    *)
(* the sensor has seen the marker.                                         *)
DropOf(s, d) == [source |-> s, day |-> d]
Id(t, d) == <<t, d, 0>>

RunsAreDue == \A d \in Days : runs[d] # "none" => d <= today
OneRun ==
    \A c, d \in Days : runs[c] = "running" /\ runs[d] = "running" => c = d
RowsDelivered ==
    \A s \in Sources \ FileBased : \A d \in Days : d <= today => DropOf(s, d) \in landing
FilesSeen ==
    \A d \in Days : \A s \in FileBased :
        ti[d][Task("sensor", s)] = "success" => DropOf(s, d) \in landing
IngestLanded ==
    \A d \in Days : \A s \in Sources :
        ti[d][Task("ingest", s)] = "success" => DropOf(s, d) \in bronze \cup refused

(* A task is green, and has ever had a batch, only while all it waits for  *)
(* is green; a running one has its batch and its run.                      *)
UpstreamGreen ==
    \A d \in Days : \A t \in Tasks \ {end} :
        ti[d][t] = "success" \/ Id(t, d) \in DOMAIN batch =>
          \A u \in Upstream[t] : ti[d][u] = "success"
RunningKnown ==
    \A d \in Days : \A t \in Tasks :
        ti[d][t] = "running" =>
          t \in BatchTasks /\ Id(t, d) \in DOMAIN batch /\ runs[d] = "running"
TriesLeft ==
    \A d \in Days : \A t \in Tasks : ti[d][t] # "running" => tries[d][t] < Tries

(* One id per task and day, and what its state says of the task.           *)
IdsOfDay == DOMAIN batch \subseteq BatchTasks \X Days \X {0}
NoBatchBehind ==
    \A d \in Days : \A t \in Tasks :
        ti[d][t] = "upstream_failed" => Id(t, d) \notin DOMAIN batch
GreenBatch ==
    \A d \in Days : \A t \in BatchTasks :
        ti[d][t] = "success" =>
          Id(t, d) \in DOMAIN batch /\ batch[Id(t, d)] = "succeeded"
BatchOwned ==
    \A d \in Days : \A t \in BatchTasks :
        Id(t, d) \in Running => ti[d][t] = "failed" \/ runs[d] = "running"

(* A running batch is an orphan, or its task waits for it.                 *)
Waiting(t, d) == ti[d][t] \in {"running", "up_for_retry"} /\ runs[d] = "running"
OrphansKnown ==
    \A d \in Days : \A t \in BatchTasks :
        Id(t, d) \in Running \ orphans => Waiting(t, d)

(* A batch that is past its write has its day in its table, for good: a    *)
(* Silver table only grows, and the next read of Silver has all days that  *)
(* were ever built, unless it is an orphan's.                              *)
Wrote(t, d) ==
    Id(t, d) \in DOMAIN batch /\ batch[Id(t, d)] \in {"written", "succeeded"}
HasRead(t, d) == Id(t, d) \in DOMAIN batch /\ batch[Id(t, d)] = "read"
SilverRead ==
    \A d \in Days : \A e \in Silver :
        HasRead(Task("silver", e), d) =>
          DropOf(SourceOf[e], d) \in ReadBy(Id(Task("silver", e), d)) \cup refused
GoldRead ==
    \A c, d \in Days : \A g \in Gold :
        HasRead(Task("gold", g), d) /\ Id(Task("gold", g), d) \notin orphans
          /\ Id(Task("gold", g), c) \in DOMAIN batch =>
          \A e \in DepsOf[g] \cap Silver :
            DropOf(SourceOf[e], c) \in ReadBy(Id(Task("gold", g), d)) \cup refused
SilverHas ==
    \A d \in Days : \A e \in Silver :
        Wrote(Task("silver", e), d) =>
          DropOf(SourceOf[e], d) \in silver[e] \cup refused
GoldHas ==
    \A d \in Days : \A g \in Gold :
        Wrote(Task("gold", g), d) /\ g \notin byOrphan =>
          \A e \in DepsOf[g] \cap Silver :
            DropOf(SourceOf[e], d) \in gold[g] \cup refused

InvRuns  == RunsAreDue /\ OneRun /\ RowsDelivered
InvTasks == FilesSeen /\ IngestLanded /\ UpstreamGreen /\ RunningKnown /\ TriesLeft
InvIds   == IdsOfDay /\ NoBatchBehind /\ GreenBatch /\ BatchOwned /\ OrphansKnown
InvRows  == SilverRead /\ GoldRead /\ SilverHas /\ GoldHas
Inv == TypeOK /\ InvRuns /\ InvTasks /\ InvIds /\ InvRows

(* A batch, once created, has its inputs: the drop of its day is in Bronze *)
(* before Silver, and in Silver before Gold.                               *)
LEMMA InputsOfBatches ==
    ASSUME Inv, NEW d \in Days
    PROVE  /\ \A e \in Silver : Id(Task("silver", e), d) \in DOMAIN batch =>
                DropOf(SourceOf[e], d) \in bronze \cup refused
           /\ \A g \in Gold : Id(Task("gold", g), d) \in DOMAIN batch =>
                \A e \in DepsOf[g] \cap Silver :
                  DropOf(SourceOf[e], d) \in silver[e] \cup refused
<1>1. ASSUME NEW e \in Silver, Id(Task("silver", e), d) \in DOMAIN batch
      PROVE  DropOf(SourceOf[e], d) \in bronze \cup refused
  <2> DEFINE t == Task("silver", e)
  <2>1. t \in SilverTasks /\ t \in Tasks \ {end} /\ t.name = e
    BY MoreOfTasks DEF BatchTasks, Task
  <2>2. Upstream[t] = {Task("ingest", SourceOf[e])}
    BY <2>1, UpstreamIs
  <2>3. ti[d][Task("ingest", SourceOf[e])] = "success"
    BY <1>1, <2>1, <2>2 DEF Inv, InvTasks, UpstreamGreen
  <2> QED
    BY <2>3, SourcesAssumption DEF Inv, InvTasks, IngestLanded
<1>2. ASSUME NEW g \in Gold, Id(Task("gold", g), d) \in DOMAIN batch,
             NEW e \in DepsOf[g] \cap Silver
      PROVE  DropOf(SourceOf[e], d) \in silver[e] \cup refused
  <2> DEFINE t == Task("gold", g)
             s == Task("silver", e)
  <2>1. t \in GoldTasks /\ t \in Tasks \ {end} /\ t.name = g
    BY MoreOfTasks DEF BatchTasks, Task
  <2>2. s \in Upstream[t] /\ s \in BatchTasks
    BY <2>1, UpstreamIs, MoreOfTasks DEF BatchTasks
  <2>3. ti[d][s] = "success"
    BY <1>2, <2>1, <2>2 DEF Inv, InvTasks, UpstreamGreen
  <2>4. Wrote(s, d)
    BY <2>2, <2>3 DEF Inv, InvIds, GreenBatch, Wrote
  <2> QED
    BY <2>4 DEF Inv, InvRows, SilverHas
<1> QED
  BY <1>1, <1>2

-----------------------------------------------------------------------------
(* What all steps of one task have in common: task t of day d goes from a  *)
(* state that is not final to v, its rows may land, its batch may appear.  *)
LEMMA TaskStep ==
    ASSUME Inv, NEW d \in Days, NEW t \in Tasks, NEW v \in TiStates,
           runs[d] = "running", ti[d][t] \notin Finished,
           ti' = [ti EXCEPT ![d][t] = v],
           NEW n \in 0 .. Tries, tries' = [tries EXCEPT ![d][t] = n],
           v # "running" => n < Tries,
           UNCHANGED <<today, runs, clears, landing, silver, facts, read>>,
           bronze \subseteq bronze', bronze' \subseteq landing,
           refused \subseteq refused', refused' \subseteq landing,
           v = "success" /\ t # end => \A u \in Upstream[t] : ti[d][u] = "success",
           v = "success" /\ t \in Sensors => DropOf(t.name, d) \in landing,
           v = "success" /\ t \in Ingests =>
             DropOf(t.name, d) \in bronze' \cup refused',
           v = "success" /\ t \in BatchTasks =>
             Id(t, d) \in DOMAIN batch /\ batch[Id(t, d)] = "succeeded",
           orphans \subseteq orphans', orphans' \subseteq DOMAIN batch,
           t \in BatchTasks /\ v \notin {"running", "up_for_retry"} =>
             Id(t, d) \notin Running \ orphans',
           v = "running" => t \in BatchTasks /\ Id(t, d) \in DOMAIN batch',
           v = "upstream_failed" => Id(t, d) \notin DOMAIN batch',
           \/ batch' = batch
           \/ /\ t \in BatchTasks /\ v = "running"
              /\ \A u \in Upstream[t] : ti[d][u] = "success"
              /\ batch' = [i \in DOMAIN batch \cup {Id(t, d)} |->
                             IF i \in DOMAIN batch THEN batch[i] ELSE "created"]
    PROVE  Inv'
<1>1. /\ ti' \in [Days -> [Tasks -> TiStates]]
      /\ \A c \in Days : \A w \in Tasks :
           ti'[c][w] = IF c = d /\ w = t THEN v ELSE ti[c][w]
  BY DEF Inv, TypeOK
<1>2. /\ tries' \in [Days -> [Tasks -> 0 .. Tries]]
      /\ \A c \in Days : \A w \in Tasks :
           tries'[c][w] = IF c = d /\ w = t THEN n ELSE tries[c][w]
  BY DEF Inv, TypeOK
<1>3. /\ DOMAIN batch \subseteq DOMAIN batch'
      /\ \A id \in DOMAIN batch : batch'[id] = batch[id]
      /\ \A id \in DOMAIN batch' \ DOMAIN batch :
           /\ id = Id(t, d) /\ batch'[id] = "created"
           /\ t \in BatchTasks /\ v = "running"
           /\ \A u \in Upstream[t] : ti[d][u] = "success"
      /\ batch' \in [DOMAIN batch' -> Phases \cup {"succeeded", "failed"}]
  BY DEF Inv, TypeOK, Phases
<1>4. DOMAIN batch' \subseteq BatchTasks \X Days \X {0}
  BY <1>3 DEF Inv, InvIds, IdsOfDay, Id
<1>5. TypeOK'
  <2>1. DOMAIN batch' \subseteq BatchTasks \X Days \X (0 .. Tries)
    BY <1>4, DagBoundsAssumption
  <2>2. silver' \in [Silver -> SUBSET bronze'] /\ gold' \in [Gold -> SUBSET bronze']
    BY DEF Inv, TypeOK, facts
  <2>3. Readers \subseteq Readers' /\ byOrphan' = byOrphan /\ read' = read
    BY <1>3 DEF Readers, facts
  <2>4. read' \subseteq Readers' \X bronze'
    BY <2>3 DEF Inv, TypeOK
  <2> QED
    BY <1>1, <1>2, <1>3, <2>1, <2>2, <2>3, <2>4 DEF Inv, TypeOK
<1>6. InvRuns'
  BY DEF Inv, InvRuns, RunsAreDue, OneRun, RowsDelivered
<1>7. FilesSeen'
  <2> SUFFICES ASSUME NEW c \in Days, NEW s \in FileBased,
                      ti'[c][Task("sensor", s)] = "success"
               PROVE  DropOf(s, c) \in landing
    BY DEF FilesSeen
  <2>1. Task("sensor", s) \in Tasks /\ Task("sensor", s) \in Sensors
          /\ Task("sensor", s).name = s
    BY MoreOfTasks DEF Sensors, Task
  <2>2. CASE c = d /\ Task("sensor", s) = t
    BY <1>1, <2>1, <2>2
  <2>3. CASE ~(c = d /\ Task("sensor", s) = t)
    BY <1>1, <2>1, <2>3 DEF Inv, InvTasks, FilesSeen
  <2> QED
    BY <2>2, <2>3
<1>8. IngestLanded'
  <2> SUFFICES ASSUME NEW c \in Days, NEW s \in Sources,
                      ti'[c][Task("ingest", s)] = "success"
               PROVE  DropOf(s, c) \in bronze' \cup refused'
    BY DEF IngestLanded
  <2>1. Task("ingest", s) \in Tasks /\ Task("ingest", s) \in Ingests
          /\ Task("ingest", s).name = s
    BY MoreOfTasks DEF Task
  <2>2. CASE c = d /\ Task("ingest", s) = t
    BY <1>1, <2>1, <2>2
  <2>3. CASE ~(c = d /\ Task("ingest", s) = t)
    BY <1>1, <2>1, <2>3 DEF Inv, InvTasks, IngestLanded
  <2> QED
    BY <2>2, <2>3
<1>9. UpstreamGreen'
  <2> SUFFICES ASSUME NEW c \in Days, NEW w \in Tasks \ {end},
                      ti'[c][w] = "success" \/ Id(w, c) \in DOMAIN batch',
                      NEW u \in Upstream[w]
               PROVE  ti'[c][u] = "success"
    BY DEF UpstreamGreen
  <2>1. ti[c][u] = "success"
    <3>1. CASE ti[c][w] = "success" \/ Id(w, c) \in DOMAIN batch
      BY <3>1 DEF Inv, InvTasks, UpstreamGreen
    <3>2. CASE ti[c][w] # "success" /\ ti'[c][w] = "success"
      BY <1>1, <3>2
    <3>3. CASE Id(w, c) \in DOMAIN batch' \ DOMAIN batch
      <4>1. w = t /\ c = d
        BY <1>3, <3>3 DEF Id
      <4> QED
        BY <1>3, <3>3, <4>1
    <3> QED
      BY <3>1, <3>2, <3>3
  <2>2. u \in Tasks
    BY EdgesGoForward
  <2> QED
    BY <1>1, <2>1, <2>2 DEF Finished
<1>10. RunningKnown'
  <2> SUFFICES ASSUME NEW c \in Days, NEW w \in Tasks, ti'[c][w] = "running"
               PROVE  w \in BatchTasks /\ Id(w, c) \in DOMAIN batch'
                        /\ runs[c] = "running"
    BY DEF RunningKnown
  <2> QED
    BY <1>1, <1>3 DEF Inv, InvTasks, RunningKnown
<1>11. TriesLeft'
  BY <1>1, <1>2 DEF Inv, InvTasks, TriesLeft
<1>12. NoBatchBehind'
  <2> SUFFICES ASSUME NEW c \in Days, NEW w \in Tasks,
                      ti'[c][w] = "upstream_failed", Id(w, c) \in DOMAIN batch'
               PROVE  FALSE
    BY DEF NoBatchBehind
  <2>1. CASE c = d /\ w = t
    BY <1>1, <2>1
  <2>2. CASE ~(c = d /\ w = t)
    <3>1. Id(w, c) \in DOMAIN batch
      BY <1>3, <2>2 DEF Id
    <3> QED
      BY <1>1, <2>2, <3>1 DEF Inv, InvIds, NoBatchBehind
  <2> QED
    BY <2>1, <2>2
<1>13. GreenBatch'
  <2> SUFFICES ASSUME NEW c \in Days, NEW w \in BatchTasks, ti'[c][w] = "success"
               PROVE  Id(w, c) \in DOMAIN batch' /\ batch'[Id(w, c)] = "succeeded"
    BY DEF GreenBatch
  <2>1. Id(w, c) \in DOMAIN batch /\ batch[Id(w, c)] = "succeeded"
    BY <1>1, MoreOfTasks DEF Inv, InvIds, GreenBatch
  <2> QED
    BY <1>3, <2>1
<1>14. BatchOwned'
  <2> SUFFICES ASSUME NEW c \in Days, NEW w \in BatchTasks,
                      Id(w, c) \in Running', runs[c] # "running"
               PROVE  ti'[c][w] = "failed"
    BY DEF BatchOwned
  <2>1. Id(w, c) \in Running
    BY <1>3 DEF Id, Running
  <2> QED
    BY <1>1, <1>3, <2>1, MoreOfTasks DEF Inv, InvIds, BatchOwned
<1>15. OrphansKnown'
  <2> SUFFICES ASSUME NEW c \in Days, NEW w \in BatchTasks,
                      Id(w, c) \in Running' \ orphans'
               PROVE  ti'[c][w] \in {"running", "up_for_retry"} /\ runs[c] = "running"
    BY DEF OrphansKnown, Waiting
  <2>1. CASE c = d /\ w = t
    <3>1. v \in {"running", "up_for_retry"}
      <4>1. CASE batch' = batch
        BY <2>1, <4>1 DEF Running
      <4>2. CASE batch' # batch
        BY <4>2
      <4> QED
        BY <4>1, <4>2
    <3> QED
      BY <1>1, <2>1, <3>1
  <2>2. CASE ~(c = d /\ w = t)
    <3>1. Id(w, c) \in Running \ orphans
      BY <1>3, <2>2 DEF Id, Running
    <3>2. Waiting(w, c)
      BY <3>1 DEF Inv, InvIds, OrphansKnown
    <3> QED
      BY <1>1, <2>2, <3>2, MoreOfTasks DEF Waiting
  <2> QED
    BY <2>1, <2>2
<1>16. \A w \in BatchTasks : \A c \in Days :
         /\ Wrote(w, c)' => Wrote(w, c)
         /\ HasRead(w, c)' => HasRead(w, c)
         /\ ReadBy(Id(w, c)) \subseteq ReadBy(Id(w, c))'
  BY <1>3 DEF Wrote, HasRead, ReadBy
<1>17. SilverRead' /\ SilverHas'
  BY <1>16, MoreOfTasks DEF Inv, InvRows, SilverRead, SilverHas, BatchTasks
<1>18. GoldHas'
  BY <1>16, MoreOfTasks DEF Inv, InvRows, GoldHas, BatchTasks, facts
<1>19. GoldRead'
  <2> SUFFICES ASSUME NEW b \in Days, NEW c \in Days, NEW g \in Gold,
                      HasRead(Task("gold", g), c)',
                      Id(Task("gold", g), c) \notin orphans',
                      Id(Task("gold", g), b) \in DOMAIN batch',
                      NEW e \in DepsOf[g] \cap Silver
               PROVE  DropOf(SourceOf[e], b) \in
                        ReadBy(Id(Task("gold", g), c))' \cup refused'
    BY DEF GoldRead
  <2> DEFINE w == Task("gold", g)
  <2>1. w \in BatchTasks
    BY MoreOfTasks DEF BatchTasks
  <2>2. HasRead(w, c) /\ Id(w, c) \notin orphans
    BY <1>16, <2>1
  <2>3. Id(w, c) \in Running \ orphans
    BY <2>2 DEF HasRead, Running, Phases
  <2>4. runs[c] = "running"
    BY <2>1, <2>3 DEF Inv, InvIds, OrphansKnown, Waiting
  <2>5. Id(w, b) \in DOMAIN batch
    <3> SUFFICES ASSUME Id(w, b) \notin DOMAIN batch
                 PROVE  FALSE
      OBVIOUS
    <3>1. b = d
      BY <1>3 DEF Id
    <3>2. b = c
      BY <2>4, <3>1 DEF Inv, InvRuns, OneRun
    <3> QED
      BY <2>3, <3>2 DEF Running
  <2>6. DropOf(SourceOf[e], b) \in ReadBy(Id(w, c)) \cup refused
    BY <2>2, <2>5 DEF Inv, InvRows, GoldRead
  <2> QED
    BY <1>16, <2>1, <2>6
<1> QED
  BY <1>4, <1>5, <1>6, <1>7, <1>8, <1>9, <1>10, <1>11, <1>12, <1>13, <1>14, <1>15,
     <1>17, <1>18, <1>19
    DEF Inv, InvTasks, InvIds, InvRows, IdsOfDay

-----------------------------------------------------------------------------
(* The steps of the calendar, of the sources and of whole runs.            *)

LEMMA RowsStay ==
    ASSUME InvRows, UNCHANGED <<dataproc, layers>>
    PROVE  InvRows'
BY DEF InvRows, SilverRead, GoldRead, SilverHas, GoldHas, Wrote, HasRead, ReadBy,
       dataproc, layers, facts

LEMMA CalendarStep ==
    ASSUME Inv, NextDay \/ \E s \in FileBased : Arrive(s)
    PROVE  Inv'
<1>1. /\ UNCHANGED <<runs, ti, tries, clears, dataproc, layers>>
      /\ today' \in 0 .. MaxDays /\ today <= today'
      /\ landing' \subseteq Drop /\ landing \subseteq landing'
  <2>1. CASE NextDay
    BY <2>1, DagBoundsAssumption DEF NextDay, Inv, TypeOK, Drop, Days
  <2>2. ASSUME NEW s \in FileBased, Arrive(s)
        PROVE  /\ UNCHANGED <<runs, ti, tries, clears, dataproc, layers>>
               /\ today' \in 0 .. MaxDays /\ today <= today'
               /\ landing' \subseteq Drop /\ landing \subseteq landing'
    BY <2>2, SourcesAssumption, DagBoundsAssumption
      DEF Arrive, dag, Inv, TypeOK, Drop, Days
  <2> QED
    BY <2>1, <2>2
<1>2. RowsDelivered'
  <2>1. CASE NextDay
    BY <2>1, DagBoundsAssumption
      DEF NextDay, Inv, InvRuns, RowsDelivered, TypeOK, Days, DropOf
  <2>2. CASE \E s \in FileBased : Arrive(s)
    BY <2>2 DEF Arrive, dag, Inv, InvRuns, RowsDelivered
  <2> QED
    BY <2>1, <2>2
<1>3. TypeOK'
  BY <1>1 DEF Inv, TypeOK, Readers, layers, facts, dataproc
<1>4. InvRuns'
  BY <1>1, <1>2, DagBoundsAssumption
    DEF Inv, InvRuns, RunsAreDue, OneRun, TypeOK, Days
<1>5. InvTasks'
  BY <1>1 DEF Inv, InvTasks, FilesSeen, IngestLanded, UpstreamGreen, RunningKnown,
              TriesLeft, layers, dataproc
<1>6. InvIds' /\ InvRows'
  BY <1>1, RowsStay DEF Inv, InvIds, IdsOfDay, NoBatchBehind, GreenBatch,
              BatchOwned, OrphansKnown, Waiting, Running, dataproc
<1> QED
  BY <1>3, <1>4, <1>5, <1>6 DEF Inv

LEMMA ScheduleStep ==
    ASSUME Inv, Schedule PROVE Inv'
<1>1. /\ today \in Days
      /\ \A c \in Days : runs[c] # "running"
      /\ runs' = [runs EXCEPT ![today] = "running"]
      /\ UNCHANGED <<today, ti, tries, clears, dataproc, landing, layers>>
  BY DagBoundsAssumption DEF Schedule, Inv, TypeOK, Days
<1>2. /\ runs' \in [Days -> {"none", "running", "success", "failed"}]
      /\ \A c \in Days : runs'[c] = IF c = today THEN "running" ELSE runs[c]
  BY <1>1 DEF Inv, TypeOK
<1>3. TypeOK'
  BY <1>1, <1>2 DEF Inv, TypeOK, Readers, layers, facts, dataproc
<1>4. InvRuns'
  BY <1>1, <1>2 DEF Inv, InvRuns, RunsAreDue, OneRun, RowsDelivered, Days, TypeOK
<1>5. InvTasks'
  BY <1>1, <1>2 DEF Inv, InvTasks, FilesSeen, IngestLanded, UpstreamGreen,
                    RunningKnown, TriesLeft, layers, dataproc
<1>6. InvIds' /\ InvRows'
  BY <1>1, <1>2, RowsStay DEF Inv, InvIds, IdsOfDay, NoBatchBehind, GreenBatch,
                    BatchOwned, OrphansKnown, Waiting, Running, dataproc
<1> QED
  BY <1>3, <1>4, <1>5, <1>6 DEF Inv

LEMMA FinishStep ==
    ASSUME Inv, NEW d \in Days, FinishRun(d) PROVE Inv'
<1>1. /\ runs[d] = "running"
      /\ \A t \in Tasks : ti[d][t] \in Finished
      /\ UNCHANGED <<today, ti, tries, clears, dataproc, landing, layers>>
  BY DEF FinishRun
<1>2. PICK end_state \in {"success", "failed"} :
        runs' = [runs EXCEPT ![d] = end_state]
  BY DEF FinishRun
<1>3. /\ runs' \in [Days -> {"none", "running", "success", "failed"}]
      /\ \A c \in Days : runs'[c] = IF c = d THEN end_state ELSE runs[c]
  BY <1>2 DEF Inv, TypeOK
<1>4. TypeOK'
  BY <1>1, <1>3 DEF Inv, TypeOK, Readers, layers, facts, dataproc
<1>5. InvRuns'
  BY <1>1, <1>3 DEF Inv, InvRuns, RunsAreDue, OneRun, RowsDelivered
<1>6. RunningKnown'
  BY <1>1, <1>3 DEF Inv, InvTasks, RunningKnown, Finished, dataproc
<1>7. InvTasks'
  BY <1>1, <1>6 DEF Inv, InvTasks, FilesSeen, IngestLanded, UpstreamGreen,
                    TriesLeft, layers, dataproc
<1>8. BatchOwned'
  <2> SUFFICES ASSUME NEW c \in Days, NEW t \in BatchTasks,
                      Id(t, c) \in Running, runs'[c] # "running"
               PROVE  ti[c][t] = "failed"
    BY <1>1 DEF BatchOwned, Running, dataproc
  <2>1. CASE c = d
    <3>1. ti[d][t] \in Finished
      BY <1>1, MoreOfTasks
    <3>2. ti[d][t] # "success"
      BY <2>1 DEF Inv, InvIds, GreenBatch, Running, Phases
    <3>3. ti[d][t] # "upstream_failed"
      BY <2>1, MoreOfTasks DEF Inv, InvIds, NoBatchBehind, Running
    <3> QED
      BY <2>1, <3>1, <3>2, <3>3 DEF Finished
  <2>2. CASE c # d
    BY <1>3, <2>2 DEF Inv, InvIds, BatchOwned
  <2> QED
    BY <2>1, <2>2
<1>9. OrphansKnown'
  <2> SUFFICES ASSUME NEW c \in Days, NEW t \in BatchTasks,
                      Id(t, c) \in Running \ orphans
               PROVE  ti[c][t] \in {"running", "up_for_retry"} /\ runs'[c] = "running"
    BY <1>1 DEF OrphansKnown, Waiting, Running, dataproc
  <2>1. Waiting(t, c)
    BY DEF Inv, InvIds, OrphansKnown
  <2>2. c # d
    BY <1>1, <2>1, MoreOfTasks DEF Waiting, Finished
  <2> QED
    BY <1>3, <2>1, <2>2 DEF Waiting
<1>10. InvIds' /\ InvRows'
  BY <1>1, <1>8, <1>9, RowsStay
    DEF Inv, InvIds, IdsOfDay, NoBatchBehind, GreenBatch, dataproc
<1> QED
  BY <1>4, <1>5, <1>7, <1>10 DEF Inv

(* Clearing a failed task clears no green one but `end`, so no green task  *)
(* and no batch loses what it waited for.                                  *)
LEMMA ClearStep ==
    ASSUME Inv, NEW d \in Days, NEW t \in Tasks, Clear(d, t) PROVE Inv'
<1> DEFINE S == {w \in Tasks : ti[d][w] # "success" \/ w = end}
<1>1. /\ \A c \in Days : runs[c] # "running"
      /\ runs[d] # "none"
      /\ ti[d][t] = "failed"
      /\ clears' \in 0 .. MaxClears
      /\ runs' = [runs EXCEPT ![d] = "running"]
      /\ ti' = [ti EXCEPT ![d] =
            [u \in Tasks |-> IF u \in Downstream[t] THEN "none" ELSE @[u]]]
      /\ UNCHANGED <<today, tries, dataproc, landing, layers>>
  BY DagBoundsAssumption DEF Clear, Inv, TypeOK
<1>2. /\ runs' \in [Days -> {"none", "running", "success", "failed"}]
      /\ \A c \in Days : runs'[c] = IF c = d THEN "running" ELSE runs[c]
  BY <1>1 DEF Inv, TypeOK
<1>3. /\ ti' \in [Days -> [Tasks -> TiStates]]
      /\ \A c \in Days : \A w \in Tasks :
           ti'[c][w] = IF c = d /\ w \in Downstream[t] THEN "none" ELSE ti[c][w]
  BY <1>1 DEF Inv, TypeOK, TiStates
<1>4. Downstream[t] \subseteq S
  <2>1. t \in S
    BY <1>1
  <2>2. ASSUME NEW w \in Tasks, NEW u \in Upstream[w], u \in S PROVE w \in S
    BY <2>2, EdgesGoForward DEF Inv, InvTasks, UpstreamGreen
  <2> QED
    BY <2>1, <2>2, ClearedIsLeast
<1>5. \A c \in Days : \A w \in Tasks :
        /\ w # end /\ ti[c][w] = "success" => ti'[c][w] = "success"
        /\ ti'[c][w] # "none" => ti'[c][w] = ti[c][w]
  BY <1>3, <1>4
<1>6. TypeOK'
  BY <1>1, <1>2, <1>3 DEF Inv, TypeOK, Readers, layers, facts, dataproc
<1>7. InvRuns'
  BY <1>1, <1>2 DEF Inv, InvRuns, RunsAreDue, OneRun, RowsDelivered
<1>8. UpstreamGreen'
  <2> SUFFICES ASSUME NEW c \in Days, NEW w \in Tasks \ {end},
                      ti'[c][w] = "success" \/ Id(w, c) \in DOMAIN batch,
                      NEW u \in Upstream[w]
               PROVE  ti'[c][u] = "success"
    BY <1>1 DEF UpstreamGreen, dataproc
  <2>1. ti[c][u] = "success"
    BY <1>5 DEF Inv, InvTasks, UpstreamGreen
  <2> QED
    BY <1>5, <2>1, EdgesGoForward
<1>9. FilesSeen' /\ IngestLanded'
  BY <1>1, <1>5, MoreOfTasks DEF Inv, InvTasks, FilesSeen, IngestLanded, layers
<1>10. RunningKnown'
  BY <1>1, <1>5 DEF Inv, InvTasks, RunningKnown, dataproc
<1>11. TriesLeft'
  BY <1>1, <1>3 DEF Inv, InvTasks, TriesLeft, RunningKnown
<1>12. NoBatchBehind' /\ GreenBatch'
  BY <1>1, <1>5, MoreOfTasks DEF Inv, InvIds, NoBatchBehind, GreenBatch, dataproc
<1>13. BatchOwned'
  BY <1>1, <1>2, <1>3, MoreOfTasks DEF Inv, InvIds, BatchOwned, Running, dataproc
<1>14. OrphansKnown'
  <2>1. Running \ orphans = {}
    <3>1. \A id \in Running \ orphans : \E c \in Days : \E w \in BatchTasks : id = Id(w, c)
      BY DEF Inv, InvIds, IdsOfDay, Running, Id
    <3> QED
      BY <1>1, <3>1 DEF Inv, InvIds, OrphansKnown, Waiting
  <2>2. Running' \ orphans' = {}
    BY <1>1, <2>1 DEF Running, dataproc
  <2> QED
    BY <2>2 DEF OrphansKnown
<1>15. IdsOfDay' /\ InvRows'
  BY <1>1, RowsStay DEF Inv, InvIds, IdsOfDay, dataproc
<1> QED
  BY <1>6, <1>7, <1>8, <1>9, <1>10, <1>11, <1>12, <1>13, <1>14, <1>15
    DEF Inv, InvTasks, InvIds

-----------------------------------------------------------------------------
(* The steps of a batch. Whatever it does, it changes no task.             *)

LEMMA IdsAre ==
    ASSUME Inv, NEW id \in DOMAIN batch
    PROVE  \E d \in Days : \E t \in BatchTasks : id = Id(t, d)
BY DEF Inv, InvIds, IdsOfDay, Id

LEMMA BatchMoves ==
    ASSUME Inv, NEW id \in Running,
           NEW v \in Phases \cup {"succeeded", "failed"},
           batch' = [batch EXCEPT ![id] = v],
           read' \subseteq Readers' \X bronze,
           silver' \in [Silver -> SUBSET bronze], gold' \in [Gold -> SUBSET bronze],
           byOrphan' \subseteq Gold,
           UNCHANGED <<dag, orphans, landing, bronze, refused>>
    PROVE  /\ TypeOK' /\ InvRuns' /\ InvTasks' /\ InvIds'
           /\ DOMAIN batch' = DOMAIN batch
           /\ \A i \in DOMAIN batch : batch'[i] = IF i = id THEN v ELSE batch[i]
<1>1. /\ id \in DOMAIN batch /\ batch[id] \in Phases
      /\ DOMAIN batch' = DOMAIN batch
      /\ batch' \in [DOMAIN batch' -> Phases \cup {"succeeded", "failed"}]
      /\ \A i \in DOMAIN batch : batch'[i] = IF i = id THEN v ELSE batch[i]
  BY DEF Inv, TypeOK, Running
<1>2. Running' \subseteq Running
  BY <1>1 DEF Running
<1>3. TypeOK'
  BY <1>1 DEF Inv, TypeOK, dag
<1>4. InvRuns' /\ InvTasks'
  BY <1>1 DEF Inv, InvRuns, RunsAreDue, OneRun, RowsDelivered, InvTasks, FilesSeen,
              IngestLanded, UpstreamGreen, RunningKnown, TriesLeft, dag
<1>5. GreenBatch'
  BY <1>1 DEF Inv, InvIds, GreenBatch, Phases, dag
<1>6. InvIds'
  BY <1>1, <1>2, <1>5
    DEF Inv, InvIds, IdsOfDay, NoBatchBehind, BatchOwned, OrphansKnown, Waiting, dag
<1> QED
  BY <1>1, <1>3, <1>4, <1>6

LEMMA ReadsStep ==
    ASSUME Inv, NEW id \in DOMAIN batch, BatchReads(id)
    PROVE  Inv'
<1>1. PICK d \in Days, t \in BatchTasks : id = Id(t, d)
  BY IdsAre
<1>2. id[1] = t
  BY <1>1 DEF Id
<1>3. /\ id \in Running /\ batch[id] = "created"
      /\ batch' = [batch EXCEPT ![id] = "read"]
      /\ read' = read \cup ({id} \X Input(id))
      /\ UNCHANGED <<dag, orphans, landing, bronze, refused, silver, gold, byOrphan>>
  BY DEF BatchReads, Running, Phases, layers, facts
<1>4. /\ bronze' = bronze /\ silver \in [Silver -> SUBSET bronze]
      /\ gold \in [Gold -> SUBSET bronze] /\ byOrphan \subseteq Gold
      /\ read \subseteq Readers \X bronze
  BY <1>3 DEF Inv, TypeOK
<1>5. Input(id) \subseteq bronze
  BY <1>4 DEF Input
<1>6. Readers \subseteq Readers' /\ id \in Readers'
  BY <1>3 DEF Readers, Running, Inv, TypeOK
<1>7. read' \subseteq Readers' \X bronze
  BY <1>3, <1>4, <1>5, <1>6
<1>8. "read" \in Phases
  BY DEF Phases
<1>9. /\ TypeOK' /\ InvRuns' /\ InvTasks' /\ InvIds'
      /\ DOMAIN batch' = DOMAIN batch
      /\ \A i \in DOMAIN batch : batch'[i] = IF i = id THEN "read" ELSE batch[i]
  BY <1>3, <1>4, <1>7, <1>8, BatchMoves
<1>10. \A w \in BatchTasks : \A c \in Days :
         /\ Wrote(w, c)' => Wrote(w, c)
         /\ HasRead(w, c)' => HasRead(w, c) \/ Id(w, c) = id
         /\ ReadBy(Id(w, c)) \subseteq ReadBy(Id(w, c))'
  BY <1>3, <1>4, <1>9 DEF Wrote, HasRead, ReadBy
<1>11. \A x \in Input(id) : x \in ReadBy(id)'
  BY <1>3, <1>4, <1>5 DEF ReadBy
<1>12. SilverHas' /\ GoldHas'
  BY <1>3, <1>10, MoreOfTasks DEF Inv, InvRows, SilverHas, GoldHas, BatchTasks
<1>13. SilverRead'
  <2> SUFFICES ASSUME NEW c \in Days, NEW e \in Silver,
                      HasRead(Task("silver", e), c)'
               PROVE  DropOf(SourceOf[e], c) \in
                        ReadBy(Id(Task("silver", e), c))' \cup refused
    BY <1>3 DEF SilverRead
  <2> DEFINE w == Task("silver", e)
  <2>1. w \in BatchTasks /\ w \in SilverTasks /\ w.name = e
    BY MoreOfTasks DEF BatchTasks, Task
  <2>2. CASE HasRead(w, c)
    <3>1. DropOf(SourceOf[e], c) \in ReadBy(Id(w, c)) \cup refused
      BY <2>2 DEF Inv, InvRows, SilverRead
    <3> QED
      BY <1>10, <2>1, <3>1
  <2>3. CASE Id(w, c) = id
    <3>1. DropOf(SourceOf[e], c) \in bronze \cup refused
      BY <2>3, InputsOfBatches
    <3>2. id[1] = w
      BY <2>3 DEF Id
    <3>3. DropOf(SourceOf[e], c) \in Input(id) \cup refused
      BY <2>1, <3>1, <3>2 DEF Input, DropOf
    <3> QED
      BY <1>11, <2>3, <3>3
  <2> QED
    BY <1>10, <2>1, <2>2, <2>3
<1>14. GoldRead'
  <2> SUFFICES ASSUME NEW b \in Days, NEW c \in Days, NEW g \in Gold,
                      HasRead(Task("gold", g), c)',
                      Id(Task("gold", g), c) \notin orphans,
                      Id(Task("gold", g), b) \in DOMAIN batch,
                      NEW e \in DepsOf[g] \cap Silver
               PROVE  DropOf(SourceOf[e], b) \in
                        ReadBy(Id(Task("gold", g), c))' \cup refused
    BY <1>3, <1>9 DEF GoldRead
  <2> DEFINE w == Task("gold", g)
  <2>1. w \in BatchTasks /\ w \in GoldTasks /\ w.name = g
    BY MoreOfTasks DEF BatchTasks, Task
  <2>2. CASE HasRead(w, c)
    <3>1. DropOf(SourceOf[e], b) \in ReadBy(Id(w, c)) \cup refused
      BY <2>2 DEF Inv, InvRows, GoldRead
    <3> QED
      BY <1>10, <2>1, <3>1
  <2>3. CASE Id(w, c) = id
    <3>1. DropOf(SourceOf[e], b) \in silver[e] \cup refused
      BY InputsOfBatches
    <3>2. id[1] = w /\ w \notin SilverTasks
      BY <2>1, <2>3, MoreOfTasks DEF Id
    <3>3. DropOf(SourceOf[e], b) \in Input(id) \cup refused
      BY <2>1, <3>1, <3>2 DEF Input
    <3> QED
      BY <1>11, <2>3, <3>3
  <2> QED
    BY <1>10, <2>1, <2>2, <2>3
<1> QED
  BY <1>9, <1>12, <1>13, <1>14 DEF Inv, InvRows

(* A batch forgets what it has read, the others keep it.                   *)
LEMMA ForgetsIs ==
    ASSUME Inv, NEW id, Forgets(id), bronze' = bronze,
           DOMAIN batch' = DOMAIN batch,
           \A i \in DOMAIN batch : i # id => batch'[i] = batch[i]
    PROVE  /\ \A i : i # id => ReadBy(i)' = ReadBy(i)
           /\ read' \subseteq Readers' \X bronze
<1>1. read \subseteq Readers \X bronze /\ read' = {r \in read : r[1] # id}
  BY DEF Inv, TypeOK, Forgets
<1>2. \A i \in Readers : i # id => i \in Readers'
  BY DEF Readers
<1> QED
  BY <1>1, <1>2 DEF ReadBy

LEMMA WritesStep ==
    ASSUME Inv, NEW id \in DOMAIN batch, BatchWrites(id)
    PROVE  Inv'
<1>1. PICK d \in Days, t \in BatchTasks : id = Id(t, d)
  BY IdsAre
<1>2. id[1] = t
  BY <1>1 DEF Id
<1>3. /\ id \in Running /\ batch[id] = "read"
      /\ batch' = [batch EXCEPT ![id] = "written"]
      /\ Merges(id) \/ Overwrites(id)
      /\ Forgets(id)
      /\ UNCHANGED <<dag, orphans, landing, bronze, refused>>
  BY DEF BatchWrites, Running, Phases
<1>4. /\ silver \in [Silver -> SUBSET bronze] /\ ReadBy(id) \subseteq bronze
      /\ gold \in [Gold -> SUBSET bronze] /\ byOrphan \subseteq Gold
  BY DEF Inv, TypeOK, ReadBy
<1>5. /\ \A e \in Silver :
           /\ silver[e] \subseteq silver'[e]
           /\ t = Task("silver", e) => ReadBy(id) \subseteq silver'[e]
      /\ \A g \in Gold :
           /\ t # Task("gold", g) =>
                gold'[g] = gold[g] /\ (g \in byOrphan' <=> g \in byOrphan)
           /\ t = Task("gold", g) =>
                gold'[g] = ReadBy(id) /\ (id \in orphans => g \in byOrphan')
      /\ silver' \in [Silver -> SUBSET bronze] /\ gold' \in [Gold -> SUBSET bronze]
      /\ byOrphan' \subseteq Gold
  <2>1. CASE Merges(id)
    <3>1. /\ t \in SilverTasks /\ t.name \in Silver
          /\ silver' = [silver EXCEPT ![t.name] = @ \cup ReadBy(id)]
          /\ gold' = gold /\ byOrphan' = byOrphan
      BY <1>2, <2>1, KindsOfTasks DEF Merges, facts
    <3>2. \A g \in Gold : t # Task("gold", g)
      BY <3>1, MoreOfTasks
    <3>3. \A e \in Silver : t = Task("silver", e) => t.name = e
      BY DEF Task
    <3> QED
      BY <1>4, <3>1, <3>2, <3>3
  <2>2. CASE Overwrites(id)
    <3>1. /\ t \in GoldTasks /\ t.name \in Gold
          /\ gold' = [gold EXCEPT ![t.name] = ReadBy(id)]
          /\ byOrphan' = IF id \in orphans THEN byOrphan \cup {t.name}
                                           ELSE byOrphan \ {t.name}
          /\ silver' = silver
      BY <1>2, <2>2, KindsOfTasks DEF Overwrites
    <3>2. \A e \in Silver : t # Task("silver", e)
      BY <3>1, MoreOfTasks
    <3>3. \A g \in Gold : t = Task("gold", g) <=> t.name = g
      BY <3>1, KindsOfTasks DEF Task
    <3> QED
      BY <1>4, <3>1, <3>2, <3>3
  <2> QED
    BY <1>3, <2>1, <2>2
<1>6. /\ DOMAIN batch' = DOMAIN batch
      /\ \A i \in DOMAIN batch : i # id => batch'[i] = batch[i]
  BY <1>3 DEF Inv, TypeOK
<1>7. /\ \A i : i # id => ReadBy(i)' = ReadBy(i)
      /\ read' \subseteq Readers' \X bronze
  BY <1>3, <1>6, ForgetsIs
<1>8. "written" \in Phases
  BY DEF Phases
<1>9. /\ TypeOK' /\ InvRuns' /\ InvTasks' /\ InvIds'
      /\ \A i \in DOMAIN batch : batch'[i] = IF i = id THEN "written" ELSE batch[i]
  BY <1>3, <1>5, <1>7, <1>8, BatchMoves
<1>10. \A w \in BatchTasks : \A c \in Days :
         /\ Wrote(w, c)' => Wrote(w, c) \/ Id(w, c) = id
         /\ HasRead(w, c)' => HasRead(w, c) /\ Id(w, c) # id
  BY <1>6, <1>9 DEF Wrote, HasRead
<1>11. SilverRead' /\ GoldRead'
  BY <1>3, <1>6, <1>7, <1>10, MoreOfTasks
    DEF Inv, InvRows, SilverRead, GoldRead, BatchTasks
<1>12. SilverHas'
  <2> SUFFICES ASSUME NEW c \in Days, NEW e \in Silver,
                      Wrote(Task("silver", e), c)'
               PROVE  DropOf(SourceOf[e], c) \in silver'[e] \cup refused
    BY <1>3 DEF SilverHas
  <2> DEFINE w == Task("silver", e)
  <2>1. w \in BatchTasks
    BY MoreOfTasks DEF BatchTasks
  <2>2. CASE Wrote(w, c)
    BY <1>5, <2>2 DEF Inv, InvRows, SilverHas
  <2>3. CASE Id(w, c) = id
    <3>1. HasRead(w, c) /\ t = w
      BY <1>1, <1>3, <2>3 DEF HasRead, Id
    <3>2. DropOf(SourceOf[e], c) \in ReadBy(id) \cup refused
      BY <2>3, <3>1 DEF Inv, InvRows, SilverRead
    <3> QED
      BY <1>5, <3>1, <3>2
  <2> QED
    BY <1>10, <2>1, <2>2, <2>3
<1>13. GoldHas'
  <2> SUFFICES ASSUME NEW c \in Days, NEW g \in Gold,
                      Wrote(Task("gold", g), c)', g \notin byOrphan',
                      NEW e \in DepsOf[g] \cap Silver
               PROVE  DropOf(SourceOf[e], c) \in gold'[g] \cup refused
    BY <1>3 DEF GoldHas
  <2> DEFINE w == Task("gold", g)
  <2>1. w \in BatchTasks
    BY MoreOfTasks DEF BatchTasks
  <2>2. CASE t = w
    <3>1. Id(w, c) \in DOMAIN batch
      BY <1>6 DEF Wrote
    <3>2. HasRead(w, d) /\ Id(w, d) = id /\ id \notin orphans
      BY <1>1, <1>3, <1>5, <2>2 DEF HasRead
    <3>3. DropOf(SourceOf[e], c) \in ReadBy(id) \cup refused
      BY <3>1, <3>2 DEF Inv, InvRows, GoldRead
    <3> QED
      BY <1>5, <2>2, <3>3
  <2>3. CASE t # w
    <3>1. Id(w, c) # id
      BY <1>1, <2>3 DEF Id
    <3>2. Wrote(w, c) /\ g \notin byOrphan /\ gold'[g] = gold[g]
      BY <1>5, <1>10, <2>1, <2>3, <3>1
    <3> QED
      BY <3>2 DEF Inv, InvRows, GoldHas
  <2> QED
    BY <2>2, <2>3
<1> QED
  BY <1>9, <1>11, <1>12, <1>13 DEF Inv, InvRows

(* The end of a batch: the tables stay as it has left them.                *)
LEMMA EndStep ==
    ASSUME Inv, NEW id \in DOMAIN batch, BatchSucceeds(id) \/ BatchFails(id)
    PROVE  Inv'
<1>1. /\ id \in Running
      /\ UNCHANGED <<dag, orphans, landing, bronze, refused, silver, gold, byOrphan>>
  BY DEF BatchSucceeds, BatchFails, Running, Phases, layers, facts
<1>2. PICK v \in {"succeeded", "failed"} :
        /\ batch' = [batch EXCEPT ![id] = v]
        /\ v = "succeeded" => batch[id] = "written"
        /\ Forgets(id)
  <2>1. CASE BatchSucceeds(id)
    <3>1. \A r \in read : r[1] # id
      BY <2>1 DEF BatchSucceeds, Inv, TypeOK, Readers
    <3> QED
      BY <2>1, <3>1 DEF BatchSucceeds, Forgets
  <2>2. CASE BatchFails(id)
    BY <2>2 DEF BatchFails
  <2> QED
    BY <2>1, <2>2
<1>3. /\ DOMAIN batch' = DOMAIN batch
      /\ \A i \in DOMAIN batch : i # id => batch'[i] = batch[i]
  BY <1>2 DEF Inv, TypeOK
<1>4. /\ \A i : i # id => ReadBy(i)' = ReadBy(i)
      /\ read' \subseteq Readers' \X bronze
  BY <1>1, <1>2, <1>3, ForgetsIs
<1>5. /\ silver \in [Silver -> SUBSET bronze] /\ gold \in [Gold -> SUBSET bronze]
      /\ byOrphan \subseteq Gold
  BY DEF Inv, TypeOK
<1>6. /\ TypeOK' /\ InvRuns' /\ InvTasks' /\ InvIds'
      /\ \A i \in DOMAIN batch : batch'[i] = IF i = id THEN v ELSE batch[i]
  BY <1>1, <1>2, <1>4, <1>5, BatchMoves
<1>7. \A w \in BatchTasks : \A c \in Days :
         /\ Wrote(w, c)' => Wrote(w, c)
         /\ HasRead(w, c)' => HasRead(w, c) /\ Id(w, c) # id
  BY <1>2, <1>3, <1>6 DEF Wrote, HasRead
<1>8. SilverHas' /\ GoldHas'
  BY <1>1, <1>7, MoreOfTasks DEF Inv, InvRows, SilverHas, GoldHas, BatchTasks
<1>9. SilverRead' /\ GoldRead'
  BY <1>1, <1>3, <1>4, <1>7, MoreOfTasks
    DEF Inv, InvRows, SilverRead, GoldRead, BatchTasks
<1> QED
  BY <1>6, <1>8, <1>9 DEF Inv, InvRows

-----------------------------------------------------------------------------
(* The steps of one task.                                                  *)

LEMMA EndsIs ==
    ASSUME NEW d \in Days, NEW t \in Tasks, NEW v, Ends(d, t, v)
    PROVE  /\ ti' = [ti EXCEPT ![d][t] = v]
           /\ tries' = [tries EXCEPT ![d][t] = 0]
           /\ 0 \in 0 .. Tries /\ 0 < Tries
BY DagBoundsAssumption DEF Ends

LEMMA FailsOrRetriesIs ==
    ASSUME NEW d \in Days, NEW t \in Tasks, NEW m \in 0 .. Tries,
           FailsOrRetries(d, t, m)
    PROVE  \E v \in {"up_for_retry", "failed"} : \E n \in 0 .. Tries :
             /\ n < Tries
             /\ ti' = [ti EXCEPT ![d][t] = v]
             /\ tries' = [tries EXCEPT ![d][t] = n]
<1>1. CASE m < Tries
  BY <1>1 DEF FailsOrRetries
<1>2. CASE ~(m < Tries)
  BY <1>2, EndsIs DEF FailsOrRetries
<1> QED
  BY <1>1, <1>2

LEMMA ReadyIs ==
    ASSUME NEW d \in Days, NEW t \in Tasks, Ready(d, t)
    PROVE  /\ runs[d] = "running" /\ ti[d][t] \notin Finished
           /\ ti[d][t] # "running"
           /\ t # end => \A u \in Upstream[t] : ti[d][u] = "success"
BY DEF Ready, Triggered, Finished

LEMMA RunningIs ==
    ASSUME Inv, NEW d \in Days, NEW t \in Tasks, ti[d][t] = "running"
    PROVE  /\ runs[d] = "running" /\ ti[d][t] \notin Finished
           /\ t \in BatchTasks /\ Id(t, d) \in DOMAIN batch
           /\ \A u \in Upstream[t] : ti[d][u] = "success"
           /\ tries[d][t] \in 0 .. Tries
<1>1. t \in BatchTasks /\ Id(t, d) \in DOMAIN batch /\ runs[d] = "running"
  BY DEF Inv, InvTasks, RunningKnown
<1>2. t # end
  BY <1>1, MoreOfTasks
<1> QED
  BY <1>1, <1>2 DEF Inv, InvTasks, UpstreamGreen, Finished, TypeOK

LEMMA MarkerStep ==
    ASSUME Inv, NEW d \in Days, NEW t \in Tasks,
           \/ t \in {start, end} /\ EmptyOperator(d, t)
           \/ t \in Sensors /\ (Poke(d, t) \/ SensorTimesOut(d, t))
           \/ UpstreamFails(d, t)
    PROVE  Inv'
<1>1. PICK v \in {"success", "failed", "upstream_failed"} :
        /\ Ends(d, t, v) /\ UNCHANGED <<today, runs, clears, dataproc, landing, layers>>
        /\ v = "success" => Ready(d, t) /\ t \notin PythonTasks \cup BatchTasks
        /\ v = "success" /\ t \in Sensors => DropOf(t.name, d) \in landing
        /\ runs[d] = "running" /\ ti[d][t] \notin Finished
        /\ v = "failed" => t \notin BatchTasks
        /\ v = "upstream_failed" =>
             t # end /\ \E u \in Upstream[t] : ti[d][u] \in {"failed", "upstream_failed"}
  <2>1. CASE t \in {start, end} /\ EmptyOperator(d, t)
    BY <2>1, ReadyIs, MoreOfTasks DEF EmptyOperator
  <2>2. CASE t \in Sensors /\ Poke(d, t)
    BY <2>2, ReadyIs, MoreOfTasks DEF Poke, DropOf
  <2>3. CASE t \in Sensors /\ SensorTimesOut(d, t)
    BY <2>3, ReadyIs, MoreOfTasks DEF SensorTimesOut
  <2>4. CASE UpstreamFails(d, t)
    BY <2>4 DEF UpstreamFails, Finished
  <2> QED
    BY <2>1, <2>2, <2>3, <2>4
<1>2. v = "upstream_failed" => Id(t, d) \notin DOMAIN batch
  BY <1>1 DEF Inv, InvTasks, UpstreamGreen, dataproc
<1>3. v \in TiStates /\ v # "running"
  BY <1>1 DEF TiStates, Finished
<1>4. /\ ti' = [ti EXCEPT ![d][t] = v]
      /\ tries' = [tries EXCEPT ![d][t] = 0]
      /\ 0 \in 0 .. Tries /\ 0 < Tries
  BY <1>1, EndsIs
<1>5. v = "success" /\ t # end => \A u \in Upstream[t] : ti[d][u] = "success"
  BY <1>1, ReadyIs
<1>6. bronze \subseteq landing /\ refused \subseteq landing
  BY DEF Inv, TypeOK
<1>7. v = "success" => t \notin Ingests /\ t \notin BatchTasks
  BY <1>1 DEF PythonTasks
<1>8. /\ UNCHANGED <<batch, read, orphans, bronze, refused, silver, facts>>
      /\ orphans \subseteq DOMAIN batch
  BY <1>1 DEF dataproc, layers, Inv, TypeOK
<1>9. t \in BatchTasks => Id(t, d) \notin Running
  BY <1>1, <1>2 DEF Running
<1> QED
  BY <1>1, <1>2, <1>3, <1>4, <1>5, <1>6, <1>7, <1>8, <1>9, TaskStep

LEMMA PythonStep ==
    ASSUME Inv, NEW d \in Days, NEW t \in PythonTasks, t \in Tasks,
           PythonSucceeds(d, t) \/ PythonRaises(d, t)
    PROVE  Inv'
<1>1. /\ t \in PythonTasks /\ t \notin BatchTasks /\ t \notin Sensors /\ t # end
      /\ runs[d] = "running" /\ ti[d][t] \notin Finished /\ ti[d][t] # "running"
      /\ \A u \in Upstream[t] : ti[d][u] = "success"
      /\ UNCHANGED <<today, runs, clears, batch, read, orphans, landing, silver, facts>>
      /\ orphans \subseteq DOMAIN batch
      /\ Loaded(d, t) \subseteq landing
      /\ bronze \subseteq landing /\ refused \subseteq landing
  BY ReadyIs, MoreOfTasks DEF PythonSucceeds, PythonRaises, Inv, TypeOK, Loaded, dataproc
<1>2. CASE PythonSucceeds(d, t)
  <2>1. PICK unread \in SUBSET {x \in Loaded(d, t) : x.source \in FileBased} :
          refused' = refused \cup (unread \ bronze)
    BY <1>2 DEF PythonSucceeds
  <2>2. bronze' = bronze \cup (Loaded(d, t) \ refused')
    BY <1>2 DEF PythonSucceeds
  <2>3. /\ bronze \subseteq bronze' /\ bronze' \subseteq landing
        /\ refused \subseteq refused' /\ refused' \subseteq landing
    BY <1>1, <2>1, <2>2
  <2>4. ASSUME t \in Ingests PROVE DropOf(t.name, d) \in bronze' \cup refused'
    <3>1. t = Task("ingest", t.name) /\ t.name \in Sources
      BY <2>4 DEF Ingests, Task
    <3>2. DropOf(t.name, d) \in landing
      <4>1. CASE t.name \in FileBased
        <5>1. Task("sensor", t.name) \in Upstream[t]
          BY <2>4, <4>1, IngestUpstream
        <5> QED
          BY <1>1, <4>1, <5>1 DEF Inv, InvTasks, FilesSeen
      <4>2. CASE t.name \notin FileBased
        <5>1. d <= today
          BY <1>1 DEF Inv, InvRuns, RunsAreDue
        <5> QED
          BY <3>1, <4>2, <5>1 DEF Inv, InvRuns, RowsDelivered
      <4> QED
        BY <4>1, <4>2
    <3>3. DropOf(t.name, d) \in Loaded(d, t)
      BY <3>1, <3>2 DEF Loaded, DropOf
    <3> QED
      BY <2>2, <3>3
  <2>5. /\ ti' = [ti EXCEPT ![d][t] = "success"]
        /\ tries' = [tries EXCEPT ![d][t] = 0]
        /\ 0 \in 0 .. Tries /\ 0 < Tries
    BY <1>2, EndsIs DEF PythonSucceeds
  <2>6. "success" \in TiStates
    BY DEF TiStates, Finished
  <2> QED
    BY <1>1, <2>3, <2>4, <2>5, <2>6, TaskStep
<1>3. CASE PythonRaises(d, t)
  <2>1. /\ refused' = refused
        /\ bronze \subseteq bronze' /\ bronze' \subseteq landing
    BY <1>1, <1>3 DEF PythonRaises
  <2>2. tries[d][t] + 1 \in 0 .. Tries
    BY <1>1, DagBoundsAssumption DEF Inv, InvTasks, TriesLeft, TypeOK
  <2>3. PICK v \in {"up_for_retry", "failed"}, n \in 0 .. Tries :
          /\ n < Tries
          /\ ti' = [ti EXCEPT ![d][t] = v]
          /\ tries' = [tries EXCEPT ![d][t] = n]
    BY <1>3, <2>2, FailsOrRetriesIs DEF PythonRaises
  <2>4. v \in TiStates /\ v \notin {"success", "running", "upstream_failed"}
    BY <2>3 DEF TiStates, Finished
  <2> QED
    BY <1>1, <2>1, <2>3, <2>4, TaskStep
<1> QED
  BY <1>2, <1>3

LEMMA CreateStep ==
    ASSUME Inv, NEW d \in Days, NEW t \in BatchTasks, t \in Tasks, CreateBatch(d, t)
    PROVE  Inv'
<1>1. /\ t \in BatchTasks /\ t # end
      /\ runs[d] = "running" /\ ti[d][t] \notin Finished /\ ti[d][t] # "running"
      /\ \A u \in Upstream[t] : ti[d][u] = "success"
      /\ ti' = [ti EXCEPT ![d][t] = "running"]
      /\ UNCHANGED <<today, runs, clears, landing, bronze, refused, silver, facts>>
      /\ UNCHANGED <<read, orphans>> /\ orphans \subseteq DOMAIN batch
      /\ bronze \subseteq landing /\ refused \subseteq landing
  BY ReadyIs, MoreOfTasks DEF CreateBatch, Inv, TypeOK, layers
<1>2. PICK n \in 0 .. Tries : tries' = [tries EXCEPT ![d][t] = n]
  <2>1. tries[d][t] + 1 \in 0 .. Tries
    BY <1>1, DagBoundsAssumption DEF Inv, InvTasks, TriesLeft, TypeOK
  <2>2. tries' = [tries EXCEPT ![d][t] = tries[d][t] + 1]
    BY DEF CreateBatch, Inv, TypeOK
  <2> QED
    BY <2>1, <2>2
<1>3. batch' = [i \in DOMAIN batch \cup {Id(t, d)} |->
                  IF i \in DOMAIN batch THEN batch[i] ELSE "created"]
  BY DEF CreateBatch, BatchId, Id
<1>4. "running" \in TiStates
  BY DEF TiStates
<1>5. Id(t, d) \in DOMAIN batch'
  BY <1>3
<1> QED
  BY <1>1, <1>2, <1>3, <1>4, <1>5, TaskStep

LEMMA SeenStep ==
    ASSUME Inv, NEW d \in Days, NEW t \in Tasks, BatchSeen(d, t) \/ WorkerLost(d, t)
    PROVE  Inv'
<1>1. /\ ti[d][t] = "running"
      /\ UNCHANGED <<today, runs, clears, batch, read, landing, bronze, refused, silver,
                     facts>>
      /\ bronze \subseteq landing /\ refused \subseteq landing
      /\ orphans \subseteq DOMAIN batch
  BY DEF BatchSeen, WorkerLost, Inv, TypeOK, layers, dataproc
<1>2. /\ runs[d] = "running" /\ ti[d][t] \notin Finished
      /\ t \in BatchTasks /\ Id(t, d) \in DOMAIN batch
      /\ \A u \in Upstream[t] : ti[d][u] = "success"
      /\ tries[d][t] \in 0 .. Tries
      /\ t \notin Sensors /\ t \notin Ingests
  BY <1>1, RunningIs, MoreOfTasks DEF PythonTasks
<1>3. CASE batch[Id(t, d)] = "succeeded" /\ Ends(d, t, "success") /\ orphans' = orphans
  <2>1. Id(t, d) \notin Running /\ "success" \in TiStates
    BY <1>3 DEF Running, Phases, TiStates, Finished
  <2>2. /\ ti' = [ti EXCEPT ![d][t] = "success"]
        /\ tries' = [tries EXCEPT ![d][t] = 0]
        /\ 0 \in 0 .. Tries /\ 0 < Tries
    BY <1>3, EndsIs
  <2> QED
    BY <1>1, <1>2, <1>3, <2>1, <2>2, TaskStep
<1>4. CASE /\ FailsOrRetries(d, t, tries[d][t])
           /\ \/ orphans' = orphans /\ batch[Id(t, d)] = "failed"
              \/ orphans' = IF ti'[d][t] = "failed"
                            THEN orphans \cup ({Id(t, d)} \cap Running) ELSE orphans
  <2>1. PICK v \in {"up_for_retry", "failed"}, n \in 0 .. Tries :
          /\ n < Tries
          /\ ti' = [ti EXCEPT ![d][t] = v]
          /\ tries' = [tries EXCEPT ![d][t] = n]
    BY <1>2, <1>4, FailsOrRetriesIs
  <2>2. v \in TiStates /\ v \notin {"success", "running", "upstream_failed"}
    BY <2>1 DEF TiStates, Finished
  <2>3. ti'[d][t] = v
    BY <2>1 DEF Inv, TypeOK
  <2>4. orphans \subseteq orphans' /\ orphans' \subseteq DOMAIN batch
    BY <1>1, <1>4 DEF Running
  <2>5. v # "up_for_retry" => Id(t, d) \notin Running \ orphans'
    BY <1>4, <2>1, <2>3 DEF Running, Phases
  <2> QED
    BY <1>1, <1>2, <2>1, <2>2, <2>4, <2>5, TaskStep
<1> QED
  BY <1>3, <1>4 DEF BatchSeen, WorkerLost, BatchId, Id, dataproc

-----------------------------------------------------------------------------
(* The invariant, and what follows from it.                                *)

LEMMA InvInit == Init => Inv
<1> SUFFICES ASSUME Init PROVE Inv
  OBVIOUS
<1>1. TypeOK
  BY DagBoundsAssumption DEF Init, TypeOK, TiStates
<1>2. InvRuns
  BY DagBoundsAssumption DEF Init, InvRuns, RunsAreDue, OneRun, RowsDelivered, Days
<1>3. FilesSeen /\ IngestLanded
  BY MoreOfTasks DEF Init, FilesSeen, IngestLanded
<1>4. UpstreamGreen /\ RunningKnown /\ TriesLeft
  BY DagBoundsAssumption DEF Init, UpstreamGreen, RunningKnown, TriesLeft
<1>5. InvIds
  BY MoreOfTasks DEF Init, InvIds, IdsOfDay, NoBatchBehind, GreenBatch, BatchOwned,
                     OrphansKnown, Running
<1>6. InvRows
  BY DEF Init, InvRows, SilverRead, GoldRead, SilverHas, GoldHas, HasRead, Wrote
<1> QED
  BY <1>1, <1>2, <1>3, <1>4, <1>5, <1>6 DEF Inv, InvTasks

LEMMA InvNext == Inv /\ [Next]_vars => Inv'
<1> SUFFICES ASSUME Inv, [Next]_vars PROVE Inv'
  OBVIOUS
<1>1. CASE NextDay \/ \E s \in FileBased : Arrive(s)
  BY <1>1, CalendarStep
<1>2. CASE Schedule
  BY <1>2, ScheduleStep
<1>3. ASSUME NEW d \in Days, FinishRun(d) PROVE Inv'
  BY <1>3, FinishStep
<1>4. ASSUME NEW d \in Days, NEW t \in Tasks, Clear(d, t) PROVE Inv'
  BY <1>4, ClearStep
<1>5. ASSUME NEW d \in Days, NEW t \in Tasks,
             \/ UpstreamFails(d, t)
             \/ t \in {start, end} /\ EmptyOperator(d, t)
             \/ t \in Sensors /\ (Poke(d, t) \/ SensorTimesOut(d, t))
      PROVE  Inv'
  BY <1>5, MarkerStep
<1>6. ASSUME NEW d \in Days, NEW t \in PythonTasks,
             PythonSucceeds(d, t) \/ PythonRaises(d, t)
      PROVE  Inv'
  BY <1>6, PythonStep DEF PythonTasks, Tasks
<1>7. ASSUME NEW d \in Days, NEW t \in BatchTasks,
             CreateBatch(d, t) \/ BatchSeen(d, t) \/ WorkerLost(d, t)
      PROVE  Inv'
  BY <1>7, CreateStep, SeenStep, MoreOfTasks
<1>8. ASSUME NEW id \in DOMAIN batch,
             BatchReads(id) \/ BatchWrites(id) \/ BatchSucceeds(id) \/ BatchFails(id)
      PROVE  Inv'
  BY <1>8, ReadsStep, WritesStep, EndStep
<1>9. CASE UNCHANGED vars
  <2>1. /\ UNCHANGED <<today, runs, ti, tries, clears, batch, read, orphans, landing,
                       bronze, refused, silver, gold, byOrphan>>
        /\ UNCHANGED <<dataproc, layers>>
    BY <1>9 DEF vars, dag, dataproc, layers, facts
  <2>2. TypeOK' /\ InvRuns'
    BY <2>1 DEF Inv, TypeOK, Readers, InvRuns, RunsAreDue, OneRun, RowsDelivered
  <2>3. InvTasks'
    BY <2>1 DEF Inv, InvTasks, FilesSeen, IngestLanded, UpstreamGreen,
                RunningKnown, TriesLeft
  <2>4. InvIds' /\ InvRows'
    BY <2>1, RowsStay DEF Inv, InvIds, IdsOfDay, NoBatchBehind, GreenBatch,
                BatchOwned, OrphansKnown, Waiting, Running
  <2> QED
    BY <2>2, <2>3, <2>4 DEF Inv
<1> QED
  <2>1. CASE Airflow
    <3>1. /\ Sensors \cup PythonTasks \cup BatchTasks \subseteq Tasks
          /\ {start, end} \subseteq Tasks
      BY MoreOfTasks DEF Tasks, PythonTasks
    <3> QED
      BY <1>2, <1>3, <1>5, <1>6, <1>7, <2>1, <3>1 DEF Airflow
  <2> QED
    BY <1>1, <1>4, <1>8, <1>9, <2>1 DEF Next, Dataproc

THEOREM InvHolds == Spec => []Inv
  BY InvInit, InvNext, PTL DEF Spec

(* Type correctness, the bounds of the tries and of the batch ids included. *)
THEOREM TypeCorrect == Spec => []TypeOK
<1>1. Inv => TypeOK
  BY DEF Inv
<1> QED
  BY <1>1, InvHolds, PTL

(* A green Gold task has the day of every source behind it, for any graph  *)
(* of entities, any number of days, tries and clears: a batch that is not  *)
(* an orphan runs alone with its run, so what it has read of Silver is not *)
(* older, when it overwrites the fact, than any day that is in it.         *)
THEOREM GreenGoldHasTheDayHolds == Spec => []GreenGoldHasTheDay
<1>1. Inv => GreenGoldHasTheDay
  <2> SUFFICES ASSUME Inv, NEW d \in Days, NEW g \in Gold,
                      ti[d][Task("gold", g)] = "success", g \notin byOrphan
               PROVE  \A e \in DepsOf[g] \cap Silver :
                        DropOf(SourceOf[e], d) \in gold[g] \cup refused
    BY DEF GreenGoldHasTheDay, DropOf
  <2>1. Wrote(Task("gold", g), d)
    BY MoreOfTasks DEF Inv, InvIds, GreenBatch, Wrote, BatchTasks
  <2> QED
    BY <2>1 DEF Inv, InvRows, GoldHas
<1> QED
  BY <1>1, InvHolds, PTL

(* Two running batches of an entity are of two days, one of which is over: *)
(* its task has failed.                                                    *)
THEOREM OneBatchAtATimeHolds == Spec => []OneBatchAtATime
<1>1. Inv => OneBatchAtATime
  <2> SUFFICES ASSUME Inv, NEW x \in Running, NEW y \in Running,
                      x[1] = y[1], x # y,
                      ti[x[2]][x[1]] # "failed", ti[y[2]][y[1]] # "failed"
               PROVE  FALSE
    BY DEF OneBatchAtATime
  <2>1. PICK c \in Days, t \in BatchTasks : x = Id(t, c)
    BY DEF Inv, InvIds, IdsOfDay, Id, Running
  <2>2. PICK d \in Days, u \in BatchTasks : y = Id(u, d)
    BY DEF Inv, InvIds, IdsOfDay, Id, Running
  <2>3. u = t /\ c # d
    BY <2>1, <2>2 DEF Id
  <2>4. runs[c] = "running" /\ runs[d] = "running"
    BY <2>1, <2>2 DEF Inv, InvIds, BatchOwned, Id
  <2> QED
    BY <2>3, <2>4 DEF Inv, InvRuns, OneRun
<1> QED
  BY <1>1, InvHolds, PTL
===============================================================================
