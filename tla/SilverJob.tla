------------------------------ MODULE SilverJob ------------------------------
(***************************************************************************)
(* spark/jobs/silver_job.py for an entity that is upserted: read all of    *)
(* the entity's Bronze, cast, keep the newest row of each business key,    *)
(* evaluate the rules, append the quarantine, MERGE the rest into Silver,  *)
(* write the DQ results and the batch audit, and only then raise if a      *)
(* threshold is breached. common/scb_common/monitoring.py reads the audit. *)
(* (The SCD2 branch of the job is Scd2Dimension.)                          *)
(*                                                                         *)
(* A batch is one run of the job under a batch_id of its own. Outside the  *)
(* code: the ingestion that appends to Bronze, Airflow and people who      *)
(* start batches, failures and kills. A table write of Spark (Parquet      *)
(* append, Iceberg MERGE) is atomic. The business key is never null, and   *)
(* dedup_order_by names a column that orders Bronze by ingestion and that  *)
(* the cast keeps.                                                         *)
(***************************************************************************)
EXTENDS DataQuality, Sequences

CONSTANTS
    Keys,       \* business keys
    Configs,    \* entities: dq_rules on one column, its type, what arrives
    MaxRows,    \* bound: rows that reach Bronze
    MaxBatches, \* bound: runs of the job
    MaxActive   \* bound: runs at the same time; Airflow starts one

Batches == 1 .. MaxBatches

ASSUME ConfigsAssumption ==
    Configs \subseteq [rules : SUBSET Rule, dtype : Dtypes, texts : SUBSET Texts]
ASSUME SilverBoundsAssumption == {MaxRows, MaxBatches, MaxActive} \subseteq Nat

VARIABLES
    config,       \* the entity the jobs are run for
    bronze,       \* rows of the entity in the order of their ingestion
    silver,       \* silver[k]: number of the Bronze row in Silver, or 0
    quarantine,   \* <<batch, row>> under quarantine_root
    dqResults,    \* batches with rows in dq_results
    audit,        \* rows of batch_audit
    pc,           \* pc[b]: what batch b has done
    read,         \* read[b]: the rows of Bronze its DataFrame lists
    merged,       \* history: <<batch, row>> of the source of each MERGE
    lastMerge,    \* history: the batch of the last MERGE, or 0
    lone          \* history: lone[b], no other batch ran while b did

rules == config.rules
dtype == config.dtype
stores == <<silver, quarantine, merged, lastMerge>>
vars == <<config, bronze, stores, dqResults, audit, pc, read, lone>>

Phases == {"none", "read", "quarantined", "merged", "dq", "audited",
           "succeeded", "failed", "killed"}
Active == {b \in Batches : pc[b] \notin {"none", "succeeded", "failed", "killed"}}

TypeOK ==
    /\ config \in Configs
    /\ bronze \in Seq([key : Keys, text : Texts])
    /\ Len(bronze) <= MaxRows
    /\ silver \in [Keys -> 0 .. Len(bronze)]
    /\ quarantine \subseteq Batches \X (1 .. Len(bronze))
    /\ dqResults \subseteq Batches
    /\ audit \subseteq [batch : Batches, status : {"success", "failed"}]
    /\ pc \in [Batches -> Phases]
    /\ read \in [Batches -> 0 .. Len(bronze)]
    /\ merged \subseteq Batches \X (1 .. Len(bronze))
    /\ lastMerge \in {0} \cup Batches
    /\ lone \in [Batches -> BOOLEAN]

Init ==
    /\ config \in Configs
    /\ bronze = <<>>
    /\ silver = [k \in Keys |-> 0]
    /\ quarantine = {}
    /\ dqResults = {}
    /\ audit = {}
    /\ pc = [b \in Batches |-> "none"]
    /\ read = [b \in Batches |-> 0]
    /\ merged = {}
    /\ lastMerge = 0
    /\ lone = [b \in Batches |-> TRUE]

-----------------------------------------------------------------------------
(* Around the job.                                                         *)

Land(k, text) ==
    /\ Len(bronze) < MaxRows
    /\ text \in config.texts
    /\ bronze' = Append(bronze, [key |-> k, text |-> text])
    /\ UNCHANGED <<config, stores, dqResults, audit, pc, read, lone>>

-----------------------------------------------------------------------------
(* run_silver().                                                           *)

Goto(b, phase) == pc' = [pc EXCEPT ![b] = phase]

(* Up to the first action on the DataFrame, which fixes the list of files. *)
Start(b) ==
    /\ pc[b] = "none"
    /\ \A c \in 1 .. b - 1 : pc[c] # "none"
    /\ Cardinality(Active) < MaxActive
    /\ Goto(b, "read")
    /\ read' = [read EXCEPT ![b] = Len(bronze)]
    /\ lone' = [c \in Batches |-> lone[c] /\ c \notin Active
                                         /\ (c = b => Active = {})]
    /\ UNCHANGED <<config, bronze, stores, dqResults, audit>>

(* apply_dedup: row_number() = 1 by descending order.                      *)
DedupAscending(n) == \* mutant: the oldest row of each key
    {i \in 1 .. n : \A j \in 1 .. i - 1 : bronze[j].key # bronze[i].key}
Dedup(n) ==
    {i \in 1 .. n : \A j \in i + 1 .. n : bronze[j].key # bronze[i].key}

(* The column of the deduplicated rows, in Bronze and after apply_casts.   *)
RawTable(n) == [i \in Dedup(n) |-> bronze[i].text]
Typed(b) == CastTable(RawTable(read[b]), dtype)

(* evaluate_spark and the append to the quarantine. Without a file in      *)
(* Bronze or an error rule there is no way on but the exception.           *)
Quarantine(b) ==
    /\ pc[b] = "read"
    /\ read[b] > 0
    /\ ~GateRaises(rules)
    /\ quarantine' = quarantine \cup
         ({b} \X QuarantinedRows(rules, dtype, Typed(b)))
    /\ Goto(b, "quarantined")
    /\ UNCHANGED <<config, bronze, silver, merged, lastMerge, dqResults,
                   audit, read, lone>>

(* build_scd1_merge_sql: update the matched rows, insert the others.       *)
Upsert(clean) ==
    [k \in Keys |->
       IF \E i \in clean : bronze[i].key = k
       THEN CHOOSE i \in clean : bronze[i].key = k
       ELSE silver[k]]

Merge(b) ==
    LET clean == CleanRows(rules, dtype, Typed(b))
    IN  /\ pc[b] = "quarantined"
        /\ silver' = Upsert(clean)
        /\ merged' = merged \cup ({b} \X clean)
        /\ lastMerge' = b
        /\ Goto(b, "merged")
        /\ UNCHANGED <<config, bronze, quarantine, dqResults, audit, read,
                       lone>>

WriteDq(b) ==
    /\ pc[b] = "merged"
    /\ dqResults' = dqResults \cup {b}
    /\ Goto(b, "dq")
    /\ UNCHANGED <<config, bronze, stores, audit, read, lone>>

AuditRowOpen(b, status) == \* mutant: the audit is written before finalize()
    [batch |-> b, status |-> "running"]
AuditRow(b, status) == [batch |-> b, status |-> status]

(* finalize(audit, "success") and write_batch.                             *)
WriteSuccessFirst(b) == \* mutant: the batch is audited before its MERGE
    /\ pc[b] = "quarantined"
    /\ audit' = audit \cup {AuditRow(b, "success")}
    /\ UNCHANGED <<config, bronze, stores, dqResults, pc, read, lone>>
WriteSuccess(b) ==
    /\ pc[b] = "dq"
    /\ audit' = audit \cup {AuditRow(b, "success")}
    /\ Goto(b, "audited")
    /\ UNCHANGED <<config, bronze, stores, dqResults, read, lone>>

(* raise_if_failed: the except clause writes the batch a second time.      *)
Enforce(b) ==
    /\ pc[b] = "audited"
    /\ IF SparkBreaches(rules, dtype, Typed(b)) = {}
       THEN Goto(b, "succeeded") /\ UNCHANGED audit
       ELSE /\ audit' = audit \cup {AuditRow(b, "failed")}
            /\ Goto(b, "failed")
    /\ UNCHANGED <<config, bronze, stores, dqResults, read, lone>>

(* Any other exception between two steps.                                  *)
Raise(b) ==
    /\ b \in Active
    /\ audit' = audit \cup {AuditRow(b, "failed")}
    /\ Goto(b, "failed")
    /\ UNCHANGED <<config, bronze, stores, dqResults, read, lone>>

(* The Dataproc batch is killed: no except clause runs.                    *)
Kill(b) ==
    /\ b \in Active
    /\ Goto(b, "killed")
    /\ UNCHANGED <<config, bronze, stores, dqResults, audit, read, lone>>

Next ==
    \/ \E k \in Keys, text \in Texts : Land(k, text)
    \/ \E b \in Batches :
         \/ Start(b) \/ Quarantine(b) \/ Merge(b) \/ WriteDq(b)
         \/ WriteSuccess(b) \/ Enforce(b) \/ Raise(b) \/ Kill(b)

Spec == Init /\ [][Next]_vars

-----------------------------------------------------------------------------
(* monitoring.py: the rows of batch_audit freshness_from_audit goes by; a   *)
(* row that says failed changes nothing, also when it is the later one.    *)
Successes == {a.batch : a \in {r \in audit : r.status = "success"}}

-----------------------------------------------------------------------------
(* Properties.                                                             *)

(* The newest row of a key among the first n of Bronze.                    *)
RowsOf(k, n) == {i \in 1 .. n : bronze[i].key = k}
Newest(k, n) == CHOOSE i \in RowsOf(k, n) : \A j \in RowsOf(k, n) : j <= i

(* Where every rule is portable and the cast changes nothing, the engine   *)
(* the tests run (dq.py) and the engine the job runs (dq_spark.py) agree   *)
(* on the breached rules, and, until a rule has more failing rows than     *)
(* RuleResult remembers, on the clean rows.                                *)
EnginesAgree ==
    LET n     == Len(bronze)
        table == RawTable(n)
        few   == \A r \in rules : Cardinality(FailingRows(r, table)) <= Cap
    IN  /\ \A r \in rules : Portable(r, dtype)
        /\ SurvivesCast(table, dtype)
        =>
        /\ Breaches(rules, table) = SparkBreaches(rules, dtype, table)
        /\ few => SplitClean(rules, table) = CleanRows(rules, dtype, table)

(* A batch that freshness counts has dropped nothing silently: the         *)
(* newest row of each key it read went into Silver or into the quarantine, *)
(* not both, and its results are in dq_results, whatever failed, was       *)
(* killed or ran beside it. It takes conditions that are never NULL.       *)
NothingDropped ==
    TwoValued(rules, dtype) =>
      \A b \in Successes :
        /\ b \in dqResults
        /\ \A k \in Keys : RowsOf(k, read[b]) # {} =>
             LET row == <<b, Newest(k, read[b])>>
             IN  (row \in merged) # (row \in quarantine)

(* After the MERGE of a batch that ran alone, Silver shows the newest row  *)
(* of each key the batch read, unless that row is quarantined, and nothing *)
(* newer was ever merged: also after batches that failed half-way or       *)
(* overlapped. Only two batches at once can put an older row back.         *)
LoneMergeIsCurrent ==
    lastMerge # 0 /\ lone[lastMerge] /\ TwoValued(rules, dtype) =>
      \A k \in Keys : RowsOf(k, read[lastMerge]) # {} =>
        LET row == Newest(k, read[lastMerge])
        IN  \/ <<lastMerge, row>> \in quarantine
            \/ /\ silver[k] = row
               /\ \A m \in merged : bronze[m[2]].key = k => m[2] <= row
=============================================================================
