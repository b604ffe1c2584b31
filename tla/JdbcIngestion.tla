----------------------------- MODULE JdbcIngestion -----------------------------
(***************************************************************************)
(* The incremental JDBC path of ingestion/extractor.py: read the watermark *)
(* of an entity, select the rows past it, write them to Bronze, and store  *)
(* the largest timestamp among them as the new watermark.                  *)
(*                                                                         *)
(* Each process extracts one entity, over and over; several may extract    *)
(* the same one (the 4-hourly schedule, a retry, a manual run). They share *)
(* the metadata store: BigQuery, where a watermark is one MERGE, or the    *)
(* JSONL store, where it is a read, a truncation and a write of a single   *)
(* watermarks.json, under a lock that other processes do not see.          *)
(*                                                                         *)
(* No name is one of BatchIngestion's, the other path of extractor.py:     *)
(* IngestionProofs extends both.                                           *)
(***************************************************************************)
EXTENDS Naturals, FiniteSets

CONSTANTS
    Tables,     \* incremental tables
    Runs,       \* processes
    Ids,        \* row versions of the source
    MaxTime,    \* bound: values of the watermark column are 1 .. MaxTime
    InOrder,    \* rows commit in the order of their timestamps, no two equal
    MaxKills,   \* bound: processes killed
    Torn        \* watermarks.json between truncation and write

ASSUME JdbcBoundsAssumption ==
    MaxTime \in Nat /\ MaxKills \in Nat /\ InOrder \in BOOLEAN

Time == 1 .. MaxTime
Row == [id : Ids, ts : Time]

(* No watermark yet is 0, before every timestamp.                          *)
Watermarks == [Tables -> 0 .. MaxTime]
ASSUME TornAssumption == Torn \notin Watermarks

VARIABLES
    metaStore, \* metadata.backend of the environment: "bigquery" or "jsonl"
    tableOf,   \* tableOf[p]: the entity process p extracts
    source,    \* source[e]: committed rows of the source
    landed,    \* landed[e]: rows landed in Bronze
    stored,    \* the watermarks, or Torn
    phase,     \* phase[p]: where process p is
    wm,        \* wm[p]: the watermark it read
    rows,      \* rows[p]: the rows it read
    copy,      \* copy[p]: watermarks.json as set_watermark read it
    kills

config == <<metaStore, tableOf>>
jdbcVars == <<config, source, landed, stored, phase, wm, rows, copy, kills>>

JdbcPhase == {"idle", "query", "land", "mark", "truncate", "write"}

JdbcTypeOK ==
    /\ metaStore \in {"bigquery", "jsonl"}
    /\ tableOf \in [Runs -> Tables]
    /\ source \in [Tables -> SUBSET Row]
    /\ landed \in [Tables -> SUBSET Row]
    /\ stored \in Watermarks \cup {Torn}
    /\ phase \in [Runs -> JdbcPhase]
    /\ wm \in [Runs -> 0 .. MaxTime]
    /\ rows \in [Runs -> SUBSET Row]
    /\ copy \in [Runs -> Watermarks]
    /\ kills \in 0 .. MaxKills

NoWatermarks == [e \in Tables |-> 0]

JdbcInit ==
    /\ metaStore \in {"bigquery", "jsonl"}
    /\ tableOf \in [Runs -> Tables]
    /\ source = [e \in Tables |-> {}]
    /\ landed = [e \in Tables |-> {}]
    /\ stored = NoWatermarks
    /\ phase = [p \in Runs |-> "idle"]
    /\ wm = [p \in Runs |-> 0]
    /\ rows = [p \in Runs |-> {}]
    /\ copy = [p \in Runs |-> NoWatermarks]
    /\ kills = 0

-----------------------------------------------------------------------------
(* The source commits a row version; its updated_at need not be the time   *)
(* of the commit, nor unique, unless InOrder says so.                      *)
Write(e, id, ts) ==
    /\ \A d \in Tables : \A r \in source[d] : r.id # id
    /\ InOrder => \A r \in source[e] : r.ts < ts
    /\ source' = [source EXCEPT ![e] = @ \cup {[id |-> id, ts |-> ts]}]
    /\ UNCHANGED <<config, landed, stored, phase, wm, rows, copy, kills>>

Goto(p, to) == phase' = [phase EXCEPT ![p] = to]

(* get_watermark; a torn file is not JSON, and the run fails there.        *)
ReadWatermark(p) ==
    /\ phase[p] = "idle"
    /\ stored # Torn
    /\ wm' = [wm EXCEPT ![p] = stored[tableOf[p]]]
    /\ Goto(p, "query")
    /\ UNCHANGED <<source, landed, stored, rows, copy, kills>>

(* read_table: WHERE updated_at > watermark.                               *)
Query(p) ==
    /\ phase[p] = "query"
    /\ rows' = [rows EXCEPT ![p] = {r \in source[tableOf[p]] : r.ts > wm[p]}]
    /\ Goto(p, "land")
    /\ UNCHANGED <<source, landed, stored, wm, copy, kills>>

(* write_bronze; with no rows there is no file and no new watermark.       *)
LandRows(p) ==
    /\ phase[p] = "land"
    /\ landed' = [landed EXCEPT ![tableOf[p]] = @ \cup rows[p]]
    /\ Goto(p, IF rows[p] = {} THEN "idle" ELSE "mark")
    /\ UNCHANGED <<source, stored, wm, rows, copy, kills>>

(* max(values).                                                            *)
Highest(S) == CHOOSE t \in 0 .. MaxTime :
    /\ \A r \in S : r.ts <= t
    /\ t = 0 \/ \E r \in S : r.ts = t

(* Mutant of Merge: the watermark is the newest row of the source by now.  *)
MergeNow(p) ==
    /\ metaStore = "bigquery"
    /\ phase[p] = "mark"
    /\ stored' = [stored EXCEPT ![tableOf[p]] = Highest(source[tableOf[p]])]
    /\ Goto(p, "idle")
    /\ UNCHANGED <<source, landed, wm, rows, copy, kills>>

(* BigQueryMetadataStore.set_watermark.                                    *)
Merge(p) ==
    /\ metaStore = "bigquery"
    /\ phase[p] = "mark"
    /\ stored' = [stored EXCEPT ![tableOf[p]] = Highest(rows[p])]
    /\ Goto(p, "idle")
    /\ UNCHANGED <<source, landed, wm, rows, copy, kills>>

(* JsonlMetadataStore.set_watermark: the file is read, ...                 *)
ReadFile(p) ==
    /\ metaStore = "jsonl"
    /\ phase[p] = "mark"
    /\ stored # Torn
    /\ copy' = [copy EXCEPT ![p] = stored]
    /\ Goto(p, "truncate")
    /\ UNCHANGED <<source, landed, stored, wm, rows, kills>>

(* ... write_text opens it, which empties it, ...                          *)
Truncate(p) ==
    /\ phase[p] = "truncate"
    /\ stored' = Torn
    /\ Goto(p, "write")
    /\ UNCHANGED <<source, landed, wm, rows, copy, kills>>

(* Mutant of Written: the other entities are not carried over.             *)
WrittenAlone(p) == [e \in {tableOf[p]} |-> Highest(rows[p])]

(* Mutant of Written: the newest row of the source by now.                 *)
WrittenNow(p) == [copy[p] EXCEPT ![tableOf[p]] = Highest(source[tableOf[p]])]

Written(p) == [copy[p] EXCEPT ![tableOf[p]] = Highest(rows[p])]

(* ... and writes the whole of it. If another process has truncated and    *)
(* written since, this text is laid over the other, which may be longer.   *)
WriteBack(p) ==
    /\ phase[p] = "write"
    /\ \/ stored' = Written(p)
       \/ stored # Torn /\ stored' = Torn
    /\ Goto(p, "idle")
    /\ UNCHANGED <<source, landed, wm, rows, copy, kills>>

(* json.loads of a torn file raises: the run ends, to be started again.    *)
FailTorn(p) ==
    /\ phase[p] = "mark"
    /\ stored = Torn
    /\ Goto(p, "idle")
    /\ UNCHANGED <<source, landed, stored, wm, rows, copy, kills>>

(* The process is killed, or an error ends the run; run_source only adds a *)
(* batch_audit row.                                                        *)
Kill(p) ==
    /\ phase[p] # "idle"
    /\ kills < MaxKills
    /\ kills' = kills + 1
    /\ Goto(p, "idle")
    /\ UNCHANGED <<config, source, landed, stored, wm, rows, copy>>

Step(p) ==
    /\ \/ ReadWatermark(p) \/ Query(p) \/ LandRows(p)
       \/ Merge(p) \/ ReadFile(p) \/ Truncate(p) \/ WriteBack(p) \/ FailTorn(p)
    /\ UNCHANGED config

JdbcNext ==
    \/ \E e \in Tables, id \in Ids, ts \in Time : Write(e, id, ts)
    \/ \E p \in Runs : Step(p) \/ Kill(p)

JdbcSpec == JdbcInit /\ [][JdbcNext]_jdbcVars

(* Every process keeps running its extraction.                             *)
JdbcFairSpec == JdbcSpec /\ \A p \in Runs : WF_jdbcVars(Step(p))

-----------------------------------------------------------------------------
(* Properties.                                                             *)

(* No row is left behind a watermark: a committed row whose timestamp the  *)
(* stored watermark covers is in Bronze, whatever runs overlapped, lost    *)
(* each other's update, or died on the way. (What a run lands it lands     *)
(* before it stores the watermark.) A row behind it is never selected.     *)
NothingBehindWatermark ==
    stored # Torn =>
        \A e \in Tables : \A r \in source[e] :
            r.ts <= stored[e] => r \in landed[e]

(* With the BigQuery store every committed row of a table some process     *)
(* extracts reaches Bronze in the end. (A torn watermarks.json stops the   *)
(* extractions for good.)                                                  *)
EveryRowLanded ==
    \A e \in Tables : \A id \in Ids : \A ts \in Time :
        (/\ metaStore = "bigquery" /\ \E p \in Runs : tableOf[p] = e
         /\ [id |-> id, ts |-> ts] \in source[e])
            ~> [id |-> id, ts |-> ts] \in landed[e]
=============================================================================
