----------------------------- MODULE Scd2Dimension -----------------------------
(***************************************************************************)
(* spark/transforms/scd.py, apply_scd2, as spark/jobs/silver_job.py runs   *)
(* it on a Silver dimension, and the point-in-time join of                 *)
(* spark/transforms/gold.py that reads the dimension while it changes.     *)
(*                                                                         *)
(* A job applies two SQL statements to an Iceberg table: a MERGE that      *)
(* closes the open version of every key whose row_hash changed, and an     *)
(* INSERT of new keys and changed versions. Each statement is one atomic   *)
(* commit; the two are not. Both read the view scd2_src, which is a query, *)
(* not a result: each statement computes current_timestamp() and the       *)
(* ROW_NUMBER of the dedup again. One job at a time (the DAG has           *)
(* max_active_runs=1).                                                     *)
(***************************************************************************)
EXTENDS Naturals, FiniteSets

CONSTANTS
    Keys,      \* business keys
    Hashes,    \* row_hash over the tracked columns
    TiesOccur, \* two clean rows of a key may tie in dedup_order_by
    MaxTime    \* bound: the clock; effective_to is 9999-12-31 while open

ASSUME BoundAssumption == MaxTime \in Nat
ASSUME TiesAssumption == TiesOccur \in BOOLEAN

Time == 0 .. MaxTime
Forever == MaxTime + 1

VARIABLES
    bronze,    \* bronze[k]: hashes of the rows that rank first for k, after DQ
    snapshot,  \* the job's listing of Bronze
    dimension, \* the Silver table
    pc,        \* "idle", or "insert" between the two statements
    now

vars == <<bronze, snapshot, dimension, pc, now>>

(* A version of a key. Its surrogate key is a hash of key and from.        *)
Version == [key : Keys, hash : Hashes, from : Time, to : 0 .. Forever,
            current : BOOLEAN]

(* What the dedup may be asked to choose from: nothing, one row, or a tie. *)
Candidates == {S \in SUBSET Hashes : TiesOccur \/ \A g, h \in S : g = h}

TypeOK ==
    /\ bronze \in [Keys -> Candidates]
    /\ snapshot \in [Keys -> Candidates]
    /\ dimension \subseteq Version
    /\ pc \in {"idle", "insert"}
    /\ now \in Time

Init ==
    /\ bronze = [k \in Keys |-> {}]
    /\ snapshot = [k \in Keys |-> {}]
    /\ dimension = {}
    /\ pc = "idle"
    /\ now = 0

-----------------------------------------------------------------------------
(* Ingestion lands new rows of a key: other rows rank first from then on.  *)
Ingest(k, S) ==
    /\ bronze' = [bronze EXCEPT ![k] = S]
    /\ UNCHANGED <<snapshot, dimension, pc, now>>

(* One evaluation of scd2_src: a row per key, any of those that tie.       *)
Sources(snap) ==
    LET present == {k \in Keys : snap[k] # {}} IN
    {s \in [present -> Hashes] : \A k \in present : s[k] \in snap[k]}

(* Every statement has its own current_timestamp().                        *)
Tick == now < MaxTime /\ now' = now + 1

Changed(v, s) == v.current /\ v.key \in DOMAIN s /\ v.hash # s[v.key]

Closed(v, t) == [v EXCEPT !.to = t, !.current = FALSE]

(* Mutant of CloseChanged: effective_to stays open.                        *)
CloseChangedFlagOnly(s, t) ==
    {IF Changed(v, s) THEN [v EXCEPT !.current = FALSE] ELSE v : v \in dimension}

(* Mutant of CloseChanged: the old version is dropped, as in SCD1.         *)
CloseChangedOverwrites(s, t) == {v \in dimension : ~Changed(v, s)}

(* build_scd2_close_sql.                                                   *)
CloseChanged(s, t) ==
    {IF Changed(v, s) THEN Closed(v, t) ELSE v : v \in dimension}

(* The job reads Bronze, prepares the view and runs the first statement.   *)
Close ==
    /\ pc = "idle"
    /\ Tick
    /\ snapshot' = bronze
    /\ \E s \in Sources(bronze) : dimension' = CloseChanged(s, now')
    /\ pc' = "insert"
    /\ UNCHANGED bronze

(* Mutant of Opened: effective_to is counted from effective_from.          *)
OpenedRelative(k, h, t) ==
    [key |-> k, hash |-> h, from |-> t, to |-> t + Forever, current |-> TRUE]

Opened(k, h, t) ==
    [key |-> k, hash |-> h, from |-> t, to |-> Forever, current |-> TRUE]

OpenVersions(k) == {v \in dimension : v.key = k /\ v.current}

(* Mutant of Missing: without the hash compared, every key is inserted.    *)
MissingAll(s) == DOMAIN s

(* Mutant of Missing: only keys the dimension has never seen.              *)
MissingNewKeys(s) == {k \in DOMAIN s : \A v \in dimension : v.key # k}

(* LEFT JOIN on the open version: none, or one with another hash.          *)
Missing(s) ==
    {k \in DOMAIN s : OpenVersions(k) = {} \/ \E v \in OpenVersions(k) : Changed(v, s)}

(* build_scd2_insert_sql.                                                  *)
Insert ==
    /\ pc = "insert"
    /\ Tick
    /\ \E s \in Sources(snapshot) :
          dimension' = dimension \cup {Opened(k, s[k], now') : k \in Missing(s)}
    /\ pc' = "idle"
    /\ UNCHANGED <<bronze, snapshot>>

(* The Spark job dies between its two statements.                          *)
Crash ==
    /\ pc = "insert"
    /\ pc' = "idle"
    /\ UNCHANGED <<bronze, snapshot, dimension, now>>

Next ==
    \/ \E k \in Keys, S \in Candidates \ {{}} : Ingest(k, S)
    \/ Close
    \/ Insert
    \/ Crash

Spec == Init /\ [][Next]_vars

-----------------------------------------------------------------------------
(* Properties.                                                             *)

(* Never two open versions of a key, in mid-job and after a crash too: the *)
(* close and the insert agree on what changed.                             *)
OneCurrentVersion ==
    \A v, w \in dimension : v.key = w.key /\ v.current /\ w.current => v = w

(* pit_join_clause: the version of k that a fact dated t joins.            *)
PointInTime(k, t) == {v \in dimension : v.key = k /\ v.from <= t /\ t < v.to}

(* A point-in-time join never fans a fact out: the versions of a key do    *)
(* not overlap, at any moment the fact build may read the dimension.       *)
NoFanOut ==
    \A k \in Keys, t \in Time :
        \A v, w \in PointInTime(k, t) : v = w

(* History is never rewritten: a version stays as it is, or is closed, at  *)
(* a time not before it began, and never again.                            *)
HistoryKept ==
    [][\A v \in dimension :
          \/ v \in dimension'
          \/ v.current /\ v.from < now' /\ Closed(v, now') \in dimension']_vars

(* The rows of k that the next statement goes by: the first reads Bronze,  *)
(* the second the listing of the first.                                    *)
RowsRead(k) == IF pc = "insert" THEN snapshot[k] ELSE bronze[k]

VersionsOf(k) == {v \in dimension : v.key = k}

UpToDate(k) == \A h \in RowsRead(k) : \E v \in OpenVersions(k) : v.hash = h

(* Re-running with the same source is a no-op: a key whose open version is *)
(* what Bronze says goes unchanged through the close, still is what the    *)
(* insert goes by, and goes unchanged through the insert, whatever the     *)
(* same job does to other keys and whatever lands in Bronze meanwhile.     *)
RerunIsNoop ==
    [][\A k \in Keys : UpToDate(k) =>
          /\ VersionsOf(k)' = VersionsOf(k)
          /\ pc' = "insert" => UpToDate(k)']_vars

(* A finished job leaves the dimension at what it read of Bronze, whatever *)
(* an earlier crash left: a half-applied change is completed.              *)
JobConverges ==
    [][Insert =>
          \A k \in Keys : \A h \in snapshot[k] :
              \E v \in dimension' : v.key = k /\ v.current /\ v.hash = h]_vars
=============================================================================
