---------------------------- MODULE BatchIngestion ----------------------------
(***************************************************************************)
(* ingestion/extractor.py: land the files of one source to Bronze, with    *)
(* checksum dedup, a file audit, an archive copy and a watermark per       *)
(* entity. One process per source at a time (the DAG has max_active_runs=1 *)
(* and one ingest task per source), started again by retries, later days   *)
(* and backfills.                                                          *)
(*                                                                         *)
(* A file's content is a member of Contents and doubles as its SHA-256.    *)
(* Batch ids are only names of Bronze files, so a run takes one that no    *)
(* Bronze file carries. Writing one Parquet file is atomic.                *)
(***************************************************************************)
EXTENDS Naturals, Sequences, FiniteSets

CONSTANTS
    Format,       \* cfg["format"]
    EntityNames,  \* list(cfg["entities"]), in order
    Incremental,  \* entities with load_type incremental and a watermark column
    Dates,        \* the --date of a run
    Paths,        \* landing paths of the source
    PathsOf,      \* [entity, date] -> the paths the format stands for, sorted
    Contents,     \* what a file may hold
    Quality,      \* what read_entity makes of a content
    High,         \* its largest watermark value; 0: none
    Drops,        \* <<path, content>>: what the source system may deliver
    BatchIds,     \* new_batch_id's supply
    NoContent, NoDate, NoBatch, AnyEntity,
    MaxDrops,     \* bound: deliveries
    MaxErrors     \* bound: processes killed, and transient errors (file system,
                  \* metadata store)

Entities == {EntityNames[i] : i \in 1 .. Len(EntityNames)}

ASSUME FormatAssumption == Format \in {"csv", "json", "parquet", "xlsx"}
ASSUME EntitiesAssumption ==
    /\ EntityNames \in Seq(Entities)
    /\ \A i, j \in 1 .. Len(EntityNames) : EntityNames[i] = EntityNames[j] => i = j
    /\ Incremental \subseteq Entities
    /\ AnyEntity \notin Entities
    /\ NoDate \notin Dates
    /\ NoBatch \notin BatchIds
ASSUME FilesAssumption ==
    /\ PathsOf \in [Entities \X Dates -> Seq(Paths)]
    /\ Quality \in [Contents -> {"rows", "empty", "corrupt"}]
    /\ High \in [Contents -> Nat]
    /\ Drops \subseteq Paths \X Contents
    /\ NoContent \notin Contents
ASSUME BoundsAssumption ==
    MaxDrops \in Nat /\ MaxErrors \in Nat

VARIABLES
    landing,    \* landing[p]: content of the file, or NoContent
    bronze,     \* Parquet files under the Bronze root
    fileAudit,  \* file_audit rows: what is_file_seen reads
    archive,    \* archive[p]: the archived copy
    watermark,  \* watermark[e]: 0 when there is none
    batchAudit, \* the newest batch_audit row
    pc,         \* where the run is
    date,       \* its date
    batch,      \* its batch id
    entities,   \* entities still to do, the current one first
    files,      \* files of the current entity still to do, as places in PathsOf
    key,        \* dedup key of the file in hand
    data,       \* content read from it
    touched,    \* history: paths delivered to since the newest run began
    faulty,     \* history: that run met a transient error
    drops, crashes, faults

store  == <<bronze, fileAudit, archive, watermark>>
run    == <<pc, date, batch, entities, files, key, data>>
hist   == <<touched, faulty>>
counts == <<drops, crashes, faults>>
vars   == <<landing, store, batchAudit, run, hist, counts>>

(* dedup_key: the checksum, and the sheet too for a workbook.              *)
Key == [sum : Contents, sheet : Entities \cup {AnyEntity}]
(* Mutant of DedupKey: the sheets of a workbook share its checksum.        *)
DedupKeyNoSheet(c, e) == [sum |-> c, sheet |-> AnyEntity]
DedupKey(c, e) ==
    [sum |-> c, sheet |-> IF Format = "xlsx" THEN e ELSE AnyEntity]

(* A Bronze file is <root>/<source>/<entity>/ingest_date=<ds>/<batch>.     *)
BronzeFile == [entity : Entities, date : Dates, batch : BatchIds, content : Contents]
SameFile(f, g) == f.entity = g.entity /\ f.date = g.date /\ f.batch = g.batch

(* size_bytes is that of the content really read; 0 when none was.         *)
FileAudit == [path : Paths, key : Key, content : Contents \cup {NoContent},
              status : {"processed", "skipped_duplicate", "failed"}]

BatchAudit == [date : Dates \cup {NoDate}, status : {"none", "success", "failed"}]

Phase == {"idle", "entity", "file", "load", "audit", "archive", "watermark"}

TypeOK ==
    /\ landing \in [Paths -> Contents \cup {NoContent}]
    /\ bronze \subseteq BronzeFile
    /\ fileAudit \subseteq FileAudit
    /\ archive \in [Paths -> Contents \cup {NoContent}]
    /\ watermark \in [Entities -> Nat]
    /\ batchAudit \in BatchAudit
    /\ pc \in Phase
    /\ date \in Dates \cup {NoDate}
    /\ batch \in BatchIds \cup {NoBatch}
    /\ entities \in Seq(Entities)
    /\ files \in SUBSET Nat
    /\ key \in Key \cup {NoContent}
    /\ data \in Contents \cup {NoContent}
    /\ touched \subseteq Paths
    /\ faulty \in BOOLEAN
    /\ drops \in 0 .. MaxDrops
    /\ crashes \in Nat /\ faults \in Nat
    /\ crashes + faults <= MaxErrors

(* Mutant of Seen: the dedup is not asked.                                 *)
SeenNever(k) == FALSE

Seen(k) == \E r \in fileAudit : r.key = k
Exists(p) == landing[p] # NoContent
Entity == Head(entities)
(* The files the format stands for, and the next of them to process.       *)
Named == PathsOf[<<Entity, date>>]
Turn == CHOOSE i \in files : \A j \in files : i <= j
File == Named[Turn]

(* What the source system delivered before the first run.                  *)
Init ==
    /\ landing \in [Paths -> Contents \cup {NoContent}]
    /\ \A p \in Paths : Exists(p) => <<p, landing[p]>> \in Drops
    /\ bronze = {}
    /\ fileAudit = {}
    /\ archive = [p \in Paths |-> NoContent]
    /\ watermark = [e \in Entities |-> 0]
    /\ batchAudit = [date |-> NoDate, status |-> "none"]
    /\ pc = "idle"
    /\ date = NoDate
    /\ batch = NoBatch
    /\ entities = <<>>
    /\ files = {}
    /\ key = NoContent
    /\ data = NoContent
    /\ touched = {}
    /\ faulty = FALSE
    /\ drops = 0
    /\ crashes = 0
    /\ faults = 0

-----------------------------------------------------------------------------
(* The source system delivers a file, or replaces one, whenever it likes.  *)
Drop(p, c) ==
    /\ drops < MaxDrops
    /\ landing' = [landing EXCEPT ![p] = c]
    /\ drops' = drops + 1
    /\ touched' = touched \cup {p}
    /\ UNCHANGED <<store, batchAudit, run, faulty, crashes, faults>>

-----------------------------------------------------------------------------
(* run_source.                                                             *)

(* A new BatchContext: no Bronze file carries its batch id.                *)
FreshBatch(b) == \A f \in bronze : f.batch # b

StartRun(ds) ==
    /\ pc = "idle"
    /\ pc' = "entity"
    /\ date' = ds
    /\ \E b \in BatchIds : FreshBatch(b)
    /\ batch' = CHOOSE b \in BatchIds : FreshBatch(b)
    /\ entities' = EntityNames
    /\ touched' = {}
    /\ faulty' = FALSE
    /\ UNCHANGED <<landing, store, batchAudit, files, key, data, counts>>

(* The run is over: its variables are gone with the process.               *)
Exit ==
    /\ pc' = "idle"
    /\ batch' = NoBatch
    /\ entities' = <<>>
    /\ files' = {}
    /\ key' = NoContent
    /\ data' = NoContent
    /\ date' = NoDate

(* _resolve_files: a Parquet partition is listed, the other formats name   *)
(* the one file they expect.                                               *)
BeginEntity ==
    /\ pc = "entity"
    /\ entities # <<>>
    /\ files' = {i \in 1 .. Len(Named) : Format = "parquet" => Exists(Named[i])}
    /\ pc' = "file"
    /\ UNCHANGED <<landing, store, batchAudit, date, batch, entities, key, data,
                   hist, counts>>

EndEntity ==
    /\ pc = "file"
    /\ files = {}
    /\ pc' = "entity"
    /\ entities' = Tail(entities)
    /\ UNCHANGED <<landing, store, batchAudit, date, batch, files, key, data,
                   hist, counts>>

(* Every entity is done; a file that failed does not fail the batch.       *)
FinishRun ==
    /\ pc = "entity"
    /\ entities = <<>>
    /\ batchAudit' = [date |-> date, status |-> "success"]
    /\ Exit
    /\ UNCHANGED <<landing, store, hist, counts>>

-----------------------------------------------------------------------------
(* _process_file_entity, for the next file.                                *)

NextFile ==
    /\ files' = files \ {Turn}
    /\ pc' = "file"
    /\ key' = NoContent
    /\ data' = NoContent
    /\ UNCHANGED <<date, batch, entities>>

(* Mutant of WriteFile: the row keeps the status it is constructed with.   *)
WriteFileDefaultStatus(k, c, status) ==
    fileAudit' = fileAudit \cup
        {[path |-> File, key |-> k, content |-> c, status |-> "landed"]}

WriteFile(k, c, status) ==
    fileAudit' = fileAudit \cup
        {[path |-> File, key |-> k, content |-> c, status |-> status]}

(* source_file_missing: nothing is audited.                                *)
SkipMissing ==
    /\ pc = "file"
    /\ files # {}
    /\ ~Exists(File)
    /\ NextFile
    /\ UNCHANGED <<landing, store, batchAudit, hist, counts>>

(* The checksum is that of one read of the file ...                        *)
SkipDuplicate ==
    /\ pc = "file"
    /\ files # {}
    /\ Exists(File)
    /\ LET k == DedupKey(landing[File], Entity) IN
       /\ Seen(k)
       /\ WriteFile(k, NoContent, "skipped_duplicate")
    /\ NextFile
    /\ UNCHANGED <<landing, bronze, archive, watermark, batchAudit, hist,
                   counts>>

(* Mutant of TakeFile: the audit row is written before Bronze.             *)
TakeFileAuditFirst ==
    /\ pc = "file"
    /\ files # {}
    /\ Exists(File)
    /\ key' = DedupKey(landing[File], Entity)
    /\ ~Seen(key')
    /\ fileAudit' = fileAudit \cup {[path |-> File, key |-> key',
                        content |-> landing[File], status |-> "processed"]}
    /\ pc' = "load"
    /\ UNCHANGED <<landing, bronze, archive, watermark, batchAudit, date, batch,
                   entities, files, data, hist, counts>>

TakeFile ==
    /\ pc = "file"
    /\ files # {}
    /\ Exists(File)
    /\ key' = DedupKey(landing[File], Entity)
    /\ ~Seen(key')
    /\ pc' = "load"
    /\ UNCHANGED <<landing, store, batchAudit, date, batch, entities, files,
                   data, hist, counts>>

(* ... and the data are those of a second read. Bronze takes them under    *)
(* the name of entity, date and batch, replacing a file of that name; no   *)
(* rows, no file.                                                          *)
Land(c) ==
    LET new == [entity |-> Entity, date |-> date, batch |-> batch, content |-> c]
    IN  IF Quality[c] = "empty"
        THEN bronze
        ELSE {f \in bronze : ~SameFile(f, new)} \cup {new}

Load ==
    /\ pc = "load"
    /\ Quality[landing[File]] # "corrupt"
    /\ data' = landing[File]
    /\ bronze' = Land(landing[File])
    /\ pc' = "audit"
    /\ UNCHANGED <<landing, fileAudit, archive, watermark, batchAudit, date,
                   batch, entities, files, key, hist, counts>>

RecordFailed ==
    /\ WriteFile(key, NoContent, "failed")
    /\ NextFile
    /\ UNCHANGED <<landing, bronze, archive, watermark, batchAudit>>

(* Mutant of LoadCorrupt: an unreadable file fails the whole run.          *)
LoadCorruptRaises ==
    /\ pc = "load"
    /\ Quality[landing[File]] = "corrupt"
    /\ batchAudit' = [date |-> date, status |-> "failed"]
    /\ Exit
    /\ UNCHANGED <<landing, store, hist, counts>>

(* except Exception: an unreadable file is audited as failed, and ...      *)
LoadCorrupt ==
    /\ pc = "load"
    /\ Quality[landing[File]] = "corrupt"
    /\ RecordFailed
    /\ UNCHANGED <<hist, counts>>

(* ... so is a good one whose read or write met a passing error.           *)
LoadFault ==
    /\ pc = "load"
    /\ crashes + faults < MaxErrors
    /\ faults' = faults + 1
    /\ faulty' = TRUE
    /\ RecordFailed
    /\ UNCHANGED <<touched, drops, crashes>>

RecordProcessed ==
    /\ pc = "audit"
    /\ WriteFile(key, data, "processed")
    /\ pc' = "archive"
    /\ UNCHANGED <<landing, bronze, archive, watermark, batchAudit, date, batch,
                   entities, files, key, data, hist, counts>>

(* landing.archive copies the file as it is now.                           *)
Archive ==
    /\ pc = "archive"
    /\ archive' = [archive EXCEPT ![File] = landing[File]]
    /\ pc' = "watermark"
    /\ UNCHANGED <<landing, bronze, fileAudit, watermark, batchAudit, date,
                   batch, entities, files, key, data, hist, counts>>

(* Mutant of AdvanceWatermark: the rows are read once more.                *)
AdvanceWatermarkRereads ==
    /\ pc = "watermark"
    /\ watermark' =
          IF Entity \in Incremental /\ High[landing[File]] > 0
          THEN [watermark EXCEPT ![Entity] = High[landing[File]]]
          ELSE watermark
    /\ NextFile
    /\ UNCHANGED <<landing, bronze, fileAudit, archive, batchAudit, hist, counts>>

(* _advance_watermark: set to the maximum of these rows, whatever it was.  *)
AdvanceWatermark ==
    /\ pc = "watermark"
    /\ watermark' =
          IF Entity \in Incremental /\ Quality[data] = "rows" /\ High[data] > 0
          THEN [watermark EXCEPT ![Entity] = High[data]]
          ELSE watermark
    /\ NextFile
    /\ UNCHANGED <<landing, bronze, fileAudit, archive, batchAudit, hist,
                   counts>>

-----------------------------------------------------------------------------
(* An error outside the handler of one file (checksum, audit, archive,     *)
(* watermark): the batch is audited as failed and the exception re-raised. *)
FailRun ==
    /\ pc \in {"file", "audit", "archive", "watermark"}
    /\ pc = "file" => files # {}
    /\ crashes + faults < MaxErrors
    /\ faults' = faults + 1
    /\ faulty' = TRUE
    /\ batchAudit' = [date |-> date, status |-> "failed"]
    /\ Exit
    /\ UNCHANGED <<landing, store, touched, drops, crashes>>

(* The process is killed: no batch_audit row.                              *)
Crash ==
    /\ pc # "idle"
    /\ crashes + faults < MaxErrors
    /\ crashes' = crashes + 1
    /\ Exit
    /\ UNCHANGED <<landing, store, batchAudit, hist, drops, faults>>

FileStep ==
    \/ SkipMissing \/ SkipDuplicate \/ TakeFile
    \/ Load \/ LoadCorrupt
    \/ RecordProcessed \/ Archive \/ AdvanceWatermark

RunStep == BeginEntity \/ EndEntity \/ FinishRun \/ FileStep

Next ==
    \/ \E d \in Drops : Drop(d[1], d[2])
    \/ \E ds \in Dates : StartRun(ds)
    \/ RunStep
    \/ LoadFault
    \/ FailRun
    \/ Crash

Spec == Init /\ [][Next]_vars

(* A started run goes on, and each date is run again and again: by the     *)
(* schedule, the task's retries and backfills.                             *)
FairSpec ==
    /\ Spec
    /\ WF_vars(RunStep)
    /\ \A ds \in Dates : SF_vars(StartRun(ds))

-----------------------------------------------------------------------------
(* Properties.                                                             *)

Intact(c) == Quality[c] = "rows"
InBronze(c, e) == \E f \in bronze : f.content = c /\ f.entity = e
Copies(c, e) == Cardinality({f \in bronze : f.content = c /\ f.entity = e})

(* The files a run of ds looks for: an entity with each of its paths.      *)
Wanted(ds) ==
    {w \in Entities \X Paths :
        \E i \in 1 .. Len(PathsOf[<<w[1], ds>>]) : PathsOf[<<w[1], ds>>][i] = w[2]}

(* Audited as processed means landed: every content a file_audit row calls *)
(* processed is in Bronze if it has rows, whatever died, failed or was     *)
(* redelivered in between. The order "Bronze first, audit second" of       *)
(* _process_file_entity, and the batch id in the file name, are what keep  *)
(* it: the dedup never skips a file whose rows nobody has.                 *)
ProcessedIsInBronze ==
    \A r \in fileAudit :
        r.status = "processed" /\ Intact(r.content) =>
            \E f \in bronze : f.content = r.content

(* The watermark of an entity never runs ahead of Bronze: its value is the *)
(* maximum of a content landed for that entity, so a crash or an error     *)
(* anywhere in a run leaves no row behind a watermark it never landed for. *)
WatermarkIsLanded ==
    \A e \in Entities :
        watermark[e] # 0 =>
            \E f \in bronze : f.entity = e /\ High[f.content] = watermark[e]

(* The checksum dedup loads a content more than once only for a reason: a  *)
(* run cut off between Bronze and the audit, or a file replaced between    *)
(* the two reads, which lands a content under the checksum of another.     *)
ReloadedOnlyAfterInterruption ==
    pc # "audit" =>
      \A c \in Contents, e \in Entities :
        Copies(c, e) <=
            1 + crashes + faults
              + Cardinality({r \in fileAudit :
                                r.status = "processed" /\ r.key.sum # r.content})

(* A run that is about to report success for its date, and the files of    *)
(* that date nobody delivered to meanwhile.                                *)
Succeeding == pc = "entity" /\ entities = <<>>
StableFiles ==
    {w \in Wanted(date) : Exists(w[2]) /\ w[2] \notin touched}

(* A re-run that meets no error itself brings every intact file of its     *)
(* date to Bronze, whatever cut off the runs before it: "safe to re-run    *)
(* after a failure".                                                       *)
RerunLandsEverything ==
    Succeeding /\ ~faulty =>
        \A w \in StableFiles :
            Intact(landing[w[2]]) => InBronze(landing[w[2]], w[1])

(* What the dedup takes a content for that reached Bronze: only the sheets *)
(* of a workbook are told apart by their entity.                           *)
Landed(c, e) ==
    \E f \in bronze : f.content = c /\ (Format = "xlsx" => f.entity = e)

(* The dedup skips no intact file nobody has landed, but for two reasons: a *)
(* run that succeeds has brought to Bronze every intact file of its date,  *)
(* unless some run audited its key as failed, or landed under its key what *)
(* the file was replaced with between the two reads. A crash, an           *)
(* unreadable neighbour or a failed batch is no such reason.               *)
RerunLandsAllButFailed ==
    Succeeding =>
        \A w \in StableFiles :
            LET c == landing[w[2]]
            IN  Intact(c) /\ ~Landed(c, w[1]) =>
                  \E r \in fileAudit :
                     /\ r.key = DedupKey(c, w[1])
                     /\ \/ r.status = "failed"
                        \/ r.status = "processed" /\ r.content # c

(* Every file that stays in the landing zone is dealt with in the end: it  *)
(* is processed, skipped or audited as failed, though runs crash and some   *)
(* files are unreadable.                                                   *)
EveryFileDecided ==
    <>[](\A ds \in Dates : \A w \in Wanted(ds) :
            Exists(w[2]) => Seen(DedupKey(landing[w[2]], w[1])))
=============================================================================
