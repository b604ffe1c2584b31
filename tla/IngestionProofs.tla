---------------------------- MODULE IngestionProofs ----------------------------
(***************************************************************************)
(* The two paths of ingestion/extractor.py, each for every value of its    *)
(* constants. Files: the audit, the watermark and the re-runs tell the     *)
(* truth about Bronze, whatever crashes, fails or is replaced, where an    *)
(* entity has one file a day. JDBC: no row is left behind a watermark, for *)
(* every number of tables, overlapping runs and rows, with either metadata *)
(* store, provided rows commit in the order of their timestamps.           *)
(***************************************************************************)
EXTENDS BatchIngestion, JdbcIngestion, TLAPS, WellFoundedInduction,
        FiniteSetTheorems

(* A set of numbers that is not empty has a least element: the intervals  *)
(* from 0 are well founded under inclusion.                                *)
LEMMA Least ==
    ASSUME NEW S \in SUBSET Nat, S # {}
    PROVE  \E m \in S : \A k \in S : m <= k
<1> DEFINE Initial == {0 .. n : n \in S}
           R == StrictSubsetOrdering(Nat)
<1>1. IsWellFoundedOn(R, FiniteSubsetsOf(Nat))
  BY FS_StrictSubsetOrderingWellFounded
<1>2. \A n \in S : 0 .. n \in FiniteSubsetsOf(Nat)
  <2> SUFFICES ASSUME NEW n \in S PROVE 0 .. n \in FiniteSubsetsOf(Nat)
    OBVIOUS
  <2>1. IsFiniteSet(0 .. n)
    BY FS_Interval
  <2> QED
    BY <2>1 DEF FiniteSubsetsOf
<1>3. Initial \subseteq FiniteSubsetsOf(Nat) /\ Initial # {}
  BY <1>2
<1>4. \A x, y \in Initial : y \subseteq x /\ y # x => <<y, x>> \in R
  BY <1>3 DEF StrictSubsetOrdering, FiniteSubsetsOf
<1> HIDE DEF R, Initial
<1>5. PICK x \in Initial : \A y \in Initial : ~(<<y, x>> \in R)
  BY <1>1, <1>3, WFMin
<1>6. PICK m \in S : x = 0 .. m
  BY <1>5 DEF Initial
<1>7. \A k \in S : 0 .. k \in Initial
  BY DEF Initial
<1>8. ASSUME NEW k \in S, k < m PROVE FALSE
  <2>1. 0 .. k \subseteq 0 .. m /\ m \in 0 .. m /\ m \notin 0 .. k
    BY <1>8
  <2> QED
    BY <2>1, <1>4, <1>5, <1>6, <1>7
<1> QED
  BY <1>8


-----------------------------------------------------------------------------
(* Files: what a run is, at every step.                                    *)

WithFile == {"load", "audit", "archive", "watermark"}
HasData  == {"audit", "archive", "watermark"}

(* The run has its date and batch id, the entity its places, the file in   *)
(* hand a key that no row had when it was taken.                           *)
RunShape ==
    /\ pc # "idle" => date \in Dates /\ batch \in BatchIds
    /\ pc \in {"file"} \cup WithFile =>
          entities # <<>> /\ files \subseteq 1 .. Len(Named)
    /\ pc \in WithFile =>
          files # {} /\ Exists(File) /\ key = DedupKey(key.sum, Entity)
    /\ pc \in WithFile => key \in Key
    /\ pc \in {"load", "audit"} => ~Seen(key)
    /\ pc \in HasData => data \in Contents

Finite == IsFiniteSet(bronze) /\ IsFiniteSet(fileAudit)

(* Rows whose content came under the checksum of another.                  *)
Swapped == {r \in fileAudit : r.status = "processed" /\ r.key.sum # r.content}

Count(b) == IF b THEN 1 ELSE 0
Errors == crashes + faults

(* Each copy of a content is the one its checksum is remembered for, the   *)
(* one about to be audited, or the trace of a crash, an error or a swap.   *)
Reasons(c, e) ==
    Count(Seen(DedupKey(c, e))) + Count(pc = "audit" /\ data = c /\ Entity = e)
      + Errors + Cardinality(Swapped)
CopiesAccounted ==
    \A c \in Contents, e \in Entities : Copies(c, e) <= Reasons(c, e)

FileInv == TypeOK /\ RunShape /\ Finite /\ CopiesAccounted

LEMMA TurnIsLeast ==
    ASSUME files \in SUBSET Nat, files # {}
    PROVE  Turn \in files /\ \A j \in files : Turn <= j
<1>1. \E i \in files : \A j \in files : i <= j
  BY Least
<1> QED
  BY <1>1 DEF Turn

LEMMA InHand ==
    ASSUME TypeOK, RunShape, pc \in WithFile \/ (pc = "file" /\ files # {})
    PROVE  /\ Entity \in Entities /\ Entity = entities[1] /\ Len(entities) > 0
           /\ date \in Dates /\ batch \in BatchIds
           /\ Turn \in files /\ Turn \in 1 .. Len(Named)
           /\ Named \in Seq(Paths) /\ File \in Paths
<1>1. entities # <<>> /\ files # {} /\ files \subseteq 1 .. Len(Named)
      /\ date \in Dates /\ batch \in BatchIds
  BY DEF RunShape, WithFile
<1>2. Entity \in Entities /\ Entity = entities[1] /\ Len(entities) > 0
  BY <1>1 DEF TypeOK, Entity
<1>3. Named \in Seq(Paths)
  BY <1>1, <1>2, FilesAssumption DEF Named
<1>4. Turn \in files
  BY <1>1, TurnIsLeast DEF TypeOK
<1>5. File \in Paths
  BY <1>1, <1>3, <1>4 DEF File
<1> QED
  BY <1>1, <1>2, <1>3, <1>4, <1>5

LEMMA SameFileInHand ==
    ASSUME UNCHANGED <<date, entities, files>>
    PROVE  UNCHANGED <<Entity, Named, Turn, File>>
BY DEF Entity, Named, Turn, File

LEMMA DedupKeyIs ==
    ASSUME NEW c \in Contents, NEW e \in Entities
    PROVE  /\ DedupKey(c, e) \in Key
           /\ DedupKey(c, e).sum = c
           /\ Format = "xlsx" => DedupKey(c, e).sheet = e
BY DEF DedupKey, Key

LEMMA ExistsIs ==
    ASSUME TypeOK, NEW p \in Paths, Exists(p)
    PROVE  landing[p] \in Contents
BY DEF TypeOK, Exists

LEMMA WriteFileIs ==
    ASSUME TypeOK, Finite, File \in Paths, NEW k \in Key,
           NEW c \in Contents \cup {NoContent},
           NEW s \in {"processed", "skipped_duplicate", "failed"}, WriteFile(k, c, s)
    PROVE  /\ fileAudit' \subseteq FileAudit
           /\ IsFiniteSet(fileAudit')
           /\ \A x : Seen(x)' <=> Seen(x) \/ x = k
<1> DEFINE row == [path |-> File, key |-> k, content |-> c, status |-> s]
<1>1. row \in FileAudit
  BY DEF FileAudit
<1>2. fileAudit' = fileAudit \cup {row}
  BY DEF WriteFile
<1>3. IsFiniteSet(fileAudit')
  BY <1>2, FS_AddElement DEF Finite
<1> QED
  BY <1>1, <1>2, <1>3 DEF TypeOK, Seen

LEMMA LandIs ==
    ASSUME TypeOK, RunShape, Finite, NEW c \in Contents, pc = "load"
    PROVE  /\ Land(c) \subseteq BronzeFile
           /\ IsFiniteSet(Land(c))
<1> DEFINE new == [entity |-> Entity, date |-> date, batch |-> batch, content |-> c]
           kept == {f \in bronze : ~SameFile(f, new)}
<1>1. new \in BronzeFile
  BY InHand DEF BronzeFile, WithFile
<1>2. kept \subseteq bronze /\ IsFiniteSet(kept)
  BY FS_Subset DEF Finite
<1>3. IsFiniteSet(kept \cup {new})
  BY <1>2, FS_AddElement
<1> HIDE DEF kept
<1>4. Land(c) = bronze \/ Land(c) = kept \cup {new}
  BY DEF Land, kept
<1> QED
  BY <1>1, <1>2, <1>3, <1>4 DEF TypeOK, Finite

(* Every step keeps types and shape.                                       *)
LEMMA ShapeInit == Init => TypeOK /\ RunShape /\ Finite
<1> SUFFICES ASSUME Init PROVE TypeOK /\ RunShape /\ Finite
  OBVIOUS
<1>1. IsFiniteSet({})
  BY FS_EmptySet
<1>2. /\ landing \in [Paths -> Contents \cup {NoContent}]
      /\ bronze \subseteq BronzeFile /\ fileAudit \subseteq FileAudit
      /\ archive \in [Paths -> Contents \cup {NoContent}]
      /\ watermark \in [Entities -> Nat]
      /\ batchAudit \in BatchAudit
  BY DEF Init, BatchAudit
<1>3. /\ pc \in Phase /\ date \in Dates \cup {NoDate}
      /\ batch \in BatchIds \cup {NoBatch}
      /\ entities \in Seq(Entities) /\ files \in SUBSET Nat
      /\ key \in Key \cup {NoContent} /\ data \in Contents \cup {NoContent}
  BY DEF Init, Phase
<1>4. touched \subseteq Paths /\ faulty \in BOOLEAN
  BY DEF Init
<1>5. /\ drops \in 0 .. MaxDrops
      /\ crashes \in Nat /\ faults \in Nat /\ crashes + faults <= MaxErrors
  BY BoundsAssumption DEF Init
<1>6. TypeOK
  BY <1>2, <1>3, <1>4, <1>5 DEF TypeOK
<1> QED
  BY <1>1, <1>6 DEF Init, RunShape, WithFile, HasData, Finite

LEMMA ExitShape ==
    ASSUME TypeOK, RunShape, Finite, Exit, UNCHANGED store,
           landing' = landing, batchAudit' \in BatchAudit,
           touched' = touched, faulty' \in BOOLEAN, drops' = drops,
           crashes' \in Nat, faults' \in Nat, crashes' + faults' <= MaxErrors
    PROVE  TypeOK' /\ RunShape' /\ Finite'
<1>1. TypeOK'
  BY DEF TypeOK, Exit, Phase, store
<1> QED
  BY <1>1 DEF Exit, RunShape, WithFile, HasData, Finite, store

LEMMA NextFileShape ==
    ASSUME TypeOK, RunShape, Finite, NextFile, UNCHANGED <<landing, bronze>>,
           pc \in WithFile \/ (pc = "file" /\ files # {}),
           fileAudit' \subseteq FileAudit, IsFiniteSet(fileAudit'),
           archive' = archive, watermark' \in [Entities -> Nat],
           batchAudit' = batchAudit, touched' = touched, faulty' \in BOOLEAN,
           drops' = drops, crashes' = crashes, faults' \in Nat,
           crashes + faults' <= MaxErrors
    PROVE  TypeOK' /\ RunShape' /\ Finite'
<1>1. TypeOK'
  BY DEF TypeOK, NextFile, Phase
<1>2. Named' = Named
  BY DEF NextFile, Named, Entity
<1>3. files' \subseteq 1 .. Len(Named) /\ entities # <<>>
  BY DEF RunShape, NextFile
<1> QED
  BY <1>1, <1>2, <1>3 DEF NextFile, RunShape, WithFile, HasData, Finite

LEMMA ShapeNext ==
    TypeOK /\ RunShape /\ Finite /\ [Next]_vars => TypeOK' /\ RunShape' /\ Finite'
<1> SUFFICES ASSUME TypeOK, RunShape, Finite, [Next]_vars
             PROVE  TypeOK' /\ RunShape' /\ Finite'
  OBVIOUS
<1>1. ASSUME NEW d \in Drops, Drop(d[1], d[2])
      PROVE  TypeOK' /\ RunShape' /\ Finite'
  <2>1. d[1] \in Paths /\ d[2] \in Contents
    BY FilesAssumption
  <2>2. TypeOK'
    BY <1>1, <2>1, BoundsAssumption DEF Drop, TypeOK, store, run
  <2>3. UNCHANGED <<Entity, Named, File>>
    BY <1>1, SameFileInHand DEF Drop, run
  <2>4. Exists(File) /\ File \in Paths => Exists(File)'
    BY <1>1, <2>1, <2>3, FilesAssumption DEF Drop, TypeOK, Exists
  <2>5. RunShape'
    BY <1>1, <2>3, <2>4, InHand
       DEF Drop, RunShape, WithFile, HasData, Seen, store, run, DedupKey
  <2> QED
    BY <1>1, <2>2, <2>5 DEF Drop, Finite, store
<1>2. ASSUME NEW ds \in Dates, StartRun(ds)
      PROVE  TypeOK' /\ RunShape' /\ Finite'
  <2>1. batch' \in BatchIds
    BY <1>2 DEF StartRun
  <2>2. TypeOK'
    BY <1>2, <2>1, EntitiesAssumption DEF StartRun, TypeOK, Phase, store, counts
  <2> QED
    BY <1>2, <2>1, <2>2 DEF StartRun, RunShape, WithFile, HasData, Finite, store
<1>3. CASE BeginEntity
  <2>1. Named' = Named
    BY <1>3 DEF BeginEntity, Named, Entity
  <2>2. TypeOK'
    <3>1. Entity \in Entities /\ date \in Dates
      BY <1>3 DEF BeginEntity, TypeOK, RunShape, Entity
    <3>2. Len(Named) \in Nat
      BY <3>1, FilesAssumption DEF Named
    <3>3. files' \in SUBSET Nat
      BY <1>3, <3>2 DEF BeginEntity
    <3> QED
      BY <1>3, <3>3 DEF BeginEntity, TypeOK, Phase, store, hist, counts
  <2>3. files' \subseteq 1 .. Len(Named)
    BY <1>3 DEF BeginEntity
  <2> QED
    BY <1>3, <2>1, <2>2, <2>3
       DEF BeginEntity, RunShape, WithFile, HasData, Finite, store
<1>4. CASE EndEntity
  <2>1. entities # <<>>
    BY <1>4 DEF EndEntity, RunShape
  <2>2. TypeOK'
    BY <1>4, <2>1 DEF EndEntity, TypeOK, Phase, store, hist, counts
  <2> QED
    BY <1>4, <2>2 DEF EndEntity, RunShape, WithFile, HasData, Finite, store
<1>5. CASE FinishRun
  <2>1. batchAudit' \in BatchAudit
    BY <1>5 DEF FinishRun, TypeOK, BatchAudit
  <2> QED
    BY <1>5, <2>1, ExitShape DEF FinishRun, hist, counts, TypeOK
<1>6. CASE SkipMissing
  BY <1>6, NextFileShape DEF SkipMissing, TypeOK, Finite, store, hist, counts
<1>7. CASE SkipDuplicate
  <2>1. /\ DedupKey(landing[File], Entity) \in Key
        /\ File \in Paths
    BY <1>7, InHand, ExistsIs, DedupKeyIs DEF SkipDuplicate
  <2>2. fileAudit' \subseteq FileAudit /\ IsFiniteSet(fileAudit')
    BY <1>7, <2>1, WriteFileIs DEF SkipDuplicate
  <2> QED
    BY <1>7, <2>2, NextFileShape DEF SkipDuplicate, TypeOK, hist, counts
<1>8. CASE TakeFile
  <2>1. Entity \in Entities /\ landing[File] \in Contents
    BY <1>8, InHand, ExistsIs DEF TakeFile
  <2>2. key' \in Key /\ key' = DedupKey(key'.sum, Entity)
    BY <1>8, <2>1, DedupKeyIs DEF TakeFile
  <2>3. TypeOK'
    BY <1>8, <2>2 DEF TakeFile, TypeOK, Phase, store, hist, counts
  <2>4. UNCHANGED <<Entity, Named, File>>
    BY <1>8, SameFileInHand DEF TakeFile
  <2>5. RunShape'
    BY <1>8, <2>2, <2>4
       DEF TakeFile, RunShape, WithFile, HasData, Exists, Seen, store, DedupKey
  <2> QED
    BY <1>8, <2>3, <2>5 DEF TakeFile, Finite, store
<1>9. CASE Load
  <2>1. landing[File] \in Contents
    BY <1>9, InHand, ExistsIs DEF Load, RunShape, WithFile
  <2>2. bronze' \subseteq BronzeFile /\ IsFiniteSet(bronze')
    BY <1>9, <2>1, LandIs DEF Load
  <2>3. TypeOK'
    BY <1>9, <2>1, <2>2 DEF Load, TypeOK, Phase, hist, counts
  <2>4. UNCHANGED <<Entity, Named, File>>
    BY <1>9, SameFileInHand DEF Load
  <2>5. RunShape'
    BY <1>9, <2>1, <2>4
       DEF Load, RunShape, WithFile, HasData, Exists, Seen, DedupKey
  <2> QED
    BY <1>9, <2>2, <2>3, <2>5 DEF Load, Finite
<1>10. CASE LoadCorrupt \/ LoadFault
  <2>1. pc \in WithFile /\ key \in Key /\ File \in Paths /\ RecordFailed
    BY <1>10, InHand DEF LoadCorrupt, LoadFault, RunShape, WithFile
  <2>2. fileAudit' \subseteq FileAudit /\ IsFiniteSet(fileAudit')
    BY <2>1, WriteFileIs DEF RecordFailed
  <2>3. touched' = touched /\ faulty' \in BOOLEAN /\ drops' = drops
    BY <1>10 DEF LoadCorrupt, LoadFault, TypeOK, hist, counts
  <2>4. crashes' = crashes /\ faults' \in Nat /\ crashes + faults' <= MaxErrors
    BY <1>10, BoundsAssumption DEF LoadCorrupt, LoadFault, TypeOK, counts
  <2>5. watermark \in [Entities -> Nat]
    BY DEF TypeOK
  <2> QED
    BY <2>1, <2>2, <2>3, <2>4, <2>5, NextFileShape DEF RecordFailed
<1>11. CASE RecordProcessed
  <2>1. key \in Key /\ data \in Contents /\ File \in Paths
    BY <1>11, InHand DEF RecordProcessed, RunShape, WithFile, HasData
  <2>2. fileAudit' \subseteq FileAudit /\ IsFiniteSet(fileAudit')
    BY <1>11, <2>1, WriteFileIs DEF RecordProcessed
  <2>3. TypeOK'
    BY <1>11, <2>2 DEF RecordProcessed, TypeOK, Phase, hist, counts
  <2>4. UNCHANGED <<Entity, Named, File>>
    BY <1>11, SameFileInHand DEF RecordProcessed
  <2>5. RunShape'
    BY <1>11, <2>4 DEF RecordProcessed, RunShape, WithFile, HasData, Exists, DedupKey
  <2> QED
    BY <1>11, <2>2, <2>3, <2>5 DEF RecordProcessed, Finite
<1>12. CASE Archive
  <2>1. TypeOK'
    BY <1>12, InHand DEF Archive, RunShape, WithFile, TypeOK, Phase, hist, counts
  <2>2. UNCHANGED <<Entity, Named, File>>
    BY <1>12, SameFileInHand DEF Archive
  <2>3. RunShape'
    BY <1>12, <2>2 DEF Archive, RunShape, WithFile, HasData, Exists, DedupKey
  <2> QED
    BY <1>12, <2>1, <2>3 DEF Archive, Finite
<1>13. CASE AdvanceWatermark
  <2>1. data \in Contents /\ High[data] \in Nat
    BY <1>13, FilesAssumption DEF AdvanceWatermark, RunShape, HasData
  <2>2. watermark' \in [Entities -> Nat]
    BY <1>13, <2>1 DEF AdvanceWatermark, TypeOK
  <2> QED
    BY <1>13, <2>2, NextFileShape
       DEF AdvanceWatermark, WithFile, TypeOK, Finite, hist, counts
<1>14. CASE FailRun
  <2>1. batchAudit' \in BatchAudit
    BY <1>14 DEF FailRun, TypeOK, BatchAudit
  <2>2. crashes' \in Nat /\ faults' \in Nat /\ crashes' + faults' <= MaxErrors
    BY <1>14, BoundsAssumption DEF FailRun, TypeOK
  <2> QED
    BY <1>14, <2>1, <2>2, ExitShape DEF FailRun
<1>15. CASE Crash
  <2>1. crashes' \in Nat /\ faults' \in Nat /\ crashes' + faults' <= MaxErrors
    BY <1>15, BoundsAssumption DEF Crash, TypeOK
  <2> QED
    BY <1>15, <2>1, ExitShape DEF Crash, TypeOK, hist
<1>16. CASE UNCHANGED vars
  BY <1>16, SameFileInHand
     DEF vars, store, run, hist, counts, TypeOK, RunShape, Finite, Seen, Exists,
         DedupKey
<1> QED
  BY <1>1, <1>2, <1>3, <1>4, <1>5, <1>6, <1>7, <1>8, <1>9, <1>10, <1>11, <1>12,
     <1>13, <1>14, <1>15, <1>16 DEF Next, RunStep, FileStep

(* Copies and their reasons.                                               *)
LEMMA CountsAreNumbers ==
    ASSUME TypeOK, Finite, NEW c, NEW e
    PROVE  /\ Copies(c, e) \in Nat
           /\ Cardinality(Swapped) \in Nat
           /\ Errors \in Nat
<1>1. IsFiniteSet({f \in bronze : f.content = c /\ f.entity = e})
  BY FS_Subset DEF Finite
<1>2. IsFiniteSet(Swapped)
  BY FS_Subset DEF Finite, Swapped
<1> QED
  BY <1>1, <1>2, FS_CardinalityType DEF Copies, Errors, TypeOK

LEMMA ErrorsIsNumber == (TypeOK => Errors \in Nat) /\ (TypeOK' => Errors' \in Nat)
BY DEF TypeOK, Errors

LEMMA SwappedGrow ==
    ASSUME Finite, Finite', fileAudit \subseteq fileAudit'
    PROVE  /\ Cardinality(Swapped) <= Cardinality(Swapped')
           /\ Cardinality(Swapped') \in Nat
<1>1. Swapped \subseteq Swapped'
  BY DEF Swapped
<1>2. IsFiniteSet(Swapped')
  BY FS_Subset DEF Finite, Swapped
<1> QED
  BY <1>1, <1>2, FS_Subset, FS_CardinalityType

(* A Bronze file replaces another or is one copy more.                     *)
LEMMA LandCopies ==
    ASSUME Finite, Finite', NEW c, bronze' = Land(c), NEW d, NEW e
    PROVE  /\ Copies(d, e)' \in Nat
           /\ Copies(d, e)' <= Copies(d, e) + Count(d = c /\ e = Entity)
<1> DEFINE Of(B) == {f \in B : f.content = d /\ f.entity = e}
           new == [entity |-> Entity, date |-> date, batch |-> batch, content |-> c]
<1>1. IsFiniteSet(Of(bronze)) /\ IsFiniteSet(Of(bronze'))
  BY FS_Subset DEF Finite
<1>2. Cardinality(Of(bronze)) \in Nat /\ Cardinality(Of(bronze')) \in Nat
  BY <1>1, FS_CardinalityType
<1>3. bronze' \subseteq bronze \cup {new}
  BY DEF Land
<1>4. CASE d = c /\ e = Entity
  <2>1. Of(bronze') \subseteq Of(bronze) \cup {new}
    BY <1>3
  <2>2. /\ IsFiniteSet(Of(bronze) \cup {new})
        /\ Cardinality(Of(bronze) \cup {new}) <= Cardinality(Of(bronze)) + 1
    <3> HIDE DEF Of, new
    <3>1. /\ IsFiniteSet(Of(bronze) \cup {new})
          /\ Cardinality(Of(bronze) \cup {new}) \in
                {Cardinality(Of(bronze)), Cardinality(Of(bronze)) + 1}
      BY <1>1, FS_AddElement
    <3> QED
      BY <1>2, <3>1
  <2>3. Cardinality(Of(bronze')) <= Cardinality(Of(bronze) \cup {new})
    BY <2>1, <2>2, FS_Subset
  <2>4. Cardinality(Of(bronze) \cup {new}) \in Nat
    BY <2>2, FS_CardinalityType
  <2> QED
    BY <1>2, <1>4, <2>2, <2>3, <2>4 DEF Copies, Count
<1>5. CASE ~(d = c /\ e = Entity)
  <2>1. Of(bronze') \subseteq Of(bronze)
    BY <1>3, <1>5
  <2>2. Cardinality(Of(bronze')) <= Cardinality(Of(bronze))
    BY <1>1, <2>1, FS_Subset
  <2> QED
    BY <1>2, <1>5, <2>2 DEF Copies, Count
<1> QED
  BY <1>2, <1>4, <1>5 DEF Copies

(* A step that writes no Bronze file, and leaves the one just written to   *)
(* be audited or is an error.                                              *)
LEMMA ReasonsKept ==
    ASSUME FileInv, TypeOK', Finite', bronze' = bronze, fileAudit \subseteq fileAudit',
           Errors <= Errors',
           \/ pc # "audit"
           \/ Errors < Errors'
           \/ pc' = "audit" /\ data' = data /\ Entity' = Entity
    PROVE  CopiesAccounted'
<1> SUFFICES ASSUME NEW c \in Contents, NEW e \in Entities
             PROVE  Copies(c, e)' <= Reasons(c, e)'
  BY DEF CopiesAccounted
<1> DEFINE A == Count(Seen(DedupKey(c, e)))
           B == Count(pc = "audit" /\ data = c /\ Entity = e)
           N == Cardinality(Swapped)
<1>1. Copies(c, e)' = Copies(c, e)
  BY DEF Copies
<1>2. Copies(c, e) <= A + B + Errors + N
  BY DEF FileInv, CopiesAccounted, Reasons
<1>3. A \in {0, 1} /\ A' \in {0, 1} /\ A <= A'
  BY DEF Count, Seen, DedupKey
<1>4. B \in {0, 1} /\ B' \in {0, 1} /\ (B <= B' \/ Errors < Errors')
  BY DEF Count
<1>5. /\ Copies(c, e) \in Nat /\ N \in Nat
      /\ Errors \in Nat /\ Errors' \in Nat
  BY CountsAreNumbers, ErrorsIsNumber DEF FileInv
<1>6. N <= N' /\ N' \in Nat
  BY SwappedGrow DEF FileInv
<1>7. Reasons(c, e)' = A' + B' + Errors' + N'
  BY DEF Reasons
<1> HIDE DEF A, B, N
<1> QED
  BY <1>1, <1>2, <1>3, <1>4, <1>5, <1>6, <1>7

LEMMA LoadCopies ==
    ASSUME FileInv, TypeOK', Finite', Load
    PROVE  CopiesAccounted'
<1> SUFFICES ASSUME NEW c \in Contents, NEW e \in Entities
             PROVE  Copies(c, e)' <= Reasons(c, e)'
  BY DEF CopiesAccounted
<1> DEFINE A == Count(Seen(DedupKey(c, e)))
           B == Count(c = landing[File] /\ e = Entity)
           N == Cardinality(Swapped)
<1>1. Copies(c, e)' <= Copies(c, e) + B /\ Copies(c, e)' \in Nat
  BY LandCopies DEF Load, FileInv
<1>2. Copies(c, e) <= A + Errors + N
  <2>1. Count(pc = "audit" /\ data = c /\ Entity = e) = 0
    BY DEF Load, Count
  <2>2. Copies(c, e) <= A + 0 + Errors + N
    BY <2>1 DEF FileInv, CopiesAccounted, Reasons
  <2>3. A \in {0, 1}
    BY DEF Count
  <2> QED
    BY <2>2, <2>3
<1>3. Reasons(c, e)' = A + B + Errors + N
  <2>1. Entity' = Entity
    BY DEF Load, Entity
  <2>2. Count(pc = "audit" /\ data = c /\ Entity = e)' = B
    BY <2>1 DEF Load, Count
  <2>3. A' = A /\ N' = N
    BY DEF Load, Count, Seen, DedupKey, Swapped
  <2> QED
    BY <2>2, <2>3 DEF Load, Reasons, Errors, counts
<1>4. /\ Copies(c, e) \in Nat /\ N \in Nat /\ Errors \in Nat
  BY CountsAreNumbers DEF FileInv
<1>5. A \in {0, 1} /\ B \in {0, 1}
  BY DEF Count
<1> HIDE DEF A, B, N
<1> QED
  BY <1>1, <1>2, <1>3, <1>4, <1>5

(* The audit row is the first of its key: either it is that of the content *)
(* landed, or it tells of the swap.                                        *)
LEMMA RecordCopies ==
    ASSUME FileInv, TypeOK', Finite', RecordProcessed
    PROVE  CopiesAccounted'
<1> SUFFICES ASSUME NEW c \in Contents, NEW e \in Entities
             PROVE  Copies(c, e)' <= Reasons(c, e)'
  BY DEF CopiesAccounted
<1> DEFINE A == Count(Seen(DedupKey(c, e)))
           B == Count(pc = "audit" /\ data = c /\ Entity = e)
           N == Cardinality(Swapped)
           row == [path |-> File, key |-> key, content |-> data, status |-> "processed"]
<1>1. /\ ~Seen(key) /\ key \in Key /\ data \in Contents
      /\ key = DedupKey(key.sum, Entity)
  BY DEF FileInv, RunShape, RecordProcessed, WithFile, HasData
<1>2. fileAudit' = fileAudit \cup {row} /\ row \notin fileAudit
  BY <1>1 DEF RecordProcessed, WriteFile, Seen
<1>3. A \in {0, 1} /\ B \in {0, 1} /\ A' \in {0, 1} /\ B' = 0 /\ A <= A'
  BY <1>2 DEF Count, Seen, DedupKey, RecordProcessed
<1>4. /\ Copies(c, e) \in Nat /\ N \in Nat /\ Errors \in Nat
  BY CountsAreNumbers DEF FileInv
<1>5. N <= N' /\ N' \in Nat /\ Copies(c, e)' = Copies(c, e)
  BY <1>2, SwappedGrow DEF FileInv, RecordProcessed, Copies
<1>6. Copies(c, e) <= A + B + Errors + N
  BY DEF FileInv, CopiesAccounted, Reasons
<1>7. Reasons(c, e)' = A' + B' + Errors + N'
  BY DEF Reasons, Errors, RecordProcessed, counts
<1>8. B = 1 => A' > A \/ N' > N
  <2> SUFFICES ASSUME B = 1 PROVE A' > A \/ N' > N
    OBVIOUS
  <2>1. data = c /\ Entity = e
    BY DEF Count
  <2>2. CASE key.sum = data
    <3>1. DedupKey(c, e) = key
      BY <1>1, <2>1, <2>2
    <3>2. A = 0
      BY <1>1, <3>1 DEF Count
    <3>3. A' = 1
      BY <1>2, <3>1 DEF Count, Seen, DedupKey
    <3> QED
      BY <3>2, <3>3
  <2>3. CASE key.sum # data
    <3>1. Swapped' = Swapped \cup {row} /\ row \notin Swapped
      BY <1>2, <2>3 DEF Swapped
    <3>2. IsFiniteSet(Swapped)
      BY FS_Subset DEF FileInv, Finite, Swapped
    <3>3. N' = N + 1
      BY <3>1, <3>2, FS_AddElement
    <3> QED
      BY <3>3, <1>4
  <2> QED
    BY <2>2, <2>3
<1> HIDE DEF A, B, N
<1> QED
  BY <1>3, <1>4, <1>5, <1>6, <1>7, <1>8

-----------------------------------------------------------------------------
THEOREM FileInitInv == Init => FileInv
<1> SUFFICES ASSUME Init PROVE FileInv
  OBVIOUS
<1>1. TypeOK /\ RunShape /\ Finite
  BY ShapeInit
<1>2. ASSUME NEW c \in Contents, NEW e \in Entities
      PROVE  Copies(c, e) <= Reasons(c, e)
  <2>1. {f \in bronze : f.content = c /\ f.entity = e} = {} /\ Swapped = {}
    BY DEF Init, Swapped
  <2>2. Copies(c, e) = 0 /\ Cardinality(Swapped) = 0
    BY <2>1, FS_EmptySet DEF Copies
  <2> QED
    BY <2>2 DEF Reasons, Errors, Count, Init
<1> QED
  BY <1>1, <1>2 DEF FileInv, CopiesAccounted

THEOREM FileNextInv == FileInv /\ [Next]_vars => FileInv'
<1> SUFFICES ASSUME FileInv, [Next]_vars PROVE FileInv'
  OBVIOUS
<1>1. TypeOK' /\ RunShape' /\ Finite'
  BY ShapeNext DEF FileInv
<1> SUFFICES CopiesAccounted'
  BY <1>1 DEF FileInv
<1>2. /\ UNCHANGED <<crashes, faults>> => Errors <= Errors'
      /\ \/ crashes' = crashes + 1 /\ faults' = faults
         \/ faults' = faults + 1 /\ crashes' = crashes
         => Errors < Errors' /\ Errors <= Errors'
  BY DEF FileInv, TypeOK, Errors
<1>3. ASSUME NEW d \in Drops, Drop(d[1], d[2]) PROVE CopiesAccounted'
  BY <1>1, <1>2, <1>3, ReasonsKept, SameFileInHand DEF Drop, store, run
<1>4. ASSUME NEW ds \in Dates, StartRun(ds) PROVE CopiesAccounted'
  BY <1>1, <1>2, <1>4, ReasonsKept DEF StartRun, store, counts
<1>5. CASE BeginEntity \/ EndEntity \/ FinishRun
  BY <1>1, <1>2, <1>5, ReasonsKept DEF BeginEntity, EndEntity, FinishRun, store, counts
<1>6. CASE SkipMissing \/ SkipDuplicate \/ TakeFile
  BY <1>1, <1>2, <1>6, ReasonsKept
     DEF SkipMissing, SkipDuplicate, TakeFile, WriteFile, store, counts
<1>7. CASE Load
  BY <1>1, <1>7, LoadCopies
<1>8. CASE LoadCorrupt \/ LoadFault
  BY <1>1, <1>2, <1>8, ReasonsKept
     DEF LoadCorrupt, LoadFault, RecordFailed, WriteFile, counts
<1>9. CASE RecordProcessed
  BY <1>1, <1>9, RecordCopies
<1>10. CASE Archive \/ AdvanceWatermark
  BY <1>1, <1>2, <1>10, ReasonsKept DEF Archive, AdvanceWatermark, counts
<1>11. CASE FailRun \/ Crash
  BY <1>1, <1>2, <1>11, ReasonsKept DEF FailRun, Crash, store
<1>12. CASE UNCHANGED vars
  BY <1>1, <1>2, <1>12, ReasonsKept, SameFileInHand DEF vars, store, run, counts
<1> QED
  BY <1>3, <1>4, <1>5, <1>6, <1>7, <1>8, <1>9, <1>10, <1>11, <1>12
     DEF Next, RunStep, FileStep

THEOREM FileInvHolds == Spec => []FileInv
BY FileInitInv, FileNextInv, PTL DEF Spec

(* Whatever crashes, fails or is delivered at whatever moment, for every   *)
(* format: a run always knows its date, its batch and its file, the audit  *)
(* rows are well formed and no Bronze file is nameless.                    *)
THEOREM TypeCorrect == Spec => []TypeOK
<1>1. FileInv => TypeOK
  BY DEF FileInv
<1> QED
  BY <1>1, FileInvHolds, PTL

(* A content is loaded more than once only for a reason: a run cut off     *)
(* between Bronze and the audit, or a file replaced between the two reads, *)
(* of which each accounts for one copy.                                    *)
THEOREM ReloadedOnlyAfterInterruptionHolds == Spec => []ReloadedOnlyAfterInterruption
<1>1. ASSUME FileInv PROVE ReloadedOnlyAfterInterruption
  <2> SUFFICES ASSUME pc # "audit", NEW c \in Contents, NEW e \in Entities
               PROVE  Copies(c, e) <= 1 + crashes + faults + Cardinality(Swapped)
    BY DEF ReloadedOnlyAfterInterruption, Swapped
  <2> DEFINE A == Count(Seen(DedupKey(c, e)))
             N == Cardinality(Swapped)
  <2>1. Copies(c, e) <= A + 0 + Errors + N
    BY <1>1 DEF FileInv, CopiesAccounted, Reasons, Count
  <2>2. A \in {0, 1}
    BY DEF Count
  <2>3. Copies(c, e) \in Nat /\ N \in Nat /\ Errors \in Nat
    BY <1>1, CountsAreNumbers DEF FileInv
  <2> HIDE DEF A, N
  <2>4. Copies(c, e) <= 1 + Errors + N
    BY <2>1, <2>2, <2>3
  <2>5. crashes \in Nat /\ faults \in Nat
    BY <1>1 DEF FileInv, TypeOK
  <2> QED
    BY <2>3, <2>4, <2>5 DEF N, Errors
<1> QED
  BY <1>1, FileInvHolds, PTL

-----------------------------------------------------------------------------
(* Files, where an entity has at most one a day: csv, json and xlsx name   *)
(* one; several files of a Parquet partition would land under one name.    *)
OneFile == \A w \in Entities \X Dates : Len(PathsOf[w]) <= 1

(* A path nobody has delivered to since the run began is what was read.    *)
UntouchedAsRead ==
    pc \in WithFile /\ File \notin touched =>
        /\ key.sum = landing[File]
        /\ pc \in HasData => data = landing[File]

DataLanded ==
    pc \in HasData /\ Intact(data) =>
        \E f \in bronze : f.content = data /\ f.entity = Entity

(* What the run has written of the entities it still has to do: only the   *)
(* file in hand. So the next one it writes replaces none.                  *)
DistinctLeft ==
    \A i, j \in 1 .. Len(entities) : entities[i] = entities[j] => i = j
NameFree ==
    pc # "idle" =>
        \A f \in bronze : f.batch = batch =>
            \A i \in 1 .. Len(entities) :
                entities[i] = f.entity =>
                    i = 1 /\ (pc \in HasData \/ (pc = "file" /\ files = {}))

(* The order "Bronze first, audit second", with the sheet a key names.     *)
ProcessedLanded ==
    \A r \in fileAudit :
        r.status = "processed" /\ Intact(r.content) =>
            \E f \in bronze :
                f.content = r.content /\ (Format = "xlsx" => f.entity = r.key.sheet)

(* Nothing is skipped as a duplicate of nothing.                           *)
RowsHaveCause ==
    \A r \in fileAudit : \E q \in fileAudit :
        q.key = r.key /\ q.status \in {"processed", "failed"}

Settled(c, e) ==
    \/ Landed(c, e)
    \/ \E r \in fileAudit :
         /\ r.key = DedupKey(c, e)
         /\ r.status = "failed" \/ (r.status = "processed" /\ r.content # c)

(* The run has gone through the files of the entities it has done.         *)
Handled(e) ==
    \/ \A i \in 1 .. Len(entities) : entities[i] # e
    \/ pc = "file" /\ files = {} /\ e = Entity
RunCovers ==
    pc # "idle" =>
        \A w \in Wanted(date) :
            /\ Exists(w[2]) /\ w[2] \notin touched
            /\ Intact(landing[w[2]]) /\ Handled(w[1])
            => Settled(landing[w[2]], w[1])

LandInv ==
    /\ UntouchedAsRead
    /\ DataLanded
    /\ DistinctLeft
    /\ NameFree
    /\ ProcessedLanded
    /\ RowsHaveCause
    /\ WatermarkIsLanded
    /\ RunCovers

LEMMA OnlyFile ==
    ASSUME OneFile, TypeOK, RunShape, pc \in WithFile \/ (pc = "file" /\ files # {})
    PROVE  /\ files \ {Turn} = {}
           /\ \A w \in Wanted(date) : w[1] = Entity => w[2] = File
<1>1. Entity \in Entities /\ date \in Dates /\ Turn \in 1 .. Len(Named)
      /\ Named \in Seq(Paths)
  BY InHand
<1>2. Len(Named) <= 1 /\ Len(Named) \in Nat
  BY <1>1 DEF OneFile, Named
<1>3. Turn = 1 /\ 1 .. Len(Named) = {1}
  BY <1>1, <1>2
<1>4. files \subseteq {1}
  BY <1>3 DEF RunShape
<1>5. ASSUME NEW w \in Wanted(date), w[1] = Entity PROVE w[2] = File
  BY <1>3, <1>5 DEF Wanted, File, Named
<1> QED
  BY <1>3, <1>4, <1>5

LEMMA InitLandInv == Init => LandInv
<1> SUFFICES ASSUME Init PROVE LandInv
  OBVIOUS
<1>1. DistinctLeft
  BY DEF Init, DistinctLeft
<1> QED
  BY <1>1
     DEF Init, LandInv, UntouchedAsRead, DataLanded, NameFree, ProcessedLanded,
         RowsHaveCause, WatermarkIsLanded, RunCovers, WithFile, HasData

(* Bronze and the file audit only ever grow.                               *)
LEMMA LandAdds ==
    ASSUME FileInv, NameFree, Load
    PROVE  /\ bronze \subseteq bronze'
           /\ bronze' \subseteq bronze \cup {[entity |-> Entity, date |-> date,
                                   batch |-> batch, content |-> landing[File]]}
           /\ Intact(landing[File]) =>
                [entity |-> Entity, date |-> date, batch |-> batch,
                 content |-> landing[File]] \in bronze'
<1> DEFINE new == [entity |-> Entity, date |-> date, batch |-> batch,
                   content |-> landing[File]]
<1>1. Entity = entities[1] /\ Len(entities) > 0
  BY InHand DEF FileInv, Load, WithFile
<1>2. 1 \in 1 .. Len(entities)
  BY <1>1 DEF FileInv, TypeOK
<1>3. \A f \in bronze : ~SameFile(f, new)
  BY <1>1, <1>2 DEF NameFree, Load, SameFile, HasData
<1>4. bronze' = bronze \/ bronze' = bronze \cup {new}
  BY <1>3 DEF Load, Land
<1>5. Intact(landing[File]) => new \in bronze'
  BY DEF Load, Land, Intact
<1> QED
  BY <1>4, <1>5

LEMMA StoresGrow ==
    ASSUME FileInv, NameFree, [Next]_vars
    PROVE  bronze \subseteq bronze' /\ fileAudit \subseteq fileAudit'
<1>1. CASE Load
  BY <1>1, LandAdds DEF Load
<1>2. CASE ~Load
  BY <1>2 DEF Next, RunStep, FileStep, Drop, StartRun, BeginEntity, EndEntity,
       FinishRun, SkipMissing, SkipDuplicate, TakeFile, LoadCorrupt, LoadFault,
       RecordFailed, RecordProcessed, Archive, AdvanceWatermark, FailRun, Crash,
       WriteFile, store, vars
<1> QED
  BY <1>1, <1>2

LEMMA SettledStays ==
    ASSUME bronze \subseteq bronze', fileAudit \subseteq fileAudit', NEW c, NEW e,
           Settled(c, e)
    PROVE  Settled(c, e)'
BY DEF Settled, Landed, DedupKey

(* A step that goes on with the same run.                                  *)
LEMMA CoversKept ==
    ASSUME RunCovers, bronze \subseteq bronze', fileAudit \subseteq fileAudit',
           date' = date, pc # "idle", touched \subseteq touched',
           \A p \in Paths : p \notin touched' => landing'[p] = landing[p],
           \A w \in Wanted(date) :
               Handled(w[1])' /\ Exists(w[2]) /\ w[2] \notin touched
                 /\ Intact(landing[w[2]]) =>
                   Handled(w[1]) \/ Settled(landing[w[2]], w[1])'
    PROVE  RunCovers'
<1> SUFFICES ASSUME NEW w \in Wanted(date), Exists(w[2])', w[2] \notin touched',
                    Intact(landing[w[2]])', Handled(w[1])'
             PROVE  Settled(landing[w[2]], w[1])'
  BY DEF RunCovers, Wanted
<1>1. w[2] \in Paths /\ w[2] \notin touched /\ landing'[w[2]] = landing[w[2]]
  BY DEF Wanted
<1>2. Exists(w[2]) /\ Intact(landing[w[2]])
  BY <1>1 DEF Exists, Intact
<1>3. PICK c : c = landing[w[2]]
  OBVIOUS
<1>4. CASE Handled(w[1])
  <2>1. Settled(c, w[1])
    BY <1>1, <1>2, <1>3, <1>4 DEF RunCovers
  <2>2. Settled(c, w[1])'
    BY <2>1, SettledStays
  <2> QED
    BY <1>1, <1>3, <2>2 DEF Settled, Landed, DedupKey
<1> QED
  BY <1>1, <1>2, <1>4

(* What a step makes of the parts it leaves alone.                         *)
LEMMA LandedStays ==
    ASSUME LandInv, bronze \subseteq bronze', fileAudit \subseteq fileAudit'
    PROVE  /\ UNCHANGED fileAudit => ProcessedLanded' /\ RowsHaveCause'
           /\ UNCHANGED watermark => WatermarkIsLanded'
           /\ UNCHANGED <<data, Entity>> /\ pc \in HasData => DataLanded'
           /\ UNCHANGED entities => DistinctLeft'
           /\ pc' \notin WithFile => UntouchedAsRead' /\ DataLanded'
           /\ UNCHANGED <<entities, batch, bronze>> /\ pc # "idle"
                /\ (pc \in HasData => pc' \in HasData \/ (pc' = "file" /\ files' = {}))
                /\ (pc = "file" /\ files = {} => pc' = "file" /\ files' = {})
              => NameFree'
<1>1. UNCHANGED fileAudit => ProcessedLanded' /\ RowsHaveCause'
  BY DEF LandInv, ProcessedLanded, RowsHaveCause
<1>2. UNCHANGED watermark => WatermarkIsLanded'
  BY DEF LandInv, WatermarkIsLanded
<1>3. UNCHANGED <<data, Entity>> /\ pc \in HasData => DataLanded'
  BY DEF LandInv, DataLanded, Intact
<1>4. UNCHANGED entities => DistinctLeft'
  BY DEF LandInv, DistinctLeft
<1>5. pc' \notin WithFile => UntouchedAsRead' /\ DataLanded'
  BY DEF UntouchedAsRead, DataLanded, WithFile, HasData
<1>6. UNCHANGED <<entities, batch, bronze>> /\ pc # "idle"
        /\ (pc \in HasData => pc' \in HasData \/ (pc' = "file" /\ files' = {}))
        /\ (pc = "file" /\ files = {} => pc' = "file" /\ files' = {})
      => NameFree'
  BY DEF LandInv, NameFree
<1> QED
  BY <1>1, <1>2, <1>3, <1>4, <1>5, <1>6

(* The run is over: nothing is in hand, and the stores are as they were.   *)
LEMMA ExitLand ==
    ASSUME LandInv, Exit, UNCHANGED store
    PROVE  LandInv'
<1>1. bronze' = bronze /\ fileAudit' = fileAudit /\ watermark' = watermark
  BY DEF store
<1>2. DistinctLeft' /\ NameFree' /\ RunCovers'
  BY DEF Exit, DistinctLeft, NameFree, RunCovers
<1> QED
  BY <1>1, <1>2, LandedStays DEF LandInv, Exit, WithFile

(* The file in hand was the only one of its entity, so once it is dealt    *)
(* with the entity is.                                                     *)
LEMMA NextFileLand ==
    ASSUME OneFile, FileInv, LandInv, NextFile, UNCHANGED <<landing, bronze, touched>>,
           pc \in WithFile \/ (pc = "file" /\ files # {}),
           fileAudit \subseteq fileAudit',
           ProcessedLanded', RowsHaveCause', WatermarkIsLanded',
           \A c \in Contents, e \in Entities :
               /\ c = landing[File] /\ e = Entity
               /\ Exists(File) /\ File \notin touched /\ Intact(c)
               => Settled(c, e)'
    PROVE  LandInv'
<1>1. files' = {} /\ \A w \in Wanted(date) : w[1] = Entity => w[2] = File
  BY OnlyFile DEF NextFile, FileInv
<1>2. /\ pc' = "file" /\ pc # "idle" /\ entities' = entities /\ batch' = batch
      /\ date' = date
  BY DEF NextFile, WithFile
<1>3. RunCovers'
  <2>1. ASSUME NEW w \in Wanted(date), Handled(w[1])', ~Handled(w[1])
        PROVE  w[1] = Entity /\ w[2] = File
    BY <1>1, <1>2, <2>1 DEF Handled, Entity
  <2>2. \A w \in Wanted(date) :
           Handled(w[1])' /\ Exists(w[2]) /\ w[2] \notin touched
             /\ Intact(landing[w[2]]) =>
               Handled(w[1]) \/ Settled(landing[w[2]], w[1])'
    <3> SUFFICES ASSUME NEW w \in Wanted(date), Handled(w[1])', Exists(w[2]),
                        w[2] \notin touched, Intact(landing[w[2]]), ~Handled(w[1])
                 PROVE  Settled(landing[w[2]], w[1])'
      OBVIOUS
    <3>1. w[1] = Entity /\ w[2] = File
      BY <2>1
    <3>2. PICK c \in Contents, e \in Entities : c = landing[w[2]] /\ e = w[1]
      BY <3>1, InHand, ExistsIs DEF FileInv
    <3>3. Settled(c, e)'
      BY <3>1, <3>2 DEF Intact
    <3> QED
      BY <3>2, <3>3 DEF Settled, Landed, DedupKey
  <2> QED
    BY <1>2, <2>2, CoversKept DEF LandInv
<1> QED
  BY <1>1, <1>2, <1>3, LandedStays DEF LandInv, WithFile, HasData

THEOREM NextLandInv == OneFile /\ FileInv /\ LandInv /\ [Next]_vars => LandInv'
<1> SUFFICES ASSUME OneFile, FileInv, LandInv, [Next]_vars PROVE LandInv'
  OBVIOUS
<1>0. bronze \subseteq bronze' /\ fileAudit \subseteq fileAudit'
  BY StoresGrow DEF LandInv
<1> USE DEF FileInv
<1>1. ASSUME NEW d \in Drops, Drop(d[1], d[2]) PROVE LandInv'
  <2>1. /\ UNCHANGED <<run, store>> /\ touched \subseteq touched'
        /\ \A p \in Paths : p \notin touched' => landing'[p] = landing[p]
    BY <1>1, FilesAssumption DEF Drop, TypeOK
  <2>2. UNCHANGED <<Entity, File>>
    BY <2>1, SameFileInHand DEF run
  <2>3. UntouchedAsRead'
    BY <2>1, <2>2, InHand DEF LandInv, UntouchedAsRead, run
  <2>4. RunCovers'
    <3>1. CASE pc = "idle"
      BY <2>1, <3>1 DEF RunCovers, run
    <3>2. CASE pc # "idle"
      <4>1. \A w \in Wanted(date) : Handled(w[1])' => Handled(w[1])
        BY <2>1, <2>2 DEF Handled, run
      <4> QED
        BY <1>0, <2>1, <3>2, <4>1, CoversKept DEF LandInv, run
    <3> QED
      BY <3>1, <3>2
  <2>5. ProcessedLanded' /\ RowsHaveCause' /\ WatermarkIsLanded' /\ DistinctLeft'
    BY <1>0, <2>1, LandedStays DEF store, run
  <2>6. DataLanded'
    BY <2>1, <2>2 DEF LandInv, DataLanded, store, run
  <2>7. NameFree'
    BY <2>1 DEF LandInv, NameFree, store, run
  <2> QED
    BY <2>3, <2>4, <2>5, <2>6, <2>7 DEF LandInv
<1>2. ASSUME NEW ds \in Dates, StartRun(ds) PROVE LandInv'
  <2>1. DistinctLeft'
    BY <1>2, EntitiesAssumption DEF StartRun, DistinctLeft
  <2>2. NameFree'
    <3>1. \A f \in bronze : f.batch # batch'
      BY <1>2 DEF StartRun, FreshBatch
    <3> QED
      BY <1>2, <3>1 DEF StartRun, NameFree, store
  <2>3. RunCovers'
    <3>1. \A e \in Entities : ~Handled(e)'
      BY <1>2 DEF StartRun, Handled, Entities
    <3> QED
      BY <3>1 DEF RunCovers, Wanted
  <2> QED
    BY <1>0, <1>2, <2>1, <2>2, <2>3, LandedStays DEF LandInv, StartRun, WithFile, store
<1>3. CASE BeginEntity
  <2>1. RunCovers'
    <3>1. ASSUME NEW w \in Wanted(date), Handled(w[1])', Exists(w[2])
          PROVE  Handled(w[1])
      <4> SUFFICES ASSUME ~Handled(w[1]) PROVE FALSE
        OBVIOUS
      <4>1. files' = {} /\ w[1] = Entity
        BY <1>3, <3>1 DEF BeginEntity, Handled, Entity
      <4>2. PICK i \in 1 .. Len(Named) : Named[i] = w[2]
        BY <4>1 DEF Wanted, Named
      <4>3. i \in files'
        BY <1>3, <3>1, <4>2 DEF BeginEntity
      <4> QED
        BY <4>1, <4>3
    <3>2. UNCHANGED <<date, landing, touched>> /\ pc # "idle"
      BY <1>3 DEF BeginEntity, hist
    <3> QED
      BY <1>0, <3>1, <3>2, CoversKept DEF LandInv
  <2>2. NameFree'
    BY <1>3, LandedStays, <1>0 DEF BeginEntity, HasData, store
  <2> QED
    BY <1>0, <1>3, <2>1, <2>2, LandedStays DEF LandInv, BeginEntity, WithFile, store
<1>4. CASE EndEntity
  <2>1. /\ entities # <<>> /\ entities' = Tail(entities)
        /\ Len(entities') = Len(entities) - 1 /\ Len(entities) \in Nat
        /\ \A i \in 1 .. Len(entities') :
              entities'[i] = entities[i + 1] /\ i + 1 \in 1 .. Len(entities)
    BY <1>4 DEF EndEntity, TypeOK, RunShape
  <2>2. DistinctLeft'
    BY <2>1 DEF LandInv, DistinctLeft
  <2>3. NameFree'
    <3>1. \A i \in 1 .. Len(entities') : i + 1 # 1
      BY <2>1
    <3> QED
      BY <1>4, <2>1, <3>1 DEF EndEntity, LandInv, NameFree, store
  <2>4. RunCovers'
    <3>1. ASSUME NEW w \in Wanted(date), Handled(w[1])' PROVE Handled(w[1])
      <4>1. \A i \in 1 .. Len(entities') : entities'[i] # w[1]
        BY <1>4, <3>1 DEF EndEntity, Handled
      <4>2. ASSUME NEW i \in 1 .. Len(entities), i # 1 PROVE entities[i] # w[1]
        <5>1. i - 1 \in 1 .. Len(entities') /\ (i - 1) + 1 = i
          BY <2>1, <4>2
        <5>2. entities'[i - 1] = entities[(i - 1) + 1]
          BY <2>1, <5>1
        <5> QED
          BY <4>1, <5>1, <5>2
      <4>3. entities[1] = Entity
        BY <2>1 DEF Entity, TypeOK
      <4> QED
        BY <1>4, <4>2, <4>3 DEF EndEntity, Handled
    <3>2. UNCHANGED <<date, landing, touched>> /\ pc # "idle"
      BY <1>4 DEF EndEntity, hist
    <3> QED
      BY <1>0, <3>1, <3>2, CoversKept DEF LandInv
  <2> QED
    BY <1>0, <1>4, <2>2, <2>3, <2>4, LandedStays DEF LandInv, EndEntity, WithFile, store
<1>5. CASE FinishRun
  BY <1>5, ExitLand DEF FinishRun
<1>6. CASE SkipMissing
  <2>1. ProcessedLanded' /\ RowsHaveCause' /\ WatermarkIsLanded'
    BY <1>0, <1>6, LandedStays DEF SkipMissing, store
  <2> QED
    BY <1>0, <1>6, <2>1, NextFileLand DEF SkipMissing, store, hist
<1>7. CASE SkipDuplicate
  <2> DEFINE c == landing[File]
             row == [path |-> File, key |-> DedupKey(c, Entity),
                     content |-> NoContent, status |-> "skipped_duplicate"]
  <2>1. c \in Contents /\ Entity \in Entities
    BY <1>7, InHand, ExistsIs DEF SkipDuplicate
  <2>2. PICK q \in fileAudit : /\ q.key = DedupKey(c, Entity)
                               /\ q.status \in {"processed", "failed"}
    BY <1>7 DEF SkipDuplicate, Seen, LandInv, RowsHaveCause
  <2>3. fileAudit' = fileAudit \cup {row} /\ bronze' = bronze
    BY <1>7 DEF SkipDuplicate, WriteFile
  <2>4. ProcessedLanded' /\ RowsHaveCause'
    BY <2>2, <2>3 DEF LandInv, ProcessedLanded, RowsHaveCause
  <2>5. ASSUME Intact(c) PROVE Settled(c, Entity)
    <3>1. CASE q.status = "processed" /\ q.content = c
      <4>1. PICK f \in bronze : /\ f.content = c
                                /\ Format = "xlsx" => f.entity = q.key.sheet
        BY <2>5, <3>1 DEF LandInv, ProcessedLanded
      <4>2. Format = "xlsx" => f.entity = Entity
        BY <2>1, <2>2, <4>1, DedupKeyIs
      <4> QED
        BY <4>1, <4>2 DEF Settled, Landed
    <3>2. CASE q.status = "failed" \/ q.content # c
      BY <2>2, <3>2 DEF Settled
    <3> QED
      BY <2>2, <3>1, <3>2
  <2>6. \A d \in Contents, e \in Entities :
           d = c /\ e = Entity /\ Intact(d) => Settled(d, e)'
    <3> SUFFICES ASSUME NEW d \in Contents, NEW e \in Entities,
                        d = c, e = Entity, Intact(d)
                 PROVE  Settled(d, e)'
      OBVIOUS
    <3>1. Settled(d, e)
      BY <2>5
    <3> QED
      BY <1>0, <3>1, SettledStays
  <2>7. WatermarkIsLanded'
    BY <1>0, <1>7, LandedStays DEF SkipDuplicate
  <2> QED
    BY <1>0, <1>7, <2>4, <2>6, <2>7, NextFileLand DEF SkipDuplicate, hist
<1>8. CASE TakeFile
  <2>1. UNCHANGED <<Entity, File, landing, touched, date, entities, batch>>
    BY <1>8, SameFileInHand DEF TakeFile, hist
  <2>2. Entity \in Entities /\ landing[File] \in Contents
    BY <1>8, InHand, ExistsIs DEF TakeFile
  <2>3. UntouchedAsRead'
    BY <1>8, <2>1, <2>2, DedupKeyIs DEF TakeFile, UntouchedAsRead, HasData
  <2>4. DataLanded'
    BY <1>8 DEF TakeFile, DataLanded, HasData
  <2>5. \A w \in Wanted(date) : Handled(w[1])' => Handled(w[1])
    BY <1>8, <2>1 DEF TakeFile, Handled
  <2>6. RunCovers'
    BY <1>0, <1>8, <2>1, <2>5, CoversKept DEF TakeFile, LandInv
  <2>7. NameFree'
    BY <1>0, <1>8, LandedStays DEF TakeFile, HasData, store
  <2> QED
    BY <1>0, <1>8, <2>3, <2>4, <2>6, <2>7, LandedStays DEF LandInv, TakeFile, store
<1>9. CASE Load
  <2>1. UNCHANGED <<Entity, File, landing, touched, date, entities, batch, key>>
    BY <1>9, SameFileInHand DEF Load, hist
  <2>2. UntouchedAsRead'
    BY <1>9, <2>1 DEF Load, LandInv, UntouchedAsRead, WithFile
  <2>3. DataLanded'
    BY <1>9, <2>1, LandAdds DEF Load, LandInv, DataLanded, Intact
  <2>4. NameFree'
    <3>1. Entity = entities[1] /\ 1 \in 1 .. Len(entities)
      BY <1>9, InHand DEF Load, WithFile, TypeOK
    <3> SUFFICES ASSUME NEW f \in bronze', f.batch = batch,
                        NEW i \in 1 .. Len(entities), entities[i] = f.entity
                 PROVE  i = 1
      BY <1>9, <2>1 DEF NameFree, Load, HasData
    <3>2. CASE f \in bronze
      BY <1>9, <3>2 DEF LandInv, NameFree, Load
    <3>3. CASE f \notin bronze
      <4>1. f.entity = Entity
        BY <1>9, <3>3, LandAdds DEF LandInv
      <4> QED
        BY <3>1, <4>1 DEF LandInv, DistinctLeft
    <3> QED
      BY <3>2, <3>3
  <2>5. \A w \in Wanted(date) : Handled(w[1])' => Handled(w[1])
    BY <1>9, <2>1 DEF Load, Handled
  <2>6. RunCovers'
    BY <1>0, <1>9, <2>1, <2>5, CoversKept DEF Load, LandInv
  <2> QED
    BY <1>0, <1>9, <2>2, <2>3, <2>4, <2>6, LandedStays DEF LandInv, Load
<1>10. CASE LoadCorrupt \/ LoadFault
  <2> DEFINE row == [path |-> File, key |-> key, content |-> NoContent,
                     status |-> "failed"]
  <2>1. /\ pc = "load" /\ fileAudit' = fileAudit \cup {row} /\ NextFile
        /\ UNCHANGED <<bronze, landing, touched, watermark>>
    BY <1>10 DEF LoadCorrupt, LoadFault, RecordFailed, WriteFile, hist
  <2>2. ProcessedLanded' /\ RowsHaveCause' /\ WatermarkIsLanded'
    <3>1. ProcessedLanded'
      BY <2>1 DEF LandInv, ProcessedLanded
    <3>2. RowsHaveCause'
      BY <2>1 DEF LandInv, RowsHaveCause
    <3> QED
      BY <1>0, <2>1, <3>1, <3>2, LandedStays
  <2>3. \A d \in Contents, e \in Entities :
           d = landing[File] /\ e = Entity /\ File \notin touched => Settled(d, e)'
    <3> SUFFICES ASSUME NEW d \in Contents, NEW e \in Entities,
                        d = landing[File], e = Entity, File \notin touched
                 PROVE  Settled(d, e)'
      OBVIOUS
    <3>1. key = DedupKey(d, e)
      BY <2>1 DEF RunShape, LandInv, UntouchedAsRead, WithFile
    <3>2. row \in fileAudit' /\ row.key = DedupKey(d, e) /\ row.status = "failed"
      BY <2>1, <3>1
    <3> QED
      BY <3>2 DEF Settled, DedupKey
  <2> QED
    BY <1>0, <2>1, <2>2, <2>3, NextFileLand DEF WithFile
<1>11. CASE RecordProcessed
  <2> DEFINE row == [path |-> File, key |-> key, content |-> data,
                     status |-> "processed"]
  <2>1. UNCHANGED <<Entity, File, landing, touched, date, entities, batch, key, data>>
    BY <1>11, SameFileInHand DEF RecordProcessed, hist
  <2>2. fileAudit' = fileAudit \cup {row} /\ UNCHANGED <<bronze, watermark>>
    BY <1>11 DEF RecordProcessed, WriteFile
  <2>3. ProcessedLanded'
    <3>1. key = DedupKey(key.sum, Entity) /\ key.sum \in Contents /\ Entity \in Entities
      BY <1>11, InHand DEF RecordProcessed, RunShape, WithFile, Key
    <3>2. Format = "xlsx" => key.sheet = Entity
      BY <3>1, DedupKeyIs
    <3>3. Intact(data) => \E f \in bronze : f.content = data /\ f.entity = Entity
      BY <1>11 DEF RecordProcessed, LandInv, DataLanded, HasData
    <3> QED
      BY <2>2, <3>2, <3>3 DEF LandInv, ProcessedLanded, Intact
  <2>4. RowsHaveCause'
    BY <2>2 DEF LandInv, RowsHaveCause
  <2>5. UntouchedAsRead' /\ DataLanded'
    BY <1>11, <2>1, <2>2
       DEF RecordProcessed, LandInv, UntouchedAsRead, DataLanded, WithFile, HasData,
           Intact
  <2>6. \A w \in Wanted(date) : Handled(w[1])' => Handled(w[1])
    BY <1>11, <2>1 DEF RecordProcessed, Handled
  <2>7. RunCovers'
    BY <1>0, <1>11, <2>1, <2>6, CoversKept DEF RecordProcessed, LandInv
  <2>8. NameFree'
    BY <1>0, <1>11, <2>1, <2>2, LandedStays DEF RecordProcessed, HasData
  <2> QED
    BY <1>0, <2>1, <2>2, <2>3, <2>4, <2>5, <2>7, <2>8, LandedStays DEF LandInv
<1>12. CASE Archive
  <2>1. UNCHANGED <<Entity, File, landing, touched, date, entities, batch, key, data,
                    bronze, fileAudit, watermark>>
    BY <1>12, SameFileInHand DEF Archive, hist
  <2>2. UntouchedAsRead' /\ DataLanded'
    BY <1>12, <2>1
       DEF Archive, LandInv, UntouchedAsRead, DataLanded, WithFile, HasData, Intact
  <2>3. \A w \in Wanted(date) : Handled(w[1])' => Handled(w[1])
    BY <1>12, <2>1 DEF Archive, Handled
  <2>4. RunCovers'
    BY <1>0, <1>12, <2>1, <2>3, CoversKept DEF Archive, LandInv
  <2>5. NameFree'
    BY <1>0, <1>12, <2>1, LandedStays DEF Archive, HasData
  <2> QED
    BY <1>0, <2>1, <2>2, <2>4, <2>5, LandedStays DEF LandInv
<1>13. CASE AdvanceWatermark
  <2>1. /\ pc = "watermark" /\ Entity \in Entities
        /\ bronze' = bronze /\ fileAudit' = fileAudit
    BY <1>13, InHand DEF AdvanceWatermark, WithFile
  <2>2. WatermarkIsLanded'
    <3>1. CASE watermark' = watermark
      BY <1>0, <3>1, LandedStays
    <3>2. CASE watermark' # watermark
      <4>1. Intact(data) /\ watermark' = [watermark EXCEPT ![Entity] = High[data]]
        BY <1>13, <3>2 DEF AdvanceWatermark, Intact
      <4>2. PICK f \in bronze : f.content = data /\ f.entity = Entity
        BY <2>1, <4>1 DEF LandInv, DataLanded, HasData
      <4> QED
        BY <2>1, <4>1, <4>2 DEF LandInv, WatermarkIsLanded, TypeOK
    <3> QED
      BY <3>1, <3>2
  <2>3. \A d \in Contents, e \in Entities :
           /\ d = landing[File] /\ e = Entity /\ File \notin touched /\ Intact(d)
           => Settled(d, e)'
    <3> SUFFICES ASSUME NEW d \in Contents, NEW e \in Entities, d = landing[File],
                        e = Entity, File \notin touched, Intact(d)
                 PROVE  Settled(d, e)'
      OBVIOUS
    <3>1. data = d
      BY <2>1 DEF LandInv, UntouchedAsRead, WithFile, HasData
    <3>2. PICK f \in bronze : f.content = d /\ f.entity = e
      BY <2>1, <3>1 DEF LandInv, DataLanded, HasData
    <3>3. Settled(d, e)
      BY <3>2 DEF Settled, Landed
    <3> QED
      BY <1>0, <3>3, SettledStays
  <2>4. ProcessedLanded' /\ RowsHaveCause'
    BY <1>0, <2>1, LandedStays
  <2> QED
    BY <1>0, <1>13, <2>1, <2>2, <2>3, <2>4, NextFileLand
       DEF AdvanceWatermark, WithFile, hist
<1>14. CASE FailRun \/ Crash
  BY <1>14, ExitLand DEF FailRun, Crash
<1>15. CASE UNCHANGED vars
  <2>1. UNCHANGED <<run, store, touched, landing>>
    BY <1>15 DEF vars, hist
  <2>2. UNCHANGED <<Entity, File>>
    BY <2>1, SameFileInHand DEF run
  <2>3. UntouchedAsRead' /\ DataLanded'
    BY <2>1, <2>2 DEF LandInv, UntouchedAsRead, DataLanded, run, store
  <2>4. DistinctLeft' /\ NameFree'
    BY <2>1 DEF LandInv, DistinctLeft, NameFree, run, store
  <2>5. RunCovers'
    <3>1. CASE pc = "idle"
      BY <2>1, <3>1 DEF RunCovers, run
    <3>2. CASE pc # "idle"
      <4>1. \A w \in Wanted(date) : Handled(w[1])' => Handled(w[1])
        BY <2>1, <2>2 DEF Handled, run
      <4> QED
        BY <1>0, <2>1, <3>2, <4>1, CoversKept DEF LandInv, run
    <3> QED
      BY <3>1, <3>2
  <2> QED
    BY <1>0, <2>1, <2>3, <2>4, <2>5, LandedStays DEF LandInv, store
<1> QED
  BY <1>1, <1>2, <1>3, <1>4, <1>5, <1>6, <1>7, <1>8, <1>9, <1>10, <1>11, <1>12,
     <1>13, <1>14, <1>15 DEF Next, RunStep, FileStep

THEOREM LandInvHolds == OneFile => (Spec => []LandInv)
<1> SUFFICES ASSUME OneFile PROVE Spec => []LandInv
  OBVIOUS
<1>1. FileInv /\ LandInv /\ [Next]_vars => LandInv'
  BY NextLandInv
<1> QED
  BY InitLandInv, FileInvHolds, <1>1, PTL DEF Spec

(* Every content the file audit calls processed is in Bronze if it has     *)
(* rows, whatever died, failed or was redelivered in between.              *)
THEOREM ProcessedIsInBronzeHolds == OneFile => (Spec => []ProcessedIsInBronze)
<1>1. LandInv => ProcessedIsInBronze
  BY DEF LandInv, ProcessedLanded, ProcessedIsInBronze
<1> QED
  BY <1>1, LandInvHolds, PTL

(* The watermark of an entity is the maximum of a content landed for it.   *)
THEOREM WatermarkIsLandedHolds == OneFile => (Spec => []WatermarkIsLanded)
<1>1. LandInv => WatermarkIsLanded
  BY DEF LandInv
<1> QED
  BY <1>1, LandInvHolds, PTL

(* A run that succeeds has brought to Bronze every intact file of its date *)
(* nobody touched meanwhile, but those whose key was audited as failed or  *)
(* for a content swapped between the two reads: a crash, an unreadable     *)
(* neighbour or a failed batch leaves none out for good.                   *)
THEOREM RerunLandsAllButFailedHolds == OneFile => (Spec => []RerunLandsAllButFailed)
<1>1. ASSUME LandInv PROVE RerunLandsAllButFailed
  <2> SUFFICES ASSUME Succeeding, NEW w \in StableFiles, Intact(landing[w[2]]),
                      ~Landed(landing[w[2]], w[1])
               PROVE  \E r \in fileAudit :
                        /\ r.key = DedupKey(landing[w[2]], w[1])
                        /\ \/ r.status = "failed"
                           \/ r.status = "processed" /\ r.content # landing[w[2]]
    BY DEF RerunLandsAllButFailed
  <2>1. Handled(w[1]) /\ pc # "idle"
    BY DEF Succeeding, Handled
  <2>2. Settled(landing[w[2]], w[1])
    BY <1>1, <2>1 DEF LandInv, RunCovers, StableFiles
  <2> QED
    BY <2>2 DEF Settled
<1> QED
  BY <1>1, LandInvHolds, PTL

-----------------------------------------------------------------------------
(* Incremental JDBC extraction.                                            *)

(* A watermark v is good for a table T landed in B: it is the timestamp of *)
(* a row (so later rows come after it) and all rows up to it are landed.   *)
Good(v, T, B) ==
    /\ v = 0 \/ \E r \in T : r.ts = v
    /\ \A r \in T : r.ts <= v => r \in B

(* The rows S read from T miss nothing older that is not landed.           *)
Whole(S, T, B) ==
    /\ S \subseteq T
    /\ \A r \in T, q \in S : r.ts <= q.ts => r \in S \cup B

StoredGood ==
    stored # Torn => \A e \in Tables : Good(stored[e], source[e], landed[e])

ReadGood ==
    \A p \in Runs : Good(wm[p], source[tableOf[p]], landed[tableOf[p]])

CopyGood ==
    \A p \in Runs, e \in Tables : Good(copy[p][e], source[e], landed[e])

RowsWhole ==
    \A p \in Runs : phase[p] \in {"land", "mark", "truncate", "write"} =>
        Whole(rows[p], source[tableOf[p]], landed[tableOf[p]])

RowsLanded ==
    \A p \in Runs : phase[p] \in {"mark", "truncate", "write"} =>
        rows[p] \subseteq landed[tableOf[p]]

(* A run with no rows stores no watermark.                                 *)
RowsToMark ==
    \A p \in Runs : phase[p] \in {"mark", "truncate", "write"} => rows[p] # {}

(* Only the JSONL store has a file that can be torn.                       *)
StoreSteps ==
    metaStore = "bigquery" =>
        stored # Torn /\ \A p \in Runs : phase[p] \notin {"truncate", "write"}

(* Of any source.                                                          *)
JdbcShape == JdbcTypeOK /\ StoreSteps /\ RowsToMark

(* Of a source that commits in timestamp order.                            *)
JdbcInv ==
    /\ JdbcShape
    /\ StoredGood
    /\ ReadGood
    /\ CopyGood
    /\ RowsWhole
    /\ RowsLanded

-----------------------------------------------------------------------------
(* max(values) of a set of rows that is not empty.                         *)
LEMMA HighestIs ==
    ASSUME NEW S \in SUBSET Row, S # {}
    PROVE  /\ Highest(S) \in 0 .. MaxTime
           /\ \A r \in S : r.ts <= Highest(S)
           /\ \E r \in S : r.ts = Highest(S)
<1> DEFINE Below == {MaxTime - r.ts : r \in S}
<1>1. MaxTime \in Nat
  BY JdbcBoundsAssumption
<1>2. \A r \in S : r.ts \in 1 .. MaxTime
  BY DEF Row, Time
<1>3. Below \in SUBSET Nat
  BY <1>1, <1>2
<1>4. PICK q \in S : TRUE
  OBVIOUS
<1>5. MaxTime - q.ts \in Below
  BY <1>4
<1> HIDE DEF Below
<1>6. PICK m \in Below : \A k \in Below : m <= k
  BY <1>3, <1>5, Least
<1>7. PICK x \in S : m = MaxTime - x.ts
  BY <1>6 DEF Below
<1>8. \A r \in S : r.ts <= x.ts
  <2> SUFFICES ASSUME NEW r \in S PROVE r.ts <= x.ts
    OBVIOUS
  <2>1. m <= MaxTime - r.ts
    BY <1>6 DEF Below
  <2> QED
    BY <2>1, <1>1, <1>2, <1>7
<1>9. \E t \in 0 .. MaxTime :
         (\A r \in S : r.ts <= t) /\ (t = 0 \/ \E r \in S : r.ts = t)
  <2>1. x.ts \in 0 .. MaxTime
    BY <1>1, <1>2
  <2> QED
    BY <2>1, <1>8
<1>10. /\ Highest(S) \in 0 .. MaxTime
       /\ \A r \in S : r.ts <= Highest(S)
       /\ Highest(S) = 0 \/ \E r \in S : r.ts = Highest(S)
  BY <1>9 DEF Highest
<1>11. Highest(S) # 0
  BY <1>1, <1>2, <1>4, <1>10
<1> QED
  BY <1>10, <1>11

(* Any source: the watermarks are well formed and only the JSONL store     *)
(* tears its file.                                                         *)
LEMMA JdbcShapeInit == JdbcInit => JdbcShape
<1> SUFFICES ASSUME JdbcInit PROVE JdbcShape
  OBVIOUS
<1>1. NoWatermarks \in Watermarks
  BY JdbcBoundsAssumption DEF NoWatermarks, Watermarks
<1>2. JdbcTypeOK
  BY <1>1, JdbcBoundsAssumption DEF JdbcInit, JdbcTypeOK, JdbcPhase
<1> QED
  BY <1>1, <1>2, TornAssumption DEF JdbcInit, JdbcShape, RowsToMark, StoreSteps

LEMMA JdbcShapeNext == JdbcShape /\ [JdbcNext]_jdbcVars => JdbcShape'
<1> SUFFICES ASSUME JdbcShape, [JdbcNext]_jdbcVars PROVE JdbcShape'
  OBVIOUS
<1> USE DEF JdbcShape
<1>1. ASSUME NEW e \in Tables, NEW id \in Ids, NEW ts \in Time, Write(e, id, ts)
      PROVE  JdbcShape'
  <2>1. [id |-> id, ts |-> ts] \in Row
    BY DEF Row
  <2>2. JdbcTypeOK'
    BY <1>1, <2>1 DEF JdbcTypeOK, Write, config
  <2> QED
    BY <1>1, <2>2 DEF Write, config, StoreSteps, RowsToMark
<1>2. ASSUME NEW p \in Runs, Step(p) \/ Kill(p) PROVE JdbcShape'
  <2>1. /\ metaStore' = metaStore /\ tableOf' = tableOf /\ tableOf[p] \in Tables
        /\ phase[p] \in JdbcPhase
    BY <1>2 DEF Step, Kill, config, JdbcTypeOK
  <2>2. phase[p] \in {"mark", "truncate", "write"} =>
            rows[p] # {} /\ Highest(rows[p]) \in 0 .. MaxTime
    BY HighestIs DEF JdbcTypeOK, RowsToMark
  <2>3. source' \in [Tables -> SUBSET Row] /\ landed' \in [Tables -> SUBSET Row]
    BY <1>2, <2>1 DEF Step, ReadWatermark, Query, LandRows, Merge, ReadFile,
       Truncate, WriteBack, FailTorn, Kill, JdbcTypeOK
  <2>4. wm' \in [Runs -> 0 .. MaxTime] /\ rows' \in [Runs -> SUBSET Row]
    <3>1. CASE ReadWatermark(p)
      BY <2>1, <3>1 DEF ReadWatermark, JdbcTypeOK, Watermarks
    <3>2. CASE Query(p)
      BY <2>1, <3>2 DEF Query, JdbcTypeOK
    <3> QED
      BY <1>2, <3>1, <3>2 DEF Step, LandRows, Merge, ReadFile, Truncate,
         WriteBack, FailTorn, Kill, JdbcTypeOK
  <2>5. /\ stored' \in Watermarks \cup {Torn} /\ copy' \in [Runs -> Watermarks]
        /\ metaStore = "bigquery" => stored' # Torn
    <3>1. CASE Merge(p)
      <4>1. stored \in Watermarks
        BY <3>1 DEF Merge, StoreSteps, JdbcTypeOK
      <4>2. stored' \in Watermarks
        BY <2>1, <2>2, <3>1, <4>1 DEF Merge, Watermarks
      <4> QED
        BY <3>1, <4>2, TornAssumption DEF Merge, JdbcTypeOK
    <3>2. CASE WriteBack(p)
      <4>1. Written(p) \in Watermarks /\ metaStore # "bigquery"
        BY <2>1, <2>2, <3>2 DEF WriteBack, Written, StoreSteps, JdbcTypeOK, Watermarks
      <4> QED
        BY <3>2, <4>1 DEF WriteBack, JdbcTypeOK
    <3>3. CASE Truncate(p) \/ ReadFile(p)
      BY <3>3 DEF Truncate, ReadFile, StoreSteps, JdbcTypeOK
    <3> QED
      BY <1>2, <3>1, <3>2, <3>3 DEF Step, ReadWatermark, Query, LandRows,
         FailTorn, Kill, StoreSteps, JdbcTypeOK
  <2>6. kills' \in 0 .. MaxKills
    BY <1>2, JdbcBoundsAssumption DEF Step, ReadWatermark, Query, LandRows, Merge,
       ReadFile, Truncate, WriteBack, FailTorn, Kill, JdbcTypeOK
  <2>7. /\ phase' \in [Runs -> JdbcPhase]
        /\ \A q \in Runs : q # p => phase'[q] = phase[q] /\ rows'[q] = rows[q]
        /\ phase'[p] \in {"mark", "truncate", "write"} => rows'[p] # {}
        /\ phase'[p] \in {"truncate", "write"} => metaStore # "bigquery"
    BY <1>2, <2>1, <2>2 DEF Step, ReadWatermark, Query, LandRows, Merge, ReadFile,
       Truncate, WriteBack, FailTorn, Kill, Goto, StoreSteps, JdbcTypeOK, JdbcPhase
  <2>8. JdbcTypeOK'
    BY <2>1, <2>3, <2>4, <2>5, <2>6, <2>7 DEF JdbcTypeOK
  <2> QED
    BY <2>1, <2>5, <2>7, <2>8 DEF StoreSteps, RowsToMark
<1>3. CASE UNCHANGED jdbcVars
  BY <1>3 DEF jdbcVars, config, JdbcTypeOK, StoreSteps, RowsToMark
<1> QED
  BY <1>1, <1>2, <1>3 DEF JdbcNext

(* Watermarks, copies of them and rows in hand are always well formed.     *)
THEOREM JdbcTypeCorrect == JdbcSpec => []JdbcTypeOK
<1>1. JdbcShape => JdbcTypeOK
  BY DEF JdbcShape
<1> QED
  BY <1>1, JdbcShapeInit, JdbcShapeNext, PTL DEF JdbcSpec

(* What a run stores is good.                                              *)
LEMMA HighestGood ==
    ASSUME NEW S \in SUBSET Row, S # {}, NEW T \in SUBSET Row, NEW B,
           Whole(S, T, B), S \subseteq B
    PROVE  Good(Highest(S), T, B)
<1>1. PICK q \in S : q.ts = Highest(S)
  BY HighestIs
<1>2. q \in T
  BY <1>1 DEF Whole
<1>3. \A r \in T : r.ts <= q.ts => r \in B
  BY <1>1 DEF Whole
<1> QED
  BY <1>1, <1>2, <1>3 DEF Good

(* Tables grow at the end, Bronze grows: what was good or whole stays so.  *)
Grown(T, U, B, C) ==
    /\ T \subseteq U
    /\ B \subseteq C
    /\ \A n \in U \ T : \A r \in T : r.ts < n.ts

LEMMA GoodKept ==
    ASSUME NEW T \in SUBSET Row, NEW U \in SUBSET Row, NEW B, NEW C,
           Grown(T, U, B, C), NEW v \in 0 .. MaxTime, Good(v, T, B)
    PROVE  Good(v, U, C)
<1>1. \A r \in U : r.ts \in Nat /\ r.ts > 0
  BY JdbcBoundsAssumption DEF Row, Time
<1>2. v \in Nat
  BY JdbcBoundsAssumption
<1>3. \A n \in U \ T : ~(n.ts <= v)
  BY <1>1, <1>2 DEF Good, Grown
<1> QED
  BY <1>3 DEF Good, Grown

LEMMA WholeKept ==
    ASSUME NEW T \in SUBSET Row, NEW U \in SUBSET Row, NEW B, NEW C,
           Grown(T, U, B, C), NEW S, Whole(S, T, B)
    PROVE  Whole(S, U, C)
<1>1. \A r \in U : r.ts \in Nat
  BY JdbcBoundsAssumption DEF Row, Time
<1>2. \A n \in U \ T : \A q \in S : ~(n.ts <= q.ts)
  BY <1>1 DEF Grown, Whole
<1> QED
  BY <1>2 DEF Grown, Whole

(* The configuration of a process.                                         *)
LEMMA EntityOfRuns ==
    ASSUME JdbcInv
    PROVE  tableOf \in [Runs -> Tables]
BY DEF JdbcInv, JdbcShape, JdbcTypeOK

LEMMA ConfigKept ==
    ASSUME [JdbcNext]_jdbcVars
    PROVE  metaStore' = metaStore /\ tableOf' = tableOf
BY DEF JdbcNext, Write, Step, Kill, config, jdbcVars

(* Every step grows them so.                                               *)
LEMMA StepGrows ==
    ASSUME InOrder, JdbcInv, [JdbcNext]_jdbcVars
    PROVE  /\ source' \in [Tables -> SUBSET Row]
           /\ landed' \in [Tables -> SUBSET Row]
           /\ \A e \in Tables : Grown(source[e], source'[e], landed[e], landed'[e])
<1> USE DEF JdbcInv, JdbcShape, JdbcTypeOK
<1>1. ASSUME NEW e \in Tables, NEW id \in Ids, NEW ts \in Time, Write(e, id, ts)
      PROVE  /\ source' \in [Tables -> SUBSET Row]
             /\ landed' \in [Tables -> SUBSET Row]
             /\ \A f \in Tables : Grown(source[f], source'[f], landed[f], landed'[f])
  <2>1. [id |-> id, ts |-> ts] \in Row
    BY DEF Row
  <2>2. \A r \in source[e] : r.ts < ts
    BY <1>1 DEF Write
  <2>3. source' = [source EXCEPT ![e] = @ \cup {[id |-> id, ts |-> ts]}]
        /\ landed' = landed
    BY <1>1 DEF Write
  <2> QED
    BY <2>1, <2>2, <2>3 DEF Grown
<1>2. ASSUME NEW p \in Runs, LandRows(p)
      PROVE  /\ source' \in [Tables -> SUBSET Row]
             /\ landed' \in [Tables -> SUBSET Row]
             /\ \A f \in Tables : Grown(source[f], source'[f], landed[f], landed'[f])
  BY <1>2, EntityOfRuns DEF LandRows, Grown
<1>3. ASSUME source' = source, landed' = landed
      PROVE  /\ source' \in [Tables -> SUBSET Row]
             /\ landed' \in [Tables -> SUBSET Row]
             /\ \A f \in Tables : Grown(source[f], source'[f], landed[f], landed'[f])
  BY <1>3 DEF Grown
<1>4. ASSUME NEW p \in Runs, Step(p) \/ Kill(p)
      PROVE  LandRows(p) \/ (source' = source /\ landed' = landed)
  BY <1>4 DEF Step, ReadWatermark, Query, Merge, ReadFile, Truncate, WriteBack,
              FailTorn, Kill
<1> QED
  BY <1>1, <1>2, <1>3, <1>4 DEF JdbcNext, jdbcVars

-----------------------------------------------------------------------------
THEOREM JdbcInitInv == JdbcInit => JdbcInv
<1> SUFFICES ASSUME JdbcInit PROVE JdbcInv
  OBVIOUS
<1>1. NoWatermarks \in Watermarks /\ \A e \in Tables : NoWatermarks[e] = 0
  BY JdbcBoundsAssumption DEF NoWatermarks, Watermarks
<1>2. JdbcShape
  BY JdbcShapeInit
<1>3. StoredGood
  BY <1>1 DEF JdbcInit, StoredGood, Good
<1>4. ReadGood
  BY DEF JdbcInit, ReadGood, Good
<1>5. CopyGood
  BY <1>1 DEF JdbcInit, CopyGood, Good
<1> QED
  BY <1>2, <1>3, <1>4, <1>5 DEF JdbcInit, JdbcInv, RowsWhole, RowsLanded

(* What a step makes of the parts it leaves alone.                         *)
LEMMA PartsKept ==
    ASSUME InOrder, JdbcInv, [JdbcNext]_jdbcVars
    PROVE  /\ UNCHANGED stored => StoredGood'
           /\ UNCHANGED wm => ReadGood'
           /\ UNCHANGED copy => CopyGood'
           /\ \A p \in Runs :
                /\ phase[p] \in {"land", "mark", "truncate", "write"}
                     => Whole(rows[p], source'[tableOf[p]], landed'[tableOf[p]])
                /\ landed[tableOf[p]] \subseteq landed'[tableOf[p]]
<1> USE ConfigKept DEF JdbcInv, JdbcShape
<1>1. /\ source' \in [Tables -> SUBSET Row]
      /\ landed' \in [Tables -> SUBSET Row]
      /\ \A e \in Tables : Grown(source[e], source'[e], landed[e], landed'[e])
  BY StepGrows
<1>2. source \in [Tables -> SUBSET Row]
  BY DEF JdbcTypeOK
<1>3. \A e \in Tables, v \in 0 .. MaxTime :
         Good(v, source[e], landed[e]) => Good(v, source'[e], landed'[e])
  <2> SUFFICES ASSUME NEW e \in Tables, NEW v \in 0 .. MaxTime,
                      Good(v, source[e], landed[e])
               PROVE  Good(v, source'[e], landed'[e])
    OBVIOUS
  <2>1. source[e] \in SUBSET Row /\ source'[e] \in SUBSET Row
        /\ Grown(source[e], source'[e], landed[e], landed'[e])
    BY <1>1, <1>2
  <2> QED
    BY <2>1, GoodKept
<1>4. UNCHANGED stored => StoredGood'
  BY <1>3 DEF StoredGood, JdbcTypeOK, Watermarks
<1>5. UNCHANGED wm => ReadGood'
  BY <1>3, EntityOfRuns DEF ReadGood, JdbcTypeOK
<1>6. UNCHANGED copy => CopyGood'
  BY <1>3 DEF CopyGood, JdbcTypeOK, Watermarks
<1>7. ASSUME NEW p \in Runs
      PROVE  /\ phase[p] \in {"land", "mark", "truncate", "write"}
                  => Whole(rows[p], source'[tableOf[p]], landed'[tableOf[p]])
             /\ landed[tableOf[p]] \subseteq landed'[tableOf[p]]
  <2>1. tableOf[p] \in Tables
    BY EntityOfRuns
  <2>2. /\ source[tableOf[p]] \in SUBSET Row /\ source'[tableOf[p]] \in SUBSET Row
        /\ Grown(source[tableOf[p]], source'[tableOf[p]],
                 landed[tableOf[p]], landed'[tableOf[p]])
    BY <1>1, <1>2, <2>1
  <2>3. landed[tableOf[p]] \subseteq landed'[tableOf[p]]
    BY <2>2 DEF Grown
  <2>4. ASSUME phase[p] \in {"land", "mark", "truncate", "write"}
        PROVE  Whole(rows[p], source'[tableOf[p]], landed'[tableOf[p]])
    <3>1. Whole(rows[p], source[tableOf[p]], landed[tableOf[p]])
      BY <2>4 DEF RowsWhole
    <3> QED
      BY <2>2, <3>1, WholeKept
  <2> QED
    BY <2>3, <2>4
<1> QED
  BY <1>4, <1>5, <1>6, <1>7

(* A step that changes at most where processes are, to places no further   *)
(* than where their rows allow.                                            *)
LEMMA RowsKept ==
    ASSUME InOrder, JdbcInv, [JdbcNext]_jdbcVars, UNCHANGED rows,
           \A p \in Runs :
               /\ phase'[p] \in {"land", "mark", "truncate", "write"}
                    => phase[p] \in {"land", "mark", "truncate", "write"}
               /\ phase'[p] \in {"mark", "truncate", "write"}
                    => phase[p] \in {"mark", "truncate", "write"}
    PROVE  RowsWhole' /\ RowsLanded'
<1> USE ConfigKept
<1>1. RowsWhole'
  BY PartsKept DEF RowsWhole
<1>2. RowsLanded'
  BY PartsKept DEF RowsLanded, JdbcInv
<1> QED
  BY <1>1, <1>2

(* What p is about to store is a good watermark of its entity.             *)
LEMMA StoreGood ==
    ASSUME JdbcInv, NEW p \in Runs, phase[p] \in {"mark", "truncate", "write"}
    PROVE  /\ Highest(rows[p]) \in 0 .. MaxTime
           /\ Good(Highest(rows[p]), source[tableOf[p]], landed[tableOf[p]])
<1>1. /\ rows[p] \in SUBSET Row /\ rows[p] # {}
      /\ source[tableOf[p]] \in SUBSET Row
      /\ Whole(rows[p], source[tableOf[p]], landed[tableOf[p]])
      /\ rows[p] \subseteq landed[tableOf[p]]
  BY EntityOfRuns DEF JdbcInv, JdbcShape, JdbcTypeOK, RowsWhole, RowsLanded, RowsToMark
<1> QED
  BY <1>1, HighestIs, HighestGood

THEOREM JdbcNextInv == InOrder /\ JdbcInv /\ [JdbcNext]_jdbcVars => JdbcInv'
<1> SUFFICES ASSUME InOrder, JdbcInv, [JdbcNext]_jdbcVars PROVE JdbcInv'
  OBVIOUS
<1> DEFINE Marking == {"mark", "truncate", "write"}
<1> USE ConfigKept
<1>0. JdbcShape'
  BY JdbcShapeNext DEF JdbcInv
<1> USE DEF JdbcShape
<1>1. ASSUME NEW e \in Tables, NEW id \in Ids, NEW ts \in Time, Write(e, id, ts)
      PROVE  JdbcInv'
  <2>1. RowsWhole' /\ RowsLanded'
    BY <1>1, RowsKept DEF Write
  <2> QED
    BY <1>1, <1>0, <2>1, PartsKept DEF JdbcInv, Write
<1>2. ASSUME NEW p \in Runs, ReadWatermark(p) PROVE JdbcInv'
  <2>1. stored \in Watermarks /\ tableOf[p] \in Tables
    BY <1>2, EntityOfRuns DEF ReadWatermark, JdbcInv, JdbcTypeOK
  <2>2. ReadGood'
    BY <1>2, <2>1 DEF ReadWatermark, JdbcInv, JdbcTypeOK, ReadGood, StoredGood
  <2>3. RowsWhole' /\ RowsLanded'
    BY <1>2, RowsKept DEF ReadWatermark, Goto, JdbcInv, JdbcTypeOK
  <2> QED
    BY <1>2, <1>0, <2>2, <2>3, PartsKept DEF JdbcInv, ReadWatermark
<1>3. ASSUME NEW p \in Runs, Query(p) PROVE JdbcInv'
  <2>1. tableOf[p] \in Tables
    BY EntityOfRuns
  <2>2. Whole(rows'[p], source[tableOf[p]], landed[tableOf[p]])
    <3>1. rows'[p] = {r \in source[tableOf[p]] : r.ts > wm[p]}
      BY <1>3 DEF Query, JdbcInv, JdbcTypeOK
    <3>2. \A r \in source[tableOf[p]] : r.ts <= wm[p] => r \in landed[tableOf[p]]
      BY DEF JdbcInv, ReadGood, Good
    <3>3. /\ wm[p] \in Nat
          /\ \A r \in source[tableOf[p]] : r.ts \in Nat
      BY <2>1, JdbcBoundsAssumption DEF JdbcInv, JdbcTypeOK, Row, Time
    <3> QED
      BY <3>1, <3>2, <3>3 DEF Whole
  <2>3. RowsWhole'
    BY <1>3, <2>2, PartsKept DEF Query, Goto, JdbcInv, JdbcTypeOK, RowsWhole
  <2>4. RowsLanded'
    BY <1>3 DEF Query, Goto, JdbcInv, JdbcTypeOK, RowsLanded
  <2> QED
    BY <1>3, <1>0, <2>3, <2>4, PartsKept DEF JdbcInv, Query
<1>4. ASSUME NEW p \in Runs, LandRows(p) PROVE JdbcInv'
  <2>1. tableOf[p] \in Tables
    BY EntityOfRuns
  <2>2. RowsWhole'
    BY <1>4, PartsKept DEF LandRows, Goto, JdbcInv, JdbcTypeOK, RowsWhole
  <2>3. RowsLanded'
    <3> SUFFICES ASSUME NEW q \in Runs, phase'[q] \in Marking
                 PROVE  rows[q] \subseteq landed'[tableOf[q]]
      BY <1>4 DEF LandRows, RowsLanded
    <3>1. CASE q = p
      BY <1>4, <3>1, <2>1 DEF LandRows, Goto, JdbcInv, JdbcTypeOK
    <3>2. CASE q # p
      BY <1>4, <3>2, PartsKept DEF LandRows, Goto, JdbcInv, JdbcTypeOK, RowsLanded
    <3> QED
      BY <3>1, <3>2
  <2> QED
    BY <1>4, <1>0, <2>2, <2>3, PartsKept DEF JdbcInv, LandRows
<1>5. ASSUME NEW p \in Runs, Merge(p) PROVE JdbcInv'
  <2>1. /\ tableOf[p] \in Tables
        /\ Highest(rows[p]) \in 0 .. MaxTime
        /\ Good(Highest(rows[p]), source[tableOf[p]], landed[tableOf[p]])
    BY <1>5, StoreGood, EntityOfRuns DEF Merge
  <2>2. stored \in Watermarks /\ stored # Torn
    BY <1>5 DEF Merge, JdbcInv, JdbcTypeOK, StoreSteps
  <2>3. stored' \in Watermarks
    BY <1>5, <2>1, <2>2 DEF Merge, Watermarks
  <2>4. StoredGood'
    BY <1>5, <2>1, <2>2 DEF Merge, JdbcInv, StoredGood, Watermarks
  <2>5. RowsWhole' /\ RowsLanded'
    BY <1>5, RowsKept DEF Merge, Goto, JdbcInv, JdbcTypeOK
  <2> QED
    BY <1>5, <1>0, <2>4, <2>5, PartsKept DEF JdbcInv, Merge
<1>6. ASSUME NEW p \in Runs, ReadFile(p) PROVE JdbcInv'
  <2>1. stored \in Watermarks
    BY <1>6 DEF ReadFile, JdbcInv, JdbcTypeOK
  <2>2. CopyGood'
    BY <1>6, <2>1 DEF ReadFile, JdbcInv, JdbcTypeOK, CopyGood, StoredGood
  <2>3. RowsWhole' /\ RowsLanded'
    BY <1>6, RowsKept DEF ReadFile, Goto, JdbcInv, JdbcTypeOK
  <2> QED
    BY <1>6, <1>0, <2>2, <2>3, PartsKept DEF JdbcInv, ReadFile
<1>7. ASSUME NEW p \in Runs, Truncate(p) PROVE JdbcInv'
  <2>1. StoredGood'
    BY <1>7 DEF Truncate, StoredGood
  <2>2. RowsWhole' /\ RowsLanded'
    BY <1>7, RowsKept DEF Truncate, Goto, JdbcInv, JdbcTypeOK
  <2> QED
    BY <1>7, <1>0, <2>1, <2>2, PartsKept DEF JdbcInv, Truncate
<1>8. ASSUME NEW p \in Runs, WriteBack(p) PROVE JdbcInv'
  <2>1. /\ tableOf[p] \in Tables
        /\ Highest(rows[p]) \in 0 .. MaxTime
        /\ Good(Highest(rows[p]), source[tableOf[p]], landed[tableOf[p]])
    BY <1>8, StoreGood, EntityOfRuns DEF WriteBack
  <2>2. Written(p) \in Watermarks
    BY <2>1 DEF Written, JdbcInv, JdbcTypeOK, Watermarks
  <2>3. \A e \in Tables : Good(Written(p)[e], source[e], landed[e])
    BY <2>1 DEF Written, JdbcInv, JdbcTypeOK, Watermarks, CopyGood
  <2>4. StoredGood'
    BY <1>8, <2>3 DEF WriteBack, StoredGood
  <2>5. RowsWhole' /\ RowsLanded'
    BY <1>8, RowsKept DEF WriteBack, Goto, JdbcInv, JdbcTypeOK
  <2> QED
    BY <1>8, <1>0, <2>4, <2>5, PartsKept DEF JdbcInv, WriteBack
<1>9. ASSUME NEW p \in Runs, FailTorn(p) \/ Kill(p) PROVE JdbcInv'
  <2>1. RowsWhole' /\ RowsLanded'
    BY <1>9, RowsKept DEF FailTorn, Kill, Goto, JdbcInv, JdbcTypeOK
  <2> QED
    BY <1>9, <1>0, <2>1, PartsKept DEF JdbcInv, FailTorn, Kill
<1>10. CASE UNCHANGED jdbcVars
  <2>1. RowsWhole' /\ RowsLanded'
    BY <1>10, RowsKept DEF jdbcVars
  <2> QED
    BY <1>0, <1>10, <2>1, PartsKept DEF jdbcVars, JdbcInv
<1> QED
  BY <1>1, <1>2, <1>3, <1>4, <1>5, <1>6, <1>7, <1>8, <1>9, <1>10 DEF JdbcNext, Step

THEOREM JdbcInvHolds == InOrder => (JdbcSpec => []JdbcInv)
<1> SUFFICES ASSUME InOrder PROVE JdbcSpec => []JdbcInv
  OBVIOUS
<1>1. JdbcInv /\ [JdbcNext]_jdbcVars => JdbcInv'
  BY JdbcNextInv
<1> QED
  BY JdbcInitInv, <1>1, PTL DEF JdbcSpec

-----------------------------------------------------------------------------
(* Where rows commit in timestamp order, no row is ever left behind the    *)
(* watermark: overlapping runs, lost updates, torn files and crashes may   *)
(* land a row twice, never lose it.                                        *)
THEOREM NothingBehindWatermarkHolds == InOrder => (JdbcSpec => []NothingBehindWatermark)
<1>1. JdbcInv => NothingBehindWatermark
  BY DEF JdbcInv, StoredGood, Good, NothingBehindWatermark
<1> QED
  BY <1>1, JdbcInvHolds, PTL
================================================================================
