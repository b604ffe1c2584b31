---------------------------- MODULE SilverJobProofs ----------------------------
(***************************************************************************)
(* For any number of keys, rows and batches, and any configuration: a batch *)
(* freshness counts has put the newest row of each key it read into Silver  *)
(* or into the quarantine, a batch that ran alone leaves Silver current, and *)
(* the two data quality engines agree where the model says they do.         *)
(***************************************************************************)
EXTENDS SilverJob, TLAPS, WellFoundedInduction, SequenceTheorems, FiniteSetTheorems

-----------------------------------------------------------------------------
(* The newest row of a key, and the rows that are left by apply_dedup.     *)

LEMMA LargestOf ==
    ASSUME NEW n \in Nat, NEW T \in SUBSET (1 .. n), T # {}
    PROVE  \E i \in T : \A j \in T : j <= i
<1> DEFINE U == {n - i : i \in T}
<1>1. U \subseteq Nat /\ U # {}
  <2>1. \A i \in T : n - i \in Nat
    OBVIOUS
  <2> QED
    BY <2>1
<1>2. PICK m \in U : \A x \in U : <<x, m>> \notin OpToRel(<, Nat)
  BY <1>1, NatLessThanWellFounded, WFMin
<1>3. PICK i \in T : m = n - i
  BY <1>2
<1>4. ASSUME NEW j \in T PROVE j <= i
  <2>1. n - j \in U
    OBVIOUS
  <2>2. ~(n - j < n - i)
    BY <1>1, <1>2, <1>3, <2>1 DEF OpToRel
  <2> QED
    BY <2>2
<1> QED
  BY <1>4

LEMMA NewestIs ==
    ASSUME NEW k, NEW n \in Nat, RowsOf(k, n) # {}
    PROVE  /\ Newest(k, n) \in RowsOf(k, n)
           /\ \A j \in RowsOf(k, n) : j <= Newest(k, n)
<1>1. RowsOf(k, n) \in SUBSET (1 .. n)
  BY DEF RowsOf
<1>2. \E i \in RowsOf(k, n) : \A j \in RowsOf(k, n) : j <= i
  BY <1>1, LargestOf
<1> QED
  BY <1>2 DEF Newest

LEMMA DedupIsNewest ==
    ASSUME NEW n \in Nat
    PROVE  /\ \A k : RowsOf(k, n) # {} => Newest(k, n) \in Dedup(n)
           /\ \A i \in Dedup(n) : \A j \in Dedup(n) :
                bronze[i].key = bronze[j].key => i = j
           /\ Dedup(n) \subseteq 1 .. n
<1>1. ASSUME NEW k, RowsOf(k, n) # {} PROVE Newest(k, n) \in Dedup(n)
  BY <1>1, NewestIs DEF RowsOf, Dedup
<1>2. ASSUME NEW i \in Dedup(n), NEW j \in Dedup(n), bronze[i].key = bronze[j].key
      PROVE  i = j
  BY <1>2 DEF Dedup
<1> QED
  BY <1>1, <1>2 DEF Dedup

(* Where no condition is NULL, a row is either clean or quarantined.       *)
LEMMA CleanOrQuarantined ==
    ASSUME NEW rs, NEW type, NEW table, TwoValued(rs, type), NEW i \in DOMAIN table
    PROVE  (i \in CleanRows(rs, type, table)) # (i \in QuarantinedRows(rs, type, table))
<1>1. \A r \in ErrorRules(rs) : Condition(r, type, table, i) \in {"true", "false"}
  BY DEF TwoValued, Condition
<1> QED
  BY <1>1 DEF CleanRows, QuarantinedRows

-----------------------------------------------------------------------------
(* The inductive invariant.                                                *)
Clean(b) == CleanRows(rules, dtype, Typed(b))
Bad(b)   == QuarantinedRows(rules, dtype, Typed(b))

HasMerged      == {"merged", "dq", "audited", "succeeded"}
HasQuarantined == {"quarantined"} \cup HasMerged

(* What a batch wrote is what it read and judged, all of it once it is past *)
(* the write; a batch with a success row was past all of them.              *)
QuarantineIsOf ==
    \A b \in Batches : \A i \in 1 .. Len(bronze) : <<b, i>> \in quarantine =>
        i \in Bad(b) /\ pc[b] \notin {"none", "read"}
MergedIsOf ==
    \A b \in Batches : \A i \in 1 .. Len(bronze) : <<b, i>> \in merged =>
        i \in Clean(b) /\ pc[b] \notin {"none", "read", "quarantined"}
QuarantineAll ==
    \A b \in Batches :
        pc[b] \in HasQuarantined \/ b \in Successes \/ b = lastMerge =>
        \A i \in Bad(b) : <<b, i>> \in quarantine
MergedAll ==
    \A b \in Batches : pc[b] \in HasMerged \/ b \in Successes =>
        \A i \in Clean(b) : <<b, i>> \in merged
ResultsIn ==
    \A b \in Batches : pc[b] \in {"dq", "audited", "succeeded"} \/ b \in Successes =>
        b \in dqResults
SuccessRan ==
    \A b \in Batches : b \in Successes =>
        pc[b] \in {"audited", "succeeded", "failed", "killed"}

(* Silver shows the last MERGE, and a batch that runs alone has read all    *)
(* that was merged before it.                                               *)
LastShown ==
    lastMerge # 0 =>
      /\ pc[lastMerge] \notin {"none", "read", "quarantined"}
      /\ \A i \in Clean(lastMerge) : silver[bronze[i].key] = i
LoneActive ==
    \A b \in Active : lone[b] =>
        Active \subseteq {b} /\ \A m \in merged : m[2] <= read[b]
LoneLast ==
    lastMerge # 0 /\ lone[lastMerge] => \A m \in merged : m[2] <= read[lastMerge]

InvWrites == QuarantineIsOf /\ MergedIsOf /\ QuarantineAll /\ MergedAll
InvAudit  == ResultsIn /\ SuccessRan
InvMerge  == LastShown /\ LoneActive /\ LoneLast
Inv == TypeOK /\ InvWrites /\ InvAudit /\ InvMerge

(* The judgement of a batch depends on the rows it read alone.             *)
LEMMA SameView ==
    ASSUME NEW b \in Batches, read'[b] = read[b], config' = config,
           \A j \in 1 .. read[b] : bronze'[j] = bronze[j]
    PROVE  /\ Clean(b)' = Clean(b) /\ Bad(b)' = Bad(b)
           /\ Clean(b) \subseteq 1 .. read[b] /\ Bad(b) \subseteq 1 .. read[b]
<1>1. Dedup(read[b])' = Dedup(read[b]) /\ Dedup(read[b]) \subseteq 1 .. read[b]
  BY DEF Dedup
<1>2. RawTable(read[b])' = RawTable(read[b])
  BY <1>1 DEF RawTable
<1>3. Typed(b)' = Typed(b) /\ DOMAIN Typed(b) = Dedup(read[b])
  BY <1>2 DEF Typed, dtype, CastTable, RawTable
<1> QED
  BY <1>1, <1>3 DEF Clean, Bad, CleanRows, QuarantinedRows, rules, dtype

(* New rows in Bronze change nothing a batch has read.                     *)
LEMMA LandStep ==
    ASSUME Inv, NEW k \in Keys, NEW text \in Texts, Land(k, text) PROVE Inv'
<1>1. /\ bronze' = Append(bronze, [key |-> k, text |-> text])
      /\ Len(bronze) < MaxRows
      /\ UNCHANGED <<config, silver, quarantine, merged, lastMerge, dqResults,
                     audit, pc, read, lone>>
  BY DEF Land, stores
<1>2. /\ bronze' \in Seq([key : Keys, text : Texts])
      /\ Len(bronze') = Len(bronze) + 1 /\ Len(bronze) \in Nat
      /\ \A j \in 1 .. Len(bronze) : bronze'[j] = bronze[j]
  BY <1>1 DEF Inv, TypeOK
<1>3. \A b \in Batches : read[b] \in 0 .. Len(bronze)
  BY DEF Inv, TypeOK
<1>4. ASSUME NEW b \in Batches
      PROVE  /\ Clean(b)' = Clean(b) /\ Bad(b)' = Bad(b)
             /\ Clean(b) \subseteq 1 .. Len(bronze)
  BY <1>1, <1>2, <1>3, SameView
<1>5. TypeOK'
  <2>1. Len(bronze') <= MaxRows
    BY <1>1, <1>2, SilverBoundsAssumption
  <2>2. /\ silver' \in [Keys -> 0 .. Len(bronze')]
        /\ quarantine' \subseteq Batches \X (1 .. Len(bronze'))
        /\ merged' \subseteq Batches \X (1 .. Len(bronze'))
        /\ read' \in [Batches -> 0 .. Len(bronze')]
    BY <1>1, <1>2 DEF Inv, TypeOK
  <2> QED
    BY <1>1, <1>2, <2>1, <2>2 DEF Inv, TypeOK
<1>6. Successes' = Successes /\ Active' = Active
  BY <1>1 DEF Successes, Active
<1>7. QuarantineIsOf' /\ MergedIsOf'
  <2>1. quarantine \cup merged \subseteq Batches \X (1 .. Len(bronze))
    BY DEF Inv, TypeOK
  <2> QED
    BY <1>1, <1>4, <2>1 DEF Inv, InvWrites, QuarantineIsOf, MergedIsOf
<1>8. QuarantineAll' /\ MergedAll'
  BY <1>1, <1>4, <1>6 DEF Inv, InvWrites, QuarantineAll, MergedAll
<1>9. InvAudit'
  BY <1>1, <1>6 DEF Inv, InvAudit, ResultsIn, SuccessRan
<1>10. LastShown'
  <2> SUFFICES ASSUME NEW b \in Batches, lastMerge = b
               PROVE  /\ pc[b] \notin {"none", "read", "quarantined"}
                      /\ \A i \in Clean(b)' : silver[bronze'[i].key] = i
    BY <1>1 DEF Inv, TypeOK, LastShown
  <2>1. b # 0
    BY DEF Batches
  <2> QED
    BY <1>2, <1>4, <2>1 DEF Inv, InvMerge, LastShown
<1>11. LoneActive' /\ LoneLast'
  BY <1>1, <1>6 DEF Inv, InvMerge, LoneActive, LoneLast
<1> QED
  BY <1>5, <1>7, <1>8, <1>9, <1>10, <1>11 DEF Inv, InvWrites, InvMerge

(* A batch reads what is in Bronze, and is alone if none is active.         *)
LEMMA StartStep ==
    ASSUME Inv, NEW b \in Batches, Start(b) PROVE Inv'
<1>1. /\ pc[b] = "none"
      /\ pc' = [pc EXCEPT ![b] = "read"]
      /\ read' = [read EXCEPT ![b] = Len(bronze)]
      /\ lone' = [c \in Batches |-> lone[c] /\ c \notin Active
                                            /\ (c = b => Active = {})]
      /\ UNCHANGED <<config, bronze, silver, quarantine, merged, lastMerge,
                     dqResults, audit>>
  BY DEF Start, Goto, stores
<1>2. /\ pc' \in [Batches -> Phases] /\ pc'[b] = "read"
      /\ \A c \in Batches : c # b => pc'[c] = pc[c]
  BY <1>1 DEF Inv, TypeOK, Phases
<1>3. /\ read' \in [Batches -> 0 .. Len(bronze)] /\ read'[b] = Len(bronze)
      /\ \A c \in Batches : c # b => read'[c] = read[c]
  BY <1>1 DEF Inv, TypeOK
<1>4. /\ lone' \in [Batches -> BOOLEAN]
      /\ \A c \in Batches : lone'[c] => /\ lone[c] /\ c \notin Active
                                        /\ c = b => Active = {}
  BY <1>1
<1>5. ASSUME NEW c \in Batches, c # b
      PROVE  Clean(c)' = Clean(c) /\ Bad(c)' = Bad(c)
  BY <1>1, <1>3, <1>5, SameView
<1>6. /\ Successes' = Successes /\ b \notin Successes
      /\ Active' \subseteq Active \cup {b}
  BY <1>1, <1>2 DEF Successes, Active, Inv, InvAudit, SuccessRan
<1>7. TypeOK'
  BY <1>1, <1>2, <1>3, <1>4 DEF Inv, TypeOK
<1>8. QuarantineIsOf'
  BY <1>1, <1>2, <1>5 DEF Inv, InvWrites, QuarantineIsOf
<1>9. MergedIsOf'
  BY <1>1, <1>2, <1>5 DEF Inv, InvWrites, MergedIsOf
<1>10. QuarantineAll' /\ MergedAll'
  <2>1. b # lastMerge
    BY <1>1 DEF Batches, Inv, InvMerge, LastShown
  <2> QED
    BY <1>1, <1>2, <1>5, <1>6, <2>1
      DEF Inv, InvWrites, QuarantineAll, MergedAll, HasQuarantined, HasMerged
<1>11. InvAudit'
  BY <1>1, <1>2, <1>6 DEF Inv, InvAudit, ResultsIn, SuccessRan
<1>12. LastShown'
  <2> SUFFICES ASSUME NEW c \in Batches, lastMerge = c
               PROVE  /\ pc'[c] \notin {"none", "read", "quarantined"}
                      /\ \A i \in Clean(c)' : silver[bronze[i].key] = i
    BY <1>1 DEF Inv, TypeOK, LastShown
  <2>1. c # 0
    BY DEF Batches
  <2>2. c # b
    BY <1>1, <2>1 DEF Inv, InvMerge, LastShown
  <2> QED
    BY <1>2, <1>5, <2>1, <2>2 DEF Inv, InvMerge, LastShown
<1>13. LoneActive'
  <2> SUFFICES ASSUME NEW c \in Active', lone'[c]
               PROVE  Active' \subseteq {c} /\ \A m \in merged : m[2] <= read'[c]
    BY <1>1 DEF LoneActive
  <2>1. c \in Batches
    BY DEF Active
  <2>2. c = b /\ Active = {}
    BY <1>4, <1>6, <2>1
  <2>3. merged \subseteq Batches \X (1 .. Len(bronze)) /\ Len(bronze) \in Nat
    BY DEF Inv, TypeOK
  <2> QED
    BY <1>3, <1>6, <2>2, <2>3
<1>14. LoneLast'
  <2> SUFFICES ASSUME lastMerge # 0, lone'[lastMerge], NEW m \in merged
               PROVE  m[2] <= read'[lastMerge]
    BY <1>1 DEF LoneLast
  <2>1. lastMerge \in Batches /\ lastMerge # b
    BY <1>1 DEF Inv, TypeOK, InvMerge, LastShown
  <2> QED
    BY <1>3, <1>4, <2>1 DEF Inv, InvMerge, LoneLast
<1> QED
  BY <1>7, <1>8, <1>9, <1>10, <1>11, <1>12, <1>13, <1>14
    DEF Inv, InvWrites, InvMerge

LEMMA QuarantineStep ==
    ASSUME Inv, NEW b \in Batches, Quarantine(b) PROVE Inv'
<1>1. /\ pc[b] = "read"
      /\ pc' = [pc EXCEPT ![b] = "quarantined"]
      /\ quarantine' = quarantine \cup ({b} \X Bad(b))
      /\ UNCHANGED <<config, bronze, silver, merged, lastMerge, dqResults,
                     audit, read, lone>>
  BY DEF Quarantine, Goto, Bad
<1>2. /\ pc' \in [Batches -> Phases] /\ pc'[b] = "quarantined"
      /\ \A c \in Batches : c # b => pc'[c] = pc[c]
  BY <1>1 DEF Inv, TypeOK, Phases
<1>3. ASSUME NEW c \in Batches
      PROVE  /\ Clean(c)' = Clean(c) /\ Bad(c)' = Bad(c)
             /\ Bad(c) \subseteq 1 .. Len(bronze)
  <2>1. read[c] \in 0 .. Len(bronze) /\ Len(bronze) \in Nat
    BY DEF Inv, TypeOK
  <2> QED
    BY <1>1, <2>1, SameView
<1>4. Successes' = Successes /\ b \notin Successes /\ Active' = Active
  BY <1>1, <1>2 DEF Successes, Active, Inv, InvAudit, SuccessRan
<1>5. TypeOK'
  BY <1>1, <1>2, <1>3 DEF Inv, TypeOK
<1>6. QuarantineIsOf'
  BY <1>1, <1>2, <1>3 DEF Inv, InvWrites, QuarantineIsOf
<1>7. MergedIsOf'
  <2> SUFFICES ASSUME NEW c \in Batches, NEW i \in 1 .. Len(bronze), <<c, i>> \in merged
               PROVE  i \in Clean(c)' /\ pc'[c] \notin {"none", "read", "quarantined"}
    BY <1>1 DEF MergedIsOf
  <2> QED
    BY <1>1, <1>2, <1>3 DEF Inv, InvWrites, MergedIsOf
<1>8. QuarantineAll'
  <2> SUFFICES ASSUME NEW c \in Batches,
                      pc'[c] \in HasQuarantined \/ c \in Successes
                        \/ c = lastMerge',
                      NEW i \in Bad(c)'
               PROVE  <<c, i>> \in quarantine'
    BY <1>4 DEF QuarantineAll
  <2>1. CASE c = b
    BY <1>1, <1>3, <2>1
  <2>2. CASE c # b
    BY <1>1, <1>2, <1>3, <2>2 DEF Inv, InvWrites, QuarantineAll
  <2> QED
    BY <2>1, <2>2
<1>9. MergedAll'
  <2> SUFFICES ASSUME NEW c \in Batches, pc'[c] \in HasMerged \/ c \in Successes,
                      NEW i \in Clean(c)'
               PROVE  <<c, i>> \in merged
    BY <1>1, <1>4 DEF MergedAll
  <2> QED
    BY <1>1, <1>2, <1>3, <1>4 DEF Inv, InvWrites, MergedAll, HasMerged
<1>10. InvAudit'
  BY <1>1, <1>2, <1>4 DEF Inv, InvAudit, ResultsIn, SuccessRan
<1>11. LastShown'
  <2> SUFFICES ASSUME NEW c \in Batches, lastMerge = c
               PROVE  /\ pc'[c] \notin {"none", "read", "quarantined"}
                      /\ \A i \in Clean(c)' : silver[bronze[i].key] = i
    BY <1>1 DEF Inv, TypeOK, LastShown
  <2>1. c # 0
    BY DEF Batches
  <2> QED
    BY <1>1, <1>2, <1>3, <2>1 DEF Inv, InvMerge, LastShown
<1>12. LoneActive' /\ LoneLast'
  BY <1>1, <1>4 DEF Inv, InvMerge, LoneActive, LoneLast
<1> QED
  BY <1>5, <1>6, <1>7, <1>8, <1>9, <1>10, <1>11, <1>12
    DEF Inv, InvWrites, InvMerge

(* One row of each key is clean at most: MERGE finds one row for a match.   *)
LEMMA UpsertShows ==
    ASSUME Inv, NEW b \in Batches
    PROVE  /\ \A i \in Clean(b) : Upsert(Clean(b))[bronze[i].key] = i
           /\ Upsert(Clean(b)) \in [Keys -> 0 .. Len(bronze)]
<1>1. read[b] \in 0 .. Len(bronze) /\ Len(bronze) \in Nat
  BY DEF Inv, TypeOK
<1>2. /\ Clean(b) \subseteq Dedup(read[b]) /\ Clean(b) \subseteq 1 .. Len(bronze)
      /\ \A i \in Clean(b) : \A j \in Clean(b) :
           bronze[i].key = bronze[j].key => i = j
  <2>1. Clean(b) \subseteq Dedup(read[b])
    BY DEF Clean, CleanRows, Typed, CastTable, RawTable
  <2> QED
    BY <1>1, <2>1, DedupIsNewest
<1>3. ASSUME NEW i \in Clean(b) PROVE Upsert(Clean(b))[bronze[i].key] = i
  <2>1. bronze[i].key \in Keys
    <3>1. bronze \in Seq([key : Keys, text : Texts]) /\ i \in 1 .. Len(bronze)
      BY <1>2 DEF Inv, TypeOK
    <3>2. bronze[i] \in [key : Keys, text : Texts]
      BY <3>1, ElementOfSeq
    <3> QED
      BY <3>2
  <2>2. (CHOOSE j \in Clean(b) : bronze[j].key = bronze[i].key) = i
    BY <1>2
  <2> QED
    BY <2>1, <2>2 DEF Upsert
<1>4. ASSUME NEW k \in Keys PROVE Upsert(Clean(b))[k] \in 0 .. Len(bronze)
  <2>1. CASE \E i \in Clean(b) : bronze[i].key = k
    BY <1>1, <1>2, <1>3, <2>1
  <2>2. CASE ~ \E i \in Clean(b) : bronze[i].key = k
    BY <2>2 DEF Upsert, Inv, TypeOK
  <2> QED
    BY <2>1, <2>2
<1>5. Upsert(Clean(b)) = [k \in Keys |-> Upsert(Clean(b))[k]]
  BY DEF Upsert
<1> QED
  BY <1>3, <1>4, <1>5

LEMMA MergeStep ==
    ASSUME Inv, NEW b \in Batches, Merge(b) PROVE Inv'
<1>1. /\ pc[b] = "quarantined" /\ pc' = [pc EXCEPT ![b] = "merged"]
      /\ silver' = Upsert(Clean(b))
      /\ merged' = merged \cup ({b} \X Clean(b))
      /\ lastMerge' = b
      /\ UNCHANGED <<config, bronze, quarantine, dqResults, audit, read, lone>>
  BY DEF Merge, Goto, Clean
<1>2. /\ pc' \in [Batches -> Phases] /\ pc'[b] = "merged"
      /\ \A c \in Batches : c # b => pc'[c] = pc[c]
  BY <1>1 DEF Inv, TypeOK, Phases
<1>3. ASSUME NEW c \in Batches
      PROVE  /\ Clean(c)' = Clean(c) /\ Bad(c)' = Bad(c)
             /\ Clean(c) \subseteq 1 .. Len(bronze) /\ Clean(c) \subseteq 1 .. read[c]
  <2>1. read[c] \in 0 .. Len(bronze) /\ Len(bronze) \in Nat
    BY DEF Inv, TypeOK
  <2> QED
    BY <1>1, <2>1, SameView
<1>4. Successes' = Successes /\ b \notin Successes /\ Active' = Active /\ b \in Active
  BY <1>1, <1>2 DEF Successes, Active, Inv, InvAudit, SuccessRan
<1>5. TypeOK'
  <2>1. silver' \in [Keys -> 0 .. Len(bronze)]
    BY <1>1, UpsertShows
  <2>2. merged' \subseteq Batches \X (1 .. Len(bronze))
    BY <1>1, <1>3 DEF Inv, TypeOK
  <2> QED
    BY <1>1, <1>2, <2>1, <2>2 DEF Inv, TypeOK
<1>6. QuarantineIsOf'
  BY <1>1, <1>2, <1>3 DEF Inv, InvWrites, QuarantineIsOf
<1>7. MergedIsOf'
  <2> SUFFICES ASSUME NEW c \in Batches, NEW i \in 1 .. Len(bronze), <<c, i>> \in merged'
               PROVE  i \in Clean(c)' /\ pc'[c] \notin {"none", "read", "quarantined"}
    BY <1>1 DEF MergedIsOf
  <2>1. CASE <<c, i>> \in merged
    BY <1>1, <1>2, <1>3, <2>1 DEF Inv, InvWrites, MergedIsOf
  <2>2. CASE <<c, i>> \in {b} \X Clean(b)
    BY <1>2, <1>3, <2>2
  <2> QED
    BY <1>1, <2>1, <2>2
<1>8. QuarantineAll'
  <2> SUFFICES ASSUME NEW c \in Batches,
                      pc'[c] \in HasQuarantined \/ c \in Successes
                        \/ c = lastMerge',
                      NEW i \in Bad(c)'
               PROVE  <<c, i>> \in quarantine
    BY <1>1, <1>4 DEF QuarantineAll
  <2> QED
    BY <1>1, <1>2, <1>3 DEF Inv, InvWrites, QuarantineAll, HasQuarantined
<1>9. MergedAll'
  <2> SUFFICES ASSUME NEW c \in Batches, pc'[c] \in HasMerged \/ c \in Successes,
                      NEW i \in Clean(c)'
               PROVE  <<c, i>> \in merged'
    BY <1>4 DEF MergedAll
  <2>1. CASE c = b
    BY <1>1, <1>3, <2>1
  <2>2. CASE c # b
    BY <1>1, <1>2, <1>3, <2>2 DEF Inv, InvWrites, MergedAll
  <2> QED
    BY <2>1, <2>2
<1>10. InvAudit'
  BY <1>1, <1>2, <1>4 DEF Inv, InvAudit, ResultsIn, SuccessRan
<1>11. LastShown'
  <2>1. \A i \in Clean(b) : silver'[bronze'[i].key] = i
    BY <1>1, UpsertShows
  <2>2. \A i \in Clean(b)' : silver'[bronze'[i].key] = i
    BY <1>3, <2>1
  <2> QED
    BY <1>1, <1>2, <2>2 DEF LastShown
<1>12. lone[b] => \A m \in merged' : m[2] <= read[b]
  <2> SUFFICES ASSUME lone[b], NEW m \in merged' PROVE m[2] <= read[b]
    OBVIOUS
  <2>1. CASE m \in merged
    BY <1>4, <2>1 DEF Inv, InvMerge, LoneActive
  <2>2. CASE m \in {b} \X Clean(b)
    <3>1. read[b] \in Nat
      BY DEF Inv, TypeOK
    <3> QED
      BY <1>3, <2>2, <3>1
  <2> QED
    BY <1>1, <2>1, <2>2
<1>13. LoneActive'
  <2> SUFFICES ASSUME NEW c \in Active, lone[c]
               PROVE  Active \subseteq {c} /\ \A m \in merged' : m[2] <= read[c]
    BY <1>1, <1>4 DEF LoneActive
  <2>1. Active \subseteq {c} /\ c = b
    BY <1>4 DEF Inv, InvMerge, LoneActive
  <2> QED
    BY <1>12, <2>1
<1>14. LoneLast'
  BY <1>1, <1>12 DEF LoneLast
<1> QED
  BY <1>5, <1>6, <1>7, <1>8, <1>9, <1>10, <1>11, <1>13, <1>14
    DEF Inv, InvWrites, InvMerge

(* The steps after the MERGE, and the ends.                                *)
LEMMA LaterStep ==
    ASSUME Inv, NEW b \in Active, NEW v \in Phases, pc' = [pc EXCEPT ![b] = v],
           v \notin {"none", "read", "quarantined", "merged"},
           v \in HasMerged => pc[b] \in HasMerged,
           v \in {"dq", "audited", "succeeded"} => b \in dqResults',
           dqResults \subseteq dqResults', dqResults' \subseteq Batches,
           audit' \subseteq [batch : Batches, status : {"success", "failed"}],
           Successes \subseteq Successes', Successes' \subseteq Successes \cup {b},
           b \in Successes' => /\ b \in Successes \/ pc[b] = "dq"
                               /\ v \in {"audited", "succeeded", "failed", "killed"},
           UNCHANGED <<config, bronze, silver, quarantine, merged, lastMerge,
                       read, lone>>
    PROVE  Inv'
<1>0. b \in Batches
  BY DEF Active
<1>1. /\ pc' \in [Batches -> Phases] /\ pc'[b] = v
      /\ \A c \in Batches : c # b => pc'[c] = pc[c]
  BY <1>0 DEF Inv, TypeOK
<1>2. ASSUME NEW c \in Batches
      PROVE  Clean(c)' = Clean(c) /\ Bad(c)' = Bad(c)
  BY SameView
<1>3. Active' \subseteq Active
  BY <1>0, <1>1 DEF Active
<1>4. TypeOK'
  BY <1>1 DEF Inv, TypeOK
<1>5. QuarantineIsOf'
  BY <1>1, <1>2 DEF Inv, InvWrites, QuarantineIsOf
<1>6. MergedIsOf'
  BY <1>1, <1>2 DEF Inv, InvWrites, MergedIsOf
<1>7. QuarantineAll'
  <2> SUFFICES ASSUME NEW c \in Batches,
                      pc'[c] \in HasQuarantined \/ c \in Successes'
                        \/ c = lastMerge',
                      NEW i \in Bad(c)'
               PROVE  <<c, i>> \in quarantine
    BY DEF QuarantineAll
  <2>1. pc[c] \in HasQuarantined \/ c \in Successes \/ c = lastMerge
    BY <1>1 DEF HasQuarantined, HasMerged
  <2> QED
    BY <1>2, <2>1 DEF Inv, InvWrites, QuarantineAll
<1>8. MergedAll'
  <2> SUFFICES ASSUME NEW c \in Batches, pc'[c] \in HasMerged \/ c \in Successes',
                      NEW i \in Clean(c)'
               PROVE  <<c, i>> \in merged
    BY DEF MergedAll
  <2>1. pc[c] \in HasMerged \/ c \in Successes
    BY <1>1 DEF HasMerged
  <2> QED
    BY <1>2, <2>1 DEF Inv, InvWrites, MergedAll
<1>9. InvAudit'
  BY <1>1 DEF Inv, InvAudit, ResultsIn, SuccessRan
<1>10. LastShown'
  <2> SUFFICES ASSUME NEW c \in Batches, lastMerge = c
               PROVE  /\ pc'[c] \notin {"none", "read", "quarantined"}
                      /\ \A i \in Clean(c)' : silver[bronze[i].key] = i
    BY DEF Inv, TypeOK, LastShown
  <2>1. c # 0
    BY DEF Batches
  <2> QED
    BY <1>1, <1>2, <2>1 DEF Inv, InvMerge, LastShown
<1>11. LoneActive' /\ LoneLast'
  BY <1>3 DEF Inv, InvMerge, LoneActive, LoneLast
<1> QED
  BY <1>4, <1>5, <1>6, <1>7, <1>8, <1>9, <1>10, <1>11
    DEF Inv, InvWrites, InvMerge

(* What the rows of the audit say after one more.                          *)
LEMMA AuditIs ==
    ASSUME NEW b \in Batches, NEW status \in {"success", "failed"},
           audit' = audit \cup {AuditRow(b, status)}
    PROVE  Successes' = IF status = "success" THEN Successes \cup {b} ELSE Successes
<1> DEFINE row == AuditRow(b, status)
           Green(rows) == {r \in rows : r.status = "success"}
<1>1. row.batch = b /\ row.status = status
  BY DEF AuditRow
<1>2. Successes = {a.batch : a \in Green(audit)}
        /\ Successes' = {a.batch : a \in Green(audit \cup {row})}
  BY DEF Successes
<1> HIDE DEF row
<1>3. Green(audit \cup {row}) =
        IF status = "success" THEN Green(audit) \cup {row} ELSE Green(audit)
  BY <1>1
<1> HIDE DEF Green
<1>4. CASE status = "success"
  BY <1>1, <1>2, <1>3, <1>4
<1>5. CASE status # "success"
  BY <1>2, <1>3, <1>5
<1> QED
  BY <1>4, <1>5

LEMMA EndSteps ==
    ASSUME Inv, NEW b \in Batches,
           WriteDq(b) \/ WriteSuccess(b) \/ Enforce(b) \/ Raise(b) \/ Kill(b)
    PROVE  Inv'
<1>1. /\ UNCHANGED <<config, bronze, silver, quarantine, merged, lastMerge,
                     read, lone>>
      /\ audit \subseteq [batch : Batches, status : {"success", "failed"}]
      /\ dqResults \subseteq Batches
  BY DEF WriteDq, WriteSuccess, Enforce, Raise, Kill, stores, Inv, TypeOK
<1>2. b \in Active
  BY DEF WriteDq, WriteSuccess, Enforce, Raise, Kill, Active
<1>3. {"dq", "audited", "succeeded", "failed", "killed"} \subseteq Phases
  BY DEF Phases
<1>4. CASE WriteDq(b)
  <2>1. /\ pc[b] = "merged" /\ pc' = [pc EXCEPT ![b] = "dq"]
        /\ dqResults' = dqResults \cup {b} /\ audit' = audit
        /\ Successes' = Successes /\ b \notin Successes
    BY <1>4 DEF WriteDq, Goto, Successes, Inv, InvAudit, SuccessRan
  <2> QED
    BY <1>1, <1>2, <1>3, <2>1, LaterStep DEF HasMerged
<1>5. CASE WriteSuccess(b)
  <2>1. /\ pc[b] = "dq" /\ pc' = [pc EXCEPT ![b] = "audited"]
        /\ dqResults' = dqResults /\ b \in dqResults
        /\ audit' = audit \cup {AuditRow(b, "success")}
    BY <1>5 DEF WriteSuccess, Goto, Inv, InvAudit, ResultsIn
  <2>2. Successes' = Successes \cup {b}
    BY <2>1, AuditIs
  <2>3. audit' \subseteq [batch : Batches, status : {"success", "failed"}]
    BY <1>1, <2>1 DEF AuditRow
  <2> QED
    BY <1>1, <1>2, <1>3, <2>1, <2>2, <2>3, LaterStep DEF HasMerged
<1>6. ASSUME NEW v \in {"succeeded", "failed", "killed"},
             pc' = [pc EXCEPT ![b] = v], dqResults' = dqResults,
             v = "succeeded" => pc[b] = "audited",
             audit' = audit \/ audit' = audit \cup {AuditRow(b, "failed")}
      PROVE  Inv'
  <2>1. Successes' = Successes
    BY <1>6, AuditIs DEF Successes
  <2>2. audit' \subseteq [batch : Batches, status : {"success", "failed"}]
    BY <1>1, <1>6 DEF AuditRow
  <2>3. v = "succeeded" => b \in dqResults
    BY <1>6 DEF Inv, InvAudit, ResultsIn
  <2> QED
    BY <1>1, <1>2, <1>3, <1>6, <2>1, <2>2, <2>3, LaterStep DEF HasMerged
<1>7. CASE Enforce(b)
  BY <1>6, <1>7 DEF Enforce, Goto
<1>8. CASE Raise(b)
  BY <1>6, <1>8 DEF Raise, Goto
<1>9. CASE Kill(b)
  BY <1>6, <1>9 DEF Kill, Goto
<1> QED
  BY <1>4, <1>5, <1>7, <1>8, <1>9

-----------------------------------------------------------------------------
(* The invariant, and what follows from it.                                *)

LEMMA InvInit == Init => Inv
<1> SUFFICES ASSUME Init PROVE Inv
  OBVIOUS
<1>1. TypeOK
  BY SilverBoundsAssumption DEF Init, TypeOK, Phases, Batches
<1>2. Successes = {} /\ Active = {}
  BY DEF Init, Successes, Active
<1>3. InvWrites
  BY <1>2 DEF Init, InvWrites, QuarantineIsOf, MergedIsOf, QuarantineAll, MergedAll,
              HasQuarantined, HasMerged
<1>4. InvAudit
  BY <1>2 DEF Init, InvAudit, ResultsIn, SuccessRan
<1>5. InvMerge
  BY <1>2 DEF Init, InvMerge, LastShown, LoneActive, LoneLast
<1> QED
  BY <1>1, <1>3, <1>4, <1>5 DEF Inv

LEMMA InvNext == Inv /\ [Next]_vars => Inv'
<1> SUFFICES ASSUME Inv, [Next]_vars PROVE Inv'
  OBVIOUS
<1>1. ASSUME NEW k \in Keys, NEW text \in Texts, Land(k, text) PROVE Inv'
  BY <1>1, LandStep
<1>2. ASSUME NEW b \in Batches, Start(b) PROVE Inv'
  BY <1>2, StartStep
<1>3. ASSUME NEW b \in Batches, Quarantine(b) PROVE Inv'
  BY <1>3, QuarantineStep
<1>4. ASSUME NEW b \in Batches, Merge(b) PROVE Inv'
  BY <1>4, MergeStep
<1>5. ASSUME NEW b \in Batches,
             WriteDq(b) \/ WriteSuccess(b) \/ Enforce(b) \/ Raise(b) \/ Kill(b)
      PROVE  Inv'
  BY <1>5, EndSteps
<1>6. CASE UNCHANGED vars
  <2>1. UNCHANGED <<config, bronze, silver, quarantine, merged, lastMerge,
                    dqResults, audit, pc, read, lone>>
    BY <1>6 DEF vars, stores
  <2>2. \A b \in Batches : Clean(b)' = Clean(b) /\ Bad(b)' = Bad(b)
    BY <2>1, SameView
  <2>3. Successes' = Successes /\ Active' = Active
    BY <2>1 DEF Successes, Active
  <2>4. TypeOK'
    BY <2>1 DEF Inv, TypeOK
  <2>5. InvWrites'
    BY <2>1, <2>2, <2>3 DEF Inv, InvWrites, QuarantineIsOf, MergedIsOf,
                            QuarantineAll, MergedAll
  <2>6. InvAudit'
    BY <2>1, <2>3 DEF Inv, InvAudit, ResultsIn, SuccessRan
  <2>7. LastShown'
    <3> SUFFICES ASSUME NEW c \in Batches, lastMerge = c
                 PROVE  /\ pc[c] \notin {"none", "read", "quarantined"}
                        /\ \A i \in Clean(c)' : silver[bronze[i].key] = i
      BY <2>1 DEF Inv, TypeOK, LastShown
    <3>1. c # 0
      BY DEF Batches
    <3> QED
      BY <2>2, <3>1 DEF Inv, InvMerge, LastShown
  <2>8. LoneActive' /\ LoneLast'
    BY <2>1, <2>3 DEF Inv, InvMerge, LoneActive, LoneLast
  <2> QED
    BY <2>4, <2>5, <2>6, <2>7, <2>8 DEF Inv, InvMerge
<1> QED
  BY <1>1, <1>2, <1>3, <1>4, <1>5, <1>6 DEF Next

THEOREM InvHolds == Spec => []Inv
  BY InvInit, InvNext, PTL DEF Spec

(* Type correctness.                                                       *)
THEOREM TypeCorrect == Spec => []TypeOK
<1>1. Inv => TypeOK
  BY DEF Inv
<1> QED
  BY <1>1, InvHolds, PTL

(* The newest row of a key a batch read, as that batch saw it.             *)
LEMMA NewestIsJudged ==
    ASSUME Inv, NEW b \in Batches, NEW k \in Keys, RowsOf(k, read[b]) # {},
           TwoValued(rules, dtype)
    PROVE  LET row == Newest(k, read[b])
           IN  /\ (row \in Clean(b)) # (row \in Bad(b))
               /\ row \in 1 .. Len(bronze) /\ bronze[row].key = k
               /\ \A j \in RowsOf(k, read[b]) : j <= row
<1> DEFINE row == Newest(k, read[b])
<1>1. read[b] \in 0 .. Len(bronze) /\ Len(bronze) \in Nat /\ read[b] \in Nat
  BY DEF Inv, TypeOK
<1>2. row \in RowsOf(k, read[b]) /\ \A j \in RowsOf(k, read[b]) : j <= row
  BY <1>1, NewestIs
<1>3. row \in Dedup(read[b])
  BY <1>1, DedupIsNewest
<1>4. DOMAIN Typed(b) = Dedup(read[b])
  BY DEF Typed, CastTable, RawTable
<1>5. (row \in Clean(b)) # (row \in Bad(b))
  BY <1>3, <1>4, CleanOrQuarantined DEF Clean, Bad
<1>6. row \in 1 .. Len(bronze) /\ bronze[row].key = k
  BY <1>1, <1>2 DEF RowsOf
<1> QED
  BY <1>2, <1>5, <1>6

(* A success row in the audit stands for a batch that dropped nothing, for *)
(* any rules whose conditions are never NULL.                              *)
THEOREM NothingDroppedHolds == Spec => []NothingDropped
<1>1. Inv => NothingDropped
  <2> SUFFICES ASSUME Inv, TwoValued(rules, dtype), NEW b \in Successes
               PROVE  /\ b \in dqResults
                      /\ \A k \in Keys : RowsOf(k, read[b]) # {} =>
                           (<<b, Newest(k, read[b])>> \in merged)
                             # (<<b, Newest(k, read[b])>> \in quarantine)
    BY DEF NothingDropped
  <2>1. b \in Batches
    BY DEF Successes, Inv, TypeOK
  <2>2. b \in dqResults
    BY <2>1 DEF Inv, InvAudit, ResultsIn
  <2>3. ASSUME NEW k \in Keys, RowsOf(k, read[b]) # {}
        PROVE  (<<b, Newest(k, read[b])>> \in merged)
                 # (<<b, Newest(k, read[b])>> \in quarantine)
    <3> DEFINE row == Newest(k, read[b])
    <3>1. (row \in Clean(b)) # (row \in Bad(b)) /\ row \in 1 .. Len(bronze)
      BY <2>1, <2>3, NewestIsJudged
    <3>2. row \in Clean(b) <=> <<b, row>> \in merged
      BY <2>1, <3>1 DEF Inv, InvWrites, MergedIsOf, MergedAll
    <3>3. row \in Bad(b) <=> <<b, row>> \in quarantine
      BY <2>1, <3>1 DEF Inv, InvWrites, QuarantineIsOf, QuarantineAll
    <3> QED
      BY <3>1, <3>2, <3>3
  <2> QED
    BY <2>2, <2>3
<1> QED
  BY <1>1, InvHolds, PTL

(* Batches that run one at a time never put an older row back, whatever    *)
(* failed or overlapped before them.                                       *)
THEOREM LoneMergeIsCurrentHolds == Spec => []LoneMergeIsCurrent
<1>1. Inv => LoneMergeIsCurrent
  <2> SUFFICES ASSUME Inv, NEW b \in Batches, lastMerge = b, lone[b],
                      TwoValued(rules, dtype),
                      NEW k \in Keys, RowsOf(k, read[b]) # {}
               PROVE  \/ <<b, Newest(k, read[b])>> \in quarantine
                      \/ /\ silver[k] = Newest(k, read[b])
                         /\ \A m \in merged : bronze[m[2]].key = k =>
                              m[2] <= Newest(k, read[b])
    BY DEF LoneMergeIsCurrent, Inv, TypeOK
  <2> DEFINE row == Newest(k, read[b])
  <2>1. /\ (row \in Clean(b)) # (row \in Bad(b))
        /\ row \in 1 .. Len(bronze) /\ bronze[row].key = k
        /\ \A j \in RowsOf(k, read[b]) : j <= row
    BY NewestIsJudged
  <2>2. lastMerge # 0
    BY DEF Batches
  <2>3. CASE row \in Bad(b)
    BY <2>3 DEF Inv, InvWrites, QuarantineAll
  <2>4. CASE row \in Clean(b)
    <3>1. silver[k] = row
      BY <2>1, <2>2, <2>4 DEF Inv, InvMerge, LastShown
    <3>2. ASSUME NEW m \in merged, bronze[m[2]].key = k PROVE m[2] <= row
      <4>1. m[2] <= read[b] /\ m[2] \in 1 .. Len(bronze)
        BY <2>2 DEF Inv, InvMerge, LoneLast, TypeOK
      <4>2. m[2] \in RowsOf(k, read[b])
        BY <3>2, <4>1 DEF RowsOf, Inv, TypeOK
      <4> QED
        BY <2>1, <4>2
    <3> QED
      BY <3>1, <3>2
  <2> QED
    BY <2>1, <2>3, <2>4
<1> QED
  BY <1>1, InvHolds, PTL
-----------------------------------------------------------------------------
(* The two engines, for any rules and any table of finitely many rows.     *)

(* A portable rule fails a row in one engine iff it does in the other, if  *)
(* the cast leaves the row as it is.                                       *)
LEMMA FailsAlike ==
    ASSUME NEW r \in Rule, NEW type, Portable(r, type),
           NEW table, NEW i \in DOMAIN table, table[i] \in Texts,
           Cast(table[i], type) = table[i]
    PROVE  /\ r.type # "unique"
           /\ Condition(r, type, table, i) =
                IF table[i] \in Accepted[r.type] THEN "true" ELSE "false"
<1>1. CASE r.type = "in_range"
  BY <1>1 DEF Condition, Holds, Matched, Accepted
<1>2. CASE r.type = "allowed_values"
  BY <1>2 DEF Condition, Holds, Matched, Accepted
<1>3. CASE r.type = "not_null" /\ type = "string"
  <2>1. table[i] # "empty"
    BY DEF Cast
  <2> QED
    BY <1>3, <2>1 DEF Condition, Holds, Matched, Accepted
<1> QED
  BY <1>1, <1>2, <1>3 DEF Portable

(* So it fails the same rows.                                              *)
LEMMA FailingRowsAlike ==
    ASSUME NEW r \in Rule, NEW type, Portable(r, type),
           NEW table, \A i \in DOMAIN table : table[i] \in Texts,
           SurvivesCast(table, type)
    PROVE  FailingRows(r, table) =
             {i \in DOMAIN table : Condition(r, type, table, i) = "false"}
<1>1. \A i \in DOMAIN table :
         /\ r.type # "unique"
         /\ Condition(r, type, table, i) =
              IF table[i] \in Accepted[r.type] THEN "true" ELSE "false"
  BY FailsAlike DEF SurvivesCast
<1>2. CASE r.type = "unique"
  BY <1>1, <1>2 DEF FailingRows
<1>3. CASE r.type # "unique"
  BY <1>1, <1>3 DEF FailingRows
<1> QED
  BY <1>2, <1>3

(* RuleResult remembers all of no more than Cap failing rows.              *)
LEMMA FewAreRemembered ==
    ASSUME NEW rows, IsFiniteSet(rows), Cardinality(rows) <= Cap
    PROVE  Remembered(rows) = rows
<1>1. ASSUME NEW i \in rows PROVE Cardinality({j \in rows : j <= i}) <= Cap
  <2>1. {j \in rows : j <= i} \in SUBSET rows
    OBVIOUS
  <2>2. /\ IsFiniteSet({j \in rows : j <= i})
        /\ Cardinality({j \in rows : j <= i}) <= Cardinality(rows)
    BY <2>1, FS_Subset
  <2>3. Cardinality({j \in rows : j <= i}) \in Nat /\ Cardinality(rows) \in Nat
    BY <2>2, FS_CardinalityType
  <2> QED
    BY <2>2, <2>3, CapAssumption
<1> QED
  BY <1>1 DEF Remembered

(* What a row of Bronze holds.                                             *)
LEMMA TextOfRow ==
    ASSUME TypeOK, NEW i \in 1 .. Len(bronze) PROVE bronze[i].text \in Texts
<1>1. bronze \in Seq([key : Keys, text : Texts])
  BY DEF TypeOK
<1>2. bronze[i] \in [key : Keys, text : Texts]
  BY <1>1, ElementOfSeq
<1> QED
  BY <1>2

(* The engine of the tests and that of the job agree wherever the model    *)
(* says they do, for any rules, any type and any rows of Bronze.           *)
THEOREM EnginesAgreeHolds == Spec => []EnginesAgree
<1>1. TypeOK => EnginesAgree
  <2> DEFINE table == RawTable(Len(bronze))
  <2> SUFFICES ASSUME TypeOK,
                      \A r \in rules : Portable(r, dtype),
                      SurvivesCast(table, dtype)
               PROVE  /\ Breaches(rules, table) = SparkBreaches(rules, dtype, table)
                      /\ (\A r \in rules : Cardinality(FailingRows(r, table)) <= Cap) =>
                           SplitClean(rules, table) = CleanRows(rules, dtype, table)
    BY DEF EnginesAgree
  <2>1. /\ DOMAIN table = Dedup(Len(bronze))
        /\ DOMAIN table \subseteq 1 .. Len(bronze)
        /\ \A i \in DOMAIN table : table[i] \in Texts
    <3>1. DOMAIN table = Dedup(Len(bronze)) /\ Dedup(Len(bronze)) \subseteq 1 .. Len(bronze)
      BY DEF RawTable, Dedup
    <3>2. \A i \in 1 .. Len(bronze) : bronze[i].text \in Texts
      BY TextOfRow
    <3> QED
      BY <3>1, <3>2 DEF RawTable
  <2>2. rules \subseteq Rule
    BY ConfigsAssumption DEF TypeOK, rules
  <2>3. IsFiniteSet(DOMAIN table)
    <3>1. IsFiniteSet(1 .. Len(bronze))
      BY FS_Interval DEF TypeOK
    <3> QED
      BY <2>1, <3>1, FS_Subset
  <2> HIDE DEF table
  <2>4. \A r \in rules : FailingRows(r, table) =
           {i \in DOMAIN table : Condition(r, dtype, table, i) = "false"}
    BY <2>1, <2>2, FailingRowsAlike
  <2>5. \A r \in rules, i \in DOMAIN table :
           Condition(r, dtype, table, i) \in {"true", "false"}
    BY <2>1, <2>2, FailsAlike DEF SurvivesCast
  <2>6. Breaches(rules, table) = SparkBreaches(rules, dtype, table)
    BY <2>4 DEF Breaches, SparkBreaches
  <2>7. ASSUME \A r \in rules : Cardinality(FailingRows(r, table)) <= Cap
        PROVE  SplitClean(rules, table) = CleanRows(rules, dtype, table)
    <3>1. ASSUME NEW r \in rules
          PROVE  Remembered(FailingRows(r, table)) = FailingRows(r, table)
      <4>1. FailingRows(r, table) \in SUBSET (DOMAIN table)
        BY <2>4
      <4> QED
        BY <2>3, <2>7, <4>1, FS_Subset, FewAreRemembered
    <3>2. FailingIndexes(rules, table) =
             UNION {FailingRows(r, table) : r \in ErrorRules(rules)}
      BY <3>1 DEF FailingIndexes, ErrorRules
    <3>3. ASSUME NEW i \in DOMAIN table
          PROVE  i \in FailingIndexes(rules, table) <=>
                   \E r \in ErrorRules(rules) : Condition(r, dtype, table, i) = "false"
      BY <2>4, <3>2 DEF ErrorRules
    <3> QED
      BY <2>5, <3>3 DEF SplitClean, CleanRows, ErrorRules
  <2> QED
    BY <2>6, <2>7
<1> QED
  BY <1>1, TypeCorrect, PTL
=============================================================================
