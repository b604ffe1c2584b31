------------------------- MODULE Scd2DimensionProofs -------------------------
(***************************************************************************)
(* What holds of the SCD2 dimension for every set of keys, hashes and      *)
(* every length of the history, provided the dedup has no ties.            *)
(***************************************************************************)
EXTENDS Scd2Dimension, TLAPS

(* Open versions end at 9999-12-31; closed ones are over.                  *)
TimesInv ==
    \A v \in dimension :
        /\ v.from <= now
        /\ v.current => v.to = Forever
        /\ ~v.current => v.from < v.to /\ v.to <= now

(* Two versions of a key follow one another.                               *)
DisjointInv ==
    \A v, w \in dimension :
        v.key = w.key /\ v # w => v.to <= w.from \/ w.to <= v.from

(* Between the statements every open version of a key in the snapshot has  *)
(* the hash the snapshot says: what the close left open, the insert skips. *)
ClosedInv ==
    pc = "insert" =>
        \A v \in dimension : v.current =>
            \A h \in snapshot[v.key] : v.hash = h

Inv ==
    /\ TypeOK
    /\ TimesInv
    /\ OneCurrentVersion
    /\ DisjointInv
    /\ ClosedInv

-----------------------------------------------------------------------------
(* An evaluation of the view picks, for each key it has, a candidate.      *)
LEMMA SourcesPick ==
    ASSUME NEW snap \in [Keys -> Candidates], NEW s \in Sources(snap)
    PROVE  /\ DOMAIN s = {k \in Keys : snap[k] # {}}
           /\ \A k \in DOMAIN s : s[k] \in snap[k] /\ s[k] \in Hashes /\ k \in Keys
  BY DEF Sources

(* Without ties it is the only one.                                        *)
LEMMA SourcesUnique ==
    ASSUME ~TiesOccur,
           NEW snap \in [Keys -> Candidates], NEW s \in Sources(snap),
           NEW k \in Keys, NEW h \in snap[k]
    PROVE  k \in DOMAIN s /\ s[k] = h
<1>1. k \in DOMAIN s /\ s[k] \in snap[k]
  BY SourcesPick
<1>2. snap[k] \in Candidates
  OBVIOUS
<1>3. \A g, i \in snap[k] : g = i
  BY <1>2 DEF Candidates
<1> QED
  BY <1>1, <1>3

(* What the close makes of one version.                                    *)
LEMMA ClosedVersion ==
    ASSUME NEW v \in Version, NEW t \in Time
    PROVE  /\ Closed(v, t) \in Version
           /\ Closed(v, t).key = v.key
           /\ Closed(v, t).hash = v.hash
           /\ Closed(v, t).from = v.from
           /\ Closed(v, t).to = t
           /\ Closed(v, t).current = FALSE
<1>1. t \in 0 .. Forever
  BY BoundAssumption DEF Time, Forever
<1> QED
  BY <1>1 DEF Version, Closed

LEMMA OpenedVersion ==
    ASSUME NEW k \in Keys, NEW h \in Hashes, NEW t \in Time
    PROVE  /\ Opened(k, h, t) \in Version
           /\ Opened(k, h, t).key = k
           /\ Opened(k, h, t).hash = h
           /\ Opened(k, h, t).from = t
           /\ Opened(k, h, t).to = Forever
           /\ Opened(k, h, t).current = TRUE
<1>1. Forever \in 0 .. Forever
  BY BoundAssumption DEF Forever
<1> QED
  BY <1>1 DEF Version, Opened

(* A tick of the clock.                                                    *)
LEMMA TickTime ==
    ASSUME now \in Time, Tick
    PROVE  now' \in Time /\ now' = now + 1 /\ now < now' /\ now' < Forever
           /\ now \in Nat /\ now' \in Nat /\ Forever \in Nat
  BY BoundAssumption DEF Tick, Time, Forever

-----------------------------------------------------------------------------
THEOREM InitInv == Init => Inv
<1> SUFFICES ASSUME Init PROVE Inv
  OBVIOUS
<1>1. {} \in Candidates
  BY DEF Candidates
<1>2. TypeOK
  BY <1>1, BoundAssumption DEF Init, TypeOK, Time
<1> QED
  BY <1>2 DEF Init, Inv, TimesInv, OneCurrentVersion, DisjointInv, ClosedInv

(* The first statement.                                                    *)
LEMMA CloseInv ==
    ASSUME ~TiesOccur, Inv, Close
    PROVE  Inv'
<1> USE DEF Inv
<1>1. PICK s \in Sources(bronze) : dimension' = CloseChanged(s, now')
  BY DEF Close
<1>2. now' \in Time /\ now' = now + 1 /\ now < now' /\ now' < Forever
      /\ now \in Nat /\ now' \in Nat /\ Forever \in Nat
  BY TickTime DEF Close, TypeOK
<1>3. bronze \in [Keys -> Candidates] /\ dimension \subseteq Version
  BY DEF TypeOK
<1> DEFINE Made(v) == IF Changed(v, s) THEN Closed(v, now') ELSE v
<1>4. \A x \in dimension' : \E v \in dimension : x = Made(v)
  BY <1>1 DEF CloseChanged
<1>5. \A v \in dimension :
        /\ Made(v) \in Version
        /\ Made(v).key = v.key
        /\ Made(v).hash = v.hash
        /\ Made(v).from = v.from
        /\ Made(v).current => v.current /\ Made(v) = v
        /\ Changed(v, s) => Made(v).to = now' /\ ~Made(v).current /\ v.current
        /\ ~Changed(v, s) => Made(v) = v
  <2> SUFFICES ASSUME NEW v \in dimension
               PROVE  /\ Made(v) \in Version
                      /\ Made(v).key = v.key
                      /\ Made(v).hash = v.hash
                      /\ Made(v).from = v.from
                      /\ Made(v).current => v.current /\ Made(v) = v
                      /\ Changed(v, s) => Made(v).to = now' /\ ~Made(v).current
                                            /\ v.current
                      /\ ~Changed(v, s) => Made(v) = v
    OBVIOUS
  <2>1. v \in Version
    BY <1>3
  <2>2. CASE Changed(v, s)
    <3>1. v.current
      BY <2>2 DEF Changed
    <3> QED
      BY <2>1, <2>2, <3>1, <1>2, ClosedVersion
  <2>3. CASE ~Changed(v, s)
    BY <2>1, <2>3
  <2> QED
    BY <2>2, <2>3
<1> HIDE DEF Made
<1>6. TypeOK'
  <2>1. dimension' \subseteq Version
    BY <1>4, <1>5
  <2> QED
    BY <2>1, <1>2 DEF Close, TypeOK
<1>7. TimesInv'
  <2> SUFFICES ASSUME NEW x \in dimension'
               PROVE  /\ x.from <= now'
                      /\ x.current => x.to = Forever
                      /\ ~x.current => x.from < x.to /\ x.to <= now'
    BY DEF TimesInv
  <2>1. PICK v \in dimension : x = Made(v)
    BY <1>4
  <2>2. v \in Version /\ v.from \in Nat /\ v.to \in Nat
    BY <1>3, <1>2 DEF Version, Time
  <2>3. /\ v.from <= now
        /\ v.current => v.to = Forever
        /\ ~v.current => v.from < v.to /\ v.to <= now
    BY DEF TimesInv
  <2>4. CASE Changed(v, s)
    BY <2>1, <2>2, <2>3, <2>4, <1>5, <1>2
  <2>5. CASE ~Changed(v, s)
    BY <2>1, <2>2, <2>3, <2>5, <1>5, <1>2
  <2> QED
    BY <2>4, <2>5
<1>8. OneCurrentVersion'
  <2> SUFFICES ASSUME NEW x \in dimension', NEW y \in dimension',
                      x.key = y.key, x.current, y.current
               PROVE  x = y
    BY DEF OneCurrentVersion
  <2>1. PICK v \in dimension : x = Made(v)
    BY <1>4
  <2>2. PICK w \in dimension : y = Made(w)
    BY <1>4
  <2>3. v = w
    BY <2>1, <2>2, <1>5 DEF OneCurrentVersion
  <2> QED
    BY <2>1, <2>2, <2>3
<1>9. DisjointInv'
  <2> SUFFICES ASSUME NEW x \in dimension', NEW y \in dimension',
                      x.key = y.key, x # y
               PROVE  x.to <= y.from \/ y.to <= x.from
    BY DEF DisjointInv
  <2>1. PICK v \in dimension : x = Made(v)
    BY <1>4
  <2>2. PICK w \in dimension : y = Made(w)
    BY <1>4
  <2>3. v # w /\ v.key = w.key
    BY <2>1, <2>2, <1>5
  <2>4. /\ v.from \in Nat /\ v.to \in Nat /\ w.from \in Nat /\ w.to \in Nat
        /\ v.from <= now /\ w.from <= now
    BY <1>3, <1>2 DEF Version, Time, TimesInv
  <2>5. v.to <= w.from \/ w.to <= v.from
    BY <2>3 DEF DisjointInv
  <2>6. \A u \in dimension : Changed(u, s) => u.to = Forever
    BY <1>5 DEF TimesInv
  <2>7. v.to <= w.from => x.to <= y.from
    BY <2>1, <2>2, <2>4, <2>6, <1>5, <1>2
  <2>8. w.to <= v.from => y.to <= x.from
    BY <2>1, <2>2, <2>4, <2>6, <1>5, <1>2
  <2> QED
    BY <2>5, <2>7, <2>8
<1>10. ClosedInv'
  <2>1. snapshot' = bronze
    BY DEF Close
  <2> SUFFICES ASSUME NEW x \in dimension', x.current, NEW h \in bronze[x.key]
               PROVE  x.hash = h
    BY <2>1 DEF ClosedInv
  <2>2. PICK v \in dimension : x = Made(v)
    BY <1>4
  <2>3. x = v /\ v.current /\ ~Changed(v, s)
    BY <2>2, <1>5
  <2>4. v.key \in Keys
    BY <1>3 DEF Version
  <2>5. v.key \in DOMAIN s /\ s[v.key] = h
    BY <2>3, <2>4, <1>3, SourcesUnique
  <2> QED
    BY <2>3, <2>5 DEF Changed
<1> QED
  BY <1>6, <1>7, <1>8, <1>9, <1>10

(* The second statement: it opens a version only where none is open.       *)
LEMMA MissingHaveNone ==
    ASSUME ~TiesOccur, Inv, pc = "insert", NEW s \in Sources(snapshot)
    PROVE  \A k \in Missing(s) :
               /\ k \in Keys /\ s[k] \in Hashes
               /\ \A v \in dimension : v.key = k => ~v.current
<1> SUFFICES ASSUME NEW k \in Missing(s)
             PROVE  /\ k \in Keys /\ s[k] \in Hashes
                    /\ \A v \in dimension : v.key = k => ~v.current
  OBVIOUS
<1>1. snapshot \in [Keys -> Candidates]
  BY DEF Inv, TypeOK
<1>2. k \in DOMAIN s
  BY DEF Missing
<1>3. k \in Keys /\ s[k] \in Hashes /\ s[k] \in snapshot[k]
  BY <1>1, <1>2, SourcesPick
<1>4. \A v \in OpenVersions(k) : v \in dimension /\ v.key = k /\ v.hash = s[k]
  BY <1>3 DEF Inv, ClosedInv, OpenVersions
<1>5. \A v \in OpenVersions(k) : ~Changed(v, s)
  BY <1>4 DEF Changed
<1>6. OpenVersions(k) = {}
  BY <1>5 DEF Missing
<1> QED
  BY <1>3, <1>6 DEF OpenVersions

LEMMA InsertInv ==
    ASSUME ~TiesOccur, Inv, Insert
    PROVE  Inv'
<1> USE DEF Inv
<1>1. PICK s \in Sources(snapshot) :
         dimension' = dimension \cup {Opened(k, s[k], now') : k \in Missing(s)}
  BY DEF Insert
<1>2. now' \in Time /\ now' = now + 1 /\ now < now' /\ now' < Forever
      /\ now \in Nat /\ now' \in Nat /\ Forever \in Nat
  BY TickTime DEF Insert, TypeOK
<1>3. \A k \in Missing(s) :
         /\ k \in Keys /\ s[k] \in Hashes
         /\ \A v \in dimension : v.key = k => ~v.current
  BY MissingHaveNone DEF Insert
<1>4. dimension \subseteq Version
  BY DEF TypeOK
<1> DEFINE New(x) == /\ x.from = now' /\ x.to = Forever /\ x.current
                     /\ x.key \in Missing(s) /\ x = Opened(x.key, s[x.key], now')
<1>5. \A x \in dimension' : x \in dimension \/ (x \in Version /\ New(x))
  <2> SUFFICES ASSUME NEW x \in dimension', x \notin dimension
               PROVE  x \in Version /\ New(x)
    OBVIOUS
  <2>1. PICK k \in Missing(s) : x = Opened(k, s[k], now')
    BY <1>1
  <2>2. k \in Keys /\ s[k] \in Hashes /\ now' \in Time
    BY <1>2, <1>3
  <2> DEFINE o == Opened(k, s[k], now')
  <2>3. /\ o \in Version /\ o.key = k /\ o.from = now'
        /\ o.to = Forever /\ o.current = TRUE
    <3>1. o \in Version
      BY <2>2, OpenedVersion
    <3> QED
      BY <3>1 DEF Opened
  <2> HIDE DEF o
  <2>4. x = o
    BY <2>1 DEF o
  <2>5. x = Opened(x.key, s[x.key], now')
    BY <2>1, <2>3, <2>4
  <2> QED
    BY <2>3, <2>4, <2>5
<1>6. \A x \in dimension', v \in dimension :
         New(x) /\ v.key = x.key => ~v.current
  BY <1>3
<1>7. \A x, y \in dimension' : New(x) /\ New(y) /\ x.key = y.key => x = y
  OBVIOUS
<1>8. \A x \in dimension' : New(x) => x.from = now' /\ x.to = Forever /\ x.current
  OBVIOUS
<1> HIDE DEF New
<1>9. TypeOK'
  <2>1. dimension' \subseteq Version
    BY <1>4, <1>5
  <2> QED
    BY <2>1, <1>2 DEF Insert, TypeOK
<1>10. \A v \in dimension :
          /\ v.from \in Nat /\ v.to \in Nat /\ v.from <= now
          /\ v.current => v.to = Forever
          /\ ~v.current => v.from < v.to /\ v.to <= now
  BY <1>4, <1>2 DEF Version, Time, TimesInv
<1>11. TimesInv'
  <2> SUFFICES ASSUME NEW x \in dimension'
               PROVE  /\ x.from <= now'
                      /\ x.current => x.to = Forever
                      /\ ~x.current => x.from < x.to /\ x.to <= now'
    BY DEF TimesInv
  <2>1. CASE x \in dimension
    BY <2>1, <1>10, <1>2
  <2>2. CASE New(x)
    BY <2>2, <1>8, <1>2
  <2> QED
    BY <2>1, <2>2, <1>5
<1>12. OneCurrentVersion'
  <2> SUFFICES ASSUME NEW x \in dimension', NEW y \in dimension',
                      x.key = y.key, x.current, y.current
               PROVE  x = y
    BY DEF OneCurrentVersion
  <2>1. CASE x \in dimension /\ y \in dimension
    BY <2>1 DEF OneCurrentVersion
  <2>2. CASE New(x) /\ New(y)
    BY <2>2, <1>7
  <2> QED
    BY <2>1, <2>2, <1>5, <1>6
<1>13. DisjointInv'
  <2> SUFFICES ASSUME NEW x \in dimension', NEW y \in dimension',
                      x.key = y.key, x # y
               PROVE  x.to <= y.from \/ y.to <= x.from
    BY DEF DisjointInv
  <2>1. CASE x \in dimension /\ y \in dimension
    BY <2>1 DEF DisjointInv
  <2>2. CASE New(x) /\ y \in dimension
    BY <2>2, <1>6, <1>8, <1>10, <1>2
  <2>3. CASE x \in dimension /\ New(y)
    BY <2>3, <1>6, <1>8, <1>10, <1>2
  <2>4. CASE New(x) /\ New(y)
    BY <2>4, <1>7
  <2> QED
    BY <2>1, <2>2, <2>3, <2>4, <1>5
<1>14. ClosedInv'
  BY DEF Insert, ClosedInv
<1> QED
  BY <1>9, <1>11, <1>12, <1>13, <1>14

THEOREM NextInv == ~TiesOccur /\ Inv /\ [Next]_vars => Inv'
<1> SUFFICES ASSUME ~TiesOccur, Inv, [Next]_vars PROVE Inv'
  OBVIOUS
<1>1. ASSUME NEW k \in Keys, NEW S \in Candidates \ {{}}, Ingest(k, S) PROVE Inv'
  <2>1. bronze' \in [Keys -> Candidates]
    BY <1>1 DEF Ingest, Inv, TypeOK
  <2> QED
    BY <1>1, <2>1 DEF Ingest, Inv, TypeOK, TimesInv, OneCurrentVersion,
                      DisjointInv, ClosedInv
<1>2. CASE Close
  BY <1>2, CloseInv
<1>3. CASE Insert
  BY <1>3, InsertInv
<1>4. CASE Crash
  BY <1>4 DEF Crash, Inv, TypeOK, TimesInv, OneCurrentVersion, DisjointInv,
              ClosedInv
<1>5. CASE UNCHANGED vars
  BY <1>5 DEF vars, Inv, TypeOK, TimesInv, OneCurrentVersion, DisjointInv,
              ClosedInv
<1> QED
  BY <1>1, <1>2, <1>3, <1>4, <1>5 DEF Next

THEOREM InvHolds == ~TiesOccur => (Spec => []Inv)
<1> SUFFICES ASSUME ~TiesOccur PROVE Spec => []Inv
  OBVIOUS
<1>1. Inv /\ [Next]_vars => Inv'
  BY NextInv
<1> QED
  BY InitInv, <1>1, PTL DEF Spec

-----------------------------------------------------------------------------
(* The dimension is well formed, its versions are intervals of the clock.  *)
THEOREM TypeCorrect == ~TiesOccur => (Spec => []TypeOK)
<1>1. Inv => TypeOK
  BY DEF Inv
<1> QED
  BY <1>1, InvHolds, PTL

(* Without ties in the dedup, no key ever has two open versions, in        *)
(* mid-job and after any number of crashes too.                            *)
THEOREM OneCurrentVersionHolds == ~TiesOccur => (Spec => []OneCurrentVersion)
<1>1. Inv => OneCurrentVersion
  BY DEF Inv
<1> QED
  BY <1>1, InvHolds, PTL

(* Versions of a key never overlap: a point-in-time join finds at most one.*)
THEOREM NoFanOutHolds == ~TiesOccur => (Spec => []NoFanOut)
<1>1. Inv => NoFanOut
  <2> SUFFICES ASSUME Inv, NEW k \in Keys, NEW t \in Time,
                      NEW v \in PointInTime(k, t), NEW w \in PointInTime(k, t)
               PROVE  v = w
    BY DEF NoFanOut
  <2>1. /\ v \in dimension /\ w \in dimension /\ v.key = w.key
        /\ v.from <= t /\ t < v.to /\ w.from <= t /\ t < w.to
    BY DEF PointInTime
  <2>2. v.from \in Nat /\ v.to \in Nat /\ w.from \in Nat /\ w.to \in Nat /\ t \in Nat
    BY <2>1, BoundAssumption DEF Inv, TypeOK, Version, Time, Forever
  <2> QED
    BY <2>1, <2>2 DEF Inv, DisjointInv
<1> QED
  BY <1>1, InvHolds, PTL

(* No step rewrites history: a version is kept, or closed once, at the     *)
(* time of the statement that closes it.                                   *)
THEOREM HistoryKeptHolds == ~TiesOccur => (Spec => HistoryKept)
<1> SUFFICES ASSUME ~TiesOccur PROVE Spec => HistoryKept
  OBVIOUS
<1> DEFINE Kept == \A v \in dimension :
                      \/ v \in dimension'
                      \/ v.current /\ v.from < now' /\ Closed(v, now') \in dimension'
<1>1. Inv /\ Next => Kept
  <2> SUFFICES ASSUME Inv, Next, NEW v \in dimension
               PROVE  \/ v \in dimension'
                      \/ v.current /\ v.from < now' /\ Closed(v, now') \in dimension'
    OBVIOUS
  <2>1. CASE Close
    <3>1. PICK s \in Sources(bronze) : dimension' = CloseChanged(s, now')
      BY <2>1 DEF Close
    <3>2. now < now' /\ now \in Nat /\ now' \in Nat
      BY <2>1, TickTime DEF Close, Inv, TypeOK
    <3>3. v.from <= now /\ v.from \in Nat
      BY <3>2 DEF Inv, TypeOK, TimesInv, Version, Time
    <3>4. v.from < now'
      BY <3>2, <3>3
    <3>5. CASE Changed(v, s)
      BY <3>1, <3>4, <3>5 DEF CloseChanged, Changed
    <3>6. CASE ~Changed(v, s)
      BY <3>1, <3>6 DEF CloseChanged
    <3> QED
      BY <3>5, <3>6
  <2>2. CASE Insert
    BY <2>2 DEF Insert
  <2>3. CASE Crash
    BY <2>3 DEF Crash
  <2>4. CASE \E k \in Keys, S \in Candidates \ {{}} : Ingest(k, S)
    BY <2>4 DEF Ingest
  <2> QED
    BY <2>1, <2>2, <2>3, <2>4 DEF Next
<1>2. Inv /\ [Next]_vars => [Kept]_vars
  BY <1>1
<1>3. Spec => []Inv
  BY InvHolds
<1> QED
  BY <1>2, <1>3, PTL DEF Spec, HistoryKept

(* A job that finishes leaves every key at what it read, whatever an       *)
(* earlier crash left half done.                                           *)
THEOREM JobConvergesHolds == ~TiesOccur => (Spec => JobConverges)
<1> SUFFICES ASSUME ~TiesOccur PROVE Spec => JobConverges
  OBVIOUS
<1> DEFINE Converged == Insert =>
              \A k \in Keys : \A h \in snapshot[k] :
                  \E v \in dimension' : v.key = k /\ v.current /\ v.hash = h
<1>1. Inv => Converged
  <2> SUFFICES ASSUME Inv, Insert, NEW k \in Keys, NEW h \in snapshot[k]
               PROVE  \E v \in dimension' : v.key = k /\ v.current /\ v.hash = h
    OBVIOUS
  <2>1. PICK s \in Sources(snapshot) :
           dimension' = dimension \cup {Opened(i, s[i], now') : i \in Missing(s)}
    BY DEF Insert
  <2>2. snapshot \in [Keys -> Candidates]
    BY DEF Inv, TypeOK
  <2>3. k \in DOMAIN s /\ s[k] = h
    BY <2>2, SourcesUnique
  <2>4. CASE OpenVersions(k) = {}
    <3>1. k \in Missing(s)
      BY <2>3, <2>4 DEF Missing
    <3>2. Opened(k, s[k], now') \in dimension'
      BY <2>1, <3>1
    <3> QED
      BY <2>3, <3>2 DEF Opened
  <2>5. CASE OpenVersions(k) # {}
    <3>1. PICK v \in OpenVersions(k) : TRUE
      BY <2>5
    <3>2. v \in dimension /\ v.key = k /\ v.current
      BY <3>1 DEF OpenVersions
    <3>3. v.hash = h
      BY <3>2 DEF Inv, ClosedInv, Insert
    <3> QED
      BY <2>1, <3>2, <3>3
  <2> QED
    BY <2>4, <2>5
<1>2. Inv => [Converged]_vars
  BY <1>1
<1>3. Spec => []Inv
  BY InvHolds
<1> QED
  BY <1>2, <1>3, PTL DEF JobConverges

(* A version that is closed keeps its key.                                 *)
LEMMA ClosedKeepsKey ==
    ASSUME NEW v \in dimension, Inv, NEW t
    PROVE  Closed(v, t).key = v.key
  BY DEF Closed, Inv, TypeOK, Version

(* The open versions of a key are among its versions.                      *)
LEMMA OpenOfVersions ==
    ASSUME NEW k, VersionsOf(k)' = VersionsOf(k)
    PROVE  OpenVersions(k)' = OpenVersions(k)
<1>1. OpenVersions(k) = {v \in VersionsOf(k) : v.current}
  BY DEF OpenVersions, VersionsOf
<1>2. OpenVersions(k)' = {v \in VersionsOf(k)' : v.current}
  BY DEF OpenVersions, VersionsOf
<1> QED
  BY <1>1, <1>2

(* No evaluation of the view finds a change in a key that is up to date.   *)
LEMMA SourceOfUpToDate ==
    ASSUME Inv, NEW k \in Keys, UpToDate(k), NEW snap \in [Keys -> Candidates],
           NEW s \in Sources(snap), RowsRead(k) = snap[k]
    PROVE  \A v \in VersionsOf(k) : ~Changed(v, s)
<1> SUFFICES ASSUME NEW v \in VersionsOf(k), Changed(v, s) PROVE FALSE
  OBVIOUS
<1>1. v \in dimension /\ v.key = k /\ v.current /\ k \in DOMAIN s /\ v.hash # s[k]
  BY DEF Changed, VersionsOf
<1>2. s[k] \in RowsRead(k)
  <2>1. s[k] \in snap[k]
    BY <1>1, SourcesPick
  <2> QED
    BY <2>1
<1>3. PICK w \in OpenVersions(k) : w.hash = s[k]
  BY <1>2 DEF UpToDate
<1>4. w = v
  BY <1>1, <1>3 DEF Inv, OneCurrentVersion, OpenVersions
<1> QED
  BY <1>1, <1>3, <1>4

(* A key with nothing new in Bronze goes unchanged through both statements *)
(* of a job, and through a crash between them.                             *)
THEOREM RerunIsNoopHolds == ~TiesOccur => (Spec => RerunIsNoop)
<1> SUFFICES ASSUME ~TiesOccur PROVE Spec => RerunIsNoop
  OBVIOUS
<1> DEFINE Noop(k) == UpToDate(k) =>
             /\ VersionsOf(k)' = VersionsOf(k)
             /\ pc' = "insert" => UpToDate(k)'
<1>1. ASSUME Inv, Next, NEW k \in Keys PROVE Noop(k)
  <2> SUFFICES ASSUME UpToDate(k)
               PROVE  /\ VersionsOf(k)' = VersionsOf(k)
                      /\ pc' = "insert" => UpToDate(k)'
    OBVIOUS
  <2>1. CASE Close
    <3>1. PICK s \in Sources(bronze) : dimension' = CloseChanged(s, now')
      BY <2>1 DEF Close
    <3>2. pc = "idle" /\ snapshot' = bronze /\ pc' = "insert"
      BY <2>1 DEF Close
    <3>3. bronze \in [Keys -> Candidates] /\ RowsRead(k) = bronze[k]
      BY <1>1, <3>2 DEF Inv, TypeOK, RowsRead
    <3>4. \A v \in VersionsOf(k) : ~Changed(v, s)
      BY <1>1, <3>1, <3>3, SourceOfUpToDate
    <3>5. VersionsOf(k)' = VersionsOf(k)
      BY <1>1, <3>1, <3>4, ClosedKeepsKey DEF VersionsOf, CloseChanged
    <3>6. OpenVersions(k)' = OpenVersions(k)
      BY <3>5, OpenOfVersions
    <3>7. RowsRead(k)' = RowsRead(k)
      BY <3>2, <3>3 DEF RowsRead
    <3> QED
      BY <3>5, <3>6, <3>7 DEF UpToDate
  <2>2. CASE Insert
    <3>1. PICK s \in Sources(snapshot) :
            dimension' = dimension \cup {Opened(c, s[c], now') : c \in Missing(s)}
      BY <2>2 DEF Insert
    <3>2. pc = "insert" /\ pc' = "idle"
      BY <2>2 DEF Insert
    <3>3. snapshot \in [Keys -> Candidates] /\ RowsRead(k) = snapshot[k]
      BY <1>1, <3>2 DEF Inv, TypeOK, RowsRead
    <3>4. \A v \in VersionsOf(k) : ~Changed(v, s)
      BY <1>1, <3>1, <3>3, SourceOfUpToDate
    <3>5. k \notin Missing(s)
      <4> SUFFICES ASSUME k \in DOMAIN s PROVE k \notin Missing(s)
        BY DEF Missing
      <4>1. s[k] \in RowsRead(k)
        BY <3>1, <3>3, SourcesPick
      <4>2. OpenVersions(k) # {}
        BY <4>1 DEF UpToDate
      <4>3. \A v \in OpenVersions(k) : ~Changed(v, s)
        BY <3>4 DEF OpenVersions, VersionsOf
      <4> QED
        BY <4>2, <4>3 DEF Missing
    <3>6. VersionsOf(k)' = VersionsOf(k)
      BY <3>1, <3>5 DEF VersionsOf, Opened
    <3> QED
      BY <3>2, <3>6
  <2>3. CASE Crash
    BY <2>3 DEF Crash, VersionsOf
  <2>4. CASE \E c \in Keys, S \in Candidates \ {{}} : Ingest(c, S)
    <3>1. UNCHANGED <<snapshot, dimension, pc>>
      BY <2>4 DEF Ingest
    <3>2. pc' = "insert" => RowsRead(k)' = RowsRead(k)
      BY <3>1 DEF RowsRead
    <3> QED
      BY <3>1, <3>2 DEF VersionsOf, UpToDate, OpenVersions
  <2> QED
    BY <1>1, <2>1, <2>2, <2>3, <2>4 DEF Next
<1>2. Inv /\ [Next]_vars => [\A k \in Keys : Noop(k)]_vars
  BY <1>1
<1>3. Spec => []Inv
  BY InvHolds
<1> QED
  BY <1>2, <1>3, PTL DEF Spec, RerunIsNoop
=============================================================================
