------------------------- MODULE HistoryStoreProofs -------------------------
(***************************************************************************)
(* Theorems of HistoryStore, for any tables, rows and files, any retention *)
(* and any number of snapshots, failures and sessions.                     *)
(*                                                                         *)
(* Snapshots are immutable and their ids are never used again: that is     *)
(* what makes an export that runs over two statements whole or bare, and a *)
(* comparison that is older than the insert still worth something.  The    *)
(* inductive invariant HistoryInv says so for every id that somebody       *)
(* remembers (ExportInv, CompareInv), and that a snapshot has one row for  *)
(* each key (StoreInv), from which the differences are complete.           *)
(***************************************************************************)
EXTENDS HistoryStore, FiniteSetTheorems, WellFoundedInduction, TLAPS

---------------------------------------------------------------------------
(* Largest and smallest elements of finite sets of numbers *)

LEMMA LargestExists ==
    ASSUME NEW S \in SUBSET Int, IsFiniteSet(S), S # {}
    PROVE  \E x \in S : \A y \in S : y <= x
<1> DEFINE Above(x) == {y \in S : y > x}
<1>1. PICK T : T = {Above(x) : x \in S}
  OBVIOUS
<1>2. T \subseteq FiniteSubsetsOf(S)
  <2>1. \A x \in S : Above(x) \in SUBSET S
    OBVIOUS
  <2>2. FiniteSubsetsOf(S) = SUBSET S
    BY FS_FiniteSubsetsOfFinite
  <2> QED BY <1>1, <2>1, <2>2
<1>3. T # {}
  BY <1>1
<1>4. PICK U \in T : \A V \in T : <<V, U>> \notin StrictSubsetOrdering(S)
  <2>1. IsWellFoundedOn(StrictSubsetOrdering(S), FiniteSubsetsOf(S))
    BY FS_StrictSubsetOrderingWellFounded
  <2> HIDE DEF Above
  <2> QED BY <1>2, <1>3, <2>1, WFMin
<1>5. PICK x \in S : U = Above(x)
  BY <1>1, <1>4
<1>6. ASSUME NEW z \in S, z > x PROVE FALSE
  <2>0. x \in Int /\ z \in Int /\ \A y \in S : y \in Int
    OBVIOUS
  <2>1. z \in Above(x)
    BY <1>6
  <2>2. ~ (z > z)
    BY <2>0
  <2>3. z \notin Above(z)
    BY <2>2
  <2>4. ASSUME NEW y \in Above(z) PROVE y \in Above(x)
    <3>1. y \in S /\ y > z /\ y \in Int
      BY <2>0
    <3>2. y > x
      BY <3>1, <2>0, <1>6
    <3> QED BY <3>1, <3>2
  <2>5. Above(z) \subseteq Above(x) /\ z \in Above(x) /\ z \notin Above(z)
    BY <2>1, <2>3, <2>4
  <2>6. Above(z) \in T /\ Above(z) \in SUBSET S /\ Above(x) \in SUBSET S
    BY <1>1
  <2>7. <<Above(z), Above(x)>> \in StrictSubsetOrdering(S)
    <3> HIDE DEF Above
    <3> QED BY <2>5, <2>6 DEF StrictSubsetOrdering
  <2> QED BY <1>4, <1>5, <2>6, <2>7
<1> QED BY <1>6

LEMMA SmallestExists ==
    ASSUME NEW S \in SUBSET Int, IsFiniteSet(S), S # {}
    PROVE  \E x \in S : \A y \in S : x <= y
<1> DEFINE Below(x) == {y \in S : y < x}
<1>1. PICK T : T = {Below(x) : x \in S}
  OBVIOUS
<1>2. T \subseteq FiniteSubsetsOf(S)
  <2>1. \A x \in S : Below(x) \in SUBSET S
    OBVIOUS
  <2>2. FiniteSubsetsOf(S) = SUBSET S
    BY FS_FiniteSubsetsOfFinite
  <2> QED BY <1>1, <2>1, <2>2
<1>3. T # {}
  BY <1>1
<1>4. PICK U \in T : \A V \in T : <<V, U>> \notin StrictSubsetOrdering(S)
  <2>1. IsWellFoundedOn(StrictSubsetOrdering(S), FiniteSubsetsOf(S))
    BY FS_StrictSubsetOrderingWellFounded
  <2> HIDE DEF Below
  <2> QED BY <1>2, <1>3, <2>1, WFMin
<1>5. PICK x \in S : U = Below(x)
  BY <1>1, <1>4
<1>6. ASSUME NEW z \in S, z < x PROVE FALSE
  <2>0. x \in Int /\ z \in Int /\ \A y \in S : y \in Int
    OBVIOUS
  <2>1. z \in Below(x)
    BY <1>6
  <2>2. ~ (z < z)
    BY <2>0
  <2>3. z \notin Below(z)
    BY <2>2
  <2>4. ASSUME NEW y \in Below(z) PROVE y \in Below(x)
    <3>1. y \in S /\ y < z /\ y \in Int
      BY <2>0
    <3>2. y < x
      BY <3>1, <2>0, <1>6
    <3> QED BY <3>1, <3>2
  <2>5. Below(z) \subseteq Below(x) /\ z \in Below(x) /\ z \notin Below(z)
    BY <2>1, <2>3, <2>4
  <2>6. Below(z) \in T /\ Below(z) \in SUBSET S /\ Below(x) \in SUBSET S
    BY <1>1
  <2>7. <<Below(z), Below(x)>> \in StrictSubsetOrdering(S)
    <3> HIDE DEF Below
    <3> QED BY <2>5, <2>6 DEF StrictSubsetOrdering
  <2> QED BY <1>4, <1>5, <2>6, <2>7
<1> QED BY <1>6

LEMMA MaxIsLargest ==
    ASSUME NEW S \in SUBSET Int, IsFiniteSet(S), S # {}
    PROVE  Max(S) \in S /\ \A y \in S : y <= Max(S)
<1>1. PICK x \in S : \A y \in S : x >= y
  BY LargestExists
<1> QED BY <1>1 DEF Max

\* A set with fewer than n elements above its smallest has at most n.
LEMMA FewAbove ==
    ASSUME NEW S \in SUBSET Int, IsFiniteSet(S), NEW n \in Nat, n > 0,
           \A x \in S : Cardinality({y \in S : y > x}) < n
    PROVE  Cardinality(S) <= n
<1>1. CASE S = {}
  BY <1>1, FS_EmptySet
<1>2. CASE S # {}
  <2>1. PICK x \in S : \A y \in S : x <= y
    BY <1>2, SmallestExists
  <2>2. PICK T : T = {y \in S : y > x}
    OBVIOUS
  <2>3. S = T \cup {x} /\ x \notin T /\ T \in SUBSET S
    <3>1. x \in Int /\ \A y \in S : y \in Int
      OBVIOUS
    <3>2. \A y \in S : y = x \/ y \in T
      BY <2>1, <2>2, <3>1
    <3>3. ~ (x > x)
      BY <3>1
    <3>4. x \notin T /\ T \subseteq S
      BY <2>2, <3>3
    <3> QED BY <3>2, <3>4
  <2>4. IsFiniteSet(T)
    BY <2>3, FS_Subset
  <2>5. Cardinality(S) = Cardinality(T) + 1 /\ Cardinality(T) \in Nat
    BY <2>3, <2>4, FS_AddElement, FS_CardinalityType
  <2>6. Cardinality(T) < n
    BY <2>2
  <2> QED BY <2>5, <2>6
<1> QED BY <1>1, <1>2

---------------------------------------------------------------------------
(* Finite sets of rows *)

Triples == (1..MaxSnaps) \X Keys \X Known
Pairs   == Keys \X Known

LEMMA TripleParts ==
    ASSUME NEW r \in Triples
    PROVE  /\ r[1] \in 1..MaxSnaps /\ r[2] \in Keys /\ r[3] \in Known
           /\ r = <<r[1], r[2], r[3]>>
BY DEF Triples

LEMMA PairParts ==
    ASSUME NEW p \in Pairs
    PROVE  p[1] \in Keys /\ p[2] \in Known /\ p = <<p[1], p[2]>>
BY DEF Pairs

\* The values of a function on a finite set, and as many if it is injective.
LEMMA FiniteImage ==
    ASSUME NEW S, IsFiniteSet(S), NEW T, NEW f \in [S -> T], \A y \in T : \E x \in S : f[x] = y
    PROVE  /\ IsFiniteSet(T)
           /\ (\A x, y \in S : f[x] = f[y] => x = y) => Cardinality(T) = Cardinality(S)
<1>1. f \in Surjection(S, T)
  BY DEF Surjection
<1>2. /\ IsFiniteSet(T)
      /\ Cardinality(T) = Cardinality(S) <=> f \in Injection(S, T)
  BY <1>1, FS_Surjection
<1>3. (\A x, y \in S : f[x] = f[y] => x = y) => f \in Injection(S, T)
  BY DEF Injection, IsInjective
<1> QED BY <1>2, <1>3

\* The rows that a snapshot with the given contents inserts.
RowsOf(id, got) == {<<id, g[1], g[2]>> : g \in got}

LEMMA InsertedRows ==
    ASSUME NEW id, NEW got \in SUBSET Pairs, IsFiniteSet(got)
    PROVE  /\ IsFiniteSet(RowsOf(id, got)) /\ Cardinality(RowsOf(id, got)) = Cardinality(got)
           /\ id \in 1..MaxSnaps => RowsOf(id, got) \subseteq Triples
<1>1. PICK T : T = RowsOf(id, got)
  OBVIOUS
<1>2. PICK f : f = [g \in got |-> <<id, g[1], g[2]>>]
  OBVIOUS
<1>3. f \in [got -> T] /\ \A y \in T : \E x \in got : f[x] = y
  BY <1>1, <1>2 DEF RowsOf
<1>4. ASSUME NEW x \in got, NEW y \in got, f[x] = f[y] PROVE x = y
  <2>1. x[1] = y[1] /\ x[2] = y[2]
    BY <1>2, <1>4
  <2> QED BY <2>1, PairParts
<1>5. IsFiniteSet(T) /\ Cardinality(T) = Cardinality(got)
  BY <1>3, <1>4, FiniteImage
<1>6. ASSUME id \in 1..MaxSnaps, NEW g \in got PROVE <<id, g[1], g[2]>> \in Triples
  BY <1>6, PairParts DEF Triples
<1> QED BY <1>1, <1>5, <1>6 DEF RowsOf

---------------------------------------------------------------------------
(* The inductive invariant *)

SnapRec   == [trigger : {"auto", "manual", "import"}, counts : Nat]
JobRec    == [stage : {"idle", "read", "compare", "create", "prune"}, at : Nat,
              got : SUBSET Pairs, over : Int]
ExportRec == [stage : {"idle", "rows", "done"}, id : Nat, counts : Nat, got : SUBSET Pairs]

WorldTyped == DOMAIN world \subseteq Keys /\ \A k \in DOMAIN world : world[k] \in Values[k]

StoreTyped ==
    /\ nextId \in 1..(MaxSnaps + 1)
    /\ snaps \in [DOMAIN snaps -> SnapRec] /\ DOMAIN snaps \subseteq 1..(nextId - 1)
    /\ rows \in SUBSET Triples /\ IsFiniteSet(rows)

JobsTyped == job \in [Jobs -> JobRec] /\ \A j \in Jobs : IsFiniteSet(job[j].got)

ExportTyped == export \in ExportRec /\ IsFiniteSet(export.got)

TypeInv == WorldTyped /\ StoreTyped /\ JobsTyped /\ ExportTyped /\ upsets \in Nat

\* The tables a session has emptied, by its phase.
PhaseInv ==
    /\ sess \in {"live", "purging", "suspended", "loading"} /\ gone \in 0..Len(Sources)
    /\ sess = "live" => gone = 0
    /\ sess \in {"purging", "suspended"} => gone >= 1

\* A snapshot has its rows, one for each key.
StoreInv ==
    /\ SnapshotsAreWhole
    /\ \A r, q \in rows : r[1] = q[1] /\ r[2] = q[2] => r = q

\* The snapshot that an export has begun with is still the same, or gone.
ExportInv ==
    /\ export.stage = "rows" =>
         /\ export.id < nextId
         /\ export.id \in DOMAIN snaps => snaps[export.id].counts = export.counts
    /\ ExportWholeOrBare

\* What the collector is about to store differs from what it was compared with.
CompareInv ==
    job["auto"].stage = "create" =>
      /\ job["auto"].over < nextId
      /\ job["auto"].over \in DOMAIN snaps => Content(job["auto"].over) # job["auto"].got

HistoryInv ==
    TypeInv /\ PhaseInv /\ StoreInv /\ ExportInv /\ CompareInv /\ AutosBounded

LEMMA Settings ==
    /\ Keep \in Nat /\ MaxSnaps \in Nat /\ MaxUpsets \in Nat /\ IsFiniteSet(Keys)
    /\ Len(Sources) \in Nat /\ Len(Sources) >= 1
    /\ \A k \in Keys : Values[k] # {} /\ Values[k] \subseteq Known
    /\ \A f \in Files : IsFiniteSet(f) /\ f \in SUBSET Pairs
    /\ \A v \in Known : v = [c \in DOMAIN v |-> v[c]]
<1>1. Len(Sources) \in Nat /\ Len(Sources) >= 1
  <2>1. Sources \in Seq(Tables) /\ Sources # <<>>
    BY HistoryConstants DEF HistoryConstants
  <2> QED BY <2>1
<1>2. \A k \in Keys : Values[k] \subseteq Known
  BY HistoryConstants DEF HistoryConstants, Known, Range
<1> QED BY <1>1, <1>2, HistoryConstants DEF HistoryConstants, Pairs

\* The contents of a snapshot are as many as its rows.
LEMMA Contents ==
    ASSUME StoreTyped, NEW s
    PROVE  /\ Content(s) \in SUBSET Pairs /\ IsFiniteSet(Content(s))
           /\ Cardinality(Content(s)) = Cardinality({r \in rows : r[1] = s})
<1>1. PICK R : R = {x \in rows : x[1] = s}
  OBVIOUS
<1>2. R \in SUBSET rows /\ R \subseteq Triples /\ IsFiniteSet(rows)
  BY <1>1 DEF StoreTyped
<1>3. IsFiniteSet(R)
  BY <1>2, FS_Subset
<1>4. PICK f : f = [r \in R |-> <<r[2], r[3]>>]
  OBVIOUS
<1>5. Content(s) = {<<r[2], r[3]>> : r \in R}
  BY <1>1 DEF Content
<1>6. f \in [R -> Content(s)] /\ \A y \in Content(s) : \E x \in R : f[x] = y
  BY <1>4, <1>5
<1>7. ASSUME NEW x \in R, NEW y \in R, f[x] = f[y] PROVE x = y
  <2>1. x[2] = y[2] /\ x[3] = y[3] /\ x[1] = y[1]
    BY <1>1, <1>4, <1>7
  <2> QED BY <1>2, <2>1, TripleParts
<1>8. IsFiniteSet(Content(s)) /\ Cardinality(Content(s)) = Cardinality(R)
  BY <1>3, <1>6, <1>7, FiniteImage
<1>9. ASSUME NEW r \in R PROVE <<r[2], r[3]>> \in Pairs
  BY <1>2, TripleParts DEF Pairs
<1> QED BY <1>1, <1>5, <1>8, <1>9

LEMMA AutosFinite ==
    ASSUME StoreTyped
    PROVE  Autos \subseteq Int /\ IsFiniteSet(Autos) /\ Cardinality(Autos) \in Nat
           /\ IsFiniteSet(DOMAIN snaps) /\ DOMAIN snaps \subseteq Int
<1>1. IsFiniteSet(1..(nextId - 1)) /\ DOMAIN snaps \in SUBSET (1..(nextId - 1))
  <2>1. nextId - 1 \in Int /\ 1 \in Int
    BY Settings DEF StoreTyped
  <2>2. IsFiniteSet(1..(nextId - 1))
    BY <2>1, FS_Interval
  <2> QED BY <2>2 DEF StoreTyped
<1>2. IsFiniteSet(DOMAIN snaps) /\ DOMAIN snaps \subseteq Int /\ Autos \in SUBSET DOMAIN snaps
  <2>1. IsFiniteSet(DOMAIN snaps)
    BY <1>1, FS_Subset
  <2>2. \A s \in DOMAIN snaps : s \in Int
    BY <1>1
  <2> QED BY <2>1, <2>2 DEF Autos
<1>3. IsFiniteSet(Autos)
  BY <1>2, FS_Subset
<1> QED BY <1>2, <1>3, FS_CardinalityType

---------------------------------------------------------------------------
(* What the statements of the store do *)

\* Ids are not used again, and a snapshot that is there is what it was.
Immutable ==
    /\ nextId' >= nextId
    /\ \A s \in DOMAIN snaps' : s < nextId =>
         s \in DOMAIN snaps /\ snaps'[s] = snaps[s] /\ Content(s)' = Content(s)

StoreSound == StoreTyped /\ StoreInv

LEMMA CreateSound ==
    ASSUME StoreSound, NEW trigger \in {"auto", "manual", "import"},
           NEW got \in SUBSET Pairs, IsFiniteSet(got), CreateSnapshot(trigger, got)
    PROVE  /\ StoreSound' /\ Immutable
           /\ Autos' \subseteq Autos \cup (IF trigger = "auto" THEN {nextId} ELSE {})
           /\ DOMAIN snaps \subseteq DOMAIN snaps'
           /\ nextId' > nextId => snaps'[nextId].trigger = trigger
<1>1. nextId \in Int /\ nextId >= 1 /\ nextId <= MaxSnaps /\ MaxSnaps \in Nat /\ nextId \in 1..MaxSnaps
  BY Settings DEF StoreSound, StoreTyped, CreateSnapshot
<1>2. CASE UNCHANGED store
  <2>1. nextId' = nextId /\ snaps' = snaps /\ rows' = rows
    BY <1>2 DEF store
  <2>2. \A s : Content(s)' = Content(s)
    BY <2>1 DEF Content
  <2> QED BY <1>1, <2>1, <2>2 DEF StoreSound, StoreTyped, StoreInv, SnapshotsAreWhole, Immutable, Autos
<1>3. CASE ~ UNCHANGED store
  <2> DEFINE rec == [trigger |-> trigger, counts |-> Cardinality(got)]
             new == RowsOf(nextId, got)
  <2>1. /\ ~ \E a, b \in got : a # b /\ a[1] = b[1]
        /\ nextId' = nextId + 1
        /\ snaps' = [s \in DOMAIN snaps \cup {nextId} |-> IF s = nextId THEN rec ELSE snaps[s]]
        /\ rows' = rows \cup new
    BY <1>3 DEF CreateSnapshot, RowsOf
  <2>2. rec \in SnapRec /\ rec.trigger = trigger /\ rec.counts = Cardinality(got)
    BY FS_CardinalityType DEF SnapRec
  <2>3. new \subseteq Triples /\ IsFiniteSet(new) /\ Cardinality(new) = Cardinality(got)
    BY <1>1, InsertedRows
  <2>4. nextId \notin DOMAIN snaps /\ DOMAIN snaps \subseteq Int /\ \A s \in DOMAIN snaps : s < nextId
    BY <1>1 DEF StoreSound, StoreTyped
  <2>5. \A r \in rows : r[1] \in DOMAIN snaps /\ r[1] # nextId
    BY <2>4 DEF StoreSound, StoreInv, SnapshotsAreWhole
  <2>6. \A r \in new : r[1] = nextId
    BY DEF RowsOf
  <2>7. /\ DOMAIN snaps' = DOMAIN snaps \cup {nextId} /\ snaps'[nextId] = rec
        /\ \A s \in DOMAIN snaps : snaps'[s] = snaps[s]
    BY <2>1, <2>4
  <2> HIDE DEF rec, new
  <2>8. StoreTyped'
    <3>1. nextId' \in 1..(MaxSnaps + 1) /\ nextId' - 1 = nextId
      BY <1>1, <2>1
    <3>2. snaps' \in [DOMAIN snaps' -> SnapRec]
      BY <2>1, <2>2, <2>4 DEF StoreSound, StoreTyped
    <3>3. DOMAIN snaps' \subseteq 1..(nextId' - 1)
      BY <1>1, <2>7, <3>1 DEF StoreSound, StoreTyped
    <3>4. rows' \in SUBSET Triples /\ IsFiniteSet(rows')
      BY <2>1, <2>3, FS_Union DEF StoreSound, StoreTyped
    <3> QED BY <3>1, <3>2, <3>3, <3>4 DEF StoreTyped
  <2>9. \A s \in DOMAIN snaps : {r \in rows' : r[1] = s} = {r \in rows : r[1] = s}
    BY <2>1, <2>4, <2>6
  <2>10. {r \in rows' : r[1] = nextId} = new
    BY <2>1, <2>5, <2>6
  <2>11. SnapshotsAreWhole'
    <3>1. ASSUME NEW s \in DOMAIN snaps' PROVE Cardinality({r \in rows' : r[1] = s}) = snaps'[s].counts
      <4>1. CASE s = nextId
        BY <4>1, <2>2, <2>3, <2>7, <2>10
      <4>2. CASE s # nextId
        <5>1. s \in DOMAIN snaps /\ snaps'[s] = snaps[s]
          BY <4>2, <2>7
        <5>2. Cardinality({r \in rows : r[1] = s}) = snaps[s].counts
          BY <5>1 DEF StoreSound, StoreInv, SnapshotsAreWhole
        <5> QED BY <5>1, <5>2, <2>9
      <4> QED BY <4>1, <4>2
    <3>2. \A r \in rows' : r[1] \in DOMAIN snaps'
      BY <2>1, <2>5, <2>6, <2>7
    <3> QED BY <3>1, <3>2 DEF SnapshotsAreWhole
  <2>12. ASSUME NEW r \in rows', NEW q \in rows', r[1] = q[1], r[2] = q[2] PROVE r = q
    <3>1. CASE r \in rows /\ q \in rows
      BY <3>1, <2>12 DEF StoreSound, StoreInv
    <3>2. CASE r \in new /\ q \in new
      <4>1. PICK a \in got : r = <<nextId, a[1], a[2]>>
        BY <3>2 DEF new, RowsOf
      <4>2. PICK b \in got : q = <<nextId, b[1], b[2]>>
        BY <3>2 DEF new, RowsOf
      <4>3. a[1] = b[1]
        BY <4>1, <4>2, <2>12
      <4>4. a = b
        BY <4>3, <2>1
      <4> QED BY <4>1, <4>2, <4>4
    <3> QED BY <3>1, <3>2, <2>1, <2>5, <2>6, <2>12
  <2>13. StoreSound'
    BY <2>8, <2>11, <2>12 DEF StoreSound, StoreInv
  <2>14. Immutable
    <3>1. \A s \in DOMAIN snaps : Content(s)' = Content(s)
      BY <2>9 DEF Content
    <3>2. \A s \in DOMAIN snaps' : s < nextId => s \in DOMAIN snaps
      BY <1>1, <2>7
    <3> QED BY <1>1, <2>1, <2>7, <3>1, <3>2 DEF Immutable
  <2>15. Autos' \subseteq Autos \cup (IF trigger = "auto" THEN {nextId} ELSE {})
    BY <2>2, <2>7 DEF Autos
  <2> QED BY <2>2, <2>7, <2>13, <2>14, <2>15
<1> QED BY <1>2, <1>3

LEMMA RemoveSound ==
    ASSUME StoreSound, NEW dead, RemoveSnapshot(dead)
    PROVE  /\ StoreSound' /\ Immutable /\ nextId' = nextId
           /\ DOMAIN snaps' = DOMAIN snaps \ dead
           /\ Autos' = Autos \ dead
<1>1. /\ snaps' = [s \in DOMAIN snaps \ dead |-> snaps[s]]
      /\ rows' = {r \in rows : r[1] \notin dead} /\ nextId' = nextId
  BY DEF RemoveSnapshot, Restrict
<1>2. DOMAIN snaps' = DOMAIN snaps \ dead /\ \A s \in DOMAIN snaps' : snaps'[s] = snaps[s]
  BY <1>1
<1>3. \A s \in DOMAIN snaps' : {r \in rows' : r[1] = s} = {r \in rows : r[1] = s}
  BY <1>1, <1>2
<1>4. StoreTyped'
  <2>1. rows' \in SUBSET rows /\ IsFiniteSet(rows)
    BY <1>1 DEF StoreSound, StoreTyped
  <2>2. IsFiniteSet(rows')
    BY <2>1, FS_Subset
  <2>3. rows' \in SUBSET Triples
    BY <2>1 DEF StoreSound, StoreTyped
  <2>4. snaps' \in [DOMAIN snaps' -> SnapRec]
    BY <1>1 DEF StoreSound, StoreTyped
  <2> QED BY <1>1, <1>2, <2>2, <2>3, <2>4 DEF StoreSound, StoreTyped
<1>5. StoreInv'
  <2>1. \A s \in DOMAIN snaps' : Cardinality({r \in rows' : r[1] = s}) = snaps'[s].counts
    BY <1>2, <1>3 DEF StoreSound, StoreInv, SnapshotsAreWhole
  <2>2. \A r \in rows' : r[1] \in DOMAIN snaps'
    BY <1>1, <1>2 DEF StoreSound, StoreInv, SnapshotsAreWhole
  <2> QED BY <1>1, <2>1, <2>2 DEF StoreSound, StoreInv, SnapshotsAreWhole
<1>6. Immutable
  <2>1. \A s \in DOMAIN snaps' : Content(s)' = Content(s)
    BY <1>3 DEF Content
  <2>2. nextId \in Int
    BY DEF StoreSound, StoreTyped
  <2> QED BY <1>1, <1>2, <2>1, <2>2 DEF Immutable
<1>7. Autos' = Autos \ dead
  BY <1>2 DEF Autos
<1> QED BY <1>1, <1>2, <1>4, <1>5, <1>6, <1>7 DEF StoreSound

\* Retention keeps the newest automatic snapshots, and at most Keep of them.
LEMMA PruneSound ==
    ASSUME StoreSound, PruneAutoSnapshots
    PROVE  /\ StoreSound' /\ Immutable /\ nextId' = nextId
           /\ Autos' \subseteq Autos
           /\ Keep > 0 => Cardinality(Autos') <= Keep
           /\ \A s \in DOMAIN snaps \ DOMAIN snaps' :
                s \in Autos /\ \E t \in Autos : t > s /\ t \in DOMAIN snaps'
<1>1. PICK dead : dead = {s \in Autos : Keep > 0 /\ Surplus(s)}
  OBVIOUS
<1>2. /\ StoreSound' /\ Immutable /\ nextId' = nextId
      /\ DOMAIN snaps' = DOMAIN snaps \ dead /\ Autos' = Autos \ dead
  BY <1>1, RemoveSound DEF PruneAutoSnapshots
<1>3. Autos \in SUBSET Int /\ IsFiniteSet(Autos) /\ Autos \subseteq DOMAIN snaps /\ Keep \in Nat
  BY AutosFinite, Settings DEF StoreSound, Autos
<1>4. \A s : {t \in Autos : t > s} \in SUBSET Autos /\ IsFiniteSet({t \in Autos : t > s})
             /\ Cardinality({t \in Autos : t > s}) \in Nat
  <2>1. ASSUME NEW s PROVE IsFiniteSet({t \in Autos : t > s}) /\ Cardinality({t \in Autos : t > s}) \in Nat
    <3>1. {t \in Autos : t > s} \in SUBSET Autos
      OBVIOUS
    <3>2. IsFiniteSet({t \in Autos : t > s})
      BY <1>3, <3>1, FS_Subset
    <3> QED BY <3>2, FS_CardinalityType
  <2> QED BY <2>1
<1>5. ASSUME Keep > 0 PROVE Cardinality(Autos') <= Keep
  <2>1. PICK A : A = Autos'
    OBVIOUS
  <2>2. A \in SUBSET Int /\ IsFiniteSet(A) /\ A \in SUBSET Autos
    <3>1. A \in SUBSET Autos
      BY <2>1, <1>2
    <3>2. IsFiniteSet(A)
      BY <1>3, <3>1, FS_Subset
    <3> QED BY <1>3, <3>1, <3>2
  <2>3. ASSUME NEW x \in A PROVE Cardinality({y \in A : y > x}) < Keep
    <3>1. x \in Autos /\ ~ Surplus(x)
      BY <1>1, <1>2, <1>5, <2>1
    <3>2. Cardinality({t \in Autos : t > x}) < Keep
      BY <1>3, <1>4, <3>1 DEF Surplus
    <3>3. {y \in A : y > x} \in SUBSET {t \in Autos : t > x}
      BY <2>2
    <3>4. Cardinality({y \in A : y > x}) <= Cardinality({t \in Autos : t > x})
      BY <1>4, <3>3, FS_Subset
    <3>5. Cardinality({y \in A : y > x}) \in Nat
      <4>1. IsFiniteSet({y \in A : y > x})
        BY <1>4, <3>3, FS_Subset
      <4> QED BY <4>1, FS_CardinalityType
    <3> QED BY <1>3, <1>4, <3>2, <3>4, <3>5
  <2>4. Cardinality(A) <= Keep
    BY <1>3, <1>5, <2>2, <2>3, FewAbove
  <2> QED BY <2>1, <2>4
<1>6. ASSUME NEW s \in DOMAIN snaps \ DOMAIN snaps'
      PROVE  s \in Autos /\ \E t \in Autos : t > s /\ t \in DOMAIN snaps'
  <2>1. s \in dead /\ s \in Autos /\ Keep > 0 /\ Surplus(s)
    BY <1>1, <1>2
  <2>2. {t \in Autos : t > s} # {}
    BY <1>3, <2>1, FS_EmptySet DEF Surplus
  <2>3. PICK u \in Autos : u > s
    BY <2>2
  <2>4. PICK t \in Autos : \A y \in Autos : y <= t
    BY <1>3, <2>1, LargestExists
  <2>5. t > s
    BY <1>3, <2>1, <2>3, <2>4
  <2>6. {y \in Autos : y > t} = {}
    <3>1. \A y \in Autos : y \in Int
      BY <1>3
    <3> QED BY <2>4, <3>1
  <2>7. ~ Surplus(t)
    BY <1>3, <2>1, <2>6, FS_EmptySet DEF Surplus
  <2>8. t \in DOMAIN snaps'
    BY <1>1, <1>2, <1>3, <2>7
  <2> QED BY <2>1, <2>5, <2>8
<1> QED BY <1>2, <1>5, <1>6

\* Who remembers an id still remembers the right thing.
LEMMA RemembersStill ==
    ASSUME HistoryInv, Immutable, nextId' \in Int
    PROVE  /\ (export' = export => ExportInv')
           /\ (job'["auto"] = job["auto"] => CompareInv')
<1>1. nextId' >= nextId /\ nextId \in Int
  BY DEF Immutable, HistoryInv, TypeInv, StoreTyped
<1>2. ASSUME export' = export PROVE ExportInv'
  <2>1. export.id \in Int
    BY DEF HistoryInv, TypeInv, ExportTyped, ExportRec
  <2>2. ExportWholeOrBare'
    BY <1>2 DEF HistoryInv, ExportInv, ExportWholeOrBare
  <2>3. ASSUME export.stage = "rows"
        PROVE  /\ export.id < nextId'
               /\ export.id \in DOMAIN snaps' => snaps'[export.id].counts = export.counts
    BY <1>1, <2>1, <2>3 DEF HistoryInv, ExportInv, Immutable
  <2> QED BY <1>2, <2>2, <2>3 DEF ExportInv
<1>3. ASSUME job'["auto"] = job["auto"] PROVE CompareInv'
  <2>1. PICK a : a = job["auto"]
    OBVIOUS
  <2>2. a.over \in Int
    BY <2>1 DEF HistoryInv, TypeInv, JobsTyped, JobRec, Jobs
  <2>3. ASSUME a.stage = "create"
        PROVE  a.over < nextId' /\ (a.over \in DOMAIN snaps' => Content(a.over)' # a.got)
    <3>1. a.over < nextId /\ (a.over \in DOMAIN snaps => Content(a.over) # a.got)
      BY <2>1, <2>3 DEF HistoryInv, CompareInv
    <3> QED BY <1>1, <2>2, <3>1 DEF Immutable
  <2> QED BY <1>3, <2>1, <2>3 DEF CompareInv, Content
<1> QED BY <1>2, <1>3

\* A step that leaves the store alone.
LEMMA StoreStays ==
    ASSUME StoreSound, UNCHANGED store
    PROVE  StoreSound' /\ Immutable /\ nextId' = nextId /\ Autos' = Autos
<1>1. nextId' = nextId /\ snaps' = snaps /\ rows' = rows
  BY DEF store
<1>2. nextId \in Int /\ \A s : Content(s)' = Content(s)
  BY <1>1 DEF StoreSound, StoreTyped, Content
<1> QED BY <1>1, <1>2 DEF StoreSound, StoreTyped, StoreInv, SnapshotsAreWhole, Immutable, Autos

---------------------------------------------------------------------------
(* Initial states and the steps of the history *)

LEMMA IdleRecords ==
    /\ Idle \in JobRec /\ Idle.stage = "idle" /\ Idle.got = {} /\ IsFiniteSet({})
    /\ NoExport \in ExportRec /\ NoExport.stage = "idle" /\ NoExport.got = {}
BY FS_EmptySet DEF Idle, NoExport, JobRec, ExportRec

LEMMA HistoryInitInv == HistoryInit => HistoryInv
<1> SUFFICES ASSUME HistoryInit PROVE HistoryInv
  OBVIOUS
<1>1. WorldTyped
  BY Settings DEF HistoryInit, WorldTyped
<1>2. snaps = <<>> /\ DOMAIN snaps = {} /\ rows = {} /\ nextId = 1
  BY DEF HistoryInit
<1>3. StoreTyped
  <2>1. snaps \in [{} -> SnapRec]
    <3>1. <<>> = [x \in {} |-> 0]
      OBVIOUS
    <3> QED BY <1>2, <3>1
  <2> QED BY <1>2, <2>1, Settings, FS_EmptySet DEF StoreTyped
<1>4. \A j \in Jobs : job[j] = Idle
  BY DEF HistoryInit
<1>5. JobsTyped /\ ExportTyped
  BY <1>4, IdleRecords DEF HistoryInit, JobsTyped, ExportTyped
<1>6. TypeInv
  BY <1>1, <1>3, <1>5 DEF TypeInv, HistoryInit
<1>7. PhaseInv
  BY Settings DEF PhaseInv, HistoryInit
<1>8. StoreInv
  BY <1>2 DEF StoreInv, SnapshotsAreWhole
<1>9. ExportInv /\ CompareInv
  BY <1>4, IdleRecords DEF ExportInv, ExportWholeOrBare, CompareInv, HistoryInit, Jobs
<1>10. AutosBounded
  <2>1. Autos = {} /\ Cardinality(Autos) = 0
    BY <1>2, FS_EmptySet DEF Autos
  <2>2. job["auto"].stage = "idle" /\ upsets = 0
    BY <1>4, IdleRecords DEF Jobs, HistoryInit
  <2> QED BY <2>1, <2>2, Settings DEF AutosBounded
<1> QED BY <1>6, <1>7, <1>8, <1>9, <1>10 DEF HistoryInv

\* What is left of the bound when the automatic snapshots do not grow.
LEMMA BoundStays ==
    ASSUME HistoryInv, StoreSound', Autos' \subseteq Autos, upsets' \in Nat, upsets' >= upsets,
           \/ job'["auto"].stage = "prune"
           \/ job["auto"].stage # "prune"
           \/ upsets' >= upsets + 1
           \/ Keep > 0 => Cardinality(Autos') <= Keep
    PROVE  AutosBounded'
<1>1. StoreTyped /\ AutosBounded /\ Keep \in Nat /\ upsets \in Nat
  BY Settings DEF HistoryInv, TypeInv
<1>2. Autos' \in SUBSET Autos /\ IsFiniteSet(Autos) /\ Cardinality(Autos) \in Nat
  BY <1>1, AutosFinite
<1>3. IsFiniteSet(Autos') /\ Cardinality(Autos') <= Cardinality(Autos)
  BY <1>2, FS_Subset
<1>4. Cardinality(Autos') \in Nat
  BY <1>3, FS_CardinalityType
<1>5. PICK n : n = IF job["auto"].stage = "prune" THEN 1 ELSE 0
  OBVIOUS
<1>6. PICK m : m = IF job'["auto"].stage = "prune" THEN 1 ELSE 0
  OBVIOUS
<1>7. Keep > 0 => Cardinality(Autos) <= Keep + upsets + n
  BY <1>1, <1>5 DEF AutosBounded
<1>8. Keep > 0 => Cardinality(Autos') <= Keep + upsets' + m
  <2>1. CASE job'["auto"].stage = "prune"
    BY <2>1, <1>1, <1>2, <1>3, <1>4, <1>5, <1>6, <1>7
  <2>2. CASE job["auto"].stage # "prune"
    BY <2>2, <1>1, <1>2, <1>3, <1>4, <1>5, <1>6, <1>7
  <2>3. CASE upsets' >= upsets + 1
    BY <2>3, <1>1, <1>2, <1>3, <1>4, <1>5, <1>6, <1>7
  <2>4. CASE Keep > 0 => Cardinality(Autos') <= Keep
    BY <2>4, <1>1, <1>4, <1>6
  <2> QED BY <2>1, <2>2, <2>3, <2>4
<1> QED BY <1>6, <1>8 DEF AutosBounded

\* The parts of the invariant that a step of the store has to keep.
LEMMA Composed ==
    ASSUME WorldTyped', StoreSound', JobsTyped', ExportTyped', upsets' \in Nat, PhaseInv',
           ExportInv', CompareInv', AutosBounded'
    PROVE  HistoryInv'
BY DEF HistoryInv, TypeInv, StoreSound

LEMMA Parts ==
    HistoryInv => /\ WorldTyped /\ StoreSound /\ JobsTyped /\ ExportTyped /\ upsets \in Nat
                  /\ PhaseInv /\ ExportInv /\ CompareInv /\ AutosBounded
                  /\ nextId \in Int /\ job["auto"] \in JobRec /\ job["manual"] \in JobRec
BY DEF HistoryInv, TypeInv, StoreSound, StoreTyped, JobsTyped, Jobs

\* Steps around the collector: they leave the store and all ids alone.
LEMMA OutsideInv ==
    ASSUME HistoryInv, UNCHANGED <<store, job, export>>, WorldTyped', PhaseInv',
           upsets' \in Nat, upsets' >= upsets
    PROVE  HistoryInv'
<1>1. UNCHANGED store /\ job' = job /\ export' = export
  OBVIOUS
<1>2. StoreSound' /\ Immutable /\ nextId' = nextId /\ Autos' = Autos
  BY <1>1, Parts, StoreStays
<1>3. ExportInv' /\ CompareInv'
  BY <1>1, <1>2, Parts, RemembersStill
<1>4. JobsTyped' /\ ExportTyped'
  BY <1>1, Parts DEF JobsTyped, ExportTyped
<1>5. AutosBounded'
  BY <1>1, <1>2, BoundStays
<1> QED BY <1>2, <1>3, <1>4, <1>5, Composed

LEMMA ClusterWriteInv ==
    ASSUME HistoryInv, ClusterWrite
    PROVE  HistoryInv'
<1>1. UNCHANGED <<store, job, export>> /\ UNCHANGED <<sess, gone>> /\ upsets' = upsets + 1
  BY DEF ClusterWrite, Upset
<1>2. WorldTyped'
  <2>1. PICK k \in Keys :
          \/ world' = Restrict(world, DOMAIN world \ {k})
          \/ \E v \in Values[k] :
                world' = [x \in DOMAIN world \cup {k} |-> IF x = k THEN v ELSE world[x]]
    BY DEF ClusterWrite
  <2>2. CASE world' = Restrict(world, DOMAIN world \ {k})
    BY <2>2, Parts DEF WorldTyped, Restrict
  <2>3. ASSUME NEW v \in Values[k],
               world' = [x \in DOMAIN world \cup {k} |-> IF x = k THEN v ELSE world[x]]
        PROVE  WorldTyped'
    BY <2>1, <2>3, Parts DEF WorldTyped
  <2> QED BY <2>1, <2>2, <2>3
<1>3. PhaseInv'
  BY <1>1, Parts DEF PhaseInv
<1>4. upsets' \in Nat /\ upsets' >= upsets
  BY <1>1, Parts
<1> QED BY <1>1, <1>2, <1>3, <1>4, OutsideInv

LEMMA SessionStepInv ==
    ASSUME HistoryInv, SessionStep
    PROVE  HistoryInv'
<1>1. UNCHANGED <<store, job, export>> /\ world' = world
  BY DEF SessionStep
<1>2. upsets' \in Nat /\ upsets' >= upsets
  <2>1. upsets' = upsets \/ upsets' = upsets + 1
    BY DEF SessionStep, Upset
  <2> QED BY <2>1, Parts
<1>3. PhaseInv'
  <2>1. PICK n \in Nat : n = Len(Sources) /\ n >= 1
    BY Settings
  <2>2. gone \in 0..n /\ sess \in {"live", "purging", "suspended", "loading"}
        /\ (sess = "live" => gone = 0) /\ (sess \in {"purging", "suspended"} => gone >= 1)
    BY <2>1, Parts DEF PhaseInv
  <2>3. \/ sess' = "purging" /\ gone' = 1
        \/ sess = "purging" /\ gone < n /\ gone' = gone + 1 /\ sess' = sess
        \/ sess = "purging" /\ sess' = "suspended" /\ gone' = gone
        \/ sess = "suspended" /\ sess' = "loading" /\ gone' = gone - 1
        \/ sess = "loading" /\ gone > 0 /\ gone' = gone - 1 /\ sess' = sess
        \/ sess = "loading" /\ ~ (gone > 0) /\ sess' = "live" /\ gone' = gone
    BY <2>1 DEF SessionStep
  <2>4. /\ sess' \in {"live", "purging", "suspended", "loading"} /\ gone' \in 0..n
        /\ sess' = "live" => gone' = 0
        /\ sess' \in {"purging", "suspended"} => gone' >= 1
    BY <2>1, <2>2, <2>3
  <2> QED BY <2>1, <2>4 DEF PhaseInv
<1>4. WorldTyped'
  BY <1>1, Parts DEF WorldTyped
<1> QED BY <1>1, <1>2, <1>3, <1>4, OutsideInv

\* Steps of the store by an operator: the jobs and the count of upsets stay.
LEMMA DeleteInv ==
    ASSUME HistoryInv, DeleteSnapshot
    PROVE  HistoryInv'
<1>1. UNCHANGED <<world, sess, gone, job, export, upsets>>
  BY DEF DeleteSnapshot
<1>2. PICK s \in DOMAIN snaps : RemoveSnapshot({s})
  BY DEF DeleteSnapshot
<1>3. StoreSound' /\ Immutable /\ nextId' = nextId /\ Autos' \subseteq Autos
  BY <1>2, Parts, RemoveSound
<1>4. ExportInv' /\ CompareInv'
  BY <1>1, <1>3, Parts, RemembersStill
<1>5. WorldTyped' /\ JobsTyped' /\ ExportTyped' /\ PhaseInv' /\ upsets' \in Nat /\ upsets' >= upsets
  BY <1>1, Parts DEF WorldTyped, JobsTyped, ExportTyped, PhaseInv
<1>6. AutosBounded'
  BY <1>1, <1>3, <1>5, BoundStays
<1> QED BY <1>3, <1>4, <1>5, <1>6, Composed

LEMMA SweepInv ==
    ASSUME HistoryInv, Sweep
    PROVE  HistoryInv'
<1>1. UNCHANGED <<world, sess, gone, job, export, upsets>> /\ PruneAutoSnapshots
  BY DEF Sweep
<1>2. StoreSound' /\ Immutable /\ nextId' = nextId /\ Autos' \subseteq Autos
  BY <1>1, Parts, PruneSound
<1>3. ExportInv' /\ CompareInv'
  BY <1>1, <1>2, Parts, RemembersStill
<1>4. WorldTyped' /\ JobsTyped' /\ ExportTyped' /\ PhaseInv' /\ upsets' \in Nat /\ upsets' >= upsets
  BY <1>1, Parts DEF WorldTyped, JobsTyped, ExportTyped, PhaseInv
<1>5. AutosBounded'
  BY <1>1, <1>2, <1>4, BoundStays
<1> QED BY <1>2, <1>3, <1>4, <1>5, Composed

LEMMA ExportMetaInv ==
    ASSUME HistoryInv, ExportMeta
    PROVE  HistoryInv'
<1>1. UNCHANGED <<world, sess, gone, job, upsets>> /\ UNCHANGED store
  BY DEF ExportMeta
<1>2. PICK s \in DOMAIN snaps :
        export' = [stage |-> "rows", id |-> s, counts |-> snaps[s].counts, got |-> {}]
  BY DEF ExportMeta
<1>3. StoreSound' /\ Immutable /\ nextId' = nextId /\ Autos' = Autos
  BY <1>1, Parts, StoreStays
<1>4. snaps[s] \in SnapRec /\ s \in 1..(nextId - 1)
  BY <1>2, Parts DEF StoreSound, StoreTyped
<1>5. s \in Nat /\ s < nextId /\ snaps[s].counts \in Nat
  BY <1>4, Parts DEF SnapRec
<1>6. export'.stage = "rows" /\ export'.id = s /\ export'.counts = snaps[s].counts /\ export'.got = {}
  BY <1>2
<1>7. ExportTyped'
  BY <1>2, <1>5, <1>6, FS_EmptySet DEF ExportTyped, ExportRec
<1>8. ExportInv'
  <2>1. snaps' = snaps
    BY <1>1 DEF store
  <2> QED BY <1>3, <1>5, <1>6, <2>1 DEF ExportInv, ExportWholeOrBare
<1>9. CompareInv'
  BY <1>1, <1>3, Parts, RemembersStill
<1>10. WorldTyped' /\ JobsTyped' /\ PhaseInv' /\ upsets' \in Nat /\ upsets' >= upsets
  BY <1>1, Parts DEF WorldTyped, JobsTyped, PhaseInv
<1>11. AutosBounded'
  BY <1>1, <1>3, <1>10, BoundStays
<1> QED BY <1>3, <1>7, <1>8, <1>9, <1>10, <1>11, Composed

\* The second statement finds the snapshot as it was, or no row of it.
LEMMA ExportRowsInv ==
    ASSUME HistoryInv, ExportRows
    PROVE  HistoryInv'
<1>1. UNCHANGED <<world, sess, gone, job, upsets>> /\ UNCHANGED store /\ export.stage = "rows"
  BY DEF ExportRows
<1>2. StoreSound' /\ Immutable /\ nextId' = nextId /\ Autos' = Autos
  BY <1>1, Parts, StoreStays
<1>3. PICK got : got = Content(export.id)
  OBVIOUS
<1>4. got \in SUBSET Pairs /\ IsFiniteSet(got)
      /\ Cardinality(got) = Cardinality({r \in rows : r[1] = export.id})
  BY <1>3, Parts, Contents DEF StoreSound
<1>5. export' = [export EXCEPT !.stage = "done", !.got = got] /\ export \in ExportRec
  BY <1>3, Parts DEF ExportRows, ExportTyped
<1>6. export' \in ExportRec /\ export'.stage = "done" /\ export'.got = got /\ export'.counts = export.counts
  BY <1>4, <1>5 DEF ExportRec
<1>7. ExportTyped'
  BY <1>4, <1>6 DEF ExportTyped
<1>8. Cardinality(got) \in {0, export.counts}
  <2>1. CASE export.id \in DOMAIN snaps
    <3>1. snaps[export.id].counts = export.counts
      BY <2>1, <1>1, Parts DEF ExportInv
    <3>2. Cardinality({r \in rows : r[1] = export.id}) = snaps[export.id].counts
      BY <2>1, Parts DEF StoreSound, StoreInv, SnapshotsAreWhole
    <3> QED BY <3>1, <3>2, <1>4
  <2>2. CASE export.id \notin DOMAIN snaps
    <3>1. {r \in rows : r[1] = export.id} = {}
      BY <2>2, Parts DEF StoreSound, StoreInv, SnapshotsAreWhole
    <3> QED BY <3>1, <1>4, FS_EmptySet
  <2> QED BY <2>1, <2>2
<1>9. ExportInv'
  BY <1>6, <1>8 DEF ExportInv, ExportWholeOrBare
<1>10. CompareInv'
  BY <1>1, <1>2, Parts, RemembersStill
<1>11. WorldTyped' /\ JobsTyped' /\ PhaseInv' /\ upsets' \in Nat /\ upsets' >= upsets
  BY <1>1, Parts DEF WorldTyped, JobsTyped, PhaseInv
<1>12. AutosBounded'
  BY <1>1, <1>2, <1>11, BoundStays
<1> QED BY <1>2, <1>7, <1>9, <1>10, <1>11, <1>12, Composed

LEMMA ImportInv ==
    ASSUME HistoryInv, ImportSnapshot
    PROVE  HistoryInv'
<1>1. UNCHANGED <<world, sess, gone, job, upsets>>
  BY DEF ImportSnapshot
<1>2. PICK got \in SUBSET Pairs : /\ IsFiniteSet(got) /\ CreateSnapshot("import", got)
                                  /\ export' = export \/ export' = NoExport
  <2>1. CASE \E f \in Files : CreateSnapshot(ImportTrigger, f) /\ UNCHANGED export
    BY <2>1, Settings DEF ImportTrigger
  <2>2. CASE CreateSnapshot(ImportTrigger, export.got) /\ export' = NoExport
    <3>1. export.got \in SUBSET Pairs /\ IsFiniteSet(export.got)
      BY Parts DEF ExportTyped, ExportRec
    <3> QED BY <2>2, <3>1 DEF ImportTrigger
  <2> QED BY <2>1, <2>2 DEF ImportSnapshot
<1>3. StoreSound' /\ Immutable /\ Autos' \subseteq Autos
  BY <1>2, Parts, CreateSound
<1>4. nextId' \in Int
  BY <1>3 DEF StoreSound, StoreTyped
<1>5. CompareInv' /\ (export' = export => ExportInv')
  BY <1>1, <1>3, <1>4, RemembersStill
<1>6. ExportInv' /\ ExportTyped'
  <2>1. CASE export' = export
    BY <2>1, <1>5, Parts DEF ExportTyped
  <2>2. CASE export' = NoExport
    BY <2>2, IdleRecords DEF ExportInv, ExportWholeOrBare, ExportTyped
  <2> QED BY <2>1, <2>2, <1>2
<1>7. WorldTyped' /\ JobsTyped' /\ PhaseInv' /\ upsets' \in Nat /\ upsets' >= upsets
  BY <1>1, Parts DEF WorldTyped, JobsTyped, PhaseInv
<1>8. AutosBounded'
  BY <1>1, <1>3, <1>7, BoundStays
<1> QED BY <1>3, <1>5, <1>6, <1>7, <1>8, Composed

---------------------------------------------------------------------------
(* The steps of a snapshot being taken *)

\* A step of a job that leaves the store alone.
LEMMA JobInv ==
    ASSUME HistoryInv, NEW j \in Jobs, NEW rec \in JobRec, IsFiniteSet(rec.got),
           job' = [job EXCEPT ![j] = rec], UNCHANGED <<world, sess, gone, export>>, UNCHANGED store,
           upsets' = upsets \/ upsets' = upsets + 1,
           job["auto"].stage = "prune" => j = "manual",
           j = "auto" /\ rec.stage = "create" =>
             /\ rec.over < nextId
             /\ rec.over \in DOMAIN snaps => Content(rec.over) # rec.got
    PROVE  HistoryInv'
<1>1. StoreSound' /\ Immutable /\ nextId' = nextId /\ Autos' = Autos
  BY Parts, StoreStays
<1>2. \A i \in Jobs : job'[i] = IF i = j THEN rec ELSE job[i]
  BY Parts DEF JobsTyped
<1>3. JobsTyped'
  <2>1. job' \in [Jobs -> JobRec]
    BY Parts DEF JobsTyped
  <2>2. \A i \in Jobs : IsFiniteSet(job'[i].got)
    BY <1>2, Parts DEF JobsTyped
  <2> QED BY <2>1, <2>2 DEF JobsTyped
<1>4. ExportInv' /\ (job'["auto"] = job["auto"] => CompareInv')
  BY <1>1, Parts, RemembersStill
<1>5. CompareInv'
  <2>1. CASE j = "manual"
    BY <2>1, <1>2, <1>4 DEF Jobs
  <2>2. CASE j = "auto"
    <3>1. job'["auto"] = rec
      BY <2>2, <1>2
    <3>2. snaps' = snaps /\ rows' = rows
      BY DEF store
    <3>3. rec.stage = "create" => rec.over < nextId' /\ (rec.over \in DOMAIN snaps' => Content(rec.over)' # rec.got)
      BY <2>2, <1>1, <3>2 DEF Content
    <3> QED BY <3>1, <3>3 DEF CompareInv, Content
  <2> QED BY <2>1, <2>2 DEF Jobs
<1>6. WorldTyped' /\ ExportTyped' /\ PhaseInv'
  BY Parts DEF WorldTyped, ExportTyped, PhaseInv
<1>7. upsets' \in Nat /\ upsets' >= upsets
  BY Parts
<1>8. job'["auto"].stage = "prune" \/ job["auto"].stage # "prune"
  BY <1>2 DEF Jobs
<1>9. AutosBounded'
  BY <1>1, <1>7, <1>8, BoundStays
<1> QED BY <1>1, <1>3, <1>4, <1>5, <1>6, <1>7, <1>9, Composed

LEMMA TickInv ==
    ASSUME HistoryInv, TickAuto \/ TakeSnapshot
    PROVE  HistoryInv'
<1>1. PICK rec : rec = [Idle EXCEPT !.stage = "read"]
  OBVIOUS
<1>2. rec \in JobRec /\ IsFiniteSet(rec.got) /\ rec.stage = "read"
  <2>1. rec = [stage |-> "read", at |-> 1, got |-> {}, over |-> 0]
    BY <1>1 DEF Idle
  <2> QED BY <2>1, FS_EmptySet DEF JobRec
<1>3. UNCHANGED <<world, sess, gone, export>> /\ UNCHANGED store /\ upsets' = upsets
  BY DEF TickAuto, TakeSnapshot
<1>4. \/ job["auto"].stage # "prune" /\ job' = [job EXCEPT !["auto"] = rec]
      \/ job' = [job EXCEPT !["manual"] = rec]
  BY <1>1 DEF TickAuto, TakeSnapshot
<1>5. CASE job["auto"].stage # "prune" /\ job' = [job EXCEPT !["auto"] = rec]
  <2>1. "auto" \in Jobs
    BY DEF Jobs
  <2> QED BY <1>2, <1>3, <1>5, <2>1, JobInv
<1>6. CASE job' = [job EXCEPT !["manual"] = rec]
  <2>1. "manual" \in Jobs
    BY DEF Jobs
  <2> QED BY <1>2, <1>3, <1>6, <2>1, JobInv
<1> QED BY <1>4, <1>5, <1>6

\* What a source answers: finitely many rows with contents of the database.
LEMMA CachedRows ==
    ASSUME WorldTyped, NEW i
    PROVE  Cached(i) \in SUBSET Pairs /\ IsFiniteSet(Cached(i))
<1>1. CASE Empty(i)
  BY <1>1, FS_EmptySet DEF Cached
<1>2. CASE ~ Empty(i)
  <2>1. PICK D : D = {x \in DOMAIN world : TableOf[x] = Sources[i]}
    OBVIOUS
  <2>2. D \in SUBSET Keys /\ \A k \in D : world[k] \in Known
    BY <2>1, Settings DEF WorldTyped
  <2>3. IsFiniteSet(D)
    BY <2>2, Settings, FS_Subset
  <2>4. PICK T : T = {<<k, world[k]>> : k \in D}
    OBVIOUS
  <2>5. PICK f : f = [k \in D |-> <<k, world[k]>>]
    OBVIOUS
  <2>6. f \in [D -> T] /\ \A y \in T : \E x \in D : f[x] = y
    BY <2>4, <2>5
  <2>7. IsFiniteSet(T)
    BY <2>3, <2>6, FiniteImage
  <2>8. T \in SUBSET Pairs
    BY <2>2, <2>4 DEF Pairs
  <2>9. Cached(i) = T
    BY <1>2, <2>1, <2>4 DEF Cached
  <2> QED BY <2>7, <2>8, <2>9
<1> QED BY <1>1, <1>2

LEMMA ReadInv ==
    ASSUME HistoryInv, NEW j \in Jobs, ReadSource(j)
    PROVE  HistoryInv'
<1>1. PICK a : a = job[j]
  OBVIOUS
<1>2. a \in JobRec /\ IsFiniteSet(a.got) /\ a.stage = "read"
  BY <1>1, Parts DEF JobsTyped, ReadSource
<1>3. PICK st : st = IF a.at < Len(Sources) THEN "read" ELSE IF j = "auto" THEN "compare" ELSE "create"
  OBVIOUS
<1>4. PICK next : next = [a EXCEPT !.at = a.at + 1, !.stage = st]
  OBVIOUS
<1>5. PICK more : more = [next EXCEPT !.got = a.got \cup Cached(a.at)]
  OBVIOUS
<1>6. a.at + 1 \in Nat /\ st \in {"read", "compare", "create"} /\ (j = "auto" => st # "create")
  BY <1>2, <1>3 DEF JobRec
<1>7. next \in JobRec /\ next.got = a.got /\ next.stage = st
  BY <1>2, <1>4, <1>6 DEF JobRec
<1>8. a.got \cup Cached(a.at) \in SUBSET Pairs /\ IsFiniteSet(a.got \cup Cached(a.at))
  <2>1. Cached(a.at) \in SUBSET Pairs /\ IsFiniteSet(Cached(a.at))
    BY Parts, CachedRows
  <2>2. a.got \in SUBSET Pairs
    BY <1>2 DEF JobRec
  <2> QED BY <1>2, <2>1, <2>2, FS_Union
<1>9. more \in JobRec /\ more.got = a.got \cup Cached(a.at) /\ more.stage = st
  BY <1>5, <1>7, <1>8 DEF JobRec
<1>10. UNCHANGED <<world, sess, gone, export>> /\ UNCHANGED store
  BY DEF ReadSource
<1>11. \/ job' = [job EXCEPT ![j] = more] /\ upsets' = upsets
       \/ job' = [job EXCEPT ![j] = next] /\ upsets' = upsets + 1
  BY <1>1, <1>3, <1>4, <1>5 DEF ReadSource, Upset
<1>12. job["auto"].stage = "prune" => j = "manual"
  BY <1>1, <1>2 DEF Jobs
<1>13. CASE job' = [job EXCEPT ![j] = more] /\ upsets' = upsets
  BY <1>6, <1>8, <1>9, <1>10, <1>12, <1>13, JobInv
<1>14. CASE job' = [job EXCEPT ![j] = next] /\ upsets' = upsets + 1
  BY <1>2, <1>6, <1>7, <1>10, <1>12, <1>14, JobInv
<1> QED BY <1>11, <1>13, <1>14

\* The latest snapshot is one of those stored.
LEMMA LatestIs ==
    ASSUME StoreTyped
    PROVE  /\ Latest \in Int /\ Latest < nextId
           /\ snaps = <<>> => Latest = 0 /\ Latest \notin DOMAIN snaps
           /\ snaps # <<>> => Latest = Max(DOMAIN snaps) /\ Latest \in DOMAIN snaps
<1>1. nextId \in Int /\ nextId >= 1 /\ DOMAIN snaps \subseteq 1..(nextId - 1)
  BY Settings DEF StoreTyped
<1>2. CASE snaps = <<>>
  <2>1. Latest = 0 /\ 0 \notin DOMAIN snaps
    BY <1>1, <1>2 DEF Latest
  <2> QED BY <1>1, <1>2, <2>1
<1>3. CASE snaps # <<>>
  <2>1. DOMAIN snaps # {}
    <3>1. ASSUME DOMAIN snaps = {} PROVE snaps = <<>>
      <4>1. snaps = [x \in {} |-> snaps[x]]
        BY <3>1 DEF StoreTyped
      <4>2. <<>> = [x \in {} |-> snaps[x]]
        OBVIOUS
      <4> QED BY <4>1, <4>2
    <3> QED BY <1>3, <3>1
  <2>2. PICK D : D = DOMAIN snaps
    OBVIOUS
  <2>3. D \in SUBSET Int /\ IsFiniteSet(D) /\ D # {}
    BY <2>1, <2>2, AutosFinite
  <2>4. Max(D) \in D
    BY <2>3, MaxIsLargest
  <2>5. Latest = Max(D)
    BY <1>3, <2>2 DEF Latest
  <2>6. Latest \in 1..(nextId - 1)
    BY <1>1, <2>2, <2>4, <2>5
  <2> QED BY <1>1, <1>3, <2>2, <2>4, <2>5, <2>6
<1> QED BY <1>2, <1>3

LEMMA CompareAutoInv ==
    ASSUME HistoryInv, CompareAuto
    PROVE  HistoryInv'
<1>1. PICK a : a = job["auto"]
  OBVIOUS
<1>2. a \in JobRec /\ IsFiniteSet(a.got) /\ a.stage = "compare" /\ "auto" \in Jobs
  BY <1>1, Parts DEF JobsTyped, CompareAuto, Jobs
<1>3. UNCHANGED <<world, sess, gone, export>> /\ UNCHANGED store
  BY DEF CompareAuto
<1>4. job["auto"].stage # "prune"
  BY <1>1, <1>2
<1>5. StoreTyped /\ nextId \in Int
  BY Parts DEF StoreSound
<1>6. \A n \in Int : [a EXCEPT !.stage = "create", !.over = n] \in JobRec
  BY <1>2 DEF JobRec
<1>7. \A n \in Int : LET r == [a EXCEPT !.stage = "create", !.over = n]
                     IN  r.got = a.got /\ r.over = n /\ r.stage = "create"
  BY <1>2 DEF JobRec
<1>8. CASE job' = [job EXCEPT !["auto"] = Idle] /\ upsets' = upsets
  <2>1. Idle \in JobRec /\ IsFiniteSet(Idle.got) /\ Idle.stage # "create"
    BY IdleRecords
  <2> QED BY <1>2, <1>3, <1>4, <1>8, <2>1, JobInv
<1>9. CASE /\ job' = [job EXCEPT !["auto"] = [a EXCEPT !.stage = "create", !.over = Latest]]
           /\ upsets' = upsets
           /\ ~ (snaps # <<>> /\ LatestSnapshotContentHash = a.got)
  <2>1. PICK r : r = [a EXCEPT !.stage = "create", !.over = Latest]
    OBVIOUS
  <2>2. Latest \in Int /\ Latest < nextId
    BY <1>5, LatestIs
  <2>3. r \in JobRec /\ r.got = a.got /\ r.over = Latest
    BY <1>6, <1>7, <2>1, <2>2
  <2>4. Latest \in DOMAIN snaps => Content(Latest) # a.got
    BY <1>5, <1>9, LatestIs DEF LatestSnapshotContentHash
  <2>5. job' = [job EXCEPT !["auto"] = r]
    BY <1>9, <2>1
  <2> QED BY <1>2, <1>3, <1>4, <1>9, <2>2, <2>3, <2>4, <2>5, JobInv
<1>10. CASE /\ job' = [job EXCEPT !["auto"] = [a EXCEPT !.stage = "create", !.over = -1]]
            /\ upsets' = upsets + 1
  <2>1. PICK r : r = [a EXCEPT !.stage = "create", !.over = -1]
    OBVIOUS
  <2>2. r \in JobRec /\ r.got = a.got /\ r.over = -1
    <3>1. PICK n \in Int : n = -1
      OBVIOUS
    <3>2. r = [a EXCEPT !.stage = "create", !.over = n]
      BY <2>1, <3>1
    <3>3. r \in JobRec /\ r.got = a.got /\ r.over = n
      BY <1>6, <1>7, <3>2
    <3> QED BY <3>1, <3>3
  <2>3. -1 < nextId /\ -1 \notin DOMAIN snaps
    BY <1>5 DEF StoreTyped
  <2>4. job' = [job EXCEPT !["auto"] = r]
    BY <1>10, <2>1
  <2> QED BY <1>2, <1>3, <1>4, <1>10, <2>2, <2>3, <2>4, JobInv
<1> QED BY <1>1, <1>8, <1>9, <1>10 DEF CompareAuto, Upset

LEMMA CreateInv ==
    ASSUME HistoryInv, NEW j \in Jobs, Create(j)
    PROVE  HistoryInv'
<1>1. UNCHANGED <<world, sess, gone, export>> /\ job[j].stage = "create"
  BY DEF Create
<1>2. CASE UNCHANGED store /\ job' = [job EXCEPT ![j] = Idle] /\ upsets' = upsets + 1
  <2>1. Idle \in JobRec /\ IsFiniteSet(Idle.got) /\ Idle.stage # "create"
    BY IdleRecords
  <2>2. job["auto"].stage = "prune" => j = "manual"
    BY <1>1 DEF Jobs
  <2> QED BY <1>1, <1>2, <2>1, <2>2, JobInv
<1>3. CASE /\ CreateSnapshot(j, job[j].got) /\ upsets' = upsets
           /\ job' = [job EXCEPT ![j] = IF j = "auto" THEN [Idle EXCEPT !.stage = "prune"] ELSE Idle]
  <2>1. job[j].got \in SUBSET Pairs /\ IsFiniteSet(job[j].got) /\ j \in {"auto", "manual", "import"}
    BY Parts DEF JobsTyped, JobRec, Jobs
  <2>2. StoreSound' /\ Immutable /\ Autos' \subseteq Autos \cup (IF j = "auto" THEN {nextId} ELSE {})
    BY <1>3, <2>1, Parts, CreateSound
  <2>3. nextId' \in Int
    BY <2>2 DEF StoreSound, StoreTyped
  <2>4. ExportInv' /\ (job'["auto"] = job["auto"] => CompareInv')
    BY <1>1, <2>2, <2>3, RemembersStill
  <2>5. PICK rec : rec = IF j = "auto" THEN [Idle EXCEPT !.stage = "prune"] ELSE Idle
    OBVIOUS
  <2>6. /\ rec \in JobRec /\ IsFiniteSet(rec.got)
        /\ rec.stage = IF j = "auto" THEN "prune" ELSE "idle"
    <3>1. [Idle EXCEPT !.stage = "prune"] = [stage |-> "prune", at |-> 1, got |-> {}, over |-> 0]
      BY DEF Idle
    <3> QED BY <2>5, <3>1, IdleRecords, FS_EmptySet DEF JobRec
  <2>7. job' = [job EXCEPT ![j] = rec]
    BY <1>3, <2>5
  <2>8. \A i \in Jobs : job'[i] = IF i = j THEN rec ELSE job[i]
    BY <2>7, Parts DEF JobsTyped
  <2>9. JobsTyped'
    <3>1. job' \in [Jobs -> JobRec]
      BY <2>6, <2>7, Parts DEF JobsTyped
    <3> QED BY <3>1, <2>6, <2>8, Parts DEF JobsTyped
  <2>10. CompareInv'
    <3>1. CASE j = "manual"
      BY <3>1, <2>4, <2>8 DEF Jobs
    <3>2. CASE j = "auto"
      BY <3>2, <2>6, <2>8 DEF CompareInv, Jobs
    <3> QED BY <3>1, <3>2 DEF Jobs
  <2>11. AutosBounded'
    <3>1. CASE j = "manual"
      <4>1. job'["auto"] = job["auto"] /\ Autos' \subseteq Autos
        BY <3>1, <2>2, <2>8 DEF Jobs
      <4>2. upsets' \in Nat /\ upsets' >= upsets
        BY <1>3, Parts
      <4> QED BY <2>2, <4>1, <4>2, BoundStays
    <3>2. CASE j = "auto"
      <4>1. job'["auto"].stage = "prune" /\ job["auto"].stage = "create"
        BY <3>2, <1>1, <2>6, <2>8
      <4>2. Autos' \in SUBSET (Autos \cup {nextId}) /\ IsFiniteSet(Autos) /\ Cardinality(Autos) \in Nat
        BY <3>2, <2>2, Parts, AutosFinite DEF StoreSound
      <4>3. IsFiniteSet(Autos \cup {nextId}) /\ Cardinality(Autos \cup {nextId}) <= Cardinality(Autos) + 1
        BY <4>2, FS_AddElement
      <4>4. IsFiniteSet(Autos') /\ Cardinality(Autos') <= Cardinality(Autos \cup {nextId})
        BY <4>2, <4>3, FS_Subset
      <4>5. Cardinality(Autos') \in Nat /\ Cardinality(Autos \cup {nextId}) \in Nat
        BY <4>3, <4>4, FS_CardinalityType
      <4>6. Keep > 0 => Cardinality(Autos) <= Keep + upsets
        BY <4>1, Parts, Settings DEF AutosBounded
      <4>7. Keep > 0 => Cardinality(Autos') <= Keep + upsets + 1
        BY <4>2, <4>3, <4>4, <4>5, <4>6, Parts, Settings
      <4> QED BY <1>3, <4>1, <4>7 DEF AutosBounded
    <3> QED BY <3>1, <3>2 DEF Jobs
  <2>12. WorldTyped' /\ ExportTyped' /\ PhaseInv' /\ upsets' \in Nat
    BY <1>1, <1>3, Parts DEF WorldTyped, ExportTyped, PhaseInv
  <2> QED BY <2>2, <2>4, <2>9, <2>10, <2>11, <2>12, Composed
<1> QED BY <1>2, <1>3 DEF Create, Upset

LEMMA PruneAutoInv ==
    ASSUME HistoryInv, PruneAuto
    PROVE  HistoryInv'
<1>1. UNCHANGED <<world, sess, gone, export>> /\ job' = [job EXCEPT !["auto"] = Idle]
  BY DEF PruneAuto
<1>2. job'["auto"] = Idle /\ job' \in [Jobs -> JobRec] /\ job'["manual"] = job["manual"]
  BY <1>1, IdleRecords, Parts DEF JobsTyped, Jobs
<1>3. JobsTyped' /\ CompareInv'
  BY <1>2, IdleRecords, Parts DEF JobsTyped, CompareInv, Jobs
<1>4. WorldTyped' /\ ExportTyped' /\ PhaseInv'
  BY <1>1, Parts DEF WorldTyped, ExportTyped, PhaseInv
<1>5. CASE PruneAutoSnapshots /\ upsets' = upsets
  <2>1. /\ StoreSound' /\ Immutable /\ nextId' = nextId /\ Autos' \subseteq Autos
        /\ Keep > 0 => Cardinality(Autos') <= Keep
    BY <1>5, Parts, PruneSound
  <2>2. ExportInv'
    BY <1>1, <2>1, Parts, RemembersStill
  <2>3. upsets' \in Nat /\ upsets' >= upsets
    BY <1>5, Parts
  <2>4. AutosBounded'
    BY <2>1, <2>3, BoundStays
  <2> QED BY <1>3, <1>4, <2>1, <2>2, <2>3, <2>4, Composed
<1>6. CASE UNCHANGED store /\ upsets' = upsets + 1
  <2>1. StoreSound' /\ Immutable /\ nextId' = nextId /\ Autos' = Autos
    BY <1>6, Parts, StoreStays
  <2>2. ExportInv'
    BY <1>1, <2>1, Parts, RemembersStill
  <2>3. upsets' \in Nat /\ upsets' >= upsets + 1 /\ upsets' >= upsets
    BY <1>6, Parts
  <2>4. AutosBounded'
    BY <2>1, <2>3, BoundStays
  <2> QED BY <1>3, <1>4, <2>1, <2>2, <2>3, <2>4, Composed
<1> QED BY <1>5, <1>6 DEF PruneAuto, Upset

LEMMA StutterInv ==
    ASSUME HistoryInv, UNCHANGED historyVars
    PROVE  HistoryInv'
<1>1. UNCHANGED <<store, job, export>> /\ UNCHANGED <<world, sess, gone, upsets>>
  BY DEF historyVars, store
<1>2. WorldTyped' /\ PhaseInv' /\ upsets' \in Nat /\ upsets' >= upsets
  BY <1>1, Parts DEF WorldTyped, PhaseInv
<1> QED BY <1>1, <1>2, OutsideInv

LEMMA HistoryNextInv ==
    ASSUME HistoryInv, [HistoryNext]_historyVars
    PROVE  HistoryInv'
<1>1. CASE UNCHANGED historyVars
  BY <1>1, StutterInv
<1>2. CASE HistoryNext
  BY <1>2, DeleteInv, ClusterWriteInv, SessionStepInv, ExportMetaInv, ExportRowsInv, ImportInv,
     TickInv, CompareAutoInv, PruneAutoInv, SweepInv, ReadInv, CreateInv DEF HistoryNext
<1> QED BY <1>1, <1>2

(* Over any interleaving of the collector, operators, retention, imports,  *)
(* exports, failed statements and sessions (snapshot.go, collector.go):    *)
(* the store is typed, a snapshot has its rows once each, and what an      *)
(* export or a comparison remembers of it stays true.                      *)
THEOREM HistoryInvariant == HistorySpec => []HistoryInv
BY HistoryInitInv, HistoryNextInv, PTL DEF HistorySpec

---------------------------------------------------------------------------
(* Differences *)

IsRow(v) == v = [c \in DOMAIN v |-> v[c]]
Changed(old, new) == {x \in DOMAIN old \cup DOMAIN new :
                        x \notin DOMAIN old \/ x \notin DOMAIN new \/ old[x] # new[x]}

\* One entry for each column that changed, with its new value.
LEMMA FieldEntries ==
    ASSUME NEW old, NEW new
    PROVE  /\ \A e \in diffFields(old, new) : e[1] \in Changed(old, new) /\ e[3] = At(new, e[1])
           /\ \A c \in Changed(old, new) : \E e \in diffFields(old, new) : e[1] = c
<1>1. diffFields(old, new) = {<<c, At(old, c), At(new, c)>> : c \in Changed(old, new)}
  BY DEF diffFields, Changed
<1> HIDE DEF diffFields
<1>2. ASSUME NEW e \in diffFields(old, new) PROVE e[1] \in Changed(old, new) /\ e[3] = At(new, e[1])
  <2>1. PICK c \in Changed(old, new) : e = <<c, At(old, c), At(new, c)>>
    BY <1>1
  <2> QED BY <2>1
<1>3. ASSUME NEW c \in Changed(old, new) PROVE \E e \in diffFields(old, new) : e[1] = c
  <2>1. <<c, At(old, c), At(new, c)>> \in diffFields(old, new)
    BY <1>1
  <2> QED BY <2>1
<1> QED BY <1>2, <1>3

\* Only equal rows have no difference.
LEMMA FieldsSame ==
    ASSUME NEW old, NEW new, IsRow(old), IsRow(new)
    PROVE  diffFields(old, new) = {} <=> old = new
<1>1. diffFields(old, new) = {} <=> Changed(old, new) = {}
  BY FieldEntries
<1>2. ASSUME Changed(old, new) = {} PROVE old = new
  <2>1. DOMAIN old = DOMAIN new /\ \A x \in DOMAIN old : old[x] = new[x]
    BY <1>2 DEF Changed
  <2> QED BY <2>1 DEF IsRow
<1>3. old = new => Changed(old, new) = {}
  BY DEF Changed
<1> QED BY <1>1, <1>2, <1>3

\* The difference of two rows, applied to the old one.
LEMMA PatchedRow ==
    ASSUME NEW old, NEW new
    PROVE  Plain(Patch(old, diffFields(old, new))) = Plain(new)
<1>1. PICK d : d = diffFields(old, new)
  OBVIOUS
<1>2. PICK C : C = Changed(old, new)
  OBVIOUS
<1>3. /\ \A e \in d : e[1] \in C /\ e[3] = At(new, e[1])
      /\ \A c \in C : \E e \in d : e[1] = c
  BY <1>1, <1>2, FieldEntries
<1>4. PICK p : p = Patch(old, d)
  OBVIOUS
<1>5. DOMAIN p = {x \in DOMAIN old \cup C : x \in C => At(new, x) # Absent}
  <2>1. {e[1] : e \in d} = C
    BY <1>3
  <2>2. \A x : (\A e \in d : e[1] = x => e[3] # Absent) <=> (x \in C => At(new, x) # Absent)
    BY <1>3
  <2>3. DOMAIN p = {x \in DOMAIN old \cup {e[1] : e \in d} : \A e \in d : e[1] = x => e[3] # Absent}
    BY <1>4 DEF Patch
  <2> QED BY <2>1, <2>2, <2>3
<1>6. ASSUME NEW c \in DOMAIN p PROVE p[c] = IF c \in C THEN At(new, c) ELSE old[c]
  <2>1. p[c] = IF \E e \in d : e[1] = c THEN (CHOOSE e \in d : e[1] = c)[3] ELSE old[c]
    BY <1>4 DEF Patch
  <2>2. CASE c \in C
    <3>1. \E e \in d : e[1] = c
      BY <2>2, <1>3
    <3>2. PICK e : e = CHOOSE y \in d : y[1] = c
      OBVIOUS
    <3>3. e \in d /\ e[1] = c
      BY <3>1, <3>2
    <3> QED BY <2>1, <2>2, <3>1, <3>2, <3>3, <1>3
  <2>3. CASE c \notin C
    BY <2>1, <2>3, <1>3
  <2> QED BY <2>2, <2>3
<1>7. PICK L : L = {c \in DOMAIN p : p[c] # Absent}
  OBVIOUS
<1>8. PICK R : R = {c \in DOMAIN new : new[c] # Absent}
  OBVIOUS
<1>9. ASSUME NEW c \in L PROVE c \in R /\ p[c] = new[c]
  <2>1. CASE c \in C
    <3>1. At(new, c) # Absent /\ p[c] = At(new, c)
      BY <2>1, <1>5, <1>6, <1>7
    <3> QED BY <3>1, <1>8 DEF At
  <2>2. CASE c \notin C
    <3>1. c \in DOMAIN old /\ p[c] = old[c] /\ old[c] # Absent
      BY <2>2, <1>5, <1>6, <1>7
    <3>2. c \in DOMAIN new /\ old[c] = new[c]
      BY <2>2, <1>2, <3>1 DEF Changed
    <3> QED BY <3>1, <3>2, <1>8
  <2> QED BY <2>1, <2>2
<1>10. ASSUME NEW c \in R PROVE c \in L
  <2>1. CASE c \in C
    <3>1. At(new, c) # Absent
      BY <1>8, <1>10 DEF At
    <3> QED BY <2>1, <3>1, <1>5, <1>6, <1>7
  <2>2. CASE c \notin C
    <3>1. c \in DOMAIN old /\ old[c] = new[c] /\ new[c] # Absent
      BY <2>2, <1>2, <1>8, <1>10 DEF Changed
    <3> QED BY <2>2, <3>1, <1>5, <1>6, <1>7
  <2> QED BY <2>1, <2>2
<1>11. [c \in L |-> p[c]] = [c \in R |-> new[c]]
  BY <1>9, <1>10
<1> QED BY <1>1, <1>4, <1>7, <1>8, <1>11 DEF Plain, Restrict

\* At most one row for each key, as the unique index has it.
Keyed(R) == R \in SUBSET Pairs /\ \A r, q \in R : r[1] = q[1] => r = q

\* The rows of a snapshot by their keys, as loadSnapshotRowMap builds them.
RowMap(R) == [k \in {r[1] : r \in R} |-> (CHOOSE r \in R : r[1] = k)[2]]

LEMMA RowMapIs ==
    ASSUME NEW R, Keyed(R)
    PROVE  /\ \A r \in R : r[1] \in DOMAIN RowMap(R) /\ RowMap(R)[r[1]] = r[2]
           /\ \A k \in DOMAIN RowMap(R) : \E r \in R : r = <<k, RowMap(R)[k]>>
<1>1. PICK m : m = RowMap(R)
  OBVIOUS
<1>2. DOMAIN m = {r[1] : r \in R} /\ \A k \in DOMAIN m : m[k] = (CHOOSE r \in R : r[1] = k)[2]
  BY <1>1 DEF RowMap
<1>3. ASSUME NEW r \in R PROVE r[1] \in DOMAIN m /\ m[r[1]] = r[2]
  <2>1. PICK q : q = CHOOSE x \in R : x[1] = r[1]
    OBVIOUS
  <2>2. q \in R /\ q[1] = r[1]
    BY <2>1
  <2>3. q = r
    BY <2>2 DEF Keyed
  <2> QED BY <1>2, <2>1, <2>3
<1>4. ASSUME NEW k \in DOMAIN m PROVE \E r \in R : r = <<k, m[k]>>
  <2>1. PICK r \in R : r[1] = k
    BY <1>2
  <2>2. m[k] = r[2] /\ r \in Pairs
    BY <1>3, <2>1 DEF Keyed
  <2>3. r = <<r[1], r[2]>>
    BY <2>2, PairParts
  <2> QED BY <2>1, <2>2, <2>3
<1> QED BY <1>1, <1>3, <1>4

\* What a difference d reports, row by row.
Reports(d, from, to) ==
    /\ d.added = {q \in to : \A r \in from : r[1] # q[1]}
    /\ d.removed = {r \in from : \A q \in to : r[1] # q[1]}
    /\ \A m \in d.modified : \E r \in from, q \in to :
         /\ r[1] = q[1] /\ diffFields(r[2], q[2]) # {}
         /\ m = <<r[1], diffFields(r[2], q[2])>>
    /\ \A r \in from, q \in to : r[1] = q[1] /\ diffFields(r[2], q[2]) # {}
         => <<r[1], diffFields(r[2], q[2])>> \in d.modified

LEMMA DiffRows ==
    ASSUME NEW from, NEW to, Keyed(from), Keyed(to), NEW d, d = DiffSnapshots(from, to)
    PROVE  Reports(d, from, to)
<1>1. PICK f : f = RowMap(from)
  OBVIOUS
<1>2. PICK t : t = RowMap(to)
  OBVIOUS
<1>4. /\ d.added = {<<k, t[k]>> : k \in DOMAIN t \ DOMAIN f}
      /\ d.removed = {<<k, f[k]>> : k \in DOMAIN f \ DOMAIN t}
      /\ d.modified = {<<k, diffFields(f[k], t[k])>> :
                         k \in {x \in DOMAIN f \cap DOMAIN t : diffFields(f[x], t[x]) # {}}}
  <2> HIDE DEF diffFields
  <2> QED BY <1>1, <1>2 DEF DiffSnapshots, RowMap
<1> HIDE DEF diffFields
<1>5. /\ \A r \in from : r[1] \in DOMAIN f /\ f[r[1]] = r[2]
      /\ \A k \in DOMAIN f : \E r \in from : r = <<k, f[k]>>
  BY <1>1, RowMapIs
<1>6. /\ \A r \in to : r[1] \in DOMAIN t /\ t[r[1]] = r[2]
      /\ \A k \in DOMAIN t : \E r \in to : r = <<k, t[k]>>
  BY <1>2, RowMapIs
<1>7. (\A r \in from : r = <<r[1], r[2]>>) /\ (\A r \in to : r = <<r[1], r[2]>>)
  BY PairParts DEF Keyed
<1>8. DOMAIN f = {r[1] : r \in from} /\ DOMAIN t = {r[1] : r \in to}
  BY <1>1, <1>2 DEF RowMap
<1>9. d.added = {q \in to : \A r \in from : r[1] # q[1]}
  <2>1. ASSUME NEW q \in to, \A r \in from : r[1] # q[1] PROVE q \in d.added
    <3>1. q[1] \in DOMAIN t \ DOMAIN f /\ q = <<q[1], t[q[1]]>>
      BY <1>6, <1>7, <1>8, <2>1
    <3> QED BY <1>4, <3>1
  <2>2. ASSUME NEW q \in d.added PROVE q \in to /\ \A r \in from : r[1] # q[1]
    <3>1. PICK k \in DOMAIN t \ DOMAIN f : q = <<k, t[k]>>
      BY <1>4
    <3> QED BY <3>1, <1>5, <1>6
  <2> QED BY <2>1, <2>2
<1>10. d.removed = {r \in from : \A q \in to : r[1] # q[1]}
  <2>1. ASSUME NEW r \in from, \A q \in to : r[1] # q[1] PROVE r \in d.removed
    <3>1. r[1] \in DOMAIN f \ DOMAIN t /\ r = <<r[1], f[r[1]]>>
      BY <1>5, <1>7, <1>8, <2>1
    <3> QED BY <1>4, <3>1
  <2>2. ASSUME NEW r \in d.removed PROVE r \in from /\ \A q \in to : r[1] # q[1]
    <3>1. PICK k \in DOMAIN f \ DOMAIN t : r = <<k, f[k]>>
      BY <1>4
    <3> QED BY <3>1, <1>5, <1>6
  <2> QED BY <2>1, <2>2
<1>11. ASSUME NEW m \in d.modified
       PROVE  \E r \in from, q \in to : /\ r[1] = q[1] /\ diffFields(r[2], q[2]) # {}
                                        /\ m = <<r[1], diffFields(r[2], q[2])>>
  <2>1. PICK k \in DOMAIN f \cap DOMAIN t :
          diffFields(f[k], t[k]) # {} /\ m = <<k, diffFields(f[k], t[k])>>
    BY <1>4
  <2>2. PICK r \in from : r = <<k, f[k]>>
    BY <1>5, <2>1
  <2>3. PICK q \in to : q = <<k, t[k]>>
    BY <1>6, <2>1
  <2>4. r[1] = k /\ q[1] = k /\ r[2] = f[k] /\ q[2] = t[k]
    BY <2>2, <2>3
  <2> QED BY <2>1, <2>4
<1>12. ASSUME NEW r \in from, NEW q \in to, r[1] = q[1], diffFields(r[2], q[2]) # {}
       PROVE  <<r[1], diffFields(r[2], q[2])>> \in d.modified
  <2>1. r[1] \in DOMAIN f \cap DOMAIN t /\ f[r[1]] = r[2] /\ t[r[1]] = q[2]
    BY <1>5, <1>6, <1>12
  <2> QED BY <1>4, <1>12, <2>1
<1> QED BY <1>9, <1>10, <1>11, <1>12 DEF Reports

\* A difference turns the one snapshot into the other, and only equal ones have none.
LEMMA DiffComplete ==
    ASSUME NEW from, NEW to, Keyed(from), Keyed(to)
    PROVE  LET d == DiffSnapshots(from, to) IN
           /\ Readable(Patched(from, d)) = Readable(to)
           /\ from = to <=> d.added \cup d.removed \cup d.modified = {}
<1>1. PICK d : d = DiffSnapshots(from, to)
  OBVIOUS
<1> HIDE DEF diffFields, DiffSnapshots
<1>2. /\ d.added = {q \in to : \A r \in from : r[1] # q[1]}
      /\ d.removed = {r \in from : \A q \in to : r[1] # q[1]}
      /\ \A m \in d.modified : \E r \in from, q \in to :
           /\ r[1] = q[1] /\ diffFields(r[2], q[2]) # {}
           /\ m = <<r[1], diffFields(r[2], q[2])>>
      /\ \A r \in from, q \in to : r[1] = q[1] /\ diffFields(r[2], q[2]) # {}
           => <<r[1], diffFields(r[2], q[2])>> \in d.modified
  <2>1. Reports(d, from, to)
    BY <1>1, DiffRows
  <2> QED BY <2>1 DEF Reports
<1>3. /\ \A r \in from : r = <<r[1], r[2]>> /\ IsRow(r[2])
      /\ \A r \in to : r = <<r[1], r[2]>> /\ IsRow(r[2])
  BY PairParts, Settings DEF Keyed, IsRow
<1>4. \A r \in from, q \in to : r[1] = q[1] => (diffFields(r[2], q[2]) = {} <=> r = q)
  <2>1. ASSUME NEW r \in from, NEW q \in to, r[1] = q[1] PROVE diffFields(r[2], q[2]) = {} <=> r = q
    <3>1. diffFields(r[2], q[2]) = {} <=> r[2] = q[2]
      BY <1>3, FieldsSame
    <3> QED BY <1>3, <2>1, <3>1
  <2> QED BY <2>1
<1> DEFINE New(r) == IF \E m \in d.modified : m[1] = r[1]
                     THEN Patch(r[2], (CHOOSE m \in d.modified : m[1] = r[1])[2])
                     ELSE r[2]
<1>5. ASSUME NEW r \in from, NEW q \in to, r[1] = q[1] PROVE Plain(New(r)) = Plain(q[2])
  <2>1. CASE r = q
    <3>1. ~ \E m \in d.modified : m[1] = r[1]
      <4>1. ASSUME NEW m \in d.modified, m[1] = r[1] PROVE FALSE
        <5>1. PICK x \in from, y \in to : /\ x[1] = y[1] /\ diffFields(x[2], y[2]) # {}
                                          /\ m = <<x[1], diffFields(x[2], y[2])>>
          BY <1>2
        <5>2. x[1] = r[1] /\ y[1] = q[1]
          BY <5>1, <4>1, <1>5
        <5>3. x = r /\ y = q
          BY <5>2 DEF Keyed
        <5> QED BY <5>1, <5>3, <2>1, <1>4
      <4> QED BY <4>1
    <3> QED BY <2>1, <3>1
  <2>2. CASE r # q
    <3>0. diffFields(r[2], q[2]) # {}
      BY <2>2, <1>4, <1>5
    <3>1. <<r[1], diffFields(r[2], q[2])>> \in d.modified
      BY <3>0, <1>2, <1>5
    <3>2. PICK m : m = CHOOSE z \in d.modified : z[1] = r[1]
      OBVIOUS
    <3>3. m \in d.modified /\ m[1] = r[1]
      <4>1. \E z \in d.modified : z[1] = r[1]
        BY <3>1
      <4> QED BY <4>1, <3>2
    <3>4. PICK x \in from, y \in to : /\ x[1] = y[1] /\ m = <<x[1], diffFields(x[2], y[2])>>
      BY <1>2, <3>3
    <3>5. x[1] = r[1] /\ y[1] = q[1]
      BY <3>3, <3>4, <1>5
    <3>6. x = r /\ y = q
      BY <3>5 DEF Keyed
    <3>7. m[2] = diffFields(r[2], q[2])
      BY <3>4, <3>6
    <3>8. New(r) = Patch(r[2], diffFields(r[2], q[2]))
      BY <3>2, <3>3, <3>7
    <3> QED BY <3>8, PatchedRow
  <2> QED BY <2>1, <2>2
<1> HIDE DEF New
<1>6. Patched(from, d) = d.added \cup {<<r[1], New(r)>> : r \in from \ d.removed}
  BY DEF Patched, New
<1>7. PICK P : P = Patched(from, d)
  OBVIOUS
<1>8. ASSUME NEW p \in P PROVE \E q \in to : <<p[1], Plain(p[2])>> = <<q[1], Plain(q[2])>>
  <2>1. CASE p \in d.added
    BY <2>1, <1>2
  <2>2. CASE p \notin d.added
    <3>1. PICK r \in from \ d.removed : p = <<r[1], New(r)>>
      BY <2>2, <1>6, <1>7, <1>8
    <3>2. PICK q \in to : r[1] = q[1]
      BY <1>2, <3>1
    <3>3. Plain(New(r)) = Plain(q[2])
      BY <1>5, <3>1, <3>2
    <3>4. p[1] = q[1] /\ p[2] = New(r)
      BY <3>1, <3>2
    <3> QED BY <3>3, <3>4
  <2> QED BY <2>1, <2>2
<1>9. ASSUME NEW q \in to PROVE \E p \in P : <<p[1], Plain(p[2])>> = <<q[1], Plain(q[2])>>
  <2>1. CASE \A r \in from : r[1] # q[1]
    <3>1. q \in P
      BY <2>1, <1>2, <1>6, <1>7
    <3> QED BY <3>1
  <2>2. CASE \E r \in from : r[1] = q[1]
    <3>1. PICK r \in from : r[1] = q[1]
      BY <2>2
    <3>2. r \notin d.removed
      BY <1>2, <3>1
    <3>3. PICK p : p = <<r[1], New(r)>>
      OBVIOUS
    <3>4. p \in P /\ p[1] = q[1] /\ p[2] = New(r)
      BY <1>6, <1>7, <3>1, <3>2, <3>3
    <3>5. Plain(New(r)) = Plain(q[2])
      BY <1>5, <3>1
    <3> QED BY <3>4, <3>5
  <2> QED BY <2>1, <2>2
<1>10. Readable(P) = Readable(to)
  BY <1>8, <1>9 DEF Readable
<1>11. ASSUME from = to PROVE d.added = {} /\ d.removed = {} /\ d.modified = {}
  <2>1. d.added = {} /\ d.removed = {}
    BY <1>2, <1>11
  <2>2. ASSUME NEW m \in d.modified PROVE FALSE
    <3>1. PICK r \in from, q \in to : r[1] = q[1] /\ diffFields(r[2], q[2]) # {}
      BY <1>2
    <3>2. r = q
      BY <1>11, <3>1 DEF Keyed
    <3> QED BY <1>4, <3>1, <3>2
  <2> QED BY <2>1, <2>2
<1>12. ASSUME d.added = {}, d.removed = {}, d.modified = {} PROVE from = to
  <2>1. ASSUME NEW r \in from PROVE r \in to
    <3>1. PICK q \in to : r[1] = q[1]
      BY <1>2, <1>12
    <3> QED BY <1>2, <1>4, <1>12, <3>1
  <2>2. ASSUME NEW q \in to PROVE q \in from
    <3>1. PICK r \in from : r[1] = q[1]
      BY <1>2, <1>12
    <3> QED BY <1>2, <1>4, <1>12, <3>1
  <2> QED BY <2>1, <2>2
<1>13. from = to <=> d.added \cup d.removed \cup d.modified = {}
  BY <1>11, <1>12
<1> QED BY <1>1, <1>7, <1>10, <1>13

\* Stored snapshots are keyed.
LEMMA ContentKeyed ==
    ASSUME StoreSound, NEW s
    PROVE  Keyed(Content(s))
<1>1. Content(s) \in SUBSET Pairs
  BY Contents DEF StoreSound
<1>2. ASSUME NEW p \in Content(s), NEW q \in Content(s), p[1] = q[1] PROVE p = q
  <2>1. PICK x \in rows : x[1] = s /\ p = <<x[2], x[3]>>
    BY DEF Content
  <2>2. PICK y \in rows : y[1] = s /\ q = <<y[2], y[3]>>
    BY DEF Content
  <2>3. x[1] = y[1] /\ x[2] = y[2]
    BY <1>2, <2>1, <2>2
  <2>4. x = y
    BY <2>3 DEF StoreSound, StoreInv
  <2> QED BY <2>1, <2>2, <2>4
<1> QED BY <1>1, <1>2 DEF Keyed

LEMMA HistoryTyped == HistoryInv => HistoryTypeOK
<1> SUFFICES ASSUME HistoryInv PROVE HistoryTypeOK
  OBVIOUS
<1>1. nextId \in 1..(MaxSnaps + 1) /\ MaxSnaps \in Nat
  BY Settings, Parts DEF StoreSound, StoreTyped
<1>2. nextId <= MaxSnaps + 1 /\ DOMAIN snaps \subseteq 1..(nextId - 1)
  BY <1>1, Parts DEF StoreSound, StoreTyped
<1>3. \A s \in DOMAIN snaps : snaps[s].trigger \in {"auto", "manual", "import"}
  BY Parts DEF StoreSound, StoreTyped, SnapRec
<1>4. rows \subseteq (1..MaxSnaps) \X Keys \X Known
  BY Parts DEF StoreSound, StoreTyped, Triples
<1>5. \A j \in Jobs : job[j].stage \in {"idle", "read", "compare", "create", "prune"}
  BY Parts DEF JobsTyped, JobRec
<1>6. export.stage \in {"idle", "rows", "done"}
  BY Parts DEF ExportTyped, ExportRec
<1> QED BY <1>2, <1>3, <1>4, <1>5, <1>6, Parts DEF HistoryTypeOK, WorldTyped, PhaseInv

(* The history store is sound (snapshot.go, diff.go, collector.go): a      *)
(* snapshot has all its rows, retention bounds the automatic ones, a       *)
(* difference is complete, and an export is whole or bare.                 *)
THEOREM HistoryIsSound == HistorySpec => []HistoryHolds
<1>1. HistoryInv => HistoryHolds
  <2> SUFFICES ASSUME HistoryInv PROVE HistoryHolds
    OBVIOUS
  <2>1. DiffExplains
    <3>1. ASSUME NEW from \in {Content(s) : s \in DOMAIN snaps},
                 NEW to \in {Content(s) : s \in DOMAIN snaps}
          PROVE  LET d == DiffSnapshots(from, to)
                 IN  /\ Readable(Patched(from, d)) = Readable(to)
                     /\ from = to <=> d.added \cup d.removed \cup d.modified = {}
      <4>1. Keyed(from) /\ Keyed(to)
        BY Parts, ContentKeyed
      <4> QED BY <4>1, DiffComplete
    <3> QED BY <3>1 DEF DiffExplains
  <2> QED BY <2>1, HistoryTyped DEF HistoryHolds, HistoryInv, StoreInv, ExportInv
<1> QED BY <1>1, HistoryInvariant, PTL

---------------------------------------------------------------------------
(* What a step may never do *)

LEMMA HistoryKeeps ==
    ASSUME HistoryInv, HistoryNext
    PROVE  \/ DeleteSnapshot
           \/ \A s \in DOMAIN snaps \ DOMAIN snaps' :
                s \in Autos /\ \E t \in Autos : t > s /\ t \in DOMAIN snaps'
<1>1. CASE UNCHANGED store
  BY <1>1 DEF store
<1>2. CASE PruneAutoSnapshots
  BY <1>2, Parts, PruneSound
<1>3. CASE ImportSnapshot
  <2>1. PICK got \in SUBSET Pairs : IsFiniteSet(got) /\ CreateSnapshot("import", got)
    <3>1. export.got \in SUBSET Pairs /\ IsFiniteSet(export.got)
      BY Parts DEF ExportTyped, ExportRec
    <3> QED BY <1>3, <3>1, Settings DEF ImportSnapshot, ImportTrigger
  <2>2. DOMAIN snaps \subseteq DOMAIN snaps'
    BY <2>1, Parts, CreateSound
  <2> QED BY <2>2
<1>4. ASSUME NEW j \in Jobs, CreateSnapshot(j, job[j].got) PROVE DOMAIN snaps \subseteq DOMAIN snaps'
  <2>1. job[j].got \in SUBSET Pairs /\ IsFiniteSet(job[j].got) /\ j \in {"auto", "manual", "import"}
    BY Parts DEF JobsTyped, JobRec, Jobs
  <2> QED BY <1>4, <2>1, Parts, CreateSound
<1>5. \/ DeleteSnapshot \/ ImportSnapshot \/ UNCHANGED store \/ PruneAutoSnapshots
      \/ \E j \in Jobs : CreateSnapshot(j, job[j].got)
  BY DEF HistoryNext, ClusterWrite, SessionStep, ExportMeta, ExportRows, TickAuto, TakeSnapshot,
         CompareAuto, PruneAuto, Sweep, ReadSource, Create
<1> QED BY <1>1, <1>2, <1>3, <1>4, <1>5

LEMMA HistoryRepeats ==
    ASSUME HistoryInv, HistoryNext, nextId' > nextId, snaps'[nextId].trigger = "auto",
           Latest = job["auto"].over, snaps # <<>>
    PROVE  Content(Latest) # job["auto"].got
<1>0. nextId \in Int
  BY Parts
<1>1. ~ UNCHANGED store /\ nextId' # nextId
  <2>1. nextId' # nextId
    BY <1>0
  <2> QED BY <2>1 DEF store
<1>2. ~ ImportSnapshot
  <2> SUFFICES ASSUME ImportSnapshot PROVE FALSE
    OBVIOUS
  <2>1. PICK got \in SUBSET Pairs : IsFiniteSet(got) /\ CreateSnapshot("import", got)
    <3>1. export.got \in SUBSET Pairs /\ IsFiniteSet(export.got)
      BY Parts DEF ExportTyped, ExportRec
    <3> QED BY <3>1, Settings DEF ImportSnapshot, ImportTrigger
  <2>2. snaps'[nextId].trigger = "import"
    BY <2>1, Parts, CreateSound
  <2> QED BY <2>2
<1>3. ~ PruneAutoSnapshots /\ ~ DeleteSnapshot
  BY <1>1 DEF PruneAutoSnapshots, DeleteSnapshot, RemoveSnapshot
<1>4. PICK j \in Jobs : Create(j) /\ CreateSnapshot(j, job[j].got)
  BY <1>1, <1>2, <1>3
     DEF HistoryNext, ClusterWrite, SessionStep, ExportMeta, ExportRows, TickAuto, TakeSnapshot,
         CompareAuto, PruneAuto, Sweep, ReadSource, Create
<1>5. j = "auto"
  <2>1. job[j].got \in SUBSET Pairs /\ IsFiniteSet(job[j].got) /\ j \in {"auto", "manual", "import"}
    BY Parts DEF JobsTyped, JobRec, Jobs
  <2>2. snaps'[nextId].trigger = j
    BY <1>4, <2>1, Parts, CreateSound
  <2> QED BY <2>2
<1>6. job["auto"].stage = "create"
  BY <1>4, <1>5 DEF Create
<1>7. Latest \in DOMAIN snaps
  BY Parts, LatestIs DEF StoreSound
<1> QED BY <1>6, <1>7, Parts DEF CompareInv

(* No step reclaims what an operator took or imported, or the newest       *)
(* automatic snapshot, unless an operator deletes it; and the collector    *)
(* stores no copy of the snapshot it was compared with (TakeSnapshot-      *)
(* IfChanged, PruneAutoSnapshots).                                         *)
THEOREM HistoryStepsAreSound == HistorySpec => HistorySteps
<1>1. ASSUME HistoryInv, [HistoryNext]_historyVars
      PROVE  [\/ \A s \in DOMAIN snaps \ DOMAIN snaps' :
                   s \in Autos /\ \E t \in Autos : t > s /\ t \in DOMAIN snaps'
              \/ DeleteSnapshot]_store
  BY <1>1, HistoryKeeps DEF historyVars, store
<1>2. ASSUME HistoryInv, [HistoryNext]_historyVars
      PROVE  [nextId' > nextId /\ snaps'[nextId].trigger = "auto"
                => \/ Latest # job["auto"].over
                   \/ snaps = <<>>
                   \/ Content(Latest) # job["auto"].got]_store
  BY <1>2, HistoryRepeats DEF historyVars, store
<1> QED BY <1>1, <1>2, HistoryInvariant, PTL DEF HistorySpec, HistorySteps, OperatorsKeepTheirs, NoRepeatedAuto

=============================================================================
