---------------------------- MODULE HistoryStore ----------------------------
(***************************************************************************)
(* Snapshots of internal/history: the periodic snapshot goroutine of       *)
(* collector.go, manual snapshots, deletion, retention, export and import  *)
(* of snapshot.go, and the comparison of diff.go, over the cache that a    *)
(* snapshot session purges and reloads table by table.  SQLite runs each   *)
(* statement and each transaction atomically; a failed or cancelled one    *)
(* leaves nothing.  Events are in EventHub.                                *)
(***************************************************************************)
EXTENDS Integers, Sequences, FiniteSets, FiniteSetsExt, Functions

CONSTANTS
    Sources,      \* the tables in the order the collector reads them
    Keys, TableOf, \* row identities (_uuid) and their tables
    Values,       \* Values[k]: the contents row k may have, functions on columns
    Files,        \* files an operator imports: sets of <<key, value>>
    Keep,         \* snapshotMaxCount (0: no retention)
    MaxSnaps,     \* bound on snapshots
    MaxUpsets     \* bound on changes, sessions and failed statements together

VARIABLES
    world,        \* rows at the OVSDB servers
    sess, gone,   \* phase of a snapshot session; how many tables it has emptied
    snaps, rows,  \* the tables snapshots and snapshot_rows
    nextId,       \* AUTOINCREMENT
    job,          \* job["auto"], job["manual"]: a snapshot being taken
    export,       \* an ExportSnapshot call and its answer
    upsets

historyVars == <<world, sess, gone, snaps, rows, nextId, job, export, upsets>>
store == <<snaps, rows, nextId>>

Jobs   == {"auto", "manual"}
Tables == {Sources[i] : i \in DOMAIN Sources}
\* Row contents, of the databases and of the files.
Known == UNION Range(Values) \cup {p[2] : p \in UNION Files}

ASSUME HistoryConstants ==
    /\ Sources \in Seq(Tables) /\ Sources # <<>> /\ TableOf \in [Keys -> Tables]
    /\ IsFiniteSet(Keys) /\ DOMAIN Values = Keys
    /\ \A k \in Keys : Values[k] # {}
    /\ \A f \in Files : IsFiniteSet(f) /\ f \subseteq Keys \X Known
    /\ \A v \in Known : v = [c \in DOMAIN v |-> v[c]]
    /\ {Keep, MaxSnaps, MaxUpsets} \subseteq Nat

Idle == [stage |-> "idle", at |-> 1, got |-> {}, over |-> 0]
NoExport == [stage |-> "idle", id |-> 0, counts |-> 0, got |-> {}]

HistoryTypeOK ==
    /\ DOMAIN world \subseteq Keys /\ \A k \in DOMAIN world : world[k] \in Values[k]
    /\ sess \in {"live", "purging", "suspended", "loading"} /\ gone \in 0..Len(Sources)
    /\ DOMAIN snaps \subseteq 1..(nextId - 1) /\ nextId <= MaxSnaps + 1
    /\ \A s \in DOMAIN snaps : snaps[s].trigger \in {"auto", "manual", "import"}
    /\ rows \subseteq (1..MaxSnaps) \X Keys \X Known
    /\ \A j \in Jobs : job[j].stage \in {"idle", "read", "compare", "create", "prune"}
    /\ export.stage \in {"idle", "rows", "done"}

HistoryInit ==
    /\ world = [k \in Keys |-> CHOOSE v \in Values[k] : TRUE]
    /\ sess = "live" /\ gone = 0
    /\ snaps = <<>> /\ rows = {} /\ nextId = 1
    /\ job = [j \in Jobs |-> Idle] /\ export = NoExport
    /\ upsets = 0

---------------------------------------------------------------------------
(* Around the collector: other clients and snapshot sessions *)

Upset == upsets < MaxUpsets /\ upsets' = upsets + 1

ClusterWrite ==
    /\ Upset
    /\ \E k \in Keys :
          \/ world' = Restrict(world, DOMAIN world \ {k}) /\ k \in DOMAIN world
          \/ \E v \in Values[k] :
                world' = [x \in DOMAIN world \cup {k} |-> IF x = k THEN v ELSE world[x]]
    /\ UNCHANGED <<sess, gone, store, job, export>>

(* SuspendMonitors purges the caches in turn and then sets the flag,       *)
(* ResumeMonitors reloads and then clears it, both under the mutex that    *)
(* Suspended takes.                                                        *)
SessionStep ==
    /\ \/ /\ sess = "live" /\ Upset
          /\ sess' = "purging" /\ gone' = 1
       \/ /\ sess = "purging" /\ UNCHANGED upsets
          /\ IF gone < Len(Sources) THEN gone' = gone + 1 /\ UNCHANGED sess
             ELSE sess' = "suspended" /\ UNCHANGED gone
       \/ sess = "suspended" /\ sess' = "loading" /\ gone' = gone - 1 /\ UNCHANGED upsets
       \/ /\ sess = "loading" /\ UNCHANGED upsets
          /\ IF gone > 0 THEN gone' = gone - 1 /\ UNCHANGED sess
             ELSE sess' = "live" /\ UNCHANGED gone
    /\ UNCHANGED <<world, store, job, export>>

Empty(i)  == IF sess = "loading" THEN i > Len(Sources) - gone ELSE i <= gone
Cached(i) ==
    IF Empty(i) THEN {}
    ELSE {<<k, world[k]>> : k \in {x \in DOMAIN world : TableOf[x] = Sources[i]}}

\* The predicate waits for the mutex, so it answers between the phases only.
Answered == sess \in {"live", "suspended"}
isPaused == sess = "suspended"

---------------------------------------------------------------------------
(* The store *)

\* computeContentHash sorts by key: equal hashes are equal row sets.
Content(s) == {<<r[2], r[3]>> : r \in {x \in rows : x[1] = s}}
LatestSnapshotContentHash == IF snaps = <<>> THEN {} ELSE Content(Max(DOMAIN snaps))
Latest == IF snaps = <<>> THEN 0 ELSE Max(DOMAIN snaps)

\* Mutant: without a transaction a failed insert leaves the snapshot row behind.
CreateSnapshot_NoTx(trigger, got) ==
    /\ nextId <= MaxSnaps /\ nextId' = nextId + 1
    /\ snaps' = [s \in DOMAIN snaps \cup {nextId} |->
                   IF s = nextId THEN [trigger |-> trigger,
                                       counts |-> Cardinality(got)]
                   ELSE snaps[s]]
    /\ rows' = IF \E a, b \in got : a # b /\ a[1] = b[1] THEN rows
               ELSE rows \cup {<<nextId, g[1], g[2]>> : g \in got}

(* One transaction.  The unique index on snapshot, table and uuid refuses  *)
(* a file that holds a row twice; then nothing is stored.                  *)
CreateSnapshot(trigger, got) ==
    /\ nextId <= MaxSnaps
    /\ IF \E a, b \in got : a # b /\ a[1] = b[1] THEN UNCHANGED store
       ELSE /\ nextId' = nextId + 1
            /\ snaps' = [s \in DOMAIN snaps \cup {nextId} |->
                           IF s = nextId THEN [trigger |-> trigger,
                                               counts |-> Cardinality(got)]
                           ELSE snaps[s]]
            /\ rows' = rows \cup {<<nextId, g[1], g[2]>> : g \in got}

\* DELETE FROM snapshots, with its ON DELETE CASCADE.
RemoveSnapshot(dead) ==
    /\ snaps' = Restrict(snaps, DOMAIN snaps \ dead)
    /\ rows' = {r \in rows : r[1] \notin dead}
    /\ UNCHANGED nextId

\* The periodic goroutine never sets a label, and nobody else uses the trigger.
Autos == {s \in DOMAIN snaps : snaps[s].trigger = "auto"}

Surplus(s) == Cardinality({t \in Autos : t > s}) >= Keep

PruneAutoSnapshots == RemoveSnapshot({s \in Autos : Keep > 0 /\ Surplus(s)})

DeleteSnapshot ==
    /\ \E s \in DOMAIN snaps : RemoveSnapshot({s})
    /\ UNCHANGED <<world, sess, gone, job, export, upsets>>

(* ExportSnapshot: two statements, the metadata and then the rows.  (One   *)
(* operator exports or takes a snapshot while another may delete.)         *)
ExportMeta ==
    /\ export.stage = "idle" /\ job["manual"].stage = "idle"
    /\ \E s \in DOMAIN snaps :
          export' = [stage |-> "rows", id |-> s, counts |-> snaps[s].counts, got |-> {}]
    /\ UNCHANGED <<world, sess, gone, store, job, upsets>>
ExportRows ==
    /\ export.stage = "rows"
    /\ export' = [export EXCEPT !.stage = "done", !.got = Content(export.id)]
    /\ UNCHANGED <<world, sess, gone, store, job, upsets>>

ImportTrigger == "import"

ImportSnapshot ==
    /\ \/ \E f \in Files : CreateSnapshot(ImportTrigger, f) /\ UNCHANGED export
       \/ /\ export.stage = "done" /\ CreateSnapshot(ImportTrigger, export.got)
          /\ export' = NoExport
    /\ UNCHANGED <<world, sess, gone, job, upsets>>

---------------------------------------------------------------------------
(* Taking a snapshot *)

\* TakeSnapshotIfChanged checks the pause once, then reads.
TickAuto ==
    /\ job["auto"].stage = "idle" /\ Answered /\ ~ isPaused
    /\ job' = [job EXCEPT !["auto"] = [Idle EXCEPT !.stage = "read"]]
    /\ UNCHANGED <<world, sess, gone, store, export, upsets>>

\* TakeSnapshot for the API: no pause check, no comparison.
TakeSnapshot ==
    /\ job["manual"].stage = "idle" /\ export.stage = "idle"
    /\ job' = [job EXCEPT !["manual"] = [Idle EXCEPT !.stage = "read"]]
    /\ UNCHANGED <<world, sess, gone, store, export, upsets>>

\* One source: its rows, or an error that is logged and skipped.
ReadSource(j) ==
    LET i    == job[j].at
        next == [job[j] EXCEPT !.at = i + 1,
                   !.stage = IF i < Len(Sources) THEN "read"
                             ELSE IF j = "auto" THEN "compare" ELSE "create"]
    IN  /\ job[j].stage = "read"
        /\ \/ /\ job' = [job EXCEPT ![j] = [next EXCEPT !.got = job[j].got \cup Cached(i)]]
              /\ UNCHANGED upsets
           \/ /\ Upset
              /\ job' = [job EXCEPT ![j] = next]
        /\ UNCHANGED <<world, sess, gone, store, export>>

\* Mutant: the comparison looks at the oldest snapshot.
CompareAuto_Oldest ==
    /\ job["auto"].stage = "compare"
    /\ job' = [job EXCEPT !["auto"] =
          IF snaps # <<>> /\ Content(Min(DOMAIN snaps)) = job["auto"].got THEN Idle
          ELSE [@ EXCEPT !.stage = "create", !.over = Latest]]
    /\ UNCHANGED <<world, sess, gone, store, export, upsets>>

(* Equal to the latest hash: nothing to do.  (No snapshot at all: the      *)
(* empty answer differs.)  A failed query counts as a difference.          *)
CompareAuto ==
    /\ job["auto"].stage = "compare"
    /\ \/ /\ job' = [job EXCEPT !["auto"] =
               IF snaps # <<>> /\ LatestSnapshotContentHash = job["auto"].got THEN Idle
               ELSE [job["auto"] EXCEPT !.stage = "create", !.over = Latest]]
          /\ UNCHANGED upsets
       \/ /\ Upset
          /\ job' = [job EXCEPT !["auto"] = [job["auto"] EXCEPT !.stage = "create", !.over = -1]]
    /\ UNCHANGED <<world, sess, gone, store, export>>

\* CreateSnapshot commits, or fails; a stored auto snapshot is followed by a prune.
Create(j) ==
    /\ job[j].stage = "create"
    /\ \/ /\ CreateSnapshot(j, job[j].got) /\ UNCHANGED upsets
          /\ job' = [job EXCEPT ![j] = IF j = "auto" THEN [Idle EXCEPT !.stage = "prune"] ELSE Idle]
       \/ /\ Upset /\ UNCHANGED store
          /\ job' = [job EXCEPT ![j] = Idle]
    /\ UNCHANGED <<world, sess, gone, export>>

\* pruneSnapshots: a failure is logged; the hourly sweep tries again.
PruneAuto ==
    /\ job["auto"].stage = "prune"
    /\ job' = [job EXCEPT !["auto"] = Idle]
    /\ \/ PruneAutoSnapshots /\ UNCHANGED upsets
       \/ Upset /\ UNCHANGED store
    /\ UNCHANGED <<world, sess, gone, export>>
Sweep ==
    /\ PruneAutoSnapshots
    /\ UNCHANGED <<world, sess, gone, job, export, upsets>>

HistoryNext ==
    \/ DeleteSnapshot
    \/ ClusterWrite \/ SessionStep \/ ExportMeta \/ ExportRows \/ ImportSnapshot
    \/ TickAuto \/ TakeSnapshot \/ CompareAuto \/ PruneAuto \/ Sweep
    \/ \E j \in Jobs : ReadSource(j) \/ Create(j)

HistorySpec == HistoryInit /\ [][HistoryNext]_historyVars

---------------------------------------------------------------------------
(* diff.go: rows are compared by table and uuid, then column by column *)

Absent == "null"
At(f, c) == IF c \in DOMAIN f THEN f[c] ELSE Absent

diffFields(old, new) ==
    {<<c, At(old, c), At(new, c)>> :
        c \in {x \in DOMAIN old \cup DOMAIN new :
                 x \notin DOMAIN old \/ x \notin DOMAIN new \/ old[x] # new[x]}}

DiffSnapshots(from, to) ==
    LET f == [k \in {r[1] : r \in from} |-> (CHOOSE r \in from : r[1] = k)[2]]
        t == [k \in {r[1] : r \in to}   |-> (CHOOSE r \in to : r[1] = k)[2]]
    IN  [added    |-> {<<k, t[k]>> : k \in DOMAIN t \ DOMAIN f},
         removed  |-> {<<k, f[k]>> : k \in DOMAIN f \ DOMAIN t},
         modified |-> {<<k, diffFields(f[k], t[k])>> :
                         k \in {x \in DOMAIN f \cap DOMAIN t : diffFields(f[x], t[x]) # {}}}]

\* What a reader makes of a difference: the column's new value, null if dropped.
Patch(old, d) ==
    [c \in {x \in DOMAIN old \cup {e[1] : e \in d} :
              \A e \in d : e[1] = x => e[3] # Absent} |->
        IF \E e \in d : e[1] = c THEN (CHOOSE e \in d : e[1] = c)[3] ELSE old[c]]
Patched(from, diff) ==
    diff.added \cup
    {<<r[1], IF \E m \in diff.modified : m[1] = r[1]
             THEN Patch(r[2], (CHOOSE m \in diff.modified : m[1] = r[1])[2])
             ELSE r[2]>> : r \in from \ diff.removed}

---------------------------------------------------------------------------
(* Properties *)

(* A listed snapshot has all the rows it counts and a row belongs to a     *)
(* listed snapshot: the transaction of CreateSnapshot and the cascade of   *)
(* DeleteSnapshot and PruneAutoSnapshots, whatever fails in between.       *)
SnapshotsAreWhole ==
    /\ \A s \in DOMAIN snaps : Cardinality({r \in rows : r[1] = s}) = snaps[s].counts
    /\ \A r \in rows : r[1] \in DOMAIN snaps

(* Reclaimed by retention: only unlabelled automatic snapshots, never the  *)
(* newest of them.  What an operator took, labelled or imported goes only  *)
(* when DeleteSnapshot names it, also if it was exported as automatic.     *)
OperatorsKeepTheirs ==
    [][\/ \A s \in DOMAIN snaps \ DOMAIN snaps' :
             s \in Autos /\ \E t \in Autos : t > s /\ t \in DOMAIN snaps'
       \/ DeleteSnapshot]_store

(* Retention works: besides the snapshot about to be pruned and one for    *)
(* each failed prune, at most Keep automatic snapshots are stored.  Every  *)
(* upset counts as a failed prune, so after others the bound is looser     *)
(* than the code's, which returns to Keep with the next prune that works.  *)
AutosBounded == Keep > 0 =>
    Cardinality(Autos) <= Keep + upsets + (IF job["auto"].stage = "prune" THEN 1 ELSE 0)

(* The periodic goroutine stores no copy of the snapshot before it, unless *)
(* that one was stored after the comparison, or the one it was compared    *)
(* with has been deleted since.                                            *)
NoRepeatedAuto ==
    [][nextId' > nextId /\ snaps'[nextId].trigger = "auto"
          => \/ Latest # job["auto"].over
             \/ snaps = <<>>
             \/ Content(Latest) # job["auto"].got]_store

\* A reader cannot tell a column that is null from one that is not there.
Plain(f) == Restrict(f, {c \in DOMAIN f : f[c] # Absent})
Readable(R) == {<<r[1], Plain(r[2])>> : r \in R}

(* A difference is complete: applied to the older snapshot it yields the   *)
(* newer one, for a reader, and equal snapshots have none (DiffSnapshots). *)
DiffExplains ==
    \A from, to \in {Content(s) : s \in DOMAIN snaps} :
       LET d == DiffSnapshots(from, to)
       IN  /\ Readable(Patched(from, d)) = Readable(to)
           /\ from = to <=> d.added \cup d.removed \cup d.modified = {}

(* An export that ran into a deletion has no rows at all; it is never      *)
(* missing some of them (ExportSnapshot's second statement).               *)
ExportWholeOrBare ==
    export.stage = "done" => Cardinality(export.got) \in {0, export.counts}

(* Over any interleaving of the collector, manual snapshots, retention,    *)
(* imports, exports, failed statements and snapshot sessions: a stored     *)
(* snapshot has all the rows that were read for it, retention keeps the    *)
(* automatic ones under snapshotMaxCount, a diff of two snapshots turns    *)
(* the one into the other, and an export that races a deletion has every   *)
(* row or none (snapshot.go, diff.go, collector.go).                       *)
HistoryHolds ==
    HistoryTypeOK /\ SnapshotsAreWhole /\ AutosBounded /\ DiffExplains /\ ExportWholeOrBare

(* What a step of the history may never do: drop a manual or imported      *)
(* snapshot that no operator asked to delete, or store an automatic one    *)
(* equal to the one before it.                                             *)
HistorySteps == OperatorsKeepTheirs /\ NoRepeatedAuto

=============================================================================
