---------------------------- MODULE SnapshotFile ----------------------------
(***************************************************************************)
(* Snapshot files, from internal/snapshot: Capture reads a database whose  *)
(* tables change between the reads, BuildFromRows makes a file of a stored *)
(* history snapshot, and Serve replays a file in two in-memory servers     *)
(* that enforce referential integrity.                                     *)
(***************************************************************************)
EXTENDS Integers, FiniteSets

CONSTANTS
    ParentRows,     \* row ids of a table that holds references
    ChildRows,      \* row ids of a table it refers to
    NewerRows,      \* row ids of a table that an older build does not model
    MaxChurn        \* bound: transactions of others during a capture

VARIABLES
    live,           \* the rows of the live Northbound database
    unread,         \* tables the capture has not read
    dump,           \* what it has read
    churn,          \* transactions since it began
    stable,         \* observation: the rows that none of them changed
    file,           \* the file: [version, schema, rows, origin]
    known,          \* the tables this build models
    serving,        \* "no", "dir", "nb", "sb", "up", "failed", "closed"
    open,           \* in-memory servers that are not closed
    sockDir,        \* the socket directory exists
    loaded,         \* the rows of the Northbound server
    refused         \* observation: the server refused a load for its references

fileVars == <<live, unread, dump, churn, stable, file, known, serving, open, sockDir, loaded, refused>>

SnapTables == {"parent", "child", "newer"}
Version == 1
IdsOf(rows) == {r.id : r \in rows}

\* External: the database and the in-memory server accept no reference to a missing row.
Closed(rows) == \A r \in rows : r.refs \subseteq IdsOf(rows)

LiveStates ==
    LET Of(t, ids) == {[t |-> t, id |-> i, refs |-> {}] : i \in ids}
    IN  {p \cup Of("child", c) \cup Of("newer", n) :
           p \in {{[t |-> "parent", id |-> i, refs |-> rs[i]] : i \in DOMAIN rs} :
                    rs \in UNION {[P -> SUBSET (ChildRows \cup NewerRows)] : P \in SUBSET ParentRows}},
           c \in SUBSET ChildRows, n \in SUBSET NewerRows}
ClosedStates == {s \in LiveStates : Closed(s)}

NoFile == [version |-> 0, schema |-> "none", rows |-> {}, origin |-> SnapTables]

FileInit ==
    /\ live \in ClosedStates /\ unread = SnapTables /\ dump = {} /\ churn = 0 /\ stable = live
    /\ file = NoFile /\ known \in {SnapTables, SnapTables \ {"newer"}}
    /\ serving = "no" /\ open = {} /\ sockDir = FALSE /\ loaded = {} /\ refused = FALSE

---------------------------------------------------------------------------
(* Capture *)

Churn ==
    /\ unread # {} /\ churn < MaxChurn /\ churn' = churn + 1
    /\ live' \in ClosedStates \ {live} /\ stable' = stable \cap live'
    /\ UNCHANGED <<unread, dump, file, known, serving, open, sockDir, loaded, refused>>

\* captureDump: the rows of one table at one moment, the tables in any order.
ReadTable ==
    /\ \E t \in unread : /\ unread' = unread \ {t}
                         /\ dump' = dump \cup {r \in live : r.t = t}
    /\ UNCHANGED <<live, churn, stable, file, known, serving, open, sockDir, loaded, refused>>

---------------------------------------------------------------------------
(* A file *)

\* pruneDanglingRefs and pruneDanglingRowRefs.
Pruned(r, present) == [r EXCEPT !.refs = @ \cap present]

BuildFromRows(rows) == {Pruned(r, IdsOf(rows)) : r \in {x \in rows : x.t \in known}}

\* Save of a capture, or BuildFromRows of the tables that history keeps.
MakeFile ==
    /\ unread = {} /\ file = NoFile
    /\ \/ file' = [version |-> Version, schema |-> "nb", rows |-> dump, origin |-> SnapTables]
       \/ \E kept \in SUBSET SnapTables :
            file' = [version |-> Version, schema |-> "nb", origin |-> kept,
                     rows |-> BuildFromRows({r \in dump : r.t \in kept})]
       \/ file' \in {[version |-> Version + 1, schema |-> "nb", rows |-> dump, origin |-> SnapTables],
                     [version |-> Version, schema |-> "other", rows |-> dump, origin |-> SnapTables]}
    /\ UNCHANGED <<live, unread, dump, churn, stable, known, serving, open, sockDir, loaded, refused>>

---------------------------------------------------------------------------
(* Load and Serve *)

\* Load refuses another version; the directory is made before the servers.
Load ==
    /\ file # NoFile /\ serving = "no"
    /\ IF file.version = Version THEN serving' = "dir" /\ sockDir' = TRUE
       ELSE serving' = "failed" /\ UNCHANGED sockDir
    /\ UNCHANGED <<live, unread, dump, churn, stable, file, known, open, loaded, refused>>

\* loadDump: tables this build does not model are skipped, then references into them pruned.
LoadRows == LET rows == {x \in file.rows : x.t \in known}
            IN  {Pruned(r, IdsOf(rows)) : r \in rows}

Next1(s) == IF s = "dir" THEN "nb" ELSE "up"
Db(s) == IF s = "dir" THEN "nb" ELSE "sb"

\* srv.Close of the server that failed and s.Close of the ones before it.
Abandon == open' = {} /\ sockDir' = FALSE

\* serveDump, its error paths first: schema mismatch or no server, a refused load, no socket in time.
ServeDump ==
    /\ serving \in {"dir", "nb"}
    /\ LET refuse == serving = "dir" /\ ~ Closed(LoadRows)
           wrong  == serving = "dir" /\ file.schema # "nb"
       IN  \/ /\ ~ wrong /\ ~ refuse
              /\ open' = open \cup {Db(serving)} /\ serving' = Next1(serving)
              /\ loaded' = IF serving = "dir" THEN LoadRows ELSE loaded
              /\ UNCHANGED <<sockDir, refused>>
           \/ /\ serving' = "failed" /\ Abandon
              /\ refused' = (~ wrong /\ refuse) /\ loaded' = {}
    /\ UNCHANGED <<live, unread, dump, churn, stable, file, known>>

Close ==
    /\ serving = "up" /\ serving' = "closed" /\ open' = {} /\ sockDir' = FALSE /\ loaded' = {}
    /\ UNCHANGED <<live, unread, dump, churn, stable, file, known, refused>>

FileNext == Churn \/ ReadTable \/ MakeFile \/ Load \/ ServeDump \/ Close

FileSpec == FileInit /\ [][FileNext]_fileVars

---------------------------------------------------------------------------
(* Properties *)

(* loadDump (snapshot.go:236): whatever the moments of its reads and       *)
(* whatever tables this build knows, a capture is never refused for a      *)
(* reference, and what is served refers to rows that are served.           *)
ReplayIsClosed == ~ refused /\ Closed(loaded)

(* Pruning takes no more than it must: a row that nobody touched while the *)
(* tables were read is served, and keeps its references to such rows.      *)
StableRowsSurvive ==
    serving = "up" =>
      LET mine == {r \in stable : r.t \in known \cap file.origin}
      IN  \A r \in mine : \E x \in loaded : x.id = r.id /\ r.refs \cap IdsOf(mine) \subseteq x.refs

(* Serve (snapshot.go:160): when it fails, and after Close, no server runs *)
(* and no socket directory is left; when it succeeds both are up.          *)
ServeAllOrNothing ==
    /\ serving \in {"no", "failed", "closed"} => open = {} /\ ~ sockDir
    /\ serving = "up" => open = {"nb", "sb"} /\ sockDir
=============================================================================
