-------------------------- MODULE SnapshotSession --------------------------
(***************************************************************************)
(* Runtime snapshot sessions (internal/snapshotsession): a stored history  *)
(* snapshot is loaded as a read-only cluster backed by in-memory OVSDB     *)
(* servers, the live monitors are suspended while any is loaded, and an    *)
(* unloaded cluster is drained after a grace period.  The live source is   *)
(* OVNDatabases (internal/ovsdb), whose SuspendMonitors purges both client *)
(* caches; the collectors and the alert engine consult Suspended before    *)
(* they read them.                                                         *)
(*                                                                         *)
(* Manager.mu is never held across a step, so a step of the model is one   *)
(* critical section of it; Manager.liveMu and OVNDatabases.mu are held     *)
(* across calls and are modelled as locks.                                 *)
(***************************************************************************)
EXTENDS Integers, FiniteSets

CONSTANTS
    Handlers,     \* goroutines serving load and unload requests
    NoHandler,    \* a free mutex
    Snapshots,    \* ids of stored history snapshots
    Backings,     \* cluster builds: two in-memory servers and their clients
    None,         \* no snapshot, no backing
    MaxLoaded,    \* --max-loaded cap of concurrent sessions
    MaxFaults     \* bound on failing monitor calls

DBs == {"nb", "sb"}

VARIABLES
    loaded,       \* loaded[s]: the backing of snapshot s in Manager.loaded
    loading,      \* ids whose Load has not returned
    routed,       \* routed[s]: the backing the cluster proxy serves s from
    backing,      \* backing[b]: "unbuilt", "open" or "closed"
    pending,      \* backings in Manager.pendingDrains
    timer,        \* timer[b]: the AfterFunc that drains b
    pc, job,      \* where each handler is, and its local variables
    liveMu,       \* holder of Manager.liveMu
    liveSuspended,\* what the Manager believes of the live monitors
    dbMu,         \* holder of OVNDatabases.mu
    suspended,    \* OVNDatabases.suspended
    cache,        \* cache[d]: "full" (monitored) or "empty" (purged)
    closed,       \* Manager.Close has run
    closes, faults            \* observation only: closes per backing, failed calls

manager == <<loaded, loading, routed, pending, timer>>
live    == <<liveSuspended, suspended, cache, faults>>
vars == <<manager, backing, pc, job, liveMu, dbMu, live, closed, closes>>

\* Locals of a handler: the request, its snapshot and backing, wantSuspended.
Job   == [op : {"none", "load", "unload"}, id : Snapshots \cup {None},
          b : Backings \cup {None}, want : BOOLEAN]
NoJob == [op |-> "none", id |-> None, b |-> None, want |-> FALSE]

\* Stages of Load and Unload, in order; the last four hold liveMu.
Stages == {"idle", "building", "built", "loaded", "unloaded",
           "locked", "switch", "purged", "resumedNB"}

Contents == [DBs -> {"full", "empty"}]

ASSUME SessionConstants ==
    /\ NoHandler \notin Handlers
    /\ None \notin Snapshots \cup Backings
    /\ IsFiniteSet(Snapshots)
    /\ MaxLoaded \in Nat /\ MaxFaults \in Nat

Loaded == {s \in Snapshots : loaded[s] # None}

Init ==
    /\ loaded = [s \in Snapshots |-> None] /\ routed = [s \in Snapshots |-> None]
    /\ loading = {} /\ pending = {}
    /\ backing = [b \in Backings |-> "unbuilt"]
    /\ timer = [b \in Backings |-> "off"]
    /\ pc = [h \in Handlers |-> "idle"] /\ job = [h \in Handlers |-> NoJob]
    /\ liveMu = NoHandler /\ dbMu = NoHandler
    /\ liveSuspended = FALSE /\ suspended = FALSE
    /\ cache = [d \in DBs |-> "full"]
    /\ closed = FALSE
    /\ closes = [b \in Backings |-> 0] /\ faults = 0

Goto(h, stage, j) ==
    /\ pc' = [pc EXCEPT ![h] = stage]
    /\ job' = [job EXCEPT ![h] = j]

\* Run the drain functions of the backings in B: clients and servers close.
CloseBackings(B) ==
    /\ backing' = [b \in Backings |-> IF b \in B THEN "closed" ELSE backing[b]]
    /\ closes' = [b \in Backings |-> closes[b] + IF b \in B THEN 1 ELSE 0]

---------------------------------------------------------------------------
(* Load *)

\* len(m.loaded)+len(m.loading) < m.maxLoaded
Admits == Cardinality(Loaded) + Cardinality(loading) < MaxLoaded

\* Mutant: a load in flight for the same id is not noticed.
Load_Overlapping(h, s) ==
    /\ pc[h] = "idle" /\ ~ closed
    /\ loaded[s] = None /\ Admits
    /\ loading' = loading \cup {s}
    /\ Goto(h, "building", [NoJob EXCEPT !.op = "load", !.id = s])
    /\ UNCHANGED <<loaded, routed, pending, timer, backing, liveMu, dbMu, live, closed, closes>>

\* Reserve the load; a loaded, loading or surplus snapshot changes nothing.
Load(h, s) ==
    /\ pc[h] = "idle" /\ ~ closed
    /\ loaded[s] = None /\ s \notin loading /\ Admits
    /\ loading' = loading \cup {s}
    /\ Goto(h, "building", [NoJob EXCEPT !.op = "load", !.id = s])
    /\ UNCHANGED <<loaded, routed, pending, timer, backing, liveMu, dbMu, live, closed, closes>>

\* Export, assembly, serving or connecting fails: what was opened is closed.
BuildFails(h) ==
    /\ pc[h] = "building"
    /\ loading' = loading \ {job[h].id}
    /\ Goto(h, "idle", NoJob)
    /\ UNCHANGED <<loaded, routed, pending, timer, backing, liveMu, dbMu, live, closed, closes>>

Build(h, b) ==
    /\ pc[h] = "building" /\ backing[b] = "unbuilt"
    /\ backing' = [backing EXCEPT ![b] = "open"]
    /\ Goto(h, "built", [job[h] EXCEPT !.b = b])
    /\ UNCHANGED <<manager, liveMu, dbMu, live, closed, closes>>

\* Commit under Manager.mu; a snapshot that got loaded meanwhile wins.
LoadCommit(h) ==
    LET s == job[h].id  b == job[h].b IN
    /\ pc[h] = "built"
    /\ IF loaded[s] # None
       THEN /\ CloseBackings({b})
            /\ loading' = loading \ {s}
            /\ Goto(h, "idle", NoJob)
            /\ UNCHANGED <<loaded, routed>>
       ELSE /\ loaded' = [loaded EXCEPT ![s] = b]
            /\ routed' = [routed EXCEPT ![s] = b]
            /\ Goto(h, "loaded", job[h])
            /\ UNCHANGED <<loading, backing, closes>>
    /\ UNCHANGED <<pending, timer, liveMu, dbMu, live, closed>>

---------------------------------------------------------------------------
(* Unload and the drain *)

\* Mutant: the backing is torn down while the route is still there.
Unload_KeepsRoute(h, s) ==
    /\ pc[h] = "idle" /\ ~ closed
    /\ loaded[s] # None
    /\ loaded' = [loaded EXCEPT ![s] = None]
    /\ pending' = pending \cup {loaded[s]}
    /\ Goto(h, "unloaded", [NoJob EXCEPT !.op = "unload", !.id = s, !.b = loaded[s]])
    /\ UNCHANGED <<routed, loading, timer, backing, liveMu, dbMu, live, closed, closes>>

Unload(h, s) ==
    /\ pc[h] = "idle" /\ ~ closed
    /\ loaded[s] # None
    /\ loaded' = [loaded EXCEPT ![s] = None]
    /\ routed' = [routed EXCEPT ![s] = None]
    /\ pending' = pending \cup {loaded[s]}
    /\ Goto(h, "unloaded", [NoJob EXCEPT !.op = "unload", !.id = s, !.b = loaded[s]])
    /\ UNCHANGED <<loading, timer, backing, liveMu, dbMu, live, closed, closes>>

\* The grace is over: drainTail runs, once, whoever calls it first.
DrainFires(b) ==
    /\ timer[b] = "armed"
    /\ timer' = [timer EXCEPT ![b] = "fired"]
    /\ IF backing[b] = "open" THEN CloseBackings({b}) ELSE UNCHANGED <<backing, closes>>
    /\ UNCHANGED <<loaded, loading, routed, pending, pc, job, liveMu, dbMu, live, closed>>

DrainForgets(b) ==
    /\ timer[b] = "fired"
    /\ timer' = [timer EXCEPT ![b] = "off"]
    /\ pending' = pending \ {b}
    /\ UNCHANGED <<loaded, loading, routed, backing, pc, job, liveMu, dbMu, live, closed, closes>>

\* Shutdown: stop and drain what is loaded, flush what is pending.
Close ==
    /\ ~ closed /\ closed' = TRUE
    /\ CloseBackings({loaded[s] : s \in Loaded} \cup {b \in pending : backing[b] = "open"})
    /\ loaded' = [s \in Snapshots |-> None]
    /\ routed' = [s \in Snapshots |-> None]
    /\ pending' = {}
    /\ UNCHANGED <<loading, timer, pc, job, liveMu, dbMu, live>>

---------------------------------------------------------------------------
(* reconcileLive.  It keeps liveMu from the comparison to the end of the   *)
(* monitor call, and OVNDatabases keeps its own mutex during the call.     *)

\* Mutant: transitions are not serialized.
ReconcileLock_Unserialized(h) ==
    /\ pc[h] \in {"loaded", "unloaded"}
    /\ liveMu' = h
    /\ pc' = [pc EXCEPT ![h] = "locked"]
    /\ UNCHANGED <<manager, backing, job, dbMu, live, closed, closes>>

ReconcileLock(h) ==
    /\ pc[h] \in {"loaded", "unloaded"} /\ liveMu = NoHandler
    /\ liveMu' = h
    /\ pc' = [pc EXCEPT ![h] = "locked"]
    /\ UNCHANGED <<manager, backing, job, dbMu, live, closed, closes>>

\* Mutant: Unload returns without arming the timer.
Finish_NoTimer(h) ==
    /\ liveMu' = NoHandler
    /\ Goto(h, "idle", NoJob)
    /\ loading' = IF job[h].op = "load" THEN loading \ {job[h].id} ELSE loading
    /\ UNCHANGED <<timer, loaded, routed, pending, backing, closed, closes>>

\* Mutant: an early return keeps liveMu.
Finish_KeepsLock(h) ==
    /\ UNCHANGED liveMu
    /\ Goto(h, "idle", NoJob)
    /\ CASE job[h].op = "load" ->
               loading' = loading \ {job[h].id} /\ UNCHANGED timer
         [] job[h].op = "unload" ->
               timer' = [timer EXCEPT ![job[h].b] = "armed"] /\ UNCHANGED loading
    /\ UNCHANGED <<loaded, routed, pending, backing, closed, closes>>

\* Unlock, then Load drops its placeholder and Unload arms the drain timer.
Finish(h) ==
    /\ liveMu' = NoHandler
    /\ Goto(h, "idle", NoJob)
    /\ CASE job[h].op = "load" ->
               loading' = loading \ {job[h].id} /\ UNCHANGED timer
         [] job[h].op = "unload" ->
               timer' = [timer EXCEPT ![job[h].b] = "armed"] /\ UNCHANGED loading
    /\ UNCHANGED <<loaded, routed, pending, backing, closed, closes>>

\* Re-read under liveMu how many snapshots are loaded, and compare.
ReconcileRead(h) ==
    LET want == Loaded # {} IN
    /\ pc[h] = "locked"
    /\ \/ want = liveSuspended /\ Finish(h) /\ UNCHANGED <<live, dbMu>>
       \/ /\ want # liveSuspended
          /\ Goto(h, "switch", [job[h] EXCEPT !.want = want])
          /\ UNCHANGED <<manager, backing, liveMu, dbMu, live, closed, closes>>

\* A call that has nothing to do succeeds at once.
SwitchNoop(h) ==
    /\ pc[h] = "switch" /\ dbMu = NoHandler
    /\ job[h].want = suspended
    /\ liveSuspended' = job[h].want
    /\ Finish(h)
    /\ UNCHANGED <<suspended, cache, faults, dbMu>>

\* SuspendMonitors cancels every monitor and purges both caches ...
SuspendPurge(h) ==
    /\ pc[h] = "switch" /\ dbMu = NoHandler
    /\ job[h].want /\ ~ suspended
    /\ dbMu' = h
    /\ cache' = [d \in DBs |-> "empty"]
    /\ pc' = [pc EXCEPT ![h] = "purged"]
    /\ UNCHANGED <<manager, backing, job, liveMu, liveSuspended, suspended, faults, closed, closes>>

\* ... and reports an error when a cancel failed, suspended all the same.
SuspendEnd(h) ==
    /\ pc[h] = "purged"
    /\ suspended' = TRUE
    /\ dbMu' = NoHandler
    /\ \/ liveSuspended' = TRUE /\ UNCHANGED faults
       \/ faults < MaxFaults /\ faults' = faults + 1 /\ UNCHANGED liveSuspended
    /\ Finish(h)
    /\ UNCHANGED cache

\* ResumeMonitors reloads the Northbound tables first ...
ResumeNB(h) ==
    /\ pc[h] = "switch" /\ dbMu = NoHandler
    /\ ~ job[h].want /\ suspended
    /\ \/ /\ dbMu' = h
          /\ cache' = [cache EXCEPT !["nb"] = "full"]
          /\ pc' = [pc EXCEPT ![h] = "resumedNB"]
          /\ UNCHANGED <<manager, backing, job, liveMu, liveSuspended, suspended, faults, closed, closes>>
       \/ /\ faults < MaxFaults /\ faults' = faults + 1
          /\ Finish(h)
          /\ UNCHANGED <<liveSuspended, suspended, cache, dbMu>>

\* ... then the Southbound ones; when that fails the source stays suspended.
ResumeSB(h) ==
    /\ pc[h] = "resumedNB"
    /\ dbMu' = NoHandler
    /\ \/ /\ cache' = [cache EXCEPT !["sb"] = "full"]
          /\ suspended' = FALSE /\ liveSuspended' = FALSE
          /\ UNCHANGED faults
       \/ /\ faults < MaxFaults /\ faults' = faults + 1
          /\ UNCHANGED <<cache, suspended, liveSuspended>>
    /\ Finish(h)

---------------------------------------------------------------------------

HandlerStep(h) ==
    \/ BuildFails(h) \/ (\E b \in Backings : Build(h, b)) \/ LoadCommit(h)
    \/ ReconcileRead(h) \/ SwitchNoop(h)
    \/ SuspendPurge(h) \/ SuspendEnd(h) \/ ResumeNB(h) \/ ResumeSB(h)

Drain(b) == DrainFires(b) \/ DrainForgets(b)

Next ==
    \/ \E h \in Handlers : HandlerStep(h) \/ ReconcileLock(h)
    \/ \E h \in Handlers, s \in Snapshots : Load(h, s) \/ Unload(h, s)
    \/ \E b \in Backings : Drain(b)
    \/ Close

Spec == Init /\ [][Next]_vars

(* Handlers run until they return: a build has a deadline, and Go's        *)
(* mutexes hand liveMu to a waiter that has waited long enough, which is   *)
(* strong fairness.  Monitor calls have no deadline in the code; that they *)
(* return, answered or with the connection broken, is assumed of the OVSDB *)
(* server.  Timers fire.                                                   *)
Fairness ==
    /\ \A h \in Handlers : WF_vars(HandlerStep(h)) /\ SF_vars(ReconcileLock(h))
    /\ \A b \in Backings : WF_vars(Drain(b))
FairSpec == Spec /\ Fairness

---------------------------------------------------------------------------
(* Properties *)

\* Every variable has its type.
TypeOK ==
    /\ loaded \in [Snapshots -> Backings \cup {None}]
    /\ routed \in [Snapshots -> Backings \cup {None}]
    /\ loading \subseteq Snapshots /\ pending \subseteq Backings
    /\ backing \in [Backings -> {"unbuilt", "open", "closed"}]
    /\ timer \in [Backings -> {"off", "armed", "fired"}]
    /\ pc \in [Handlers -> Stages] /\ job \in [Handlers -> Job]
    /\ liveMu \in Handlers \cup {NoHandler} /\ dbMu \in Handlers \cup {NoHandler}
    /\ liveSuspended \in BOOLEAN /\ suspended \in BOOLEAN
    /\ cache \in Contents
    /\ closed \in BOOLEAN
    /\ closes \in [Backings -> Nat] /\ faults \in Nat

(* A request the proxy accepts finds its cluster alive: a route leads to   *)
(* the backing of the loaded snapshot and that backing is open, whatever   *)
(* loads, unloads, drains and Close do around it (manager.go:240-250,      *)
(* 272-293, 356-372).                                                      *)
RoutedIsAlive ==
    \A s \in Snapshots : routed[s] # None => routed[s] = loaded[s] /\ backing[routed[s]] = "open"

(* In-memory servers never leak: an open backing is loaded, waiting for    *)
(* its drain, or held by the Load that built it (manager.go:216-250).      *)
Owned(b) ==
    \/ \E s \in Snapshots : loaded[s] = b
    \/ b \in pending
    \/ \E h \in Handlers : pc[h] = "built" /\ job[h].b = b
NoLeak == \A b \in Backings : backing[b] = "open" => Owned(b)

(* Nothing is closed twice although the drain timer, Close and a discarded *)
(* build can all reach a backing (manager.go:280-293, 356-372).            *)
ClosedOnce == \A b \in Backings : closes[b] <= 1

(* The cap counts loads in flight: at no moment do more than MaxLoaded     *)
(* snapshots exist as loaded or loading ones (manager.go:177-184).         *)
WithinCap == Cardinality(Loaded \cup loading) <= MaxLoaded

(* "Raced with another commit of the same id (shouldn't happen while       *)
(* loading[id] is held)": it cannot happen (manager.go:228-238).           *)
CommitUnraced == \A h \in Handlers : pc[h] = "built" => loaded[job[h].id] = None

(* A caller that gets "not suspended" from OVNDatabases has both caches    *)
(* whole at that moment, also after monitor calls that failed half-way     *)
(* (client.go:413-489).                                                    *)
UnsuspendedIsWhole ==
    dbMu = NoHandler /\ ~ suspended => \A d \in DBs : cache[d] = "full"

(* With no request in flight and no monitor call failed so far, the live   *)
(* monitors are suspended exactly while a snapshot is loaded: the race of  *)
(* a suspending Load with a resuming Unload is settled (manager.go:315-352)*)
LiveFollowsSessions ==
    ~ closed /\ faults = 0 /\ (\A h \in Handlers : pc[h] = "idle")
        => suspended = (Loaded # {})

(* The in-memory servers of a session: owned by somebody until they are    *)
(* closed, closed once, never more than MaxLoaded sessions, and a commit   *)
(* never finds its slot taken.                                             *)
BackingsHold == TypeOK /\ NoLeak /\ ClosedOnce /\ WithinCap /\ CommitUnraced

(* The live monitors: suspended exactly while they should be, and whole    *)
(* whenever they are reported as live.                                     *)
LiveHolds == UnsuspendedIsWhole /\ LiveFollowsSessions

(* Every load and unload returns: nobody waits forever for liveMu, for     *)
(* OVNDatabases.mu or for a build (manager.go:164-352).                    *)
RequestsReturn == \A h \in Handlers : pc[h] # "idle" ~> pc[h] = "idle"

(* An unloaded snapshot's servers are closed in the end                    *)
(* (manager.go:280-304).                                                   *)
Drained == \A b \in Backings : b \in pending ~> backing[b] = "closed"

---------------------------------------------------------------------------
(* What comments and documents of the repository say, refuted by the code. *)

(* manager.go:294-296: "the live connection is never left suspended with   *)
(* no snapshot".  After a failed monitor call nothing retries.             *)
NeverLeftSuspended ==
    ~ closed /\ (\A h \in Handlers : pc[h] = "idle") /\ Loaded = {} => ~ suspended

=============================================================================
