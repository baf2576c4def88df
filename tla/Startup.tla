------------------------------ MODULE Startup ------------------------------
(***************************************************************************)
(* Start-up and shutdown, from run in cmd/northwatch/main.go.  The parts   *)
(* of the server are started in a fixed order, any start may fail, and a   *)
(* part that is up registers how it is ended: with a defer of run, or in   *)
(* the list of stop functions that one defer walks.  A signal lets the     *)
(* HTTP server drain for ten seconds before the defers run; requests that  *)
(* have become WebSockets are no longer the server's and are not drained.  *)
(***************************************************************************)
EXTENDS Integers, Sequences

CONSTANTS
    NClusters,      \* len(cfg.Clusters)
    HttpRequests,   \* requests
    WebSockets      \* those among them whose connection is hijacked (ws.go:63)

VARIABLES
    mode,           \* the configuration: [offline, pool, write], chosen at start
    step,           \* the next start step
    clusters,       \* clusters built so far
    up,             \* parts that are started and not ended
    defers,         \* run's deferred functions, last registered last
    stopFuncs,      \* the parts ended by the stop functions
    phase,          \* "boot", "serving", "draining", "unwinding", "gone"
    reason,         \* why run ends: "none", "error", "build", "listener", "signal"
    inFlight,       \* requests being handled
    overrun,        \* observation: requests that used up the ten seconds of Shutdown
    orphaned        \* observation: a part lost something it uses while up

startVars == <<mode, step, clusters, up, defers, stopFuncs, phase, reason, inFlight, overrun, orphaned>>

ASSUME StartConstants == NClusters \in Nat \ {0} /\ WebSockets \subseteq HttpRequests

\* Clusters are named by their number; the first is the default one.
Part(k, i) == [kind |-> k, of |-> i]
DBs(i)    == Part("dbs", i)
Parts(i)  == {Part("flowdiff", i), Part("propagation", i), Part("alerts", i)}
Snapshot  == Part("snapshot", 0)
Pool      == Part("pool", 0)
Store     == Part("store", 0)
Collector == Part("collector", 0)
Engine    == Part("engine", 0)
Manager   == Part("manager", 0)

\* What a running part works on.
Uses(p) ==
    IF p.kind \in {"flowdiff", "propagation", "alerts"} THEN {DBs(p.of)}
    ELSE IF p.kind \in {"collector", "engine", "manager"} THEN {Store, DBs(1)}
    ELSE IF p.kind = "dbs" /\ mode.offline THEN {Snapshot}
    ELSE {}

\* The write engine's background work only expires plans in memory.
Background(p) == IF p.kind = "engine" THEN {} ELSE Uses(p)

\* A snapshot file replaces the configured clusters by one of its own.
ClusterCount == IF mode.offline THEN 1 ELSE NClusters

\* The order of run: what is started after a step.
Following(s) ==
    CASE s = "snapshot"  -> "cluster"
      [] s = "cluster"   -> IF clusters + 1 < ClusterCount THEN "cluster" ELSE "built"
      [] s = "built"     -> IF mode.pool THEN "pool" ELSE "store"
      [] s = "pool"      -> "store"
      [] s = "store"     -> "collector"
      [] s = "collector" -> IF mode.write THEN "engine" ELSE "manager"
      [] s = "engine"    -> "manager"
      [] s = "manager"   -> "listen"
      [] s = "listen"    -> "serve"

StartInit ==
    /\ mode \in [offline : BOOLEAN, pool : BOOLEAN, write : BOOLEAN]
    /\ step = (IF mode.offline THEN "snapshot" ELSE "cluster") /\ clusters = 0
    /\ up = {} /\ defers = <<>> /\ stopFuncs = {}
    /\ phase = "boot" /\ reason = "none"
    /\ inFlight = {} /\ overrun = {} /\ orphaned = FALSE

Starting(s) == phase = "boot" /\ step = s /\ step' = Following(s)

Rest == <<mode, phase, reason, inFlight, overrun, orphaned>>

---------------------------------------------------------------------------
(* Start steps that succeed *)

\* setupSnapshotMode: in-memory servers, and a single cluster.
StartSnapshot ==
    /\ Starting("snapshot") /\ up' = up \cup {Snapshot}
    /\ defers' = Append(defers, "closeSnapshot")
    /\ UNCHANGED <<clusters, stopFuncs, Rest>>

\* buildCluster and Register.
BuildCluster ==
    /\ Starting("cluster") /\ clusters' = clusters + 1
    /\ up' = up \cup {DBs(clusters + 1)} \cup Parts(clusters + 1)
    /\ stopFuncs' = stopFuncs \cup Parts(clusters + 1)
    /\ UNCHANGED <<defers, Rest>>

\* Mutant: the registry is closed before the parts that use it stop.
Deferred_Swapped == Append(Append(defers, "stops"), "registry")

\* reg.Close is deferred first, so it runs after the stop functions.
Deferred == Append(Append(defers, "registry"), "stops")

ClustersBuilt ==
    /\ Starting("built") /\ defers' = Deferred
    /\ UNCHANGED <<clusters, up, stopFuncs, Rest>>

StartPool ==
    /\ Starting("pool") /\ up' = up \cup {Pool} /\ defers' = Append(defers, "pool")
    /\ UNCHANGED <<clusters, stopFuncs, Rest>>

OpenStore ==
    /\ Starting("store") /\ up' = up \cup {Store} /\ defers' = Append(defers, "store")
    /\ UNCHANGED <<clusters, stopFuncs, Rest>>

StartCollector ==
    /\ Starting("collector") /\ up' = up \cup {Collector} /\ defers' = Append(defers, "collector")
    /\ UNCHANGED <<clusters, stopFuncs, Rest>>

\* Added to the list after its defer was registered: the closure reads it at the end.
StartEngine ==
    /\ Starting("engine") /\ up' = up \cup {Engine}
    /\ stopFuncs' = stopFuncs \cup {Engine}
    /\ UNCHANGED <<clusters, defers, Rest>>

StartManager ==
    /\ Starting("manager") /\ up' = up \cup {Manager} /\ defers' = Append(defers, "manager")
    /\ UNCHANGED <<clusters, stopFuncs, Rest>>

Listen ==
    /\ Starting("listen") /\ phase' = "serving"
    /\ UNCHANGED <<mode, clusters, up, defers, stopFuncs, reason, inFlight, overrun, orphaned>>

\* A start that fails ends run; a cluster that fails closes the registry itself.
StartFails ==
    /\ phase = "boot" /\ step \notin {"built", "collector", "listen"}
    /\ phase' = "unwinding"
    /\ IF step = "cluster"
       THEN reason' = "build" /\ up' = {p \in up : p.kind # "dbs"}
       ELSE reason' = "error" /\ UNCHANGED up
    /\ UNCHANGED <<mode, step, clusters, defers, stopFuncs, inFlight, overrun, orphaned>>

---------------------------------------------------------------------------
(* Serving and ending *)

Accept(r) ==
    /\ phase = "serving" /\ r \notin inFlight /\ inFlight' = inFlight \cup {r}
    /\ UNCHANGED <<mode, step, clusters, up, defers, stopFuncs, phase, reason, overrun, orphaned>>

Respond(r) ==
    /\ r \in inFlight /\ phase # "gone" /\ inFlight' = inFlight \ {r}
    /\ UNCHANGED <<mode, step, clusters, up, defers, stopFuncs, phase, reason, overrun, orphaned>>

Signal ==
    /\ phase = "serving" /\ phase' = "draining" /\ reason' = "signal"
    /\ UNCHANGED <<mode, step, clusters, up, defers, stopFuncs, inFlight, overrun, orphaned>>

ListenerFails ==
    /\ phase = "serving" /\ phase' = "unwinding" /\ reason' = "listener"
    /\ UNCHANGED <<mode, step, clusters, up, defers, stopFuncs, inFlight, overrun, orphaned>>

\* Shutdown does not know of hijacked connections.
Drained == inFlight \subseteq WebSockets

\* Shutdown returns when the ordinary requests are done, or after ten seconds.
ShutdownReturns ==
    /\ phase = "draining" /\ phase' = "unwinding"
    /\ \/ Drained /\ UNCHANGED overrun
       \/ ~ Drained /\ overrun' = inFlight \ WebSockets
    /\ UNCHANGED <<mode, step, clusters, up, defers, stopFuncs, reason, inFlight, orphaned>>

Ends(d) ==
    CASE d = "closeSnapshot" -> {Snapshot}
      [] d = "registry"      -> {p \in up : p.kind = "dbs"}
      [] d = "stops"         -> stopFuncs
      [] d = "pool"          -> {Pool}
      [] d = "store"         -> {Store}
      [] d = "collector"     -> {Collector}
      [] d = "manager"       -> {Manager}

\* One deferred function of run, the last registered first.
RunDefer ==
    /\ phase = "unwinding" /\ defers # <<>>
    /\ up' = up \ Ends(defers[Len(defers)])
    /\ defers' = SubSeq(defers, 1, Len(defers) - 1)
    /\ orphaned' = (orphaned \/ \E p \in up' : Background(p) \cap (up \ up') # {})
    /\ UNCHANGED <<mode, step, clusters, stopFuncs, phase, reason, inFlight, overrun>>

Exit ==
    /\ phase = "unwinding" /\ defers = <<>> /\ phase' = "gone"
    /\ UNCHANGED <<mode, step, clusters, up, defers, stopFuncs, reason, inFlight, overrun, orphaned>>

StartStep == \/ StartSnapshot \/ BuildCluster \/ ClustersBuilt \/ StartPool \/ OpenStore
             \/ StartCollector \/ StartEngine \/ StartManager \/ Listen \/ StartFails

StartNext == \/ StartStep \/ Signal \/ ListenerFails \/ ShutdownReturns \/ RunDefer \/ Exit
             \/ \E r \in HttpRequests : Accept(r) \/ Respond(r)

StartSpec == StartInit /\ [][StartNext]_startVars

---------------------------------------------------------------------------

\* A part is only ever up together with what it was started on while run is
\* not ending, and the order of starting respects every use.
StartTypeOK ==
    /\ phase \in {"boot", "serving", "draining", "unwinding", "gone"}
    /\ phase \in {"boot", "serving", "draining"} => \A p \in up : Uses(p) \subseteq up
    /\ overrun \subseteq HttpRequests

\* Shutdown never pulls a part away from another that still works on it in
\* the background (main.go:240-461, the order of the defers).
NothingOrphaned == ~ orphaned

\* When run returns, every part it started was ended; only a failing
\* buildCluster leaves the parts of earlier clusters running (main.go:273-281).
AllEnded ==
    phase = "gone" =>
        up \subseteq IF reason = "build" THEN UNION {Parts(i) : i \in 1..NClusters} ELSE {}

(* After a signal, only an ordinary request that used up the ten seconds   *)
(* of Shutdown can still run while the parts it works on are closed        *)
(* (main.go:453-460).  WebSocket handlers run on until the process exits;  *)
(* they work on an event hub, which no defer ends.                         *)
DrainedFirst ==
    phase = "unwinding" /\ reason = "signal" => inFlight \subseteq overrun \cup WebSockets

\* run returns after a signal: no deferred function is waited for by another.
SignalEnds == phase = "draining" ~> phase = "gone"
=============================================================================
