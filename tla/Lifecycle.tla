----------------------------- MODULE Lifecycle -----------------------------
(***************************************************************************)
(* The parts of the process around the core: the database clients, the     *)
(* chassis pool, start-up and shutdown, the HTTP chain, the alert rules    *)
(* and the webhooks, the propagation tracker.  They share nothing here, so *)
(* a behaviour moves one of them.                                          *)
(***************************************************************************)
EXTENDS OVNClients, OVSPool, Startup, HTTPServer, AlertRules, PropagationTracker

VARIABLE part

all == <<part, clientVars, poolVars, startVars, httpVars, ruleVars, trackerVars>>

LifeInit ==
    /\ part \in {"clients", "pool", "start", "http", "flows", "ha", "stale", "hook", "tracker"}
    /\ ClientsInit /\ PoolInit /\ HttpInit /\ StartInit /\ RulesInit /\ TrackerInit
    /\ part # "tracker" => nbg.ts = 1 /\ acks = [c \in TrackedChassis |-> 0]
    /\ part # "start" => mode = [offline |-> FALSE, pool |-> FALSE, write |-> FALSE]
    /\ part # "flows" => flows = CHOOSE n \in FlowCounts : TRUE
    /\ part # "stale" => registered = {}
    \* Rows and hosts are interchangeable: one order of the group is enough.
    /\ group = CHOOSE g \in Injection(1..Cardinality(Hosts), HaRows) : TRUE
    /\ row[group[1]].host = CHOOSE c \in Hosts : TRUE

LifeNext ==
    /\ UNCHANGED part
    /\ \/ part = "clients" /\ ClientsNext /\ UNCHANGED <<poolVars, startVars, httpVars, ruleVars, trackerVars>>
       \/ part = "pool"    /\ PoolNext    /\ UNCHANGED <<clientVars, startVars, httpVars, ruleVars, trackerVars>>
       \/ part = "start"   /\ StartNext   /\ UNCHANGED <<clientVars, poolVars, httpVars, ruleVars, trackerVars>>
       \/ part = "http"    /\ HttpNext    /\ UNCHANGED <<clientVars, poolVars, startVars, ruleVars, trackerVars>>
       \/ part = "flows"   /\ FlowNext    /\ UNCHANGED <<clientVars, poolVars, startVars, httpVars, trackerVars>>
       \/ part = "ha"      /\ HaNext      /\ UNCHANGED <<clientVars, poolVars, startVars, httpVars, trackerVars>>
       \/ part = "stale"   /\ StaleNext   /\ UNCHANGED <<clientVars, poolVars, startVars, httpVars, trackerVars>>
       \/ part = "hook"    /\ HookNext    /\ UNCHANGED <<clientVars, poolVars, startVars, httpVars, trackerVars>>
       \/ part = "tracker" /\ TrackerNext /\ UNCHANGED <<clientVars, poolVars, startVars, httpVars, ruleVars>>

(* Supervisors, their backoff timers and Close run on, the pool is closed  *)
(* by a process that does not stop in between, and the deferred functions  *)
(* and Shutdown's deadline run once they are due.  The tracker's are in    *)
(* its module: its goroutine runs on, and a purged cache is reloaded.      *)
InPool(A)    == part = "pool" /\ A /\ UNCHANGED <<part, clientVars, startVars, httpVars, ruleVars, trackerVars>>
InStart(A)   == part = "start" /\ A /\ UNCHANGED <<part, clientVars, poolVars, httpVars, ruleVars, trackerVars>>
InTracker(A) == part = "tracker" /\ A /\ UNCHANGED <<part, clientVars, poolVars, startVars, httpVars, ruleVars>>

LifeFairness ==
    /\ \A i \in Chassis :
         /\ WF_all(InPool(Attempt(i))) /\ WF_all(InPool(BackoffEnds(i)))
         /\ SF_all(InPool(SupervisorStops(i)))
    /\ WF_all(InPool(ClosePool))
    /\ WF_all(InStart(ShutdownReturns \/ RunDefer \/ Exit))
    /\ WF_all(InTracker(SeedNB)) /\ WF_all(InTracker(SeedSB)) /\ WF_all(InTracker(Reload))
    /\ WF_all(InTracker(handleNBGlobalUpdate))
    /\ WF_all(InTracker(handleChassisPrivateUpdate \/ handleChassisEvent))

LifeSpec == LifeInit /\ [][LifeNext]_all /\ LifeFairness

-----------------------------------------------------------------------------
(* Besides the invariants of the components' modules:                      *)

(* Start-up that fails halfway and shutdown end what was started, but for  *)
(* the parts of earlier clusters when buildCluster fails; after a signal   *)
(* the ordinary requests end first, or use up their ten seconds (not the   *)
(* WebSockets); and a closed pool has no open connection.                  *)
ProcessHolds ==
    /\ PoolTypeOK /\ PoolClosesAll
    /\ StartTypeOK /\ NothingOrphaned /\ AllEnded /\ DrainedFirst

(* Everything that must end or be reached: a reachable chassis is          *)
(* monitored, Close returns, a signal ends the process, an acknowledged    *)
(* generation is accounted for.                                            *)
LifeProgress == ReachableIsMonitored /\ PoolCloseReturns /\ SignalEnds /\ EventuallyAccounted
=============================================================================
