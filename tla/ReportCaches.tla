---------------------------- MODULE ReportCaches ----------------------------
(***************************************************************************)
(* Short-lived copies of computed reports.  The chassis inventory          *)
(* (internal/inventory/inventory.go) keeps a list and, separately, the     *)
(* lookups it joins, both under one mutex; the gateway report keeps its    *)
(* answer the same way.  The fleet health of internal/api/handler/ovs.go   *)
(* keeps its answer too, but computes outside the lock, one flight at a    *)
(* time, with the counters of internal/ovshealth compared to the previous  *)
(* computation.  A copy is modelled by the time its data was read.         *)
(***************************************************************************)
EXTENDS Integers, FiniteSets

CONSTANTS
    TTL,            \* listCacheTTL, analyzeCacheTTL
    HealthTTL,      \* ovsHealthTTL
    FlightTime,     \* ovsHealthComputeTimeout, bounds a computation
    Requests,       \* health requests
    MaxCount,       \* bound on an error counter
    ReportTime      \* bound on time

VARIABLES
    tick,
    list,           \* the cached list: [at, chassis, lookups], or NoList
    lookups,        \* when the cached lookups were read, or -1
    shown,          \* the last inventory answer: [chassis, lookups] as read
    counter, prev,  \* an interface's error counter; its last snapshot, or -1
    linked,         \* its chassis is connected
    rises,          \* observation: increased since the last computation that read it
    health,         \* the cached health: [at, read, flag]
    req,            \* health requests
    flight          \* the computation under way: [by, now, read, flag]

invVars    == <<list, lookups, shown>>
healthVars == <<counter, prev, linked, rises, health, req, flight>>
reportVars == <<tick, invVars, healthVars>>

ASSUME ReportConstants ==
    /\ {TTL, HealthTTL, FlightTime} \subseteq Nat \ {0} /\ {MaxCount, ReportTime} \subseteq Nat
    /\ "none" \notin Requests

NoList   == [at |-> -1, chassis |-> -1, lookups |-> -1]
NoHealth == [at |-> -1, read |-> -1, flag |-> FALSE]
NoFlight == [by |-> "none", now |-> -1, read |-> -1, flag |-> FALSE]
NoReq    == [stage |-> "idle", now |-> 0, read |-> 0, flag |-> FALSE]

ReportTypeOK ==
    /\ tick \in 0..ReportTime /\ lookups \in -1..tick
    /\ counter \in 0..MaxCount /\ prev \in -1..MaxCount
    /\ \A r \in Requests : req[r].stage \in {"idle", "miss", "wait", "done"}
    /\ flight.by \in Requests \cup {"none"}
    /\ flight.by = "none" => \A r \in Requests : req[r].stage # "wait"

ReportInit ==
    /\ tick = 0 /\ list = NoList /\ lookups = -1 /\ shown = [chassis |-> 0, lookups |-> 0]
    /\ counter = 0 /\ prev = -1 /\ linked = TRUE /\ rises = FALSE
    /\ health = NoHealth /\ req = [r \in Requests |-> NoReq] /\ flight = NoFlight

Fresh(at) == at # -1 /\ tick - at < TTL

\* loadCachesCached
Loaded == IF Fresh(lookups) THEN lookups ELSE tick

\* Builder.List: chassis rows read now, joined with the lookups.
List ==
    /\ IF Fresh(list.at) THEN UNCHANGED <<list, lookups>>
       ELSE /\ lookups' = Loaded
            /\ list' = [at |-> tick, chassis |-> tick, lookups |-> Loaded]
    /\ shown' = [chassis |-> tick - list'.chassis, lookups |-> tick - list'.lookups]
    /\ UNCHANGED <<tick, healthVars>>

\* Builder.Detail: always the current chassis row.
Detail ==
    /\ lookups' = Loaded /\ shown' = [chassis |-> 0, lookups |-> tick - Loaded]
    /\ UNCHANGED <<tick, list, healthVars>>

---------------------------------------------------------------------------
(* Fleet health *)

Count ==
    /\ counter < MaxCount /\ counter' = counter + 1 /\ rises' = TRUE
    /\ UNCHANGED <<tick, invVars, prev, linked, health, req, flight>>
ResetCounter ==
    /\ counter > 0 /\ counter' = 0
    /\ UNCHANGED <<tick, invVars, prev, linked, rises, health, req, flight>>
Connect ==
    /\ linked' = ~ linked
    /\ UNCHANGED <<tick, invVars, counter, prev, rises, health, req, flight>>

\* healthCache.get, first lock: a fresh copy or a miss.
HealthGet(r) ==
    /\ req[r].stage = "idle"
    /\ req' = [req EXCEPT ![r] =
          IF health.at # -1 /\ tick - health.at < HealthTTL
          THEN [stage |-> "done", now |-> tick, read |-> health.read, flag |-> health.flag]
          ELSE [stage |-> "miss", now |-> tick, read |-> 0, flag |-> FALSE]]
    /\ UNCHANGED <<tick, invVars, counter, prev, linked, rises, health, flight>>

\* group.Do: the first starts a computation, the others wait for it.
HealthFly(r) ==
    /\ req[r].stage = "miss"
    /\ req' = [req EXCEPT ![r].stage = "wait"]
    /\ flight' = IF flight.by = "none"
                 THEN [by |-> r, now |-> req[r].now, read |-> -1, flag |-> FALSE] ELSE flight
    /\ UNCHANGED <<tick, invVars, counter, prev, linked, rises, health>>

anyIncreased == counter > prev

\* Tracker.Aggregate: a chassis that is gone loses its baseline.
Aggregate ==
    /\ flight.by # "none" /\ flight.read = -1
    /\ flight' = [flight EXCEPT !.read = tick, !.flag = linked /\ prev # -1 /\ anyIncreased]
    /\ prev' = IF linked THEN counter ELSE -1
    /\ rises' = IF flight'.flag \/ linked THEN FALSE ELSE rises
    /\ UNCHANGED <<tick, invVars, counter, linked, health, req>>

StoredAt == flight.now

HealthStore ==
    /\ flight.read # -1
    /\ health' = [at |-> StoredAt, read |-> flight.read, flag |-> flight.flag]
    /\ req' = [r \in Requests |-> IF req[r].stage = "wait"
                 THEN [req[r] EXCEPT !.stage = "done", !.read = flight.read, !.flag = flight.flag]
                 ELSE req[r]]
    /\ flight' = NoFlight
    /\ UNCHANGED <<tick, invVars, counter, prev, linked, rises>>

HealthReturn(r) ==
    /\ req[r].stage = "done" /\ req' = [req EXCEPT ![r] = NoReq]
    /\ UNCHANGED <<tick, invVars, counter, prev, linked, rises, health, flight>>

\* A miss goes straight on to the flight; a flight ends within its timeout.
ReportTick ==
    /\ tick < ReportTime /\ tick' = tick + 1
    /\ flight.by # "none" => tick < flight.now + FlightTime
    /\ \A r \in Requests : req[r].stage # "miss"
    /\ UNCHANGED <<invVars, healthVars>>

\* The two have nothing in common but the clock.
InventoryNext == List \/ Detail \/ ReportTick
HealthNext ==
    \/ Count \/ ResetCounter \/ Connect \/ Aggregate \/ HealthStore \/ ReportTick
    \/ \E r \in Requests : HealthGet(r) \/ HealthFly(r) \/ HealthReturn(r)

ReportSpec == ReportInit /\ [][InventoryNext \/ HealthNext]_reportVars

(* How old an inventory answer can be: its chassis rows less than one TTL, *)
(* the heartbeats, tunnels and ports joined to them less than two, because *)
(* a list is kept that was made from lookups kept before (List, Detail).   *)
InventoryAgeBounded == shown.chassis < TTL /\ shown.lookups < 2 * TTL - 1

(* A health answer was read no longer before the request than a copy       *)
(* lives or a computation takes, whichever of the two it came from.        *)
HealthAgeBounded ==
    \A r \in Requests : req[r].stage = "done" =>
       \/ req[r].now - req[r].read < HealthTTL
       \/ req[r].now - req[r].read <= FlightTime

(* An interface is reported as erring only if its counter has really gone  *)
(* up since the previous computation that saw it: not after a restart of   *)
(* the counters, not on first sight, not after an outage (Aggregate).      *)
NoFalseError == [][flight'.flag /\ ~ flight.flag => rises]_reportVars

=============================================================================
