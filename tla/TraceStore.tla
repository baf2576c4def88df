----------------------------- MODULE TraceStore -----------------------------
(***************************************************************************)
(* internal/api/handler/trace_store.go: saved traces by id, at most        *)
(* MaxTraces, each for TraceAge; and internal/history/events.go: the       *)
(* persisted events with their two retention limits.  Both drop what is    *)
(* old and what is too much, and the question is whether anything else is  *)
(* ever dropped.  (Get and List hide a trace past its age.)               *)
(***************************************************************************)
EXTENDS Integers, Sequences, FiniteSets, FiniteSetsExt, Functions

CONSTANTS
    TraceIds, MaxTraces, TraceAge,
    CleanupEvery,      \* stores between two sweeps
    EventMax, Retention, \* eventMaxCount (0: no limit) and retention
    Delay,             \* bound on the age of an event when it is stored
    MaxEvents, TraceTime

VARIABLES
    traces, storesSince, \* id -> creation time
    serial,            \* number of Store calls, for its bound
    events, nextEvent, \* table events: id -> timestamp
    at
traceVars == <<traces, storesSince, serial, events, nextEvent, at>>

ASSUME TraceConstants ==
    /\ {MaxTraces, CleanupEvery} \subseteq Nat \ {0}
    /\ {TraceAge, EventMax, Retention, Delay, MaxEvents, TraceTime} \subseteq Nat

TraceTypeOK ==
    /\ DOMAIN traces \subseteq TraceIds /\ Cardinality(DOMAIN traces) <= MaxTraces
    /\ storesSince \in 0..CleanupEvery - 1 /\ DOMAIN events \subseteq 1..(nextEvent - 1)

TraceInit ==
    traces = <<>> /\ storesSince = 0 /\ serial = 0 /\ events = <<>> /\ nextEvent = 1 /\ at = 0

Young(f) == {k \in DOMAIN f : at - f[k] <= TraceAge}
Oldest(ids, f) == {k \in ids : \A j \in ids : f[k] <= f[j]}

\* evictOldest: the possible id sets left.  Equal times: map order decides.
evictOldest(ids) ==
    LET young == ids \cap Young(traces) IN
    IF Cardinality(ids) < MaxTraces THEN {ids}
    ELSE IF Cardinality(young) < MaxTraces THEN {young}
    ELSE {young \ {k} : k \in Oldest(young, traces)}

Store(id) ==
    LET sweep == storesSince + 1 >= CleanupEvery
        kept  == IF sweep THEN Young(traces) ELSE DOMAIN traces
    IN  /\ storesSince' = IF sweep THEN 0 ELSE storesSince + 1
        /\ serial < MaxEvents /\ serial' = serial + 1
        /\ \E ids \in IF id \in kept THEN {kept} ELSE evictOldest(kept) :
              traces' = [k \in ids \cup {id} |->
                           IF k = id THEN at ELSE traces[k]]
        /\ UNCHANGED <<events, nextEvent, at>>

\* InsertEvents, in the order of the batch; the timestamp is the publication's.
InsertEvents ==
    /\ nextEvent <= MaxEvents /\ nextEvent' = nextEvent + 1
    /\ \E ts \in Max({0, at - Delay})..at :
          events' = [e \in DOMAIN events \cup {nextEvent} |->
                       IF e = nextEvent THEN ts ELSE events[e]]
    /\ UNCHANGED <<traces, storesSince, serial, at>>

PruneEvents == {e \in DOMAIN events : events[e] >= at - Retention}

PruneEventsByCount(ids) ==
    IF EventMax = 0 THEN ids ELSE {e \in ids : Cardinality({f \in ids : f > e}) < EventMax}

\* The hourly goroutine of the collector.
PruneTick ==
    /\ events' = Restrict(events, PruneEventsByCount(PruneEvents))
    /\ UNCHANGED <<traces, storesSince, serial, nextEvent, at>>

TraceTick == at < TraceTime /\ at' = at + 1 /\ UNCHANGED <<traces, storesSince, serial, events, nextEvent>>

\* The two have nothing in common but the clock.
TraceNext == (\E id \in TraceIds : Store(id)) \/ TraceTick
EventNext == InsertEvents \/ PruneTick \/ TraceTick

TraceSpec == TraceInit /\ [][TraceNext \/ EventNext]_traceVars

(* A young trace goes only for a newer one, when the store is full of      *)
(* traces at least as new.                                                 *)
OldestTraceMakesRoom ==
    [][\A id \in Young(traces) \ DOMAIN traces' :
          /\ Cardinality(Young(traces)) >= MaxTraces
          /\ \A k \in DOMAIN traces' : traces'[k] >= traces[id]]_traces

(* An event leaves the log only past its retention or with EventMax later  *)
(* ones stored, although stamps are not in the order of the ids; and the   *)
(* later ones are still there afterwards.                                  *)
EventsKeptWhileWanted ==
    [][\A e \in DOMAIN events \ DOMAIN events' :
          \/ events[e] < at - Retention
          \/ Cardinality({f \in DOMAIN events' : f > e}) >= EventMax /\ EventMax > 0]_events

=============================================================================
