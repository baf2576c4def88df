------------------------------- MODULE Stores -------------------------------
(***************************************************************************)
(* The bounded stores in memory side by side: the write limiter, the ring  *)
(* of changes, the enrichment cache, the saved traces and persisted        *)
(* events, and the two caches of reports.  They share no state.            *)
(***************************************************************************)
EXTENDS RateLimiter, RingStore, EnrichCache, TraceStore, ReportCaches

(* The bounded stores keep their bounds and answer what they promise: the  *)
(* limiter admits at most its rate in any span and refuses only when busy, *)
(* a ring query is exact, and what the enrichment, inventory and health    *)
(* caches serve is no older than the lifetime and the call, or the flight, *)
(* that fetched it.                                                        *)
StoresHold ==
    /\ TypeOK /\ SpanBound /\ RefusedOnlyWhenBusy
    /\ RingTypeOK /\ QueryIsExact
    /\ CacheTypeOK /\ InfoAgeBounded
    /\ TraceTypeOK
    /\ ReportTypeOK /\ InventoryAgeBounded /\ HealthAgeBounded

(* What a step of a store may never do: the ring loses only its oldest, a  *)
(* lookup drops no fresh entry, traces and events go oldest first and only *)
(* for a reason, and a chassis is in error only for a counter that grew.   *)
StoresSteps ==
    RingIsAQueue /\ FreshSurvivesGet /\ OldestTraceMakesRoom /\ EventsKeptWhileWanted /\ NoFalseError

=============================================================================
