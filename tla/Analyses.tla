----------------------------- MODULE Analyses -----------------------------
(***************************************************************************)
(* The analyses that answer one question from one state of the caches, and *)
(* the requests that read a changing database in several steps: the        *)
(* validation of a write, the capture and replay of a snapshot file, the   *)
(* stale-entry report.                                                     *)
(***************************************************************************)
EXTENDS GatewayHealth, ACLAudit, PortChecks, NextHops, Correlation,
        WriteValidation, SnapshotFile, StaleEntries

VARIABLES
    topic,          \* the analysis that is asked
    in              \* what its caches hold, or Nil before the question

Asked(name) == topic = name /\ in # Nil

\* What is asked is something that the caches can hold.
IsInput ==
    /\ Asked("gateways") => IsIndex(in)
    /\ Asked("acls")     => IsRuleSet(in)
    /\ Asked("hops")     => IsRoute(in)
    /\ Asked("ports")    => IsNetwork(in)
    /\ Asked("chains")   => IsJoined(in)

(* The verdict of the gateway health page follows from its findings: a     *)
(* stale owner or a split is reported and a settled gateway is healthy     *)
(* (internal/gateway).                                                     *)
GatewayAnswers ==
    Asked("gateways") => /\ StatusMatchesOverall(in) /\ StaleOwnerIsError(in)
                         /\ SettledIsHealthy(in) /\ SplitIsReported(in)

(* An ACL that is called shadowed has all its packets matched by another   *)
(* of at least its priority, and one that is shadowed by its text is       *)
(* called so; one that is only by the meaning of its atoms may be missed.  *)
(* A next hop is healthy only on a binding of its own router that was      *)
(* refreshed in time (debug/acl_audit.go, router/nexthop.go).              *)
PolicyAnswers ==
    /\ Asked("acls") => ShadowedNeverDecides(in) /\ TextualShadowIsFound(in)
    /\ Asked("hops") => /\ BindingIsOfThisRouter(in) /\ HealthyIsRefreshed(in)
                        /\ ConflictIsOnThePort(in)

(* The connectivity check and the correlated views agree with the rows     *)
(* they are made of, from both ends (debug/connectivity.go, correlate).    *)
PortAnswers ==
    /\ Asked("ports") => /\ FailureHasACause(in, in.src, in.dst)
                         /\ PassIsConnected(in, in.src, in.dst)
                         /\ VerdictIsSymmetric(in, in.src, in.dst)
    /\ Asked("chains") => ChainsRoundTrip(in) /\ ViewsAgreeOnChassis(in) /\ BoundHereIsInventoried(in)

(* Requests that read several tables of a changing database: no false      *)
(* "missing" from validation, a replayed capture that is closed and whole, *)
(* and a false orphan in the stale-entry report only when Port_Binding was *)
(* purged between its lists or the Northbound cache did not show the port. *)
ReadersHold ==
    /\ NoFalseMissing /\ AcceptedIsOneTransaction
    /\ ReplayIsClosed /\ StableRowsSurvive /\ ServeAllOrNothing
    /\ OrphansLapsed
=============================================================================
