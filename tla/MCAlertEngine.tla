--------------------------- MODULE MCAlertEngine ---------------------------
(* Instances of AlertEngine for TLC. *)
EXTENDS AlertEngine, TLC

CONSTANTS a1, a2, q1, s1

\* One rule raises a1 and a2, one silence covers both; or one of each.
TwoAlerts == (a1 :> q1) @@ (a2 :> q1)
TwoCover  == s1 :> {a1, a2}
OneAlert  == a1 :> q1
OneCover  == s1 :> {a1}

(* The table of active alerts follows the cluster: what stands is paged in *)
(* the end, what is gone is resolved (engine.go:213-266).                  *)
AlertsFollow == StandingIsPaged /\ GoneIsResolved
=============================================================================
