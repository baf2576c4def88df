--------------------------- MODULE GatewayHealth ---------------------------
(***************************************************************************)
(* internal/gateway/analyzer.go: for every chassisredirect port, compare   *)
(* the chassis that holds the port (actual) with the highest-priority      *)
(* member of its HA group that is alive (desired).  Liveness comes from    *)
(* internal/inventory/liveness.go.  A state s of the cached databases is   *)
(* a record: s.present, the Chassis table; s.nbCfg, SB_Global.nb_cfg;      *)
(* s.priv[c], the generation and age of a Chassis_Private row or NoPriv;   *)
(* s.prio[g][i], the priorities of the HA members; s.owner[g], the chassis *)
(* of the port.  The short-lived copy of the report is in ReportCaches.    *)
(***************************************************************************)
EXTENDS Integers, Sequences, FiniteSets, FiniteSetsExt

CONSTANTS
    Chassis, NoChassis,
    Gateways,       \* chassisredirect ports
    Order,          \* Order[g]: chassis of its HA members in list order, may be <<>>
    Networks,       \* Networks[g]: addresses of the router port behind it, if any
    RouterOf, NatIPs, \* RouterOf[g]: its router; NatIPs[r]: external addresses
    Incapable,      \* chassis that do not advertise enable-chassis-as-gw
    StaleThreshold,
    MaxHAPriority     \* the largest HA_Chassis.priority, 32767 in the schema

\* What buildIndex extracts from the two caches.
IsIndex(s) ==
    /\ s.present \subseteq Chassis /\ s.nbCfg \in Nat
    /\ \A c \in Chassis : s.priv[c].cfg \in Nat \cup {-1} /\ s.priv[c].age \in Nat
    /\ \A g \in Gateways : /\ DOMAIN s.prio[g] = DOMAIN Order[g]
                           /\ \A i \in DOMAIN Order[g] : s.prio[g][i] \in 0..MaxHAPriority
                           /\ s.owner[g] \in Chassis \cup {NoChassis}

NoPriv == [cfg |-> -1, age |-> 0]

ASSUME GatewayConstants ==
    /\ NoChassis \notin Chassis /\ Incapable \subseteq Chassis
    /\ \A g \in Gateways : Order[g] \in Seq(Chassis)
    /\ StaleThreshold \in Nat /\ MaxHAPriority \in Nat /\ IsFiniteSet(Gateways)

(* ComputeLiveness and chassisState: no heartbeat row, or behind the       *)
(* current generation for longer than the threshold.                       *)
IsStale(s, c) ==
    \/ s.priv[c] = NoPriv
    \/ s.priv[c].cfg # s.nbCfg /\ s.priv[c].age > StaleThreshold

Alive(s, c) == c \in s.present /\ ~ IsStale(s, c)

\* buildMembers: a member whose chassis row is gone has no chassis reference.
MemberChassis(s, g, i) == IF Order[g][i] \in s.present THEN Order[g][i] ELSE NoChassis

\* Mutant: the election ignores liveness.
AliveMembers_All(s, g) == {i \in DOMAIN Order[g] : MemberChassis(s, g, i) # NoChassis}

AliveMembers(s, g) ==
    {i \in DOMAIN Order[g] : MemberChassis(s, g, i) # NoChassis /\ Alive(s, Order[g][i])}

\* The alive member of highest priority, the first of them on a tie.
Desired(s, g) ==
    LET cands == AliveMembers(s, g)
        top   == {i \in cands : \A j \in cands : s.prio[g][j] <= s.prio[g][i]}
    IN  IF cands = {} THEN NoChassis ELSE MemberChassis(s, g, Min(top))

Managed(g)   == Order[g] # <<>>
Orphan(s, g) == s.owner[g] = NoChassis
OwnerPresent(s, g) == ~ Orphan(s, g) /\ s.owner[g] \in s.present
StaleOwner(s, g)   == OwnerPresent(s, g) /\ IsStale(s, s.owner[g])

\* appendChecks 1 and 2: who holds the port, and is it the elected chassis.
OwnerCheck(s, g) == IF Orphan(s, g) THEN "error" ELSE "healthy"
ElectionCheck(s, g) ==
    IF Managed(g) /\ (Orphan(s, g) \/ Desired(s, g) = NoChassis
                      \/ s.owner[g] # Desired(s, g))
    THEN "error" ELSE "healthy"
\* appendChecks 3 to 5: member liveness, owner liveness, capability.
MembersCheck(s, g) ==
    IF AliveMembers(s, g) # DOMAIN Order[g] THEN "warning" ELSE "healthy"
OwnerLivenessCheck(s, g) == IF StaleOwner(s, g) THEN "warning" ELSE "healthy"
CapabilityCheck(s, g) ==
    IF OwnerPresent(s, g) /\ s.owner[g] \in Incapable THEN "warning" ELSE "healthy"

Warnings(s, g) == {MembersCheck(s, g), OwnerLivenessCheck(s, g), CapabilityCheck(s, g)}

\* addCheck: the worst severity stays.
Overall(s, g) ==
    IF "error" \in {OwnerCheck(s, g), ElectionCheck(s, g)} THEN "error"
    ELSE IF "warning" \in Warnings(s, g) THEN "warning" ELSE "healthy"

\* The status as appendChecks assigns it, check by check; "" becomes ok.
Status(s, g) ==
    LET first  == IF Orphan(s, g) THEN "no-owner" ELSE ""
        second == IF ~ Managed(g) THEN (IF first = "" THEN "unmanaged" ELSE first)
                  ELSE IF Desired(s, g) = NoChassis
                       THEN (IF first = "" THEN "no-viable-candidate" ELSE first)
                  ELSE IF ~ Orphan(s, g) /\ s.owner[g] # Desired(s, g) THEN "failover-stuck"
                  ELSE first
        third  == IF StaleOwner(s, g) /\ second \in {"", "unmanaged"} THEN "degraded"
                  ELSE second
    IN  IF third = "" THEN "ok" ELSE third

(* The addresses of a gateway: the networks of its router port and, when   *)
(* the port belongs to a router, the external addresses of its NATs.       *)
ServedIPs(g) ==
    Networks[g] \cup (IF g \in DOMAIN RouterOf THEN NatIPs[RouterOf[g]] ELSE {})

\* detectConflicts: addresses served from more than one active chassis.
Conflicts(s) ==
    {ip \in UNION {ServedIPs(g) : g \in Gateways} :
        Cardinality({s.owner[g] : g \in {h \in Gateways : ip \in ServedIPs(h)
                                                          /\ ~ Orphan(s, h)}}) > 1}

\* Analyze: the counts of the report.
Counted(s, severity) == Cardinality({g \in Gateways : Overall(s, g) = severity})

---------------------------------------------------------------------------
(* Properties *)

(* The machine-readable status and the overall severity agree: exactly the *)
(* statuses that mean lost or misplaced traffic are errors, whatever the   *)
(* later warnings of appendChecks add.                                     *)
StatusMatchesOverall(s) ==
    \A g \in Gateways :
        Status(s, g) \in {"ok", "unmanaged", "degraded"} <=> Overall(s, g) # "error"

(* A gateway with HA members whose owner is stale is an error and never    *)
(* merely degraded: the election only considers alive members, so a stale  *)
(* owner cannot be the desired one.  The comments say otherwise: degraded  *)
(* is "correct owner, but it is stale" (analyzer.go:49), and "a correct    *)
(* but stale owner is a warning, not yet an error" (analyzer.go:378); both *)
(* are so for a gateway without HA members only.                           *)
StaleOwnerIsError(s) ==
    \A g \in Gateways : Managed(g) /\ StaleOwner(s, g) =>
        Overall(s, g) = "error" /\ Status(s, g) # "degraded"

(* A settled deployment raises no error: every chassis has acknowledged    *)
(* the current generation, each port is on its highest-priority member.    *)
(* In particular an old nb_cfg timestamp alone never reports a healthy     *)
(* chassis as dead, the false alarm the code comments on.                  *)
SettledIsHealthy(s) ==
    \A g \in Gateways :
        (/\ \A c \in Chassis : c \in s.present /\ s.priv[c].cfg = s.nbCfg
         /\ \E i \in DOMAIN Order[g] :
              /\ s.owner[g] = Order[g][i]
              /\ \A j \in DOMAIN Order[g] \ {i} : s.prio[g][j] < s.prio[g][i])
        => Status(s, g) = "ok" /\ Overall(s, g) # "error"

(* An address is reported as split exactly when two ports announce it from *)
(* different chassis at the same time.                                     *)
SplitIsReported(s) ==
    Conflicts(s) = {ip \in UNION {ServedIPs(g) : g \in Gateways} :
        \E g, h \in Gateways : /\ ip \in ServedIPs(g) \cap ServedIPs(h)
                               /\ {s.owner[g], s.owner[h]} \subseteq Chassis
                               /\ s.owner[g] # s.owner[h]}

=============================================================================
