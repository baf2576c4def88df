----------------------------- MODULE HAFailover -----------------------------
(***************************************************************************)
(* Failover, Evacuate and Restore of internal/write/failover.go: requests  *)
(* that read the HA groups of the Northbound database (HA_Chassis_Group    *)
(* members and the Gateway_Chassis lists of router ports), turn them into  *)
(* a list of priority updates, and hand the list to Preview.  Preview      *)
(* reads the cache a second time to capture the values the wait operations *)
(* of Apply assert; other writers and monitor updates come in between.     *)
(* Tokens, expiry, audit and the engine mutex are the module WriteEngine.  *)
(***************************************************************************)
EXTENDS Integers, FiniteSets

CONSTANTS
    HAChassis,       \* chassis names
    HAGroups,        \* NB UUIDs of HA groups and of router ports with a gateway list
    HARows,          \* HA_Chassis and Gateway_Chassis rows
    Host, Group,   \* Host[r], Group[r]: the chassis of row r and its group
    Names, NameOf, \* names a request may give; NameOf[g]: the name of group g
    SbMembers,     \* SbMembers[n]: chassis of the SB group named n ({}: none)
    Plans,         \* ids of previewed plans
    MaxPrio,       \* 32767, the largest priority
    InitPrio,      \* InitPrio[r]: the priority the deployment gave row r
    DrainedBefore, \* sets of chassis that may have been drained before
    MaxWrites,     \* bound on writes by other clients
    MaxRequests    \* bound on requests

NoMark == -1       \* external_ids has no northwatch:pre-drain-priority

VARIABLES
    nb, cache,     \* [prio, mark] of every row: at the server, in the client
    plan,          \* plan[p]: see IsPlan
    writes, requests, \* writes by other clients and requests so far
    pure           \* observation: rows only drained and restored so far

haVars == <<nb, cache, plan, writes, requests, pure>>

PrioRow  == [prio : 0..MaxPrio, mark : {NoMark} \cup 0..MaxPrio]
\* The columns an operation writes: its priority, or priority and external_ids.
OpRec == [prio : 0..MaxPrio, mark : {NoMark} \cup 0..MaxPrio, ids : BOOLEAN]

(* A plan keeps its operations by row, the row values captured by          *)
(* computeDiffs, and, for the properties, what the builder read, what was  *)
(* requested, and of whom.                                                 *)
IsPlan(p) ==
    /\ p.stage \in {"free", "built", "stored"}
    /\ p.kind \in {"swap", "bump", "drain", "restore", "none"}
    /\ p.on \in HAChassis \cup {"none"} /\ p.name \in Names \cup {"none"}
    /\ DOMAIN p.seen \subseteq HARows /\ \A r \in DOMAIN p.seen : p.seen[r] \in PrioRow
    /\ DOMAIN p.ops \subseteq HARows /\ \A r \in DOMAIN p.ops : p.ops[r] \in OpRec
    /\ DOMAIN p.before \subseteq HARows /\ \A r \in DOMAIN p.before : p.before[r] \in PrioRow

ASSUME HAConstants ==
    /\ Host \in [HARows -> HAChassis] /\ Group \in [HARows -> HAGroups]
    /\ NameOf \in [HAGroups -> Names] /\ SbMembers \in [Names -> SUBSET HAChassis]
    /\ InitPrio \in [HARows -> 1..MaxPrio] /\ DrainedBefore \subseteq SUBSET HAChassis
    /\ {MaxPrio, MaxWrites, MaxRequests} \subseteq Nat
    /\ IsFiniteSet(HAGroups) /\ "none" \notin Names

NoPlan == [stage |-> "free", kind |-> "none", on |-> "none", name |-> "none",
           ops |-> <<>>, before |-> <<>>, seen |-> <<>>]

HAInit ==
    /\ \E drained \in DrainedBefore :
         nb = [r \in HARows |-> IF Host[r] \in drained
                              THEN [prio |-> 0, mark |-> InitPrio[r]]
                              ELSE [prio |-> InitPrio[r], mark |-> NoMark]]
    /\ cache = nb
    /\ plan = [p \in Plans |-> NoPlan]
    /\ requests = 0
    /\ writes = 0
    /\ pure = HARows

---------------------------------------------------------------------------
(* Which group a request means *)

\* collectAllGroups: the members of a group.
MembersOf(g) == {r \in HARows : Group[r] = g}

\* chassisNameKey: the sorted list of member names, here the number of each.
NameKey(g) == [c \in HAChassis |-> Cardinality({r \in MembersOf(g) : Host[r] = c})]
SbKey(name) == [c \in HAChassis |-> IF c \in SbMembers[name] THEN 1 ELSE 0]

\* disambiguateViaSBUnified: candidates with the membership of the SB group.
DisambiguateViaSB(name, candidates) ==
    IF SbMembers[name] = {} THEN {}
    ELSE {g \in candidates : NameKey(g) = SbKey(name)}

(* resolveGroupUnified: the groups a request may end up with; more than    *)
(* one when names repeat, since the groups are walked in map order.        *)
ResolveGroup(name, target) ==
    LET exact == {g \in HAGroups : NameOf[g] = name}
        candidates == {g \in HAGroups : \E r \in MembersOf(g) : Host[r] = target}
    IN  IF exact # {} THEN exact
        ELSE IF Cardinality(candidates) = 1 THEN candidates
        ELSE DisambiguateViaSB(name, candidates)

---------------------------------------------------------------------------
(* Building the operations: the first read of the cache *)

Asks(p) == plan[p] = NoPlan /\ requests < MaxRequests

Built(p, kind, chassis, name, ops) ==
    /\ Asks(p)
    /\ plan' = [plan EXCEPT ![p] = [stage |-> "built", kind |-> kind, on |-> chassis,
                  name |-> name, ops |-> ops, before |-> <<>>, seen |-> cache]]
    /\ requests' = requests + 1
    /\ UNCHANGED <<nb, cache, writes, pure>>

PrioOnly(n) == [prio |-> n, mark |-> NoMark, ids |-> FALSE]

\* swapMemberPriorityOps
SwapOps(active, target) ==
    [r \in {active, target} |->
        PrioOnly(IF r = active THEN cache[target].prio ELSE cache[active].prio)]

\* A target that already leads is bumped, downwards at the limit.
BumpOp(target) ==
    LET up == cache[target].prio + 1
    IN  [r \in {target} |-> PrioOnly(IF up > MaxPrio THEN cache[target].prio - 1 ELSE up)]

\* The members the unstable sort may put first.
Leaders(g) ==
    {r \in MembersOf(g) : \A s \in MembersOf(g) : cache[s].prio <= cache[r].prio}

Failover(p, name, target) ==
    Asks(p) /\ \E g \in ResolveGroup(name, target) :
      /\ Cardinality(MembersOf(g)) >= 2
      /\ \E active \in Leaders(g), t \in {r \in MembersOf(g) : Host[r] = target} :
           IF t = active THEN Built(p, "bump", target, name, BumpOp(t))
           ELSE Built(p, "swap", target, name, SwapOps(active, t))

\* Mutant: the marker of an earlier drain is kept.
DrainOps_KeepMark(chassis) ==
    [r \in {s \in HARows : Host[s] = chassis /\ cache[s].prio # 0} |->
        [prio |-> 0, mark |-> cache[r].mark, ids |-> TRUE]]

\* Mutant: only the first entry of the chassis is drained.
DrainOps_One(chassis) ==
    LET mine == {s \in HARows : Host[s] = chassis /\ cache[s].prio # 0}
        one  == IF mine = {} THEN {} ELSE {CHOOSE r \in mine : TRUE}
    IN  [r \in one |-> [prio |-> 0, mark |-> cache[r].prio, ids |-> TRUE]]

\* Evacuate: every entry of the chassis that is not at 0, its priority remembered.
DrainOps(chassis) ==
    [r \in {s \in HARows : Host[s] = chassis /\ cache[s].prio # 0} |->
        [prio |-> 0, mark |-> cache[r].prio, ids |-> TRUE]]

\* Restore: the remembered priority when it parses to a positive number, else 1.
RestoreOps(chassis) ==
    [r \in {s \in HARows : Host[s] = chassis /\ cache[s].prio = 0} |->
        [prio |-> IF cache[r].mark > 0 THEN cache[r].mark ELSE 1,
         mark |-> NoMark, ids |-> TRUE]]

\* Without an entry the request is refused.
Evacuate(p, chassis) ==
    Asks(p) /\ DOMAIN DrainOps(chassis) # {} /\ Built(p, "drain", chassis, "none", DrainOps(chassis))
Restore(p, chassis) ==
    Asks(p) /\ DOMAIN RestoreOps(chassis) # {} /\ Built(p, "restore", chassis, "none", RestoreOps(chassis))

---------------------------------------------------------------------------
(* Preview and Apply *)

\* computeDiffs: the second read of the cache, the one the waits assert.
PreviewDiff(p) ==
    /\ plan[p].stage = "built"
    /\ plan' = [plan EXCEPT ![p].stage = "stored",
                            ![p].before = [r \in DOMAIN plan[p].ops |-> cache[r]]]
    /\ UNCHANGED <<nb, cache, writes, requests, pure>>

\* buildWaitOps: the columns an operation writes still hold the captured values.
WaitsHold(p) ==
    \A r \in DOMAIN plan[p].ops :
        /\ nb[r].prio = plan[p].before[r].prio
        /\ plan[p].ops[r].ids => nb[r].mark = plan[p].before[r].mark

Written(row, op) == [prio |-> op.prio, mark |-> IF op.ids THEN op.mark ELSE row.mark]

\* Apply consumes the plan; the transaction commits as a whole or not at all.
Apply(p) ==
    /\ plan[p].stage = "stored"
    /\ plan' = [plan EXCEPT ![p] = NoPlan]
    /\ IF WaitsHold(p)
       THEN /\ nb' = [r \in HARows |-> IF r \in DOMAIN plan[p].ops
                                     THEN Written(nb[r], plan[p].ops[r]) ELSE nb[r]]
            /\ pure' = IF plan[p].kind \in {"drain", "restore"} THEN pure
                       ELSE pure \ DOMAIN plan[p].ops
       ELSE UNCHANGED <<nb, pure>>
    /\ UNCHANGED <<cache, writes, requests>>

---------------------------------------------------------------------------
(* The environment *)

OtherWriter(r) ==
    /\ writes < MaxWrites
    /\ \E n \in 0..MaxPrio \ {nb[r].prio}, m \in {nb[r].mark, 0} :
         nb' = [nb EXCEPT ![r] = [prio |-> n, mark |-> m]]
    /\ writes' = writes + 1
    /\ pure' = pure \ {r}
    /\ UNCHANGED <<cache, plan, requests>>

\* Monitor updates arrive in the cache group by group (one table each here).
MonitorUpdate(g) ==
    /\ \E r \in MembersOf(g) : cache[r] # nb[r]
    /\ cache' = [r \in HARows |-> IF Group[r] = g THEN nb[r] ELSE cache[r]]
    /\ UNCHANGED <<nb, plan, writes, requests, pure>>

HANext ==
    \/ \E p \in Plans, c \in HAChassis : Evacuate(p, c) \/ Restore(p, c)
    \/ \E p \in Plans, n \in Names, c \in HAChassis : Failover(p, n, c)
    \/ \E p \in Plans : PreviewDiff(p) \/ Apply(p)
    \/ \E r \in HARows : OtherWriter(r)
    \/ \E g \in HAGroups : MonitorUpdate(g)

HASpec == HAInit /\ [][HANext]_haVars

---------------------------------------------------------------------------
(* Properties *)

HATypeOK ==
    /\ {nb, cache} \subseteq [HARows -> PrioRow]
    /\ \A p \in Plans : IsPlan(plan[p])
    /\ writes \in 0..MaxWrites /\ requests \in 0..MaxRequests /\ pure \subseteq HARows

\* Rows that at commit time still are what the builder of plan p read.
Unmoved(p) == {r \in HARows : nb[r] = plan[p].seen[r]}
Commits(p) == plan[p].stage = "stored" /\ plan'[p] = NoPlan /\ WaitsHold(p)

(* Evacuate and Restore of one row, in any interleaving of any number of   *)
(* plans, leave it at its original priority or at 0 with that priority     *)
(* remembered (drainPriorityKey: "allows Restore to return the chassis to  *)
(* its original priority").  Rows a failover or another client wrote are not   *)
(* claimed: there the marker may be stale.                                 *)
DrainRemembers ==
    \A r \in pure : \/ nb[r] = [prio |-> InitPrio[r], mark |-> NoMark]
                    \/ nb[r] = [prio |-> 0, mark |-> InitPrio[r]]

(* A committed failover leaves the target at least as high as every member *)
(* of its group that did not change since the request read it; at the      *)
(* largest priority the bump goes down and only the change is promised.    *)
TargetLeads ==
    [][\A p \in Plans : Commits(p) /\ plan[p].kind \in {"swap", "bump"} =>
         \E g \in {Group[s] : s \in DOMAIN plan[p].ops} :
           \E t \in MembersOf(g) \cap DOMAIN plan[p].ops :
             /\ Host[t] = plan[p].on
             /\ \/ plan[p].kind = "bump" /\ plan[p].seen[t].prio = MaxPrio
                \/ \A r \in MembersOf(g) \cap (Unmoved(p) \cup {t}) :
                     nb'[r].prio <= nb'[t].prio]_haVars

(* A failover changes rows of one group only, and one that holds the       *)
(* target.  If a Northbound group bears the name given, it is one of that  *)
(* name.  Otherwise it need not be the gateway the operator named: it is   *)
(* the only group of the target, whatever the name was                     *)
(* (failover.go:286-287), or, when the target is in several, any of those  *)
(* whose chassis are exactly the named Southbound group's; groups of equal *)
(* membership are not told apart (failover.go:353-357).                    *)
MovesOneGroup ==
    \A p \in Plans : plan[p].kind \in {"swap", "bump"} =>
        \E g \in HAGroups :
          /\ DOMAIN plan[p].ops \subseteq MembersOf(g)
          /\ \E t \in DOMAIN plan[p].ops : Host[t] = plan[p].on
          /\ \/ NameOf[g] = plan[p].name
             \/ /\ \A h \in HAGroups : NameOf[h] # plan[p].name
                /\ \/ \A s \in HARows : Host[s] = plan[p].on => Group[s] = g
                   \/ NameKey(g) = SbKey(plan[p].name)

(* A committed Evacuate leaves the chassis at 0 in every group, except     *)
(* where an entry changed after the request had read it.                   *)
DrainIsComplete ==
    [][\A p \in Plans : Commits(p) /\ plan[p].kind = "drain" =>
         \A r \in Unmoved(p) : Host[r] = plan[p].on => nb'[r].prio = 0]_haVars

(* A swap whose rows did not change since they were read exchanges their   *)
(* priorities: the group keeps its set of priorities and no tie appears.   *)
SwapExchanges ==
    [][\A p \in Plans :
         (Commits(p) /\ plan[p].kind = "swap" /\ DOMAIN plan[p].ops \subseteq Unmoved(p)) =>
           \A r, s \in DOMAIN plan[p].ops : r # s => nb'[r].prio = nb[s].prio]_haVars

(* Drains remember what Restore needs, and a failover changes one group of *)
(* the target: the one named when it is known by that name, else the only  *)
(* one or one of the same membership; for every interleaving of plans,     *)
(* another writer and late monitor updates (failover.go).                  *)
FailoverHolds == HATypeOK /\ DrainRemembers /\ MovesOneGroup

(* What committing a failover plan does: the target leads, an evacuated    *)
(* chassis is at 0 everywhere, a swap is an exchange; for the rows that    *)
(* did not move since the request read them.                               *)
FailoverSteps == TargetLeads /\ DrainIsComplete /\ SwapExchanges

=============================================================================
