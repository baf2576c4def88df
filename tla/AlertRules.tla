----------------------------- MODULE AlertRules -----------------------------
(***************************************************************************)
(* The checks of internal/alert/rules.go and the webhook notifier.  A      *)
(* check lists one cache table after the other while the cluster changes   *)
(* and the cache is purged and its tables come back one by one; two rules  *)
(* remember what they saw at the last tick.  The alert engine runs one     *)
(* check at a time.                                                        *)
(***************************************************************************)
EXTENDS Integers, Sequences, FiniteSets, Functions

CONSTANTS
    FlowCounts,     \* numbers of logical flows, 0 excluded
    ThresholdPct,   \* FlowCountAnomaly's percentage
    HaRows,         \* ids of HA_Chassis rows, one more than the group has
    Hosts,          \* chassis
    NUrls,          \* webhook endpoints, in the order of the configuration
    DeadUrls,       \* those that never answer
    AlertNames,     \* what a notification may be about
    MaxChanges      \* bound on changes of the cluster

VARIABLES
    loaded,         \* the tables that are in the cache
    flows, lastCount, firstRun, flowAlert,
    group,          \* HA_Chassis_Group.ha_chassis, in order
    row,            \* HA_Chassis: id -> [host, prio], host NoHost when unset
    haCheck,        \* the check under way: [stage, list]
    lastActive, initialized, haAlert,
    led,            \* observation: hosts that led since the last check read the rows
    torn,           \* observation: a member was replaced during the check
    before,         \* observation: the torn and led of the check before
    registered,     \* chassis with a Chassis and a Chassis_Private row
    staleCheck,     \* [stage, privates]
    missing,        \* chassis reported without heartbeat
    joined, blind,  \* observation: joined during the check; no Chassis_Private to read
    todo, turn,     \* payloads to post, the first to the endpoints from turn on
    got, told,      \* what each endpoint received; observation: what Notify was given
    changes

flowVars  == <<flows, lastCount, firstRun, flowAlert>>
haVars    == <<group, row, haCheck, lastActive, initialized, haAlert, led, torn, before>>
staleVars == <<registered, staleCheck, missing, joined, blind>>
hookVars  == <<todo, turn, got, told>>
ruleVars  == <<loaded, flowVars, haVars, staleVars, hookVars, changes>>

NoHost  == "none"
NoAlert == [from |-> NoHost, to |-> NoHost]

FlowTables  == {"Logical_Flow"}
HaTables    == {"HA_Chassis_Group", "HA_Chassis"}
StaleTables == {"SB_Global", "Chassis_Private", "Chassis"}

ASSUME RuleConstants ==
    /\ FlowCounts \subseteq Nat \ {0} /\ ThresholdPct \in Nat
    /\ IsFiniteSet(Hosts) /\ Cardinality(HaRows) = Cardinality(Hosts) + 1 /\ NoHost \notin Hosts
    /\ NUrls \in Nat \ {0} /\ DeadUrls \subseteq 1..NUrls /\ MaxChanges \in Nat

Change == changes < MaxChanges /\ changes' = changes + 1

---------------------------------------------------------------------------
(* FlowCountAnomaly *)

FlowsChange ==
    /\ Change /\ flows' \in FlowCounts \ {flows}
    /\ UNCHANGED <<loaded, lastCount, firstRun, flowAlert, haVars, staleVars, hookVars>>

\* A count of zero is a purged table, not a drop.
Gap(count) == count = 0

Abs(x) == IF x < 0 THEN -x ELSE x

\* One check: |count - lastCount| / lastCount * 100 > ThresholdPct
CheckFlows ==
    LET count == IF "Logical_Flow" \in loaded THEN flows ELSE 0 IN
    /\ IF Gap(count) THEN UNCHANGED <<lastCount, firstRun>> /\ flowAlert' = <<>>
       ELSE /\ lastCount' = count /\ firstRun' = FALSE
            /\ flowAlert' = IF ~ firstRun /\ lastCount # 0
                               /\ Abs(count - lastCount) * 100 > ThresholdPct * lastCount
                            THEN <<lastCount, count>> ELSE <<>>
    /\ UNCHANGED <<loaded, flows, haVars, staleVars, hookVars, changes>>

---------------------------------------------------------------------------
(* HAFailover *)

\* The positions of the members that are there and have a chassis.
Members(list, rows) == {i \in DOMAIN list : list[i] \in DOMAIN rows /\ rows[list[i]].host # NoHost}

\* The listed member with a chassis and the highest priority, the first of equals.
Active(list, rows) ==
    LET ms      == Members(list, rows)
        prio(i) == rows[list[i]].prio
        best    == CHOOSE i \in ms : \A j \in ms : prio(j) < prio(i) \/ (prio(j) = prio(i) /\ i <= j)
    IN  IF ms = {} THEN NoHost ELSE rows[list[best]].host

HaStep(h, r, t) ==
    /\ Change /\ group' = h /\ row' = r
    /\ torn' = (torn \/ (t /\ haCheck.stage = "rows"))
    /\ led' = led \cup {Active(h, r)}
    /\ UNCHANGED <<loaded, haCheck, lastActive, initialized, haAlert, before, flowVars, staleVars, hookVars>>

\* A failover: two members exchange their priorities.
SwapPriorities ==
    \E h, k \in DOMAIN row :
        h # k /\ HaStep(group, [row EXCEPT ![h].prio = row[k].prio, ![k].prio = row[h].prio], FALSE)

\* A chassis leaves and its reference is cleared, or it comes back.
ClearHost ==
    \E h \in DOMAIN row, c \in Hosts \cup {NoHost} :
        /\ row[h].host # c /\ (row[h].host = NoHost \/ c = NoHost)
        /\ c = NoHost \/ \A k \in DOMAIN row : row[k].host # c
        /\ HaStep(group, [row EXCEPT ![h].host = c], FALSE)

\* A member row is deleted and created again with the same contents.
ReplaceRow ==
    \E h \in DOMAIN row, n \in HaRows \ DOMAIN row :
        HaStep([i \in DOMAIN group |-> IF group[i] = h THEN n ELSE group[i]],
               [k \in (DOMAIN row \ {h}) \cup {n} |-> IF k = n THEN row[h] ELSE row[k]], TRUE)

\* The group table is listed, then the rows: two reads.
HaReadGroups ==
    /\ haCheck.stage = "idle"
    /\ haCheck' = [stage |-> "rows", list |-> IF "HA_Chassis_Group" \in loaded THEN group ELSE <<>>]
    /\ haAlert' = NoAlert /\ torn' = FALSE /\ before' = [before EXCEPT !.torn = torn]
    /\ UNCHANGED <<loaded, group, row, lastActive, initialized, led, flowVars, staleVars, hookVars, changes>>

\* Only a group that had a leader before and has one now can fail over.
Failover(cur) == initialized /\ cur # NoHost /\ lastActive # NoHost /\ lastActive # cur

HaReadRows ==
    LET cur == Active(haCheck.list, IF "HA_Chassis" \in loaded THEN row ELSE <<>>) IN
    /\ haCheck.stage = "rows"
    /\ haCheck' = [stage |-> "idle", list |-> <<>>]
    /\ initialized' = TRUE /\ lastActive' = cur
    /\ haAlert' = IF Failover(cur) THEN [from |-> lastActive, to |-> cur] ELSE NoAlert
    /\ before' = [before EXCEPT !.led = led] /\ led' = {Active(group, row)}
    /\ UNCHANGED <<loaded, group, row, torn, flowVars, staleVars, hookVars, changes>>

---------------------------------------------------------------------------
(* StaleChassis: SB_Global, then Chassis_Private, then Chassis *)

Join(c) ==
    /\ Change /\ c \notin registered /\ registered' = registered \cup {c}
    /\ joined' = IF staleCheck.stage = "chassis" THEN joined \cup {c} ELSE joined
    /\ UNCHANGED <<loaded, staleCheck, missing, blind, flowVars, haVars, hookVars>>

Leave(c) ==
    /\ Change /\ c \in registered /\ registered' = registered \ {c}
    /\ UNCHANGED <<loaded, staleCheck, missing, joined, blind, flowVars, haVars, hookVars>>

\* Without an SB_Global row there is nothing to acknowledge.
StaleReadGlobal ==
    /\ staleCheck.stage = "idle"
    /\ staleCheck' = IF "SB_Global" \in loaded THEN [stage |-> "privates", privates |-> {}]
                     ELSE staleCheck
    /\ missing' = {} /\ joined' = {} /\ blind' = FALSE
    /\ UNCHANGED <<loaded, registered, flowVars, haVars, hookVars, changes>>

StaleReadPrivates ==
    /\ staleCheck.stage = "privates"
    /\ blind' = ("Chassis_Private" \notin loaded)
    /\ staleCheck' = [stage |-> "chassis", privates |-> IF blind' THEN {} ELSE registered]
    /\ UNCHANGED <<loaded, registered, missing, joined, flowVars, haVars, hookVars, changes>>

\* Mutant: every chassis is reported whose row was read.
Missing_All(chassis, privates) == chassis

Missing(chassis, privates) == chassis \ privates

StaleReadChassis ==
    /\ staleCheck.stage = "chassis"
    /\ missing' = Missing(IF "Chassis" \in loaded THEN registered ELSE {}, staleCheck.privates)
    /\ staleCheck' = [stage |-> "idle", privates |-> {}]
    /\ UNCHANGED <<loaded, registered, joined, blind, flowVars, haVars, hookVars, changes>>

---------------------------------------------------------------------------
(* The webhook notifier *)

Of(alerts, st) == {a \in alerts : a.state = st}

\* Notify groups by state; an empty group is not posted.
Payload(alerts, st) == IF Of(alerts, st) = {} THEN <<>> ELSE <<Of(alerts, st)>>
Payloads(alerts) == Payload(alerts, "firing") \o Payload(alerts, "resolved")

\* What a batch amounts to for an endpoint.
Told(alerts) ==
    IF Of(alerts, "firing") = {} THEN <<Of(alerts, "resolved")>>
    ELSE IF Of(alerts, "resolved") = {} THEN <<Of(alerts, "firing")>>
    ELSE <<Of(alerts, "firing"), Of(alerts, "resolved")>>

Notify(alerts) ==
    /\ todo = <<>> /\ alerts # {} /\ Change
    /\ todo' = Payloads(alerts) /\ told' = told \o Told(alerts)
    /\ UNCHANGED <<loaded, turn, got, flowVars, haVars, staleVars>>

\* One post: a failure is logged and the next is made; nothing is tried again.
Post ==
    /\ todo # <<>>
    /\ got' = IF turn \in DeadUrls THEN got ELSE [got EXCEPT ![turn] = Append(@, Head(todo))]
    /\ IF turn < NUrls THEN turn' = turn + 1 /\ UNCHANGED todo
       ELSE turn' = 1 /\ todo' = Tail(todo)
    /\ UNCHANGED <<loaded, told, flowVars, haVars, staleVars, changes>>

---------------------------------------------------------------------------

\* A reconnect or a suspension empties the cache ...
Purge ==
    /\ Change /\ loaded # {} /\ loaded' = {}
    /\ UNCHANGED <<flowVars, haVars, staleVars, hookVars>>

\* ... and each table comes back with its own monitor.
Load(t) ==
    /\ t \notin loaded /\ loaded' = loaded \cup {t}
    /\ UNCHANGED <<flowVars, haVars, staleVars, hookVars, changes>>

RulesInit ==
    /\ loaded = FlowTables \cup HaTables \cup StaleTables /\ changes = 0
    /\ flows \in FlowCounts /\ lastCount = 0 /\ firstRun = TRUE /\ flowAlert = <<>>
    /\ group \in Injection(1..Cardinality(Hosts), HaRows)
    /\ \E hosts \in Bijection(1..Cardinality(Hosts), Hosts) :
          row = [h \in Range(group) |->
                   LET i == CHOOSE j \in DOMAIN group : group[j] = h IN [host |-> hosts[i], prio |-> i]]
    /\ haCheck = [stage |-> "idle", list |-> <<>>] /\ lastActive = NoHost /\ initialized = FALSE
    /\ haAlert = NoAlert /\ led = {Active(group, row)} /\ torn = FALSE
    /\ before = [torn |-> FALSE, led |-> {}]
    /\ registered \in SUBSET Hosts /\ staleCheck = [stage |-> "idle", privates |-> {}]
    /\ missing = {} /\ joined = {} /\ blind = FALSE
    /\ todo = <<>> /\ turn = 1 /\ got = [u \in 1..NUrls |-> <<>>] /\ told = <<>>

FlowNext  == FlowsChange \/ CheckFlows \/ Purge \/ (\E t \in FlowTables : Load(t))
HaNext    ==
    \/ SwapPriorities \/ ClearHost \/ ReplaceRow \/ HaReadGroups \/ HaReadRows
    \/ Purge \/ (\E t \in HaTables : Load(t))
StaleNext ==
    \/ \E c \in Hosts : Join(c) \/ Leave(c)
    \/ StaleReadGlobal \/ StaleReadPrivates \/ StaleReadChassis
    \/ Purge \/ (\E t \in StaleTables : Load(t))
HookNext  == (\E A \in SUBSET [alert : AlertNames, state : {"firing", "resolved"}] : Notify(A)) \/ Post

RulesNext == FlowNext \/ HaNext \/ StaleNext \/ HookNext
RulesSpec == RulesInit /\ [][RulesNext]_ruleVars

---------------------------------------------------------------------------

\* The remembered state is a state of the cluster: a baseline that was
\* counted, a leader that is a chassis.
RulesTypeOK ==
    /\ lastCount \in FlowCounts \cup {0} /\ lastActive \in Hosts \cup {NoHost}
    /\ Range(group) = DOMAIN row /\ missing \subseteq Hosts
    /\ haCheck.stage \in {"idle", "rows"} /\ staleCheck.stage \in {"idle", "privates", "chassis"}

\* A flow anomaly compares two counts of loaded tables: a purge or a reload
\* never looks like a change (rules.go:197-207).
NoFalseAnomaly ==
    flowAlert # <<>> => flowAlert[1] \in FlowCounts /\ flowAlert[2] \in FlowCounts

\* A failover alert names two chassis that both led the group in the
\* database between the last check's read of the rows and this one's.  It
\* can be false in one way: a member row was replaced between the two reads
\* of this check, or of the one before, whose false leader this check
\* compares with (rules.go:249-330).
NoFalseFailover ==
    haAlert # NoAlert /\ ~ torn /\ ~ before.torn =>
        haAlert.from \in before.led /\ haAlert.to \in before.led

\* A chassis that has a heartbeat is reported without one only when it
\* joined after the check read Chassis_Private, or when that table was not
\* in the cache while the others were (rules.go:27-66).
MissingOnlyWhenJoining == blind \/ missing \subseteq joined

\* When Notify returns, every live endpoint has every payload of every batch
\* in order, firing before resolved, whatever the others did (webhook.go:35-90).
LiveUrlsHearAll == todo = <<>> => \A u \in 1..NUrls \ DeadUrls : got[u] = told

(* A purged table is no flow anomaly; a false failover needs a torn check  *)
(* and a false missing chassis one that joined or a table out of the       *)
(* cache; and every live webhook hears of every alert.                     *)
RulesHold ==
    RulesTypeOK /\ NoFalseAnomaly /\ NoFalseFailover /\ MissingOnlyWhenJoining /\ LiveUrlsHearAll
=============================================================================
