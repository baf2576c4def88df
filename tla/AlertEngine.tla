---------------------------- MODULE AlertEngine ----------------------------
(***************************************************************************)
(* The alert engine of internal/alert.  One goroutine evaluates the rules  *)
(* on a ticker: it copies the rule switches, runs every rule's check       *)
(* against the client caches without a lock, enters each alert into the    *)
(* table of active alerts under Engine.mu, resolves in one critical        *)
(* section what was not seen, and calls the notifier after unlocking.      *)
(* Silences and rule switches change at any moment in between, the caches  *)
(* change, and a snapshot session can purge them.                          *)
(*                                                                         *)
(* An alert is named by its fingerprint.  The clock is abstract: a silence *)
(* may expire at any time, and a resolved alert may outlive the TTL.       *)
(***************************************************************************)
EXTENDS Integers, FiniteSets

CONSTANTS
    Rules,        \* names of the registered rules
    Alerts,       \* fingerprints
    RuleOf,       \* RuleOf[a]: the rule that raises alert a
    Silences,     \* ids of silences
    Covers,       \* Covers[s]: the alerts silence s matches
    Conditions,   \* the alerts whose condition can hold in the cluster
    PurgedAlerts, \* what the rules report of a purged cache
    MaxFaults     \* bound on failing checks

VARIABLES
    cond,        \* the alerts whose condition holds in the cluster
    suspended,   \* OVNDatabases.suspended: the caches are purged
    active,      \* active[a]: the entry of Engine.active
    silence,     \* silence[s]: "none", "live" or "expired"
    disabled,    \* Engine.disabled
    ev,          \* the evaluation in progress and its local variables
    paged,       \* paged[a]: the last notification sent for a
    faults,      \* bounded counter of failed checks
    open,        \* observation: paged as firing and not resolved since
    steady, hushed  \* observation, see EvalStart

ghosts == <<open, steady, hushed>>
vars == <<cond, suspended, active, silence, disabled, ev, paged, faults, ghosts>>

\* old: the resolved alert is older than resolvedAlertTTL.
Entry   == [state : {"none", "firing", "resolved"}, notified : BOOLEAN, old : BOOLEAN]
NoEntry == [state |-> "none", notified |-> FALSE, old |-> FALSE]

Notes == [alert : Alerts, state : {"firing", "resolved"}]

\* todo: rules to check; pend: alerts of the last check to enter; stale: silences to drop.
Eval   == [stage : {"idle", "run", "notify"}, todo : SUBSET Rules, pend : SUBSET Alerts,
           seen : SUBSET Alerts, failed : SUBSET Rules, stale : SUBSET Silences,
           notes : SUBSET Notes]
NoEval == [stage |-> "idle", todo |-> {}, pend |-> {}, seen |-> {}, failed |-> {},
           stale |-> {}, notes |-> {}]

ASSUME AlertConstants ==
    /\ RuleOf \in [Alerts -> Rules]
    /\ Covers \in [Silences -> SUBSET Alerts]
    /\ PurgedAlerts \subseteq Alerts /\ Conditions \subseteq Alerts
    /\ MaxFaults \in Nat

Init ==
    /\ cond \in SUBSET Conditions
    /\ suspended = FALSE
    /\ active = [a \in Alerts |-> NoEntry]
    /\ silence = [s \in Silences |-> "none"]
    /\ disabled = {}
    /\ ev = NoEval
    /\ paged = [a \in Alerts |-> "none"]
    /\ faults = 0
    /\ open = {} /\ steady = {} /\ hushed = {}

isSilenced(a) == \E s \in Silences : silence[s] = "live" /\ a \in Covers[s]
ActiveAlerts == {a \in Alerts : active[a].state = "firing" /\ ~ isSilenced(a)}

---------------------------------------------------------------------------
(* evaluate *)

(* A paused engine skips the tick.  Observed from here to the end of the   *)
(* evaluation: steady, the enabled alerts whose condition has held all the *)
(* time with the caches in place; hushed, the alerts that have been        *)
(* silenced all the time.                                                  *)
EvalStart ==
    /\ ev.stage = "idle" /\ ~ suspended
    /\ ev' = [NoEval EXCEPT !.stage = "run", !.todo = Rules \ disabled,
                            !.stale = {s \in Silences : silence[s] = "expired"}]
    /\ steady' = {a \in cond : RuleOf[a] \notin disabled}
    /\ hushed' = {a \in Alerts : isSilenced(a)}
    /\ UNCHANGED <<cond, suspended, active, silence, disabled, paged, faults, open>>

\* rule.Check of one rule: what the caches show of it, or an error.
RuleCheck(r) ==
    /\ ev.stage = "run" /\ ev.pend = {} /\ r \in ev.todo
    /\ \/ /\ ev' = [ev EXCEPT !.todo = @ \ {r},
                    !.pend = {a \in IF suspended THEN PurgedAlerts ELSE cond : RuleOf[a] = r}]
          /\ UNCHANGED faults
       \/ /\ faults < MaxFaults /\ faults' = faults + 1
          /\ ev' = [ev EXCEPT !.todo = @ \ {r}, !.failed = @ \cup {r}]
    /\ UNCHANGED <<cond, suspended, active, silence, disabled, paged, ghosts>>

\* Mutant: the notified flag of a known alert is not written back.
EnterAlert_LosesFlag(a) ==
    LET exists == active[a].state # "none"
        notify == ~ active[a].notified /\ ~ isSilenced(a)
    IN
    /\ ev.stage = "run" /\ a \in ev.pend
    /\ active' = [active EXCEPT ![a] = IF exists THEN @
                     ELSE [state |-> "firing", notified |-> notify, old |-> FALSE]]
    /\ ev' = [ev EXCEPT !.pend = @ \ {a}, !.seen = @ \cup {a},
                        !.notes = IF notify THEN @ \cup {[alert |-> a, state |-> "firing"]} ELSE @]
    /\ UNCHANGED <<cond, suspended, silence, disabled, paged, faults, ghosts>>

(* One alert of the check, under Engine.mu: a new one starts firing, a     *)
(* known one keeps its state, and it pages on its first unsilenced tick.   *)
EnterAlert(a) ==
    LET stored == IF active[a].state # "none" THEN active[a]
                  ELSE [state |-> "firing", notified |-> FALSE, old |-> FALSE]
        notify == ~ stored.notified /\ ~ isSilenced(a)
        note   == [alert |-> a, state |-> stored.state]
    IN
    /\ ev.stage = "run" /\ a \in ev.pend
    /\ active' = [active EXCEPT ![a] =
          [state |-> stored.state, notified |-> stored.notified \/ notify, old |-> stored.old]]
    /\ ev' = [ev EXCEPT !.pend = @ \ {a}, !.seen = @ \cup {a},
                        !.notes = IF notify THEN @ \cup {note} ELSE @]
    /\ UNCHANGED <<cond, suspended, silence, disabled, paged, faults, ghosts>>

\* Mutant: a failed check counts as "no alerts".
Unseen_ForgetsFailures == {a \in Alerts : active[a].state = "firing" /\ a \notin ev.seen}

\* Mutant: the alerts of a disabled rule are left alone.
Unseen_SkipsDisabled == {a \in Alerts : /\ active[a].state = "firing" /\ a \notin ev.seen
                                        /\ RuleOf[a] \notin ev.failed \cup disabled}

\* Firing alerts that this evaluation did not see, their rule having answered.
Unseen == {a \in Alerts : /\ active[a].state = "firing" /\ a \notin ev.seen
                          /\ RuleOf[a] \notin ev.failed}

(* The critical section at the end: resolve what was not seen, drop the    *)
(* resolved alerts past their TTL and the expired silences.                *)
Resolve ==
    /\ ev.stage = "run" /\ ev.todo = {} /\ ev.pend = {}
    /\ active' = [a \in Alerts |->
          IF a \in Unseen THEN [active[a] EXCEPT !.state = "resolved"]
          ELSE IF active[a].state = "resolved" /\ active[a].old THEN NoEntry
          ELSE active[a]]
    /\ silence' = [s \in Silences |-> IF s \in ev.stale THEN "none" ELSE silence[s]]
    /\ ev' = [ev EXCEPT !.stage = "notify",
          !.notes = @ \cup {[alert |-> a, state |-> "resolved"] : a \in {a \in Unseen : ~ isSilenced(a)}}]
    /\ open' = open \ Unseen
    /\ UNCHANGED <<cond, suspended, disabled, paged, faults, steady, hushed>>

\* The notifier, after unlocking: a note for every alert that changed.
Sends(n) == ev.stage = "notify" /\ n \in ev.notes

Notify ==
    /\ ev.stage = "notify"
    /\ paged' = [a \in Alerts |->
          IF \E n \in ev.notes : n.alert = a
          THEN (CHOOSE n \in ev.notes : n.alert = a).state ELSE paged[a]]
    /\ open' = open \cup {n.alert : n \in {n \in ev.notes : n.state = "firing"}}
    /\ ev' = NoEval
    /\ steady' = {} /\ hushed' = {}
    /\ UNCHANGED <<cond, suspended, active, silence, disabled, faults>>

---------------------------------------------------------------------------
(* Requests and the environment *)

AddSilence(s) ==
    /\ silence[s] = "none"
    /\ silence' = [silence EXCEPT ![s] = "live"]
    /\ UNCHANGED <<cond, suspended, active, disabled, ev, paged, faults, ghosts>>

\* A silence that is no longer live hushes nobody.
SilenceEnds(s, how) ==
    /\ silence' = [silence EXCEPT ![s] = how]
    /\ hushed' = {a \in hushed : \E t \in Silences \ {s} : silence[t] = "live" /\ a \in Covers[t]}
    /\ UNCHANGED <<cond, suspended, active, disabled, ev, paged, faults, open, steady>>

RemoveSilence(s) == silence[s] # "none" /\ SilenceEnds(s, "none")
SilenceExpires(s) == silence[s] = "live" /\ SilenceEnds(s, "expired")

SetRuleEnabled(r, enabled) ==
    /\ (r \in disabled) = enabled
    /\ disabled' = IF enabled THEN disabled \ {r} ELSE disabled \cup {r}
    /\ UNCHANGED <<cond, suspended, active, silence, ev, paged, faults, ghosts>>

\* The TTL is measured against the start of an evaluation.
ResolvedAges(a) ==
    /\ ev.stage = "idle" /\ active[a].state = "resolved" /\ ~ active[a].old
    /\ active' = [active EXCEPT ![a].old = TRUE]
    /\ UNCHANGED <<cond, suspended, silence, disabled, ev, paged, faults, ghosts>>

ClusterChanges(a) ==
    /\ cond' = IF a \in cond THEN cond \ {a} ELSE cond \cup {a}
    /\ steady' = steady \ {a}
    /\ UNCHANGED <<suspended, active, silence, disabled, ev, paged, faults, open, hushed>>

\* A snapshot session purges the caches, or reloads them.
SessionToggles ==
    /\ suspended' = ~ suspended
    /\ steady' = {}
    /\ UNCHANGED <<cond, active, silence, disabled, ev, paged, faults, open, hushed>>

---------------------------------------------------------------------------

Evaluate ==
    \/ EvalStart \/ (\E r \in Rules : RuleCheck(r)) \/ (\E a \in Alerts : EnterAlert(a))
    \/ Resolve \/ Notify

Requests ==
    \/ \E s \in Silences : AddSilence(s) \/ RemoveSilence(s)
    \/ \E r \in Rules, enabled \in BOOLEAN : SetRuleEnabled(r, enabled)

Next ==
    \/ Evaluate \/ Requests
    \/ \E s \in Silences : SilenceExpires(s)
    \/ \E a \in Alerts : ResolvedAges(a)
    \/ \E a \in Conditions : ClusterChanges(a)
    \/ SessionToggles

Spec == Init /\ [][Next]_vars

(* The ticker keeps firing and an evaluation runs to its end: checks read  *)
(* memory and webhook posts have a timeout.  Time passes.                  *)
Fairness ==
    /\ WF_vars(Evaluate)
    /\ \A a \in Alerts : SF_vars(ResolvedAges(a))
FairSpec == Spec /\ Fairness

---------------------------------------------------------------------------
(* Properties *)

\* Every variable has its type.
TypeOK ==
    /\ cond \subseteq Conditions /\ suspended \in BOOLEAN
    /\ active \in [Alerts -> Entry]
    /\ silence \in [Silences -> {"none", "live", "expired"}]
    /\ disabled \subseteq Rules
    /\ ev \in Eval
    /\ paged \in [Alerts -> {"none", "firing", "resolved"}]
    /\ faults \in Nat
    /\ open \subseteq Alerts /\ steady \subseteq Alerts
    /\ hushed \subseteq Alerts

(* An alert that keeps firing pages once: the next firing page comes only  *)
(* after it resolved, however silences come and go (engine.go:213-232).    *)
PagedOncePerEpisode ==
    [][\A a \in Alerts : Sends([alert |-> a, state |-> "firing"]) /\ ev' = NoEval
          => a \notin open]_vars

(* No false resolve: an alert whose condition held during the whole        *)
(* evaluation, with its rule enabled and the caches in place, stays firing *)
(* even when a check fails (engine.go:198-204, 242-246).                   *)
NoFalseResolve ==
    [][\A a \in steady : active[a].state = "firing" => active'[a].state = "firing"]_vars

(* An alert that was silenced during the whole evaluation is not notified  *)
(* by it, neither as firing nor as resolved (engine.go:219-232, 252-257).  *)
SilencedNeverPaged ==
    [][\A a \in hushed : \A st \in {"firing", "resolved"} :
          ~ (Sends([alert |-> a, state |-> st]) /\ ev' = NoEval)]_vars

(* The pages are right: one per episode and none for what was silenced     *)
(* during the whole evaluation, however silences, switches and sessions    *)
(* come in between (engine.go:213-232, 252-257).                           *)
PagesAreRight == []TypeOK /\ PagedOncePerEpisode /\ SilencedNeverPaged

(* A condition that stays, with its rule enabled, no silence and the       *)
(* caches in place, ends up as an active alert that has paged, even when   *)
(* it first fired under a silence or within the TTL of an earlier episode  *)
(* (engine.go:213-232, 261-266).                                           *)
Standing(a) == a \in cond /\ RuleOf[a] \notin disabled /\ ~ suspended /\ ~ isSilenced(a)
StandingIsPaged ==
    \A a \in Alerts : <>[]Standing(a) => <>[](a \in ActiveAlerts /\ active[a].notified)

(* A condition that is gone for good leaves no firing alert behind,        *)
(* unless the engine is paused (engine.go:242-258).                        *)
GoneIsResolved ==
    \A a \in Alerts : <>[](a \notin cond /\ ~ suspended) => <>[](active[a].state # "firing")

---------------------------------------------------------------------------
(* What comments of the repository say, refuted by the code.               *)

(* engine.go:252-253: "Don't notify on the resolve of an alert that was    *)
(* silenced while firing - the operator never saw it fire".  The silence   *)
(* is looked up when the alert resolves.                                   *)
ResolvesWhatWasSeen ==
    [][\A a \in Alerts : Sends([alert |-> a, state |-> "resolved"]) /\ ev' = NoEval
          => active[a].notified]_vars

=============================================================================
