------------------------- MODULE AlertEngineProofs -------------------------
(***************************************************************************)
(* Proofs about AlertEngine, for every set of rules, alerts and silences   *)
(* and every number of failing checks: one page per episode, no page for   *)
(* what was silenced all through the evaluation, no false resolve.         *)
(*                                                                         *)
(* The argument.  A note that an alert fires is taken in the critical      *)
(* section that marks the alert notified, and an alert that has paged      *)
(* stays marked until it resolves; so a second note needs a resolve in     *)
(* between.  An alert that stands all through an evaluation is always in   *)
(* one of four places: its rule is still to be checked, its rule has       *)
(* failed, it waits to be entered, or it was seen.                         *)
(***************************************************************************)
EXTENDS AlertEngine, TLAPS

Firing(a) == active[a].state = "firing"
FiringNote(a) == [alert |-> a, state |-> "firing"]

\* An alert that has paged, or is about to, fires and is marked as notified.
PagedInv == \A a \in Alerts :
    /\ a \in open => Firing(a) /\ active[a].notified
    /\ FiringNote(a) \in ev.notes => /\ a \notin open /\ a \in ev.seen
                                     /\ Firing(a) /\ active[a].notified

\* While rules run, what was silenced all the time is silenced; it has no note.
HushedInv == \A a \in hushed :
    /\ ev.stage = "run" => isSilenced(a)
    /\ \A st \in {"firing", "resolved"} : [alert |-> a, state |-> st] \notin ev.notes

\* Where an alert is that stands all through the evaluation.
SteadyInv == \A a \in steady :
    /\ a \in cond /\ ~ suspended
    /\ ev.stage = "run" => \/ RuleOf[a] \in ev.todo \cup ev.failed
                           \/ a \in ev.pend \cup ev.seen

AlertInv == TypeOK /\ PagedInv /\ HushedInv /\ SteadyInv

---------------------------------------------------------------------------
(* The state of an evaluation *)

LEMMA EvalFields ==
    TypeOK => /\ ev.stage \in {"idle", "run", "notify"} /\ ev.todo \in SUBSET Rules
              /\ ev.pend \in SUBSET Alerts /\ ev.seen \in SUBSET Alerts
              /\ ev.failed \in SUBSET Rules /\ ev.stale \in SUBSET Silences
              /\ ev.notes \in SUBSET Notes
BY DEF TypeOK, Eval

LEMMA NoEvalType ==
    NoEval \in Eval /\ NoEval.stage = "idle" /\ NoEval.notes = {}
BY DEF NoEval, Eval

LEMMA Alerting ==
    /\ \A a \in Alerts : RuleOf[a] \in Rules
    /\ Conditions \subseteq Alerts /\ PurgedAlerts \subseteq Alerts
BY AlertConstants DEF AlertConstants

LEMMA EvalStartInv ==
    ASSUME AlertInv, EvalStart
    PROVE  AlertInv'
<1>1. ev' = [stage |-> "run", todo |-> Rules \ disabled, pend |-> {}, seen |-> {}, failed |-> {},
             stale |-> {s \in Silences : silence[s] = "expired"}, notes |-> {}]
  BY DEF EvalStart, NoEval
<1>2. TypeOK'
  <2>1. ev' \in Eval
    BY <1>1 DEF Eval
  <2>2. steady' \subseteq Alerts /\ hushed' \subseteq Alerts
    BY Alerting DEF EvalStart, AlertInv, TypeOK
  <2> QED  BY <2>1, <2>2 DEF AlertInv, EvalStart, TypeOK
<1>3. UNCHANGED <<active, silence, open>>
  BY DEF EvalStart
<1>4. hushed' = {a \in Alerts : isSilenced(a)}
  BY DEF EvalStart
<1>5. ev'.notes = {}
  BY <1>1
<1>6. PagedInv'
  BY <1>3, <1>5 DEF AlertInv, PagedInv, Firing
<1>7. HushedInv'
  BY <1>3, <1>4, <1>5 DEF HushedInv, isSilenced
<1>8. SteadyInv'
  <2>1. cond \subseteq Alerts
    BY Alerting DEF AlertInv, TypeOK
  <2> QED  BY <1>1, <2>1, Alerting DEF EvalStart, SteadyInv
<1> QED  BY <1>2, <1>6, <1>7, <1>8 DEF AlertInv

LEMMA RuleCheckInv ==
    ASSUME AlertInv, NEW r \in Rules, RuleCheck(r)
    PROVE  AlertInv'
<1> DEFINE found == {a \in IF suspended THEN PurgedAlerts ELSE cond : RuleOf[a] = r}
<1>1. ev \in Eval /\ ev.stage = "run" /\ ev.pend = {} /\ r \in ev.todo
  BY DEF RuleCheck, AlertInv, TypeOK
<1>2. found \subseteq Alerts
  BY Alerting DEF AlertInv, TypeOK
<1>3. \/ ev' = [ev EXCEPT !.todo = ev.todo \ {r}, !.pend = found]
      \/ ev' = [ev EXCEPT !.todo = ev.todo \ {r}, !.failed = ev.failed \cup {r}]
  BY DEF RuleCheck
<1>4. /\ ev' \in Eval /\ ev'.stage = ev.stage /\ ev'.seen = ev.seen /\ ev'.notes = ev.notes
      /\ ev'.todo = ev.todo \ {r}
      /\ \/ ev'.pend = found /\ ev'.failed = ev.failed
         \/ ev'.pend = ev.pend /\ ev'.failed = ev.failed \cup {r}
  <2> HIDE DEF found
  <2>1. CASE ev' = [ev EXCEPT !.todo = ev.todo \ {r}, !.pend = found]
    BY <1>1, <1>2, <2>1 DEF Eval
  <2>2. CASE ev' = [ev EXCEPT !.todo = ev.todo \ {r}, !.failed = ev.failed \cup {r}]
    BY <1>1, <2>2 DEF Eval
  <2> QED  BY <1>3, <2>1, <2>2
<1>5. TypeOK'
  BY <1>4 DEF RuleCheck, AlertInv, TypeOK, ghosts
<1>6. PagedInv'
  BY <1>4 DEF RuleCheck, AlertInv, PagedInv, Firing, ghosts
<1>7. HushedInv'
  BY <1>4 DEF RuleCheck, AlertInv, HushedInv, isSilenced, ghosts
<1>8. SteadyInv'
  <2>1. SUFFICES ASSUME NEW a \in steady
                 PROVE  /\ a \in cond /\ ~ suspended
                        /\ RuleOf[a] \in ev'.todo \cup ev'.failed \/ a \in ev'.pend \cup ev'.seen
    BY <1>4 DEF RuleCheck, SteadyInv, ghosts
  <2>2. a \in cond /\ ~ suspended /\ (RuleOf[a] \in ev.todo \cup ev.failed \/ a \in ev.seen)
    BY <1>1 DEF AlertInv, SteadyInv
  <2>3. RuleOf[a] = r => a \in found
    BY <2>2
  <2> QED  BY <1>1, <1>4, <2>2, <2>3
<1> QED  BY <1>5, <1>6, <1>7, <1>8 DEF AlertInv

LEMMA EnterAlertInv ==
    ASSUME AlertInv, NEW b \in Alerts, EnterAlert(b)
    PROVE  AlertInv'
<1>1. PICK stored, notify :
         /\ stored = IF active[b].state # "none" THEN active[b]
                     ELSE [state |-> "firing", notified |-> FALSE, old |-> FALSE]
         /\ notify = (~ stored.notified /\ ~ isSilenced(b))
  OBVIOUS
<1>2. active \in [Alerts -> Entry] /\ active[b] \in Entry /\ ev \in Eval
  BY DEF AlertInv, TypeOK
<1>3. /\ stored.state \in {"firing", "resolved"} /\ stored.notified \in BOOLEAN /\ stored.old \in BOOLEAN
      /\ notify \in BOOLEAN
      /\ Firing(b) => stored.state = "firing" /\ stored.notified = active[b].notified
  BY <1>1, <1>2 DEF Entry, Firing
<1>4. /\ ev.stage = "run" /\ b \in ev.pend
      /\ active' = [active EXCEPT ![b] = [state |-> stored.state, notified |-> stored.notified \/ notify,
                                          old |-> stored.old]]
      /\ ev' = [ev EXCEPT !.pend = ev.pend \ {b}, !.seen = ev.seen \cup {b},
                          !.notes = IF notify THEN ev.notes \cup {[alert |-> b, state |-> stored.state]}
                                    ELSE ev.notes]
      /\ UNCHANGED <<cond, suspended, silence, disabled, paged, faults, ghosts>>
  BY <1>1 DEF EnterAlert
<1> DEFINE notes == IF notify THEN ev.notes \cup {[alert |-> b, state |-> stored.state]} ELSE ev.notes
<1>5. notes \in SUBSET Notes
  BY <1>2, <1>3 DEF Eval, Notes
<1> HIDE DEF notes
<1>6. /\ ev' \in Eval /\ ev'.stage = "run" /\ ev'.todo = ev.todo /\ ev'.failed = ev.failed
      /\ ev'.pend = ev.pend \ {b} /\ ev'.seen = ev.seen \cup {b} /\ ev'.notes = notes
  <2>1. ev' = [ev EXCEPT !.pend = ev.pend \ {b}, !.seen = ev.seen \cup {b}, !.notes = notes]
    BY <1>4 DEF notes
  <2>2. /\ ev.stage = "run" /\ ev.pend \ {b} \in SUBSET Alerts /\ ev.seen \cup {b} \in SUBSET Alerts
    BY <1>2, <1>4, EvalFields DEF AlertInv
  <2> QED  BY ONLY <1>2, <1>5, <2>1, <2>2 DEF Eval
<1>7. /\ active' \in [Alerts -> Entry]
      /\ \A a \in Alerts \ {b} : active'[a] = active[a]
      /\ active'[b].state = stored.state /\ active'[b].notified = (stored.notified \/ notify)
  <2>1. [state |-> stored.state, notified |-> stored.notified \/ notify, old |-> stored.old] \in Entry
    BY <1>3 DEF Entry
  <2> QED  BY <1>2, <1>4, <2>1
<1>8. TypeOK'
  BY <1>4, <1>6, <1>7 DEF AlertInv, TypeOK, ghosts
<1>9. PagedInv'
  <2>1. open' = open
    BY <1>4 DEF ghosts
  <2>2. ASSUME NEW a \in Alerts, a \in open  PROVE Firing(a)' /\ active'[a].notified
    BY <1>3, <1>7, <2>2 DEF AlertInv, PagedInv, Firing
  <2>3. ASSUME NEW a \in Alerts, FiringNote(a) \in notes
        PROVE  a \notin open /\ a \in ev'.seen /\ Firing(a)' /\ active'[a].notified
    <3>1. CASE FiringNote(a) \in ev.notes
      BY <1>3, <1>6, <1>7, <3>1 DEF AlertInv, PagedInv, Firing
    <3>2. CASE FiringNote(a) \notin ev.notes
      <4>1. notify /\ FiringNote(a) = [alert |-> b, state |-> stored.state]
        BY <2>3, <3>2 DEF notes
      <4>2. a = b /\ stored.state = "firing" /\ ~ stored.notified
        BY <1>1, <4>1 DEF FiringNote
      <4>3. a \notin open
        BY <1>3, <4>2 DEF AlertInv, PagedInv
      <4> QED  BY <1>6, <1>7, <4>1, <4>2, <4>3 DEF Firing
    <3> QED  BY <3>1, <3>2
  <2> QED  BY <1>6, <2>1, <2>2, <2>3 DEF PagedInv
<1>10. HushedInv'
  <2>1. hushed' = hushed /\ \A a : isSilenced(a)' <=> isSilenced(a)
    BY <1>4 DEF ghosts, isSilenced
  <2>2. ASSUME NEW a \in hushed, NEW st \in {"firing", "resolved"}
        PROVE  [alert |-> a, state |-> st] \notin notes
    <3>1. isSilenced(a) /\ [alert |-> a, state |-> st] \notin ev.notes
      BY <1>4 DEF AlertInv, HushedInv
    <3>2. CASE a = b
      BY <1>1, <3>1, <3>2 DEF notes
    <3>3. CASE a # b
      BY <3>1, <3>3 DEF notes
    <3> QED  BY <3>2, <3>3
  <2> QED  BY <1>4, <1>6, <2>1, <2>2 DEF AlertInv, HushedInv
<1>11. SteadyInv'
  BY <1>4, <1>6 DEF AlertInv, SteadyInv, ghosts
<1> QED  BY <1>8, <1>9, <1>10, <1>11 DEF AlertInv

LEMMA ResolveInv ==
    ASSUME AlertInv, Resolve
    PROVE  AlertInv'
<1> DEFINE loud == {[alert |-> a, state |-> "resolved"] : a \in {a \in Unseen : ~ isSilenced(a)}}
<1>1. ev \in Eval /\ active \in [Alerts -> Entry] /\ Unseen \subseteq Alerts
  BY DEF AlertInv, TypeOK, Unseen
<1>2. loud \in SUBSET Notes
  BY <1>1 DEF Notes
<1>3. /\ ev' \in Eval /\ ev'.stage = "notify" /\ ev'.seen = ev.seen /\ ev'.notes = ev.notes \cup loud
  <2>1. ev' = [ev EXCEPT !.stage = "notify", !.notes = ev.notes \cup loud]
    BY DEF Resolve
  <2> HIDE DEF loud
  <2> QED  BY <1>1, <1>2, <2>1 DEF Eval
<1>4. \A a \in Alerts : active'[a] = IF a \in Unseen THEN [active[a] EXCEPT !.state = "resolved"]
                                     ELSE IF active[a].state = "resolved" /\ active[a].old THEN NoEntry
                                     ELSE active[a]
  BY DEF Resolve
<1>5. active' \in [Alerts -> Entry]
  <2>1. ASSUME NEW a \in Alerts  PROVE active'[a] \in Entry
    <3>1. active[a] \in Entry /\ NoEntry \in Entry
      BY <1>1 DEF Entry, NoEntry
    <3>2. [active[a] EXCEPT !.state = "resolved"] \in Entry
      BY <3>1 DEF Entry
    <3> QED  BY <1>4, <3>1, <3>2
  <2> QED  BY <2>1 DEF Resolve
<1>6. \A a \in Alerts : Firing(a) /\ a \notin Unseen => active'[a] = active[a]
  BY <1>4 DEF Firing
<1>7. TypeOK'
  <2>1. silence' \in [Silences -> {"none", "live", "expired"}]
    BY DEF AlertInv, TypeOK, Resolve
  <2>2. open' \subseteq Alerts
    BY DEF AlertInv, TypeOK, Resolve
  <2> QED  BY <1>3, <1>5, <2>1, <2>2 DEF Resolve, AlertInv, TypeOK
<1>8. PagedInv'
  <2>1. open' = open \ Unseen
    BY DEF Resolve
  <2>2. \A a : FiringNote(a) \notin loud
    BY DEF FiringNote
  <2>3. \A a \in ev.seen : a \notin Unseen
    BY DEF Unseen
  <2> HIDE DEF loud
  <2> QED  BY <1>3, <1>6, <2>1, <2>2, <2>3 DEF AlertInv, PagedInv, Firing
<1>9. HushedInv'
  <2>1. hushed' = hushed /\ ev.stage = "run"
    BY DEF Resolve
  <2>2. \A a \in hushed : \A st : [alert |-> a, state |-> st] \notin loud
    BY <2>1 DEF AlertInv, HushedInv
  <2> HIDE DEF loud
  <2> QED  BY <1>3, <2>1, <2>2 DEF AlertInv, HushedInv
<1>10. SteadyInv'
  BY <1>3 DEF Resolve, AlertInv, SteadyInv
<1> QED  BY <1>7, <1>8, <1>9, <1>10 DEF AlertInv

LEMMA NotifyInv ==
    ASSUME AlertInv, Notify
    PROVE  AlertInv'
<1>1. ev' = NoEval /\ steady' = {} /\ hushed' = {} /\ UNCHANGED active
  BY DEF Notify
<1>2. \A n \in ev.notes : n \in Notes /\ n.alert \in Alerts /\ n.state \in {"firing", "resolved"}
                          /\ n = [alert |-> n.alert, state |-> n.state]
  BY EvalFields DEF AlertInv, Notes
<1>3. open' = open \cup {n.alert : n \in {n \in ev.notes : n.state = "firing"}}
  BY DEF Notify
<1>4. \A a \in open' : a \in open \/ FiringNote(a) \in ev.notes
  BY <1>2, <1>3 DEF FiringNote
<1>5. open' \subseteq Alerts
  BY <1>2, <1>3 DEF AlertInv, TypeOK
<1>6. paged' \in [Alerts -> {"none", "firing", "resolved"}]
  <2>1. ASSUME NEW a \in Alerts  PROVE paged'[a] \in {"none", "firing", "resolved"}
    <3>1. paged'[a] = IF \E n \in ev.notes : n.alert = a
                      THEN (CHOOSE n \in ev.notes : n.alert = a).state ELSE paged[a]
      BY DEF Notify
    <3>2. CASE \E n \in ev.notes : n.alert = a
      <4>1. (CHOOSE n \in ev.notes : n.alert = a) \in ev.notes
        BY <3>2
      <4> QED  BY <1>2, <3>1, <3>2, <4>1
    <3>3. CASE ~ \E n \in ev.notes : n.alert = a
      BY <3>1, <3>3 DEF AlertInv, TypeOK
    <3> QED  BY <3>2, <3>3
  <2> QED  BY <2>1 DEF Notify
<1>7. TypeOK'
  BY <1>1, <1>5, <1>6, NoEvalType DEF Notify, AlertInv, TypeOK
<1>8. PagedInv'
  BY <1>1, <1>4, NoEvalType DEF AlertInv, PagedInv, Firing
<1>9. HushedInv' /\ SteadyInv'
  BY <1>1 DEF HushedInv, SteadyInv
<1> QED  BY <1>7, <1>8, <1>9 DEF AlertInv

LEMMA SilenceInv ==
    ASSUME AlertInv, NEW s \in Silences, AddSilence(s) \/ RemoveSilence(s) \/ SilenceExpires(s)
    PROVE  AlertInv'
<1>1. silence \in [Silences -> {"none", "live", "expired"}]
  BY DEF AlertInv, TypeOK
<1>2. /\ UNCHANGED <<cond, suspended, active, disabled, ev, paged, faults, open, steady>>
      /\ hushed' \subseteq hushed /\ silence' \in [Silences -> {"none", "live", "expired"}]
  BY <1>1 DEF AddSilence, RemoveSilence, SilenceExpires, SilenceEnds, ghosts
<1>3. \A a \in hushed' : isSilenced(a) => isSilenced(a)'
  <2>1. CASE AddSilence(s)
    BY <1>1, <2>1 DEF AddSilence, isSilenced
  <2>2. ASSUME NEW how, SilenceEnds(s, how)  PROVE \A a \in hushed' : isSilenced(a)'
    BY <1>1, <2>2 DEF SilenceEnds, isSilenced
  <2> QED  BY <2>1, <2>2 DEF RemoveSilence, SilenceExpires
<1>4. TypeOK'
  BY <1>2 DEF AlertInv, TypeOK
<1>5. PagedInv' /\ SteadyInv'
  BY <1>2 DEF AlertInv, PagedInv, SteadyInv, Firing
<1>6. HushedInv'
  BY <1>2, <1>3 DEF AlertInv, HushedInv
<1> QED  BY <1>4, <1>5, <1>6 DEF AlertInv

LEMMA WorldInv ==
    ASSUME AlertInv,
           \/ \E r \in Rules, enabled \in BOOLEAN : SetRuleEnabled(r, enabled)
           \/ \E a \in Alerts : ResolvedAges(a)
           \/ \E a \in Conditions : ClusterChanges(a)
           \/ SessionToggles
           \/ UNCHANGED vars
    PROVE  AlertInv'
<1>1. ASSUME UNCHANGED <<active, silence, ev, open, hushed>>, steady' \subseteq steady,
             \A a \in steady' : (a \in cond => a \in cond') /\ (~ suspended => ~ suspended')
      PROVE  PagedInv' /\ HushedInv' /\ SteadyInv'
  <2>1. PagedInv'
    BY <1>1 DEF AlertInv, PagedInv, Firing
  <2>2. HushedInv'
    BY <1>1 DEF AlertInv, HushedInv, isSilenced
  <2>3. SteadyInv'
    BY <1>1 DEF AlertInv, SteadyInv
  <2> QED  BY <2>1, <2>2, <2>3
<1>2. ASSUME NEW r \in Rules, NEW enabled \in BOOLEAN, SetRuleEnabled(r, enabled)  PROVE AlertInv'
  <2>1. TypeOK'
    BY <1>2 DEF SetRuleEnabled, AlertInv, TypeOK, ghosts
  <2> QED  BY <1>1, <1>2, <2>1 DEF SetRuleEnabled, AlertInv, ghosts
<1>3. ASSUME NEW b \in Alerts, ResolvedAges(b)  PROVE AlertInv'
  <2>1. /\ active \in [Alerts -> Entry] /\ active[b].state = "resolved"
        /\ UNCHANGED <<cond, suspended, silence, disabled, ev, paged, faults, open, steady, hushed>>
    BY <1>3 DEF ResolvedAges, AlertInv, TypeOK, ghosts
  <2>2. active' = [active EXCEPT ![b] = [active[b] EXCEPT !.old = TRUE]]
    BY <1>3 DEF ResolvedAges
  <2>3. active' \in [Alerts -> Entry] /\ \A a \in Alerts : Firing(a) => active'[a] = active[a]
    BY <2>1, <2>2 DEF Entry, Firing
  <2>4. TypeOK'
    BY <2>1, <2>3 DEF AlertInv, TypeOK
  <2>5. PagedInv'
    BY <2>1, <2>3 DEF AlertInv, PagedInv, Firing
  <2>6. HushedInv' /\ SteadyInv'
    BY <2>1 DEF AlertInv, HushedInv, SteadyInv, isSilenced
  <2> QED  BY <2>4, <2>5, <2>6 DEF AlertInv
<1>4. ASSUME NEW b \in Conditions, ClusterChanges(b)  PROVE AlertInv'
  <2>1. TypeOK'
    BY <1>4 DEF ClusterChanges, AlertInv, TypeOK
  <2> QED  BY <1>1, <1>4, <2>1 DEF ClusterChanges, AlertInv
<1>5. CASE SessionToggles
  <2>1. TypeOK'
    BY <1>5 DEF SessionToggles, AlertInv, TypeOK
  <2> QED  BY <1>1, <1>5, <2>1 DEF SessionToggles, AlertInv
<1>6. CASE UNCHANGED vars
  <2>1. TypeOK'
    BY <1>6 DEF vars, AlertInv, TypeOK, ghosts
  <2> QED  BY <1>1, <1>6, <2>1 DEF vars, AlertInv, ghosts
<1> QED  BY <1>2, <1>3, <1>4, <1>5, <1>6

---------------------------------------------------------------------------
(* The theorems *)

LEMMA AlertInit ==
    ASSUME Init
    PROVE  AlertInv
<1>1. TypeOK
  <2>1. active \in [Alerts -> Entry]
    BY DEF Init, Entry, NoEntry
  <2>2. ev \in Eval
    BY NoEvalType DEF Init
  <2> QED  BY <2>1, <2>2, AlertConstants DEF Init, TypeOK, AlertConstants
<1>2. PagedInv /\ HushedInv /\ SteadyInv
  BY DEF Init, PagedInv, HushedInv, SteadyInv, NoEval
<1> QED  BY <1>1, <1>2 DEF AlertInv

LEMMA AlertStep ==
    ASSUME AlertInv, [Next]_vars
    PROVE  AlertInv'
BY EvalStartInv, RuleCheckInv, EnterAlertInv, ResolveInv, NotifyInv, SilenceInv, WorldInv
   DEF Next, Evaluate, Requests

(* The inductive invariant: marks, notes, silences and the four places of  *)
(* a standing alert agree in every reachable state (engine.go:150-290).    *)
THEOREM AlertInvariant == Spec => []AlertInv
<1>1. AlertInv /\ [Next]_vars => AlertInv'
  BY AlertStep
<1> QED  BY <1>1, AlertInit, PTL DEF Spec

(* One page per episode and none for what was silenced all the time, for   *)
(* any rules, alerts and silences (engine.go:213-232, 252-257).            *)
THEOREM PagesRight == Spec => PagesAreRight
<1>1. AlertInv => TypeOK
  BY DEF AlertInv
<1>2. AlertInv /\ [Next]_vars =>
         [\A a \in Alerts : Sends([alert |-> a, state |-> "firing"]) /\ ev' = NoEval => a \notin open]_vars
  BY DEF AlertInv, PagedInv, FiringNote, Sends
<1>3. AlertInv /\ [Next]_vars =>
         [\A a \in hushed : \A st \in {"firing", "resolved"} :
             ~ (Sends([alert |-> a, state |-> st]) /\ ev' = NoEval)]_vars
  BY DEF AlertInv, HushedInv, Sends
<1> QED  BY <1>1, <1>2, <1>3, AlertInvariant, PTL
         DEF Spec, PagesAreRight, PagedOncePerEpisode, SilencedNeverPaged

(* An alert that stands all through an evaluation is not resolved by it,   *)
(* whichever checks fail (engine.go:198-204, 242-246).                     *)
THEOREM NothingResolvesFalsely == Spec => NoFalseResolve
<1> DEFINE Kept == \A a \in steady : active[a].state = "firing" => active'[a].state = "firing"
<1>1. ASSUME AlertInv, [Next]_vars  PROVE [Kept]_vars
  <2>1. active \in [Alerts -> Entry] /\ steady \subseteq Alerts
    BY <1>1 DEF AlertInv, TypeOK
  <2>2. CASE Resolve
    <3>1. \A a \in steady : a \notin Unseen
      <4>1. ev.stage = "run" /\ ev.todo = {} /\ ev.pend = {}
        BY <2>2 DEF Resolve
      <4> QED  BY <1>1, <4>1 DEF AlertInv, SteadyInv, Unseen
    <3>2. \A a \in Alerts : Firing(a) /\ a \notin Unseen => active'[a] = active[a]
      BY <2>2 DEF Resolve, Firing
    <3> QED  BY <2>1, <3>1, <3>2 DEF Firing
  <2>3. ASSUME NEW b \in Alerts, EnterAlert(b)  PROVE Kept
    <3>1. \A a \in Alerts \ {b} : active'[a] = active[a]
      BY <2>1, <2>3 DEF EnterAlert
    <3>2. Firing(b) => active'[b].state = "firing"
      BY <2>1, <2>3 DEF EnterAlert, Firing
    <3> QED  BY <2>1, <3>1, <3>2 DEF Firing
  <2>4. ASSUME NEW b \in Alerts, ResolvedAges(b)  PROVE Kept
    BY <2>1, <2>4 DEF ResolvedAges
  <2>5. CASE UNCHANGED active
    BY <2>5
  <2> QED  BY <1>1, <2>2, <2>3, <2>4, <2>5
      DEF Next, Evaluate, Requests, EvalStart, RuleCheck, Notify, AddSilence, RemoveSilence,
          SilenceExpires, SilenceEnds, SetRuleEnabled, ClusterChanges, SessionToggles, vars
<1> QED  BY <1>1, AlertInvariant, PTL DEF Spec, NoFalseResolve

=============================================================================
