------------------------- MODULE PropagationTracker -------------------------
(***************************************************************************)
(* internal/telemetry/propagation_tracker.go: how long a chassis takes to  *)
(* reach a generation (nb_cfg).  The CMS bumps NB_Global.nb_cfg, northd    *)
(* writes nb_cfg_timestamp in a transaction of its own, and each chassis   *)
(* acknowledges in Chassis_Private.  The tracker hears of the two          *)
(* databases through two clients, so their events interleave freely; each  *)
(* database's own order is kept.  The events come through a subscription   *)
(* of the event hub, whose buffer drops what finds it full.  A timestamp   *)
(* is modelled by the number of the generation it belongs to (later        *)
(* generations are stamped later), 0 for none.  The ring buffer of the     *)
(* store is RingStore.                                                     *)
(***************************************************************************)
EXTENDS Integers, Sequences, FiniteSets, SequencesExt

CONSTANTS
    TrackedChassis,
    MaxGen,      \* bound on generations
    MaxUpsets,   \* bound on chassis removals, cache purges and dropped events
    TrackerBuffer, \* capacity of the subscription's channel (256)
    Patient      \* the CMS waits for a generation's timestamp before the next

VARIABLES
    nbg,         \* NB_Global: [cfg, ts]
    acks,        \* Chassis_Private.nb_cfg of each chassis, -1 without a row
    cachesUp,    \* the caches are loaded (not purged by a snapshot session)
    nbq, sbq,    \* events on their way to the tracker, by database
    lost,        \* observation: the events dropped at the full channel
    stage,       \* of Start: subscribed, seeded from NB, running
    gen, nbTs,   \* currentGen, currentNbTsMs
    last,        \* chassisLastGen (0: no entry)
    log,         \* what was recorded: [chassis, gen, ts, ack]
    times,       \* observation: records per chassis and generation
    since,       \* observation: the generation of the last seed or reload
    upsets, lives \* the bounded events; deletions heard of, per chassis

trackerVars == <<nbg, acks, cachesUp, nbq, sbq, lost, stage, gen, nbTs, last, log, times, since, upsets, lives>>
tracker == <<stage, gen, nbTs, last, log, times, since>>

ASSUME TrackerConstants ==
    IsFiniteSet(TrackedChassis) /\ MaxGen \in Nat \ {0} /\ MaxUpsets \in Nat
    /\ TrackerBuffer \in Nat \ {0} /\ Patient \in BOOLEAN

Gens == 0..MaxGen

TrackerTypeOK ==
    /\ nbg \in [cfg : Gens, ts : Gens] /\ nbg.ts <= nbg.cfg
    /\ acks \in [TrackedChassis -> Gens \cup {-1}] /\ cachesUp \in BOOLEAN
    /\ stage \in {"subscribed", "seeding", "running"}
    /\ gen \in Gens /\ nbTs \in Gens /\ last \in [TrackedChassis -> Gens]
    /\ gen <= nbg.cfg /\ \A c \in TrackedChassis : last[c] <= nbg.cfg
    /\ times \in [TrackedChassis \X Gens -> Nat] /\ lives \in [TrackedChassis -> Nat]

\* The tracker starts in the middle of things: generation 1, stamped or not.
TrackerInit ==
    /\ nbg \in [cfg : {1}, ts : {0, 1}] /\ acks \in [TrackedChassis -> {0, 1}] /\ cachesUp = TRUE
    /\ nbq = <<>> /\ sbq = <<>> /\ lost = {} /\ stage = "subscribed"
    /\ gen = 0 /\ nbTs = 0 /\ last = [c \in TrackedChassis |-> 0]
    /\ log = {} /\ times = [x \in TrackedChassis \X Gens |-> 0] /\ since = MaxGen
    /\ upsets = 0 /\ lives = [c \in TrackedChassis |-> 0]

---------------------------------------------------------------------------
(* CMS, northd, chassis and the caches (external) *)

Heard(q, e) == IF cachesUp THEN Append(q, e) ELSE q

Bump ==
    /\ nbg.cfg < MaxGen /\ (Patient => nbg.ts = nbg.cfg)
    /\ nbg' = [nbg EXCEPT !.cfg = @ + 1]
    /\ nbq' = Heard(nbq, nbg')
    /\ UNCHANGED <<acks, cachesUp, sbq, lost, tracker, upsets, lives>>
Stamp ==
    /\ nbg.ts < nbg.cfg
    /\ nbg' = [nbg EXCEPT !.ts = nbg.cfg]
    /\ nbq' = Heard(nbq, nbg')
    /\ UNCHANGED <<acks, cachesUp, sbq, lost, tracker, upsets, lives>>

Private(c, n) == [row |-> "private", chassis |-> c, cfg |-> n]
ChassisEvent(c, kind) == [row |-> kind, chassis |-> c, cfg |-> 0]

Ack(c) ==
    /\ acks[c] < nbg.cfg
    /\ \E n \in (acks[c] + 1)..nbg.cfg :
          acks' = [acks EXCEPT ![c] = n] /\ sbq' = Heard(sbq, Private(c, n))
    /\ UNCHANGED <<nbg, cachesUp, nbq, lost, tracker, upsets, lives>>

\* A chassis is deleted; the events of the two tables come in either order.
ChassisLeaves(c) ==
    /\ acks[c] # -1 /\ upsets < MaxUpsets /\ upsets' = upsets + 1
    /\ acks' = [acks EXCEPT ![c] = -1]
    /\ \E two \in {<<Private(c, acks[c]), ChassisEvent(c, "delete")>>,
                   <<ChassisEvent(c, "delete"), Private(c, acks[c])>>} :
          sbq' = IF cachesUp THEN sbq \o two ELSE sbq
    /\ UNCHANGED <<nbg, cachesUp, nbq, lost, tracker, lives>>

Present == {c \in TrackedChassis : acks[c] # -1}

(* A snapshot session purges the caches; the reload inserts every row      *)
(* again.  Changes in between are not seen as events.                      *)
CachesPurged ==
    /\ cachesUp /\ upsets < MaxUpsets /\ upsets' = upsets + 1 /\ cachesUp' = FALSE
    /\ UNCHANGED <<nbg, acks, nbq, sbq, lost, tracker, lives>>
Reload ==
    /\ ~ cachesUp /\ cachesUp' = TRUE
    /\ nbq' = Append(nbq, nbg)
    /\ \E order \in {s \in [1..Cardinality(Present) -> Present] :
                       \A c \in Present : \E i \in DOMAIN s : s[i] = c} :
          sbq' = sbq \o [i \in DOMAIN order |-> Private(order[i], acks[order[i]])]
    /\ since' = nbg.cfg
    /\ UNCHANGED <<nbg, acks, lost, stage, gen, nbTs, last, log, times, upsets, lives>>

(* Hub.Publish: an event that finds the subscription's channel full is     *)
(* dropped.  The channel is full only if the events ahead of this one, of  *)
(* its own database and of the other, are as many as it holds.             *)
NbOverflow(i) ==
    /\ i - 1 + Len(sbq) >= TrackerBuffer /\ upsets < MaxUpsets /\ upsets' = upsets + 1
    /\ nbq' = RemoveAt(nbq, i) /\ lost' = lost \cup {nbq[i]}
    /\ UNCHANGED <<nbg, acks, cachesUp, sbq, tracker, lives>>
SbOverflow(i) ==
    /\ i - 1 + Len(nbq) >= TrackerBuffer /\ upsets < MaxUpsets /\ upsets' = upsets + 1
    /\ sbq' = RemoveAt(sbq, i) /\ lost' = lost \cup {sbq[i]}
    /\ UNCHANGED <<nbg, acks, cachesUp, nbq, tracker, lives>>

---------------------------------------------------------------------------
(* The tracker *)

\* seed, after Subscribe: first NB_Global, then Chassis_Private.
SeedNB ==
    /\ stage = "subscribed" /\ stage' = "seeding"
    /\ IF cachesUp THEN gen' = nbg.cfg /\ nbTs' = nbg.ts ELSE UNCHANGED <<gen, nbTs>>
    /\ since' = nbg.cfg
    /\ UNCHANGED <<nbg, acks, cachesUp, nbq, sbq, lost, last, log, times, upsets, lives>>
SeedSB ==
    /\ stage = "seeding" /\ stage' = "running"
    /\ last' = [c \in TrackedChassis |-> IF cachesUp /\ acks[c] # -1 THEN acks[c] ELSE last[c]]
    /\ UNCHANGED <<nbg, acks, cachesUp, nbq, sbq, lost, gen, nbTs, log, times, since, upsets, lives>>

\* Generation g of the chassis in who, acknowledged as their entries of got say.
Record(who, g, ts, got) ==
    /\ last' = [c \in TrackedChassis |-> IF c \in who THEN got[c] ELSE last[c]]
    /\ LET stamped == {c \in who : got[c] > 0} IN
       /\ log' = log \cup {[chassis |-> c, gen |-> g, ts |-> ts, ack |-> got[c]] : c \in stamped}
       /\ times' = [x \in TrackedChassis \X Gens |->
                      IF x[1] \in stamped /\ x[2] = g THEN times[x] + 1 ELSE times[x]]

\* Mutant: the timestamp of an event is taken as it comes.
Stamped_Always(e) == e.ts

(* The timestamp to use after NB_Global event e: a new generation accepts  *)
(* only a newer timestamp than the one held, else it waits for its own.    *)
Stamped(e) == IF e.cfg > gen /\ e.ts <= nbTs THEN 0 ELSE e.ts

Accepts(e) == e.cfg > gen \/ (e.cfg = gen /\ e.ts > 0 /\ (nbTs = 0 \/ e.ts > nbTs))

\* The scan over the cached Chassis_Private rows.
CaughtUp(e) == {c \in TrackedChassis : cachesUp /\ acks[c] >= e.cfg /\ last[c] < e.cfg}

handleNBGlobalUpdate ==
    /\ stage = "running" /\ nbq # <<>> /\ nbq' = Tail(nbq)
    /\ LET e == Head(nbq) IN
       IF ~ Accepts(e) THEN UNCHANGED <<gen, nbTs, last, log, times>>
       ELSE /\ gen' = e.cfg /\ nbTs' = Stamped(e)
            /\ IF Stamped(e) = 0 THEN UNCHANGED <<last, log, times>>
               ELSE Record(CaughtUp(e), e.cfg, Stamped(e), acks)
    /\ UNCHANGED <<nbg, acks, cachesUp, sbq, lost, stage, since, upsets, lives>>

\* Whatever the event's type: also the row of a deletion.
News(e) == gen # 0 /\ e.cfg >= gen /\ last[e.chassis] < gen /\ nbTs > 0

handleChassisPrivateUpdate ==
    /\ stage = "running" /\ sbq # <<>> /\ Head(sbq).row = "private" /\ sbq' = Tail(sbq)
    /\ LET e == Head(sbq) IN
       IF News(e) THEN Record({e.chassis}, gen, nbTs, [c \in TrackedChassis |-> e.cfg])
       ELSE UNCHANGED <<last, log, times>>
    /\ UNCHANGED <<nbg, acks, cachesUp, nbq, lost, stage, gen, nbTs, since, upsets, lives>>

\* Inserts and updates set the host name, which only labels the records.
handleChassisEvent ==
    /\ stage = "running" /\ sbq # <<>> /\ Head(sbq).row = "delete" /\ sbq' = Tail(sbq)
    /\ LET c == Head(sbq).chassis IN
       last' = [last EXCEPT ![c] = 0] /\ lives' = [lives EXCEPT ![c] = lives[c] + 1]
    /\ UNCHANGED <<nbg, acks, cachesUp, nbq, lost, stage, gen, nbTs, log, times, since, upsets>>

TrackerNext ==
    \/ Bump \/ Stamp \/ CachesPurged \/ Reload
    \/ \E c \in TrackedChassis : Ack(c) \/ ChassisLeaves(c)
    \/ \E i \in DOMAIN nbq : NbOverflow(i)
    \/ \E i \in DOMAIN sbq : SbOverflow(i)
    \/ SeedNB \/ SeedSB
    \/ handleNBGlobalUpdate \/ handleChassisPrivateUpdate \/ handleChassisEvent

(* The consumer goroutine runs whenever its channel has an event; a        *)
(* purged cache is reloaded when the session ends.                         *)
TrackerFairness ==
    /\ WF_trackerVars(SeedNB) /\ WF_trackerVars(SeedSB) /\ WF_trackerVars(Reload)
    /\ WF_trackerVars(handleNBGlobalUpdate)
    /\ WF_trackerVars(handleChassisPrivateUpdate \/ handleChassisEvent)

TrackerSafety == TrackerInit /\ [][TrackerNext]_trackerVars
TrackerSpec == TrackerSafety /\ TrackerFairness

---------------------------------------------------------------------------
(* Properties *)

\* The event that carries generation g's timestamp was dropped.
StampLost(g) == [cfg |-> g, ts |-> g] \in lost

(* A generation that began after the seed, or after the last reload, is    *)
(* measured from its own timestamp, never from an earlier generation's, if *)
(* the CMS waits for timestamps (Stamped's comparison) and the event of    *)
(* the previous generation's timestamp was not dropped at the full buffer: *)
(* one loss can spoil the measurement of the generation after it and of no *)
(* other.  A chassis is credited only with what it acknowledged, always.   *)
MeasuredFromItsOwnStamp ==
    \A r \in log : /\ Patient /\ r.gen > since => r.ts = r.gen \/ StampLost(r.gen - 1)
                   /\ r.ack >= r.gen

(* A chassis is recorded once per generation, or once more for each time   *)
(* the tracker heard that its Chassis row was deleted, however the events  *)
(* and the scan of handleNBGlobalUpdate interleave and whatever a reload   *)
(* repeats.                                                                *)
RecordedOnce ==
    \A c \in TrackedChassis, g \in Gens : times[<<c, g>>] <= 1 + lives[c]

(* The propagation tracker measures a generation from its own timestamp,   *)
(* unless the event before it was dropped, and records a chassis once,     *)
(* however the two databases interleave and whatever the hub drops.        *)
TrackerHolds == TrackerTypeOK /\ MeasuredFromItsOwnStamp /\ RecordedOnce

(* Nobody is forgotten: once a generation is stamped and acknowledged, the *)
(* tracker accounts for the chassis (or has no row of it) or the next      *)
(* generation starts, although acknowledgements overtake the NB event and  *)
(* a session purges the cache under the scan; unless the hub dropped the   *)
(* event of that timestamp or of that acknowledgement: nothing makes up    *)
(* for a dropped event until the row changes again.                        *)
EventuallyAccounted ==
    \A c \in TrackedChassis, g \in 1..MaxGen :
       (nbg.cfg = g /\ nbg.ts = g /\ acks[c] = g)
          ~> \/ last[c] >= g \/ nbg.cfg > g \/ acks[c] # g
             \/ StampLost(g) \/ Private(c, g) \in lost

=============================================================================
