------------------------------ MODULE EventHub ------------------------------
(***************************************************************************)
(* The event hub (internal/events) and its consumers: OVSDB bridges and    *)
(* the alert engine publish; WebSocket clients come, filter, lag and go;   *)
(* the persistence goroutine of the history collector batches events into  *)
(* the store until it is stopped.  A subscriber has a bounded channel, and *)
(* an event that finds it full is dropped for that subscriber.             *)
(*                                                                         *)
(* Publish holds Hub.mu for reading while it walks the subscribers, so it  *)
(* is split into one step per subscriber; Subscribe and Unsubscribe take   *)
(* Hub.mu for writing.  OVNDatabases.Suspended, the pause check, blocks    *)
(* while a session suspends or resumes the monitors.                       *)
(***************************************************************************)
EXTENDS Integers, Sequences, SequencesExt, FiniteSets

CONSTANTS
    Publishers,   \* goroutines that call Publish
    Clients,      \* WebSocket connections
    History,      \* the history collector's subscription
    Tables,       \* tables events are about
    BufferSize,   \* subscriberBufferSize
    BatchSize,    \* events per flush
    MaxEvents,    \* bound on the events of a publisher
    MaxSessions,  \* bound on snapshot sessions
    MaxFaults     \* bound on failing inserts

VARIABLES
    subs,       \* Hub.subscribers
    chan,       \* chan[s]: the buffered channel of subscriber s
    shut,       \* subscribers whose channel is closed
    filters,    \* filters[s]: the table sets subscriber s asked for
    pub,        \* pub[p]: the event p publishes and the subscribers to visit
    sent,       \* sent[p]: events published by p
    sess,       \* the live monitors: live, suspending, suspended, resuming
    hist,       \* the persistence goroutine: where it is, its event and batch
    stored,     \* the event table
    cancelled,  \* the collector's context
    sessions, faults,                     \* bounded counters
    last,       \* observation: last[c][p], the newest event of p that c received
    accepted, skipped, lost, owed         \* observation: history's events

ghosts == <<last, accepted, skipped, lost, owed>>
vars == <<subs, chan, shut, filters, pub, sent, sess, hist, stored, cancelled, sessions, faults, ghosts>>

Subscribers == Clients \cup {History}

Event   == [src : Publishers, n : 1..MaxEvents, table : Tables]
Walk    == [event : Seq(Event), todo : SUBSET Subscribers]
NoWalk  == [event |-> <<>>, todo |-> {}]
Stages  == {"select", "check", "drain", "drainCheck", "done"}
Worker  == [stage : Stages, hand : Seq(Event), batch : Seq(Event)]

ASSUME HubConstants ==
    /\ History \notin Clients
    /\ {BufferSize, BatchSize} \subseteq Nat \ {0}
    /\ {MaxEvents, MaxSessions, MaxFaults} \subseteq Nat

\* The history collector subscribed to every table when it started.
Init ==
    /\ subs = {History} /\ shut = {}
    /\ chan = [s \in Subscribers |-> <<>>]
    /\ filters = [s \in Subscribers |-> IF s = History THEN {Tables} ELSE {}]
    /\ pub = [p \in Publishers |-> NoWalk] /\ sent = [p \in Publishers |-> 0]
    /\ sess = "live" /\ sessions = 0 /\ faults = 0
    /\ hist = [stage |-> "select", hand |-> <<>>, batch |-> <<>>]
    /\ stored = <<>> /\ cancelled = FALSE
    /\ last = [c \in Clients |-> [p \in Publishers |-> 0]]
    /\ accepted = {} /\ skipped = {} /\ lost = {} /\ owed = {}

---------------------------------------------------------------------------
(* The hub *)

Publishing(p) == pub[p].todo # {}
HubFree == \A p \in Publishers : ~ Publishing(p)

matches(s, table) == \E f \in filters[s] : table \in f

(* The bridge asks HasSubscriberFor first; Publish then locks and starts   *)
(* walking.  Events come in every phase of a session: the purge and the    *)
(* reload emit them too, and the client library queues them.               *)
Publish(p, t) ==
    /\ ~ Publishing(p) /\ sent[p] < MaxEvents
    /\ \E s \in subs : matches(s, t)
    /\ sent' = [sent EXCEPT ![p] = @ + 1]
    /\ pub' = [pub EXCEPT ![p] =
          [event |-> <<[src |-> p, n |-> sent[p] + 1, table |-> t]>>,
           todo  |-> subs]]
    /\ UNCHANGED <<subs, chan, shut, filters, sess, hist, stored, cancelled, sessions, faults, ghosts>>

Visited(p, s) ==
    LET left == pub[p].todo \ {s} IN
    pub' = [pub EXCEPT ![p] = IF left = {} THEN NoWalk ELSE [event |-> @.event, todo |-> left]]

\* Mutant: the newest event is delivered first.
Deliver_InFront(p, s) ==
    /\ s \in pub[p].todo
    /\ chan' = [chan EXCEPT ![s] = IF matches(s, pub[p].event[1].table) /\ Len(@) < BufferSize
                                   THEN pub[p].event \o @ ELSE @]
    /\ accepted' = IF s = History /\ Len(chan[s]) < BufferSize
                   THEN accepted \cup ToSet(pub[p].event) ELSE accepted
    /\ Visited(p, s)
    /\ UNCHANGED <<subs, shut, filters, sent, sess, hist, stored, cancelled, sessions, faults, last, skipped, lost, owed>>

\* One subscriber of the walk: not interested, buffered, or dropped.
Deliver(p, s) ==
    LET takes == matches(s, pub[p].event[1].table) /\ Len(chan[s]) < BufferSize IN
    /\ s \in pub[p].todo
    /\ chan' = [chan EXCEPT ![s] = IF takes THEN @ \o pub[p].event ELSE @]
    /\ accepted' = IF takes /\ s = History THEN accepted \cup ToSet(pub[p].event) ELSE accepted
    /\ Visited(p, s)
    /\ UNCHANGED <<subs, shut, filters, sent, sess, hist, stored, cancelled, sessions, faults, last, skipped, lost, owed>>

\* A connection starts with a new channel and no filter.
Subscribe(c) ==
    /\ c \notin subs /\ HubFree
    /\ subs' = subs \cup {c}
    /\ chan' = [chan EXCEPT ![c] = <<>>]
    /\ shut' = shut \ {c}
    /\ filters' = [filters EXCEPT ![c] = {}]
    /\ UNCHANGED <<pub, sent, sess, hist, stored, cancelled, sessions, faults, ghosts>>

\* Mutant: Unsubscribe does not wait for the publishers.
Unsubscribe_Unlocked(s) ==
    /\ s \in subs
    /\ subs' = subs \ {s}
    /\ shut' = shut \cup {s}
    /\ UNCHANGED <<chan, filters, pub, sent, sess, hist, stored, cancelled, sessions, faults, ghosts>>

\* A client goes (read error, write timeout, failed ping) or the collector stops.
Unsubscribe(s) ==
    /\ s \in subs /\ HubFree
    /\ subs' = subs \ {s}
    /\ shut' = shut \cup {s}
    /\ UNCHANGED <<chan, filters, pub, sent, sess, hist, stored, cancelled, sessions, faults, ghosts>>

\* Subscribe and unsubscribe messages, read by a goroutine of their own.
SetFilters(c, f) ==
    /\ c \in subs /\ f # filters[c]
    /\ filters' = [filters EXCEPT ![c] = f]
    /\ UNCHANGED <<subs, chan, shut, pub, sent, sess, hist, stored, cancelled, sessions, faults, ghosts>>

AddFilter(c, t)    == SetFilters(c, filters[c] \cup {t})
RemoveFilter(c, t) == SetFilters(c, filters[c] \ {t})

\* The write loop sends the oldest event.
ClientReceive(c) ==
    LET e == Head(chan[c]) IN
    /\ c \in subs /\ chan[c] # <<>>
    /\ chan' = [chan EXCEPT ![c] = Tail(@)]
    /\ last' = [last EXCEPT ![c][e.src] = e.n]
    /\ UNCHANGED <<subs, shut, filters, pub, sent, sess, hist, stored, cancelled, sessions, faults, accepted, skipped, lost, owed>>

---------------------------------------------------------------------------
(* Snapshot sessions: the calls below hold OVNDatabases.mu, the two other  *)
(* values of sess are what Suspended answers.                              *)

SessionStep ==
    /\ \/ sess = "live" /\ sessions < MaxSessions /\ sess' = "suspending" /\ sessions' = sessions + 1
       \/ sess = "suspending" /\ sess' = "suspended" /\ UNCHANGED sessions
       \/ sess = "suspended" /\ sess' = "resuming" /\ UNCHANGED sessions
       \/ sess = "resuming" /\ sess' = "live" /\ UNCHANGED sessions
    /\ UNCHANGED <<subs, chan, shut, filters, pub, sent, hist, stored, cancelled, faults, ghosts>>

Answers == sess \in {"live", "suspended"}
isPaused == sess = "suspended"

---------------------------------------------------------------------------
(* The persistence goroutine *)

(* InsertEvents is one transaction on the given context: it fails when     *)
(* that is cancelled, or for a reason of its own.  The batch is cleared    *)
(* either way.                                                             *)
Flush(batch, dead) ==
    \/ /\ ~ dead \/ batch = <<>>
       /\ stored' = stored \o batch
       /\ UNCHANGED <<lost, faults>>
    \/ /\ batch # <<>>
       /\ \/ dead /\ UNCHANGED faults
          \/ ~ dead /\ faults < MaxFaults /\ faults' = faults + 1
       /\ lost' = lost \cup ToSet(batch)
       /\ UNCHANGED stored

Unaffected == <<subs, shut, filters, pub, sent, sess, sessions, last, accepted, owed>>

\* Receive from the channel, in the select loop or while draining.
HistoryTake(from, to) ==
    /\ hist.stage = from /\ chan[History] # <<>>
    /\ hist' = [hist EXCEPT !.stage = to, !.hand = <<Head(chan[History])>>]
    /\ chan' = [chan EXCEPT ![History] = Tail(@)]
    /\ UNCHANGED <<Unaffected, stored, cancelled, faults, skipped, lost>>

\* Mutant: the batch is kept after a flush.
HistoryCheck_KeepsBatch ==
    LET batch == hist.batch \o hist.hand IN
    /\ hist.stage = "check" /\ Answers
    /\ hist' = [hist EXCEPT !.stage = "select", !.hand = <<>>, !.batch = IF isPaused THEN @ ELSE batch]
    /\ IF isPaused
       THEN skipped' = skipped \cup ToSet(hist.hand) /\ UNCHANGED <<stored, lost, faults>>
       ELSE /\ IF Len(batch) >= BatchSize THEN Flush(batch, cancelled) ELSE UNCHANGED <<stored, lost, faults>>
            /\ UNCHANGED skipped
    /\ UNCHANGED <<Unaffected, chan, cancelled>>

\* The pause check; a full batch is flushed on the collector's context.
HistoryCheck ==
    LET batch == hist.batch \o hist.hand
        full  == Len(batch) >= BatchSize
    IN
    /\ hist.stage = "check" /\ Answers
    /\ IF isPaused
       THEN /\ hist' = [hist EXCEPT !.stage = "select", !.hand = <<>>]
            /\ skipped' = skipped \cup ToSet(hist.hand)
            /\ UNCHANGED <<stored, lost, faults>>
       ELSE /\ hist' = [stage |-> "select", hand |-> <<>>, batch |-> IF full THEN <<>> ELSE batch]
            /\ IF full THEN Flush(batch, cancelled) ELSE UNCHANGED <<stored, lost, faults>>
            /\ UNCHANGED skipped
    /\ UNCHANGED <<Unaffected, chan, cancelled>>

\* flushTimer.C
HistoryTick ==
    /\ hist.stage = "select" /\ hist.batch # <<>>
    /\ Flush(hist.batch, cancelled)
    /\ hist' = [hist EXCEPT !.batch = <<>>]
    /\ UNCHANGED <<Unaffected, chan, cancelled, skipped>>

\* The last flush, on a context that is not cancelled.
HistoryExit ==
    /\ Flush(hist.batch, FALSE)
    /\ hist' = [hist EXCEPT !.stage = "done", !.batch = <<>>]
    /\ UNCHANGED <<Unaffected, chan, cancelled, skipped>>

HistoryClosed == hist.stage = "select" /\ History \in shut /\ chan[History] = <<>> /\ HistoryExit

\* ctx.Done: empty the channel without waiting, then exit.
HistoryStop ==
    /\ hist.stage = "select" /\ cancelled
    /\ hist' = [hist EXCEPT !.stage = "drain"]
    /\ UNCHANGED <<Unaffected, chan, stored, cancelled, faults, skipped, lost>>

HistoryDrainCheck ==
    /\ hist.stage = "drainCheck" /\ Answers
    /\ IF isPaused
       THEN /\ skipped' = skipped \cup ToSet(hist.hand)
            /\ hist' = [hist EXCEPT !.stage = "drain", !.hand = <<>>]
       ELSE /\ hist' = [stage |-> "drain", hand |-> <<>>, batch |-> hist.batch \o hist.hand]
            /\ UNCHANGED skipped
    /\ UNCHANGED <<Unaffected, chan, stored, cancelled, faults, lost>>

\* Mutant: an unlabelled break leaves the select and not the loop.
HistoryDrained_BreaksSelect ==
    hist.stage = "drain" /\ chan[History] = <<>> /\ UNCHANGED vars

HistoryDrained == hist.stage = "drain" /\ chan[History] = <<>> /\ HistoryExit

\* The stop function: cancel, Unsubscribe, wait for the goroutines.
StopCancel ==
    /\ ~ cancelled /\ cancelled' = TRUE
    /\ owed' = accepted \ skipped
    /\ UNCHANGED <<subs, shut, filters, pub, sent, sess, sessions, last, accepted,
                   chan, hist, stored, faults, skipped, lost>>
StopUnsubscribe == cancelled /\ Unsubscribe(History)

---------------------------------------------------------------------------

HistoryStep ==
    \/ HistoryTake("select", "check") \/ HistoryCheck \/ HistoryTick \/ HistoryClosed
    \/ HistoryStop \/ HistoryTake("drain", "drainCheck") \/ HistoryDrainCheck \/ HistoryDrained

ClientStep(c) ==
    \/ Subscribe(c) \/ Unsubscribe(c) \/ ClientReceive(c)
    \/ \E t \in (SUBSET Tables) \ {{}} : AddFilter(c, t) \/ RemoveFilter(c, t)

Next ==
    \/ \E p \in Publishers, t \in Tables : Publish(p, t)
    \/ \E p \in Publishers, s \in Subscribers : Deliver(p, s)
    \/ \E c \in Clients : ClientStep(c)
    \/ HistoryStep \/ StopCancel \/ StopUnsubscribe
    \/ SessionStep

Spec == Init /\ [][Next]_vars

(* A publisher's walk never waits for a subscriber, so its goroutine       *)
(* finishes by itself; the persistence goroutine and the stop function     *)
(* run; the OVSDB server is assumed to answer the monitor calls of a       *)
(* session change.  Clients owe nothing.                                   *)
Fairness ==
    /\ \A p \in Publishers : WF_vars(\E s \in Subscribers : Deliver(p, s))
    /\ WF_vars(HistoryStep) /\ SF_vars(StopUnsubscribe)
    /\ WF_vars(sess \in {"suspending", "resuming"} /\ SessionStep)
FairSpec == Spec /\ Fairness

---------------------------------------------------------------------------
(* Properties *)

\* Every variable has its type, and no channel holds more than its buffer.
TypeOK ==
    /\ subs \subseteq Subscribers /\ shut \subseteq Subscribers
    /\ chan \in [Subscribers -> Seq(Event)]
    /\ \A s \in Subscribers : Len(chan[s]) <= BufferSize
    /\ filters \in [Subscribers -> SUBSET SUBSET Tables]
    /\ pub \in [Publishers -> Walk] /\ sent \in [Publishers -> 0..MaxEvents]
    /\ sess \in {"live", "suspending", "suspended", "resuming"}
    /\ hist \in Worker /\ stored \in Seq(Event) /\ cancelled \in BOOLEAN
    /\ sessions \in Nat /\ faults \in Nat
    /\ last \in [Clients -> [Publishers -> 0..MaxEvents]]
    /\ accepted \subseteq Event /\ skipped \subseteq Event
    /\ lost \subseteq Event /\ owed \subseteq Event

(* Publish never sends on a closed channel, which would panic: a client    *)
(* that leaves in the middle of a walk waits for it (hub.go:128-155).      *)
NoSendOnClosed == \A p \in Publishers : pub[p].todo \cap shut = {}

(* A client sees the events of a publisher in the order they happened,     *)
(* with gaps where its buffer was full (hub.go:139-155, ws.go:110-123).    *)
ClientsInOrder ==
    [][\A c \in Clients, p \in Publishers : last'[c][p] >= last[c][p]]_vars

\* The events the history has at hand, oldest first: stored, batched, in hand, waiting.
Line == stored \o hist.batch \o hist.hand \o chan[History]

(* The history collector handles every event it accepted exactly once: it  *)
(* is waiting, batched, stored, skipped by a pause or lost with a failed   *)
(* batch, and never two of these (collector.go:192-250).                   *)
ExactlyOnce ==
    /\ accepted = ToSet(Line) \cup skipped \cup lost
    /\ Len(Line) + Cardinality(skipped) + Cardinality(lost) = Cardinality(accepted)

(* Events of a publisher are stored in the order they were published       *)
(* (collector.go:192-250, events.go:33-86).                                *)
StoredInOrder ==
    \A i, j \in DOMAIN stored : i < j /\ stored[i].src = stored[j].src => stored[i].n < stored[j].n

(* The channels are never sent to after they are closed and never hold     *)
(* more than their buffer, whoever comes, lags and goes (hub.go).          *)
ChannelsHold == TypeOK /\ NoSendOnClosed

(* What the history accepted is handled exactly once and stored in order,  *)
(* through batches, pauses, failing inserts and the stop (collector.go).   *)
EventsHandled == ExactlyOnce /\ StoredInOrder

(* A publisher gets through whatever its subscribers do: nobody can stall  *)
(* the OVSDB cache's event loop (hub.go:137-155).                          *)
PublishersNeverStall == \A p \in Publishers : Publishing(p) ~> ~ Publishing(p)

(* Stopping the collector ends: its wait for the goroutine returns, even   *)
(* in the middle of a session change (collector.go:229-248, 288-295).      *)
StopReturns == cancelled ~> hist.stage = "done" /\ History \notin subs

---------------------------------------------------------------------------
(* What comments and documents of the repository say, refuted by the code. *)

(* collector.go:230-232: "a graceful stop persists everything published    *)
(* before it".  The timer and a full batch flush on the cancelled context, *)
(* and the select may still choose them after the cancel.                  *)
GracefulStopPersists == hist.stage = "done" /\ faults = 0 => owed \cap lost = {}

=============================================================================
