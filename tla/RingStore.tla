----------------------------- MODULE RingStore -----------------------------
(***************************************************************************)
(* The circular buffers of internal/flowdiff/store.go and                  *)
(* internal/telemetry/propagation_store.go, and the flow-diff collector    *)
(* that fills the first: a change is stamped when it is published and      *)
(* added when the collector takes it from its channel, so stamps are not   *)
(* in order; a change taken while the live monitors are suspended is       *)
(* dropped.  (A propagation event is stamped when it is added: no delay.)  *)
(***************************************************************************)
EXTENDS Integers, Sequences, FiniteSets

CONSTANTS
    MaxSize, MaxAge,   \* capacity (at least 1) and age limit of the store
    Skew,              \* bound on the delay between publication and Add
    Datapaths,
    RingTicks, RingAdds \* bounds on time and on changes

VARIABLES
    buf, start, count, \* the ring
    clock,
    held,              \* monitors suspended
    adds,              \* observation: every change added, in order
    seen               \* how many changes the collector has taken

ringVars == <<buf, start, count, clock, held, adds, seen>>

ASSUME RingConstants ==
    MaxSize \in Nat \ {0} /\ {MaxAge, Skew, RingTicks, RingAdds} \subseteq Nat

NoChange == [at |-> 0, dp |-> "", n |-> 0]
Change   == [at : 0..RingTicks, dp : Datapaths \cup {""}, n : 0..RingAdds]

RingTypeOK ==
    /\ buf \in [0..(MaxSize - 1) -> Change]
    /\ start \in 0..(MaxSize - 1) /\ count \in 0..MaxSize
    /\ clock \in 0..RingTicks /\ held \in BOOLEAN /\ adds \in Seq(Change)

RingInit ==
    /\ buf = [i \in 0..(MaxSize - 1) |-> NoChange] /\ start = 0 /\ count = 0
    /\ clock = 0 /\ held = FALSE /\ adds = <<>> /\ seen = 0

\* extractDatapath: the row's, or the old row's where the row has none.
eventToFlowChange(at, row, oldRow, n) ==
    [at |-> at, dp |-> IF row # "" THEN row ELSE oldRow, n |-> n]

\* The ring's index arithmetic.
Slot(i) == i % MaxSize

\* pruneAgeLocked: how many entries of a ring starting at from are skipped.
Expired(b, from, size) ==
    LET old(i) == b[Slot(from + i)].at < clock - MaxAge
    IN  CHOOSE k \in 0..size : (\A i \in 0..(k - 1) : old(i)) /\ (k < size => ~ old(k))

Add(e) ==
    LET b    == [buf EXCEPT ![Slot(start + count)] = e]
        from == IF count < MaxSize THEN start ELSE Slot(start + 1)
        size == IF count < MaxSize THEN count + 1 ELSE count
        skip == Expired(b, from, size)
    IN  buf' = b /\ start' = Slot(from + skip) /\ count' = size - skip

\* StartCollector: one change from the channel, dropped while paused.
Collect ==
    /\ seen < RingAdds /\ seen' = seen + 1
    /\ IF held THEN UNCHANGED <<buf, start, count, adds>>
       ELSE \E at \in (clock - Skew)..clock, row, old \in Datapaths \cup {""} :
              LET e == eventToFlowChange(at, row, old, seen + 1) IN
              at >= 0 /\ Add(e) /\ adds' = Append(adds, e)
    /\ UNCHANGED <<clock, held>>

RingTick == clock < RingTicks /\ clock' = clock + 1 /\ UNCHANGED <<buf, start, count, held, adds, seen>>
Hold     == held' = ~ held /\ UNCHANGED <<buf, start, count, clock, adds, seen>>

RingNext == Collect \/ RingTick \/ Hold

RingSpec == RingInit /\ [][RingNext]_ringVars

Stored == [i \in 1..count |-> buf[Slot(start + i - 1)]]

\* Query of the flow-diff store: the places it answers from, oldest first.
Query(dp, since) ==
    {i \in 1..count : /\ Stored[i].at >= clock - MaxAge /\ Stored[i].at >= since
                      /\ dp = "" \/ Stored[i].dp = dp}

---------------------------------------------------------------------------

(* The ring is a queue of the latest entries: overwriting, wrapping and    *)
(* pruning of Add keep order and lose only what BoundedQueue lets go.      *)
Log == INSTANCE BoundedQueue WITH Capacity <- MaxSize, Entries <- Change,
                                  queue <- Stored, time <- clock
RingIsAQueue == Log!Spec

Asked(e, dp, since) == e.at >= clock - MaxAge /\ e.at >= since /\ (dp = "" \/ e.dp = dp)
Recent == {j \in DOMAIN adds : j > Len(adds) - MaxSize}

(* Query answers exactly the changes that are young enough and among the   *)
(* latest MaxSize, in the order they were added: none is lost behind an    *)
(* expired one at the front of the ring, none is served late because       *)
(* nothing was added since.                                                *)
QueryIsExact ==
    /\ \A dp \in Datapaths \cup {""}, since \in 0..clock :
          {Stored[i] : i \in Query(dp, since)} =
             {adds[j] : j \in {x \in Recent : Asked(adds[x], dp, since)}}
    /\ \A i, j \in 1..count : i < j => Stored[i].n < Stored[j].n

=============================================================================
