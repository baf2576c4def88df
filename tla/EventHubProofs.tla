--------------------------- MODULE EventHubProofs ---------------------------
(***************************************************************************)
(* Proofs about EventHub, for every number of publishers, clients, tables, *)
(* every buffer and batch size: no send on a closed channel, the events    *)
(* the history accepted are handled exactly once and stored in order, and  *)
(* no client sees the events of a publisher out of order.                  *)
(*                                                                         *)
(* The argument.  The history's events form one Line, oldest first:        *)
(* stored, batched, in hand, waiting in the channel.  Line only grows at   *)
(* its end, by the event of a walk that has not visited the history, and   *)
(* only shrinks where a pause or a failed insert moves events of it into   *)
(* skipped or lost.  As an event is in Line at most once, counting follows *)
(* from disjointness.                                                      *)
(***************************************************************************)
EXTENDS EventHub, FiniteSetTheorems, SequenceTheorems, TLAPS

\* The events of each publisher appear in s in the order they were published.
Ascending(s) ==
    \A i, j \in DOMAIN s : i < j /\ s[i].src = s[j].src => s[i].n < s[j].n

\* e was published and, if its walk still has s to visit, before that walk's event.
PublishedFor(e, s) ==
    /\ e.n <= sent[e.src]
    /\ s \in pub[e.src].todo => e.n < sent[e.src]

(* A walk carries the newest event of its publisher, to subscribers whose  *)
(* channel is open: nobody comes or goes before the walk ends.             *)
WalkInv ==
    /\ subs \cap shut = {}
    /\ \A p \in Publishers :
          /\ pub[p].todo \subseteq subs
          /\ Publishing(p) => \E t \in Tables :
                pub[p].event = <<[src |-> p, n |-> sent[p], table |-> t]>>

\* What waits for a client is in order and newer than all it has received.
ClientInv ==
    \A c \in Clients :
       /\ Ascending(chan[c])
       /\ \A e \in ToSet(chan[c]) : PublishedFor(e, c) /\ last[c][e.src] < e.n
       /\ \A p \in Publishers :
             /\ last[c][p] <= sent[p]
             /\ c \in pub[p].todo => last[c][p] < sent[p]

\* The persistence goroutine holds an event only while it checks the pause.
HandInv == hist.stage \notin {"check", "drainCheck"} => hist.hand = <<>>

\* Every event of all is in line, skipped or lost, and in one of them only.
Handled(all, line, skip, lose) ==
    /\ Ascending(line)
    /\ all = ToSet(line) \cup skip \cup lose
    /\ ToSet(line) \cap skip = {} /\ ToSet(line) \cap lose = {} /\ skip \cap lose = {}
    /\ IsFiniteSet(skip) /\ IsFiniteSet(lose)

LineInv ==
    /\ HandInv
    /\ \A e \in accepted : PublishedFor(e, History)
    /\ Handled(accepted, Line, skipped, lost)

HubInv == TypeOK /\ WalkInv /\ ClientInv /\ LineInv
---------------------------------------------------------------------------
(* Sequences of events *)

LEMMA Numbers ==
    /\ BufferSize \in Nat \ {0} /\ BatchSize \in Nat \ {0} /\ MaxEvents \in Nat
    /\ \A e \in Event : e.src \in Publishers /\ e.n \in 1..MaxEvents /\ e.n \in Nat
BY HubConstants DEF HubConstants, Event

LEMMA ToSetConcat ==
    ASSUME NEW a \in Seq(Event), NEW b \in Seq(Event)
    PROVE  ToSet(a \o b) = ToSet(a) \cup ToSet(b)
<1>1. DOMAIN a = 1..Len(a) /\ DOMAIN b = 1..Len(b) /\ DOMAIN (a \o b) = 1..(Len(a) + Len(b))
  BY ConcatProperties, LenProperties
<1>2. \A i \in 1..Len(a) : (a \o b)[i] = a[i]
  BY ConcatProperties
<1>3. \A i \in 1..Len(b) : (a \o b)[Len(a) + i] = b[i]
  BY ConcatProperties
<1>4. \A x \in ToSet(a \o b) : x \in ToSet(a) \cup ToSet(b)
  <2>1. SUFFICES ASSUME NEW k \in 1..(Len(a) + Len(b))
                 PROVE  (a \o b)[k] \in ToSet(a) \cup ToSet(b)
    BY <1>1 DEF ToSet
  <2>2. CASE k <= Len(a)
    BY <2>2, <1>1, <1>2 DEF ToSet
  <2>3. CASE k > Len(a)
    <3>1. k - Len(a) \in 1..Len(b) /\ (a \o b)[k] = b[k - Len(a)]
      BY <2>3, ConcatProperties
    <3> QED  BY <3>1, <1>1 DEF ToSet
  <2> QED  BY <2>2, <2>3
<1>5. \A x \in ToSet(a) \cup ToSet(b) : x \in ToSet(a \o b)
  <2>1. \A i \in 1..Len(a) : i \in 1..(Len(a) + Len(b))
    OBVIOUS
  <2>2. \A i \in 1..Len(b) : Len(a) + i \in 1..(Len(a) + Len(b))
    OBVIOUS
  <2> QED  BY <1>1, <1>2, <1>3, <2>1, <2>2 DEF ToSet
<1> QED  BY <1>4, <1>5

LEMMA ToSetEvents ==
    ASSUME NEW a \in Seq(Event)
    PROVE  /\ ToSet(a) \subseteq Event
           /\ \A x \in Event : ToSet(<<x>>) = {x}
BY ElementOfSeq DEF ToSet

LEMMA Nothing ==
    <<>> \in Seq(Event) /\ Len(<<>>) = 0 /\ ToSet(<<>>) = {} /\ Ascending(<<>>)
<1>1. <<>> \in Seq(Event) /\ Len(<<>>) = 0
  OBVIOUS
<1>2. DOMAIN <<>> = 1..0
  OBVIOUS
<1>3. ToSet(<<>>) = {}
  BY <1>2 DEF ToSet
<1>4. Ascending(<<>>)
  BY <1>2 DEF Ascending
<1> QED  BY <1>1, <1>3, <1>4

\* Whatever precedes in the sequence was published before.
Precedes(a, b) ==
    \A x \in ToSet(a), y \in ToSet(b) : x.src = y.src => x.n < y.n

LEMMA AscendingParts ==
    ASSUME NEW a \in Seq(Event), NEW b \in Seq(Event), Ascending(a \o b)
    PROVE  Ascending(a) /\ Ascending(b) /\ Precedes(a, b)
<1>1. DOMAIN a = 1..Len(a) /\ DOMAIN b = 1..Len(b) /\ DOMAIN (a \o b) = 1..(Len(a) + Len(b))
  BY ConcatProperties, LenProperties
<1>2. \A i \in 1..Len(a) : (a \o b)[i] = a[i] /\ i \in 1..(Len(a) + Len(b))
  BY ConcatProperties
<1>3. \A i \in 1..Len(b) : (a \o b)[Len(a) + i] = b[i] /\ Len(a) + i \in 1..(Len(a) + Len(b))
  BY ConcatProperties
<1>4. Ascending(a)
  BY <1>1, <1>2 DEF Ascending
<1>5. Ascending(b)
  <2>1. SUFFICES ASSUME NEW i \in 1..Len(b), NEW j \in 1..Len(b), i < j, b[i].src = b[j].src
                 PROVE  b[i].n < b[j].n
    BY <1>1 DEF Ascending
  <2>2. Len(a) + i < Len(a) + j
    BY <2>1
  <2> QED  BY <2>1, <2>2, <1>1, <1>3 DEF Ascending
<1>6. Precedes(a, b)
  <2>1. SUFFICES ASSUME NEW i \in 1..Len(a), NEW j \in 1..Len(b), a[i].src = b[j].src
                 PROVE  a[i].n < b[j].n
    BY <1>1 DEF Precedes, ToSet
  <2>2. i < Len(a) + j
    OBVIOUS
  <2> QED  BY <2>1, <2>2, <1>1, <1>2, <1>3 DEF Ascending
<1> QED  BY <1>4, <1>5, <1>6

LEMMA AscendingJoin ==
    ASSUME NEW a \in Seq(Event), NEW b \in Seq(Event),
           Ascending(a), Ascending(b), Precedes(a, b)
    PROVE  Ascending(a \o b)
<1>1. DOMAIN a = 1..Len(a) /\ DOMAIN b = 1..Len(b) /\ DOMAIN (a \o b) = 1..(Len(a) + Len(b))
  BY ConcatProperties, LenProperties
<1>2. SUFFICES ASSUME NEW i \in 1..(Len(a) + Len(b)), NEW j \in 1..(Len(a) + Len(b)),
                      i < j, (a \o b)[i].src = (a \o b)[j].src
               PROVE  (a \o b)[i].n < (a \o b)[j].n
  BY <1>1 DEF Ascending
<1>3. CASE j <= Len(a)
  <2>1. i \in 1..Len(a) /\ j \in 1..Len(a) /\ (a \o b)[i] = a[i] /\ (a \o b)[j] = a[j]
    BY <1>2, <1>3, ConcatProperties
  <2> QED  BY <1>1, <1>2, <2>1 DEF Ascending
<1>4. CASE i <= Len(a) /\ Len(a) < j
  <2>1. /\ i \in 1..Len(a) /\ j - Len(a) \in 1..Len(b)
        /\ (a \o b)[i] = a[i] /\ (a \o b)[j] = b[j - Len(a)]
    BY <1>2, <1>4, ConcatProperties
  <2>2. a[i] \in ToSet(a) /\ b[j - Len(a)] \in ToSet(b)
    BY <1>1, <2>1 DEF ToSet
  <2> QED  BY <1>2, <2>1, <2>2 DEF Precedes
<1>5. CASE Len(a) < i
  <2>1. /\ i - Len(a) \in 1..Len(b) /\ j - Len(a) \in 1..Len(b) /\ i - Len(a) < j - Len(a)
        /\ (a \o b)[i] = b[i - Len(a)] /\ (a \o b)[j] = b[j - Len(a)]
    BY <1>2, <1>5, ConcatProperties
  <2> QED  BY <1>1, <1>2, <2>1 DEF Ascending
<1> QED  BY <1>2, <1>3, <1>4, <1>5

\* A middle part that leaves the sequence takes its own events along, and no others.
LEMMA MiddleLeaves ==
    ASSUME NEW a \in Seq(Event), NEW b \in Seq(Event), NEW c \in Seq(Event),
           Ascending((a \o b) \o c)
    PROVE  /\ Ascending(a \o c)
           /\ ToSet((a \o b) \o c) = ToSet(a \o c) \cup ToSet(b)
           /\ ToSet(a \o c) \cap ToSet(b) = {}
<1>1. a \o b \in Seq(Event) /\ a \o c \in Seq(Event)
  BY ConcatProperties
<1>2. Ascending(a \o b) /\ Ascending(c) /\ Precedes(a \o b, c)
  BY <1>1, AscendingParts
<1>3. Ascending(a) /\ Precedes(a, b)
  BY <1>1, <1>2, AscendingParts
<1>4. Precedes(a, c) /\ Precedes(b, c)
  BY <1>2, ToSetConcat DEF Precedes
<1>5. Ascending(a \o c)
  BY <1>2, <1>3, <1>4, AscendingJoin
<1>6. ToSet((a \o b) \o c) = ToSet(a \o c) \cup ToSet(b)
  <2>1. ToSet((a \o b) \o c) = ToSet(a \o b) \cup ToSet(c)
    BY <1>1, ToSetConcat
  <2>2. ToSet(a \o b) = ToSet(a) \cup ToSet(b) /\ ToSet(a \o c) = ToSet(a) \cup ToSet(c)
    BY ToSetConcat
  <2> QED  BY <2>1, <2>2
<1>7. ToSet(a \o c) \cap ToSet(b) = {}
  <2>1. SUFFICES ASSUME NEW x \in ToSet(b), x \in ToSet(a) \cup ToSet(c)  PROVE FALSE
    BY ToSetConcat
  <2>2. x.n \in Nat
    BY <2>1, ToSetEvents, Numbers
  <2>3. x.n < x.n
    BY <1>3, <1>4, <2>1 DEF Precedes
  <2> QED  BY <2>2, <2>3
<1> QED  BY <1>5, <1>6, <1>7

\* The events of an ascending sequence differ, so their number is its length.
LEMMA AscendingCounts ==
    ASSUME NEW s \in Seq(Event), Ascending(s)
    PROVE  IsFiniteSet(ToSet(s)) /\ Cardinality(ToSet(s)) = Len(s)
<1> DEFINE f == [i \in 1..Len(s) |-> s[i]]
<1>1. DOMAIN s = 1..Len(s) /\ Len(s) \in Nat
  BY LenProperties
<1>2. \A i, j \in 1..Len(s) : s[i] = s[j] => i = j
  <2>1. SUFFICES ASSUME NEW i \in 1..Len(s), NEW j \in 1..Len(s), s[i] = s[j], i < j  PROVE FALSE
    BY <1>1
  <2>2. s[j].n \in Nat
    BY ElementOfSeq, Numbers
  <2>3. s[i].n < s[j].n
    BY <1>1, <2>1 DEF Ascending
  <2> QED  BY <2>1, <2>2, <2>3
<1>3. f \in Bijection(1..Len(s), ToSet(s))
  BY <1>1, <1>2 DEF ToSet, Bijection, Injection, Surjection, IsInjective
<1>4. ExistsBijection(1..Len(s), ToSet(s))
  BY <1>3 DEF ExistsBijection
<1>5. IsFiniteSet(1..Len(s)) /\ Cardinality(1..Len(s)) = Len(s)
  <2>1. 1 \in Int /\ Len(s) \in Int /\ Len(s) \in Nat
    BY <1>1
  <2>2. IsFiniteSet(1..Len(s)) /\ Cardinality(1..Len(s)) = IF 1 > Len(s) THEN 0 ELSE Len(s) - 1 + 1
    BY <2>1, FS_Interval, Zenon
  <2> QED  BY <2>1, <2>2
<1> QED  BY <1>4, <1>5, FS_Bijection

LEMMA Joining ==
    /\ \A a, b \in Seq(Event) : a \o b \in Seq(Event)
    /\ \A a \in Seq(Event) : a \o <<>> = a /\ <<>> \o a = a
    /\ \A a, b, c \in Seq(Event) : (a \o b) \o c = a \o (b \o c)
    /\ <<>> \in Seq(Event) /\ \A e \in Event : <<e>> \in Seq(Event)
<1>1. \A a, b \in Seq(Event) : a \o b \in Seq(Event)
  BY ConcatProperties
<1>2. \A a \in Seq(Event) : a \o <<>> = a /\ <<>> \o a = a
  BY ConcatEmptySeq
<1>3. \A a, b, c \in Seq(Event) : (a \o b) \o c = a \o (b \o c)
  BY ConcatAssociative
<1>4. <<>> \in Seq(Event) /\ \A e \in Event : <<e>> \in Seq(Event)
  OBVIOUS
<1> QED  BY <1>1, <1>2, <1>3, <1>4, Zenon

LEMMA HeadFirst ==
    ASSUME NEW s \in Seq(Event), s # <<>>
    PROVE  /\ Head(s) \in Event /\ Tail(s) \in Seq(Event) /\ Len(Tail(s)) = Len(s) - 1
           /\ <<Head(s)>> \o Tail(s) = s
<1>1. Len(s) \in Nat \ {0} /\ DOMAIN s = 1..Len(s)
  BY EmptySeq, LenProperties
<1>2. /\ Head(s) = s[1] /\ Head(s) \in Event /\ Tail(s) \in Seq(Event)
      /\ Len(Tail(s)) = Len(s) - 1
      /\ \A i \in 1..(Len(s) - 1) : Tail(s)[i] = s[i + 1]
  BY <1>1, HeadTailProperties
<1>3. <<Head(s)>> \o Tail(s) \in Seq(Event) /\ Len(<<Head(s)>> \o Tail(s)) = Len(s)
  BY <1>1, <1>2, ConcatProperties, <<Head(s)>> \in Seq(Event), Len(<<Head(s)>>) = 1
<1>4. ASSUME NEW i \in 1..Len(s)  PROVE (<<Head(s)>> \o Tail(s))[i] = s[i]
  BY <1>1, <1>2, ConcatProperties, <<Head(s)>> \in Seq(Event), Len(<<Head(s)>>) = 1
<1> QED  BY <1>2, <1>3, <1>4, SeqEqual

---------------------------------------------------------------------------
(* Accounts of events *)

\* A newer event joins at the end.
LEMMA HandledGrows ==
    ASSUME NEW all \in SUBSET Event, NEW line \in Seq(Event), NEW skip, NEW lose,
           Handled(all, line, skip, lose), NEW e \in Event,
           \A x \in all : x.src = e.src => x.n < e.n
    PROVE  Handled(all \cup {e}, line \o <<e>>, skip, lose)
<1>1. <<e>> \in Seq(Event) /\ ToSet(<<e>>) = {e}
  BY Joining, ToSetEvents
<1>2. ToSet(line \o <<e>>) = ToSet(line) \cup {e}
  BY <1>1, ToSetConcat
<1>3. e \notin all
  BY Numbers
<1>4. Ascending(<<e>>)
  BY DEF Ascending
<1>5. Precedes(line, <<e>>)
  BY <1>1 DEF Precedes, Handled
<1>6. Ascending(line \o <<e>>)
  BY <1>1, <1>4, <1>5, AscendingJoin DEF Handled
<1> QED  BY <1>2, <1>3, <1>6 DEF Handled

\* A part of the line is skipped.
LEMMA HandledSkip ==
    ASSUME NEW all, NEW skip, NEW lose,
           NEW a \in Seq(Event), NEW b \in Seq(Event), NEW c \in Seq(Event),
           Handled(all, (a \o b) \o c, skip, lose)
    PROVE  Handled(all, a \o c, skip \cup ToSet(b), lose)
<1>1. /\ Ascending(a \o c)
      /\ ToSet((a \o b) \o c) = ToSet(a \o c) \cup ToSet(b)
      /\ ToSet(a \o c) \cap ToSet(b) = {}
  BY MiddleLeaves DEF Handled
<1>2. Ascending(b)
  BY AscendingParts, Joining DEF Handled
<1>3. IsFiniteSet(skip \cup ToSet(b))
  BY <1>2, AscendingCounts, FS_Union DEF Handled
<1> QED  BY <1>1, <1>3 DEF Handled

LEMMA HandledSymmetry ==
    ASSUME NEW all, NEW line, NEW skip, NEW lose, Handled(all, line, skip, lose)
    PROVE  Handled(all, line, lose, skip)
BY DEF Handled

\* A flush stores the part or loses it.
LEMMA HandledFlush ==
    ASSUME TypeOK, NEW dead \in BOOLEAN, NEW b \in Seq(Event), NEW c \in Seq(Event),
           Flush(b, dead), Handled(accepted, (stored \o b) \o c, skipped, lost)
    PROVE  /\ Handled(accepted, stored' \o c, skipped, lost')
           /\ stored' \in Seq(Event) /\ lost' \subseteq Event /\ faults' \in Nat
<1>1. stored \in Seq(Event) /\ lost \subseteq Event /\ faults \in Nat
  BY DEF TypeOK
<1>2. CASE stored' = stored \o b /\ UNCHANGED <<lost, faults>>
  BY <1>1, <1>2, Joining
<1>3. CASE lost' = lost \cup ToSet(b) /\ UNCHANGED stored /\ (UNCHANGED faults \/ faults' = faults + 1)
  <2>1. Handled(accepted, stored \o c, lost \cup ToSet(b), skipped)
    BY <1>1, HandledSymmetry, HandledSkip
  <2> QED  BY <1>1, <1>3, <2>1, HandledSymmetry, ToSetEvents
<1> QED  BY <1>2, <1>3 DEF Flush

LEMMA DisjointUnion ==
    ASSUME NEW S, IsFiniteSet(S), NEW T, IsFiniteSet(T), S \cap T = {}
    PROVE  /\ IsFiniteSet(S \cup T)
           /\ Cardinality(S \cup T) = Cardinality(S) + Cardinality(T)
<1>1. Cardinality(S) \in Nat /\ Cardinality(T) \in Nat
  BY FS_CardinalityType
<1>2. Cardinality(S \cap T) = 0
  BY FS_EmptySet
<1>3. /\ IsFiniteSet(S \cup T)
      /\ Cardinality(S \cup T) = Cardinality(S) + Cardinality(T) - Cardinality(S \cap T)
  BY FS_Union
<1> QED  BY <1>1, <1>2, <1>3

\* The count that the account implies.
LEMMA HandledOnce ==
    ASSUME TypeOK, LineInv
    PROVE  ExactlyOnce
<1>1. Line \in Seq(Event)
  BY Joining DEF Line, TypeOK, Subscribers, Worker
<1>2. IsFiniteSet(ToSet(Line)) /\ Cardinality(ToSet(Line)) = Len(Line)
  BY <1>1, AscendingCounts DEF LineInv, Handled
<1>3. IsFiniteSet(skipped) /\ IsFiniteSet(lost) /\ Len(Line) \in Nat
  BY <1>1, LenProperties DEF LineInv, Handled
<1>4. ToSet(Line) \cap skipped = {} /\ (ToSet(Line) \cup skipped) \cap lost = {}
  BY DEF LineInv, Handled
<1>5. /\ IsFiniteSet(ToSet(Line) \cup skipped)
      /\ Cardinality(ToSet(Line) \cup skipped) = Len(Line) + Cardinality(skipped)
  BY <1>2, <1>3, <1>4, DisjointUnion
<1>6. Cardinality((ToSet(Line) \cup skipped) \cup lost)
         = Len(Line) + Cardinality(skipped) + Cardinality(lost)
  BY <1>3, <1>4, <1>5, DisjointUnion
<1>7. accepted = (ToSet(Line) \cup skipped) \cup lost
  BY DEF LineInv, Handled
<1> QED  BY <1>6, <1>7 DEF ExactlyOnce

LEMMA LineIsStoredFirst ==
    ASSUME TypeOK, LineInv
    PROVE  StoredInOrder
<1>1. /\ stored \in Seq(Event) /\ hist.batch \in Seq(Event)
      /\ hist.hand \in Seq(Event) /\ chan[History] \in Seq(Event)
  BY DEF TypeOK, Worker, Subscribers
<1>2. Ascending(((stored \o hist.batch) \o hist.hand) \o chan[History])
  BY DEF LineInv, Handled, Line
<1>3. stored \o hist.batch \in Seq(Event) /\ (stored \o hist.batch) \o hist.hand \in Seq(Event)
  BY <1>1, Joining
<1>4. Ascending((stored \o hist.batch) \o hist.hand)
  BY <1>1, <1>2, <1>3, AscendingParts
<1>5. Ascending(stored \o hist.batch)
  BY <1>1, <1>3, <1>4, AscendingParts
<1>6. Ascending(stored)
  BY <1>1, <1>5, AscendingParts
<1> QED  BY <1>6 DEF Ascending, StoredInOrder

---------------------------------------------------------------------------
(* Types *)

LEMMA FlushType ==
    ASSUME TypeOK, NEW dead, NEW b \in Seq(Event), Flush(b, dead)
    PROVE  stored' \in Seq(Event) /\ lost' \subseteq Event /\ faults' \in Nat
<1>1. stored \in Seq(Event) /\ lost \subseteq Event /\ faults \in Nat
  BY DEF TypeOK
<1>2. stored \o b \in Seq(Event) /\ ToSet(b) \subseteq Event
  BY <1>1, Joining, ToSetEvents
<1>3. stored' \in Seq(Event)
  BY <1>1, <1>2 DEF Flush
<1>4. lost' \subseteq Event /\ faults' \in Nat
  BY <1>1, <1>2 DEF Flush
<1> QED  BY <1>3, <1>4

LEMMA WorkerChanges ==
    ASSUME NEW w \in Worker, NEW stage \in Stages, NEW hand \in Seq(Event), NEW batch \in Seq(Event)
    PROVE  /\ [w EXCEPT !.stage = stage, !.hand = hand] \in Worker
           /\ [w EXCEPT !.stage = stage, !.hand = <<>>] \in Worker
           /\ [w EXCEPT !.stage = stage, !.batch = <<>>] \in Worker
           /\ [w EXCEPT !.batch = <<>>] \in Worker
           /\ [w EXCEPT !.stage = stage] \in Worker
           /\ [stage |-> stage, hand |-> <<>>, batch |-> batch] \in Worker
           /\ [stage |-> stage, hand |-> <<>>, batch |-> <<>>] \in Worker
<1>1. <<>> \in Seq(Event)
  OBVIOUS
<1>2. PICK nothing \in Seq(Event) : nothing = <<>>
  BY <1>1
<1>3. w.stage \in Stages /\ w.hand \in Seq(Event) /\ w.batch \in Seq(Event)
  BY DEF Worker
<1> QED  BY <1>2, <1>3 DEF Worker

LEMMA HistoryTypes ==
    TypeOK => /\ hist.stage \in Stages /\ hist.batch \in Seq(Event) /\ hist.hand \in Seq(Event)
              /\ chan[History] \in Seq(Event) /\ History \in Subscribers
              /\ hist.batch \o hist.hand \in Seq(Event)
              /\ ToSet(hist.hand) \subseteq Event
BY Joining, ToSetEvents DEF TypeOK, Worker, Subscribers

\* One visit of a walk: the event it carries, and the walk that is left.
LEMMA Visit ==
    ASSUME TypeOK, WalkInv, NEW p \in Publishers, NEW s \in Subscribers, Deliver(p, s)
    PROVE  /\ \E e \in Event : pub[p].event = <<e>> /\ e.src = p /\ e.n = sent[p]
           /\ pub' \in [Publishers -> Walk]
           /\ pub'[p].todo = pub[p].todo \ {s}
           /\ pub'[p].todo # {} => pub'[p].event = pub[p].event
           /\ \A q \in Publishers \ {p} : pub'[q] = pub[q]
<1>1. s \in pub[p].todo /\ Publishing(p) /\ pub \in [Publishers -> Walk] /\ Visited(p, s)
  BY DEF Deliver, Publishing, TypeOK
<1>2. \E e \in Event : pub[p].event = <<e>> /\ e.src = p /\ e.n = sent[p]
  <2>1. PICK t \in Tables : pub[p].event = <<[src |-> p, n |-> sent[p], table |-> t]>>
    BY <1>1 DEF WalkInv
  <2>2. pub[p].event \in Seq(Event) /\ Len(pub[p].event) = 1
    BY <1>1, <2>1 DEF Walk
  <2>3. pub[p].event[1] \in Event
    BY <2>2, ElementOfSeq
  <2> QED  BY <2>1, <2>3
<1>3. PICK w : w = pub[p]
  OBVIOUS
<1>4. w \in Walk
  BY <1>1, <1>3
<1>5. CASE w.todo \ {s} = {}
  <2>1. pub' = [pub EXCEPT ![p] = NoWalk]
    BY <1>1, <1>3, <1>5 DEF Visited
  <2>2. NoWalk \in Walk /\ NoWalk.todo = {}
    BY DEF NoWalk, Walk
  <2> QED  BY <1>1, <1>2, <1>3, <1>5, <2>1, <2>2
<1>6. CASE w.todo \ {s} # {}
  <2>1. pub' = [pub EXCEPT ![p] = [event |-> w.event, todo |-> w.todo \ {s}]]
    BY <1>1, <1>3, <1>6 DEF Visited
  <2>2. [event |-> w.event, todo |-> w.todo \ {s}] \in Walk
    BY <1>4 DEF Walk
  <2> QED  BY <1>1, <1>2, <1>3, <2>1, <2>2
<1> QED  BY <1>5, <1>6

LEMMA PublishType ==
    ASSUME TypeOK, NEW p \in Publishers, NEW t \in Tables, Publish(p, t)
    PROVE  TypeOK'
<1>1. sent[p] \in 0..MaxEvents /\ sent[p] + 1 \in 1..MaxEvents /\ sent[p] + 1 \in 0..MaxEvents
  BY Numbers DEF TypeOK, Publish
<1>2. [src |-> p, n |-> sent[p] + 1, table |-> t] \in Event
  BY <1>1 DEF Event
<1>3. [event |-> <<[src |-> p, n |-> sent[p] + 1, table |-> t]>>, todo |-> subs] \in Walk
  BY <1>2 DEF Walk, TypeOK
<1>4. pub' \in [Publishers -> Walk] /\ sent' \in [Publishers -> 0..MaxEvents]
  BY <1>1, <1>3 DEF TypeOK, Publish
<1> QED  BY <1>4 DEF TypeOK, Publish, ghosts

LEMMA DeliverType ==
    ASSUME TypeOK, WalkInv, NEW p \in Publishers, NEW s \in Subscribers, Deliver(p, s)
    PROVE  TypeOK'
<1>1. PICK e \in Event : pub[p].event = <<e>>
  BY Visit
<1>2. chan \in [Subscribers -> Seq(Event)] /\ \A x \in Subscribers : Len(chan[x]) <= BufferSize
  BY DEF TypeOK
<1>3. chan[s] \o <<e>> \in Seq(Event) /\ Len(chan[s] \o <<e>>) = Len(chan[s]) + 1
  BY <1>2, ConcatProperties, <<e>> \in Seq(Event)
<1>4. chan' \in [Subscribers -> Seq(Event)] /\ \A x \in Subscribers : Len(chan'[x]) <= BufferSize
  <2>1. CASE chan' = [chan EXCEPT ![s] = chan[s] \o <<e>>] /\ Len(chan[s]) < BufferSize
    BY <1>2, <1>3, <2>1, Numbers, LenProperties
  <2>2. CASE chan' = chan
    BY <1>2, <2>2
  <2> QED  BY <1>1, <1>2, <2>1, <2>2 DEF Deliver
<1>5. accepted' \subseteq Event
  BY <1>1, ToSetEvents DEF TypeOK, Deliver
<1>6. pub' \in [Publishers -> Walk]
  BY Visit
<1> QED  BY <1>4, <1>5, <1>6 DEF TypeOK, Deliver

LEMMA ClientType ==
    ASSUME TypeOK, NEW c \in Clients, ClientStep(c)
    PROVE  TypeOK'
<1>1. c \in Subscribers /\ BufferSize \in Nat /\ <<>> \in Seq(Event) /\ Len(<<>>) = 0
  BY Numbers DEF Subscribers
<1>2. CASE Subscribe(c)
  BY <1>1, <1>2 DEF Subscribe, TypeOK, ghosts
<1>3. CASE Unsubscribe(c)
  BY <1>1, <1>3 DEF Unsubscribe, TypeOK, ghosts
<1>4. ASSUME NEW f \in SUBSET SUBSET Tables, SetFilters(c, f)  PROVE TypeOK'
  BY <1>1, <1>4 DEF SetFilters, TypeOK, ghosts
<1>5. ASSUME NEW t \in SUBSET Tables, AddFilter(c, t) \/ RemoveFilter(c, t)  PROVE TypeOK'
  <2>1. filters[c] \in SUBSET SUBSET Tables
    BY <1>1 DEF TypeOK
  <2>2. filters[c] \cup {t} \in SUBSET SUBSET Tables /\ filters[c] \ {t} \in SUBSET SUBSET Tables
    BY <2>1
  <2> QED  BY <1>4, <1>5, <2>2 DEF AddFilter, RemoveFilter
<1>6. CASE ClientReceive(c)
  <2>1. /\ chan[c] \in Seq(Event) /\ chan[c] # <<>> /\ Len(chan[c]) <= BufferSize
        /\ chan' = [chan EXCEPT ![c] = Tail(chan[c])]
        /\ last' = [last EXCEPT ![c][Head(chan[c]).src] = Head(chan[c]).n]
    BY <1>1, <1>6 DEF ClientReceive, TypeOK
  <2>2. Head(chan[c]) \in Event /\ Tail(chan[c]) \in Seq(Event) /\ Len(Tail(chan[c])) <= BufferSize
    BY <1>1, <2>1, HeadFirst, LenProperties
  <2>3. Head(chan[c]).src \in Publishers /\ Head(chan[c]).n \in 0..MaxEvents
    BY <2>2, Numbers
  <2>4. last' \in [Clients -> [Publishers -> 0..MaxEvents]]
    BY <2>1, <2>3 DEF TypeOK
  <2>5. chan' \in [Subscribers -> Seq(Event)] /\ \A x \in Subscribers : Len(chan'[x]) <= BufferSize
    BY <1>1, <2>1, <2>2 DEF TypeOK
  <2> QED  BY <1>6, <2>4, <2>5 DEF ClientReceive, TypeOK
<1> QED  BY <1>2, <1>3, <1>5, <1>6 DEF ClientStep

LEMMA TakeType ==
    ASSUME TypeOK, NEW from \in Stages, NEW to \in Stages, HistoryTake(from, to)
    PROVE  TypeOK'
<1>1. /\ chan[History] \in Seq(Event) /\ chan[History] # <<>> /\ Len(chan[History]) <= BufferSize
      /\ BufferSize \in Nat /\ History \in Subscribers
  BY Numbers, HistoryTypes DEF TypeOK, HistoryTake
<1>2. /\ Head(chan[History]) \in Event /\ Tail(chan[History]) \in Seq(Event)
      /\ Len(Tail(chan[History])) <= BufferSize
  BY <1>1, HeadFirst, LenProperties
<1>3. chan' \in [Subscribers -> Seq(Event)] /\ \A x \in Subscribers : Len(chan'[x]) <= BufferSize
  BY <1>1, <1>2 DEF TypeOK, HistoryTake
<1>4. hist \in Worker /\ <<Head(chan[History])>> \in Seq(Event)
  BY <1>2, Joining DEF TypeOK
<1>5. hist' \in Worker
  BY <1>4, WorkerChanges, EmptySeq DEF HistoryTake
<1> QED  BY <1>3, <1>5 DEF TypeOK, HistoryTake, Unaffected

\* What the steps that leave the hub alone must show of the goroutine's own state.
LEMMA WorkerType ==
    ASSUME TypeOK, UNCHANGED <<Unaffected, chan, cancelled>>,
           hist' \in Worker, stored' \in Seq(Event), faults' \in Nat,
           skipped' \subseteq Event, lost' \subseteq Event
    PROVE  TypeOK'
BY DEF TypeOK, Unaffected

LEMMA ExitType ==
    ASSUME TypeOK, HistoryExit
    PROVE  TypeOK'
<1>1. hist \in Worker /\ hist.batch \in Seq(Event) /\ "done" \in Stages
  BY HistoryTypes DEF TypeOK, Stages
<1>3. hist' \in Worker
  BY <1>1, WorkerChanges DEF HistoryExit
<1>2. stored' \in Seq(Event) /\ lost' \subseteq Event /\ faults' \in Nat
  BY HistoryTypes, FlushType DEF HistoryExit
<1> QED  BY <1>2, <1>3, WorkerType DEF HistoryExit, TypeOK

LEMMA HistoryType ==
    ASSUME TypeOK, HistoryStep
    PROVE  TypeOK'
<1>1. stored \in Seq(Event) /\ lost \subseteq Event /\ faults \in Nat /\ skipped \subseteq Event
  BY DEF TypeOK
<1> hist \in Worker /\ {"select", "check", "drain", "drainCheck"} \subseteq Stages
  BY DEF TypeOK, Stages
<1>2. CASE HistoryTake("select", "check") \/ HistoryTake("drain", "drainCheck")
  BY <1>2, TakeType DEF Stages
<1>3. CASE HistoryCheck
  <2>1. hist' \in Worker
    <3>1. CASE isPaused
      BY <1>3, <3>1, HistoryTypes, WorkerChanges DEF HistoryCheck
    <3>2. CASE ~ isPaused
      <4> DEFINE b == IF Len(hist.batch \o hist.hand) >= BatchSize THEN <<>> ELSE hist.batch \o hist.hand
      <4>1. b \in Seq(Event) /\ "select" \in Stages
        BY HistoryTypes, Joining
      <4>2. hist' = [stage |-> "select", hand |-> <<>>, batch |-> b]
        BY <1>3, <3>2 DEF HistoryCheck
      <4> HIDE DEF b
      <4> QED  BY <4>1, <4>2, WorkerChanges
    <3> QED  BY <3>1, <3>2
  <2>2. skipped' \subseteq Event
    BY <1>1, <1>3, HistoryTypes DEF HistoryCheck
  <2>3. stored' \in Seq(Event) /\ lost' \subseteq Event /\ faults' \in Nat
    BY <1>1, <1>3, HistoryTypes, FlushType DEF HistoryCheck
  <2> QED  BY <1>3, <2>1, <2>2, <2>3, WorkerType DEF HistoryCheck
<1>4. CASE HistoryTick
  <2>1. hist' \in Worker
    BY <1>4, HistoryTypes, WorkerChanges DEF HistoryTick
  <2>2. stored' \in Seq(Event) /\ lost' \subseteq Event /\ faults' \in Nat
    BY <1>4, HistoryTypes, FlushType DEF HistoryTick
  <2> QED  BY <1>1, <1>4, <2>1, <2>2, WorkerType DEF HistoryTick
<1>5. CASE HistoryClosed \/ HistoryDrained
  BY <1>5, ExitType DEF HistoryClosed, HistoryDrained
<1>6. CASE HistoryStop
  <2>1. hist' \in Worker
    BY <1>6, HistoryTypes, WorkerChanges DEF HistoryStop
  <2> QED  BY <1>1, <1>6, <2>1, WorkerType DEF HistoryStop
<1>7. CASE HistoryDrainCheck
  <2>1. hist' \in Worker
    <3>1. CASE isPaused
      BY <1>7, <3>1, HistoryTypes, WorkerChanges DEF HistoryDrainCheck
    <3>2. CASE ~ isPaused
      <4>1. hist' = [stage |-> "drain", hand |-> <<>>, batch |-> hist.batch \o hist.hand]
        BY <1>7, <3>2 DEF HistoryDrainCheck
      <4> QED  BY <4>1, HistoryTypes, WorkerChanges
    <3> QED  BY <3>1, <3>2
  <2>2. skipped' \subseteq Event
    BY <1>1, <1>7, HistoryTypes DEF HistoryDrainCheck
  <2> QED  BY <1>1, <1>7, <2>1, <2>2, WorkerType DEF HistoryDrainCheck
<1> QED  BY <1>2, <1>3, <1>4, <1>5, <1>6, <1>7 DEF HistoryStep

LEMMA TypeStep ==
    ASSUME TypeOK, WalkInv, [Next]_vars
    PROVE  TypeOK'
<1>1. CASE UNCHANGED vars
  BY <1>1 DEF TypeOK, vars, ghosts
<1>2. CASE StopCancel
  BY <1>2 DEF StopCancel, TypeOK
<1>3. CASE StopUnsubscribe
  BY <1>3, HistoryTypes DEF StopUnsubscribe, Unsubscribe, TypeOK, ghosts
<1>4. CASE SessionStep
  BY <1>4 DEF SessionStep, TypeOK, ghosts
<1> QED  BY <1>1, <1>2, <1>3, <1>4, PublishType, DeliverType, ClientType, HistoryType DEF Next

---------------------------------------------------------------------------
(* Walks *)

\* Only the steps of the hub itself touch subscribers and walks.
LEMMA HubAtRest ==
    (HistoryStep \/ StopCancel \/ SessionStep) => UNCHANGED <<subs, shut, filters, pub, sent, last>>
<1>1. HistoryStep => UNCHANGED <<subs, shut, filters, pub, sent, last>>
  BY DEF HistoryStep, HistoryTake, HistoryCheck, HistoryTick, HistoryClosed, HistoryStop,
         HistoryDrainCheck, HistoryDrained, HistoryExit, Unaffected
<1>2. StopCancel \/ SessionStep => UNCHANGED <<subs, shut, filters, pub, sent, last>>
  BY DEF StopCancel, SessionStep, ghosts
<1> QED  BY <1>1, <1>2

LEMMA WalkStep ==
    ASSUME TypeOK, WalkInv, [Next]_vars
    PROVE  WalkInv'
<1>1. pub \in [Publishers -> Walk] /\ sent \in [Publishers -> 0..MaxEvents]
  BY DEF TypeOK
<1>2. ASSUME NEW p \in Publishers, NEW t \in Tables, Publish(p, t)  PROVE WalkInv'
  BY <1>1, <1>2 DEF Publish, WalkInv, Publishing
<1>3. ASSUME NEW p \in Publishers, NEW s \in Subscribers, Deliver(p, s)  PROVE WalkInv'
  <2>1. UNCHANGED <<subs, shut, sent>> /\ Publishing(p)
    BY <1>3 DEF Deliver, Publishing
  <2>2. /\ pub'[p].todo = pub[p].todo \ {s}
        /\ pub'[p].todo # {} => pub'[p].event = pub[p].event
        /\ \A q \in Publishers \ {p} : pub'[q] = pub[q]
    BY <1>3, Visit
  <2> QED  BY <2>1, <2>2 DEF WalkInv, Publishing
<1>4. ASSUME NEW c \in Clients, Subscribe(c)  PROVE WalkInv'
  BY <1>4 DEF Subscribe, HubFree, Publishing, WalkInv
<1>5. ASSUME NEW c, Unsubscribe(c)  PROVE WalkInv'
  BY <1>5 DEF Unsubscribe, HubFree, Publishing, WalkInv
<1>6. CASE UNCHANGED <<subs, shut, pub, sent>>
  BY <1>6 DEF WalkInv, Publishing
<1>7. ASSUME NEW c \in Clients, ClientStep(c)  PROVE WalkInv'
  <2>1. Subscribe(c) \/ Unsubscribe(c) \/ UNCHANGED <<subs, shut, pub, sent>>
    BY <1>7 DEF ClientStep, ClientReceive, AddFilter, RemoveFilter, SetFilters
  <2> QED  BY <1>4, <1>5, <1>6, <2>1
<1>8. CASE UNCHANGED vars
  BY <1>6, <1>8 DEF vars
<1> QED  BY <1>2, <1>3, <1>5, <1>6, <1>7, <1>8, HubAtRest DEF Next, StopUnsubscribe

---------------------------------------------------------------------------
(* Clients *)

\* A walk that starts has a newer event than all that were published before.
LEMMA PublishedBefore ==
    ASSUME TypeOK, WalkInv, NEW p \in Publishers, NEW t \in Tables, Publish(p, t),
           NEW e \in Event, NEW s, PublishedFor(e, s)
    PROVE  PublishedFor(e, s)'
<1>1. e.src \in Publishers /\ e.n \in Nat /\ sent[p] \in Nat
  BY Numbers DEF TypeOK
<1>2. CASE e.src = p
  BY <1>1, <1>2 DEF Publish, PublishedFor, TypeOK
<1>3. CASE e.src # p
  BY <1>1, <1>3 DEF Publish, PublishedFor, TypeOK
<1> QED  BY <1>2, <1>3

\* A visit changes for the others that one subscriber fewer is left.
LEMMA VisitedBefore ==
    ASSUME TypeOK, WalkInv, NEW p \in Publishers, NEW x \in Subscribers, Deliver(p, x),
           NEW e \in Event, NEW s, PublishedFor(e, s)
    PROVE  PublishedFor(e, s)'
<1>1. e.src \in Publishers /\ sent' = sent
  BY Numbers DEF Deliver
<1>2. \A q \in Publishers : pub'[q].todo \subseteq pub[q].todo
  BY Visit
<1> QED  BY <1>1, <1>2 DEF PublishedFor

LEMMA ClientInvStep ==
    ASSUME TypeOK, WalkInv, ClientInv, [Next]_vars
    PROVE  ClientInv'
<1>1. /\ chan \in [Subscribers -> Seq(Event)] /\ pub \in [Publishers -> Walk]
      /\ sent \in [Publishers -> 0..MaxEvents]
      /\ last \in [Clients -> [Publishers -> 0..MaxEvents]]
      /\ Clients \subseteq Subscribers /\ History \notin Clients /\ MaxEvents \in Nat
  BY Numbers, HubConstants DEF TypeOK, Subscribers, HubConstants
<1>2. \A c \in Clients : ToSet(chan[c]) \subseteq Event
  BY <1>1, ToSetEvents
<1>3. ASSUME NEW p \in Publishers, NEW t \in Tables, Publish(p, t)  PROVE ClientInv'
  <2>1. UNCHANGED <<chan, last>> /\ sent' = [sent EXCEPT ![p] = sent[p] + 1]
    BY <1>3 DEF Publish, ghosts
  <2>2. \A q \in Publishers : pub'[q] # pub[q] => q = p
    BY <1>1, <1>3 DEF Publish
  <2>3. ASSUME NEW c \in Clients, NEW q \in Publishers
        PROVE  last'[c][q] <= sent'[q] /\ (c \in pub'[q].todo => last'[c][q] < sent'[q])
    <3>1. last[c][q] \in Nat /\ sent[q] \in Nat /\ last[c][q] <= sent[q]
      BY <1>1 DEF ClientInv
    <3>2. CASE q = p
      BY <1>1, <2>1, <3>1, <3>2
    <3>3. CASE q # p
      BY <1>1, <2>1, <2>2, <3>1, <3>3 DEF ClientInv
    <3> QED  BY <3>2, <3>3
  <2>4. \A c \in Clients : \A e \in ToSet(chan[c]) : PublishedFor(e, c)'
    BY <1>2, <1>3, PublishedBefore DEF ClientInv
  <2> QED  BY <2>1, <2>3, <2>4 DEF ClientInv, Ascending
<1>4. ASSUME NEW p \in Publishers, NEW s \in Subscribers, Deliver(p, s)  PROVE ClientInv'
  <2>1. UNCHANGED <<last, sent>> /\ s \in pub[p].todo
    BY <1>4 DEF Deliver
  <2>2. \A q \in Publishers : pub'[q].todo \subseteq pub[q].todo
    BY <1>4, Visit
  <2>3. s \notin pub'[p].todo
    BY <1>4, Visit
  <2>4. PICK e \in Event : pub[p].event = <<e>> /\ e.src = p /\ e.n = sent[p]
    BY <1>4, Visit
  <2>5. \A c \in Clients : \A x \in ToSet(chan[c]) : PublishedFor(x, c)'
    BY <1>2, <1>4, VisitedBefore DEF ClientInv
  <2>6. ASSUME NEW c \in Clients
        PROVE  /\ Ascending(chan'[c])
               /\ \A x \in ToSet(chan'[c]) : PublishedFor(x, c)' /\ last[c][x.src] < x.n
    <3>1. CASE chan'[c] = chan[c]
      BY <2>5, <3>1 DEF ClientInv
    <3>2. CASE c = s /\ chan'[c] = chan[c] \o <<e>>
      <4>1. <<e>> \in Seq(Event) /\ ToSet(<<e>>) = {e} /\ chan[c] \in Seq(Event)
        BY <1>1, Joining, ToSetEvents
      <4>2. ToSet(chan'[c]) = ToSet(chan[c]) \cup {e}
        <5>1. ToSet(chan[c] \o <<e>>) = ToSet(chan[c]) \cup ToSet(<<e>>)
          BY <4>1, ToSetConcat, Zenon
        <5> QED  BY <3>2, <4>1, <5>1, Zenon
      <4>3. Precedes(chan[c], <<e>>) /\ Ascending(<<e>>)
        BY <2>1, <2>4, <3>2, <4>1 DEF Precedes, Ascending, ClientInv, PublishedFor
      <4>4. Ascending(chan'[c])
        BY <3>2, <4>1, <4>3, AscendingJoin DEF ClientInv
      <4>5. sent[p] \in Nat
        BY <1>1
      <4>6. PublishedFor(e, c)' /\ last[c][e.src] < e.n
        BY <2>1, <2>3, <2>4, <3>2, <4>5 DEF ClientInv, PublishedFor
      <4> QED  BY <2>5, <4>2, <4>4, <4>6 DEF ClientInv
    <3>3. chan' = chan \/ chan' = [chan EXCEPT ![s] = chan[s] \o <<e>>]
      BY <1>1, <1>4, <2>4 DEF Deliver
    <3> QED  BY <1>1, <3>1, <3>2, <3>3
  <2>7. \A c \in Clients, q \in Publishers :
           last'[c][q] <= sent'[q] /\ (c \in pub'[q].todo => last'[c][q] < sent'[q])
    BY <2>1, <2>2 DEF ClientInv
  <2> QED  BY <2>1, <2>6, <2>7 DEF ClientInv
<1>5. ASSUME NEW c \in Clients, Subscribe(c)  PROVE ClientInv'
  <2>1. UNCHANGED <<pub, sent, last>> /\ chan' = [chan EXCEPT ![c] = <<>>]
    BY <1>5 DEF Subscribe, ghosts
  <2>2. Ascending(<<>>) /\ ToSet(<<>>) = {}
    BY Nothing
  <2>3. \A d \in Clients : chan'[d] = chan[d] \/ chan'[d] = <<>>
    BY <1>1, <2>1
  <2>4. \A e, d : PublishedFor(e, d)' <=> PublishedFor(e, d)
    BY <2>1 DEF PublishedFor
  <2>5. \A d \in Clients : Ascending(chan'[d])
    BY <2>2, <2>3 DEF ClientInv
  <2>6. \A d \in Clients : \A e \in ToSet(chan'[d]) : PublishedFor(e, d)' /\ last[d][e.src] < e.n
    BY <2>2, <2>3, <2>4 DEF ClientInv
  <2> QED  BY <2>1, <2>5, <2>6 DEF ClientInv
<1>6. ASSUME NEW c \in Clients, ClientReceive(c)  PROVE ClientInv'
  <2> DEFINE e == Head(chan[c])
  <2>1. /\ UNCHANGED <<pub, sent>> /\ chan[c] \in Seq(Event) /\ chan[c] # <<>>
        /\ chan' = [chan EXCEPT ![c] = Tail(chan[c])]
        /\ last' = [last EXCEPT ![c][e.src] = e.n]
    BY <1>1, <1>6 DEF ClientReceive
  <2>2. e \in Event /\ Tail(chan[c]) \in Seq(Event) /\ <<e>> \o Tail(chan[c]) = chan[c]
    BY <2>1, HeadFirst
  <2>3. <<e>> \in Seq(Event) /\ ToSet(<<e>>) = {e}
    BY <2>2, Joining, ToSetEvents
  <2>4. ToSet(chan[c]) = {e} \cup ToSet(Tail(chan[c]))
    BY <2>2, <2>3, ToSetConcat
  <2>5. Ascending(Tail(chan[c])) /\ Precedes(<<e>>, Tail(chan[c]))
    BY <2>2, <2>3, AscendingParts DEF ClientInv
  <2>6. \A x, d : PublishedFor(x, d)' <=> PublishedFor(x, d)
    BY <2>1 DEF PublishedFor
  <2>7. PublishedFor(e, c) /\ e.src \in Publishers /\ e.n \in Nat
    BY <2>2, <2>4, Numbers DEF ClientInv
  <2> HIDE DEF e
  <2>8. /\ \A d \in Clients \ {c} : chan'[d] = chan[d] /\ last'[d] = last[d]
        /\ chan'[c] = Tail(chan[c])
        /\ \A q \in Publishers : last'[c][q] = IF q = e.src THEN e.n ELSE last[c][q]
    BY <1>1, <2>1, <2>7
  <2>9. \A d \in Clients : Ascending(chan'[d])
    BY <2>5, <2>8 DEF ClientInv
  <2>10. ASSUME NEW d \in Clients, NEW x \in ToSet(chan'[d])
         PROVE  PublishedFor(x, d)' /\ last'[d][x.src] < x.n
    <3>1. x \in Event /\ x.src \in Publishers
      BY <1>2, <2>4, <2>8, Numbers
    <3>2. CASE d # c
      BY <2>6, <2>8, <3>2 DEF ClientInv
    <3>3. CASE d = c
      <4>1. x \in ToSet(Tail(chan[c])) /\ x \in ToSet(chan[c])
        BY <2>4, <2>8, <3>3
      <4>2. last[c][x.src] < x.n /\ PublishedFor(x, c)
        BY <4>1 DEF ClientInv
      <4>3. x.src = e.src => e.n < x.n
        BY <2>3, <2>5, <4>1 DEF Precedes
      <4> QED  BY <2>6, <2>8, <3>1, <3>3, <4>2, <4>3
    <3> QED  BY <3>2, <3>3
  <2>11. ASSUME NEW d \in Clients, NEW q \in Publishers
         PROVE  last'[d][q] <= sent[q] /\ (d \in pub[q].todo => last'[d][q] < sent[q])
    BY <2>7, <2>8 DEF ClientInv, PublishedFor
  <2> QED  BY <2>1, <2>9, <2>10, <2>11 DEF ClientInv
<1>7. CASE UNCHANGED <<pub, sent, last>> /\ \A c \in Clients : chan'[c] = chan[c]
  <2>1. \A e, d : PublishedFor(e, d)' <=> PublishedFor(e, d)
    BY <1>7 DEF PublishedFor
  <2> QED  BY <1>7, <2>1 DEF ClientInv
<1>8. ASSUME NEW c \in Clients, ClientStep(c)  PROVE ClientInv'
  <2>1. Subscribe(c) \/ ClientReceive(c) \/ UNCHANGED <<pub, sent, last, chan>>
    BY <1>8 DEF ClientStep, Unsubscribe, AddFilter, RemoveFilter, SetFilters, ghosts
  <2> QED  BY <1>5, <1>6, <1>7, <1>8, <2>1
<1>9. CASE HistoryStep \/ StopCancel \/ StopUnsubscribe \/ SessionStep \/ UNCHANGED vars
  <2>1. UNCHANGED <<pub, sent, last>>
    BY <1>9, HubAtRest DEF StopUnsubscribe, Unsubscribe, vars, ghosts
  <2>2. chan' = chan \/ chan' = [chan EXCEPT ![History] = Tail(chan[History])]
    BY <1>9 DEF HistoryStep, HistoryTake, HistoryCheck, HistoryTick, HistoryClosed, HistoryStop,
         HistoryDrainCheck, HistoryDrained, HistoryExit, StopCancel, StopUnsubscribe,
         Unsubscribe, SessionStep, vars
  <2>3. \A c \in Clients : chan'[c] = chan[c]
    BY <1>1, <2>2
  <2> QED  BY <1>7, <2>1, <2>3
<1> QED  BY <1>3, <1>4, <1>8, <1>9 DEF Next

---------------------------------------------------------------------------
(* The history's events *)

LEMMA LineTypes ==
    TypeOK => /\ stored \in Seq(Event) /\ hist.batch \in Seq(Event)
              /\ hist.hand \in Seq(Event) /\ chan[History] \in Seq(Event)
              /\ stored \o hist.batch \in Seq(Event)
              /\ hist.batch \o hist.hand \in Seq(Event)
              /\ Line \in Seq(Event)
              /\ skipped \subseteq Event /\ lost \subseteq Event /\ accepted \subseteq Event
BY HistoryTypes, Joining DEF TypeOK, Line

\* What a step of the goroutine must show: its account and that its hands are free.
LEMMA LineKept ==
    ASSUME LineInv, HandInv', UNCHANGED <<sent, pub, accepted>>,
           Handled(accepted, Line', skipped', lost')
    PROVE  LineInv'
BY DEF LineInv, PublishedFor

LEMMA PublishLine ==
    ASSUME TypeOK, WalkInv, LineInv, NEW p \in Publishers, NEW t \in Tables, Publish(p, t)
    PROVE  LineInv'
<1>1. UNCHANGED <<Line, skipped, lost, accepted>> /\ HandInv'
  BY DEF Publish, Line, HandInv, LineInv, ghosts
<1>2. \A e \in accepted : PublishedFor(e, History)'
  BY LineTypes, PublishedBefore DEF LineInv
<1> QED  BY <1>1, <1>2 DEF LineInv

LEMMA DeliverLine ==
    ASSUME TypeOK, WalkInv, LineInv, NEW p \in Publishers, NEW s \in Subscribers, Deliver(p, s)
    PROVE  LineInv'
<1>1. UNCHANGED <<stored, hist, skipped, lost, sent>> /\ s \in pub[p].todo /\ HandInv'
  BY DEF Deliver, HandInv, LineInv
<1>2. \A x \in accepted : PublishedFor(x, History)'
  BY LineTypes, VisitedBefore DEF LineInv
<1>3. PICK e \in Event : pub[p].event = <<e>> /\ e.src = p /\ e.n = sent[p]
  BY Visit
<1>4. <<e>> \in Seq(Event) /\ ToSet(<<e>>) = {e} /\ e.n \in Nat /\ s \notin pub'[p].todo
  <2>1. <<e>> \in Seq(Event)
    BY Joining
  <2>2. ToSet(<<e>>) = {e}
    BY <2>1, ToSetEvents
  <2> QED  BY <2>1, <2>2, Numbers, Visit
<1>5. CASE s = History /\ accepted' = accepted \cup {e} /\ chan'[History] = chan[History] \o <<e>>
  <2>1. Line' = Line \o <<e>>
    <3>1. Line' = ((stored \o hist.batch) \o hist.hand) \o (chan[History] \o <<e>>)
      BY <1>1, <1>5 DEF Line
    <3>2. (stored \o hist.batch) \o hist.hand \in Seq(Event) /\ chan[History] \in Seq(Event)
      BY LineTypes, Joining
    <3>3. PICK x, y, z \in Seq(Event) :
             x = (stored \o hist.batch) \o hist.hand /\ y = chan[History] /\ z = <<e>>
      BY <1>4, <3>2
    <3>4. (x \o y) \o z = x \o (y \o z)
      BY Joining
    <3> QED  BY <3>1, <3>3, <3>4 DEF Line
  <2>2. \A x \in accepted : x.src = e.src => x.n < e.n
    BY <1>1, <1>3, <1>5 DEF LineInv, PublishedFor
  <2>3. Handled(accepted', Line', skipped', lost')
    BY <1>1, <1>5, <2>1, <2>2, HandledGrows, LineTypes DEF LineInv
  <2>4. PublishedFor(e, History)'
    BY <1>1, <1>3, <1>4, <1>5 DEF PublishedFor
  <2> QED  BY <1>1, <1>2, <1>5, <2>3, <2>4 DEF LineInv
<1>6. CASE accepted' = accepted /\ chan'[History] = chan[History]
  BY <1>1, <1>2, <1>6 DEF LineInv, Line
<1>7. /\ chan \in [Subscribers -> Seq(Event)]
      /\ \/ chan' = chan /\ accepted' = accepted
         \/ /\ chan' = [chan EXCEPT ![s] = chan[s] \o <<e>>]
            /\ accepted' = IF s = History THEN accepted \cup {e} ELSE accepted
  BY <1>3, <1>4 DEF Deliver, TypeOK
<1>8. History \in Subscribers
  BY DEF Subscribers
<1> QED  BY <1>5, <1>6, <1>7, <1>8

LEMMA TakeLine ==
    ASSUME TypeOK, LineInv, NEW from \in {"select", "drain"}, NEW to \in {"check", "drainCheck"},
           HistoryTake(from, to)
    PROVE  LineInv'
<1>1. /\ chan[History] \in Seq(Event) /\ chan[History] # <<>> /\ hist.hand = <<>>
      /\ stored \o hist.batch \in Seq(Event) /\ chan \in [Subscribers -> Seq(Event)]
  BY LineTypes DEF HistoryTake, LineInv, HandInv, TypeOK
<1>2. PICK h, w : h = Head(chan[History]) /\ w = Tail(chan[History])
  OBVIOUS
<1>3. h \in Event /\ w \in Seq(Event) /\ <<h>> \o w = chan[History] /\ <<h>> \in Seq(Event)
  BY <1>1, <1>2, HeadFirst, Joining
<1>4. /\ hist'.batch = hist.batch /\ hist'.hand = <<h>> /\ hist'.stage = to
      /\ chan'[History] = w /\ stored' = stored
  BY <1>1, <1>2 DEF HistoryTake, TypeOK, Worker, Subscribers
<1>5. Line' = (stored \o hist.batch) \o (<<h>> \o w)
  <2>1. Line' = ((stored \o hist.batch) \o <<h>>) \o w
    BY <1>4 DEF Line
  <2>2. PICK x, y, z \in Seq(Event) : x = stored \o hist.batch /\ y = <<h>> /\ z = w
    BY <1>1, <1>3
  <2>3. (x \o y) \o z = x \o (y \o z)
    BY Joining
  <2> QED  BY <2>1, <2>2, <2>3
<1>6. Line = (stored \o hist.batch) \o chan[History]
  BY <1>1, Joining DEF Line
<1>7. Handled(accepted, Line', skipped', lost')
  BY <1>3, <1>5, <1>6 DEF HistoryTake, LineInv
<1> QED  BY <1>4, <1>7, LineKept DEF HistoryTake, Unaffected, HandInv

\* The account of a line whose part b is skipped, and of one that is flushed.
LEMMA CheckLine ==
    ASSUME TypeOK, LineInv, HistoryCheck
    PROVE  LineInv'
<1> DEFINE a == stored \o hist.batch
           w == chan[History]
           b == hist.batch \o hist.hand
<1>1. /\ a \in Seq(Event) /\ w \in Seq(Event) /\ b \in Seq(Event)
      /\ hist.hand \in Seq(Event) /\ hist.batch \in Seq(Event) /\ stored \in Seq(Event)
  BY LineTypes
<1>2. Line = (a \o hist.hand) \o w /\ Line = (stored \o b) \o w
  <2>1. PICK x, y, z \in Seq(Event) : x = stored /\ y = hist.batch /\ z = hist.hand
    BY <1>1
  <2>2. (x \o y) \o z = x \o (y \o z)
    BY Joining
  <2>3. a \o hist.hand = stored \o b
    BY <2>1, <2>2
  <2> QED  BY <2>3 DEF Line
<1>3. /\ UNCHANGED <<sent, pub, accepted, chan>> /\ HandInv'
      /\ hist'.hand = <<>>
  <2>1. UNCHANGED <<sent, pub, accepted, chan>>
    BY DEF HistoryCheck, Unaffected
  <2>2. hist \in Worker
    BY DEF TypeOK
  <2>3. hist'.hand = <<>>
    <3>1. CASE isPaused
      BY <2>2, <3>1 DEF HistoryCheck, Worker
    <3>2. CASE ~ isPaused
      <4>1. hist'.hand = <<>>
        BY <3>2 DEF HistoryCheck
      <4> QED  BY <4>1
    <3> QED  BY <3>1, <3>2
  <2> QED  BY <2>1, <2>3 DEF HandInv
<1>4. CASE isPaused
  <2>1. /\ stored' = stored /\ lost' = lost /\ skipped' = skipped \cup ToSet(hist.hand)
        /\ hist'.batch = hist.batch
    BY <1>4 DEF HistoryCheck, TypeOK, Worker
  <2>2. Line' = a \o w
    BY <1>1, <1>3, <2>1, Joining DEF Line
  <2>3. Handled(accepted, (a \o hist.hand) \o w, skipped, lost)
    BY <1>2 DEF LineInv
  <2>4. Handled(accepted, a \o w, skipped \cup ToSet(hist.hand), lost)
    BY <1>1, <2>3, HandledSkip
  <2> QED  BY <1>3, <2>1, <2>2, <2>4, LineKept
<1>5. CASE ~ isPaused /\ Len(b) >= BatchSize
  <2>1. Flush(b, cancelled) /\ skipped' = skipped /\ hist'.batch = <<>> /\ cancelled \in BOOLEAN
    BY <1>5 DEF HistoryCheck, TypeOK
  <2>2. Handled(accepted, (stored \o b) \o w, skipped, lost)
    BY <1>2 DEF LineInv
  <2>3. Handled(accepted, stored' \o w, skipped, lost') /\ stored' \in Seq(Event)
    BY <1>1, <2>1, <2>2, HandledFlush
  <2>4. Line' = stored' \o w
    BY <1>1, <1>3, <2>1, <2>3, Joining DEF Line
  <2> QED  BY <1>3, <2>1, <2>3, <2>4, LineKept
<1>6. CASE ~ isPaused /\ ~ (Len(b) >= BatchSize)
  <2>1. UNCHANGED <<stored, lost, skipped>> /\ hist' = [stage |-> "select", hand |-> <<>>, batch |-> b]
    BY <1>6 DEF HistoryCheck
  <2>2. Line' = (stored \o b) \o w
    <3>1. hist'.batch = b /\ hist'.hand = <<>> /\ stored' = stored /\ chan' = chan
      BY <1>3, <2>1
    <3>2. PICK x, y, z \in Seq(Event) : x = stored /\ y = b /\ z = w
      BY <1>1
    <3>3. x \o y \in Seq(Event)
      BY Joining
    <3>4. (x \o y) \o <<>> = x \o y
      BY <3>3, Joining
    <3> QED  BY <1>3, <3>1, <3>2, <3>4 DEF Line
  <2> QED  BY <1>2, <1>3, <2>1, <2>2, LineKept DEF LineInv
<1> QED  BY <1>4, <1>5, <1>6

\* A flush of the batch between two events: by the timer or at the exit.
LEMMA BatchLine ==
    ASSUME TypeOK, LineInv, hist.hand = <<>>, NEW dead \in BOOLEAN, Flush(hist.batch, dead),
           hist'.hand = <<>>, hist'.batch = <<>>, UNCHANGED <<Unaffected, chan, skipped>>
    PROVE  LineInv'
<1>1. chan[History] \in Seq(Event) /\ hist.batch \in Seq(Event) /\ stored \o hist.batch \in Seq(Event)
  BY LineTypes
<1>2. Handled(accepted, (stored \o hist.batch) \o chan[History], skipped, lost)
  BY <1>1, Joining DEF LineInv, Line
<1>3. Handled(accepted, stored' \o chan[History], skipped, lost') /\ stored' \in Seq(Event)
  BY <1>1, <1>2, HandledFlush
<1>4. Line' = stored' \o chan[History]
  BY <1>1, <1>3, Joining DEF Line
<1> QED  BY <1>3, <1>4, LineKept DEF Unaffected, HandInv

LEMMA DrainCheckLine ==
    ASSUME TypeOK, LineInv, HistoryDrainCheck
    PROVE  LineInv'
<1> DEFINE a == stored \o hist.batch
           w == chan[History]
           b == hist.batch \o hist.hand
<1>1. /\ a \in Seq(Event) /\ w \in Seq(Event) /\ b \in Seq(Event)
      /\ hist.hand \in Seq(Event) /\ hist.batch \in Seq(Event) /\ stored \in Seq(Event)
  BY LineTypes
<1>2. Line = (a \o hist.hand) \o w /\ Line = (stored \o b) \o w
  <2>1. PICK x, y, z \in Seq(Event) : x = stored /\ y = hist.batch /\ z = hist.hand
    BY <1>1
  <2>2. (x \o y) \o z = x \o (y \o z)
    BY Joining
  <2>3. a \o hist.hand = stored \o b
    BY <2>1, <2>2
  <2> QED  BY <2>3 DEF Line
<1>3. UNCHANGED <<sent, pub, accepted, chan, stored, lost>> /\ HandInv' /\ hist'.hand = <<>>
  <2>1. UNCHANGED <<sent, pub, accepted, chan, stored, lost>>
    BY DEF HistoryDrainCheck, Unaffected
  <2>2. hist \in Worker
    BY DEF TypeOK
  <2>3. hist'.hand = <<>>
    <3>1. CASE isPaused
      BY <2>2, <3>1 DEF HistoryDrainCheck, Worker
    <3>2. CASE ~ isPaused
      BY <3>2 DEF HistoryDrainCheck
    <3> QED  BY <3>1, <3>2
  <2> QED  BY <2>1, <2>3 DEF HandInv
<1>4. CASE isPaused
  <2>1. skipped' = skipped \cup ToSet(hist.hand) /\ hist'.batch = hist.batch
    BY <1>4 DEF HistoryDrainCheck, TypeOK, Worker
  <2>2. Line' = a \o w
    BY <1>1, <1>3, <2>1, Joining DEF Line
  <2>3. Handled(accepted, (a \o hist.hand) \o w, skipped, lost)
    BY <1>2 DEF LineInv
  <2>4. Handled(accepted, a \o w, skipped \cup ToSet(hist.hand), lost)
    BY <1>1, <2>3, HandledSkip
  <2> QED  BY <1>3, <2>1, <2>2, <2>4, LineKept
<1>5. CASE ~ isPaused
  <2>1. skipped' = skipped /\ hist' = [stage |-> "drain", hand |-> <<>>, batch |-> b]
    BY <1>5 DEF HistoryDrainCheck
  <2>2. Line' = (stored \o b) \o w
    <3>1. hist'.batch = b /\ hist'.hand = <<>> /\ stored' = stored /\ chan' = chan
      BY <1>3, <2>1
    <3>2. PICK x, y, z \in Seq(Event) : x = stored /\ y = b /\ z = w
      BY <1>1
    <3>3. x \o y \in Seq(Event)
      BY Joining
    <3>4. (x \o y) \o <<>> = x \o y
      BY <3>3, Joining
    <3> QED  BY <1>3, <3>1, <3>2, <3>4 DEF Line
  <2> QED  BY <1>2, <1>3, <2>1, <2>2, LineKept DEF LineInv
<1> QED  BY <1>4, <1>5

LEMMA HistoryLine ==
    ASSUME TypeOK, LineInv, HistoryStep
    PROVE  LineInv'
<1>1. hist \in Worker /\ cancelled \in BOOLEAN
  BY DEF TypeOK
<1>2. CASE HistoryTake("select", "check") \/ HistoryTake("drain", "drainCheck")
  BY <1>2, TakeLine
<1>3. CASE HistoryCheck \/ HistoryDrainCheck
  BY <1>3, CheckLine, DrainCheckLine
<1>4. CASE HistoryTick
  <2>1. hist.hand = <<>> /\ hist'.hand = <<>> /\ hist'.batch = <<>>
    BY <1>1, <1>4 DEF HistoryTick, LineInv, HandInv, Worker
  <2> QED  BY <1>1, <1>4, <2>1, BatchLine DEF HistoryTick
<1>5. CASE HistoryClosed \/ HistoryDrained
  <2>1. hist.hand = <<>> /\ hist'.hand = <<>> /\ hist'.batch = <<>>
    BY <1>1, <1>5 DEF HistoryClosed, HistoryDrained, HistoryExit, LineInv, HandInv, Worker
  <2> QED  BY <1>1, <1>5, <2>1, BatchLine DEF HistoryClosed, HistoryDrained, HistoryExit
<1>6. CASE HistoryStop
  <2>1. hist'.hand = hist.hand /\ hist'.batch = hist.batch /\ HandInv'
    BY <1>1, <1>6 DEF HistoryStop, LineInv, HandInv, Worker
  <2>2. Line' = Line
    BY <1>6, <2>1 DEF HistoryStop, Line
  <2> QED  BY <1>6, <2>1, <2>2, LineKept DEF HistoryStop, Unaffected, LineInv
<1> QED  BY <1>2, <1>3, <1>4, <1>5, <1>6 DEF HistoryStep

LEMMA LineStep ==
    ASSUME TypeOK, WalkInv, LineInv, [Next]_vars
    PROVE  LineInv'
<1>1. CASE /\ UNCHANGED <<stored, hist, sent, pub, accepted, skipped, lost>>
           /\ chan'[History] = chan[History]
  <2>1. Line' = Line /\ HandInv'
    BY <1>1 DEF Line, LineInv, HandInv
  <2> QED  BY <1>1, <2>1, LineKept DEF LineInv
<1>2. ASSUME NEW c \in Clients, ClientStep(c)  PROVE LineInv'
  <2>1. UNCHANGED <<stored, hist, sent, pub, accepted, skipped, lost>>
    BY <1>2 DEF ClientStep, Subscribe, Unsubscribe, ClientReceive, AddFilter, RemoveFilter,
                SetFilters, ghosts
  <2>2. \/ chan' = chan \/ chan' = [chan EXCEPT ![c] = <<>>]
        \/ chan' = [chan EXCEPT ![c] = Tail(chan[c])]
    BY <1>2 DEF ClientStep, Subscribe, Unsubscribe, ClientReceive, AddFilter, RemoveFilter, SetFilters
  <2>3. c # History /\ History \in Subscribers /\ chan \in [Subscribers -> Seq(Event)]
    BY HubConstants DEF HubConstants, Subscribers, TypeOK
  <2> QED  BY <1>1, <2>1, <2>2, <2>3
<1>3. CASE StopCancel \/ StopUnsubscribe \/ SessionStep \/ UNCHANGED vars
  BY <1>1, <1>3 DEF StopCancel, StopUnsubscribe, Unsubscribe, SessionStep, vars, ghosts
<1> QED  BY <1>2, <1>3, PublishLine, DeliverLine, HistoryLine DEF Next

---------------------------------------------------------------------------
(* The theorems *)

LEMMA HubInitially ==
    ASSUME Init
    PROVE  HubInv
<1>1. /\ <<>> \in Seq(Event) /\ Len(<<>>) = 0 /\ ToSet(<<>>) = {} /\ Ascending(<<>>)
      /\ BufferSize \in Nat /\ MaxEvents \in Nat /\ History \in Subscribers
      /\ NoWalk \in Walk /\ NoWalk.todo = {} /\ 0 \in 0..MaxEvents
  BY Nothing, Numbers DEF Subscribers, NoWalk, Walk
<1>2. chan \in [Subscribers -> Seq(Event)] /\ \A s \in Subscribers : chan[s] = <<>>
  BY <1>1 DEF Init
<1>3. filters \in [Subscribers -> SUBSET SUBSET Tables]
  BY <1>1 DEF Init
<1>4. hist \in Worker /\ hist.hand = <<>> /\ hist.batch = <<>>
  BY <1>1 DEF Init, Worker, Stages
<1>5. last \in [Clients -> [Publishers -> 0..MaxEvents]]
  BY <1>1 DEF Init
<1>6. TypeOK
  <2>1. subs \subseteq Subscribers /\ shut \subseteq Subscribers
    BY <1>1 DEF Init
  <2>2. pub \in [Publishers -> Walk] /\ sent \in [Publishers -> 0..MaxEvents]
    BY <1>1 DEF Init
  <2>3. \A s \in Subscribers : Len(chan[s]) <= BufferSize
    BY <1>1, <1>2
  <2> QED  BY <1>1, <1>2, <1>3, <1>4, <1>5, <2>1, <2>2, <2>3 DEF Init, TypeOK
<1>7. WalkInv
  BY <1>1 DEF Init, WalkInv, Publishing
<1>8. ClientInv
  BY <1>1, <1>2 DEF Init, ClientInv, Subscribers
<1>9. Line = <<>>
  BY <1>1, <1>2, <1>4, Joining DEF Init, Line
<1>10. LineInv
  BY <1>1, <1>4, <1>9, FS_EmptySet DEF Init, LineInv, HandInv, Handled
<1> QED  BY <1>6, <1>7, <1>8, <1>10 DEF HubInv

(* The inductive invariant: walks, client channels and the history's line  *)
(* stay as described, whatever the publishers, the clients, the sessions   *)
(* and the stop do (hub.go, ws.go, collector.go).                          *)
THEOREM HubInvariant == Spec => []HubInv
<1>1. HubInv /\ [Next]_vars => HubInv'
  BY TypeStep, WalkStep, ClientInvStep, LineStep DEF HubInv
<1> QED  BY <1>1, HubInitially, PTL DEF Spec

(* Publish never sends on a closed channel and never overfills one, for    *)
(* any number of publishers and clients (hub.go:128-155).                  *)
THEOREM ChannelsAreSound == Spec => []ChannelsHold
<1>1. HubInv => ChannelsHold
  BY DEF HubInv, WalkInv, ChannelsHold, NoSendOnClosed
<1> QED  BY <1>1, HubInvariant, PTL

(* Every event the history accepted is stored, skipped, lost or still in   *)
(* line, in exactly one of these places, and the stored ones are in the    *)
(* order of their publisher (collector.go:192-250).                        *)
THEOREM EventsAreHandled == Spec => []EventsHandled
<1>1. HubInv => EventsHandled
  BY HandledOnce, LineIsStoredFirst DEF HubInv, EventsHandled
<1> QED  BY <1>1, HubInvariant, PTL

(* No client goes back in the events of a publisher, however often it      *)
(* lags, leaves and comes again (hub.go:139-155, ws.go:110-123).           *)
THEOREM ClientsNeverGoBack == Spec => ClientsInOrder
<1> DEFINE Forward == \A c \in Clients, p \in Publishers : last'[c][p] >= last[c][p]
<1>1. ASSUME HubInv, [Next]_vars  PROVE [Forward]_vars
  <2>1. last \in [Clients -> [Publishers -> 0..MaxEvents]] /\ MaxEvents \in Nat
    BY <1>1, Numbers DEF HubInv, TypeOK
  <2>2. CASE UNCHANGED last
    BY <2>1, <2>2
  <2>3. ASSUME NEW c \in Clients, ClientReceive(c)  PROVE Forward
    <3> DEFINE e == Head(chan[c])
    <3>1. chan[c] \in Seq(Event) /\ chan[c] # <<>> /\ last' = [last EXCEPT ![c][e.src] = e.n]
      BY <1>1, <2>3 DEF HubInv, TypeOK, ClientReceive, Subscribers
    <3>2. e \in Event /\ e.src \in Publishers /\ e.n \in Nat /\ e \in ToSet(chan[c])
      <4>1. e = chan[c][1] /\ e \in Event /\ 1 \in DOMAIN chan[c]
        BY <3>1, HeadTailProperties, EmptySeq, LenProperties
      <4> QED  BY <4>1, Numbers DEF ToSet
    <3>3. last[c][e.src] < e.n
      BY <1>1, <3>2 DEF HubInv, ClientInv
    <3> HIDE DEF e
    <3>4. \A d \in Clients, p \in Publishers :
             last'[d][p] = IF d = c /\ p = e.src THEN e.n ELSE last[d][p]
      BY <2>1, <3>1, <3>2
    <3> QED  BY <2>1, <3>2, <3>3, <3>4
  <2>4. (\E c \in Clients : ClientReceive(c)) \/ UNCHANGED last
    <3>1. ASSUME NEW c \in Clients, ClientStep(c)  PROVE ClientReceive(c) \/ UNCHANGED last
      BY <3>1 DEF ClientStep, Subscribe, Unsubscribe, AddFilter, RemoveFilter, SetFilters, ghosts
    <3>2. ASSUME NEW p \in Publishers, NEW t \in Tables, Publish(p, t)  PROVE UNCHANGED last
      BY <3>2 DEF Publish, ghosts
    <3>3. ASSUME NEW p \in Publishers, NEW s \in Subscribers, Deliver(p, s)  PROVE UNCHANGED last
      BY <3>3 DEF Deliver
    <3>4. StopUnsubscribe \/ UNCHANGED vars => UNCHANGED last
      BY DEF StopUnsubscribe, Unsubscribe, vars, ghosts
    <3> QED  BY <1>1, <3>1, <3>2, <3>3, <3>4, HubAtRest DEF Next
  <2> QED  BY <2>2, <2>3, <2>4
<1> QED  BY <1>1, HubInvariant, PTL DEF Spec, ClientsInOrder

=============================================================================
