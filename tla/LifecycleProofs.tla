-------------------------- MODULE LifecycleProofs --------------------------
(***************************************************************************)
(* Proofs about the process around the core, for every number of requests, *)
(* addresses, chassis, clusters and endpoints: the HTTP chain with its     *)
(* throttle, the chassis pool, the propagation tracker, start-up and       *)
(* shutdown, the alert rules and webhooks, the database clients.           *)
(***************************************************************************)
EXTENDS Lifecycle, FiniteSetTheorems, FunctionTheorems, SequenceTheorems,
        WellFoundedInduction, TLAPS

---------------------------------------------------------------------------
(* The HTTP chain *)

Entry == [count : Nat, resets : Int]
CallRec == [stage : {"idle", "lookup", "serve", "done"}, ip : IPs \cup {"none"}, kind : Kinds,
            cred : {"none", "good", "bad"}, actor : {"none", "token"},
            status : {"none", "200", "401", "429", "500", "dropped"},
            counted : {"none", "200", "500"}]

\* Requests of address i that have passed the throttle and not yet failed or succeeded.
Pending(i) == {c \in Calls : call[c].stage = "lookup" /\ call[c].ip = i}

EntriesInv ==
    /\ entries \in [IPs -> Entry]
    /\ \A i \in IPs : entries[i] = NoEntry
                      \/ (entries[i].count >= 1 /\ entries[i].resets <= clock + AuthFailureWindow)
    /\ Cardinality(Tracked) <= AuthThrottleMaxIPs

CallsInv ==
    /\ call \in [Calls -> CallRec]
    /\ \A c \in Calls : call[c].stage = "lookup" => call[c].ip \in IPs

\* Who is past the check may still fail, so it counts as if it had.
ThrottleInv ==
    \A i \in IPs : entries[i].count + Cardinality(Pending(i))
                     <= AuthFailureLimit - 1 + Cardinality(Calls)

\* Entries and observation agree on the addresses whose window is open, and what
\* was compared in a window that is over stayed within the bound too.
WatchInv ==
    /\ wrong \in [IPs -> [n : Nat, from : Nat]]
    /\ \A i \in IPs : Live(i) <=> i \in Watched
    /\ \A i \in Watched : entries[i].count = wrong[i].n /\ entries[i].resets = wrong[i].from + AuthFailureWindow
    /\ GuessesBounded

HttpInv ==
    /\ clock \in Nat /\ EntriesInv /\ CallsInv /\ ThrottleInv /\ WatchInv
    /\ MutationsAreNamed /\ AnswersAreCounted

LEMMA HttpSettings ==
    /\ IsFiniteSet(Calls) /\ IsFiniteSet(IPs) /\ Cardinality(Calls) \in Nat
    /\ AuthFailureLimit \in Nat /\ AuthFailureLimit >= 1
    /\ AuthFailureWindow \in Nat /\ AuthFailureWindow >= 1
    /\ AuthThrottleMaxIPs \in Nat /\ AuthThrottleMaxIPs >= 1
<1>1. IsFiniteSet(Calls) /\ IsFiniteSet(IPs)
  BY HttpConstants
<1>2. Cardinality(Calls) \in Nat
  BY <1>1, FS_CardinalityType
<1>3. \A n \in {AuthFailureLimit, AuthFailureWindow, AuthThrottleMaxIPs} : n \in Nat /\ n >= 1
  BY HttpConstants
<1> QED BY <1>1, <1>2, <1>3

\* The part of a finite set is finite, and no larger.
LEMMA PartOf ==
    ASSUME NEW S, IsFiniteSet(S), NEW T \in SUBSET S
    PROVE  /\ IsFiniteSet(T) /\ Cardinality(T) \in Nat /\ Cardinality(S) \in Nat
           /\ Cardinality(T) <= Cardinality(S)
BY FS_Subset, FS_CardinalityType

LEMMA OneMore ==
    ASSUME NEW S, IsFiniteSet(S), NEW x
    PROVE  /\ IsFiniteSet(S \cup {x})
           /\ Cardinality(S \cup {x}) \in Nat /\ Cardinality(S) \in Nat
           /\ Cardinality(S \cup {x}) <= Cardinality(S) + 1
<1>1. Cardinality(S) \in Nat
  BY FS_CardinalityType
<1>2. CASE x \in S
  <2>1. S \cup {x} = S
    BY <1>2
  <2>2. IsFiniteSet(S \cup {x}) /\ Cardinality(S \cup {x}) = Cardinality(S)
    BY <2>1, Zenon
  <2> QED BY <1>1, <2>2
<1>3. CASE x \notin S
  <2>1. IsFiniteSet(S \cup {x}) /\ Cardinality(S \cup {x}) = Cardinality(S) + 1
    BY <1>3, FS_AddElement
  <2> QED BY <1>1, <2>1
<1> QED BY <1>2, <1>3

\* The tracking table after a failure: what stays, what is opened, and its size.
LEMMA FailKeepsTable ==
    ASSUME HttpInv, NEW i \in IPs, entries' = AfterFail(i), clock' = clock
    PROVE  /\ EntriesInv'
           /\ entries'[i].count <= entries[i].count + 1
           /\ \A j \in IPs \ {i} : entries'[j].count <= entries[j].count
<1>0. clock \in Nat /\ EntriesInv
  BY DEF HttpInv
<1> USE HttpSettings
<1>1. IsFiniteSet(Tracked) /\ Cardinality(Tracked) \in Nat /\ Cardinality(Tracked) <= AuthThrottleMaxIPs
  <2>1. Tracked \in SUBSET IPs
    BY DEF Tracked
  <2> QED BY <2>1, <1>0, PartOf DEF EntriesInv
<1>2. CASE i \in Tracked /\ Live(i)
  <2>1. entries' = [entries EXCEPT ![i] = [entries[i] EXCEPT !.count = entries[i].count + 1]]
    BY <1>2 DEF AfterFail
  <2>2. entries[i] \in Entry
    BY <1>0 DEF EntriesInv
  <2>3. /\ entries' \in [IPs -> Entry]
        /\ entries'[i].count = entries[i].count + 1 /\ entries'[i].resets = entries[i].resets
        /\ \A j \in IPs \ {i} : entries'[j] = entries[j]
    BY <1>0, <2>1, <2>2 DEF EntriesInv, Entry
  <2>4. entries'[i] # NoEntry /\ entries[i] # NoEntry
    BY <1>2, <2>2, <2>3 DEF Tracked, NoEntry, Entry
  <2>5. Tracked' = Tracked
    BY <2>3, <2>4 DEF Tracked
  <2>6. entries[i].count >= 1 /\ entries[i].resets <= clock + AuthFailureWindow
    BY <1>0, <2>4 DEF EntriesInv
  <2>7. entries[i].count \in Nat
    BY <2>2 DEF Entry
  <2>8. entries'[i].count >= 1 /\ entries'[i].resets <= clock' + AuthFailureWindow
    BY <2>3, <2>6, <2>7
  <2>9. \A j \in IPs : entries[j].count \in Nat
    BY <1>0 DEF EntriesInv, Entry
  <2>10. \A j \in IPs \ {i} : entries'[j].count <= entries[j].count
    BY <2>3, <2>9
  <2> QED BY <1>0, <1>1, <2>3, <2>5, <2>7, <2>8, <2>10 DEF EntriesInv
<1>3. CASE ~ (i \in Tracked /\ Live(i)) /\ Full
  <2>1. entries' = entries
    BY <1>3 DEF AfterFail
  <2>2. Tracked' = Tracked
    BY <2>1 DEF Tracked
  <2>3. \A j \in IPs : entries[j].count \in Nat
    BY <1>0 DEF EntriesInv, Entry
  <2>4. \A j \in IPs : entries'[j].count <= entries[j].count /\ entries[j].count <= entries[j].count + 1
    BY <2>1, <2>3
  <2>5. entries'[i].count <= entries[i].count + 1
    BY <2>1, <2>3
  <2> QED BY <1>0, <2>1, <2>2, <2>4, <2>5 DEF EntriesInv
<1>4. CASE ~ (i \in Tracked /\ Live(i)) /\ ~ Full
  <2>1. PICK room : /\ room = IF Cardinality(Tracked) >= AuthThrottleMaxIPs THEN Swept ELSE entries
                    /\ entries' = [room EXCEPT ![i] = [count |-> 1, resets |-> clock + AuthFailureWindow]]
    BY <1>4 DEF AfterFail
  <2>2. /\ room \in [IPs -> Entry]
        /\ \A j \in IPs : room[j] = entries[j] \/ room[j] = NoEntry
    BY <1>0, <2>1 DEF Swept, EntriesInv, Entry, NoEntry
  <2>3. /\ entries' \in [IPs -> Entry]
        /\ entries'[i] = [count |-> 1, resets |-> clock + AuthFailureWindow]
        /\ \A j \in IPs \ {i} : entries'[j] = room[j]
    BY <1>0, <2>1, <2>2 DEF Entry
  <2>4. \A j \in IPs : entries[j].count \in Nat /\ NoEntry.count = 0
    BY <1>0 DEF EntriesInv, Entry, NoEntry
  <2>5. \A j \in IPs \ {i} : entries'[j].count <= entries[j].count
    BY <2>2, <2>3, <2>4
  <2>6. entries'[i].count = 1 /\ entries'[i].resets = clock + AuthFailureWindow
    BY <2>3
  <2>7. entries'[i].count <= entries[i].count + 1
    BY <2>4, <2>6
  <2>8. \A j \in IPs : entries'[j] = NoEntry
                       \/ (entries'[j].count >= 1 /\ entries'[j].resets <= clock' + AuthFailureWindow)
    <3>1. ASSUME NEW j \in IPs \ {i}
          PROVE  entries'[j] = NoEntry
                 \/ (entries'[j].count >= 1 /\ entries'[j].resets <= clock' + AuthFailureWindow)
      BY <1>0, <2>2, <2>3 DEF EntriesInv
    <3>2. entries'[i].count >= 1 /\ entries'[i].resets <= clock' + AuthFailureWindow
      BY <1>0, <2>6
    <3> QED BY <3>1, <3>2
  <2>9. Cardinality(Tracked') <= AuthThrottleMaxIPs
    <3>1. CASE Cardinality(Tracked) < AuthThrottleMaxIPs
      <4>1. Tracked' \in SUBSET (Tracked \cup {i})
        BY <2>2, <2>3 DEF Tracked
      <4>2. Cardinality(Tracked') <= Cardinality(Tracked \cup {i}) /\ Cardinality(Tracked') \in Nat
        BY <4>1, <1>1, OneMore, PartOf
      <4> QED BY <4>2, <3>1, <1>1, OneMore
    <3>2. CASE Cardinality(Tracked) >= AuthThrottleMaxIPs
      <4>1. room = Swept /\ Swept # entries
        BY <1>4, <2>1, <3>2 DEF Full
      <4>2. PICK j \in IPs : Swept[j] # entries[j]
        BY <4>1, <1>0 DEF Swept, EntriesInv
      <4>3. Swept[j] = NoEntry /\ j \in Tracked
        BY <4>2 DEF Swept, Tracked
      <4>4. Tracked' \in SUBSET ((Tracked \ {j}) \cup {i})
        BY <2>2, <2>3, <4>1, <4>3 DEF Tracked
      <4>5. IsFiniteSet(Tracked \ {j}) /\ Cardinality(Tracked \ {j}) = Cardinality(Tracked) - 1
        BY <4>3, <1>1, FS_RemoveElement
      <4>6. /\ Cardinality(Tracked') <= Cardinality((Tracked \ {j}) \cup {i})
            /\ Cardinality(Tracked') \in Nat
        BY <4>4, <4>5, OneMore, PartOf
      <4>7. /\ Cardinality((Tracked \ {j}) \cup {i}) <= Cardinality(Tracked \ {j}) + 1
            /\ Cardinality((Tracked \ {j}) \cup {i}) \in Nat
        BY <4>5, OneMore
      <4> QED BY <4>5, <4>6, <4>7, <1>1
    <3> QED BY <3>1, <3>2, <1>1
  <2> QED BY <2>3, <2>5, <2>7, <2>8, <2>9 DEF EntriesInv
<1> QED BY <1>2, <1>3, <1>4

\* An entry that is dropped, by the check or after a success.
LEMMA DropKeepsTable ==
    ASSUME HttpInv, NEW i \in IPs, clock' = clock,
           entries' = entries \/ entries' = [entries EXCEPT ![i] = NoEntry]
    PROVE  /\ EntriesInv'
           /\ \A j \in IPs : entries'[j].count <= entries[j].count
<1>0. clock \in Nat /\ EntriesInv
  BY DEF HttpInv
<1>1. Tracked' \in SUBSET Tracked /\ Tracked \in SUBSET IPs
  BY <1>0 DEF Tracked, EntriesInv
<1>2. Cardinality(Tracked') <= AuthThrottleMaxIPs
  <2>1. IsFiniteSet(Tracked)
    BY <1>1, HttpSettings, PartOf
  <2>2. /\ Cardinality(Tracked') \in Nat /\ Cardinality(Tracked) \in Nat
        /\ Cardinality(Tracked') <= Cardinality(Tracked)
    BY <1>1, <2>1, PartOf
  <2> QED BY <1>0, <2>2, HttpSettings DEF EntriesInv
<1>3. entries' \in [IPs -> Entry] /\ \A j \in IPs : entries'[j] = entries[j] \/ entries'[j] = NoEntry
  BY <1>0 DEF EntriesInv, Entry, NoEntry
<1>4. \A j \in IPs : entries[j].count \in Nat /\ NoEntry.count = 0
  BY <1>0 DEF EntriesInv, Entry, NoEntry
<1>5. \A j \in IPs : entries'[j].count <= entries[j].count
  BY <1>3, <1>4
<1> QED BY <1>0, <1>2, <1>3, <1>5 DEF EntriesInv

\* The requests past the check, when one request moves on.
LEMMA PendingMoves ==
    ASSUME NEW c \in Calls, NEW q, call \in [Calls -> CallRec], call' = [call EXCEPT ![c] = q]
    PROVE  \A i \in IPs :
             /\ Pending(i)' \in SUBSET Calls /\ Cardinality(Pending(i)') \in Nat
             /\ Cardinality(Pending(i)) \in Nat /\ Cardinality(Pending(i)') <= Cardinality(Calls)
             /\ ~ (q.stage = "lookup" /\ q.ip = i) =>
                  /\ Cardinality(Pending(i)') <= Cardinality(Pending(i))
                  /\ call[c].stage = "lookup" /\ call[c].ip = i
                       => Cardinality(Pending(i)') = Cardinality(Pending(i)) - 1
<1> SUFFICES ASSUME NEW i \in IPs
             PROVE  /\ Pending(i)' \in SUBSET Calls /\ Cardinality(Pending(i)') \in Nat
                    /\ Cardinality(Pending(i)) \in Nat /\ Cardinality(Pending(i)') <= Cardinality(Calls)
                    /\ ~ (q.stage = "lookup" /\ q.ip = i) =>
                         /\ Cardinality(Pending(i)') <= Cardinality(Pending(i))
                         /\ call[c].stage = "lookup" /\ call[c].ip = i
                              => Cardinality(Pending(i)') = Cardinality(Pending(i)) - 1
  OBVIOUS
<1>1. Pending(i) \in SUBSET Calls /\ Pending(i)' \in SUBSET Calls
  BY DEF Pending
<1>2. /\ IsFiniteSet(Pending(i)) /\ Cardinality(Pending(i)) \in Nat
      /\ IsFiniteSet(Pending(i)') /\ Cardinality(Pending(i)') \in Nat
      /\ Cardinality(Pending(i)') <= Cardinality(Calls)
  BY <1>1, HttpSettings, PartOf
<1>3. ASSUME ~ (q.stage = "lookup" /\ q.ip = i)
      PROVE  Pending(i)' = Pending(i) \ {c}
  BY <1>3 DEF Pending
<1>4. ASSUME ~ (q.stage = "lookup" /\ q.ip = i)
      PROVE  Cardinality(Pending(i)') <= Cardinality(Pending(i))
  BY <1>2, <1>3, <1>4, PartOf
<1>5. ASSUME ~ (q.stage = "lookup" /\ q.ip = i), call[c].stage = "lookup", call[c].ip = i
      PROVE  Cardinality(Pending(i)') = Cardinality(Pending(i)) - 1
  <2>1. c \in Pending(i)
    BY <1>5 DEF Pending
  <2> QED BY <1>2, <1>3, <1>5, <2>1, FS_RemoveElement
<1> QED BY <1>1, <1>2, <1>4, <1>5

\* The other conjuncts of HttpInv after a step of request c to state q.
LEMMA CallMoves ==
    ASSUME HttpInv, NEW c \in Calls, NEW q \in CallRec, call' = [call EXCEPT ![c] = q],
           q.stage = "lookup" => q.ip \in IPs,
           q.stage = "serve" /\ q.kind = "mutate" => q.actor # "none",
           q.stage = "done" /\ q.status \notin {"401", "429"} =>
               q.counted = IF q.status = "dropped" THEN "none" ELSE q.status
    PROVE  CallsInv' /\ MutationsAreNamed' /\ AnswersAreCounted'
<1>1. call \in [Calls -> CallRec]
  BY DEF HttpInv, CallsInv
<1>2. call'[c] = q /\ \A d \in Calls \ {c} : call'[d] = call[d]
  BY <1>1
<1>3. CallsInv'
  BY <1>1, <1>2 DEF HttpInv, CallsInv
<1>4. MutationsAreNamed'
  BY <1>2 DEF HttpInv, MutationsAreNamed
<1>5. AnswersAreCounted'
  BY <1>2 DEF HttpInv, AnswersAreCounted
<1> QED BY <1>3, <1>4, <1>5

\* An entry dropped by the check was not live, so no window closes with it.
LEMMA WatchKept ==
    ASSUME HttpInv, UNCHANGED <<clock, wrong>>, entries' \in [IPs -> Entry],
           \A i \in IPs : entries'[i] = entries[i] \/ (entries'[i] = NoEntry /\ ~ Live(i))
    PROVE  WatchInv'
<1>1. clock \in Nat /\ WatchInv
  BY DEF HttpInv
<1>2. \A i \in IPs : (Live(i))' <=> Live(i)
  BY <1>1 DEF Live, NoEntry
<1>3. Watched' = Watched
  BY DEF Watched
<1>4. \A i \in Watched : i \in IPs /\ Live(i)
  BY <1>1 DEF WatchInv, Watched
<1> QED BY <1>1, <1>2, <1>3, <1>4 DEF WatchInv, GuessesBounded

\* A table without room is one full of open windows.
LEMMA FullIsWatched ==
    ASSUME HttpInv, NEW i \in IPs, i \notin Watched
    PROVE  Full <=> ~ (Cardinality(Watched) < AuthThrottleMaxIPs)
<1> USE HttpSettings
<1>1. clock \in Nat /\ EntriesInv /\ WatchInv
  BY DEF HttpInv
<1>2. Watched \in SUBSET Tracked /\ Tracked \in SUBSET IPs
  <2>1. \A j \in Watched : j \in IPs /\ Live(j)
    BY <1>1 DEF WatchInv, Watched
  <2>2. \A j \in IPs : Live(j) => entries[j] # NoEntry
    BY <1>1 DEF Live, NoEntry
  <2> QED BY <2>1, <2>2 DEF Tracked
<1>3. /\ IsFiniteSet(Tracked) /\ Cardinality(Tracked) \in Nat /\ Cardinality(Watched) \in Nat
      /\ Cardinality(Watched) <= Cardinality(Tracked) /\ Cardinality(Tracked) <= AuthThrottleMaxIPs
  <2>1. IsFiniteSet(Tracked)
    BY <1>2, PartOf
  <2> QED BY <1>1, <1>2, <2>1, PartOf DEF EntriesInv
<1>4. CASE Tracked = Watched
  <2>1. Swept = entries
    <3>1. \A j \in IPs : (IF Live(j) THEN entries[j] ELSE NoEntry) = entries[j]
      BY <1>1, <1>4 DEF WatchInv, Tracked
    <3> QED BY <1>1, <3>1 DEF Swept, EntriesInv
  <2> QED BY <1>3, <1>4, <2>1 DEF Full
<1>5. CASE Tracked # Watched
  <2>1. PICK j \in Tracked : j \notin Watched
    BY <1>2, <1>5
  <2>2. Swept # entries
    BY <1>1, <1>2, <2>1 DEF Swept, WatchInv, Tracked
  <2>3. Watched \in SUBSET (Tracked \ {j})
    BY <1>2, <2>1
  <2>4. IsFiniteSet(Tracked \ {j}) /\ Cardinality(Tracked \ {j}) = Cardinality(Tracked) - 1
    BY <1>3, <2>1, FS_RemoveElement
  <2>5. Cardinality(Watched) <= Cardinality(Tracked \ {j})
    BY <2>3, <2>4, PartOf
  <2> QED BY <1>3, <2>2, <2>4, <2>5 DEF Full
<1> QED BY <1>4, <1>5

\* A wrong credential: entries and observation count it, open a window for it, or
\* leave it out together.
LEMMA WrongIsCounted ==
    ASSUME HttpInv, NEW i \in IPs, clock' = clock, EntriesInv',
           entries' = AfterFail(i), wrong' = AfterWrong(i),
           entries'[i].count <= AuthFailureLimit + Cardinality(Calls) - 1
    PROVE  WatchInv'
<1> USE HttpSettings
<1>1. clock \in Nat /\ EntriesInv /\ WatchInv
  BY DEF HttpInv
<1>2. /\ wrong \in [IPs -> [n : Nat, from : Nat]] /\ entries \in [IPs -> Entry]
      /\ \A j \in IPs : Live(j) <=> j \in Watched
      /\ \A j \in Watched : entries[j].count = wrong[j].n /\ entries[j].resets = wrong[j].from + AuthFailureWindow
      /\ \A j \in IPs : wrong[j].n <= AuthFailureLimit + Cardinality(Calls) - 1
  BY <1>1 DEF WatchInv, EntriesInv, GuessesBounded
<1>3. \A j \in IPs : Live(j) => j \in Tracked
  BY <1>1 DEF Live, Tracked, NoEntry
<1>4. SUFFICES /\ wrong' \in [IPs -> [n : Nat, from : Nat]]
               /\ \A j \in IPs :
                    /\ (Live(j))' <=> j \in Watched'
                    /\ j \in Watched' => entries'[j].count = wrong'[j].n /\ entries'[j].resets = wrong'[j].from + AuthFailureWindow
                    /\ wrong'[j].n <= AuthFailureLimit + Cardinality(Calls) - 1
  BY DEF WatchInv, GuessesBounded, Watched
<1>5. CASE i \in Watched
  <2>1. /\ entries' = [entries EXCEPT ![i] = [entries[i] EXCEPT !.count = entries[i].count + 1]]
        /\ wrong' = [wrong EXCEPT ![i] = [n |-> wrong[i].n + 1, from |-> wrong[i].from]]
    BY <1>2, <1>3, <1>5 DEF AfterFail, AfterWrong
  <2>2. /\ wrong' \in [IPs -> [n : Nat, from : Nat]]
        /\ wrong'[i] = [n |-> wrong[i].n + 1, from |-> wrong[i].from]
        /\ \A j \in IPs \ {i} : wrong'[j] = wrong[j] /\ entries'[j] = entries[j]
    BY <1>2, <2>1
  <2>3. entries'[i].count = wrong'[i].n /\ entries'[i].resets = wrong'[i].from + AuthFailureWindow
    <3>1. entries'[i] = [entries[i] EXCEPT !.count = entries[i].count + 1]
      BY <1>2, <2>1
    <3>2. i \in IPs /\ entries[i] \in Entry
      BY <1>2
    <3>3. entries'[i].count = entries[i].count + 1 /\ entries'[i].resets = entries[i].resets
      BY <3>1, <3>2 DEF Entry
    <3>4. entries[i].count = wrong[i].n /\ entries[i].resets = wrong[i].from + AuthFailureWindow
      BY <1>2, <1>5
    <3>5. wrong'[i].n = wrong[i].n + 1 /\ wrong'[i].from = wrong[i].from
      BY <2>2
    <3> QED BY <3>3, <3>4, <3>5
  <2>4. (Live(i))' /\ i \in Watched'
    BY <1>1, <1>2, <1>5, <2>2, <2>3 DEF Live, Watched
  <2>5. \A j \in IPs \ {i} : ((Live(j))' <=> Live(j)) /\ (j \in Watched' <=> j \in Watched)
    BY <2>2 DEF Live, Watched
  <2>6. wrong'[i].n <= AuthFailureLimit + Cardinality(Calls) - 1
    BY <2>3
  <2>7. ASSUME NEW j \in IPs \ {i}
        PROVE  /\ (Live(j))' <=> j \in Watched'
               /\ j \in Watched' => entries'[j].count = wrong'[j].n /\ entries'[j].resets = wrong'[j].from + AuthFailureWindow
               /\ wrong'[j].n <= AuthFailureLimit + Cardinality(Calls) - 1
    BY <1>2, <2>2, <2>5
  <2> QED BY <2>2, <2>3, <2>4, <2>6, <2>7
<1>6. CASE i \notin Watched /\ Full
  <2>1. entries' = entries /\ wrong' = wrong
    BY <1>2, <1>6, FullIsWatched DEF AfterFail, AfterWrong
  <2>2. Watched' = Watched /\ \A j \in IPs : (Live(j))' <=> Live(j)
    BY <2>1 DEF Live, Watched
  <2>3. wrong' \in [IPs -> [n : Nat, from : Nat]]
    BY <1>2, <2>1
  <2>4. ASSUME NEW j \in IPs
        PROVE  /\ (Live(j))' <=> j \in Watched'
               /\ j \in Watched' => entries'[j].count = wrong'[j].n /\ entries'[j].resets = wrong'[j].from + AuthFailureWindow
               /\ wrong'[j].n <= AuthFailureLimit + Cardinality(Calls) - 1
    BY <1>2, <2>1, <2>2
  <2> QED BY <2>3, <2>4
<1>7. CASE i \notin Watched /\ ~ Full
  <2>1. /\ wrong' = [wrong EXCEPT ![i] = [n |-> 1, from |-> clock]]
        /\ ~ (i \in Tracked /\ Live(i))
    BY <1>2, <1>7, FullIsWatched DEF AfterWrong
  <2>2. PICK room : /\ room = IF Cardinality(Tracked) >= AuthThrottleMaxIPs THEN Swept ELSE entries
                    /\ entries' = [room EXCEPT ![i] = [count |-> 1, resets |-> clock + AuthFailureWindow]]
    BY <1>7, <2>1 DEF AfterFail
  <2>3. /\ room \in [IPs -> Entry]
        /\ \A j \in IPs : room[j] = entries[j] \/ (room[j] = NoEntry /\ ~ Live(j))
    BY <1>2, <2>2 DEF Swept, Entry, NoEntry
  <2>4. /\ wrong' \in [IPs -> [n : Nat, from : Nat]]
        /\ wrong'[i] = [n |-> 1, from |-> clock]
        /\ entries'[i] = [count |-> 1, resets |-> clock + AuthFailureWindow]
        /\ \A j \in IPs \ {i} : wrong'[j] = wrong[j] /\ entries'[j] = room[j]
    BY <1>1, <1>2, <2>1, <2>2, <2>3
  <2>5. (Live(i))' /\ i \in Watched'
    BY <1>1, <2>4 DEF Live, Watched
  <2>6. \A j \in IPs \ {i} : ((Live(j))' <=> Live(j)) /\ (j \in Watched' <=> j \in Watched)
    BY <1>1, <2>3, <2>4 DEF Live, Watched, NoEntry
  <2>7. ASSUME NEW j \in IPs \ {i}
        PROVE  /\ (Live(j))' <=> j \in Watched'
               /\ j \in Watched' => entries'[j].count = wrong'[j].n /\ entries'[j].resets = wrong'[j].from + AuthFailureWindow
               /\ wrong'[j].n <= AuthFailureLimit + Cardinality(Calls) - 1
    BY <1>2, <2>3, <2>4, <2>6
  <2>8. wrong'[i].n <= AuthFailureLimit + Cardinality(Calls) - 1
    BY <2>4
  <2> QED BY <2>4, <2>5, <2>7, <2>8
<1> QED BY <1>5, <1>6, <1>7

\* A success drops the entry and starts the count anew.
LEMMA SuccessStartsAnew ==
    ASSUME HttpInv, NEW i \in IPs, clock' = clock,
           entries' = [entries EXCEPT ![i] = NoEntry],
           wrong' = [wrong EXCEPT ![i] = [n |-> 0, from |-> 0]]
    PROVE  WatchInv'
<1> USE HttpSettings
<1>1. clock \in Nat /\ EntriesInv /\ WatchInv
  BY DEF HttpInv
<1>2. /\ wrong' \in [IPs -> [n : Nat, from : Nat]]
      /\ wrong'[i] = [n |-> 0, from |-> 0] /\ entries'[i] = NoEntry
      /\ \A j \in IPs \ {i} : wrong'[j] = wrong[j] /\ entries'[j] = entries[j]
  BY <1>1 DEF WatchInv, EntriesInv
<1>3. ~ (Live(i))' /\ i \notin Watched'
  BY <1>1, <1>2 DEF Live, Watched, NoEntry
<1>4. \A j \in IPs \ {i} : ((Live(j))' <=> Live(j)) /\ (j \in Watched' <=> j \in Watched)
  BY <1>2 DEF Live, Watched
<1>5. GuessesBounded'
  BY <1>1, <1>2 DEF WatchInv, GuessesBounded
<1>6. \A j \in Watched' : j \in IPs \ {i}
  BY <1>3 DEF Watched
<1> QED BY <1>1, <1>2, <1>3, <1>4, <1>5, <1>6 DEF WatchInv

LEMMA HttpArrive ==
    ASSUME HttpInv, NEW c \in Calls, NEW i \in IPs, NEW k \in Kinds, NEW cr \in {"good", "bad"},
           Arrive(c, i, k, cr)
    PROVE  HttpInv'
<1>0. clock \in Nat /\ clock' = clock /\ wrong' = wrong /\ EntriesInv /\ CallsInv /\ ThrottleInv
  BY DEF HttpInv, Arrive
<1>1. PICK q : q = [NoCall EXCEPT !.ip = i, !.kind = k, !.cred = cr]
  OBVIOUS
<1>2. /\ q.ip = i /\ q.kind = k /\ q.cred = cr /\ q.stage = "idle"
      /\ q.actor = "none" /\ q.status = "none" /\ q.counted = "none" /\ q \in CallRec
  BY <1>1 DEF NoCall, CallRec
<1>3. CASE ~ requiresAuth(k)
  <2>1. PICK r : r = [q EXCEPT !.stage = "serve"]
    OBVIOUS
  <2>2. call' = [call EXCEPT ![c] = r] /\ entries' = entries
    BY <1>1, <1>3, <2>1 DEF Arrive
  <2>3. r \in CallRec /\ r.stage = "serve" /\ r.kind = k
    BY <1>2, <2>1 DEF CallRec
  <2>4. k # "mutate"
    BY <1>3 DEF requiresAuth
  <2>5. CallsInv' /\ MutationsAreNamed' /\ AnswersAreCounted'
    BY <2>2, <2>3, <2>4, CallMoves
  <2>6. EntriesInv' /\ \A j \in IPs : entries'[j].count <= entries[j].count
    BY <1>0, <2>2, DropKeepsTable
  <2>7. ThrottleInv'
    <3> SUFFICES ASSUME NEW j \in IPs
                 PROVE  entries'[j].count + Cardinality(Pending(j)') <= AuthFailureLimit - 1 + Cardinality(Calls)
      BY DEF ThrottleInv
    <3>1. /\ Cardinality(Pending(j)') <= Cardinality(Pending(j))
          /\ Cardinality(Pending(j)') \in Nat /\ Cardinality(Pending(j)) \in Nat
      BY <1>0, <2>2, <2>3, PendingMoves DEF CallsInv
    <3>2. entries'[j].count = entries[j].count /\ entries[j].count \in Nat
      BY <1>0, <2>2 DEF EntriesInv, Entry
    <3> QED BY <1>0, <3>1, <3>2, HttpSettings DEF ThrottleInv
  <2>8. WatchInv'
    BY <1>0, <2>2, WatchKept DEF EntriesInv
  <2> QED BY <1>0, <2>5, <2>6, <2>7, <2>8 DEF HttpInv
<1>4. CASE requiresAuth(k)
  <2>1. /\ entries' = AfterBlocked(i)
        /\ call' = [call EXCEPT ![c] = IF Blocked(i) THEN [q EXCEPT !.stage = "done", !.status = "429"]
                                       ELSE [q EXCEPT !.stage = "lookup"]]
    BY <1>1, <1>4 DEF Arrive
  <2>2. EntriesInv' /\ \A j \in IPs : entries'[j].count <= entries[j].count
    BY <1>0, <2>1, DropKeepsTable DEF AfterBlocked
  <2>3. \A j \in IPs : entries'[j].count \in Nat /\ entries[j].count \in Nat
    BY <1>0, <2>2 DEF EntriesInv, Entry
  <2>6. WatchInv'
    <3>1. entries' \in [IPs -> Entry]
      BY <2>2 DEF EntriesInv
    <3>2. \A j \in IPs : entries'[j] = entries[j] \/ (entries'[j] = NoEntry /\ ~ Live(j))
      BY <1>0, <2>1 DEF AfterBlocked, EntriesInv
    <3> QED BY <1>0, <3>1, <3>2, WatchKept
  <2>4. CASE Blocked(i)
    <3>1. PICK r : r = [q EXCEPT !.stage = "done", !.status = "429"]
      OBVIOUS
    <3>2. call' = [call EXCEPT ![c] = r]
      BY <2>1, <2>4, <3>1
    <3>3. r \in CallRec /\ r.stage = "done" /\ r.status = "429"
      BY <1>2, <3>1 DEF CallRec
    <3>4. CallsInv' /\ MutationsAreNamed' /\ AnswersAreCounted'
      BY <3>2, <3>3, CallMoves
    <3>5. ThrottleInv'
      <4> SUFFICES ASSUME NEW j \in IPs
                   PROVE  entries'[j].count + Cardinality(Pending(j)') <= AuthFailureLimit - 1 + Cardinality(Calls)
        BY DEF ThrottleInv
      <4>1. /\ Cardinality(Pending(j)') <= Cardinality(Pending(j))
            /\ Cardinality(Pending(j)') \in Nat /\ Cardinality(Pending(j)) \in Nat
        BY <1>0, <3>2, <3>3, PendingMoves DEF CallsInv
      <4> QED BY <1>0, <2>2, <2>3, <4>1, HttpSettings DEF ThrottleInv
    <3> QED BY <1>0, <2>2, <2>6, <3>4, <3>5 DEF HttpInv
  <2>5. CASE ~ Blocked(i)
    <3>1. PICK r : r = [q EXCEPT !.stage = "lookup"]
      OBVIOUS
    <3>2. call' = [call EXCEPT ![c] = r]
      BY <2>1, <2>5, <3>1
    <3>3. r \in CallRec /\ r.stage = "lookup" /\ r.ip = i
      BY <1>2, <3>1 DEF CallRec
    <3>4. CallsInv' /\ MutationsAreNamed' /\ AnswersAreCounted'
      BY <3>2, <3>3, CallMoves
    <3>5. entries'[i].count <= AuthFailureLimit - 1
      <4>1. CASE i \in Tracked /\ Live(i)
        <5>1. entries[i].count < AuthFailureLimit
          BY <2>3, <2>5, <4>1, HttpSettings DEF Blocked, Locked
        <5> QED BY <2>2, <2>3, <5>1, HttpSettings
      <4>2. CASE ~ (i \in Tracked /\ Live(i))
        <5>1. entries'[i] = NoEntry
          BY <1>0, <2>1, <4>2 DEF AfterBlocked, Tracked, EntriesInv
        <5> QED BY <5>1, HttpSettings DEF NoEntry
      <4> QED BY <4>1, <4>2
    <3>6. ThrottleInv'
      <4> SUFFICES ASSUME NEW j \in IPs
                   PROVE  entries'[j].count + Cardinality(Pending(j)') <= AuthFailureLimit - 1 + Cardinality(Calls)
        BY DEF ThrottleInv
      <4>1. /\ Cardinality(Pending(j)') <= Cardinality(Calls)
            /\ j # i => Cardinality(Pending(j)') <= Cardinality(Pending(j))
            /\ Cardinality(Pending(j)') \in Nat /\ Cardinality(Pending(j)) \in Nat
        BY <1>0, <3>2, <3>3, PendingMoves DEF CallsInv
      <4>2. CASE j = i
        BY <2>3, <3>5, <4>1, <4>2, HttpSettings
      <4>3. CASE j # i
        BY <1>0, <2>2, <2>3, <4>1, <4>3, HttpSettings DEF ThrottleInv
      <4> QED BY <4>2, <4>3
    <3> QED BY <1>0, <2>2, <2>6, <3>4, <3>6 DEF HttpInv
  <2> QED BY <2>4, <2>5
<1> QED BY <1>3, <1>4

LEMMA HttpLookup ==
    ASSUME HttpInv, NEW c \in Calls, Lookup(c)
    PROVE  HttpInv'
<1>0. clock \in Nat /\ clock' = clock /\ EntriesInv /\ CallsInv /\ ThrottleInv
  BY DEF HttpInv, Lookup
<1>1. PICK q : q = call[c]
  OBVIOUS
<1>2. q \in CallRec /\ q.stage = "lookup" /\ q.ip \in IPs
  BY <1>0, <1>1 DEF Lookup, CallsInv
<1>3. PICK r \in CallRec :
        /\ call' = [call EXCEPT ![c] = r]
        /\ \/ r.stage = "serve" /\ r.actor = "token"
           \/ r.stage = "done" /\ r.status = "401"
  <2>1. CASE q.cred = "good"
    <3>1. call' = [call EXCEPT ![c] = [q EXCEPT !.stage = "serve", !.actor = "token"]]
      BY <1>1, <2>1 DEF Lookup
    <3>2. PICK r : r = [q EXCEPT !.stage = "serve", !.actor = "token"]
      OBVIOUS
    <3>3. r \in CallRec /\ r.stage = "serve" /\ r.actor = "token"
      BY <1>2, <3>2 DEF CallRec
    <3> QED BY <3>1, <3>2, <3>3
  <2>2. CASE q.cred # "good"
    <3>1. call' = [call EXCEPT ![c] = [q EXCEPT !.stage = "done", !.status = "401"]]
      BY <1>1, <2>2 DEF Lookup
    <3>2. PICK r : r = [q EXCEPT !.stage = "done", !.status = "401"]
      OBVIOUS
    <3>3. r \in CallRec /\ r.stage = "done" /\ r.status = "401"
      BY <1>2, <3>2 DEF CallRec
    <3> QED BY <3>1, <3>2, <3>3
  <2> QED BY <2>1, <2>2
<1>4. CallsInv' /\ MutationsAreNamed' /\ AnswersAreCounted'
  BY <1>3, CallMoves
<1>5. /\ EntriesInv'
      /\ entries'[q.ip].count <= entries[q.ip].count + 1
      /\ \A j \in IPs \ {q.ip} : entries'[j].count <= entries[j].count
  <2>1. CASE q.cred = "good"
    <3>1. entries' = [entries EXCEPT ![q.ip] = NoEntry]
      BY <1>1, <2>1 DEF Lookup
    <3>2. EntriesInv' /\ \A j \in IPs : entries'[j].count <= entries[j].count
      BY <1>0, <1>2, <3>1, DropKeepsTable
    <3>3. entries'[q.ip].count \in Nat /\ entries[q.ip].count \in Nat
      BY <1>0, <1>2, <3>2 DEF EntriesInv, Entry
    <3> QED BY <1>2, <3>2, <3>3
  <2>2. CASE q.cred # "good"
    <3>1. entries' = AfterFail(q.ip)
      BY <1>1, <2>2 DEF Lookup
    <3> QED BY <1>0, <1>2, <3>1, FailKeepsTable
  <2> QED BY <2>1, <2>2
<1>6. \A j \in IPs : entries'[j].count \in Nat /\ entries[j].count \in Nat
  BY <1>0, <1>5 DEF EntriesInv, Entry
<1>7. ThrottleInv'
  <2> SUFFICES ASSUME NEW j \in IPs
               PROVE  entries'[j].count + Cardinality(Pending(j)') <= AuthFailureLimit - 1 + Cardinality(Calls)
    BY DEF ThrottleInv
  <2>1. /\ Cardinality(Pending(j)') <= Cardinality(Pending(j))
        /\ j = q.ip => Cardinality(Pending(j)') = Cardinality(Pending(j)) - 1
        /\ Cardinality(Pending(j)') \in Nat /\ Cardinality(Pending(j)) \in Nat
    BY <1>0, <1>1, <1>2, <1>3, PendingMoves DEF CallsInv
  <2>2. entries[j].count + Cardinality(Pending(j)) <= AuthFailureLimit - 1 + Cardinality(Calls)
    BY <1>0 DEF ThrottleInv
  <2>3. CASE j = q.ip
    BY <1>5, <1>6, <2>1, <2>2, <2>3, HttpSettings
  <2>4. CASE j # q.ip
    BY <1>5, <1>6, <2>1, <2>2, <2>4, HttpSettings
  <2> QED BY <2>3, <2>4
<1>8. WatchInv'
  <2>1. CASE q.cred = "good"
    <3>1. /\ entries' = [entries EXCEPT ![q.ip] = NoEntry]
          /\ wrong' = [wrong EXCEPT ![q.ip] = [n |-> 0, from |-> 0]]
      BY <1>1, <2>1 DEF Lookup
    <3> QED BY <1>0, <1>2, <3>1, SuccessStartsAnew
  <2>2. CASE q.cred # "good"
    <3>1. entries' = AfterFail(q.ip) /\ wrong' = AfterWrong(q.ip)
      BY <1>1, <2>2 DEF Lookup
    <3>2. Cardinality(Pending(q.ip)') \in Nat
      BY <1>0, <1>2, <1>3, PendingMoves DEF CallsInv
    <3>3. entries'[q.ip].count + Cardinality(Pending(q.ip)') <= AuthFailureLimit - 1 + Cardinality(Calls)
      BY <1>2, <1>7 DEF ThrottleInv
    <3>4. entries'[q.ip].count <= AuthFailureLimit + Cardinality(Calls) - 1
      BY <1>2, <1>6, <3>2, <3>3, HttpSettings
    <3> QED BY <1>0, <1>2, <1>5, <3>1, <3>4, WrongIsCounted
  <2> QED BY <2>1, <2>2
<1> QED BY <1>0, <1>4, <1>5, <1>7, <1>8 DEF HttpInv

LEMMA HttpAnswers ==
    ASSUME HttpInv, NEW c \in Calls,
           Finish(c) \/ \E o \in {"200", "panic", "abort"} : Handle(c, o)
    PROVE  HttpInv'
<1>0. clock \in Nat /\ EntriesInv /\ CallsInv /\ ThrottleInv /\ clock' = clock /\ entries' = entries /\ wrong' = wrong
  BY DEF HttpInv, Finish, Handle
<1>1. PICK r \in CallRec :
        /\ call' = [call EXCEPT ![c] = r]
        /\ \/ r.stage = "idle"
           \/ r.stage = "done" /\ r.counted = IF r.status = "dropped" THEN "none" ELSE r.status
  <2>1. CASE Finish(c)
    <3>1. NoCall \in CallRec /\ NoCall.stage = "idle"
      BY DEF NoCall, CallRec, Kinds
    <3> QED BY <2>1, <3>1 DEF Finish
  <2>2. CASE \E o \in {"200", "panic", "abort"} : Handle(c, o)
    <3>1. PICK o \in {"200", "panic", "abort"} : Handle(c, o)
      BY <2>2
    <3>2. call[c] \in CallRec
      BY <1>0 DEF CallsInv
    <3>3. Outward(o) = IF o = "panic" THEN [out |-> "500", counted |-> "500"]
                       ELSE IF o = "200" THEN [out |-> "200", counted |-> "200"]
                       ELSE [out |-> "abort", counted |-> "none"]
      <4>1. Wrappers[1] = "recover" /\ Wrappers[2] = "metrics" /\ Wrappers[3] = "deadline" /\ Wrappers[4] = "auth"
        BY DEF Wrappers
      <4>2. \A acc : Through("deadline", acc) = acc /\ Through("auth", acc) = acc
        BY DEF Through
      <4>3. Outward(o) = Through("metrics", Through("recover", [out |-> o, counted |-> "none"]))
        BY <4>1, <4>2 DEF Outward
      <4>4. Through("recover", [out |-> o, counted |-> "none"])
              = IF o = "panic" THEN [out |-> "500", counted |-> "none"] ELSE [out |-> o, counted |-> "none"]
        BY DEF Through
      <4>5. CASE o = "panic"
        BY <4>3, <4>4, <4>5 DEF Through
      <4>6. CASE o = "200"
        BY <4>3, <4>4, <4>6 DEF Through
      <4>7. CASE o = "abort"
        BY <4>3, <4>4, <4>7 DEF Through
      <4> QED BY <4>5, <4>6, <4>7
    <3>4. PICK p : p = Outward(o)
      OBVIOUS
    <3>5. PICK r : r = [call[c] EXCEPT !.stage = "done", !.counted = p.counted,
                         !.status = IF p.out \in {"panic", "abort"} THEN "dropped" ELSE p.out]
      OBVIOUS
    <3>6. call' = [call EXCEPT ![c] = r]
      BY <3>1, <3>4, <3>5 DEF Handle
    <3>7. /\ p.counted \in {"none", "200", "500"}
          /\ p.out \in {"200", "500", "abort"}
          /\ p.counted = IF p.out = "abort" THEN "none" ELSE p.out
      BY <3>3, <3>4
    <3>8. /\ r.stage = "done" /\ r.counted = p.counted
          /\ r.status = IF p.out = "abort" THEN "dropped" ELSE p.out
      BY <3>2, <3>5, <3>7 DEF CallRec
    <3>9. r \in CallRec
      BY <3>2, <3>5, <3>7, ZenonT(30) DEF CallRec
    <3>10. r.counted = IF r.status = "dropped" THEN "none" ELSE r.status
      BY <3>7, <3>8
    <3> QED BY <3>6, <3>8, <3>9, <3>10
  <2> QED BY <2>1, <2>2
<1>2. CallsInv' /\ MutationsAreNamed' /\ AnswersAreCounted'
  BY <1>1, CallMoves
<1>3. EntriesInv'
  BY <1>0 DEF EntriesInv, Tracked
<1>4. ThrottleInv'
  <2> SUFFICES ASSUME NEW j \in IPs
               PROVE  entries'[j].count + Cardinality(Pending(j)') <= AuthFailureLimit - 1 + Cardinality(Calls)
    BY DEF ThrottleInv
  <2>1. /\ Cardinality(Pending(j)') <= Cardinality(Pending(j))
        /\ Cardinality(Pending(j)') \in Nat /\ Cardinality(Pending(j)) \in Nat
    BY <1>0, <1>1, PendingMoves DEF CallsInv
  <2>2. entries'[j].count = entries[j].count /\ entries[j].count \in Nat
    BY <1>0 DEF EntriesInv, Entry
  <2> QED BY <1>0, <2>1, <2>2, HttpSettings DEF ThrottleInv
<1>5. WatchInv'
  BY <1>0, WatchKept DEF EntriesInv
<1> QED BY <1>0, <1>2, <1>3, <1>4, <1>5 DEF HttpInv

(* The inductive invariant of the HTTP chain (auth.go, recover.go): what a *)
(* request past the throttle may still add is part of the count.           *)
THEOREM HttpInvariant == HttpSpec => []HttpInv
<1>1. HttpInit => HttpInv
  <2> SUFFICES ASSUME HttpInit PROVE HttpInv
    OBVIOUS
  <2>1. NoCall \in CallRec /\ NoCall.stage = "idle" /\ NoEntry \in Entry /\ NoEntry.count = 0
    BY DEF NoCall, CallRec, Kinds, NoEntry, Entry
  <2>2. /\ clock = 0 /\ entries \in [IPs -> Entry] /\ call \in [Calls -> CallRec]
        /\ \A i \in IPs : entries[i] = NoEntry
        /\ \A c \in Calls : call[c] = NoCall
    BY <2>1 DEF HttpInit
  <2>3. Tracked = {} /\ \A i \in IPs : Pending(i) = {}
    BY <2>1, <2>2 DEF Tracked, Pending
  <2>4. Cardinality({}) = 0
    BY FS_EmptySet
  <2>5. EntriesInv
    BY <2>2, <2>3, <2>4, HttpSettings DEF EntriesInv
  <2>6. ThrottleInv
    BY <2>1, <2>2, <2>3, <2>4, HttpSettings DEF ThrottleInv
  <2>7. CallsInv /\ MutationsAreNamed /\ AnswersAreCounted
    BY <2>1, <2>2 DEF CallsInv, MutationsAreNamed, AnswersAreCounted
  <2>8. WatchInv
    <3>1. wrong = [i \in IPs |-> [n |-> 0, from |-> 0]]
      BY DEF HttpInit
    <3>2. Watched = {}
      BY <3>1 DEF Watched
    <3>3. \A i \in IPs : ~ Live(i)
      BY <2>2 DEF Live, NoEntry
    <3>4. \A i \in IPs : wrong[i].n = 0
      BY <3>1
    <3>5. GuessesBounded
      BY <3>4, HttpSettings DEF GuessesBounded
    <3> QED BY <3>1, <3>2, <3>3, <3>5 DEF WatchInv
  <2> QED BY <2>2, <2>5, <2>6, <2>7, <2>8 DEF HttpInv
<1>2. HttpInv /\ [HttpNext]_httpVars => HttpInv'
  <2> SUFFICES ASSUME HttpInv, [HttpNext]_httpVars PROVE HttpInv'
    OBVIOUS
  <2>1. CASE UNCHANGED httpVars
    <3>1. UNCHANGED <<clock, entries, call, wrong>>
      BY <2>1 DEF httpVars
    <3>2. WatchInv'
      BY <3>1, WatchKept DEF HttpInv, EntriesInv
    <3> QED BY <3>1, <3>2 DEF HttpInv, EntriesInv, CallsInv, ThrottleInv, Tracked, Pending,
                  MutationsAreNamed, AnswersAreCounted
  <2>2. CASE Second
    <3>1. clock \in Nat /\ clock' = clock + 1 /\ entries' = entries /\ call' = call /\ wrong' = wrong
      BY <2>2 DEF Second, HttpInv
    <3>2. ThrottleInv' /\ CallsInv' /\ MutationsAreNamed' /\ AnswersAreCounted'
      BY <3>1 DEF HttpInv, CallsInv, ThrottleInv, Pending, MutationsAreNamed, AnswersAreCounted
    <3>3. \A i \in IPs : entries[i].resets \in Int
      BY DEF HttpInv, EntriesInv, Entry
    <3>4. EntriesInv'
      BY <3>1, <3>3, HttpSettings DEF HttpInv, EntriesInv, Tracked
    <3>5. WatchInv'
      <4>1. WatchInv /\ EntriesInv
        BY DEF HttpInv
      <4>2. \A i \in IPs : entries[i].resets \in Int /\ wrong[i].from \in Nat
        BY <3>3, <4>1 DEF WatchInv
      <4>3. \A i \in Watched : i \in IPs /\ entries[i].resets = wrong[i].from + AuthFailureWindow
        BY <4>1 DEF WatchInv, Watched
      <4>4. \A i \in Watched' : i \in Watched
        <5> SUFFICES ASSUME NEW i \in Watched' PROVE i \in Watched
          OBVIOUS
        <5>1. i \in IPs /\ wrong[i].n > 0 /\ clock + 1 < wrong[i].from + AuthFailureWindow
          BY <3>1 DEF Watched
        <5>2. clock < wrong[i].from + AuthFailureWindow
          BY <3>1, <4>2, <5>1, HttpSettings
        <5> QED BY <5>1, <5>2 DEF Watched
      <4>5. \A i \in IPs : (Live(i))' <=> i \in Watched'
        <5> SUFFICES ASSUME NEW i \in IPs PROVE (Live(i))' <=> i \in Watched'
          OBVIOUS
        <5>1. CASE i \in Watched
          BY <3>1, <4>3, <5>1 DEF Live, Watched
        <5>2. CASE i \notin Watched
          <6>1. ~ Live(i)
            BY <4>1, <5>2 DEF WatchInv
          <6>2. ~ (Live(i))'
            BY <3>1, <4>2, <6>1 DEF Live
          <6> QED BY <4>4, <5>2, <6>2
        <5> QED BY <5>1, <5>2
      <4> QED BY <3>1, <4>1, <4>4, <4>5 DEF WatchInv, GuessesBounded
    <3> QED BY <3>1, <3>2, <3>4, <3>5 DEF HttpInv
  <2>3. ASSUME NEW c \in Calls, NEW i \in IPs, NEW k \in Kinds, NEW cr \in {"good", "bad"},
               Arrive(c, i, k, cr)
        PROVE  HttpInv'
    BY <2>3, HttpArrive
  <2>4. ASSUME NEW c \in Calls, Lookup(c) PROVE HttpInv'
    BY <2>4, HttpLookup
  <2>5. ASSUME NEW c \in Calls, Finish(c) \/ \E o \in {"200", "panic", "abort"} : Handle(c, o)
        PROVE  HttpInv'
    BY <2>5, HttpAnswers
  <2> QED BY <2>1, <2>2, <2>3, <2>4, <2>5 DEF HttpNext
<1> QED BY <1>1, <1>2, PTL DEF HttpSpec

(* For every number of concurrent requests and addresses the throttle      *)
(* bounds its own table and the wrong credentials it compares for an       *)
(* address in a window and between two successes, as long as the table     *)
(* has room for the address; a mutation carries its user's name and every  *)
(* answer is counted (auth.go, main.go).                                   *)
THEOREM HttpIsSound == HttpSpec => []HttpHolds
<1>1. HttpInv => HttpHolds
  <2> SUFFICES ASSUME HttpInv PROVE HttpHolds
    OBVIOUS
  <2>1. \A i \in Tracked : i \in IPs /\ entries[i] # NoEntry
    BY DEF Tracked
  <2>2. HttpTypeOK
    BY <2>1 DEF HttpInv, HttpTypeOK, EntriesInv, CallsInv, CallRec
  <2>3. GuessesBounded
    BY DEF HttpInv, WatchInv
  <2> QED BY <2>2, <2>3 DEF HttpHolds, HttpInv
<1> QED BY <1>1, HttpInvariant, PTL

---------------------------------------------------------------------------
(* The chassis pool *)

\* Who owns which client, and how far it may be along.
MemberInv ==
    /\ \A i \in Chassis : sup[i] = "none" <=> member[i] = NoClient
    /\ \A i, j \in Chassis : i # j /\ member[i] # NoClient => member[i] # member[j]
    /\ \A c \in PoolClients : client[c] \in {"open", "dialled", "monitored"} =>
         \E i \in Chassis : member[i] = c

\* A member's client stays open until Close has joined every supervisor.
OpenInv ==
    /\ \A i \in Chassis : member[i] # NoClient =>
         IF poolCtx = "closed" THEN client[member[i]] = "closed"
         ELSE client[member[i]] \in {"open", "dialled", "monitored"}
    /\ poolCtx = "closed" => \A i \in Chassis : sup[i] \in {"none", "done"}

PoolInv == PoolTypeOK /\ misuse = FALSE /\ MemberInv /\ OpenInv

LEMMA PoolAdd ==
    ASSUME PoolInv, NEW i \in Chassis, Add(i)
    PROVE  PoolInv'
<1>1. PICK c \in PoolClients :
        /\ client[c] = "unmade" /\ poolCtx = "open"
        /\ IF member[i] # NoClient
           THEN client' = [client EXCEPT ![c] = "closed"] /\ UNCHANGED <<member, sup>>
           ELSE /\ client' = [client EXCEPT ![c] = "open"]
                /\ member' = [member EXCEPT ![i] = c]
                /\ sup' = [sup EXCEPT ![i] = "try"]
  BY DEF Add
<1>2. UNCHANGED <<poolCtx, reach, flaps, misuse>> /\ c # NoClient
  BY PoolConstants DEF Add
<1>3. \A j \in Chassis : member[j] # c
  BY <1>1, <1>2 DEF PoolInv, PoolTypeOK, OpenInv
<1>4. PoolTypeOK' /\ misuse' = FALSE
  BY <1>1, <1>2 DEF PoolInv, PoolTypeOK
<1>5. CASE member[i] # NoClient
  BY <1>1, <1>2, <1>3, <1>4, <1>5 DEF PoolInv, PoolTypeOK, MemberInv, OpenInv
<1>6. CASE member[i] = NoClient
  <2>1. /\ member'[i] = c /\ \A j \in Chassis \ {i} : member'[j] = member[j]
        /\ sup'[i] = "try" /\ \A j \in Chassis \ {i} : sup'[j] = sup[j]
        /\ client'[c] = "open" /\ \A d \in PoolClients \ {c} : client'[d] = client[d]
    BY <1>1, <1>6 DEF PoolInv, PoolTypeOK
  <2>2. MemberInv'
    <3>1. \A j \in Chassis : sup'[j] = "none" <=> member'[j] = NoClient
      BY <1>2, <2>1 DEF PoolInv, MemberInv
    <3>2. \A j, k \in Chassis : j # k /\ member'[j] # NoClient => member'[j] # member'[k]
      BY <1>3, <2>1 DEF PoolInv, MemberInv
    <3>3. ASSUME NEW d \in PoolClients, client'[d] \in {"open", "dialled", "monitored"}
          PROVE  \E j \in Chassis : member'[j] = d
      <4>1. CASE d = c
        BY <2>1, <4>1
      <4>2. CASE d # c
        <5>1. PICK j \in Chassis : member[j] = d
          BY <2>1, <3>3, <4>2 DEF PoolInv, MemberInv
        <5>2. j # i
          BY <1>6, <5>1, PoolConstants
        <5> QED BY <2>1, <5>1, <5>2
      <4> QED BY <4>1, <4>2
    <3> QED BY <3>1, <3>2, <3>3 DEF MemberInv
  <2>3. OpenInv'
    BY <1>1, <1>2, <1>3, <2>1 DEF PoolInv, PoolTypeOK, OpenInv
  <2> QED BY <1>4, <2>2, <2>3 DEF PoolInv
<1> QED BY <1>5, <1>6

LEMMA PoolAttempt ==
    ASSUME PoolInv, NEW i \in Chassis, Attempt(i)
    PROVE  PoolInv'
<1>1. PICK c : c = member[i]
  OBVIOUS
<1>2. sup[i] = "try" /\ UNCHANGED <<member, poolCtx, reach, flaps>>
  BY DEF Attempt
<1>3. c \in PoolClients /\ c # NoClient /\ poolCtx # "closed" /\ client[c] \in {"open", "dialled", "monitored"}
  BY <1>1, <1>2 DEF PoolInv, PoolTypeOK, MemberInv, OpenInv
<1>4. misuse' = FALSE
  <2>1. misuse' = (misuse \/ client[c] = "closed")
    BY <1>1 DEF Attempt
  <2> QED BY <1>3, <2>1 DEF PoolInv
<1>5. \/ client' = client
      \/ \E s \in {"dialled", "monitored"} : client' = [client EXCEPT ![c] = s]
  BY <1>1 DEF Attempt
<1>6. \E s \in {"done", "wait"} : sup' = [sup EXCEPT ![i] = s]
  BY DEF Attempt, Retry
<1>7. PoolTypeOK'
  BY <1>2, <1>3, <1>5, <1>6 DEF PoolInv, PoolTypeOK
<1> QED BY <1>1, <1>2, <1>3, <1>4, <1>5, <1>6, <1>7 DEF PoolInv, PoolTypeOK, MemberInv, OpenInv

(* The inductive invariant of the chassis pool (pool.go): every open       *)
(* client belongs to one chassis, and stays open while it is supervised.   *)
THEOREM PoolInvariant == PoolSpec => []PoolInv
<1>1. PoolInit => PoolInv
  BY PoolConstants DEF PoolInit, PoolInv, PoolTypeOK, MemberInv, OpenInv
<1>2. PoolInv /\ [PoolNext]_poolVars => PoolInv'
  <2> SUFFICES ASSUME PoolInv, [PoolNext]_poolVars PROVE PoolInv'
    OBVIOUS
  <2>1. CASE UNCHANGED poolVars
    BY <2>1 DEF poolVars, PoolInv, PoolTypeOK, MemberInv, OpenInv
  <2>2. CASE CancelPool
    BY <2>2 DEF CancelPool, PoolInv, PoolTypeOK, MemberInv, OpenInv
  <2>3. CASE ClosePool
    <3>1. \A i \in Chassis : member[i] # NoClient => client[member[i]] # "closed"
      BY <2>3 DEF ClosePool, Joined, PoolInv, OpenInv
    <3>2. misuse' = FALSE
      <4>1. misuse' = (misuse \/ \E i \in Chassis : member[i] # NoClient /\ client[member[i]] = "closed")
        BY <2>3 DEF ClosePool
      <4> QED BY <3>1, <4>1 DEF PoolInv
    <3>3. PoolTypeOK'
      BY <2>3 DEF ClosePool, PoolInv, PoolTypeOK
    <3> QED BY <2>3, <3>2, <3>3 DEF ClosePool, Joined, PoolInv, PoolTypeOK, MemberInv, OpenInv
  <2>4. ASSUME NEW i \in Chassis, Add(i) PROVE PoolInv'
    BY <2>4, PoolAdd
  <2>5. ASSUME NEW i \in Chassis, Attempt(i) PROVE PoolInv'
    BY <2>5, PoolAttempt
  <2>6. ASSUME NEW i \in Chassis, BackoffEnds(i) \/ SupervisorStops(i) PROVE PoolInv'
    BY <2>6 DEF BackoffEnds, SupervisorStops, PoolInv, PoolTypeOK, MemberInv, OpenInv
  <2>7. ASSUME NEW i \in Chassis, Flap(i) PROVE PoolInv'
    BY <2>7 DEF Flap, PoolInv, PoolTypeOK, MemberInv, OpenInv
  <2> QED BY <2>1, <2>2, <2>3, <2>4, <2>5, <2>6, <2>7 DEF PoolNext
<1> QED BY <1>1, <1>2, PTL DEF PoolSpec

(* Close leaves no open connection to any chassis, closes none twice and   *)
(* none that its supervisor still dials (pool.go:167-178).                 *)
THEOREM PoolIsSound == PoolSpec => [](PoolTypeOK /\ PoolClosesAll)
<1>1. PoolInv => PoolTypeOK /\ PoolClosesAll
  BY PoolConstants DEF PoolInv, PoolTypeOK, PoolClosesAll, MemberInv, OpenInv
<1> QED BY <1>1, PoolInvariant, PTL

---------------------------------------------------------------------------
(* The propagation tracker *)

NbRec  == [cfg : Gens, ts : Gens]
SbRec  == [row : {"private", "delete"}, chassis : TrackedChassis, cfg : Gens]
LogRec == [chassis : TrackedChassis, gen : Gens, ts : Gens, ack : Gens]

\* What is on its way tells nothing that the databases have not reached.
QueueInv ==
    /\ nbq \in Seq(NbRec) /\ sbq \in Seq(SbRec)
    /\ nbg.cfg >= 1 /\ \A c \in TrackedChassis : acks[c] <= nbg.cfg
    /\ \A k \in 1..Len(nbq) : nbq[k].cfg \in 1..nbg.cfg /\ nbq[k].ts <= nbq[k].cfg
    /\ \A k \in 1..Len(sbq) : sbq[k].cfg <= nbg.cfg

StageInv ==
    /\ since \in 1..MaxGen /\ log \subseteq LogRec /\ nbTs <= gen
    /\ stage # "running" => log = {} /\ \A c \in TrackedChassis : last[c] = 0
    /\ stage # "subscribed" => since <= nbg.cfg

\* A chassis whose entry is below g may still be recorded once for g.
OnceInv ==
    \A c \in TrackedChassis, g \in Gens :
       times[<<c, g>>] + (IF last[c] < g THEN 1 ELSE 0) <= 1 + lives[c]

\* The tracker, at generation n with timestamp t, holds generation g with its
\* own timestamp, or will from an event of q before the k-th, or that event is in l.
Held(l, n, t, q, g, k) == \/ n = g /\ t = g
                          \/ \E j \in 1..(k - 1) : q[j].cfg = g /\ q[j].ts = g
                          \/ [cfg |-> g, ts |-> g] \in l

Near == /\ nbg.ts \in {nbg.cfg - 1, nbg.cfg}
        /\ \A k \in 1..Len(nbq) : nbq[k].ts \in {nbq[k].cfg - 1, nbq[k].cfg}

Rising == \A j, k \in 1..Len(nbq) : j < k =>
             /\ nbq[j].cfg <= nbq[k].cfg
             /\ nbq[j].cfg = nbq[k].cfg /\ nbq[k].cfg > since => nbq[k].ts = nbq[k].cfg

\* A bump that is on its way finds the timestamp it repeats already held.
BumpsHeld == \A k \in 1..Len(nbq) :
                nbq[k].cfg > since /\ nbq[k].ts = nbq[k].cfg - 1
                  => gen < nbq[k].cfg /\ Held(lost, gen, nbTs, nbq, nbq[k].cfg - 1, k)

LatestHeld == cachesUp /\ since <= nbg.cfg /\ nbg.cfg < MaxGen /\ nbg.ts = nbg.cfg
                => Held(lost, gen, nbTs, nbq, nbg.cfg, Len(nbq) + 1)

OwnStamp == gen > since => nbTs \in {0, gen} \/ StampLost(gen - 1)

OrderInv == Near /\ Rising /\ BumpsHeld /\ LatestHeld /\ OwnStamp

TrackerInv ==
    /\ TrackerTypeOK /\ QueueInv /\ StageInv /\ OnceInv /\ MeasuredFromItsOwnStamp
    /\ Patient => OrderInv

\* An index of a sequence with one more element is an old one or the last.
LEMMA OneMoreIndex == \A n \in Nat : \A k \in 1..(n + 1) : k \in 1..n \/ k = n + 1
OBVIOUS

LEMMA GenFacts == MaxGen \in Nat /\ MaxGen >= 1 /\ Gens = 0..MaxGen /\ Patient \in BOOLEAN
BY TrackerConstants DEF Gens

LEMMA Appending ==
    ASSUME NEW S, NEW q \in Seq(S), NEW e \in S
    PROVE  /\ Append(q, e) \in Seq(S) /\ Len(Append(q, e)) = Len(q) + 1 /\ Len(q) \in Nat
           /\ \A k \in 1..Len(q) : Append(q, e)[k] = q[k]
           /\ Append(q, e)[Len(q) + 1] = e
BY AppendProperties, LenProperties

LEMMA Tailing ==
    ASSUME NEW S, NEW q \in Seq(S), q # <<>>
    PROVE  /\ Tail(q) \in Seq(S) /\ Len(Tail(q)) = Len(q) - 1 /\ Len(q) \in Nat /\ Len(q) >= 1
           /\ Head(q) = q[1] /\ Head(q) \in S
           /\ \A k \in 1..Len(Tail(q)) : k + 1 \in 1..Len(q) /\ Tail(q)[k] = q[k + 1]
<1>1. Len(q) \in Nat /\ Len(q) >= 1
  BY LenProperties, EmptySeq
<1>2. Head(q) = q[1] /\ Head(q) \in S /\ Tail(q) \in Seq(S) /\ Len(Tail(q)) = Len(q) - 1
  BY <1>1, HeadTailProperties
<1>3. \A k \in 1..Len(Tail(q)) : k + 1 \in 1..Len(q)
  BY <1>1, <1>2
<1>4. \A k \in 1..Len(Tail(q)) : Tail(q)[k] = q[k + 1]
  BY <1>1, <1>2, HeadTailProperties
<1> QED BY <1>1, <1>2, <1>3, <1>4

\* The NB side: a bump or a stamp of NB_Global, heard of or not.
LEMMA NbWrite ==
    ASSUME TrackerInv, Bump \/ Stamp
    PROVE  TrackerInv'
<1> USE GenFacts
<1>1. /\ UNCHANGED <<lost, acks, cachesUp, sbq, stage, gen, nbTs, last, log, times, since, upsets, lives>>
      /\ nbq' = IF cachesUp THEN Append(nbq, nbg') ELSE nbq
  BY DEF Bump, Stamp, Heard, tracker
<1>2. nbg \in NbRec /\ nbg.cfg \in 1..MaxGen /\ nbg.ts \in 0..nbg.cfg
  BY DEF TrackerInv, TrackerTypeOK, QueueInv, NbRec
<1>3. \/ /\ Bump /\ nbg'.cfg = nbg.cfg + 1 /\ nbg'.ts = nbg.ts /\ nbg' \in NbRec
         /\ Patient => nbg.ts = nbg.cfg
      \/ Stamp /\ nbg'.cfg = nbg.cfg /\ nbg'.ts = nbg.cfg /\ nbg.ts < nbg.cfg /\ nbg' \in NbRec
  BY <1>2 DEF Bump, Stamp, NbRec
<1>4. nbg'.cfg \in nbg.cfg..MaxGen /\ nbg'.ts \in 0..nbg'.cfg
  BY <1>2, <1>3 DEF NbRec
<1>5. /\ nbq \in Seq(NbRec) /\ Len(nbq) \in Nat
      /\ \A k \in 1..Len(nbq) : nbq[k] \in NbRec /\ nbq[k].cfg \in 1..nbg.cfg /\ nbq[k].ts \in 0..nbq[k].cfg
  <2>1. nbq \in Seq(NbRec) /\ \A k \in 1..Len(nbq) : nbq[k].cfg \in 1..nbg.cfg /\ nbq[k].ts <= nbq[k].cfg
    BY DEF TrackerInv, QueueInv
  <2>2. Len(nbq) \in Nat /\ \A k \in 1..Len(nbq) : nbq[k] \in NbRec
    BY <2>1, LenProperties, ElementOfSeq
  <2>3. \A k \in 1..Len(nbq) : nbq[k].ts \in Nat /\ nbq[k].cfg \in Nat
    BY <2>2 DEF NbRec
  <2> QED BY <1>2, <2>1, <2>2, <2>3
<1>6. \/ nbq' = nbq /\ ~ cachesUp
      \/ /\ cachesUp /\ nbq' \in Seq(NbRec) /\ Len(nbq') = Len(nbq) + 1
         /\ \A k \in 1..Len(nbq) : nbq'[k] = nbq[k]
         /\ nbq'[Len(nbq) + 1] = nbg'
  BY <1>1, <1>3, <1>5, Appending
<1>7. TrackerTypeOK'
  <2>1. nbg' \in [cfg : Gens, ts : Gens] /\ nbg'.ts <= nbg'.cfg
    BY <1>3, <1>4 DEF NbRec
  <2>2. gen \in Nat /\ \A c \in TrackedChassis : last[c] \in Nat
    BY DEF TrackerInv, TrackerTypeOK
  <2>3. gen <= nbg'.cfg /\ \A c \in TrackedChassis : last[c] <= nbg'.cfg
    BY <1>2, <1>4, <2>2 DEF TrackerInv, TrackerTypeOK
  <2> QED BY <1>1, <2>1, <2>3 DEF TrackerInv, TrackerTypeOK
<1>8. QueueInv'
  <2>1. nbq' \in Seq(NbRec)
    BY <1>5, <1>6
  <2>2. \A k \in 1..Len(nbq') : nbq'[k].cfg \in 1..nbg'.cfg /\ nbq'[k].ts <= nbq'[k].cfg
    <3>1. CASE nbq' = nbq
      BY <1>2, <1>4, <1>5, <3>1
    <3>2. CASE nbq' # nbq
      <4> SUFFICES ASSUME NEW k \in 1..Len(nbq')
                   PROVE  nbq'[k].cfg \in 1..nbg'.cfg /\ nbq'[k].ts <= nbq'[k].cfg
        OBVIOUS
      <4>1. CASE k \in 1..Len(nbq)
        BY <1>2, <1>4, <1>5, <1>6, <3>2, <4>1, SMTT(30)
      <4>2. CASE k = Len(nbq) + 1
        BY <1>2, <1>4, <1>6, <3>2, <4>2
      <4> QED BY <1>5, <1>6, <3>2, <4>1, <4>2
    <3> QED BY <3>1, <3>2
  <2>3. \A c \in TrackedChassis : acks[c] \in Int /\ acks[c] <= nbg.cfg
    BY DEF TrackerInv, TrackerTypeOK, QueueInv
  <2>4. \A k \in 1..Len(sbq) : sbq[k].cfg \in Nat /\ sbq[k].cfg <= nbg.cfg
    <3>1. \A k \in 1..Len(sbq) : sbq[k] \in SbRec
      BY ElementOfSeq DEF TrackerInv, QueueInv
    <3> QED BY <3>1 DEF TrackerInv, QueueInv, SbRec
  <2>5. /\ \A c \in TrackedChassis : acks[c] <= nbg'.cfg
        /\ \A k \in 1..Len(sbq) : sbq[k].cfg <= nbg'.cfg
    BY <1>2, <1>4, <2>3, <2>4
  <2>6. nbg'.cfg >= 1
    BY <1>2, <1>4
  <2>7. sbq \in Seq(SbRec)
    BY DEF TrackerInv, QueueInv
  <2> QED BY <1>1, <2>1, <2>2, <2>5, <2>6, <2>7 DEF QueueInv
<1>9. StageInv'
  BY <1>1, <1>2, <1>4 DEF TrackerInv, StageInv
<1>10. OnceInv' /\ MeasuredFromItsOwnStamp'
  BY <1>1 DEF TrackerInv, OnceInv, MeasuredFromItsOwnStamp, StampLost
<1>11. ASSUME Patient PROVE OrderInv'
  <2>0. Near /\ Rising /\ BumpsHeld /\ LatestHeld /\ OwnStamp /\ gen \in Nat /\ gen <= nbg.cfg /\ since \in Nat
    BY <1>11 DEF TrackerInv, OrderInv, TrackerTypeOK, StageInv
  <2>1. nbg'.ts \in {nbg'.cfg - 1, nbg'.cfg}
    BY <1>2, <1>3, <1>11, <2>0 DEF Near
  <2>2. OwnStamp'
    BY <1>1, <2>0 DEF OwnStamp, StampLost
  <2>3. CASE ~ cachesUp
    <3>1. nbq' = nbq /\ ~ cachesUp'
      BY <1>1, <1>6, <2>3
    <3>2. Near' /\ Rising'
      BY <1>1, <2>0, <2>1, <3>1 DEF Near, Rising
    <3>3. BumpsHeld' /\ LatestHeld'
      BY <1>1, <2>0, <3>1 DEF BumpsHeld, LatestHeld, Held
    <3> QED BY <2>2, <3>2, <3>3 DEF OrderInv
  <2>4. CASE cachesUp
    <3>0. /\ Len(nbq') = Len(nbq) + 1 /\ nbq'[Len(nbq) + 1] = nbg'
          /\ \A k \in 1..Len(nbq) : nbq'[k] = nbq[k]
      BY <1>6, <2>4
    <3>6. \A k \in 1..Len(nbq') : k \in 1..Len(nbq) \/ k = Len(nbq) + 1
      <4>1. Len(nbq) \in Nat
        BY <1>5
      <4> QED BY <3>0, <4>1, OneMoreIndex
    <3>1. Near'
      <4> SUFFICES ASSUME NEW k \in 1..Len(nbq') PROVE nbq'[k].ts \in {nbq'[k].cfg - 1, nbq'[k].cfg}
        BY <2>1 DEF Near
      <4>1. CASE k \in 1..Len(nbq)
        BY <2>0, <3>0, <4>1 DEF Near
      <4>2. CASE k = Len(nbq) + 1
        BY <2>1, <3>0, <4>2
      <4> QED BY <3>6, <4>1, <4>2
    <3>2. Rising'
      <4> SUFFICES ASSUME NEW j \in 1..Len(nbq'), NEW k \in 1..Len(nbq'), j < k
                   PROVE  /\ nbq'[j].cfg <= nbq'[k].cfg
                          /\ nbq'[j].cfg = nbq'[k].cfg /\ nbq'[k].cfg > since => nbq'[k].ts = nbq'[k].cfg
        BY <1>1 DEF Rising
      <4>1. CASE k \in 1..Len(nbq)
        <5>1. j \in 1..Len(nbq)
          BY <1>5, <4>1
        <5> QED BY <2>0, <3>0, <4>1, <5>1 DEF Rising
      <4>2. CASE k = Len(nbq) + 1
        <5>1. j \in 1..Len(nbq) /\ nbq'[k] = nbg'
          BY <1>5, <3>0, <4>2
        <5>2. nbq'[j].cfg \in 1..nbg.cfg
          BY <1>5, <3>0, <5>1
        <5> QED BY <1>2, <1>3, <5>1, <5>2
      <4> QED BY <3>6, <4>1, <4>2
    <3>3. \A g \in Nat, k \in 1..(Len(nbq) + 1) :
            Held(lost, gen, nbTs, nbq, g, k) => Held(lost, gen, nbTs, nbq', g, k)
      BY <1>5, <3>0 DEF Held
    <3>4. BumpsHeld'
      <4> SUFFICES ASSUME NEW k \in 1..Len(nbq'), nbq'[k].cfg > since, nbq'[k].ts = nbq'[k].cfg - 1
                   PROVE  gen < nbq'[k].cfg /\ Held(lost, gen, nbTs, nbq', nbq'[k].cfg - 1, k)
        BY <1>1 DEF BumpsHeld
      <4>1. CASE k \in 1..Len(nbq)
        <5>1. gen < nbq[k].cfg /\ Held(lost, gen, nbTs, nbq, nbq[k].cfg - 1, k) /\ nbq[k].cfg - 1 \in Nat /\ nbq'[k] = nbq[k]
          BY <1>5, <2>0, <3>0, <4>1 DEF BumpsHeld
        <5> QED BY <1>5, <3>3, <4>1, <5>1
      <4>2. CASE k = Len(nbq) + 1
        <5>1. nbg'.ts = nbg'.cfg - 1 /\ nbg'.cfg > since
          BY <3>0, <4>2
        <5>2. nbg'.cfg = nbg.cfg + 1 /\ nbg.ts = nbg.cfg
          BY <1>2, <1>3, <1>11, <5>1
        <5>3. since <= nbg.cfg /\ nbg.cfg < MaxGen
          BY <1>2, <1>4, <2>0, <5>1, <5>2
        <5>4. Held(lost, gen, nbTs, nbq, nbg.cfg, Len(nbq) + 1)
          BY <2>0, <2>4, <5>2, <5>3 DEF LatestHeld
        <5>5. Held(lost, gen, nbTs, nbq', nbg.cfg, k)
          BY <1>2, <1>5, <3>3, <4>2, <5>4
        <5>6. nbq'[k].cfg - 1 = nbg.cfg /\ gen < nbq'[k].cfg
          BY <1>2, <2>0, <3>0, <4>2, <5>2
        <5> QED BY <5>5, <5>6
      <4> QED BY <3>6, <4>1, <4>2
    <3>5. LatestHeld'
      <4> SUFFICES ASSUME nbg'.ts = nbg'.cfg PROVE Held(lost, gen, nbTs, nbq', nbg'.cfg, Len(nbq') + 1)
        BY <1>1 DEF LatestHeld
      <4>1. Len(nbq) + 1 \in 1..(Len(nbq') + 1 - 1)
        BY <1>5, <3>0
      <4> QED BY <3>0, <4>1 DEF Held
    <3> QED BY <2>2, <3>1, <3>2, <3>4, <3>5 DEF OrderInv
  <2> QED BY <2>3, <2>4
<1> QED BY <1>7, <1>8, <1>9, <1>10, <1>11 DEF TrackerInv

\* More events of the SB side, none of them ahead of NB_Global.
LEMMA SbHears ==
    ASSUME TrackerInv, NEW more \in Seq(SbRec), \A k \in 1..Len(more) : more[k].cfg <= nbg.cfg
    PROVE  sbq \o more \in Seq(SbRec) /\ \A k \in 1..Len(sbq \o more) : (sbq \o more)[k].cfg <= nbg.cfg
<1>1. sbq \in Seq(SbRec) /\ \A k \in 1..Len(sbq) : sbq[k].cfg <= nbg.cfg
  BY DEF TrackerInv, QueueInv
<1>2. Len(sbq) \in Nat /\ Len(more) \in Nat
  BY <1>1, LenProperties
<1>3. /\ sbq \o more \in Seq(SbRec) /\ Len(sbq \o more) = Len(sbq) + Len(more)
      /\ \A k \in 1..Len(sbq) + Len(more) :
           (sbq \o more)[k] = IF k <= Len(sbq) THEN sbq[k] ELSE more[k - Len(sbq)]
  BY <1>1, ConcatProperties
<1>4. ASSUME NEW k \in 1..Len(sbq \o more) PROVE (sbq \o more)[k].cfg <= nbg.cfg
  <2>1. CASE k <= Len(sbq)
    BY <1>1, <1>2, <1>3, <2>1
  <2>2. CASE ~ (k <= Len(sbq))
    <3>1. k - Len(sbq) \in 1..Len(more)
      BY <1>2, <1>3, <2>2
    <3> QED BY <1>3, <2>2, <3>1
  <2> QED BY <2>1, <2>2
<1> QED BY <1>3, <1>4

\* Acknowledgements and removals change nothing that the NB side is about.
LEMMA SbWrite ==
    ASSUME TrackerInv, NEW c \in TrackedChassis, Ack(c) \/ ChassisLeaves(c)
    PROVE  TrackerInv'
<1> USE GenFacts
<1>1. UNCHANGED <<lost, nbg, cachesUp, nbq, stage, gen, nbTs, last, log, times, since, lives>>
  BY DEF Ack, ChassisLeaves, tracker
<1>2. nbg.cfg \in 1..MaxGen /\ acks \in [TrackedChassis -> Gens \cup {-1}] /\ acks[c] <= nbg.cfg
  BY DEF TrackerInv, TrackerTypeOK, QueueInv
<1>3. /\ acks' \in [TrackedChassis -> Gens \cup {-1}]
      /\ \A d \in TrackedChassis : acks'[d] <= nbg.cfg
      /\ sbq' \in Seq(SbRec) /\ \A k \in 1..Len(sbq') : sbq'[k].cfg <= nbg.cfg
  <2>1. CASE Ack(c)
    <3>1. PICK n \in (acks[c] + 1)..nbg.cfg :
            acks' = [acks EXCEPT ![c] = n] /\ sbq' = Heard(sbq, Private(c, n))
      BY <2>1 DEF Ack
    <3>2. n \in Gens /\ n <= nbg.cfg
      BY <1>2, <3>1
    <3>3. Private(c, n) \in SbRec /\ Private(c, n).cfg = n
      BY <3>2 DEF Private, SbRec
    <3>4. PICK more : more = <<Private(c, n)>>
      OBVIOUS
    <3>5. more \in Seq(SbRec) /\ \A k \in 1..Len(more) : more[k].cfg <= nbg.cfg
      BY <3>2, <3>3, <3>4
    <3>6. Append(sbq, Private(c, n)) = sbq \o more
      BY <3>3, <3>4, AppendIsConcat DEF TrackerInv, QueueInv
    <3>7. sbq' \in Seq(SbRec) /\ \A k \in 1..Len(sbq') : sbq'[k].cfg <= nbg.cfg
      <4>1. CASE cachesUp
        <5>1. sbq' = sbq \o more
          BY <3>1, <3>6, <4>1 DEF Heard
        <5> QED BY <3>5, <5>1, SbHears
      <4>2. CASE ~ cachesUp
        BY <3>1, <4>2 DEF Heard, TrackerInv, QueueInv
      <4> QED BY <4>1, <4>2
    <3>8. acks' \in [TrackedChassis -> Gens \cup {-1}] /\ \A d \in TrackedChassis : acks'[d] <= nbg.cfg
      BY <1>2, <3>1, <3>2 DEF TrackerInv, QueueInv
    <3> QED BY <3>7, <3>8
  <2>2. CASE ChassisLeaves(c)
    <3>1. PICK two \in {<<Private(c, acks[c]), ChassisEvent(c, "delete")>>,
                        <<ChassisEvent(c, "delete"), Private(c, acks[c])>>} :
            sbq' = IF cachesUp THEN sbq \o two ELSE sbq
      BY <2>2 DEF ChassisLeaves
    <3>2. acks' = [acks EXCEPT ![c] = -1] /\ acks[c] \in Gens
      BY <1>2, <2>2 DEF ChassisLeaves
    <3>3. /\ Private(c, acks[c]) \in SbRec /\ Private(c, acks[c]).cfg = acks[c]
          /\ ChassisEvent(c, "delete") \in SbRec /\ ChassisEvent(c, "delete").cfg = 0
      BY <3>2 DEF Private, ChassisEvent, SbRec
    <3>4. two \in Seq(SbRec) /\ \A k \in 1..Len(two) : two[k].cfg <= nbg.cfg
      <4>1. CASE two = <<Private(c, acks[c]), ChassisEvent(c, "delete")>>
        BY <1>2, <3>3, <4>1
      <4>2. CASE two = <<ChassisEvent(c, "delete"), Private(c, acks[c])>>
        BY <1>2, <3>3, <4>2
      <4> QED BY <3>1, <4>1, <4>2
    <3>5. sbq' \in Seq(SbRec) /\ \A k \in 1..Len(sbq') : sbq'[k].cfg <= nbg.cfg
      <4>1. CASE cachesUp
        <5>1. sbq' = sbq \o two
          BY <3>1, <4>1
        <5> QED BY <3>4, <5>1, SbHears
      <4>2. CASE ~ cachesUp
        BY <3>1, <4>2 DEF TrackerInv, QueueInv
      <4> QED BY <4>1, <4>2
    <3>6. acks' \in [TrackedChassis -> Gens \cup {-1}] /\ \A d \in TrackedChassis : acks'[d] <= nbg.cfg
      BY <1>2, <3>2 DEF TrackerInv, QueueInv
    <3> QED BY <3>5, <3>6
  <2> QED BY <2>1, <2>2
<1>4. TrackerTypeOK' /\ QueueInv'
  BY <1>1, <1>3 DEF TrackerInv, TrackerTypeOK, QueueInv
<1>5. StageInv' /\ OnceInv' /\ MeasuredFromItsOwnStamp'
  BY <1>1 DEF TrackerInv, StageInv, OnceInv, MeasuredFromItsOwnStamp, StampLost
<1>6. OrderInv => OrderInv'
  BY <1>1 DEF OrderInv, Near, Rising, BumpsHeld, LatestHeld, OwnStamp, StampLost
<1> QED BY <1>4, <1>5, <1>6 DEF TrackerInv

LEMMA CachesGo ==
    ASSUME TrackerInv, CachesPurged
    PROVE  TrackerInv'
<1>1. /\ UNCHANGED <<lost, nbg, acks, nbq, sbq, stage, gen, nbTs, last, log, times, since, lives>>
      /\ cachesUp' = FALSE
  BY DEF CachesPurged, tracker
<1>2. TrackerTypeOK' /\ QueueInv'
  BY <1>1 DEF TrackerInv, TrackerTypeOK, QueueInv
<1>3. StageInv' /\ OnceInv' /\ MeasuredFromItsOwnStamp'
  BY <1>1 DEF TrackerInv, StageInv, OnceInv, MeasuredFromItsOwnStamp, StampLost
<1>4. OrderInv => OrderInv'
  BY <1>1 DEF OrderInv, Near, Rising, BumpsHeld, LatestHeld, OwnStamp, StampLost
<1> QED BY <1>2, <1>3, <1>4 DEF TrackerInv

\* A record of the time before stays sound when since moves to the present.
LEMMA SinceMoves ==
    ASSUME TrackerInv, since' = nbg.cfg, log' = log, lost' = lost
    PROVE  MeasuredFromItsOwnStamp'
<1>1. \A r \in log : r.gen \in Nat /\ since \in Nat /\ nbg.cfg \in Nat
  BY GenFacts DEF TrackerInv, TrackerTypeOK, StageInv, LogRec
<1>2. log # {} => since <= nbg.cfg
  BY DEF TrackerInv, StageInv
<1>3. ASSUME NEW r \in log
      PROVE  /\ Patient /\ r.gen > nbg.cfg => r.ts = r.gen \/ StampLost(r.gen - 1)
             /\ r.ack >= r.gen
  BY <1>1, <1>2, <1>3 DEF TrackerInv, MeasuredFromItsOwnStamp
<1> QED BY <1>3 DEF MeasuredFromItsOwnStamp, StampLost

LEMMA CachesReturn ==
    ASSUME TrackerInv, Reload
    PROVE  TrackerInv'
<1> USE GenFacts
<1>1. /\ UNCHANGED <<lost, nbg, acks, stage, gen, nbTs, last, log, times, lives>>
      /\ cachesUp' = TRUE /\ since' = nbg.cfg /\ nbq' = Append(nbq, nbg)
  BY DEF Reload
<1>2. nbg \in NbRec /\ nbg.cfg \in 1..MaxGen /\ nbg.ts \in 0..nbg.cfg
  BY DEF TrackerInv, TrackerTypeOK, QueueInv, NbRec
<1>3. /\ nbq \in Seq(NbRec) /\ Len(nbq) \in Nat
      /\ \A k \in 1..Len(nbq) : nbq[k].cfg \in 1..nbg.cfg /\ nbq[k].ts <= nbq[k].cfg
  BY LenProperties DEF TrackerInv, QueueInv
<1>4. /\ nbq' \in Seq(NbRec) /\ Len(nbq') = Len(nbq) + 1 /\ nbq'[Len(nbq) + 1] = nbg
      /\ \A k \in 1..Len(nbq) : nbq'[k] = nbq[k]
  BY <1>1, <1>2, <1>3, Appending
<1>5. \A k \in 1..Len(nbq') : k \in 1..Len(nbq) \/ k = Len(nbq) + 1
  BY <1>3, <1>4
<1>6. sbq' \in Seq(SbRec) /\ \A k \in 1..Len(sbq') : sbq'[k].cfg <= nbg.cfg
  <2>1. PICK order \in [1..Cardinality(Present) -> Present] :
          sbq' = sbq \o [i \in DOMAIN order |-> Private(order[i], acks[order[i]])]
    BY DEF Reload
  <2>2. PICK more : more = [i \in DOMAIN order |-> Private(order[i], acks[order[i]])]
    OBVIOUS
  <2>3. \A i \in DOMAIN order : order[i] \in TrackedChassis /\ acks[order[i]] \in Gens
                                /\ acks[order[i]] <= nbg.cfg
    BY DEF Present, TrackerInv, TrackerTypeOK, QueueInv
  <2>4. \A i \in DOMAIN order : more[i] \in SbRec /\ more[i].cfg <= nbg.cfg
    BY <2>2, <2>3 DEF Private, SbRec
  <2>5. Cardinality(Present) \in Nat
    <3>1. Present \in SUBSET TrackedChassis /\ IsFiniteSet(TrackedChassis)
      BY TrackerConstants DEF Present
    <3> QED BY <3>1, PartOf
  <2>6. more \in Seq(SbRec) /\ Len(more) = Cardinality(Present)
    <3>1. DOMAIN order = 1..Cardinality(Present)
      OBVIOUS
    <3>2. more \in [1..Cardinality(Present) -> SbRec]
      BY <2>2, <2>4, <3>1
    <3> QED BY <2>5, <3>2
  <2>7. \A k \in 1..Len(more) : more[k].cfg <= nbg.cfg
    BY <2>4, <2>6
  <2> QED BY <2>1, <2>2, <2>6, <2>7, SbHears
<1>7. TrackerTypeOK'
  BY <1>1 DEF TrackerInv, TrackerTypeOK
<1>8. QueueInv'
  <2>1. \A k \in 1..Len(nbq') : nbq'[k].cfg \in 1..nbg.cfg /\ nbq'[k].ts <= nbq'[k].cfg
    BY <1>2, <1>3, <1>4, <1>5
  <2> QED BY <1>1, <1>4, <1>6, <2>1 DEF TrackerInv, QueueInv
<1>9. StageInv' /\ OnceInv'
  BY <1>1, <1>2 DEF TrackerInv, StageInv, OnceInv
<1>10. MeasuredFromItsOwnStamp'
  BY <1>1, SinceMoves
<1>11. ASSUME Patient PROVE OrderInv'
  <2>0. Near /\ Rising /\ gen \in Nat /\ gen <= nbg.cfg
    BY <1>11 DEF TrackerInv, OrderInv, TrackerTypeOK
  <2>1. Near'
    BY <1>1, <1>4, <1>5, <2>0 DEF Near
  <2>2. \A k \in 1..Len(nbq') : nbq'[k].cfg \in 1..nbg.cfg
    BY <1>2, <1>3, <1>4, <1>5
  <2>3. Rising'
    <3> SUFFICES ASSUME NEW j \in 1..Len(nbq'), NEW k \in 1..Len(nbq'), j < k
                 PROVE  nbq'[j].cfg <= nbq'[k].cfg /\ ~ (nbq'[k].cfg > nbg.cfg)
      BY <1>1 DEF Rising
    <3>1. ~ (nbq'[k].cfg > nbg.cfg)
      BY <1>2, <2>2
    <3>2. CASE k \in 1..Len(nbq)
      <4>1. j \in 1..Len(nbq)
        BY <1>3, <3>2
      <4> QED BY <1>4, <2>0, <3>1, <3>2, <4>1 DEF Rising
    <3>3. CASE k = Len(nbq) + 1
      BY <1>2, <1>4, <2>2, <3>1, <3>3
    <3> QED BY <1>5, <3>2, <3>3
  <2>4. BumpsHeld'
    BY <1>1, <1>2, <2>2 DEF BumpsHeld
  <2>5. LatestHeld'
    <3>1. Len(nbq) + 1 \in 1..(Len(nbq') + 1 - 1)
      BY <1>3, <1>4
    <3> QED BY <1>1, <1>4, <3>1 DEF LatestHeld, Held
  <2>6. OwnStamp'
    BY <1>1, <1>2, <2>0 DEF OwnStamp
  <2> QED BY <2>1, <2>3, <2>4, <2>5, <2>6 DEF OrderInv
<1> QED BY <1>7, <1>8, <1>9, <1>10, <1>11 DEF TrackerInv

\* What is left of a sequence when its i-th element is taken out.
LEMMA Removing ==
    ASSUME NEW S, NEW q \in Seq(S), NEW i \in 1..Len(q)
    PROVE  /\ RemoveAt(q, i) \in Seq(S) /\ Len(RemoveAt(q, i)) = Len(q) - 1 /\ Len(q) \in Nat
           /\ \A k \in 1..Len(RemoveAt(q, i)) :
                RemoveAt(q, i)[k] = IF k < i THEN q[k] ELSE q[k + 1]
<1>1. Len(q) \in Nat /\ i \in Nat
  BY LenProperties
<1>2. /\ SubSeq(q, 1, i - 1) \in Seq(S) /\ Len(SubSeq(q, 1, i - 1)) = i - 1
      /\ \A k \in 1..(i - 1) : SubSeq(q, 1, i - 1)[k] = q[k]
  BY <1>1, SubSeqProperties
<1>3. /\ SubSeq(q, i + 1, Len(q)) \in Seq(S) /\ Len(SubSeq(q, i + 1, Len(q))) = Len(q) - i
      /\ \A k \in 1..(Len(q) - i) : SubSeq(q, i + 1, Len(q))[k] = q[i + k]
  BY <1>1, SubSeqProperties
<1>4. /\ RemoveAt(q, i) \in Seq(S) /\ Len(RemoveAt(q, i)) = Len(q) - 1
      /\ \A k \in 1..(Len(q) - 1) :
           RemoveAt(q, i)[k] = IF k <= i - 1 THEN SubSeq(q, 1, i - 1)[k]
                                             ELSE SubSeq(q, i + 1, Len(q))[k - (i - 1)]
  <2>1. PICK a, b : a = SubSeq(q, 1, i - 1) /\ b = SubSeq(q, i + 1, Len(q))
    OBVIOUS
  <2>2. RemoveAt(q, i) = a \o b
    BY <2>1 DEF RemoveAt
  <2>3. a \in Seq(S) /\ b \in Seq(S) /\ Len(a) = i - 1 /\ Len(b) = Len(q) - i
    BY <1>2, <1>3, <2>1
  <2>4. /\ a \o b \in Seq(S) /\ Len(a \o b) = Len(a) + Len(b)
        /\ \A k \in 1..(Len(a) + Len(b)) : (a \o b)[k] = IF k <= Len(a) THEN a[k] ELSE b[k - Len(a)]
    BY <2>3, ConcatProperties
  <2>5. Len(a) + Len(b) = Len(q) - 1
    BY <1>1, <2>3
  <2> QED BY <2>1, <2>2, <2>3, <2>4, <2>5
<1>5. ASSUME NEW k \in 1..(Len(q) - 1) PROVE RemoveAt(q, i)[k] = IF k < i THEN q[k] ELSE q[k + 1]
  <2>1. CASE k < i
    BY <1>1, <1>2, <1>4, <2>1
  <2>2. CASE ~ (k < i)
    <3>1. k - (i - 1) \in 1..(Len(q) - i) /\ i + (k - (i - 1)) = k + 1 /\ ~ (k <= i - 1)
      BY <1>1, <2>2
    <3> QED BY <1>3, <1>4, <2>2, <3>1
  <2> QED BY <2>1, <2>2
<1> QED BY <1>1, <1>4, <1>5

\* An event of the SB side dropped by the hub changes no order.
LEMMA SbDropped ==
    ASSUME TrackerInv, NEW i \in DOMAIN sbq, SbOverflow(i)
    PROVE  TrackerInv'
<1>1. /\ UNCHANGED <<nbg, acks, cachesUp, nbq, stage, gen, nbTs, last, log, times, since, lives>>
      /\ sbq' = RemoveAt(sbq, i) /\ lost \subseteq lost'
  BY DEF SbOverflow, tracker
<1>2. sbq \in Seq(SbRec) /\ \A k \in 1..Len(sbq) : sbq[k].cfg <= nbg.cfg
  BY DEF TrackerInv, QueueInv
<1>3. i \in 1..Len(sbq)
  BY <1>2
<1>4. /\ sbq' \in Seq(SbRec) /\ Len(sbq') = Len(sbq) - 1 /\ Len(sbq) \in Nat
      /\ \A k \in 1..Len(sbq') : sbq'[k] = IF k < i THEN sbq[k] ELSE sbq[k + 1]
  BY <1>1, <1>2, <1>3, Removing
<1>5. \A k \in 1..Len(sbq') : sbq'[k].cfg <= nbg.cfg
  <2> SUFFICES ASSUME NEW k \in 1..Len(sbq') PROVE sbq'[k].cfg <= nbg.cfg
    OBVIOUS
  <2>1. k \in 1..Len(sbq) /\ k + 1 \in 1..Len(sbq)
    BY <1>4
  <2> QED BY <1>2, <1>4, <2>1
<1>6. TrackerTypeOK' /\ QueueInv'
  BY <1>1, <1>4, <1>5 DEF TrackerInv, TrackerTypeOK, QueueInv
<1>7. StageInv' /\ OnceInv' /\ MeasuredFromItsOwnStamp'
  BY <1>1 DEF TrackerInv, StageInv, OnceInv, MeasuredFromItsOwnStamp, StampLost
<1>8. OrderInv => OrderInv'
  <2>1. \A n, t, q, g, k : Held(lost, n, t, q, g, k) => Held(lost', n, t, q, g, k)
    BY <1>1 DEF Held
  <2> QED BY <1>1, <2>1 DEF OrderInv, Near, Rising, BumpsHeld, LatestHeld, OwnStamp, StampLost
<1> QED BY <1>6, <1>7, <1>8 DEF TrackerInv

(* An event of NB_Global dropped by the hub: what it held is in lost, the  *)
(* others keep their order.                                                *)
LEMMA NbDropped ==
    ASSUME TrackerInv, NEW i \in DOMAIN nbq, NbOverflow(i)
    PROVE  TrackerInv'
<1> USE GenFacts
<1>1. /\ UNCHANGED <<nbg, acks, cachesUp, sbq, stage, gen, nbTs, last, log, times, since, lives>>
      /\ nbq' = RemoveAt(nbq, i) /\ lost' = lost \cup {nbq[i]}
  BY DEF NbOverflow, tracker
<1>2. /\ nbq \in Seq(NbRec)
      /\ \A k \in 1..Len(nbq) : nbq[k].cfg \in 1..nbg.cfg /\ nbq[k].ts <= nbq[k].cfg
  BY DEF TrackerInv, QueueInv
<1>3. i \in 1..Len(nbq) /\ i \in Nat /\ nbq[i] \in NbRec
  <2>1. i \in 1..Len(nbq)
    BY <1>2
  <2> QED BY <1>2, <2>1, ElementOfSeq
<1>4. /\ nbq' \in Seq(NbRec) /\ Len(nbq') = Len(nbq) - 1 /\ Len(nbq) \in Nat
      /\ \A k \in 1..Len(nbq') : nbq'[k] = IF k < i THEN nbq[k] ELSE nbq[k + 1]
  BY <1>1, <1>2, <1>3, Removing
\* The place in nbq of what stands at k in nbq'.
<1> DEFINE Old(k) == IF k < i THEN k ELSE k + 1
<1>5. /\ \A k \in 1..Len(nbq') : Old(k) \in 1..Len(nbq) /\ nbq'[k] = nbq[Old(k)]
      /\ \A j, k \in 1..Len(nbq') : j < k => Old(j) < Old(k)
  BY <1>3, <1>4
<1>6. TrackerTypeOK' /\ QueueInv'
  <2>1. \A k \in 1..Len(nbq') : nbq'[k].cfg \in 1..nbg.cfg /\ nbq'[k].ts <= nbq'[k].cfg
    BY <1>2, <1>5
  <2> QED BY <1>1, <1>4, <2>1 DEF TrackerInv, TrackerTypeOK, QueueInv
<1>7. StageInv' /\ OnceInv' /\ MeasuredFromItsOwnStamp'
  BY <1>1 DEF TrackerInv, StageInv, OnceInv, MeasuredFromItsOwnStamp, StampLost
\* Up to the k-th event of nbq, at m of nbq': what was held is held, or lost with the i-th.
<1>8. ASSUME NEW g \in Int, NEW k \in Int, NEW m \in Int, k <= Len(nbq) + 1,
             m >= k - 1, k <= i => m >= k, Held(lost, gen, nbTs, nbq, g, k)
      PROVE  Held(lost', gen, nbTs, nbq', g, m)
  <2>1. CASE (gen = g /\ nbTs = g) \/ [cfg |-> g, ts |-> g] \in lost
    BY <1>1, <2>1 DEF Held
  <2>2. CASE \E j \in 1..(k - 1) : nbq[j].cfg = g /\ nbq[j].ts = g
    <3>1. PICK j \in 1..(k - 1) : nbq[j].cfg = g /\ nbq[j].ts = g
      BY <2>2
    <3>2. CASE j = i
      <4>1. nbq[i] = [cfg |-> g, ts |-> g]
        BY <1>3, <3>1, <3>2 DEF NbRec
      <4> QED BY <1>1, <4>1 DEF Held
    <3>3. CASE j < i
      <4>1. j \in 1..(m - 1) /\ j \in 1..Len(nbq') /\ nbq'[j] = nbq[j]
        BY <1>3, <1>4, <1>8, <3>1, <3>3
      <4> QED BY <3>1, <4>1 DEF Held
    <3>4. CASE j > i
      <4>1. j - 1 \in 1..(m - 1) /\ j - 1 \in 1..Len(nbq') /\ ~ (j - 1 < i) /\ (j - 1) + 1 = j
        BY <1>3, <1>4, <1>8, <3>1, <3>4
      <4>2. nbq'[j - 1] = nbq[j]
        BY <1>4, <4>1
      <4> QED BY <3>1, <4>1, <4>2 DEF Held
    <3> QED BY <1>3, <3>1, <3>2, <3>3, <3>4
  <2> QED BY <1>8, <2>1, <2>2 DEF Held
<1>9. ASSUME Patient PROVE OrderInv'
  <2>0. Near /\ Rising /\ BumpsHeld /\ LatestHeld /\ OwnStamp
    BY <1>9 DEF TrackerInv, OrderInv
  <2>1. Near'
    BY <1>1, <1>5, <2>0 DEF Near
  <2>2. Rising'
    <3> SUFFICES ASSUME NEW j \in 1..Len(nbq'), NEW k \in 1..Len(nbq'), j < k
                 PROVE  /\ nbq'[j].cfg <= nbq'[k].cfg
                        /\ nbq'[j].cfg = nbq'[k].cfg /\ nbq'[k].cfg > since => nbq'[k].ts = nbq'[k].cfg
      BY <1>1 DEF Rising
    <3>1. PICK oj \in 1..Len(nbq), ok \in 1..Len(nbq) : oj < ok /\ nbq'[j] = nbq[oj] /\ nbq'[k] = nbq[ok]
      BY <1>5
    <3> QED BY <2>0, <3>1 DEF Rising
  <2>3. BumpsHeld'
    <3> SUFFICES ASSUME NEW k \in 1..Len(nbq'), nbq'[k].cfg > since, nbq'[k].ts = nbq'[k].cfg - 1
                 PROVE  gen < nbq'[k].cfg /\ Held(lost', gen, nbTs, nbq', nbq'[k].cfg - 1, k)
      BY <1>1 DEF BumpsHeld
    <3>1. PICK o \in 1..Len(nbq) : o = Old(k) /\ nbq'[k] = nbq[o]
      BY <1>5
    <3>2. gen < nbq[o].cfg /\ Held(lost, gen, nbTs, nbq, nbq[o].cfg - 1, o)
      BY <2>0, <3>1 DEF BumpsHeld
    <3>3. nbq[o].cfg - 1 \in Int
      BY <1>2, <3>1
    <3>4. k \in Int /\ o \in Int /\ o <= Len(nbq) + 1 /\ k >= o - 1 /\ (o <= i => k >= o)
      BY <1>3, <1>4, <3>1
    <3> QED BY <1>8, <3>1, <3>2, <3>3, <3>4
  <2>4. LatestHeld'
    <3> SUFFICES ASSUME cachesUp, since <= nbg.cfg, nbg.cfg < MaxGen, nbg.ts = nbg.cfg
                 PROVE  Held(lost', gen, nbTs, nbq', nbg.cfg, Len(nbq') + 1)
      BY <1>1 DEF LatestHeld
    <3>1. Held(lost, gen, nbTs, nbq, nbg.cfg, Len(nbq) + 1)
      BY <2>0 DEF LatestHeld
    <3>2. nbg.cfg \in Int
      BY DEF TrackerInv, TrackerTypeOK
    <3>3. Len(nbq') + 1 = Len(nbq) /\ ~ (Len(nbq) + 1 <= i) /\ Len(nbq) \in Int
      BY <1>3, <1>4
    <3> QED BY <1>8, <3>1, <3>2, <3>3
  <2>5. OwnStamp'
    BY <1>1, <2>0 DEF OwnStamp, StampLost
  <2> QED BY <2>1, <2>2, <2>3, <2>4, <2>5 DEF OrderInv
<1> QED BY <1>6, <1>7, <1>9 DEF TrackerInv

\* Seeding: NB_Global first, Chassis_Private after.
LEMMA Seeding ==
    ASSUME TrackerInv, SeedNB \/ SeedSB
    PROVE  TrackerInv'
<1> USE GenFacts
<1>1. nbg.cfg \in 1..MaxGen /\ nbg.ts \in 0..nbg.cfg
  BY DEF TrackerInv, TrackerTypeOK, QueueInv
<1>2. CASE SeedNB
  <2>1. /\ UNCHANGED <<lost, nbg, acks, cachesUp, nbq, sbq, last, log, times, lives>>
        /\ since' = nbg.cfg /\ stage' = "seeding" /\ stage = "subscribed"
        /\ \/ cachesUp /\ gen' = nbg.cfg /\ nbTs' = nbg.ts
           \/ ~ cachesUp /\ UNCHANGED <<gen, nbTs>>
    BY <1>2 DEF SeedNB
  <2>2. TrackerTypeOK' /\ QueueInv'
    BY <1>1, <2>1 DEF TrackerInv, TrackerTypeOK, QueueInv
  <2>3. StageInv' /\ OnceInv'
    BY <1>1, <2>1 DEF TrackerInv, StageInv, OnceInv
  <2>4. MeasuredFromItsOwnStamp'
    BY <2>1, SinceMoves
  <2>5. ASSUME Patient PROVE OrderInv'
    <3>0. /\ Near /\ Rising /\ gen' \in Nat /\ gen' <= nbg.cfg
          /\ \A k \in 1..Len(nbq) : nbq[k].cfg \in 1..nbg.cfg
      BY <1>1, <2>1, <2>5 DEF TrackerInv, OrderInv, TrackerTypeOK, QueueInv
    <3>1. Near' /\ Rising' /\ BumpsHeld'
      BY <1>1, <2>1, <3>0, SMTT(30) DEF Near, Rising, BumpsHeld
    <3>2. LatestHeld' /\ OwnStamp'
      BY <1>1, <2>1, <3>0, SMTT(30) DEF LatestHeld, OwnStamp, StampLost, Held
    <3> QED BY <3>1, <3>2 DEF OrderInv
  <2> QED BY <2>2, <2>3, <2>4, <2>5 DEF TrackerInv
<1>3. CASE SeedSB
  <2>1. /\ UNCHANGED <<lost, nbg, acks, cachesUp, nbq, sbq, gen, nbTs, log, times, since, lives>>
        /\ stage' = "running" /\ stage = "seeding"
        /\ last' = [c \in TrackedChassis |-> IF cachesUp /\ acks[c] # -1 THEN acks[c] ELSE last[c]]
    BY <1>3 DEF SeedSB
  <2>2. \A c \in TrackedChassis : last'[c] \in Gens /\ last'[c] <= nbg.cfg
    BY <2>1 DEF TrackerInv, TrackerTypeOK, QueueInv
  <2>3. TrackerTypeOK' /\ QueueInv'
    BY <2>1, <2>2 DEF TrackerInv, TrackerTypeOK, QueueInv
  <2>4. log = {} /\ StageInv' /\ MeasuredFromItsOwnStamp'
    BY <2>1 DEF TrackerInv, StageInv, MeasuredFromItsOwnStamp, StampLost
  <2>5. OrderInv => OrderInv'
    BY <2>1 DEF OrderInv, Near, Rising, BumpsHeld, LatestHeld, OwnStamp, StampLost
  <2>6. OnceInv'
    <3>1. \A c \in TrackedChassis : last[c] = 0 /\ last'[c] \in Nat
      BY <2>1, <2>2 DEF TrackerInv, StageInv
    <3>2. \A c \in TrackedChassis, g \in Gens : times[<<c, g>>] \in Nat /\ lives[c] \in Nat
      BY DEF TrackerInv, TrackerTypeOK
    <3>3. ASSUME NEW c \in TrackedChassis, NEW g \in Gens
          PROVE  times[<<c, g>>] + (IF last'[c] < g THEN 1 ELSE 0) <= 1 + lives[c]
      <4>1. times[<<c, g>>] + (IF last[c] < g THEN 1 ELSE 0) <= 1 + lives[c]
        BY DEF TrackerInv, OnceInv
      <4>2. g \in Nat /\ last[c] <= last'[c] /\ last[c] \in Nat /\ last'[c] \in Nat
        BY <3>1
      <4>3. times[<<c, g>>] \in Nat /\ lives[c] \in Nat
        BY <3>2
      <4> QED BY <4>1, <4>2, <4>3
    <3> QED BY <2>1, <3>3 DEF OnceInv
  <2> QED BY <2>3, <2>4, <2>5, <2>6 DEF TrackerInv
<1> QED BY <1>2, <1>3

\* What an NB event does to the generation and the timestamp held.
Takes(e) ==
    IF Accepts(e) THEN gen' = e.cfg /\ nbTs' = Stamped(e) ELSE UNCHANGED <<gen, nbTs>>

LEMMA NbTakes ==
    ASSUME TrackerInv, NEW e \in NbRec, e.ts <= e.cfg, e.cfg \in 1..nbg.cfg, Takes(e)
    PROVE  /\ gen' \in Gens /\ nbTs' \in Gens /\ nbTs' <= gen' /\ gen <= gen' /\ gen' <= nbg.cfg
           /\ gen' = gen \/ gen' = e.cfg
           /\ \A g \in Gens : g >= 1 /\ gen = g /\ nbTs = g /\ e.cfg <= g => gen' = g /\ nbTs' = g
           /\ \A g \in Gens : g >= 1 /\ e.cfg = g /\ e.ts = g /\ gen <= g => gen' = g /\ nbTs' = g
<1> USE GenFacts
<1>1. gen \in Nat /\ nbTs \in Nat /\ gen \in Gens /\ nbTs \in Gens /\ nbTs <= gen /\ gen <= nbg.cfg
  BY DEF TrackerInv, TrackerTypeOK, StageInv
<1>2. e.cfg \in Nat /\ e.ts \in Nat /\ e.cfg \in Gens /\ e.ts \in Gens /\ nbg.cfg \in Nat
  BY DEF NbRec, TrackerInv, TrackerTypeOK
<1>3. CASE ~ Accepts(e)
  <2>1. gen' = gen /\ nbTs' = nbTs
    BY <1>3 DEF Takes
  <2>2. \A g \in Gens : g >= 1 /\ e.cfg = g /\ e.ts = g /\ gen <= g => gen = g /\ nbTs = g
    BY <1>1, <1>2, <1>3 DEF Accepts
  <2> QED BY <1>1, <1>2, <2>1, <2>2
<1>4. CASE Accepts(e)
  <2>1. gen' = e.cfg /\ nbTs' = Stamped(e)
    BY <1>4 DEF Takes
  <2>2. e.cfg >= gen /\ (e.cfg = gen => e.ts > 0 /\ (nbTs = 0 \/ e.ts > nbTs))
    BY <1>1, <1>2, <1>4 DEF Accepts
  <2>3. nbTs' \in {0, e.ts} /\ (e.ts > nbTs => nbTs' = e.ts) /\ (e.cfg = gen => nbTs' = e.ts)
    BY <1>1, <1>2, <2>1 DEF Stamped
  <2> QED BY <1>1, <1>2, <2>1, <2>2, <2>3
<1> QED BY <1>3, <1>4

\* The NB queue moves on: the order of stamps and bumps stays what it is.
LEMMA NbMoves ==
    ASSUME TrackerInv, nbq # <<>>, nbq' = Tail(nbq), Takes(nbq[1]),
           UNCHANGED <<nbg, cachesUp, since, lost>>
    PROVE  /\ nbq' \in Seq(NbRec)
           /\ \A k \in 1..Len(nbq') : nbq'[k].cfg \in 1..nbg.cfg /\ nbq'[k].ts <= nbq'[k].cfg
           /\ gen' \in Gens /\ nbTs' \in Gens /\ nbTs' <= gen' /\ gen' <= nbg.cfg
           /\ Patient => OrderInv'
<1> USE GenFacts
<1>1. PICK e : e = nbq[1]
  OBVIOUS
<1>2. /\ nbq \in Seq(NbRec)
      /\ \A k \in 1..Len(nbq) : nbq[k].cfg \in 1..nbg.cfg /\ nbq[k].ts <= nbq[k].cfg
  BY DEF TrackerInv, QueueInv
<1>3. /\ nbq' \in Seq(NbRec) /\ Len(nbq') = Len(nbq) - 1 /\ Len(nbq) \in Nat /\ Len(nbq) >= 1
      /\ \A k \in 1..Len(nbq') : k + 1 \in 1..Len(nbq) /\ nbq'[k] = nbq[k + 1]
  BY <1>2, Tailing
<1>4. \A k \in 1..Len(nbq') : nbq'[k].cfg \in 1..nbg.cfg /\ nbq'[k].ts <= nbq'[k].cfg
  BY <1>2, <1>3
<1>5. \A k \in 1..Len(nbq) : nbq[k] \in NbRec /\ nbq[k].cfg \in Gens /\ nbq[k].ts \in Gens
  <2>1. \A k \in 1..Len(nbq) : nbq[k] \in NbRec
    BY <1>2, ElementOfSeq
  <2> QED BY <2>1 DEF NbRec
<1>6. e \in NbRec /\ e.ts <= e.cfg /\ e.cfg \in 1..nbg.cfg /\ Takes(e) /\ e.cfg \in Gens /\ e.ts \in Gens
  BY <1>1, <1>2, <1>3, <1>5
<1>7. /\ gen' \in Gens /\ nbTs' \in Gens /\ nbTs' <= gen' /\ gen <= gen' /\ gen' <= nbg.cfg
      /\ gen' = gen \/ gen' = e.cfg
      /\ \A g \in Gens : g >= 1 /\ gen = g /\ nbTs = g /\ e.cfg <= g => gen' = g /\ nbTs' = g
      /\ \A g \in Gens : g >= 1 /\ e.cfg = g /\ e.ts = g /\ gen <= g => gen' = g /\ nbTs' = g
  BY <1>6, NbTakes
<1>8. ASSUME NEW g \in Gens, g >= 1, gen <= g, e.cfg <= g, NEW k \in 1..Len(nbq),
             Held(lost, gen, nbTs, nbq, g, k + 1)
      PROVE  Held(lost', gen', nbTs', nbq', g, k)
  <2>1. CASE gen = g /\ nbTs = g
    BY <1>7, <1>8, <2>1 DEF Held
  <2>2. CASE \E j \in 1..k : nbq[j].cfg = g /\ nbq[j].ts = g
    <3>1. PICK j \in 1..k : nbq[j].cfg = g /\ nbq[j].ts = g
      BY <2>2
    <3>2. CASE j = 1
      BY <1>1, <1>7, <1>8, <3>1, <3>2 DEF Held
    <3>3. CASE j # 1
      <4>1. j - 1 \in 1..(k - 1) /\ j - 1 \in 1..Len(nbq')
        BY <1>3, <3>1, <3>3
      <4>2. nbq'[j - 1] = nbq[j]
        <5>1. nbq'[j - 1] = nbq[(j - 1) + 1] /\ (j - 1) + 1 = j
          BY <1>3, <4>1
        <5> QED BY <5>1
      <4> QED BY <3>1, <4>1, <4>2 DEF Held
    <3> QED BY <3>2, <3>3
  <2>3. (k + 1) - 1 = k
    OBVIOUS
  <2>4. CASE [cfg |-> g, ts |-> g] \in lost
    BY <2>4 DEF Held
  <2> QED BY <1>8, <2>1, <2>2, <2>3, <2>4 DEF Held
<1>9. ASSUME Patient PROVE OrderInv'
  <2>0. /\ Near /\ Rising /\ BumpsHeld /\ LatestHeld /\ OwnStamp
        /\ gen \in Nat /\ nbTs \in Nat /\ nbTs <= gen /\ gen <= nbg.cfg /\ since \in Nat /\ since >= 1
        /\ nbg.cfg \in 1..MaxGen
    BY <1>9 DEF TrackerInv, OrderInv, TrackerTypeOK, StageInv, QueueInv
  <2>1. Near'
    BY <1>3, <2>0 DEF Near
  <2>2. Rising'
    <3> SUFFICES ASSUME NEW j \in 1..Len(nbq'), NEW k \in 1..Len(nbq'), j < k
                 PROVE  /\ nbq'[j].cfg <= nbq'[k].cfg
                        /\ nbq'[j].cfg = nbq'[k].cfg /\ nbq'[k].cfg > since => nbq'[k].ts = nbq'[k].cfg
      BY DEF Rising
    <3>1. /\ j + 1 \in 1..Len(nbq) /\ k + 1 \in 1..Len(nbq) /\ j + 1 < k + 1
          /\ nbq'[j] = nbq[j + 1] /\ nbq'[k] = nbq[k + 1]
      BY <1>3
    <3> QED BY <2>0, <3>1 DEF Rising
  <2>3. BumpsHeld'
    <3> SUFFICES ASSUME NEW k \in 1..Len(nbq'), nbq'[k].cfg > since, nbq'[k].ts = nbq'[k].cfg - 1
                 PROVE  gen' < nbq'[k].cfg /\ Held(lost', gen', nbTs', nbq', nbq'[k].cfg - 1, k)
      BY DEF BumpsHeld
    <3>1. PICK x : x = nbq[k + 1]
      OBVIOUS
    <3>2. nbq'[k] = x /\ k + 1 \in 1..Len(nbq) /\ 1 < k + 1 /\ 1 \in 1..Len(nbq) /\ k \in 1..Len(nbq)
      BY <1>3, <3>1
    <3>3. x.cfg \in Gens /\ x.cfg > since /\ x.ts = x.cfg - 1
      BY <1>5, <3>1, <3>2
    <3>4. e.cfg <= x.cfg /\ e.cfg # x.cfg
      <4>1. /\ nbq[1].cfg <= nbq[k + 1].cfg
            /\ nbq[1].cfg = nbq[k + 1].cfg /\ nbq[k + 1].cfg > since => nbq[k + 1].ts = nbq[k + 1].cfg
        BY <2>0, <3>2 DEF Rising
      <4>2. x.ts # x.cfg
        BY <3>3
      <4> QED BY <1>1, <3>1, <3>3, <4>1, <4>2
    <3>5. gen < x.cfg /\ Held(lost, gen, nbTs, nbq, x.cfg - 1, k + 1)
      BY <2>0, <3>1, <3>2, <3>3 DEF BumpsHeld
    <3>6. x.cfg - 1 \in Gens /\ x.cfg - 1 >= 1 /\ gen <= x.cfg - 1 /\ e.cfg <= x.cfg - 1
      <4>1. x.cfg \in Nat /\ x.cfg <= MaxGen /\ e.cfg \in Nat /\ gen \in Nat
        BY <1>6, <2>0, <3>3
      <4>2. x.cfg > since /\ since \in Nat /\ since >= 1 /\ gen < x.cfg
        BY <2>0, <3>3, <3>5
      <4> QED BY <3>4, <4>1, <4>2
    <3>7. Held(lost', gen', nbTs', nbq', x.cfg - 1, k)
      BY <1>8, <3>2, <3>5, <3>6
    <3>8. gen' < x.cfg
      <4>1. gen' = gen \/ gen' = e.cfg
        BY <1>7
      <4>2. x.cfg \in Nat /\ e.cfg \in Nat /\ gen \in Nat
        BY <1>6, <2>0, <3>3
      <4> QED BY <3>6, <4>1, <4>2
    <3> QED BY <3>2, <3>7, <3>8
  <2>4. LatestHeld'
    <3> SUFFICES ASSUME cachesUp, since <= nbg.cfg, nbg.cfg < MaxGen, nbg.ts = nbg.cfg
                 PROVE  Held(lost', gen', nbTs', nbq', nbg.cfg, Len(nbq') + 1)
      BY DEF LatestHeld
    <3>1. Held(lost, gen, nbTs, nbq, nbg.cfg, Len(nbq) + 1)
      BY <2>0 DEF LatestHeld
    <3>2. Len(nbq') + 1 = Len(nbq) /\ Len(nbq) \in 1..Len(nbq)
      BY <1>3
    <3>3. nbg.cfg \in Gens /\ nbg.cfg >= 1 /\ e.cfg <= nbg.cfg
      BY <1>6, <2>0
    <3>4. Held(lost', gen', nbTs', nbq', nbg.cfg, Len(nbq))
      BY <1>8, <2>0, <3>1, <3>2, <3>3
    <3> QED BY <3>2, <3>4
  <2>5. OwnStamp'
    <3> SUFFICES ASSUME gen' > since
                 PROVE  nbTs' \in {0, gen'} \/ [cfg |-> gen' - 1, ts |-> gen' - 1] \in lost
      BY DEF OwnStamp, StampLost
    <3>1. CASE ~ Accepts(e)
      BY <1>6, <2>0, <3>1 DEF Takes, OwnStamp, StampLost
    <3>2. CASE Accepts(e)
      <4>1. gen' = e.cfg /\ nbTs' = Stamped(e) /\ e.cfg >= gen /\ e.cfg > since
        BY <1>6, <2>0, <3>2 DEF Takes, Accepts
      <4>2. CASE e.ts = e.cfg
        BY <1>6, <2>0, <4>1, <4>2 DEF Stamped
      <4>3. CASE e.ts # e.cfg
        <5>1. 1 \in 1..Len(nbq) /\ e.ts = e.cfg - 1
          BY <1>1, <1>3, <2>0, <4>3 DEF Near
        <5>2. gen < e.cfg /\ Held(lost, gen, nbTs, nbq, e.cfg - 1, 1)
          BY <1>1, <2>0, <4>1, <5>1 DEF BumpsHeld
        <5>3. CASE nbTs = e.cfg - 1
          <6>1. e.cfg > gen /\ e.ts <= nbTs
            BY <1>6, <2>0, <5>1, <5>2, <5>3
          <6> QED BY <4>1, <6>1 DEF Stamped
        <5>4. CASE [cfg |-> e.cfg - 1, ts |-> e.cfg - 1] \in lost
          BY <4>1, <5>4
        <5> QED BY <5>2, <5>3, <5>4 DEF Held
      <4> QED BY <4>2, <4>3
    <3> QED BY <3>1, <3>2
  <2> QED BY <2>1, <2>2, <2>3, <2>4, <2>5 DEF OrderInv
<1> QED BY <1>3, <1>4, <1>7, <1>9

\* Recording generation g of some chassis that were below it and have reached it.
LEMMA Recording ==
    ASSUME TrackerInv, NEW who \in SUBSET TrackedChassis, NEW g \in Gens, NEW ts \in Gens, NEW reply,
           Record(who, g, ts, reply),
           \A c \in who : reply[c] \in Gens /\ last[c] < g /\ reply[c] >= g /\ reply[c] <= nbg.cfg,
           Patient /\ g > since => ts = g \/ StampLost(g - 1), UNCHANGED <<since, lives, lost>>
    PROVE  /\ last' \in [TrackedChassis -> Gens] /\ \A c \in TrackedChassis : last'[c] <= nbg.cfg
           /\ times' \in [TrackedChassis \X Gens -> Nat] /\ log' \subseteq LogRec
           /\ OnceInv' /\ MeasuredFromItsOwnStamp'
<1> USE GenFacts
<1>1. /\ last \in [TrackedChassis -> Gens] /\ times \in [TrackedChassis \X Gens -> Nat]
      /\ \A c \in TrackedChassis : last[c] <= nbg.cfg /\ lives[c] \in Nat
      /\ log \subseteq LogRec /\ OnceInv /\ MeasuredFromItsOwnStamp
  BY DEF TrackerInv, TrackerTypeOK, StageInv
<1>2. PICK stamped : stamped = {c \in who : reply[c] > 0}
  OBVIOUS
<1>3. /\ last' = [c \in TrackedChassis |-> IF c \in who THEN reply[c] ELSE last[c]]
      /\ log' = log \cup {[chassis |-> c, gen |-> g, ts |-> ts, ack |-> reply[c]] : c \in stamped}
      /\ times' = [x \in TrackedChassis \X Gens |->
                     IF x[1] \in stamped /\ x[2] = g THEN times[x] + 1 ELSE times[x]]
  BY <1>2 DEF Record
<1>4. last' \in [TrackedChassis -> Gens] /\ \A c \in TrackedChassis : last'[c] <= nbg.cfg
  BY <1>1, <1>3
<1>5. times' \in [TrackedChassis \X Gens -> Nat]
  BY <1>1, <1>3
<1>6. \A r \in log' \ log : r \in LogRec /\ r.gen = g /\ r.ts = ts /\ r.ack >= g
  <2>1. \A c \in stamped : c \in TrackedChassis /\ reply[c] \in Gens /\ reply[c] >= g
    BY <1>2
  <2>2. ASSUME NEW r \in log' \ log PROVE r \in LogRec /\ r.gen = g /\ r.ts = ts /\ r.ack >= g
    <3>1. PICK c \in stamped : r = [chassis |-> c, gen |-> g, ts |-> ts, ack |-> reply[c]]
      BY <1>3, <2>2
    <3> QED BY <2>1, <3>1 DEF LogRec
  <2> QED BY <2>2
<1>7. log' \subseteq LogRec
  BY <1>1, <1>6
<1>8. MeasuredFromItsOwnStamp'
  BY <1>1, <1>6 DEF MeasuredFromItsOwnStamp, StampLost
<1>9. OnceInv'
  <2> SUFFICES ASSUME NEW c \in TrackedChassis, NEW h \in Gens
               PROVE  times'[<<c, h>>] + (IF last'[c] < h THEN 1 ELSE 0) <= 1 + lives[c]
    BY DEF OnceInv
  <2>1. /\ times[<<c, h>>] + (IF last[c] < h THEN 1 ELSE 0) <= 1 + lives[c]
        /\ times[<<c, h>>] \in Nat /\ lives[c] \in Nat /\ last[c] \in Nat /\ last'[c] \in Nat
        /\ h \in Nat /\ g \in Nat
    BY <1>1, <1>4 DEF OnceInv
  <2>2. times'[<<c, h>>] = IF c \in stamped /\ h = g THEN times[<<c, h>>] + 1 ELSE times[<<c, h>>]
    BY <1>3
  <2>3. last'[c] >= last[c]
    <3>1. CASE c \in who
      BY <1>3, <2>1, <3>1
    <3>2. CASE c \notin who
      BY <1>3, <2>1, <3>2
    <3> QED BY <3>1, <3>2
  <2>4. CASE c \in stamped /\ h = g
    <3>1. last[c] < h /\ last'[c] >= h
      BY <1>2, <1>3, <2>4
    <3> QED BY <2>1, <2>2, <2>4, <3>1
  <2>5. CASE ~ (c \in stamped /\ h = g)
    BY <2>1, <2>2, <2>3, <2>5
  <2> QED BY <2>4, <2>5
<1> QED BY <1>4, <1>5, <1>7, <1>8, <1>9

LEMMA NbHandled ==
    ASSUME TrackerInv, handleNBGlobalUpdate
    PROVE  TrackerInv'
<1> USE GenFacts
<1>1. PICK e : e = nbq[1]
  OBVIOUS
<1>2. /\ nbq \in Seq(NbRec) /\ nbq # <<>> /\ stage = "running" /\ nbq' = Tail(nbq)
      /\ UNCHANGED <<lost, nbg, acks, cachesUp, sbq, stage, since, upsets, lives>>
  BY DEF handleNBGlobalUpdate, TrackerInv, QueueInv
<1>3. Head(nbq) = e /\ 1 \in 1..Len(nbq) /\ e \in NbRec
  BY <1>1, <1>2, Tailing
<1>4. /\ IF ~ Accepts(e) THEN UNCHANGED <<gen, nbTs, last, log, times>>
         ELSE /\ gen' = e.cfg /\ nbTs' = Stamped(e)
              /\ IF Stamped(e) = 0 THEN UNCHANGED <<last, log, times>>
                 ELSE Record(CaughtUp(e), e.cfg, Stamped(e), acks)
  BY <1>3 DEF handleNBGlobalUpdate
<1>5. Takes(nbq[1])
  BY <1>1, <1>4 DEF Takes
<1>6. /\ nbq' \in Seq(NbRec)
      /\ \A k \in 1..Len(nbq') : nbq'[k].cfg \in 1..nbg.cfg /\ nbq'[k].ts <= nbq'[k].cfg
      /\ gen' \in Gens /\ nbTs' \in Gens /\ nbTs' <= gen' /\ gen' <= nbg.cfg
      /\ Patient => OrderInv'
  BY <1>2, <1>5, NbMoves
<1>7. /\ last' \in [TrackedChassis -> Gens] /\ \A c \in TrackedChassis : last'[c] <= nbg.cfg
      /\ times' \in [TrackedChassis \X Gens -> Nat] /\ log' \subseteq LogRec
      /\ OnceInv' /\ MeasuredFromItsOwnStamp'
  <2>1. CASE UNCHANGED <<last, log, times>>
    <3>1. OnceInv' /\ MeasuredFromItsOwnStamp'
      BY <1>2, <2>1 DEF TrackerInv, OnceInv, MeasuredFromItsOwnStamp, StampLost
    <3> QED BY <2>1, <3>1 DEF TrackerInv, TrackerTypeOK, StageInv
  <2>2. CASE Accepts(e) /\ Stamped(e) # 0 /\ Record(CaughtUp(e), e.cfg, Stamped(e), acks)
    <3>1. gen' = e.cfg /\ nbTs' = Stamped(e)
      BY <1>4, <2>2
    <3>2. e.cfg \in Gens /\ Stamped(e) \in Gens
      BY <1>6, <3>1
    <3>3. Patient /\ e.cfg > since => Stamped(e) = e.cfg \/ StampLost(e.cfg - 1)
      BY <1>2, <1>6, <2>2, <3>1 DEF OrderInv, OwnStamp, StampLost
    <3>4. CaughtUp(e) \in SUBSET TrackedChassis
      BY DEF CaughtUp
    <3>5. \A c \in CaughtUp(e) : acks[c] \in Gens /\ last[c] < e.cfg /\ acks[c] >= e.cfg /\ acks[c] <= nbg.cfg
      BY <3>2 DEF CaughtUp, TrackerInv, TrackerTypeOK, QueueInv
    <3> QED BY <1>2, <2>2, <3>2, <3>3, <3>4, <3>5, Recording
  <2> QED BY <1>4, <2>1, <2>2
<1>8. TrackerTypeOK'
  BY <1>2, <1>6, <1>7 DEF TrackerInv, TrackerTypeOK
<1>9. QueueInv'
  BY <1>2, <1>6 DEF TrackerInv, QueueInv
<1>10. StageInv'
  BY <1>2, <1>6, <1>7 DEF TrackerInv, StageInv
<1> QED BY <1>6, <1>7, <1>8, <1>9, <1>10 DEF TrackerInv

\* The SB queue moves on.
LEMMA SbMoves ==
    ASSUME TrackerInv, sbq # <<>>, sbq' = Tail(sbq)
    PROVE  /\ sbq' \in Seq(SbRec) /\ \A k \in 1..Len(sbq') : sbq'[k].cfg <= nbg.cfg
           /\ Head(sbq) \in SbRec /\ Head(sbq).cfg <= nbg.cfg
<1>1. sbq \in Seq(SbRec) /\ \A k \in 1..Len(sbq) : sbq[k].cfg <= nbg.cfg
  BY DEF TrackerInv, QueueInv
<1>2. /\ sbq' \in Seq(SbRec) /\ Head(sbq) = sbq[1] /\ Head(sbq) \in SbRec /\ 1 \in 1..Len(sbq)
      /\ \A k \in 1..Len(sbq') : k + 1 \in 1..Len(sbq) /\ sbq'[k] = sbq[k + 1]
  BY <1>1, Tailing
<1> QED BY <1>1, <1>2

LEMMA SbHandled ==
    ASSUME TrackerInv, handleChassisPrivateUpdate \/ handleChassisEvent
    PROVE  TrackerInv'
<1> USE GenFacts
<1>1. /\ UNCHANGED <<lost, nbg, acks, cachesUp, nbq, stage, gen, nbTs, since>>
      /\ stage = "running" /\ sbq # <<>> /\ sbq' = Tail(sbq)
  BY DEF handleChassisPrivateUpdate, handleChassisEvent
<1>2. PICK e : e = Head(sbq)
  OBVIOUS
<1>3. /\ sbq' \in Seq(SbRec) /\ \A k \in 1..Len(sbq') : sbq'[k].cfg <= nbg.cfg
      /\ e \in SbRec /\ e.cfg <= nbg.cfg
  BY <1>1, <1>2, SbMoves
<1>4. e.cfg \in Gens /\ e.chassis \in TrackedChassis /\ gen \in Gens /\ nbTs \in Gens
  BY <1>3 DEF SbRec, TrackerInv, TrackerTypeOK
<1>5. /\ last' \in [TrackedChassis -> Gens] /\ \A c \in TrackedChassis : last'[c] <= nbg.cfg
      /\ times' \in [TrackedChassis \X Gens -> Nat] /\ log' \subseteq LogRec
      /\ lives' \in [TrackedChassis -> Nat]
      /\ OnceInv' /\ MeasuredFromItsOwnStamp'
  <2>1. CASE handleChassisPrivateUpdate
    <3>1. IF News(e) THEN Record({e.chassis}, gen, nbTs, [c \in TrackedChassis |-> e.cfg])
          ELSE UNCHANGED <<last, log, times>>
      BY <1>2, <2>1 DEF handleChassisPrivateUpdate
    <3>2. lives' = lives /\ lives \in [TrackedChassis -> Nat]
      BY <2>1 DEF handleChassisPrivateUpdate, TrackerInv, TrackerTypeOK
    <3>3. CASE ~ News(e)
      <4>1. UNCHANGED <<last, log, times>>
        BY <3>1, <3>3
      <4>2. OnceInv' /\ MeasuredFromItsOwnStamp'
        BY <1>1, <3>2, <4>1 DEF TrackerInv, OnceInv, MeasuredFromItsOwnStamp, StampLost
      <4> QED BY <3>2, <4>1, <4>2 DEF TrackerInv, TrackerTypeOK, StageInv
    <3>4. CASE News(e)
      <4>1. PICK reply : reply = [c \in TrackedChassis |-> e.cfg]
        OBVIOUS
      <4>2. Record({e.chassis}, gen, nbTs, reply)
        BY <3>1, <3>4, <4>1
      <4>3. reply[e.chassis] = e.cfg
        BY <1>4, <4>1
      <4>4. last[e.chassis] < gen /\ e.cfg >= gen /\ nbTs > 0
        BY <3>4 DEF News
      <4>5. \A c \in {e.chassis} : reply[c] \in Gens /\ last[c] < gen /\ reply[c] >= gen /\ reply[c] <= nbg.cfg
        BY <1>3, <1>4, <4>3, <4>4
      <4>6. Patient /\ gen > since => nbTs = gen \/ StampLost(gen - 1)
        BY <1>4, <4>4 DEF TrackerInv, OrderInv, OwnStamp
      <4>7. {e.chassis} \in SUBSET TrackedChassis
        BY <1>4
      <4> QED BY <1>1, <1>4, <3>2, <4>2, <4>5, <4>6, <4>7, Recording
    <3> QED BY <3>3, <3>4
  <2>2. CASE handleChassisEvent
    <3>1. /\ last' = [last EXCEPT ![e.chassis] = 0] /\ log' = log /\ times' = times
          /\ lives' = [lives EXCEPT ![e.chassis] = lives[e.chassis] + 1]
      BY <1>2, <2>2 DEF handleChassisEvent
    <3>2. /\ last \in [TrackedChassis -> Gens] /\ lives \in [TrackedChassis -> Nat]
          /\ times \in [TrackedChassis \X Gens -> Nat]
          /\ nbg.cfg \in Nat /\ \A c \in TrackedChassis : last[c] <= nbg.cfg
      BY DEF TrackerInv, TrackerTypeOK
    <3>3. last' \in [TrackedChassis -> Gens] /\ \A c \in TrackedChassis : last'[c] <= nbg.cfg
      BY <1>4, <3>1, <3>2
    <3>4. lives' \in [TrackedChassis -> Nat]
      BY <1>4, <3>1, <3>2
    <3>5. MeasuredFromItsOwnStamp' /\ log' \subseteq LogRec
      BY <1>1, <3>1 DEF TrackerInv, StageInv, MeasuredFromItsOwnStamp, StampLost
    <3>6. OnceInv'
      <4> SUFFICES ASSUME NEW c \in TrackedChassis, NEW g \in Gens
                   PROVE  times'[<<c, g>>] + (IF last'[c] < g THEN 1 ELSE 0) <= 1 + lives'[c]
        BY DEF OnceInv
      <4>1. /\ times[<<c, g>>] + (IF last[c] < g THEN 1 ELSE 0) <= 1 + lives[c]
            /\ times[<<c, g>>] \in Nat /\ lives[c] \in Nat
        BY <3>2 DEF TrackerInv, OnceInv
      <4>2. CASE c = e.chassis
        <5>1. lives'[c] = lives[c] + 1 /\ times'[<<c, g>>] = times[<<c, g>>]
          BY <1>4, <3>1, <3>2, <4>2
        <5> QED BY <4>1, <5>1
      <4>3. CASE c # e.chassis
        <5>1. lives'[c] = lives[c] /\ last'[c] = last[c] /\ times'[<<c, g>>] = times[<<c, g>>]
          BY <1>4, <3>1, <3>2, <4>3
        <5> QED BY <4>1, <5>1
      <4> QED BY <4>2, <4>3
    <3> QED BY <3>1, <3>2, <3>3, <3>4, <3>5, <3>6
  <2> QED BY <2>1, <2>2
<1>6. TrackerTypeOK'
  BY <1>1, <1>5 DEF TrackerInv, TrackerTypeOK
<1>7. QueueInv'
  BY <1>1, <1>3 DEF TrackerInv, QueueInv
<1>8. StageInv'
  BY <1>1, <1>5 DEF TrackerInv, StageInv
<1>9. OrderInv => OrderInv'
  BY <1>1 DEF OrderInv, Near, Rising, BumpsHeld, LatestHeld, OwnStamp, StampLost
<1> QED BY <1>5, <1>6, <1>7, <1>8, <1>9 DEF TrackerInv

(* The inductive invariant of the tracker (propagation_tracker.go): a bump *)
(* on its way finds the earlier timestamp held, or on its way before it,   *)
(* or dropped by the hub, and a chassis can be recorded for a generation only from below it.      *)
THEOREM TrackerInvariant == TrackerSpec => []TrackerInv
<1>1. TrackerInit => TrackerInv
  <2> SUFFICES ASSUME TrackerInit PROVE TrackerInv
    OBVIOUS
  <2> USE GenFacts
  <2>1. /\ nbg \in [cfg : {1}, ts : {0, 1}] /\ acks \in [TrackedChassis -> {0, 1}] /\ cachesUp = TRUE
        /\ nbq = <<>> /\ sbq = <<>> /\ stage = "subscribed" /\ gen = 0 /\ nbTs = 0
        /\ last = [c \in TrackedChassis |-> 0] /\ log = {}
        /\ times = [x \in TrackedChassis \X Gens |-> 0] /\ since = MaxGen
        /\ lives = [c \in TrackedChassis |-> 0]
    BY DEF TrackerInit
  <2>2. nbg.cfg = 1 /\ nbg.ts \in {0, 1} /\ nbg \in [cfg : Gens, ts : Gens]
    BY <2>1
  <2>3. TrackerTypeOK
    BY <2>1, <2>2, SMTT(30) DEF TrackerTypeOK
  <2>4. QueueInv
    BY <2>1, <2>2 DEF QueueInv
  <2>5. StageInv /\ MeasuredFromItsOwnStamp
    BY <2>1 DEF StageInv, MeasuredFromItsOwnStamp, StampLost
  <2>6. OnceInv
    BY <2>1 DEF OnceInv
  <2>7. OrderInv
    BY <2>1, <2>2 DEF OrderInv, Near, Rising, BumpsHeld, LatestHeld, OwnStamp, StampLost
  <2> QED BY <2>3, <2>4, <2>5, <2>6, <2>7 DEF TrackerInv
<1>2. TrackerInv /\ [TrackerNext]_trackerVars => TrackerInv'
  <2> SUFFICES ASSUME TrackerInv, [TrackerNext]_trackerVars PROVE TrackerInv'
    OBVIOUS
  <2>1. CASE UNCHANGED trackerVars
    <3>1. UNCHANGED <<lost, nbg, acks, cachesUp, nbq, sbq, stage, gen, nbTs, last, log, times, since, lives>>
      BY <2>1 DEF trackerVars
    <3>2. TrackerTypeOK' /\ QueueInv' /\ StageInv' /\ OnceInv' /\ MeasuredFromItsOwnStamp'
      BY <3>1 DEF TrackerInv, TrackerTypeOK, QueueInv, StageInv, OnceInv, MeasuredFromItsOwnStamp, StampLost
    <3>3. OrderInv => OrderInv'
      BY <3>1 DEF OrderInv, Near, Rising, BumpsHeld, LatestHeld, OwnStamp, StampLost
    <3> QED BY <3>2, <3>3 DEF TrackerInv
  <2>2. CASE Bump \/ Stamp
    BY <2>2, NbWrite
  <2>3. CASE CachesPurged
    BY <2>3, CachesGo
  <2>4. CASE Reload
    BY <2>4, CachesReturn
  <2>5. ASSUME NEW c \in TrackedChassis, Ack(c) \/ ChassisLeaves(c) PROVE TrackerInv'
    BY <2>5, SbWrite
  <2>9. ASSUME NEW i \in DOMAIN nbq, NbOverflow(i) PROVE TrackerInv'
    BY <2>9, NbDropped
  <2>10. ASSUME NEW i \in DOMAIN sbq, SbOverflow(i) PROVE TrackerInv'
    BY <2>10, SbDropped
  <2>6. CASE SeedNB \/ SeedSB
    BY <2>6, Seeding
  <2>7. CASE handleNBGlobalUpdate
    BY <2>7, NbHandled
  <2>8. CASE handleChassisPrivateUpdate \/ handleChassisEvent
    BY <2>8, SbHandled
  <2> QED BY <2>1, <2>2, <2>3, <2>4, <2>5, <2>6, <2>7, <2>8, <2>9, <2>10 DEF TrackerNext
<1> QED BY <1>1, <1>2, PTL DEF TrackerSpec, TrackerSafety

(* A generation is measured from its own timestamp, unless the event of    *)
(* the timestamp before it was dropped, and a chassis is recorded once for *)
(* it, for every number of chassis and generations, every interleaving of  *)
(* the two databases and every loss at the hub (propagation_tracker.go).   *)
THEOREM TrackerIsSound == TrackerSpec => []TrackerHolds
<1>1. TrackerInv => TrackerHolds
  <2> SUFFICES ASSUME TrackerInv PROVE RecordedOnce
    BY DEF TrackerInv, TrackerHolds
  <2> SUFFICES ASSUME NEW c \in TrackedChassis, NEW g \in Gens PROVE times[<<c, g>>] <= 1 + lives[c]
    BY DEF RecordedOnce
  <2>1. times[<<c, g>>] + (IF last[c] < g THEN 1 ELSE 0) <= 1 + lives[c]
    BY DEF TrackerInv, OnceInv
  <2>2. times[<<c, g>>] \in Nat /\ lives[c] \in Nat
    BY DEF TrackerInv, TrackerTypeOK
  <2> QED BY <2>1, <2>2
<1> QED BY <1>1, TrackerInvariant, PTL

---------------------------------------------------------------------------
(* Start-up and shutdown *)

(* The deferred functions in the order in which run registers them.        *)
Defers == {"closeSnapshot", "registry", "stops", "pool", "store", "collector", "manager"}
Rank(d) ==
    IF d = "closeSnapshot" THEN 0 ELSE IF d = "registry" THEN 1 ELSE IF d = "stops" THEN 2
    ELSE IF d = "pool" THEN 3 ELSE IF d = "store" THEN 4 ELSE IF d = "collector" THEN 5 ELSE 6

\* All that is registered when a step is due has a smaller rank.
StepNames == {"snapshot", "cluster", "built", "pool", "store", "collector", "engine", "manager",
              "listen", "serve"}
StepRank(s) ==
    IF s = "snapshot" THEN 0 ELSE IF s \in {"cluster", "built"} THEN 1 ELSE IF s = "pool" THEN 3
    ELSE IF s = "store" THEN 4 ELSE IF s = "collector" THEN 5
    ELSE IF s \in {"engine", "manager"} THEN 6 ELSE 7

ClusterKinds == {"flowdiff", "propagation", "alerts"}
AllParts == {Part(k, i) : k \in ClusterKinds \cup {"dbs"}, i \in 1..NClusters}
            \cup {Snapshot, Pool, Store, Collector, Engine, Manager}

\* The deferred function that ends a part.
Owner(p) ==
    IF p.kind = "snapshot" THEN "closeSnapshot" ELSE IF p.kind = "dbs" THEN "registry"
    ELSE IF p.kind \in ClusterKinds \cup {"engine"} THEN "stops" ELSE p.kind

Names(s)    == {s[i] : i \in 1..Len(s)}
Ordered(s)  == \A i, j \in 1..Len(s) : i < j => Rank(s[i]) < Rank(s[j])
Below(s, n) == \A i \in 1..Len(s) : Rank(s[i]) < n

\* The defers form a stack that follows the order of the steps.
StackInv ==
    /\ defers \in Seq(Defers) /\ Ordered(defers)
    /\ phase = "boot" => Below(defers, StepRank(step))
    /\ phase = "boot" /\ StepRank(step) >= 3 => "stops" \in Names(defers)

(* Whatever is up will be ended by a function on the stack, but for a      *)
(* cluster before all are built, and for the parts of one that a failing   *)
(* buildCluster leaves.                                                    *)
OwnedInv ==
    /\ up \subseteq AllParts
    /\ \A p \in up : \/ Owner(p) \in Names(defers)
                     \/ phase = "boot" /\ step \in {"cluster", "built"} /\ p.kind \in ClusterKinds \cup {"dbs"}
                     \/ phase \in {"unwinding", "gone"} /\ reason = "build" /\ p.kind \in ClusterKinds
    /\ \A p \in up : Owner(p) = "stops" => p \in stopFuncs
    /\ \A p \in stopFuncs : p.kind \in ClusterKinds \cup {"engine"}
    /\ phase \in {"unwinding", "gone"} /\ reason = "build" => \A p \in up : p.kind # "dbs"

\* Steps come in order: what a later part uses is up when it is started.
StackOrder ==
    /\ mode \in [offline : BOOLEAN, pool : BOOLEAN, write : BOOLEAN] /\ step \in StepNames
    /\ clusters \in Nat /\ clusters <= ClusterCount
    /\ phase = "boot" => reason = "none"
    /\ phase \in {"boot", "serving", "draining"} => reason \in {"none", "signal"}
    /\ phase \in {"boot", "serving", "draining"} =>
          /\ step = "snapshot" => up = {} /\ clusters = 0
          /\ step = "cluster" => clusters < ClusterCount
          /\ step \notin {"snapshot", "cluster"} => clusters >= 1
          /\ mode.offline /\ step # "snapshot" => Snapshot \in up
          /\ clusters >= 1 => DBs(1) \in up
          /\ StepRank(step) >= 5 => Store \in up

StartInv ==
    /\ StartTypeOK /\ StackInv /\ OwnedInv /\ StackOrder
    /\ NothingOrphaned /\ DrainedFirst /\ inFlight \subseteq HttpRequests
    /\ phase = "gone" => defers = <<>>

LEMMA NClustersFact == NClusters \in Nat /\ NClusters >= 1
BY StartConstants

LEMMA WantedFact ==
    ASSUME mode \in [offline : BOOLEAN, pool : BOOLEAN, write : BOOLEAN]
    PROVE  ClusterCount \in Nat /\ 1 <= ClusterCount /\ ClusterCount <= NClusters
BY NClustersFact DEF ClusterCount

LEMMA PartKinds ==
    ASSUME NEW p \in AllParts
    PROVE  /\ p.kind = "snapshot" => p = Snapshot
           /\ p.kind = "pool" => p = Pool
           /\ p.kind = "store" => p = Store
           /\ p.kind = "collector" => p = Collector
           /\ p.kind = "manager" => p = Manager
           /\ p.kind = "engine" => p = Engine
           /\ p.kind \in ClusterKinds \cup {"dbs"} => p.of \in 1..NClusters /\ p = Part(p.kind, p.of)
           /\ p.kind \in ClusterKinds \cup {"dbs", "snapshot", "pool", "store", "collector", "engine", "manager"}
<1>1. CASE p \in {Snapshot, Pool, Store, Collector, Engine, Manager}
  BY <1>1 DEF Snapshot, Pool, Store, Collector, Engine, Manager, Part, ClusterKinds
<1>2. ASSUME NEW k \in ClusterKinds \cup {"dbs"}, NEW i \in 1..NClusters, p = Part(k, i)
      PROVE  p.kind = k /\ p.of = i /\ p = Part(p.kind, p.of)
  BY <1>2 DEF Part
<1>3. CASE \E k \in ClusterKinds \cup {"dbs"}, i \in 1..NClusters : p = Part(k, i)
  BY <1>2, <1>3 DEF ClusterKinds
<1> QED BY <1>1, <1>3 DEF AllParts

LEMMA PartsAreParts ==
    /\ \A i \in 1..NClusters : DBs(i) \in AllParts /\ Parts(i) \subseteq AllParts
    /\ {Snapshot, Pool, Store, Collector, Engine, Manager} \subseteq AllParts
    /\ Snapshot.kind = "snapshot" /\ Pool.kind = "pool" /\ Store.kind = "store"
    /\ Collector.kind = "collector" /\ Engine.kind = "engine" /\ Manager.kind = "manager"
    /\ \A i : DBs(i).kind = "dbs" /\ \A p \in Parts(i) : p.kind \in ClusterKinds /\ p.of = i
<1>1. \A i \in 1..NClusters : DBs(i) \in AllParts /\ Parts(i) \subseteq AllParts
  <2> SUFFICES ASSUME NEW i \in 1..NClusters PROVE DBs(i) \in AllParts /\ Parts(i) \subseteq AllParts
    OBVIOUS
  <2>1. \A k \in ClusterKinds \cup {"dbs"} : Part(k, i) \in AllParts
    BY DEF AllParts
  <2>2. "flowdiff" \in ClusterKinds /\ "propagation" \in ClusterKinds /\ "alerts" \in ClusterKinds
    BY DEF ClusterKinds
  <2> QED BY <2>1, <2>2 DEF DBs, Parts
<1>2. {Snapshot, Pool, Store, Collector, Engine, Manager} \subseteq AllParts
  BY DEF AllParts
<1>3. /\ Snapshot.kind = "snapshot" /\ Pool.kind = "pool" /\ Store.kind = "store"
      /\ Collector.kind = "collector" /\ Engine.kind = "engine" /\ Manager.kind = "manager"
  BY DEF Snapshot, Pool, Store, Collector, Engine, Manager, Part
<1>4. \A i : DBs(i).kind = "dbs" /\ \A p \in Parts(i) : p.kind \in ClusterKinds /\ p.of = i
  BY DEF DBs, Parts, Part, ClusterKinds
<1> QED BY <1>1, <1>2, <1>3, <1>4

\* A part is ended before what it uses in the background.
LEMMA UsesRankBelow ==
    ASSUME NEW p \in AllParts, NEW q \in Uses(p)
    PROVE  Rank(Owner(q)) < Rank(Owner(p)) \/ p.kind = "engine"
<1>1. CASE p.kind \in ClusterKinds
  <2>1. q = DBs(p.of)
    BY <1>1 DEF Uses, ClusterKinds
  <2>2. Owner(q) = "registry" /\ Owner(p) = "stops"
    BY <1>1, <2>1, PartsAreParts DEF Owner, ClusterKinds
  <2> QED BY <2>2 DEF Rank
<1>2. CASE p.kind \in {"collector", "manager"}
  <2>1. q = Store \/ q = DBs(1)
    BY <1>2 DEF Uses
  <2>2. Owner(q) \in {"registry", "store"} /\ Owner(p) \in {"collector", "manager"}
    BY <1>2, <2>1, PartsAreParts DEF Owner, ClusterKinds
  <2> QED BY <2>2 DEF Rank
<1>3. CASE p.kind = "dbs"
  <2>1. q = Snapshot
    BY <1>3 DEF Uses
  <2>2. Owner(q) = "closeSnapshot" /\ Owner(p) = "registry"
    BY <1>3, <2>1, PartsAreParts DEF Owner, ClusterKinds
  <2> QED BY <2>2 DEF Rank
<1>4. CASE p.kind \in {"snapshot", "pool", "store"}
  BY <1>4 DEF Uses
<1> QED BY <1>1, <1>2, <1>3, <1>4, PartKinds

LEMMA Push ==
    ASSUME NEW s \in Seq(Defers), NEW d \in Defers, Ordered(s), Below(s, Rank(d))
    PROVE  /\ Append(s, d) \in Seq(Defers) /\ Ordered(Append(s, d))
           /\ \A n \in Nat : Rank(d) < n => Below(Append(s, d), n)
           /\ Names(Append(s, d)) = Names(s) \cup {d}
<1> DEFINE t == Append(s, d)
           l == Len(s)
<1>1. /\ l \in Nat /\ t \in Seq(Defers) /\ Len(t) = l + 1 /\ t[l + 1] = d
      /\ \A i \in 1..l : t[i] = s[i] /\ s[i] \in Defers
  OBVIOUS
<1>2. \A e \in Defers : Rank(e) \in Nat
  BY DEF Rank, Defers
<1> HIDE DEF t
<1>3. Ordered(t)
  <2> SUFFICES ASSUME NEW i \in 1..(l + 1), NEW j \in 1..(l + 1), i < j PROVE Rank(t[i]) < Rank(t[j])
    BY <1>1 DEF Ordered
  <2>1. i \in 1..l
    BY <1>1
  <2>2. CASE j = l + 1
    BY <1>1, <2>1, <2>2 DEF Below
  <2>3. CASE j # l + 1
    <3>1. j \in 1..l
      BY <1>1, <2>3
    <3> QED BY <1>1, <2>1, <3>1 DEF Ordered
  <2> QED BY <2>2, <2>3
<1>4. ASSUME NEW n \in Nat, Rank(d) < n PROVE Below(t, n)
  <2> SUFFICES ASSUME NEW i \in 1..(l + 1) PROVE Rank(t[i]) < n
    BY <1>1 DEF Below
  <2>1. CASE i = l + 1
    BY <1>1, <1>4, <2>1
  <2>2. CASE i # l + 1
    <3>1. i \in 1..l
      BY <1>1, <2>2
    <3>2. t[i] = s[i] /\ s[i] \in Defers /\ Rank(s[i]) < Rank(d)
      BY <1>1, <3>1 DEF Below
    <3>3. Rank(s[i]) \in Nat /\ Rank(d) \in Nat
      BY <1>2, <3>2
    <3> QED BY <1>4, <3>2, <3>3
  <2> QED BY <2>1, <2>2
<1>5. Names(t) = Names(s) \cup {d}
  <2>1. \A i \in 1..(l + 1) : i \in 1..l \/ i = l + 1
    BY <1>1
  <2>2. \A i \in 1..l : i \in 1..(l + 1)
    BY <1>1
  <2>3. l + 1 \in 1..(l + 1)
    BY <1>1
  <2>4. Names(t) = {t[i] : i \in 1..(l + 1)} /\ Names(s) = {s[i] : i \in 1..l}
    BY <1>1 DEF Names
  <2> HIDE DEF l
  <2> QED BY <1>1, <2>1, <2>2, <2>3, <2>4
<1> QED BY <1>1, <1>3, <1>4, <1>5 DEF t

LEMMA StartInitInv == StartInit => StartInv
<1> SUFFICES ASSUME StartInit PROVE StartInv
  OBVIOUS
<1>1. up = {} /\ stopFuncs = {} /\ defers = <<>> /\ phase = "boot" /\ reason = "none"
      /\ inFlight = {} /\ overrun = {} /\ orphaned = FALSE /\ clusters = 0
      /\ mode \in [offline : BOOLEAN, pool : BOOLEAN, write : BOOLEAN]
  BY DEF StartInit
<1>2. step \in {"snapshot", "cluster"} /\ (mode.offline => step = "snapshot")
  BY DEF StartInit
<1>3. StackInv
  <2>1. defers \in Seq(Defers) /\ Len(defers) = 0
    BY <1>1
  <2>2. ~ (StepRank(step) >= 3)
    BY <1>2 DEF StepRank
  <2> QED BY <2>1, <2>2 DEF StackInv, Ordered, Below
<1>4. OwnedInv
  BY <1>1 DEF OwnedInv
<1>5. ClusterCount \in Nat /\ 0 < ClusterCount
  BY <1>1, WantedFact
<1>6. StepRank(step) < 5
  BY <1>2 DEF StepRank
<1>7. StackOrder
  BY <1>1, <1>2, <1>5, <1>6 DEF StackOrder, StepNames, StepRank
<1> QED BY <1>1, <1>3, <1>4, <1>7 DEF StartInv, StartTypeOK, NothingOrphaned, DrainedFirst

(* A start step: what it starts has a function that will end it, and what  *)
(* it uses is up.                                                          *)
LEMMA BootKeeps ==
    ASSUME StartInv, phase = "boot", phase' \in {"boot", "serving"}, NEW N \in SUBSET AllParts, NEW D,
           up' = up \cup N, Names(defers') = Names(defers) \cup D, StackInv', StackOrder',
           stopFuncs' = stopFuncs \cup {p \in N : Owner(p) = "stops"},
           step \in {"cluster", "built"} => {"registry", "stops"} \subseteq D \/ (phase' = "boot" /\ step' \in {"cluster", "built"}),
           \A p \in N : \/ Owner(p) \in Names(defers')
                        \/ phase' = "boot" /\ step' \in {"cluster", "built"} /\ p.kind \in ClusterKinds \cup {"dbs"},
           \A p \in N : Uses(p) \subseteq up',
           UNCHANGED <<mode, reason, inFlight, overrun, orphaned>>
    PROVE  StartInv'
<1>1. reason' = "none" /\ reason = "none"
  BY DEF StartInv, StackOrder
<1>2. up \subseteq AllParts /\ \A p \in up : Uses(p) \subseteq up
  BY DEF StartInv, OwnedInv, StartTypeOK
<1>3. \A p \in up : Uses(p)' = Uses(p)
  BY DEF Uses, DBs, Store, Snapshot, Part
<1>4. \A p \in up' : Uses(p)' \subseteq up'
  BY <1>2, <1>3 DEF Uses, DBs, Store, Snapshot, Part
<1>5. StartTypeOK'
  BY <1>4 DEF StartInv, StartTypeOK
<1>6. \A p \in N : Owner(p) = "stops" => p.kind \in ClusterKinds \cup {"engine"}
  <2> SUFFICES ASSUME NEW p \in N, Owner(p) = "stops" PROVE p.kind \in ClusterKinds \cup {"engine"}
    OBVIOUS
  <2>1. p \in AllParts
    OBVIOUS
  <2> QED BY <2>1, PartKinds DEF Owner
<1>7. ASSUME NEW p \in up
      PROVE  \/ Owner(p) \in Names(defers')
             \/ phase' = "boot" /\ step' \in {"cluster", "built"} /\ p.kind \in ClusterKinds \cup {"dbs"}
  <2>1. CASE Owner(p) \in Names(defers)
    BY <2>1
  <2>2. CASE step \in {"cluster", "built"} /\ p.kind \in ClusterKinds \cup {"dbs"}
    <3>1. Owner(p) \in {"registry", "stops"}
      BY <2>2 DEF Owner, ClusterKinds
    <3> QED BY <2>2, <3>1
  <2> QED BY <2>1, <2>2 DEF StartInv, OwnedInv
<1>8. OwnedInv'
  <2>1. \A p \in up' :
             \/ Owner(p) \in Names(defers')
             \/ phase' = "boot" /\ step' \in {"cluster", "built"} /\ p.kind \in ClusterKinds \cup {"dbs"}
    BY <1>7
  <2>2. up' \subseteq AllParts
    BY <1>2
  <2>3. \A p \in up' : Owner(p) = "stops" => p \in stopFuncs'
    BY DEF StartInv, OwnedInv
  <2>4. \A p \in stopFuncs' : p.kind \in ClusterKinds \cup {"engine"}
    BY <1>6 DEF StartInv, OwnedInv
  <2>5. phase' \notin {"unwinding", "gone"}
    OBVIOUS
  <2> QED BY <2>1, <2>2, <2>3, <2>4, <2>5 DEF OwnedInv
<1> QED BY <1>5, <1>8 DEF StartInv, NothingOrphaned, DrainedFirst

\* A step that registers one function.
LEMMA PushKeeps ==
    ASSUME StartInv, phase = "boot", phase' = "boot", NEW x \in AllParts, NEW d \in Defers,
           up' = up \cup {x}, defers' = Append(defers, d), Owner(x) = d, d # "stops",
           StepRank(step) = Rank(d), Rank(d) < StepRank(step'), StepRank(step') >= 3 => StepRank(step) >= 3,
           StackOrder',
           step \notin {"cluster", "built"}, Uses(x) \subseteq up',
           UNCHANGED <<clusters, stopFuncs, mode, reason, inFlight, overrun, orphaned>>
    PROVE  StartInv'
<1>1. defers \in Seq(Defers) /\ Ordered(defers) /\ Below(defers, Rank(d))
  BY DEF StartInv, StackInv
<1>2. StepRank(step') \in Nat
  BY DEF StepRank
<1>4. Names(defers') = Names(defers) \cup {d}
  BY <1>1, Push
<1>3. StackInv'
  <2>1. defers' \in Seq(Defers) /\ Ordered(defers') /\ Below(defers', StepRank(step'))
    BY <1>1, <1>2, Push
  <2>2. StepRank(step') >= 3 => "stops" \in Names(defers')
    BY <1>4 DEF StartInv, StackInv
  <2> QED BY <2>1, <2>2 DEF StackInv
<1>5. {x} \in SUBSET AllParts /\ {p \in {x} : Owner(p) = "stops"} = {}
  OBVIOUS
<1> QED BY <1>3, <1>4, <1>5, BootKeeps

LEMMA StartSnapshotInv == ASSUME StartInv, StartSnapshot PROVE StartInv'
<1>1. phase = "boot" /\ phase' = "boot" /\ step = "snapshot" /\ step' = "cluster" /\ up = {} /\ clusters = 0
  BY DEF StartSnapshot, Starting, Following, Rest, StartInv, StackOrder
<1>2. UNCHANGED <<clusters, stopFuncs, mode, reason, inFlight, overrun, orphaned>>
      /\ up' = up \cup {Snapshot} /\ defers' = Append(defers, "closeSnapshot")
  BY DEF StartSnapshot, Rest
<1>3. StepRank(step) = 0 /\ StepRank(step') = 1 /\ Rank("closeSnapshot") = 0 /\ "closeSnapshot" \in Defers
  BY <1>1 DEF StepRank, Rank, Defers
<1>4. Owner(Snapshot) = "closeSnapshot" /\ Uses(Snapshot) = {} /\ Snapshot \in AllParts
  BY PartsAreParts DEF Owner, Uses
<1>5. ClusterCount' = ClusterCount /\ ClusterCount \in Nat /\ 1 <= ClusterCount
  BY <1>2, WantedFact DEF ClusterCount, StartInv, StackOrder
<1>6. StackOrder'
  BY <1>1, <1>2, <1>3, <1>5 DEF StartInv, StackOrder, StepNames
<1> QED BY <1>1, <1>2, <1>3, <1>4, <1>6, PushKeeps

LEMMA BuildClusterInv == ASSUME StartInv, BuildCluster PROVE StartInv'
<1> DEFINE c == clusters + 1
<1>1. /\ phase = "boot" /\ phase' = "boot" /\ step = "cluster" /\ clusters' = c
      /\ step' = IF c < ClusterCount THEN "cluster" ELSE "built"
      /\ UNCHANGED <<defers, mode, reason, inFlight, overrun, orphaned>>
      /\ up' = up \cup {DBs(c)} \cup Parts(c) /\ stopFuncs' = stopFuncs \cup Parts(c)
  BY DEF BuildCluster, Starting, Following, Rest
<1>2. /\ clusters \in Nat /\ clusters < ClusterCount /\ ClusterCount \in Nat /\ ClusterCount <= NClusters
      /\ NClusters \in Nat /\ ClusterCount' = ClusterCount /\ ClusterCount >= 1
  BY <1>1, WantedFact, NClustersFact DEF StartInv, StackOrder, ClusterCount
<1>3. c \in 1..NClusters /\ c >= 1 /\ c <= ClusterCount /\ (step' = "cluster" => c < ClusterCount)
  BY <1>1, <1>2
<1>4. step' \in {"cluster", "built"} /\ StepRank(step') = 1 /\ StepRank(step) = 1
  BY <1>1 DEF StepRank
<1> DEFINE N == {DBs(c)} \cup Parts(c)
<1>5. N \in SUBSET AllParts /\ up' = up \cup N
  BY <1>1, <1>3, PartsAreParts
<1>6. \A p \in N : p.kind \in ClusterKinds \cup {"dbs"}
  BY PartsAreParts
<1>7. {p \in N : Owner(p) = "stops"} = Parts(c)
  <2>1. Owner(DBs(c)) = "registry"
    BY PartsAreParts DEF Owner, ClusterKinds
  <2>2. \A p \in Parts(c) : Owner(p) = "stops"
    BY PartsAreParts DEF Owner, ClusterKinds
  <2> QED BY <2>1, <2>2
<1>8. StackInv'
  BY <1>1, <1>4 DEF StartInv, StackInv
<1>9. DBs(1) \in up'
  <2>1. CASE clusters >= 1
    BY <1>1, <2>1 DEF StartInv, StackOrder
  <2>2. CASE clusters = 0
    BY <1>1, <2>2
  <2> QED BY <1>2, <2>1, <2>2
<1>10. mode.offline => Snapshot \in up'
  BY <1>1 DEF StartInv, StackOrder
<1>11. StackOrder'
  <2>1. mode' \in [offline : BOOLEAN, pool : BOOLEAN, write : BOOLEAN] /\ step' \in StepNames /\ reason' = "none"
    BY <1>1, <1>4 DEF StartInv, StackOrder, StepNames
  <2>2. ClusterCount' = ClusterCount /\ clusters' \in Nat /\ clusters' <= ClusterCount /\ clusters' >= 1
    BY <1>1, <1>2, <1>3
  <2>3. step' # "snapshot" /\ ~ (StepRank(step') >= 5)
    BY <1>4
  <2> QED BY <1>1, <1>3, <1>9, <1>10, <2>1, <2>2, <2>3 DEF StackOrder
<1>12. \A p \in N : Uses(p) \subseteq up'
  <2>1. Uses(DBs(c)) \subseteq up'
    BY <1>10, PartsAreParts DEF Uses
  <2>2. \A p \in Parts(c) : Uses(p) = {DBs(c)}
    BY PartsAreParts DEF Uses, ClusterKinds
  <2> QED BY <1>5, <2>1, <2>2
<1>13. Names(defers') = Names(defers) \cup {}
  BY <1>1
<1> HIDE DEF N, c
<1> QED BY <1>1, <1>4, <1>5, <1>6, <1>7, <1>8, <1>11, <1>12, <1>13, BootKeeps

LEMMA ClustersBuiltInv == ASSUME StartInv, ClustersBuilt PROVE StartInv'
<1>1. /\ phase = "boot" /\ phase' = "boot" /\ step = "built" /\ step' \in {"pool", "store"}
      /\ UNCHANGED <<clusters, up, stopFuncs, mode, reason, inFlight, overrun, orphaned>>
      /\ defers' = Append(Append(defers, "registry"), "stops")
  BY DEF ClustersBuilt, Starting, Following, Rest, Deferred
<1>2. Rank("registry") = 1 /\ Rank("stops") = 2 /\ {"registry", "stops"} \subseteq Defers
      /\ StepRank(step) = 1 /\ StepRank(step') \in {3, 4}
  BY <1>1 DEF Rank, Defers, StepRank
<1>3. defers \in Seq(Defers) /\ Ordered(defers) /\ Below(defers, 1)
  BY <1>1, <1>2 DEF StartInv, StackInv
<1> DEFINE t == Append(defers, "registry")
<1>4. t \in Seq(Defers) /\ Ordered(t) /\ Below(t, 2) /\ Names(t) = Names(defers) \cup {"registry"}
  BY <1>2, <1>3, Push
<1> HIDE DEF t
<1>5. defers' = Append(t, "stops")
  BY <1>1 DEF t
<1>6. defers' \in Seq(Defers) /\ Ordered(defers') /\ Names(defers') = Names(t) \cup {"stops"}
      /\ \A n \in Nat : 2 < n => Below(defers', n)
  BY <1>2, <1>4, <1>5, Push
<1>7. StackInv'
  BY <1>2, <1>6 DEF StackInv
<1>8. ClusterCount' = ClusterCount
  BY <1>1 DEF ClusterCount
<1>9. StackOrder'
  BY <1>1, <1>2, <1>8 DEF StartInv, StackOrder, StepNames
<1>10. Names(defers') = Names(defers) \cup {"registry", "stops"}
  BY <1>4, <1>6
<1>11. up' = up \cup {} /\ stopFuncs' = stopFuncs \cup {p \in {} : Owner(p) = "stops"} /\ {} \in SUBSET AllParts
  BY <1>1
<1> QED BY <1>1, <1>7, <1>9, <1>10, <1>11, BootKeeps

\* What has been reached once the registry's defers are in place.
LEMMA LaterFacts ==
    ASSUME StartInv, phase = "boot", step \notin {"snapshot", "cluster"},
           UNCHANGED <<clusters, mode, reason>>, phase' \in {"boot", "serving"}, up \subseteq up',
           step' \in StepNames \ {"snapshot", "cluster"}, StepRank(step') >= 5 => Store \in up'
    PROVE  StackOrder'
<1>1. ClusterCount' = ClusterCount
  BY DEF ClusterCount
<1> QED BY <1>1 DEF StartInv, StackOrder

LEMMA StartPoolInv == ASSUME StartInv, StartPool \/ OpenStore PROVE StartInv'
<1>1. /\ phase = "boot" /\ phase' = "boot"
      /\ UNCHANGED <<clusters, stopFuncs, mode, reason, inFlight, overrun, orphaned>>
  BY DEF StartPool, OpenStore, Starting, Rest
<1>2. CASE StartPool
  <2>1. step = "pool" /\ step' = "store" /\ up' = up \cup {Pool} /\ defers' = Append(defers, "pool")
    BY <1>2 DEF StartPool, Starting, Following
  <2>2. StepRank(step) = 3 /\ StepRank(step') = 4 /\ Rank("pool") = 3 /\ "pool" \in Defers /\ step' \in StepNames
    BY <2>1 DEF StepRank, Rank, Defers, StepNames
  <2>3. Owner(Pool) = "pool" /\ Uses(Pool) = {} /\ Pool \in AllParts
    BY PartsAreParts DEF Owner, Uses, ClusterKinds
  <2>4. StackOrder'
    BY <1>1, <2>1, <2>2, LaterFacts
  <2> QED BY <1>1, <2>1, <2>2, <2>3, <2>4, PushKeeps
<1>3. CASE OpenStore
  <2>1. step = "store" /\ step' = "collector" /\ up' = up \cup {Store} /\ defers' = Append(defers, "store")
    BY <1>3 DEF OpenStore, Starting, Following
  <2>2. StepRank(step) = 4 /\ StepRank(step') = 5 /\ Rank("store") = 4 /\ "store" \in Defers /\ step' \in StepNames
    BY <2>1 DEF StepRank, Rank, Defers, StepNames
  <2>3. Owner(Store) = "store" /\ Uses(Store) = {} /\ Store \in AllParts
    BY PartsAreParts DEF Owner, Uses, ClusterKinds
  <2>4. StackOrder'
    BY <1>1, <2>1, <2>2, LaterFacts
  <2> QED BY <1>1, <2>1, <2>2, <2>3, <2>4, PushKeeps
<1> QED BY <1>2, <1>3

LEMMA StartCollectorInv == ASSUME StartInv, StartCollector \/ StartManager PROVE StartInv'
<1>1. /\ phase = "boot" /\ phase' = "boot"
      /\ UNCHANGED <<clusters, stopFuncs, mode, reason, inFlight, overrun, orphaned>>
  BY DEF StartCollector, StartManager, Starting, Rest
<1>2. step \in {"collector", "manager"}
  BY DEF StartCollector, StartManager, Starting
<1>3. StepRank(step) >= 5
  BY <1>2 DEF StepRank
<1>4. Store \in up /\ DBs(1) \in up
  BY <1>1, <1>2, <1>3 DEF StartInv, StackOrder
<1>5. CASE StartCollector
  <2>1. step = "collector" /\ step' \in {"engine", "manager"} /\ up' = up \cup {Collector} /\ defers' = Append(defers, "collector")
    BY <1>5 DEF StartCollector, Starting, Following
  <2>2. StepRank(step) = 5 /\ StepRank(step') = 6 /\ Rank("collector") = 5 /\ "collector" \in Defers /\ step' \in StepNames
    BY <2>1 DEF StepRank, Rank, Defers, StepNames
  <2>3. Owner(Collector) = "collector" /\ Uses(Collector) = {Store, DBs(1)} /\ Collector \in AllParts
    BY PartsAreParts DEF Owner, Uses, ClusterKinds
  <2>4. StackOrder'
    BY <1>1, <1>4, <2>1, <2>2, LaterFacts
  <2> QED BY <1>1, <1>4, <2>1, <2>2, <2>3, <2>4, PushKeeps
<1>6. CASE StartManager
  <2>1. step = "manager" /\ step' = "listen" /\ up' = up \cup {Manager} /\ defers' = Append(defers, "manager")
    BY <1>6 DEF StartManager, Starting, Following
  <2>2. StepRank(step) = 6 /\ StepRank(step') = 7 /\ Rank("manager") = 6 /\ "manager" \in Defers /\ step' \in StepNames
    BY <2>1 DEF StepRank, Rank, Defers, StepNames
  <2>3. Owner(Manager) = "manager" /\ Uses(Manager) = {Store, DBs(1)} /\ Manager \in AllParts
    BY PartsAreParts DEF Owner, Uses, ClusterKinds
  <2>4. StackOrder'
    BY <1>1, <1>4, <2>1, <2>2, LaterFacts
  <2> QED BY <1>1, <1>4, <2>1, <2>2, <2>3, <2>4, PushKeeps
<1> QED BY <1>5, <1>6

LEMMA StartEngineInv == ASSUME StartInv, StartEngine PROVE StartInv'
<1>1. /\ phase = "boot" /\ phase' = "boot" /\ step = "engine" /\ step' = "manager"
      /\ UNCHANGED <<clusters, defers, mode, reason, inFlight, overrun, orphaned>>
      /\ up' = up \cup {Engine} /\ stopFuncs' = stopFuncs \cup {Engine}
  BY DEF StartEngine, Starting, Following, Rest
<1>2. StepRank(step) = 6 /\ StepRank(step') = 6 /\ step' \in StepNames
  BY <1>1 DEF StepRank, StepNames
<1>3. Store \in up /\ DBs(1) \in up
  BY <1>1, <1>2 DEF StartInv, StackOrder
<1>4. StackInv' /\ "stops" \in Names(defers')
  BY <1>1, <1>2 DEF StartInv, StackInv
<1>5. StackOrder'
  BY <1>1, <1>2, <1>3, LaterFacts
<1>6. Owner(Engine) = "stops" /\ Uses(Engine) = {Store, DBs(1)} /\ Engine \in AllParts
  BY PartsAreParts DEF Owner, Uses, ClusterKinds
<1>7. {p \in {Engine} : Owner(p) = "stops"} = {Engine} /\ Names(defers') = Names(defers) \cup {}
      /\ {Engine} \in SUBSET AllParts
  BY <1>1, <1>6
<1> QED BY <1>1, <1>3, <1>4, <1>5, <1>6, <1>7, BootKeeps

LEMMA ListenInv == ASSUME StartInv, Listen PROVE StartInv'
<1>1. /\ phase = "boot" /\ phase' = "serving" /\ step = "listen" /\ step' = "serve"
      /\ UNCHANGED <<clusters, up, defers, stopFuncs, mode, reason, inFlight, overrun, orphaned>>
  BY DEF Listen, Starting, Following
<1>2. StepRank(step) = 7 /\ StepRank(step') = 7 /\ step' \in StepNames
  BY <1>1 DEF StepRank, StepNames
<1>3. Store \in up
  BY <1>1, <1>2 DEF StartInv, StackOrder
<1>4. StackInv'
  BY <1>1 DEF StartInv, StackInv
<1>5. StackOrder'
  BY <1>1, <1>2, <1>3, LaterFacts
<1>6. up' = up \cup {} /\ stopFuncs' = stopFuncs \cup {p \in {} : Owner(p) = "stops"} /\ {} \in SUBSET AllParts
      /\ Names(defers') = Names(defers) \cup {}
  BY <1>1
<1> QED BY <1>1, <1>4, <1>5, <1>6, BootKeeps

LEMMA StartFailsInv == ASSUME StartInv, StartFails PROVE StartInv'
<1>1. /\ phase = "boot" /\ phase' = "unwinding" /\ reason = "none" /\ step \notin {"built", "collector", "listen"}
      /\ UNCHANGED <<mode, step, clusters, defers, stopFuncs, inFlight, overrun, orphaned>>
  BY DEF StartFails, StartInv, StackOrder
<1>2. CASE step = "cluster"
  <2>1. reason' = "build" /\ up' = {p \in up : p.kind # "dbs"}
    BY <1>2 DEF StartFails
  <2>2. \A p \in up' : Owner(p) \in Names(defers) \/ p.kind \in ClusterKinds
    BY <1>1, <2>1 DEF StartInv, OwnedInv
  <2>3. OwnedInv'
    BY <1>1, <2>1, <2>2 DEF StartInv, OwnedInv
  <2>4. StackOrder' /\ StackInv'
    BY <1>1 DEF StartInv, StackOrder, StackInv, ClusterCount
  <2> QED BY <1>1, <2>1, <2>3, <2>4 DEF StartInv, StartTypeOK, NothingOrphaned, DrainedFirst
<1>3. CASE step # "cluster"
  <2>1. reason' = "error" /\ up' = up
    BY <1>3 DEF StartFails
  <2>2. \A p \in up' : Owner(p) \in Names(defers)
    BY <1>1, <1>3, <2>1 DEF StartInv, OwnedInv
  <2>3. OwnedInv'
    BY <1>1, <2>1, <2>2 DEF StartInv, OwnedInv
  <2>4. StackOrder' /\ StackInv'
    BY <1>1 DEF StartInv, StackOrder, StackInv, ClusterCount
  <2> QED BY <1>1, <2>1, <2>3, <2>4 DEF StartInv, StartTypeOK, NothingOrphaned, DrainedFirst
<1> QED BY <1>2, <1>3

\* Requests come and go, and run begins to end.
LEMMA ServingInv ==
    ASSUME StartInv, \/ Signal \/ ListenerFails \/ ShutdownReturns
                     \/ \E r \in HttpRequests : Accept(r) \/ Respond(r)
    PROVE  StartInv'
<1>1. /\ UNCHANGED <<mode, step, clusters, up, defers, stopFuncs, orphaned>>
      /\ phase \in {"boot", "serving", "draining", "unwinding"}
      /\ inFlight' \subseteq HttpRequests
  BY DEF Signal, ListenerFails, ShutdownReturns, Accept, Respond, StartInv, StartTypeOK
<1>2. \/ phase' = phase /\ reason' = reason /\ overrun' = overrun
         /\ (phase = "serving" \/ inFlight' \subseteq inFlight)
      \/ phase = "serving" /\ phase' = "draining" /\ overrun' = overrun /\ reason' = "signal"
      \/ phase \in {"serving", "draining"} /\ phase' = "unwinding" /\ inFlight' = inFlight
         /\ overrun' \subseteq HttpRequests
         /\ (reason' = "listener" \/ (inFlight \subseteq overrun' \cup WebSockets /\ reason' = reason))
  <2>0. overrun \subseteq HttpRequests /\ inFlight \subseteq HttpRequests
    BY DEF StartInv, StartTypeOK
  <2>1. CASE Signal
    BY <2>1 DEF Signal
  <2>2. CASE ListenerFails
    BY <2>0, <2>2 DEF ListenerFails
  <2>3. CASE ShutdownReturns
    BY <2>0, <2>3 DEF ShutdownReturns, Drained
  <2>4. CASE \E r \in HttpRequests : Accept(r) \/ Respond(r)
    BY <2>4 DEF Accept, Respond
  <2> QED BY <2>1, <2>2, <2>3, <2>4
<1>3. StackInv' /\ StackOrder'
  BY <1>1, <1>2 DEF StartInv, StackOrder, StackInv, ClusterCount
<1>4. phase \in {"serving", "draining"} => reason # "build"
  BY DEF StartInv, StackOrder
<1>5. OwnedInv'
  BY <1>1, <1>2, <1>4 DEF StartInv, OwnedInv
<1>7. StartTypeOK'
  <2>1. \A p : Uses(p)' = Uses(p)
    BY <1>1 DEF Uses, DBs, Store, Snapshot, Part
  <2> QED BY <1>1, <1>2, <2>1 DEF StartInv, StartTypeOK
<1>8. DrainedFirst'
  BY <1>1, <1>2 DEF StartInv, DrainedFirst
<1> QED BY <1>1, <1>2, <1>3, <1>5, <1>7, <1>8 DEF StartInv, NothingOrphaned

\* The stack without its top.
LEMMA Pop ==
    ASSUME NEW s \in Seq(Defers), Ordered(s), s # <<>>
    PROVE  LET t == SubSeq(s, 1, Len(s) - 1)
               d == s[Len(s)]
           IN  /\ t \in Seq(Defers) /\ Ordered(t) /\ d \in Defers
               /\ Names(s) = Names(t) \cup {d}
               /\ \A e \in Names(t) : Rank(e) < Rank(d)
<1> DEFINE l == Len(s)
           t == SubSeq(s, 1, l - 1)
           d == s[l]
<1>a. l # 0
  BY EmptySeq
<1>b. l \in Nat /\ \A i \in 1..l : s[i] \in Defers
  OBVIOUS
<1>c. \A n \in Nat : n # 0 => n >= 1 /\ n \in 1..n
  OBVIOUS
<1>d. l >= 1 /\ l \in 1..l
  BY <1>a, <1>b, <1>c
<1>1. l \in Nat /\ l >= 1 /\ d \in Defers /\ \A i \in 1..l : s[i] \in Defers
  BY <1>b, <1>d
<1>2. t \in Seq(Defers) /\ Len(t) = l - 1 /\ \A i \in 1..(l - 1) : t[i] = s[i]
  <2> DEFINE k == l - 1
  <2>0. l \in Nat /\ l >= 1
    BY <1>b, <1>d
  <2> HIDE DEF l, t
  <2>1. k \in Int /\ (IF 1 <= k THEN k - 1 + 1 ELSE 0) = l - 1 /\ k - 1 + 1 = l - 1
    BY <2>0
  <2>2. \A i \in 1..k : s[i] \in Defers
    BY <1>1
  <2>3. \A i \in 1..k : 1 + i - 1 = i
    OBVIOUS
  <2> HIDE DEF k
  <2>4. /\ SubSeq(s, 1, k) \in Seq(Defers) /\ Len(SubSeq(s, 1, k)) = IF 1 <= k THEN k - 1 + 1 ELSE 0
        /\ \A i \in 1..(k - 1 + 1) : SubSeq(s, 1, k)[i] = s[1 + i - 1]
    BY <2>1, <2>2, SubSeqProperties
  <2>5. t = SubSeq(s, 1, k)
    BY DEF k, t
  <2> QED BY <2>1, <2>3, <2>4, <2>5 DEF k
<1>3. /\ \A i \in 1..(l - 1) : i \in 1..l /\ i < l
      /\ \A i \in 1..l : i \in 1..(l - 1) \/ i = l
      /\ l \in 1..l
  BY <1>1
<1>4. Names(s) = {s[i] : i \in 1..l} /\ Names(t) = {t[i] : i \in 1..(l - 1)}
  BY <1>2 DEF Names
<1>5. \A i, j \in 1..l : i < j => Rank(s[i]) < Rank(s[j])
  BY DEF Ordered
<1> HIDE DEF t, l
<1>6. Names(s) = Names(t) \cup {d}
  BY <1>2, <1>3, <1>4
<1>7. \A e \in Names(t) : Rank(e) < Rank(d)
  BY <1>2, <1>3, <1>4, <1>5
<1>8. Ordered(t)
  BY <1>2, <1>3, <1>5 DEF Ordered
<1> QED BY <1>1, <1>2, <1>6, <1>7, <1>8 DEF t, l

LEMMA RunDeferInv == ASSUME StartInv, RunDefer PROVE StartInv'
<1> DEFINE d == defers[Len(defers)]
           t == SubSeq(defers, 1, Len(defers) - 1)
<1>1. /\ phase = "unwinding" /\ phase' = "unwinding" /\ defers # <<>>
      /\ up' = up \ Ends(d) /\ defers' = t
      /\ UNCHANGED <<mode, step, clusters, stopFuncs, reason, inFlight, overrun>>
      /\ orphaned' = (orphaned \/ \E p \in up' : Background(p) \cap (up \ up') # {})
  BY DEF RunDefer
<1>2. /\ t \in Seq(Defers) /\ Ordered(t) /\ d \in Defers /\ Names(defers) = Names(t) \cup {d}
      /\ \A e \in Names(t) : Rank(e) < Rank(d)
  BY <1>1, Pop DEF StartInv, StackInv
<1>3. \A e \in Defers : Rank(e) \in Nat
  BY DEF Rank, Defers
<1> HIDE DEF d, t
<1>4. up \subseteq AllParts /\ up' \subseteq up
  BY <1>1 DEF StartInv, OwnedInv
\* What the function ends is exactly what it owns.
<1>5. ASSUME NEW p \in up PROVE Owner(p) = d <=> p \in Ends(d)
  <2>1. p \in AllParts
    BY <1>4
  <2>2. /\ p.kind = "snapshot" => p = Snapshot
        /\ p.kind = "pool" => p = Pool
        /\ p.kind = "store" => p = Store
        /\ p.kind = "collector" => p = Collector
        /\ p.kind = "manager" => p = Manager
        /\ p.kind \in ClusterKinds \cup {"dbs", "snapshot", "pool", "store", "collector", "engine", "manager"}
    BY <2>1, PartKinds
  <2>3. /\ Snapshot.kind = "snapshot" /\ Pool.kind = "pool" /\ Store.kind = "store"
        /\ Collector.kind = "collector" /\ Engine.kind = "engine" /\ Manager.kind = "manager"
    BY PartsAreParts
  <2>4. p \in stopFuncs <=> Owner(p) = "stops"
    <3>1. p \in stopFuncs => p.kind \in ClusterKinds \cup {"engine"}
      BY DEF StartInv, OwnedInv
    <3>2. Owner(p) = "stops" => p \in stopFuncs
      BY DEF StartInv, OwnedInv
    <3> QED BY <3>1, <3>2 DEF Owner, ClusterKinds
  <2>5. CASE d = "stops"
    BY <2>4, <2>5 DEF Ends
  <2>6. CASE d = "registry"
    BY <2>2, <2>6 DEF Ends, Owner, ClusterKinds
  <2>7. CASE d = "closeSnapshot"
    BY <2>2, <2>3, <2>7 DEF Ends, Owner, ClusterKinds
  <2>8. CASE d \in {"pool", "store", "collector", "manager"}
    BY <2>2, <2>3, <2>8 DEF Ends, Owner, ClusterKinds
  <2> QED BY <1>2, <2>5, <2>6, <2>7, <2>8 DEF Defers
<1>6. \A p \in up' : Owner(p) # d
  BY <1>1, <1>4, <1>5
<1>7. ASSUME NEW p \in up', NEW q \in up \ up', q \in Background(p) PROVE FALSE
  <2>1. Owner(q) = d /\ q \in Uses(p) /\ p.kind # "engine" /\ p \in AllParts /\ p \in up
    BY <1>1, <1>4, <1>5, <1>7 DEF Background
  <2>2. Rank(d) < Rank(Owner(p))
    BY <2>1, UsesRankBelow
  <2>3. CASE Owner(p) \in Names(defers)
    <3>1. Owner(p) \in Names(t)
      BY <1>2, <1>6, <2>3
    <3>2. Owner(p) \in Defers
      BY <1>2, <3>1 DEF Names
    <3> QED BY <1>2, <1>3, <2>2, <3>1, <3>2
  <2>4. CASE reason = "build" /\ p.kind \in ClusterKinds
    <3>1. q = DBs(p.of)
      BY <2>1, <2>4 DEF Uses, ClusterKinds
    <3>2. q.kind = "dbs" /\ q \in up
      BY <3>1, PartsAreParts
    <3> QED BY <1>1, <2>4, <3>2 DEF StartInv, OwnedInv
  <2> QED BY <1>1, <2>1, <2>3, <2>4 DEF StartInv, OwnedInv
<1>8. orphaned' = FALSE
  <2>1. orphaned = FALSE \/ ~ orphaned
    BY DEF StartInv, NothingOrphaned
  <2>2. ~ \E p \in up' : Background(p) \cap (up \ up') # {}
    BY <1>7
  <2> QED BY <1>1, <2>1, <2>2 DEF StartInv, NothingOrphaned
<1>9. OwnedInv'
  <2>1. \A p \in up' : Owner(p) \in Names(t) \/ (reason = "build" /\ p.kind \in ClusterKinds)
    BY <1>1, <1>2, <1>4, <1>6 DEF StartInv, OwnedInv
  <2> QED BY <1>1, <1>4, <2>1 DEF StartInv, OwnedInv
<1>10. StackInv' /\ StackOrder'
  BY <1>1, <1>2 DEF StartInv, StackInv, StackOrder, ClusterCount
<1> QED BY <1>1, <1>8, <1>9, <1>10 DEF StartInv, StartTypeOK, NothingOrphaned, DrainedFirst

LEMMA ExitInv == ASSUME StartInv, Exit PROVE StartInv'
<1>1. /\ phase = "unwinding" /\ phase' = "gone" /\ defers = <<>>
      /\ UNCHANGED <<mode, step, clusters, up, defers, stopFuncs, reason, inFlight, overrun, orphaned>>
  BY DEF Exit
<1>2. OwnedInv' /\ StackInv' /\ StackOrder'
  BY <1>1 DEF StartInv, OwnedInv, StackInv, StackOrder, ClusterCount
<1> QED BY <1>1, <1>2 DEF StartInv, StartTypeOK, NothingOrphaned, DrainedFirst

LEMMA StartStutter == ASSUME StartInv, UNCHANGED startVars PROVE StartInv'
<1>1. UNCHANGED <<mode, step, clusters, up, defers, stopFuncs, phase, reason, inFlight, overrun, orphaned>>
  BY DEF startVars
<1>2. OwnedInv' /\ StackInv' /\ StackOrder'
  BY <1>1 DEF StartInv, OwnedInv, StackInv, StackOrder, ClusterCount
<1>3. \A p : Uses(p)' = Uses(p)
  BY <1>1 DEF Uses, DBs, Store, Snapshot, Part
<1> QED BY <1>1, <1>2, <1>3 DEF StartInv, StartTypeOK, NothingOrphaned, DrainedFirst

(* When run has returned nothing is deferred, so nothing with an owner is  *)
(* up.                                                                     *)
LEMMA GoneIsEnded == StartInv => AllEnded
<1> SUFFICES ASSUME StartInv, phase = "gone"
             PROVE  up \subseteq IF reason = "build" THEN UNION {Parts(i) : i \in 1..NClusters} ELSE {}
  BY DEF AllEnded
<1>1. Names(defers) = {}
  BY DEF StartInv, Names
<1>2. \A p \in up : reason = "build" /\ p.kind \in ClusterKinds /\ p \in AllParts
  BY <1>1 DEF StartInv, OwnedInv
<1>3. ASSUME NEW p \in up PROVE \E i \in 1..NClusters : p \in Parts(i)
  <2>1. p.of \in 1..NClusters /\ p = Part(p.kind, p.of)
    BY <1>2, PartKinds
  <2>2. p \in Parts(p.of)
    BY <1>2, <2>1 DEF Parts, ClusterKinds
  <2> QED BY <2>1, <2>2
<1> QED BY <1>2, <1>3

(* Start-up and shutdown, for any number of clusters and every order of    *)
(* failures: a part's dependencies are up while it serves, no defer takes  *)
(* away what another part still works on, and nothing survives run but     *)
(* what a failing buildCluster leaves.                                     *)
THEOREM StartInvariant ==
    StartSpec => [](StartTypeOK /\ NothingOrphaned /\ AllEnded /\ DrainedFirst)
<1>1. ASSUME StartInv, [StartNext]_startVars PROVE StartInv'
  <2>1. CASE StartStep
    BY <1>1, <2>1, StartSnapshotInv, BuildClusterInv, ClustersBuiltInv, StartPoolInv, StartCollectorInv,
       StartEngineInv, ListenInv, StartFailsInv DEF StartStep
  <2>2. CASE \/ Signal \/ ListenerFails \/ ShutdownReturns
             \/ \E r \in HttpRequests : Accept(r) \/ Respond(r)
    BY <1>1, <2>2, ServingInv
  <2>3. CASE RunDefer \/ Exit
    BY <1>1, <2>3, RunDeferInv, ExitInv
  <2>4. CASE UNCHANGED startVars
    BY <1>1, <2>4, StartStutter
  <2> QED BY <1>1, <2>1, <2>2, <2>3, <2>4 DEF StartNext
<1>2. StartInv => StartTypeOK /\ NothingOrphaned /\ AllEnded /\ DrainedFirst
  BY GoneIsEnded DEF StartInv
<1> QED BY <1>1, <1>2, StartInitInv, PTL DEF StartSpec

(* The process in one statement: a closed pool has no open connection, a   *)
(* start-up that fails halfway and a shutdown end what was started, but    *)
(* for the parts of earlier clusters when buildCluster fails, and after a  *)
(* signal the ordinary requests are over, or have used up their ten        *)
(* seconds, before anything is closed.                                     *)
THEOREM ProcessInvariant == PoolSpec /\ StartSpec => []ProcessHolds
BY PoolIsSound, StartInvariant, PTL DEF ProcessHolds

---------------------------------------------------------------------------
(* The alert rules and webhooks *)

(* Four groups of variables that no action mixes, each with its invariant. *)
FlowInv ==
    /\ flows \in FlowCounts /\ lastCount \in FlowCounts \cup {0} /\ NoFalseAnomaly

StaleInv ==
    /\ registered \subseteq Hosts /\ joined \subseteq Hosts /\ MissingOnlyWhenJoining
    /\ missing \subseteq Hosts /\ staleCheck.stage \in {"idle", "privates", "chassis"}
    /\ staleCheck.stage \in {"privates", "chassis"} => missing = {}
    /\ staleCheck.stage = "chassis" /\ ~ blind => registered \subseteq staleCheck.privates \cup joined

Bodies == SUBSET [alert : AlertNames, state : {"firing", "resolved"}]

(* What a live endpoint has and what is still to be posted to it make up   *)
(* what Notify was given.                                                  *)
HookInv ==
    /\ turn \in 1..NUrls /\ todo \in Seq(Bodies) /\ told \in Seq(Bodies)
    /\ got \in [1..NUrls -> Seq(Bodies)]
    /\ todo = <<>> => turn = 1
    /\ \A u \in 1..NUrls \ DeadUrls : told = got[u] \o (IF u < turn THEN Tail(todo) ELSE todo)

Members0 == 1..Cardinality(Hosts)
MemberRow == [host : Hosts \cup {NoHost}, prio : Members0]

(* The group's leader is among those that led since the last check read    *)
(* the rows; what an untorn check has listed is the group; and the leader  *)
(* an untorn check saw is one that led.                                    *)
HaInv ==
    /\ group \in [Members0 -> HaRows] /\ DOMAIN row = Range(group)
    /\ \A h \in DOMAIN row : row[h] \in MemberRow
    /\ row \in [DOMAIN row -> MemberRow]
    /\ haCheck.stage \in {"idle", "rows"}
    /\ haCheck.list = <<>> \/ haCheck.list \in [Members0 -> HaRows]
    /\ torn \in BOOLEAN /\ before = [torn |-> before.torn, led |-> before.led]
    /\ haCheck.stage = "rows" /\ ~ torn => haCheck.list \in {<<>>, group}
    /\ haCheck.stage = "rows" => haAlert = NoAlert
    /\ haCheck.stage = "rows" /\ ~ before.torn => lastActive \in led \cup {NoHost}
    /\ haCheck.stage = "idle" /\ ~ torn => lastActive \in led \cup {NoHost}
    /\ lastActive \in Hosts \cup {NoHost} /\ Active(group, row) \in led
    /\ NoFalseFailover

RuleInv == FlowInv /\ StaleInv /\ HookInv /\ HaInv

LEMMA RuleConstantFacts ==
    /\ FlowCounts \subseteq Nat /\ 0 \notin FlowCounts /\ ThresholdPct \in Nat
    /\ IsFiniteSet(Hosts) /\ NoHost \notin Hosts /\ Cardinality(Hosts) \in Nat
    /\ NUrls \in Nat /\ NUrls >= 1 /\ DeadUrls \subseteq 1..NUrls
BY RuleConstants, FS_CardinalityType

LEMMA RuleInvHolds == RuleInv => RulesHold
<1> SUFFICES ASSUME RuleInv PROVE RulesHold
  OBVIOUS
<1>1. RulesTypeOK /\ NoFalseAnomaly /\ NoFalseFailover /\ MissingOnlyWhenJoining
  BY DEF RuleInv, FlowInv, StaleInv, HaInv, RulesTypeOK
<1>2. LiveUrlsHearAll
  <2> SUFFICES ASSUME todo = <<>>, NEW u \in 1..NUrls \ DeadUrls PROVE got[u] = told
    BY DEF LiveUrlsHearAll
  <2>1. turn = 1 /\ ~ (u < turn)
    BY RuleConstantFacts DEF RuleInv, HookInv
  <2>2. told = got[u] \o <<>>
    BY <2>1 DEF RuleInv, HookInv
  <2>3. got[u] \in Seq(Bodies)
    BY DEF RuleInv, HookInv
  <2> HIDE DEF Bodies
  <2> QED BY <2>2, <2>3, ConcatEmptySeq
<1> QED BY <1>1, <1>2 DEF RulesHold

---------------------------------------------------------------------------
(* FlowCountAnomaly *)

LEMMA FlowStep == ASSUME FlowInv, FlowsChange \/ CheckFlows PROVE FlowInv'
<1>1. CASE FlowsChange
  BY <1>1 DEF FlowsChange, FlowInv, NoFalseAnomaly
<1>2. CASE CheckFlows
  <2> DEFINE count == IF "Logical_Flow" \in loaded THEN flows ELSE 0
  <2>1. flows' = flows /\ flows \in FlowCounts /\ lastCount \in FlowCounts \cup {0}
    BY <1>2 DEF CheckFlows, FlowInv
  <2>2. CASE Gap(count)
    <3>1. lastCount' = lastCount /\ flowAlert' = <<>>
      BY <1>2, <2>2 DEF CheckFlows
    <3> QED BY <2>1, <3>1 DEF FlowInv, NoFalseAnomaly
  <2>3. CASE ~ Gap(count)
    <3>1. count \in FlowCounts
      BY <2>1, <2>3 DEF Gap
    <3>2. lastCount' = count /\ (flowAlert' = <<>> \/ (lastCount # 0 /\ flowAlert' = <<lastCount, count>>))
      BY <1>2, <2>3 DEF CheckFlows
    <3> HIDE DEF count
    <3>3. flowAlert' # <<>> => flowAlert'[1] \in FlowCounts /\ flowAlert'[2] \in FlowCounts
      BY <2>1, <3>1, <3>2
    <3> QED BY <2>1, <3>1, <3>2, <3>3 DEF FlowInv, NoFalseAnomaly
  <2> QED BY <2>2, <2>3
<1> QED BY <1>1, <1>2

---------------------------------------------------------------------------
(* StaleChassis *)

LEMMA StaleStep ==
    ASSUME StaleInv, \/ \E c \in Hosts : Join(c) \/ Leave(c)
                     \/ StaleReadGlobal \/ StaleReadPrivates \/ StaleReadChassis
    PROVE  StaleInv'
<1>1. ASSUME NEW c \in Hosts, Join(c) PROVE StaleInv'
  BY <1>1 DEF Join, StaleInv, MissingOnlyWhenJoining
<1>2. ASSUME NEW c \in Hosts, Leave(c) PROVE StaleInv'
  BY <1>2 DEF Leave, StaleInv, MissingOnlyWhenJoining
<1>3. CASE StaleReadGlobal
  <2>1. /\ registered' = registered /\ missing' = {} /\ joined' = {} /\ staleCheck.stage = "idle"
        /\ staleCheck' = IF "SB_Global" \in loaded THEN [stage |-> "privates", privates |-> {}]
                         ELSE staleCheck
    BY <1>3 DEF StaleReadGlobal
  <2>2. staleCheck'.stage \in {"idle", "privates"}
    BY <2>1
  <2> QED BY <2>1, <2>2 DEF StaleInv, MissingOnlyWhenJoining
<1>4. CASE StaleReadPrivates
  <2>1. /\ UNCHANGED <<registered, missing, joined>> /\ staleCheck.stage = "privates"
        /\ staleCheck' = [stage |-> "chassis", privates |-> IF blind' THEN {} ELSE registered]
    BY <1>4 DEF StaleReadPrivates
  <2>2. staleCheck'.stage = "chassis" /\ (~ blind' => staleCheck'.privates = registered)
    BY <2>1
  <2>3. missing = {}
    BY <2>1 DEF StaleInv
  <2> QED BY <2>1, <2>2, <2>3 DEF StaleInv, MissingOnlyWhenJoining
<1>5. CASE StaleReadChassis
  <2> DEFINE listed == IF "Chassis" \in loaded THEN registered ELSE {}
  <2>1. /\ UNCHANGED <<registered, joined, blind>> /\ staleCheck.stage = "chassis"
        /\ missing' = listed \ staleCheck.privates
        /\ staleCheck' = [stage |-> "idle", privates |-> {}]
    BY <1>5 DEF StaleReadChassis, Missing
  <2>2. missing' \subseteq registered /\ staleCheck'.stage = "idle"
    BY <2>1
  <2>3. ~ blind => missing' \subseteq joined
    BY <2>1, <2>2 DEF StaleInv
  <2> QED BY <2>1, <2>2, <2>3 DEF StaleInv, MissingOnlyWhenJoining
<1> QED BY <1>1, <1>2, <1>3, <1>4, <1>5

---------------------------------------------------------------------------
(* The webhook notifier *)

LEMMA PayloadsTold ==
    ASSUME NEW A \in Bodies, A # {}
    PROVE  Payloads(A) = Told(A) /\ Payloads(A) \in Seq(Bodies) /\ Payloads(A) # <<>>
<1> DEFINE f == Of(A, "firing")
           r == Of(A, "resolved")
<1>1. f \in Bodies /\ r \in Bodies /\ (f # {} \/ r # {})
  BY DEF Of, Bodies
<1>2. Payloads(A) = (IF f = {} THEN <<>> ELSE <<f>>) \o (IF r = {} THEN <<>> ELSE <<r>>)
  BY DEF Payloads, Payload
<1>3. Told(A) = IF f = {} THEN <<r>> ELSE IF r = {} THEN <<f>> ELSE <<f, r>>
  BY DEF Told
<1> HIDE DEF f, r, Bodies
<1>4. CASE f = {}
  <2>1. Payloads(A) = <<>> \o <<r>> /\ Told(A) = <<r>> /\ <<r>> \in Seq(Bodies)
    BY <1>1, <1>2, <1>3, <1>4
  <2> QED BY <2>1, ConcatEmptySeq
<1>5. CASE f # {} /\ r = {}
  <2>1. Payloads(A) = <<f>> \o <<>> /\ Told(A) = <<f>> /\ <<f>> \in Seq(Bodies)
    BY <1>1, <1>2, <1>3, <1>5
  <2> QED BY <2>1, ConcatEmptySeq
<1>6. CASE f # {} /\ r # {}
  <2>1. Payloads(A) = <<f>> \o <<r>> /\ Told(A) = <<f, r>>
    BY <1>2, <1>3, <1>6
  <2>2. <<f>> \o <<r>> = <<f, r>>
    <3>1. <<f>> \in Seq(Bodies) /\ <<f, r>> \in Seq(Bodies) /\ <<r>> \in Seq(Bodies)
      BY <1>1
    <3>2. Append(<<f>>, r) = <<f>> \o <<r>>
      BY <1>1, <3>1, AppendIsConcat
    <3> DEFINE c == Append(<<f>>, r)
    <3>3. c \in Seq(Bodies) /\ Len(c) = 2 /\ c[1] = f /\ c[2] = r
      BY <1>1, <3>1
    <3> DEFINE e == <<f, r>>
    <3>4. e \in Seq(Bodies) /\ Len(e) = 2 /\ e[1] = f /\ e[2] = r
      BY <3>1
    <3>5. \A i \in 1..2 : i = 1 \/ i = 2
      OBVIOUS
    <3> HIDE DEF c, e
    <3>6. c = e
      <4>1. Len(c) = Len(e) /\ \A i \in 1..Len(c) : c[i] = e[i]
        BY <3>3, <3>4, <3>5
      <4> QED BY ONLY <3>3, <3>4, <4>1, SeqEqual, Zenon
    <3> QED BY <3>2, <3>6 DEF c, e
  <2>3. <<f, r>> \in Seq(Bodies) /\ <<f, r>> # <<>>
    BY <1>1
  <2> QED BY <2>1, <2>2, <2>3
<1> QED BY <1>4, <1>5, <1>6

LEMMA PostOne ==
    ASSUME NEW S, NEW s \in Seq(S), NEW t \in Seq(S), t # <<>>
    PROVE  s \o t = Append(s, Head(t)) \o Tail(t)
<1>1. Head(t) \in S /\ Tail(t) \in Seq(S) /\ Len(Tail(t)) = Len(t) - 1
      /\ \A i \in 1..Len(Tail(t)) : Tail(t)[i] = t[i + 1]
  BY HeadTailProperties
<1>2. t = <<Head(t)>> \o Tail(t)
  BY <1>1
<1>3. Append(s, Head(t)) = s \o <<Head(t)>> /\ <<Head(t)>> \in Seq(S)
  BY <1>1
<1>4. s \o (<<Head(t)>> \o Tail(t)) = (s \o <<Head(t)>>) \o Tail(t)
  BY <1>1, <1>3, ConcatAssociative
<1> QED BY <1>2, <1>3, <1>4

LEMMA HookStep ==
    ASSUME HookInv, (\E A \in Bodies : Notify(A)) \/ Post PROVE HookInv'
<1>n. NUrls \in Int /\ 1 <= NUrls
  BY RuleConstantFacts
<1>0. /\ turn \in 1..NUrls /\ todo \in Seq(Bodies) /\ told \in Seq(Bodies)
      /\ got \in [1..NUrls -> Seq(Bodies)] /\ (todo = <<>> => turn = 1)
      /\ \A u \in 1..NUrls \ DeadUrls : told = got[u] \o (IF u < turn THEN Tail(todo) ELSE todo)
  BY DEF HookInv
<1>1. ASSUME NEW A \in Bodies, Notify(A) PROVE HookInv'
  <2>1. todo = <<>> /\ A # {} /\ todo' = Payloads(A) /\ told' = told \o Told(A) /\ turn' = turn /\ got' = got
    BY <1>1 DEF Notify
  <2>2. Payloads(A) = Told(A) /\ todo' \in Seq(Bodies) /\ todo' # <<>> /\ turn = 1
    BY <1>0, <2>1, PayloadsTold
  <2> HIDE DEF Bodies
  <2>3. told' \in Seq(Bodies)
    BY <1>0, <2>1, <2>2, ConcatProperties
  <2>4. ASSUME NEW u \in 1..NUrls \ DeadUrls PROVE told' = got'[u] \o (IF u < turn' THEN Tail(todo') ELSE todo')
    <3>1. got[u] \in Seq(Bodies) /\ ~ (u < turn)
      BY <1>n, <1>0, <2>2
    <3>2. told = got[u]
      BY <1>0, <2>1, <3>1, ConcatEmptySeq
    <3> QED BY <2>1, <2>2, <3>1, <3>2
  <2> QED BY <1>0, <2>1, <2>2, <2>3, <2>4 DEF HookInv
<1>2. CASE Post
  <2>1. /\ todo # <<>> /\ told' = told
        /\ got' = IF turn \in DeadUrls THEN got ELSE [got EXCEPT ![turn] = Append(got[turn], Head(todo))]
        /\ (turn < NUrls /\ turn' = turn + 1 /\ todo' = todo) \/ (turn = NUrls /\ turn' = 1 /\ todo' = Tail(todo))
    BY <1>n, <1>0, <1>2 DEF Post
  <2> HIDE DEF Bodies
  <2>2. Head(todo) \in Bodies /\ Tail(todo) \in Seq(Bodies)
    BY <1>0, <2>1, HeadTailProperties
  <2>3. got' \in [1..NUrls -> Seq(Bodies)]
    <3>1. Append(got[turn], Head(todo)) \in Seq(Bodies)
      BY <1>0, <2>2
    <3> QED BY <1>0, <2>1, <3>1
  <2>n. turn \in Int /\ 1 <= turn /\ turn <= NUrls /\ NUrls \in Int
    BY <1>n, <1>0
  <2>c. \/ turn < NUrls /\ turn' = turn + 1 /\ todo' = todo
        \/ turn = NUrls /\ turn' = 1 /\ todo' = Tail(todo)
    BY <2>1
  <2>4. turn' \in 1..NUrls /\ todo' \in Seq(Bodies) /\ (todo' = <<>> => turn' = 1)
    <3>1. turn' \in 1..NUrls
      BY <2>c, <2>n
    <3>2. todo' \in Seq(Bodies)
      BY <1>0, <2>2, <2>c
    <3>3. todo' = <<>> => turn' = 1
      BY <2>1, <2>c
    <3> QED BY <3>1, <3>2, <3>3
  <2>5. ASSUME NEW u \in 1..NUrls \ DeadUrls PROVE told' = got'[u] \o (IF u < turn' THEN Tail(todo') ELSE todo')
    <3>n. u \in Int /\ 1 <= u /\ u <= NUrls /\ u \in 1..NUrls /\ u \notin DeadUrls
      OBVIOUS
    <3>t. told = got[u] \o (IF u < turn THEN Tail(todo) ELSE todo) /\ got[u] \in Seq(Bodies)
      BY <1>0
    <3>o. (u < turn \/ u = turn \/ turn < u) /\ (u = turn \/ turn < u => ~ (u < turn))
      BY <2>n, <3>n
    <3>g. got'[u] = IF u = turn THEN Append(got[u], Head(todo)) ELSE got[u]
      BY <1>0, <2>1, <3>n
    <3>1. CASE u < turn
      <4>1. got'[u] = got[u] /\ told = got[u] \o Tail(todo)
        <5>1. u # turn
          BY <2>n, <3>n, <3>1
        <5> QED BY <3>1, <3>g, <3>t, <5>1
      <4>2. (IF u < turn' THEN Tail(todo') ELSE todo') = Tail(todo)
        BY <2>n, <2>c, <3>n, <3>1
      <4> QED BY <2>1, <4>1, <4>2
    <3>2. CASE u = turn
      <4>1. got'[u] = Append(got[u], Head(todo)) /\ told = got[u] \o todo
        BY <3>2, <3>g, <3>t, <3>o
      <4>2. (IF u < turn' THEN Tail(todo') ELSE todo') = Tail(todo)
        BY <2>n, <2>c, <3>n, <3>2
      <4>3. got[u] \o todo = Append(got[u], Head(todo)) \o Tail(todo)
        BY <1>0, <2>1, <3>t, PostOne
      <4> QED BY <2>1, <4>1, <4>2, <4>3
    <3>3. CASE turn < u
      <4>1. got'[u] = got[u] /\ told = got[u] \o todo
        <5>1. u # turn
          BY <2>n, <3>n, <3>3
        <5> QED BY <3>3, <3>g, <3>t, <3>o, <5>1
      <4>2. todo' = todo /\ ~ (u < turn')
        BY <2>n, <2>c, <3>n, <3>3
      <4> QED BY <2>1, <4>1, <4>2
    <3> QED BY <3>o, <3>1, <3>2, <3>3
  <2> QED BY <1>0, <2>1, <2>3, <2>4, <2>5 DEF HookInv
<1> QED BY <1>1, <1>2

---------------------------------------------------------------------------
(* HAFailover *)

LEMMA RuleSmallest ==
    ASSUME NEW T, T \subseteq Nat, T # {}
    PROVE  \E x \in T : \A y \in T : x <= y
<1>2. PICK x \in T : \A y \in T : ~ (<<y, x>> \in OpToRel(<, Nat))
  BY ONLY T \subseteq Nat, T # {}, NatLessThanWellFounded, WFMin, Zenon
<1>3. \A y \in T : ~ (y < x)
  BY <1>2 DEF OpToRel
<1> QED BY <1>3

\* A leader is the chassis of a member.
LEMMA ActiveType ==
    ASSUME NEW list, NEW table, NEW N \in Nat,
           \A i \in Members(list, table) :
               i \in Nat /\ table[list[i]].host \in Hosts /\ table[list[i]].prio \in 0..N
    PROVE  /\ Active(list, table) \in Hosts \cup {NoHost}
           /\ Members(list, table) = {} => Active(list, table) = NoHost
<1> DEFINE ms == Members(list, table)
           prio(i) == table[list[i]].prio
           Best(i) == \A j \in ms : prio(j) < prio(i) \/ (prio(j) = prio(i) /\ i <= j)
           best == CHOOSE i \in ms : Best(i)
<1>1. Active(list, table) = IF ms = {} THEN NoHost ELSE table[list[best]].host
  BY DEF Active
<1>2. \A i \in ms : i \in Nat /\ table[list[i]].host \in Hosts /\ prio(i) \in 0..N
  OBVIOUS
<1>3. ASSUME ms # {} PROVE \E i \in ms : Best(i)
  <2> DEFINE gap(i) == N - prio(i)
             T == {gap(i) : i \in ms}
  <2>1. \A i \in ms : gap(i) \in Nat
    BY <1>2
  <2> HIDE DEF gap, ms
  <2>2. T \subseteq Nat /\ T # {}
    BY <1>3, <2>1
  <2>3. \E x \in T : \A y \in T : x <= y
    BY <2>2, RuleSmallest
  <2>4. PICK k \in ms : \A j \in ms : gap(k) <= gap(j)
    BY <2>3
  <2>5. ASSUME NEW j \in ms PROVE prio(j) <= prio(k)
    <3>1. prio(j) \in Int /\ prio(k) \in Int /\ gap(k) <= gap(j)
      BY <1>2, <2>4
    <3> HIDE DEF prio
    <3> QED BY <3>1 DEF gap
  <2> DEFINE U == {i \in ms : prio(i) = prio(k)}
  <2>6. U \subseteq Nat /\ U # {}
    BY <1>2
  <2>7. \E x \in U : \A y \in U : x <= y
    BY <2>6, RuleSmallest
  <2>8. PICK x \in U : \A y \in U : x <= y
    BY <2>7
  <2>9. Best(x)
    <3> SUFFICES ASSUME NEW j \in ms PROVE prio(j) < prio(x) \/ (prio(j) = prio(x) /\ x <= j)
      OBVIOUS
    <3>1. prio(j) <= prio(k) /\ prio(x) = prio(k) /\ prio(j) \in Int /\ prio(k) \in Int
      BY <1>2, <2>5
    <3>2. prio(j) = prio(k) => x <= j
      BY <2>8
    <3> HIDE DEF prio
    <3> QED BY <3>1, <3>2
  <2> QED BY <2>9
<1>4. ms # {} => best \in ms
  BY <1>3
<1> HIDE DEF best
<1> QED BY <1>1, <1>2, <1>4

LEMMA ActiveOfRows ==
    ASSUME NEW list, NEW table, list = <<>> \/ list \in [Members0 -> HaRows],
           \A h \in DOMAIN table : table[h] \in MemberRow
    PROVE  /\ Active(list, table) \in Hosts \cup {NoHost}
           /\ list = <<>> \/ DOMAIN table = {} => Active(list, table) = NoHost
<1>1. Cardinality(Hosts) \in Nat
  BY RuleConstantFacts
<1>2. ASSUME NEW i \in Members(list, table)
      PROVE  i \in Nat /\ table[list[i]].host \in Hosts /\ table[list[i]].prio \in 0..Cardinality(Hosts)
  <2>1. i \in DOMAIN list /\ list[i] \in DOMAIN table /\ table[list[i]].host # NoHost
    BY DEF Members
  <2>2. list # <<>>
    BY <2>1
  <2>3. i \in Nat
    BY <1>1, <2>1, <2>2 DEF Members0
  <2>4. table[list[i]] \in MemberRow
    BY <2>1
  <2>5. table[list[i]].host \in Hosts \cup {NoHost} /\ table[list[i]].prio \in Members0
    BY <2>4 DEF MemberRow
  <2>6. Members0 \subseteq 0..Cardinality(Hosts)
    BY <1>1 DEF Members0
  <2> QED BY <2>1, <2>3, <2>5, <2>6
<1>3. list = <<>> \/ DOMAIN table = {} => Members(list, table) = {}
  BY DEF Members
<1> QED BY <1>1, <1>2, <1>3, ActiveType

\* A step of the cluster: the rows stay rows of the group.
LEMMA HaStepInv ==
    ASSUME HaInv, NEW h, NEW r, NEW t \in BOOLEAN, HaStep(h, r, t),
           h \in [Members0 -> HaRows], DOMAIN r = Range(h), r \in [DOMAIN r -> MemberRow],
           t \/ h = group
    PROVE  HaInv'
<1>1. /\ group' = h /\ row' = r /\ led' = led \cup {Active(h, r)}
      /\ UNCHANGED <<haCheck, lastActive, initialized, haAlert, before>>
      /\ torn' = (torn \/ (t /\ haCheck.stage = "rows"))
  BY DEF HaStep
<1>2. \A k \in DOMAIN r : r[k] \in MemberRow
  OBVIOUS
<1>3. haCheck.stage = "rows" /\ ~ torn' => haCheck'.list \in {<<>>, h}
  BY <1>1 DEF HaInv
<1>4. torn' \in BOOLEAN /\ (~ torn' => ~ torn)
  BY <1>1 DEF HaInv
<1>5. NoFalseFailover'
  BY <1>1, <1>4 DEF HaInv, NoFalseFailover
<1>6. /\ haCheck.stage = "rows" /\ ~ before.torn => lastActive \in led' \cup {NoHost}
      /\ haCheck.stage = "idle" /\ ~ torn' => lastActive \in led' \cup {NoHost}
  BY <1>1, <1>4 DEF HaInv
<1> HIDE DEF Active, MemberRow, Members0
<1> QED BY <1>1, <1>2, <1>3, <1>4, <1>5, <1>6 DEF HaInv

LEMMA SwapInv == ASSUME HaInv, SwapPriorities PROVE HaInv'
<1>1. PICK h \in DOMAIN row, k \in DOMAIN row :
          h # k /\ HaStep(group, [row EXCEPT ![h].prio = row[k].prio, ![k].prio = row[h].prio], FALSE)
  BY DEF SwapPriorities
<1> DEFINE r == [row EXCEPT ![h].prio = row[k].prio, ![k].prio = row[h].prio]
<1>2. group \in [Members0 -> HaRows] /\ DOMAIN row = Range(group) /\ row \in [DOMAIN row -> MemberRow]
  BY DEF HaInv
<1>3. \A x \in DOMAIN row : row[x] \in MemberRow /\ row[x].host \in Hosts \cup {NoHost} /\ row[x].prio \in Members0
  BY <1>2 DEF MemberRow
<1>4. r = [x \in DOMAIN row |-> IF x = k THEN [row[k] EXCEPT !.prio = row[h].prio]
                               ELSE IF x = h THEN [row[h] EXCEPT !.prio = row[k].prio] ELSE row[x]]
  BY <1>1, <1>2
<1>5. /\ [row[k] EXCEPT !.prio = row[h].prio] \in MemberRow
      /\ [row[h] EXCEPT !.prio = row[k].prio] \in MemberRow
  BY <1>3 DEF MemberRow
<1>6. DOMAIN r = DOMAIN row /\ r \in [DOMAIN row -> MemberRow]
  BY <1>3, <1>4, <1>5
<1>7. HaStep(group, r, FALSE)
  BY <1>1
<1> HIDE DEF r
<1> QED BY <1>2, <1>6, <1>7, HaStepInv

LEMMA ClearInv == ASSUME HaInv, ClearHost PROVE HaInv'
<1>1. PICK h \in DOMAIN row, c \in Hosts \cup {NoHost} : HaStep(group, [row EXCEPT ![h].host = c], FALSE)
  BY DEF ClearHost
<1> DEFINE r == [row EXCEPT ![h].host = c]
<1>2. group \in [Members0 -> HaRows] /\ DOMAIN row = Range(group) /\ row \in [DOMAIN row -> MemberRow]
  BY DEF HaInv
<1>3. [row[h] EXCEPT !.host = c] \in MemberRow
  BY <1>2 DEF MemberRow
<1>4. DOMAIN r = DOMAIN row /\ r \in [DOMAIN row -> MemberRow]
  BY <1>2, <1>3
<1>5. HaStep(group, r, FALSE)
  BY <1>1
<1> HIDE DEF r
<1> QED BY <1>2, <1>4, <1>5, HaStepInv

LEMMA ReplaceInv == ASSUME HaInv, ReplaceRow PROVE HaInv'
<1>1. PICK h \in DOMAIN row, n \in HaRows \ DOMAIN row :
          HaStep([i \in DOMAIN group |-> IF group[i] = h THEN n ELSE group[i]],
                 [k \in (DOMAIN row \ {h}) \cup {n} |-> IF k = n THEN row[h] ELSE row[k]], TRUE)
  BY DEF ReplaceRow
<1> DEFINE g == [i \in DOMAIN group |-> IF group[i] = h THEN n ELSE group[i]]
           r == [k \in (DOMAIN row \ {h}) \cup {n} |-> IF k = n THEN row[h] ELSE row[k]]
<1>2. group \in [Members0 -> HaRows] /\ DOMAIN row = Range(group) /\ row \in [DOMAIN row -> MemberRow]
      /\ DOMAIN group = Members0
  BY DEF HaInv
<1>3. g \in [Members0 -> HaRows] /\ DOMAIN g = Members0
      /\ \A i \in Members0 : g[i] = IF group[i] = h THEN n ELSE group[i]
  BY <1>2
<1>4. DOMAIN r = (DOMAIN row \ {h}) \cup {n} /\ r \in [DOMAIN r -> MemberRow]
  BY <1>2
<1>5. HaStep(g, r, TRUE)
  BY <1>1
<1>6. Range(group) = {group[i] : i \in Members0} /\ Range(g) = {g[i] : i \in Members0}
  BY <1>2, <1>3 DEF Range
<1> HIDE DEF g, r
<1>7. Range(g) = (Range(group) \ {h}) \cup {n}
  <2>1. PICK i \in Members0 : group[i] = h
    BY <1>2, <1>6
  <2>2. ASSUME NEW x \in Range(g) PROVE x \in (Range(group) \ {h}) \cup {n}
    BY <1>3, <1>6
  <2>3. ASSUME NEW x \in (Range(group) \ {h}) \cup {n} PROVE x \in Range(g)
    BY <1>3, <1>6, <2>1
  <2> QED BY <2>2, <2>3
<1> QED BY <1>2, <1>3, <1>4, <1>5, <1>7, HaStepInv

LEMMA ReadGroupsInv == ASSUME HaInv, HaReadGroups PROVE HaInv'
<1>1. /\ haCheck.stage = "idle" /\ haAlert' = NoAlert /\ torn' = FALSE
      /\ haCheck' = [stage |-> "rows", list |-> IF "HA_Chassis_Group" \in loaded THEN group ELSE <<>>]
      /\ before' = [before EXCEPT !.torn = torn]
      /\ UNCHANGED <<group, row, lastActive, initialized, led>>
  BY DEF HaReadGroups
<1>2. haCheck'.stage = "rows" /\ haCheck'.list \in {<<>>, group}
  BY <1>1
<1>3. group \in [Members0 -> HaRows]
  BY DEF HaInv
<1>4. haCheck'.list = <<>> \/ haCheck'.list \in [Members0 -> HaRows]
  BY <1>2, <1>3
<1>5. before' = [torn |-> torn, led |-> before.led]
  BY <1>1 DEF HaInv
<1>6. before'.torn = torn /\ before' = [torn |-> before'.torn, led |-> before'.led]
  BY <1>5
<1>7. ~ before'.torn => lastActive \in led \cup {NoHost}
  BY <1>1, <1>6 DEF HaInv
<1>8. NoFalseFailover'
  BY <1>1 DEF NoFalseFailover
<1> HIDE DEF Active, MemberRow, Members0
<1> QED BY <1>1, <1>2, <1>3, <1>4, <1>6, <1>7, <1>8 DEF HaInv

LEMMA ReadRowsInv == ASSUME HaInv, HaReadRows PROVE HaInv'
<1> DEFINE table == IF "HA_Chassis" \in loaded THEN row ELSE <<>>
           cur == Active(haCheck.list, table)
<1>1. /\ haCheck.stage = "rows" /\ haCheck' = [stage |-> "idle", list |-> <<>>] /\ lastActive' = cur
      /\ haAlert' = IF Failover(cur) THEN [from |-> lastActive, to |-> cur] ELSE NoAlert
      /\ before' = [before EXCEPT !.led = led] /\ led' = {Active(group, row)}
      /\ UNCHANGED <<group, row, torn>>
  BY DEF HaReadRows
<1>2. /\ haCheck.list = <<>> \/ haCheck.list \in [Members0 -> HaRows]
      /\ ~ torn => haCheck.list \in {<<>>, group}
      /\ \A h \in DOMAIN row : row[h] \in MemberRow
      /\ Active(group, row) \in led
      /\ ~ before.torn => lastActive \in led \cup {NoHost}
  BY <1>1 DEF HaInv
<1>3. table = row \/ DOMAIN table = {}
  OBVIOUS
<1>4. \A h \in DOMAIN table : table[h] \in MemberRow
  BY <1>2, <1>3
<1> HIDE DEF table
<1>5. cur \in Hosts \cup {NoHost} /\ (haCheck.list = <<>> \/ DOMAIN table = {} => cur = NoHost)
  BY <1>2, <1>4, ActiveOfRows
\* An untorn check saw the leader, or nothing.
<1>6. ~ torn => cur \in {NoHost, Active(group, row)}
  BY <1>2, <1>3, <1>5
<1>7. before' = [torn |-> before.torn, led |-> led]
  BY <1>1 DEF HaInv
<1>8. before'.torn = before.torn /\ before'.led = led /\ before' = [torn |-> before'.torn, led |-> before'.led]
  BY <1>7
<1> HIDE DEF cur
<1>9. NoFalseFailover'
  <2> SUFFICES ASSUME haAlert' # NoAlert, ~ torn, ~ before.torn
               PROVE  haAlert'.from \in led /\ haAlert'.to \in led
    BY <1>1, <1>8 DEF NoFalseFailover
  <2>1. haAlert' = [from |-> lastActive, to |-> cur] /\ cur # NoHost /\ lastActive # NoHost
    BY <1>1 DEF Failover
  <2>2. haAlert'.from = lastActive /\ haAlert'.to = cur
    BY <2>1
  <2> QED BY <1>2, <1>6, <2>1, <2>2
<1>10. ~ torn => lastActive' \in led' \cup {NoHost}
  BY <1>1, <1>6
<1>11. haCheck'.stage = "idle" /\ haCheck'.list = <<>>
  BY <1>1
<1> HIDE DEF Active, MemberRow, Members0
<1> QED BY <1>1, <1>5, <1>8, <1>9, <1>10, <1>11 DEF HaInv

\* The other groups' variables stay, and so does what is said of them.
LEMMA RulesFrame ==
    /\ FlowInv /\ UNCHANGED flowVars => FlowInv'
    /\ StaleInv /\ UNCHANGED staleVars => StaleInv'
    /\ HookInv /\ UNCHANGED hookVars => HookInv'
    /\ HaInv /\ UNCHANGED haVars => HaInv'
<1>1. FlowInv /\ UNCHANGED flowVars => FlowInv'
  BY DEF FlowInv, flowVars, NoFalseAnomaly
<1>2. StaleInv /\ UNCHANGED staleVars => StaleInv'
  BY DEF StaleInv, staleVars, MissingOnlyWhenJoining
<1>3. HookInv /\ UNCHANGED hookVars => HookInv'
  BY DEF HookInv, hookVars
<1>4. HaInv /\ UNCHANGED haVars => HaInv'
  BY DEF HaInv, haVars, NoFalseFailover
<1> QED BY <1>1, <1>2, <1>3, <1>4

LEMMA RulesInitInv == RulesInit => RuleInv
<1> SUFFICES ASSUME RulesInit PROVE RuleInv
  OBVIOUS
<1>1. FlowInv
  BY DEF RulesInit, FlowInv, NoFalseAnomaly
<1>2. StaleInv
  BY DEF RulesInit, StaleInv, MissingOnlyWhenJoining
<1>3. HookInv
  <2>1. todo = <<>> /\ turn = 1 /\ got = [u \in 1..NUrls |-> <<>>] /\ told = <<>>
    BY DEF RulesInit
  <2>2. <<>> \in Seq(Bodies) /\ <<>> \o <<>> = <<>>
    BY ConcatEmptySeq
  <2>3. NUrls \in Int /\ 1 <= NUrls
    BY RuleConstantFacts
  <2>4. \A u \in 1..NUrls : ~ (u < 1) /\ got[u] = <<>>
    BY <2>1, <2>3
  <2>5. turn \in 1..NUrls
    BY <2>1, <2>3
  <2>6. got \in [1..NUrls -> Seq(Bodies)]
    BY <2>1, <2>2
  <2>7. \A u \in 1..NUrls \ DeadUrls : told = got[u] \o (IF u < turn THEN Tail(todo) ELSE todo)
    BY <2>1, <2>2, <2>4
  <2> QED BY <2>1, <2>2, <2>5, <2>6, <2>7 DEF HookInv
<1>4. HaInv
  <2>1. /\ group \in Injection(1..Cardinality(Hosts), HaRows)
        /\ haCheck = [stage |-> "idle", list |-> <<>>] /\ lastActive = NoHost
        /\ haAlert = NoAlert /\ led = {Active(group, row)}
        /\ torn = FALSE /\ before = [torn |-> FALSE, led |-> {}]
    BY DEF RulesInit
  <2>2. group \in [Members0 -> HaRows] /\ DOMAIN group = Members0
    BY <2>1 DEF Injection, Members0
  <2>3. PICK hosts \in Bijection(1..Cardinality(Hosts), Hosts) :
          row = [h \in Range(group) |->
                   LET i == CHOOSE j \in DOMAIN group : group[j] = h IN [host |-> hosts[i], prio |-> i]]
    BY DEF RulesInit
  <2>4. hosts \in [Members0 -> Hosts]
    BY DEF Bijection, Injection, Members0
  <2>5. DOMAIN row = Range(group)
    BY <2>3
  <2>6. ASSUME NEW h \in Range(group) PROVE row[h] \in MemberRow
    <3> DEFINE i == CHOOSE j \in DOMAIN group : group[j] = h
    <3>1. \E j \in DOMAIN group : group[j] = h
      BY DEF Range
    <3>2. i \in Members0
      BY <2>2, <3>1
    <3>3. row[h] = [host |-> hosts[i], prio |-> i]
      BY <2>3
    <3> HIDE DEF i
    <3> QED BY <2>4, <3>2, <3>3 DEF MemberRow
  <2>7. row \in [DOMAIN row -> MemberRow] /\ \A h \in DOMAIN row : row[h] \in MemberRow
    BY <2>3, <2>5, <2>6
  <2>8. haCheck.stage = "idle" /\ haCheck.list = <<>>
    BY <2>1
  <2>9. before = [torn |-> before.torn, led |-> before.led] /\ NoFalseFailover
    BY <2>1 DEF NoFalseFailover
  <2> HIDE DEF Active, MemberRow, Members0
  <2> QED BY <2>1, <2>2, <2>5, <2>7, <2>8, <2>9 DEF HaInv
<1> QED BY <1>1, <1>2, <1>3, <1>4 DEF RuleInv

LEMMA RulesStepInv == ASSUME RuleInv, [RulesNext]_ruleVars PROVE RuleInv'
<1> USE RulesFrame DEF RuleInv
<1>1. CASE FlowsChange \/ CheckFlows
  <2>1. UNCHANGED <<haVars, staleVars, hookVars>>
    BY <1>1 DEF FlowsChange, CheckFlows
  <2> QED BY <1>1, <2>1, FlowStep
<1>2. CASE SwapPriorities \/ ClearHost \/ ReplaceRow \/ HaReadGroups \/ HaReadRows
  <2>1. UNCHANGED <<flowVars, staleVars, hookVars>>
    BY <1>2 DEF SwapPriorities, ClearHost, ReplaceRow, HaReadGroups, HaReadRows, HaStep
  <2>2. HaInv'
    BY <1>2, SwapInv, ClearInv, ReplaceInv, ReadGroupsInv, ReadRowsInv
  <2> QED BY <2>1, <2>2
<1>3. CASE (\E c \in Hosts : Join(c) \/ Leave(c)) \/ StaleReadGlobal \/ StaleReadPrivates \/ StaleReadChassis
  <2>1. UNCHANGED <<flowVars, haVars, hookVars>>
    BY <1>3 DEF Join, Leave, StaleReadGlobal, StaleReadPrivates, StaleReadChassis
  <2> QED BY <1>3, <2>1, StaleStep
<1>4. CASE HookNext
  <2>1. (\E A \in Bodies : Notify(A)) \/ Post
    BY <1>4 DEF HookNext, Bodies
  <2>2. UNCHANGED <<flowVars, haVars, staleVars>>
    BY <2>1 DEF Notify, Post
  <2> QED BY <2>1, <2>2, HookStep
<1>5. CASE Purge \/ \E t \in FlowTables \cup HaTables \cup StaleTables : Load(t)
  <2>1. UNCHANGED <<flowVars, haVars, staleVars, hookVars>>
    BY <1>5 DEF Purge, Load
  <2> QED BY <2>1
<1>6. CASE UNCHANGED ruleVars
  <2>1. UNCHANGED <<flowVars, haVars, staleVars, hookVars>>
    BY <1>6 DEF ruleVars
  <2> QED BY <2>1
<1> QED BY <1>1, <1>2, <1>3, <1>4, <1>5, <1>6 DEF RulesNext, FlowNext, HaNext, StaleNext

(* The alert rules and the webhook notifier, for any cluster, any number   *)
(* of endpoints and any set of dead ones: no flow anomaly compares with a  *)
(* purged table; a failover announced by an untorn check after an untorn   *)
(* check names two hosts that led in between; a chassis with a heartbeat   *)
(* is missing only if it joined or its table was gone; every live endpoint *)
(* has every payload.                                                      *)
THEOREM RulesInvariant == RulesSpec => []RulesHold
BY RulesInitInv, RulesStepInv, RuleInvHolds, PTL DEF RulesSpec

---------------------------------------------------------------------------
(* The inductive invariant *)

Monitors == [by : Nat, tables : SUBSET Wanted]

\* Tables that the monitors of a database cover; those of the requests before n.
Covered(d) == UNION {m.tables : m \in held[d]}
Asked(n)   == UNION {Requested[i] : i \in 1..(n - 1)}

TypeInv ==
    /\ cli \in [Both -> {"none", "new", "up", "down", "closed"}]
    /\ closings \in [Both -> Int]
    /\ held \in [Both -> SUBSET Monitors] /\ rows \in [Both -> SUBSET Wanted]
    /\ at \in [Both -> Failed..(Len(Requested) + 1)]
    /\ fresh \in [Both -> SUBSET Monitors] /\ cookies \in [Both -> SUBSET Monitors]
    /\ oper \in {"none", "connect", "resume"} /\ handed \in BOOLEAN /\ susp \in BOOLEAN
    /\ attempt \in Nat /\ monFaults \in Nat /\ drops \in Nat

\* What each operation under way says of the handle.
OperInv ==
    /\ oper = "connect" => ~ handed /\ ~ susp
    /\ oper = "resume"  => handed /\ susp
    /\ susp => handed
    /\ handed => (cli["nb"] = "closed" <=> cli["sb"] = "closed")

\* The stages of one client.
ClientInv(d) ==
    /\ oper = "none" => at[d] = 0 /\ fresh[d] = {}
    /\ oper = "none" /\ ~ handed => cli[d] \in {"none", "closed"}
    /\ oper = "connect" => cli[d] \in {"new", "up", "down"}
    /\ handed => cli[d] \in {"up", "down", "closed"}
    /\ cli[d] = "new" => at[d] \in {0, Failed}
    /\ cli[d] \in {"none", "new", "closed"} => held[d] = {}
    /\ cli[d] \in {"none", "new"} => rows[d] = {}
    /\ closings[d] = IF cli[d] = "closed" THEN 1 ELSE 0

\* Every table asked for so far is cached and monitored.
LoadInv(d) == cli[d] # "closed" =>
    /\ oper # "none" /\ at[d] >= 1 => Asked(at[d]) \subseteq rows[d] /\ Asked(at[d]) \subseteq Covered(d)
    /\ handed /\ ~ susp => Wanted \subseteq rows[d] /\ Wanted \subseteq Covered(d)

\* Without a failure, cookies and monitors go together.
QuietInv(d) == monFaults = 0 /\ drops = 0 /\ cli[d] # "closed" =>
    /\ cli[d] # "down" /\ at[d] # Failed
    /\ oper = "none" => held[d] \subseteq cookies[d] /\ (susp => held[d] = {} /\ rows[d] = {})
    /\ oper # "none" => held[d] \subseteq fresh[d] /\ rows[d] = Asked(at[d])

ClientsInv == TypeInv /\ OperInv /\ \A d \in Both : ClientInv(d) /\ LoadInv(d) /\ QuietInv(d)

---------------------------------------------------------------------------
(* The requests of startMonitor *)

LEMMA Configured ==
    /\ IsFiniteSet(Wanted) /\ Staged \in BOOLEAN
    /\ MaxMonFaults \in Nat /\ MaxDrops \in Nat /\ MaxAttempts \in Nat
BY ClientConstants, FS_Subset DEF ClientConstants, Wanted

\* SetToSeq lists a finite set: each element once.
LEMMA Listed ==
    ASSUME NEW S, IsFiniteSet(S), NEW f, f = SetToSeq(S)
    PROVE  /\ f \in [1..Cardinality(S) -> S] /\ Cardinality(S) \in Nat
           /\ \A i, j \in 1..Cardinality(S) : f[i] = f[j] => i = j
           /\ \A x \in S : \E i \in 1..Cardinality(S) : f[i] = x
<1>1. Cardinality(S) \in Nat /\ ExistsBijection(1..Cardinality(S), S)
  BY FS_CardinalityType
<1>2. PICK n \in Nat : n = Cardinality(S)
  BY <1>1
<1>3. \E h \in [1..n -> S] : IsInjective(h)
  BY <1>1, <1>2 DEF ExistsBijection, Bijection, Injection
<1>4. f \in [1..n -> S] /\ IsInjective(f)
  BY <1>2, <1>3 DEF SetToSeq
<1>5. f \in Injection(1..n, S)
  BY <1>4 DEF Injection
<1>6. Cardinality(1..n) = n
  BY FS_Interval
<1>7. f \in Surjection(1..n, S)
  BY <1>2, <1>5, <1>6, FS_Injection
<1>8. \A x \in S : \E i \in 1..n : f[i] = x
  BY <1>7 DEF Surjection
<1> QED BY <1>2, <1>4, <1>8 DEF IsInjective

\* The wanted tables one by one are as many as the tables.
LEMMA OneByOne == IsFiniteSet({{t} : t \in Wanted})
<1>1. PICK S : S = {{t} : t \in Wanted}
  OBVIOUS
<1>2. PICK f : f = [t \in Wanted |-> {t}]
  OBVIOUS
<1>3. f \in [Wanted -> S]
  BY <1>1, <1>2
<1>4. f \in Injection(Wanted, S)
  BY <1>2, <1>3 DEF Injection, IsInjective
<1>5. f \in Surjection(Wanted, S)
  BY <1>1, <1>2, <1>3 DEF Surjection
<1>6. ExistsBijection(Wanted, S)
  BY <1>4, <1>5 DEF ExistsBijection, Bijection
<1> QED BY <1>1, <1>6, Configured, FS_Bijection

LEMMA Requests ==
    /\ Len(Requested) \in Nat
    /\ \A i \in 1..Len(Requested) : Requested[i] \subseteq Wanted
    /\ \A i, j \in 1..Len(Requested) : i # j => Requested[i] \cap Requested[j] = {}
    /\ \A t \in Wanted : \E i \in 1..Len(Requested) : t \in Requested[i]
<1>1. CASE ~ Staged
  <2>1. Requested = <<Wanted>>
    BY <1>1 DEF Requested
  <2>2. Len(Requested) = 1 /\ Requested[1] = Wanted
    BY <2>1
  <2> QED BY <2>2
<1>2. CASE Staged
  <2>1. PICK S : S = {{t} : t \in Wanted}
    OBVIOUS
  <2>2. PICK f : f = SetToSeq(S)
    OBVIOUS
  <2>3. f = Requested
    BY <1>2, <2>1, <2>2 DEF Requested
  <2>4. IsFiniteSet(S)
    BY <2>1, OneByOne
  <2>5. PICK n \in Nat : n = Cardinality(S)
    BY <2>4, FS_CardinalityType
  <2>6. /\ f \in [1..n -> S]
        /\ \A i, j \in 1..n : f[i] = f[j] => i = j
        /\ \A x \in S : \E i \in 1..n : f[i] = x
    BY <2>2, <2>4, <2>5, Listed
  <2>7. f \in Seq(S) /\ Len(f) = n
    BY <2>5, <2>6
  <2>8. \A i \in 1..n : \E t \in Wanted : f[i] = {t}
    BY <2>1, <2>6
  <2>9. ASSUME NEW i \in 1..n, NEW j \in 1..n, i # j PROVE f[i] \cap f[j] = {}
    <3>1. PICK t \in Wanted : f[i] = {t}
      BY <2>8
    <3>2. PICK u \in Wanted : f[j] = {u}
      BY <2>8
    <3>3. t # u
      BY <3>1, <3>2, <2>6, <2>9
    <3> QED BY <3>1, <3>2, <3>3
  <2>10. ASSUME NEW t \in Wanted PROVE \E i \in 1..n : t \in f[i]
    <3>1. PICK i \in 1..n : f[i] = {t}
      BY <2>1, <2>6
    <3> QED BY <3>1
  <2>11. \A i \in 1..n : f[i] \subseteq Wanted
    BY <2>8
  <2>12. Len(Requested) = n /\ \A i : Requested[i] = f[i]
    BY <2>3, <2>7
  <2> QED BY <2>12, <2>9, <2>10, <2>11
<1> QED BY <1>1, <1>2, Configured

LEMMA AskedNone == Asked(0) = {} /\ Asked(1) = {}
<1>1. 1..(0 - 1) = {} /\ 1..(1 - 1) = {}
  OBVIOUS
<1> QED BY <1>1 DEF Asked

LEMMA AskedNext ==
    ASSUME NEW n \in 1..Len(Requested)
    PROVE  /\ Asked(n + 1) = Asked(n) \cup Requested[n]
           /\ Requested[n] \cap Asked(n) = {} /\ Requested[n] \subseteq Wanted
<1>1. n \in Nat /\ n >= 1 /\ n <= Len(Requested) /\ Len(Requested) \in Nat
  BY Requests
<1>2. 1..((n + 1) - 1) = 1..(n - 1) \cup {n}
  BY <1>1
<1>3. Asked(n + 1) = Asked(n) \cup Requested[n]
  BY <1>2 DEF Asked
<1>4. \A i \in 1..(n - 1) : i \in 1..Len(Requested) /\ i # n
  BY <1>1
<1>5. \A i \in 1..(n - 1) : Requested[i] \cap Requested[n] = {}
  BY <1>4, Requests
<1>6. Requested[n] \cap Asked(n) = {}
  BY <1>5 DEF Asked
<1> QED BY <1>3, <1>6, Requests

LEMMA AskedAll == Asked(Len(Requested) + 1) = Wanted
<1>1. (Len(Requested) + 1) - 1 = Len(Requested)
  BY Requests
<1>2. Asked(Len(Requested) + 1) = UNION {Requested[i] : i \in 1..Len(Requested)}
  BY <1>1 DEF Asked
<1>3. \A t \in Wanted : t \in UNION {Requested[i] : i \in 1..Len(Requested)}
  BY Requests
<1>4. \A i \in 1..Len(Requested) : Requested[i] \subseteq Wanted
  BY Requests
<1>5. UNION {Requested[i] : i \in 1..Len(Requested)} \subseteq Wanted
  BY <1>4
<1> QED BY <1>2, <1>3, <1>5

\* The monitors of typed holdings cover wanted tables only.
LEMMA CoveredWanted ==
    ASSUME TypeInv, NEW d \in Both
    PROVE  Covered(d) \subseteq Wanted
<1>1. \A m \in held[d] : m.tables \subseteq Wanted
  BY DEF TypeInv, Monitors
<1> QED BY <1>1 DEF Covered

---------------------------------------------------------------------------
(* Initial states and the operations *)

LEMMA ClientsInitInv == ClientsInit => ClientsInv
<1> SUFFICES ASSUME ClientsInit PROVE ClientsInv
  OBVIOUS
<1>1. TypeInv
  <2>1. 0 \in Failed..(Len(Requested) + 1)
    BY Requests DEF Failed
  <2>2. cli \in [Both -> {"none", "new", "up", "down", "closed"}] /\ closings \in [Both -> Int]
    BY DEF ClientsInit
  <2>3. /\ held \in [Both -> SUBSET Monitors] /\ rows \in [Both -> SUBSET Wanted]
        /\ fresh \in [Both -> SUBSET Monitors] /\ cookies \in [Both -> SUBSET Monitors]
    BY DEF ClientsInit
  <2>4. at \in [Both -> Failed..(Len(Requested) + 1)]
    BY <2>1 DEF ClientsInit
  <2> QED BY <2>2, <2>3, <2>4 DEF ClientsInit, TypeInv
<1>2. OperInv
  BY DEF ClientsInit, OperInv, Both
<1>3. ASSUME NEW d \in Both PROVE ClientInv(d) /\ LoadInv(d) /\ QuietInv(d)
  BY DEF ClientsInit, ClientInv, LoadInv, QuietInv, Failed
<1> QED BY <1>1, <1>2, <1>3 DEF ClientsInv

LEMMA NewClientsInv ==
    ASSUME ClientsInv, NewClients
    PROVE  ClientsInv'
<1>1. /\ UNCHANGED <<rows, at, fresh, cookies, handed, susp, attempt, drops>>
      /\ \A d \in Both : cli[d] = "none"
  BY DEF NewClients
<1>2. TypeInv /\ OperInv /\ \A d \in Both : ClientInv(d) /\ QuietInv(d)
  BY DEF ClientsInv
<1>3. "nb" \in Both /\ "sb" \in Both
  BY DEF Both
<1>4. oper = "none" /\ ~ handed /\ ~ susp
  BY <1>1, <1>2, <1>3 DEF ClientInv, OperInv, TypeInv
<1>5. \A d \in Both : held[d] = {} /\ rows[d] = {} /\ at[d] = 0 /\ fresh[d] = {} /\ closings[d] = 0
  BY <1>1, <1>2, <1>4 DEF ClientInv
<1>6. CASE cli' = [d \in Both |-> "new"] /\ oper' = "connect" /\ UNCHANGED <<closings, held, monFaults>>
  <2>1. TypeInv'
    BY <1>1, <1>2, <1>6 DEF TypeInv
  <2>2. OperInv'
    BY <1>1, <1>4, <1>6, <1>3 DEF OperInv
  <2>3. ASSUME NEW d \in Both PROVE ClientInv(d)' /\ LoadInv(d)' /\ QuietInv(d)'
    <3>1. /\ cli'[d] = "new" /\ at'[d] = 0 /\ rows'[d] = {} /\ held'[d] = {}
          /\ fresh'[d] = {} /\ closings'[d] = 0 /\ Asked(at'[d]) = {}
          /\ oper' = "connect" /\ ~ handed' /\ ~ susp'
      BY <1>1, <1>4, <1>5, <1>6, AskedNone
    <3> QED BY <3>1 DEF ClientInv, LoadInv, QuietInv, Failed
  <2> QED BY <2>1, <2>2, <2>3 DEF ClientsInv
<1>7. CASE Fault /\ CloseClients({"nb"}) /\ UNCHANGED oper
  <2>1. monFaults' = monFaults + 1 /\ oper' = oper
    BY <1>7 DEF Fault
  <2>2. /\ cli' = [d \in Both |-> IF d \in {"nb"} THEN "closed" ELSE cli[d]]
        /\ closings' = [d \in Both |-> closings[d] + IF d \in {"nb"} THEN 1 ELSE 0]
        /\ held' = [d \in Both |-> IF d \in {"nb"} THEN {} ELSE held[d]]
    BY <1>7 DEF CloseClients
  <2>3. TypeInv'
    BY <1>1, <1>2, <2>1, <2>2 DEF TypeInv
  <2>4. OperInv'
    BY <1>1, <1>4, <2>1 DEF OperInv
  <2>5. ASSUME NEW d \in Both PROVE ClientInv(d)' /\ LoadInv(d)' /\ QuietInv(d)'
    BY <1>1, <1>2, <1>4, <1>5, <2>1, <2>2 DEF ClientInv, LoadInv, QuietInv, TypeInv
  <2> QED BY <2>3, <2>4, <2>5 DEF ClientsInv
<1> QED BY <1>6, <1>7 DEF NewClients

LEMMA DialInv ==
    ASSUME ClientsInv, NEW e \in Both, Dial(e)
    PROVE  ClientsInv'
<1>1. /\ UNCHANGED <<closings, held, rows, fresh, cookies, oper, handed, susp, attempt, drops>>
      /\ oper = "connect" /\ cli[e] = "new" /\ at[e] = 0
  BY DEF Dial
<1>2. TypeInv /\ OperInv /\ \A d \in Both : ClientInv(d) /\ LoadInv(d) /\ QuietInv(d)
  BY DEF ClientsInv
<1>3. ~ handed /\ ~ susp /\ held[e] = {} /\ rows[e] = {} /\ closings[e] = 0
  BY <1>1, <1>2 DEF OperInv, ClientInv
<1>4. OperInv'
  BY <1>1, <1>3 DEF OperInv
<1>5. CASE cli' = [cli EXCEPT ![e] = "up"] /\ at' = [at EXCEPT ![e] = 1] /\ UNCHANGED monFaults
  <2>1. TypeInv'
    BY <1>1, <1>2, <1>5, Requests DEF TypeInv, Failed
  <2>2. ASSUME NEW d \in Both PROVE ClientInv(d)' /\ LoadInv(d)' /\ QuietInv(d)'
    <3>1. CASE d = e
      <4>1. cli'[e] = "up" /\ at'[e] = 1 /\ Covered(e)' = Covered(e)
        BY <1>1, <1>2, <1>5 DEF TypeInv, Covered
      <4> QED BY <1>1, <1>2, <1>3, <1>5, <3>1, <4>1, AskedNone DEF ClientInv, LoadInv, QuietInv, Failed
    <3>2. CASE d # e
      <4>1. cli'[d] = cli[d] /\ at'[d] = at[d] /\ Covered(d)' = Covered(d) /\ Asked(at'[d]) = Asked(at[d])
        BY <1>1, <1>2, <1>5, <3>2 DEF TypeInv, Covered
      <4> QED BY <1>1, <1>2, <1>3, <1>5, <3>2, <4>1 DEF ClientInv, LoadInv, QuietInv
    <3> QED BY <3>1, <3>2
  <2> QED BY <1>4, <2>1, <2>2 DEF ClientsInv
<1>6. CASE Fault /\ at' = [at EXCEPT ![e] = Failed] /\ UNCHANGED cli
  <2>1. monFaults' = monFaults + 1 /\ monFaults' # 0 /\ monFaults' \in Nat /\ cli' = cli
    BY <1>2, <1>6 DEF Fault, TypeInv
  <2>2. TypeInv'
    BY <1>1, <1>2, <1>6, <2>1, Requests DEF TypeInv, Failed
  <2>3. ASSUME NEW d \in Both PROVE ClientInv(d)' /\ LoadInv(d)' /\ QuietInv(d)'
    <3>1. at'[d] = at[d] \/ (d = e /\ at'[d] = Failed)
      BY <1>2, <1>6 DEF TypeInv
    <3>2. Covered(d)' = Covered(d) /\ (at'[d] = at[d] => Asked(at'[d]) = Asked(at[d]))
      BY <1>1 DEF Covered
    <3> QED BY <1>1, <1>2, <1>3, <2>1, <3>1, <3>2 DEF ClientInv, LoadInv, QuietInv, Failed
  <2> QED BY <1>4, <2>2, <2>3 DEF ClientsInv
<1> QED BY <1>5, <1>6 DEF Dial

\* A request of startMonitor, answered or refused.
LEMMA MonitorNextInv ==
    ASSUME ClientsInv, NEW e \in Both, MonitorNext(e)
    PROVE  ClientsInv'
<1>1. /\ UNCHANGED <<cli, closings, cookies, oper, handed, susp, attempt, drops>>
      /\ oper # "none" /\ at[e] \in 1..Len(Requested)
  BY DEF MonitorNext
<1>2. TypeInv /\ OperInv /\ \A d \in Both : ClientInv(d) /\ LoadInv(d) /\ QuietInv(d)
  BY DEF ClientsInv
<1>3. OperInv'
  BY <1>1, <1>2 DEF OperInv
<1>4. PICK tables : tables = Requested[at[e]]
  OBVIOUS
<1>5. PICK m : m = [by |-> attempt, tables |-> tables]
  OBVIOUS
<1>6. /\ tables \subseteq Wanted /\ tables \cap Asked(at[e]) = {}
      /\ Asked(at[e] + 1) = Asked(at[e]) \cup tables
  BY <1>1, <1>4, AskedNext
<1>7. m \in Monitors /\ m.tables = tables
  BY <1>2, <1>5, <1>6 DEF TypeInv, Monitors
<1>8. at[e] # Failed /\ at[e] # 0 /\ at[e] + 1 \in 1..(Len(Requested) + 1)
      /\ at[e] + 1 # Failed /\ at[e] \in Int
  BY <1>1, Requests DEF Failed
<1>9. CASE /\ cli[e] = "up"
           /\ held'  = [held EXCEPT ![e] = @ \cup {m}]
           /\ rows'  = [rows EXCEPT ![e] = @ \cup tables]
           /\ fresh' = [fresh EXCEPT ![e] = Collect(e, m)]
           /\ at'    = [at EXCEPT ![e] = @ + 1]
           /\ UNCHANGED monFaults
  <2>1. /\ held'[e] = held[e] \cup {m} /\ rows'[e] = rows[e] \cup tables
        /\ fresh'[e] = fresh[e] \cup {m} /\ at'[e] = at[e] + 1
    BY <1>2, <1>9 DEF TypeInv, Collect
  <2>2. \A d \in Both \ {e} : /\ held'[d] = held[d] /\ rows'[d] = rows[d]
                              /\ fresh'[d] = fresh[d] /\ at'[d] = at[d]
    BY <1>2, <1>9 DEF TypeInv
  <2>3. TypeInv'
    <3>1. held' \in [Both -> SUBSET Monitors] /\ fresh' \in [Both -> SUBSET Monitors]
      BY <1>2, <1>7, <1>9 DEF TypeInv, Collect
    <3>2. rows' \in [Both -> SUBSET Wanted]
      BY <1>2, <1>6, <1>9 DEF TypeInv
    <3>3. at' \in [Both -> Failed..(Len(Requested) + 1)]
      <4>1. at[e] + 1 \in Failed..(Len(Requested) + 1)
        BY <1>8, Requests DEF Failed
      <4> QED BY <4>1, <1>2, <1>9 DEF TypeInv
    <3> QED BY <3>1, <3>2, <3>3, <1>1, <1>2, <1>9 DEF TypeInv
  <2>4. ClientInv(e)' /\ LoadInv(e)' /\ QuietInv(e)'
    <3>1. ClientInv(e)'
      BY <1>1, <1>2, <1>8, <1>9, <2>1 DEF ClientInv
    <3>2. Covered(e)' = Covered(e) \cup tables
      BY <2>1, <1>7 DEF Covered
    <3>3. Asked(at'[e]) = Asked(at[e]) \cup tables
      BY <1>6, <2>1
    <3>4. LoadInv(e)'
      <4>1. Asked(at[e]) \subseteq rows[e] /\ Asked(at[e]) \subseteq Covered(e)
        BY <1>1, <1>2, <1>8, <1>9 DEF LoadInv
      <4>2. Asked(at'[e]) \subseteq rows'[e] /\ Asked(at'[e]) \subseteq Covered(e)'
        BY <4>1, <3>2, <3>3, <2>1
      <4>3. handed /\ ~ susp => Wanted \subseteq rows'[e] /\ Wanted \subseteq Covered(e)'
        BY <1>2, <1>9, <2>1, <3>2 DEF LoadInv
      <4> QED BY <4>2, <4>3, <1>1 DEF LoadInv
    <3>5. QuietInv(e)'
      BY <1>1, <1>2, <1>8, <1>9, <2>1, <3>3 DEF QuietInv
    <3> QED BY <3>1, <3>4, <3>5
  <2>5. ASSUME NEW d \in Both, d # e PROVE ClientInv(d)' /\ LoadInv(d)' /\ QuietInv(d)'
    <3>1. Covered(d)' = Covered(d) /\ Asked(at'[d]) = Asked(at[d])
      BY <2>2, <2>5 DEF Covered
    <3> QED BY <1>1, <1>2, <1>9, <2>2, <2>5, <3>1 DEF ClientInv, LoadInv, QuietInv
  <2> QED BY <1>3, <2>3, <2>4, <2>5 DEF ClientsInv
<1>10. CASE /\ \/ cli[e] = "up" /\ Fault
               \/ (cli[e] # "up" \/ tables \cap rows[e] # {}) /\ UNCHANGED monFaults
            /\ Refused(e)
            /\ UNCHANGED <<held, rows>>
  <2>1. at' = [at EXCEPT ![e] = Failed] /\ fresh' = [fresh EXCEPT ![e] = {}]
    BY <1>10 DEF Refused
  <2>2. UNCHANGED <<held, rows>>
    BY <1>10
  <2>3. monFaults' = monFaults \/ (monFaults' = monFaults + 1 /\ monFaults' # 0)
    BY <1>2, <1>10 DEF Fault, TypeInv
  <2>4. monFaults' = 0 => monFaults = 0 /\ (cli[e] # "up" \/ tables \cap rows[e] # {})
    BY <1>2, <1>10 DEF Fault, TypeInv
  <2>5. TypeInv'
    <3>1. at' \in [Both -> Failed..(Len(Requested) + 1)]
      <4>1. Failed \in Failed..(Len(Requested) + 1)
        BY Requests DEF Failed
      <4> QED BY <4>1, <1>2, <2>1 DEF TypeInv
    <3>2. fresh' \in [Both -> SUBSET Monitors] /\ monFaults' \in Nat
      BY <1>2, <2>1, <2>3 DEF TypeInv
    <3> QED BY <3>1, <3>2, <2>2, <1>1, <1>2 DEF TypeInv
  <2>6. at'[e] = Failed /\ fresh'[e] = {} /\ \A d \in Both \ {e} : at'[d] = at[d] /\ fresh'[d] = fresh[d]
    BY <1>2, <2>1 DEF TypeInv
  <2>7. ClientInv(e)' /\ LoadInv(e)' /\ QuietInv(e)'
    <3>1. Covered(e)' = Covered(e)
      BY <2>2 DEF Covered
    <3>2. ClientInv(e)'
      BY <1>1, <1>2, <2>2, <2>6 DEF ClientInv
    <3>3. LoadInv(e)'
      BY <1>1, <1>2, <2>2, <2>6, <3>1 DEF LoadInv, Failed
    <3>4. QuietInv(e)'
      <4> SUFFICES ASSUME monFaults' = 0, drops' = 0, cli'[e] # "closed" PROVE FALSE
        BY DEF QuietInv
      <4>1. monFaults = 0 /\ drops = 0 /\ cli[e] # "closed" /\ (cli[e] # "up" \/ tables \cap rows[e] # {})
        BY <1>1, <2>4
      <4>2. cli[e] # "down" /\ rows[e] = Asked(at[e])
        BY <4>1, <1>1, <1>2 DEF QuietInv
      <4>3. cli[e] # "new" /\ cli[e] # "none"
        BY <1>1, <1>2, <1>8 DEF ClientInv, OperInv, TypeInv
      <4> QED BY <4>1, <4>2, <4>3, <1>2, <1>6 DEF TypeInv
    <3> QED BY <3>2, <3>3, <3>4
  <2>8. ASSUME NEW d \in Both, d # e PROVE ClientInv(d)' /\ LoadInv(d)' /\ QuietInv(d)'
    <3>1. Covered(d)' = Covered(d) /\ Asked(at'[d]) = Asked(at[d])
      BY <2>2, <2>6, <2>8 DEF Covered
    <3> QED BY <1>1, <1>2, <2>2, <2>4, <2>6, <2>8, <3>1 DEF ClientInv, LoadInv, QuietInv
  <2> QED BY <1>3, <2>5, <2>7, <2>8 DEF ClientsInv
<1> QED BY <1>4, <1>5, <1>9, <1>10 DEF MonitorNext

\* A load that is through has every wanted table, for now and after a reload.
LEMMA LoadedIsWhole ==
    ASSUME ClientsInv, NEW d \in Both, oper # "none", Loaded(d), cli[d] # "closed"
    PROVE  Wanted \subseteq rows[d] /\ Wanted \subseteq Covered(d)
<1>1. at[d] = Len(Requested) + 1 /\ at[d] >= 1
  BY Requests DEF Loaded
<1>2. Asked(at[d]) = Wanted
  BY <1>1, AskedAll
<1> QED BY <1>1, <1>2 DEF ClientsInv, LoadInv

\* CloseClients of both, when neither is closed yet.
LEMMA CloseBothInv ==
    ASSUME ClientsInv, CloseClients(Both), \A d \in Both : cli[d] # "closed",
           UNCHANGED <<rows, susp, attempt, monFaults, drops, handed, cookies>>,
           \/ handed /\ UNCHANGED <<oper, at, fresh>>
           \/ /\ oper = "connect" /\ oper' = "none"
              /\ at' = [d \in Both |-> 0] /\ fresh' = [d \in Both |-> {}]
    PROVE  ClientsInv'
<1>1. /\ cli' = [d \in Both |-> "closed"]
      /\ closings' = [d \in Both |-> closings[d] + 1]
      /\ held' = [d \in Both |-> {}]
  BY DEF CloseClients
<1>2. TypeInv /\ OperInv /\ \A d \in Both : ClientInv(d)
  BY DEF ClientsInv
<1>3. "nb" \in Both /\ "sb" \in Both
  BY DEF Both
<1>4. TypeInv'
  <2>1. 0 \in Failed..(Len(Requested) + 1)
    BY Requests DEF Failed
  <2> QED BY <1>1, <1>2, <2>1 DEF TypeInv
<1>5. OperInv'
  BY <1>1, <1>2, <1>3 DEF OperInv
<1>6. ASSUME NEW d \in Both PROVE ClientInv(d)' /\ LoadInv(d)' /\ QuietInv(d)'
  <2>1. cli'[d] = "closed" /\ held'[d] = {} /\ closings'[d] = 1
    BY <1>1, <1>2 DEF ClientInv
  <2>2. oper' = "none" => at'[d] = 0 /\ fresh'[d] = {}
    BY <1>2 DEF ClientInv
  <2>3. oper' # "connect"
    BY <1>2 DEF OperInv
  <2> QED BY <2>1, <2>2, <2>3 DEF ClientInv, LoadInv, QuietInv
<1> QED BY <1>4, <1>5, <1>6 DEF ClientsInv

LEMMA ConnectEndsInv ==
    ASSUME ClientsInv, ConnectEnds
    PROVE  ClientsInv'
<1>1. /\ UNCHANGED <<rows, susp, attempt, monFaults, drops>>
      /\ oper = "connect" /\ oper' = "none"
      /\ at' = [d \in Both |-> 0] /\ fresh' = [d \in Both |-> {}]
  BY DEF ConnectEnds
<1>2. TypeInv /\ OperInv /\ \A d \in Both : ClientInv(d) /\ QuietInv(d)
  BY DEF ClientsInv
<1>3. ~ handed /\ ~ susp /\ \A d \in Both : cli[d] \in {"new", "up", "down"}
  BY <1>1, <1>2 DEF OperInv, ClientInv
<1>4. "nb" \in Both /\ "sb" \in Both
  BY DEF Both
<1>5. CASE (\A d \in Both : Loaded(d)) /\ handed' = TRUE /\ cookies' = fresh /\ UNCHANGED <<cli, closings, held>>
  <2>1. TypeInv'
    <3>1. 0 \in Failed..(Len(Requested) + 1)
      BY Requests DEF Failed
    <3> QED BY <3>1, <1>1, <1>2, <1>5 DEF TypeInv
  <2>2. OperInv'
    BY <1>1, <1>3, <1>4, <1>5 DEF OperInv
  <2>3. ASSUME NEW d \in Both PROVE ClientInv(d)' /\ LoadInv(d)' /\ QuietInv(d)'
    <3>1. at'[d] = 0 /\ fresh'[d] = {} /\ cookies'[d] = fresh[d]
      BY <1>1, <1>5
    <3>2. cli[d] \in {"up", "down"}
      <4>1. at[d] # 0 /\ at[d] # Failed
        BY <1>5, Requests DEF Loaded, Failed
      <4> QED BY <4>1, <1>2, <1>3 DEF ClientInv
    <3>3. Wanted \subseteq rows[d] /\ Wanted \subseteq Covered(d)
      BY <1>1, <1>5, <3>2, LoadedIsWhole
    <3>4. Covered(d)' = Covered(d)
      BY <1>5 DEF Covered
    <3>5. ClientInv(d)'
      BY <1>1, <1>2, <1>5, <3>1, <3>2 DEF ClientInv
    <3>6. LoadInv(d)'
      BY <1>1, <1>5, <3>3, <3>4 DEF LoadInv
    <3>7. QuietInv(d)'
      BY <1>1, <1>2, <1>3, <1>5, <3>1, <3>2 DEF QuietInv, Failed
    <3> QED BY <3>5, <3>6, <3>7
  <2> QED BY <2>1, <2>2, <2>3 DEF ClientsInv
<1>6. CASE CloseClients(ToClose) /\ UNCHANGED <<handed, cookies>>
  BY <1>1, <1>3, <1>6, CloseBothInv DEF ToClose
<1> QED BY <1>5, <1>6 DEF ConnectEnds

LEMMA CloseDatabasesInv ==
    ASSUME ClientsInv, CloseDatabases
    PROVE  ClientsInv'
<1>1. \A d \in Both : cli[d] # "closed"
  BY DEF CloseDatabases, ClientsInv, OperInv, Both
<1> QED BY <1>1, CloseBothInv DEF CloseDatabases

LEMMA SuspendInv ==
    ASSUME ClientsInv, SuspendMonitors
    PROVE  ClientsInv'
<1>1. /\ UNCHANGED <<cli, closings, at, fresh, oper, handed, attempt, drops>>
      /\ handed /\ oper = "none" /\ ~ susp /\ susp' = TRUE
      /\ cookies' = [d \in Both |-> {}] /\ rows' = [d \in Both |-> {}]
  BY DEF SuspendMonitors
<1>2. PICK kept :
        /\ IF kept = [d \in Both |-> {}] THEN UNCHANGED monFaults ELSE Fault
        /\ held' = [d \in Both |-> held[d] \ (cookies[d] \ kept[d])]
  BY DEF SuspendMonitors
<1>3. TypeInv /\ OperInv /\ \A d \in Both : ClientInv(d) /\ QuietInv(d)
  BY DEF ClientsInv
<1>4. monFaults' \in Nat /\ (monFaults' = 0 => monFaults = 0 /\ kept = [d \in Both |-> {}])
  BY <1>2, <1>3 DEF Fault, TypeInv
<1>5. held' \in [Both -> SUBSET Monitors] /\ \A d \in Both : held'[d] \subseteq held[d]
  BY <1>2, <1>3 DEF TypeInv
<1>6. TypeInv'
  BY <1>1, <1>3, <1>4, <1>5 DEF TypeInv
<1>7. OperInv'
  BY <1>1, <1>3 DEF OperInv
<1>8. ASSUME NEW d \in Both PROVE ClientInv(d)' /\ LoadInv(d)' /\ QuietInv(d)'
  <2>1. ClientInv(d)'
    BY <1>1, <1>3, <1>5 DEF ClientInv
  <2>2. LoadInv(d)'
    BY <1>1 DEF LoadInv
  <2>3. QuietInv(d)'
    <3> SUFFICES ASSUME monFaults' = 0, drops' = 0, cli'[d] # "closed"
                 PROVE  /\ cli[d] # "down" /\ at[d] # Failed /\ held'[d] = {} /\ rows'[d] = {}
      BY <1>1 DEF QuietInv
    <3>1. kept[d] = {} /\ monFaults = 0
      BY <1>4
    <3>2. held[d] \subseteq cookies[d] /\ cli[d] # "down" /\ at[d] # Failed
      BY <1>1, <1>3, <3>1 DEF QuietInv
    <3>3. held'[d] = held[d] \ (cookies[d] \ kept[d])
      BY <1>2
    <3> QED BY <1>1, <3>1, <3>2, <3>3
  <2> QED BY <2>1, <2>2, <2>3
<1> QED BY <1>6, <1>7, <1>8 DEF ClientsInv

\* ResumeMonitors and its step to the second database.
LEMMA ResumeInv ==
    ASSUME ClientsInv, ResumeMonitors \/ ResumeSecond
    PROVE  ClientsInv'
<1>1. UNCHANGED <<cli, closings, held, rows, fresh, cookies, handed, susp, monFaults, drops>>
  BY DEF ResumeMonitors, ResumeSecond
<1>2. TypeInv /\ OperInv /\ \A d \in Both : ClientInv(d) /\ LoadInv(d) /\ QuietInv(d)
  BY DEF ClientsInv
<1>3. handed /\ susp /\ oper' = "resume" /\ attempt' \in Nat
  BY <1>1, <1>2 DEF ResumeMonitors, ResumeSecond, OperInv, TypeInv
<1>4. PICK e \in Both : at[e] = 0 /\ at' = [at EXCEPT ![e] = 1]
  BY <1>2 DEF ResumeMonitors, ResumeSecond, ClientInv, Both
<1>5. oper = "none" \/ oper = "resume"
  BY DEF ResumeMonitors, ResumeSecond
<1>6. TypeInv'
  <2>1. at' \in [Both -> Failed..(Len(Requested) + 1)]
    <3>1. 1 \in Failed..(Len(Requested) + 1)
      BY Requests DEF Failed
    <3> QED BY <3>1, <1>2, <1>4 DEF TypeInv
  <2> QED BY <2>1, <1>1, <1>2, <1>3 DEF TypeInv
<1>7. OperInv'
  BY <1>1, <1>2, <1>3 DEF OperInv
<1>8. ASSUME NEW d \in Both PROVE ClientInv(d)' /\ LoadInv(d)' /\ QuietInv(d)'
  <2>1. at'[d] = at[d] \/ (d = e /\ at'[d] = 1)
    BY <1>2, <1>4 DEF TypeInv
  <2>2. oper = "none" => at[d] = 0
    BY <1>2 DEF ClientInv
  <2>3. cli[d] \in {"up", "down", "closed"} /\ Covered(d)' = Covered(d)
    BY <1>1, <1>2, <1>3 DEF ClientInv, Covered
  <2>4. ClientInv(d)'
    BY <1>1, <1>2, <1>3, <2>1, <2>3 DEF ClientInv
  <2>5. Asked(at'[d]) = Asked(at[d]) /\ (at'[d] # at[d] => Asked(at'[d]) = {})
    BY <1>4, <2>1, AskedNone
  <2>6. LoadInv(d)'
    <3>1. ~ (handed' /\ ~ susp')
      BY <1>1, <1>3
    <3>2. CASE at'[d] = 1
      <4>1. Asked(at'[d]) = {}
        BY <3>2, AskedNone
      <4> QED BY <3>1, <4>1 DEF LoadInv
    <3>3. CASE at'[d] # 1
      <4>1. at'[d] = at[d]
        BY <2>1, <3>3
      <4>2. CASE oper = "none"
        BY <4>1, <4>2, <2>2, <3>1 DEF LoadInv
      <4>3. CASE oper = "resume"
        BY <4>1, <4>3, <2>3, <2>5, <3>1, <1>1, <1>2 DEF LoadInv
      <4> QED BY <4>2, <4>3, <1>5
    <3> QED BY <3>2, <3>3
  <2>7. QuietInv(d)'
    <3>1. CASE oper = "none"
      <4>1. Asked(at'[d]) = {}
        BY <2>1, <2>2, <3>1, AskedNone
      <4> QED BY <3>1, <4>1, <2>1, <1>1, <1>2, <1>3 DEF QuietInv, Failed
    <3>2. CASE oper = "resume"
      BY <3>2, <2>1, <2>5, <1>1, <1>2, <1>3 DEF QuietInv, Failed
    <3> QED BY <3>1, <3>2, <1>5
  <2> QED BY <2>4, <2>6, <2>7
<1> QED BY <1>6, <1>7, <1>8 DEF ClientsInv

LEMMA ResumeEndsInv ==
    ASSUME ClientsInv, ResumeEnds
    PROVE  ClientsInv'
<1>1. /\ UNCHANGED <<cli, closings, held, rows, handed, attempt, monFaults, drops>>
      /\ oper = "resume" /\ oper' = "none"
      /\ at' = [d \in Both |-> 0] /\ fresh' = [d \in Both |-> {}]
      /\ at["nb"] = Failed \/ at["sb"] = Failed \/ ResumeOK
  BY DEF ResumeEnds, ResumeOK
<1>2. TypeInv /\ OperInv /\ \A d \in Both : ClientInv(d) /\ QuietInv(d)
  BY DEF ClientsInv
<1>3. handed /\ susp
  BY <1>1, <1>2 DEF OperInv
<1>4. IF ResumeOK THEN cookies' = fresh /\ susp' = FALSE ELSE cookies' = cookies /\ susp' = susp
  BY DEF ResumeEnds
<1>5. TypeInv'
  <2>1. 0 \in Failed..(Len(Requested) + 1)
    BY Requests DEF Failed
  <2> QED BY <2>1, <1>1, <1>2, <1>4 DEF TypeInv
<1>6. OperInv'
  BY <1>1, <1>2, <1>3 DEF OperInv
<1>7. ASSUME NEW d \in Both PROVE ClientInv(d)' /\ LoadInv(d)' /\ QuietInv(d)'
  <2>1. at'[d] = 0 /\ fresh'[d] = {} /\ Covered(d)' = Covered(d)
    BY <1>1 DEF Covered
  <2>2. ClientInv(d)'
    BY <1>1, <1>2, <1>3, <2>1 DEF ClientInv
  <2>3. LoadInv(d)'
    <3>1. CASE ResumeOK
      <4>1. cli[d] # "closed" => Wanted \subseteq rows[d] /\ Wanted \subseteq Covered(d)
        BY <3>1, <1>1, LoadedIsWhole DEF ResumeOK
      <4> QED BY <4>1, <1>1, <2>1 DEF LoadInv
    <3>2. CASE ~ ResumeOK
      BY <3>2, <1>1, <1>3, <1>4 DEF LoadInv
    <3> QED BY <3>1, <3>2
  <2>4. QuietInv(d)'
    <3> SUFFICES ASSUME monFaults = 0, drops = 0, cli[d] # "closed"
                 PROVE  cli[d] # "down" /\ held[d] \subseteq cookies'[d] /\ ~ susp'
      <4>1. /\ monFaults' = monFaults /\ drops' = drops /\ cli' = cli /\ held' = held
            /\ oper' = "none" /\ at'[d] # Failed
        BY <1>1, <2>1 DEF Failed
      <4> QED BY <4>1 DEF QuietInv
    <3>1. \A x \in Both : cli[x] # "closed"
      BY <1>2, <1>3 DEF OperInv, Both
    <3>2. \A x \in Both : at[x] # Failed
      BY <1>2, <3>1 DEF QuietInv
    <3>3. ResumeOK
      BY <1>1, <3>2 DEF Both
    <3> QED BY <3>3, <1>1, <1>2, <1>4 DEF QuietInv
  <2> QED BY <2>2, <2>3, <2>4
<1> QED BY <1>5, <1>6, <1>7 DEF ClientsInv

LEMMA DropInv ==
    ASSUME ClientsInv, NEW e \in Both, Drop(e)
    PROVE  ClientsInv'
<1>1. /\ UNCHANGED <<closings, held, rows, at, fresh, cookies, oper, handed, susp, attempt, monFaults>>
      /\ drops' = drops + 1 /\ cli[e] = "up" /\ cli' = [cli EXCEPT ![e] = "down"]
  BY DEF Drop
<1>2. TypeInv /\ OperInv /\ \A d \in Both : ClientInv(d) /\ LoadInv(d)
  BY DEF ClientsInv
<1>3. drops' \in Nat /\ drops' # 0
  BY <1>1, <1>2 DEF TypeInv
<1>4. \A d \in Both : cli'[d] = cli[d] \/ (cli[d] = "up" /\ cli'[d] = "down")
  BY <1>1, <1>2 DEF TypeInv
<1>5. TypeInv'
  BY <1>1, <1>2, <1>3 DEF TypeInv
<1>6. OperInv'
  BY <1>1, <1>2, <1>4 DEF OperInv, Both
<1>7. ASSUME NEW d \in Both PROVE ClientInv(d)' /\ LoadInv(d)' /\ QuietInv(d)'
  <2>1. Covered(d)' = Covered(d) /\ Asked(at'[d]) = Asked(at[d])
    BY <1>1 DEF Covered
  <2>2. cli'[d] = cli[d] \/ (cli[d] = "up" /\ cli'[d] = "down")
    BY <1>4
  <2> QED BY <1>1, <1>2, <1>3, <2>1, <2>2 DEF ClientInv, LoadInv, QuietInv
<1> QED BY <1>5, <1>6, <1>7 DEF ClientsInv

LEMMA ReconnectInv ==
    ASSUME ClientsInv, NEW e \in Both, Reconnect(e)
    PROVE  ClientsInv'
<1>1. /\ UNCHANGED <<closings, held, at, fresh, cookies, oper, handed, susp, attempt, monFaults, drops>>
      /\ cli[e] = "down" /\ cli' = [cli EXCEPT ![e] = "up"]
      /\ rows' = [rows EXCEPT ![e] = Covered(e)]
  BY DEF Reconnect, Covered
<1>2. TypeInv /\ OperInv /\ \A d \in Both : ClientInv(d) /\ LoadInv(d) /\ QuietInv(d)
  BY DEF ClientsInv
<1>3. Covered(e) \subseteq Wanted
  BY <1>2, CoveredWanted
<1>4. \A d \in Both : \/ cli'[d] = cli[d] /\ rows'[d] = rows[d]
                      \/ d = e /\ cli[d] = "down" /\ cli'[d] = "up" /\ rows'[d] = Covered(d)
  BY <1>1, <1>2 DEF TypeInv
<1>5. TypeInv'
  BY <1>1, <1>2, <1>3 DEF TypeInv
<1>6. OperInv'
  BY <1>1, <1>2, <1>4 DEF OperInv, Both
<1>7. monFaults' # 0 \/ drops' # 0
  BY <1>1, <1>2 DEF QuietInv
<1>8. ASSUME NEW d \in Both PROVE ClientInv(d)' /\ LoadInv(d)' /\ QuietInv(d)'
  <2>1. Covered(d)' = Covered(d) /\ Asked(at'[d]) = Asked(at[d])
    BY <1>1 DEF Covered
  <2>2. \/ cli'[d] = cli[d] /\ rows'[d] = rows[d]
        \/ cli[d] = "down" /\ cli'[d] = "up" /\ rows'[d] = Covered(d)
    BY <1>4
  <2> QED BY <1>1, <1>2, <1>7, <2>1, <2>2 DEF ClientInv, LoadInv, QuietInv
<1> QED BY <1>5, <1>6, <1>8 DEF ClientsInv

LEMMA ClientsNextInv ==
    ASSUME ClientsInv, [ClientsNext]_clientVars
    PROVE  ClientsInv'
<1>1. CASE NewClients \/ ConnectEnds \/ SuspendMonitors \/ CloseDatabases
  BY <1>1, NewClientsInv, ConnectEndsInv, SuspendInv, CloseDatabasesInv
<1>2. CASE ResumeMonitors \/ ResumeSecond \/ ResumeEnds
  BY <1>2, ResumeInv, ResumeEndsInv
<1>3. CASE \E d \in Both : Dial(d) \/ MonitorNext(d) \/ Drop(d) \/ Reconnect(d)
  BY <1>3, DialInv, MonitorNextInv, DropInv, ReconnectInv
<1>4. CASE UNCHANGED clientVars
  <2>1. UNCHANGED <<cli, closings, held, rows, at, fresh, cookies, oper, handed, susp,
                    attempt, monFaults, drops>>
    BY <1>4 DEF clientVars
  <2>2. TypeInv' /\ OperInv'
    BY <2>1 DEF ClientsInv, TypeInv, OperInv
  <2>3. ASSUME NEW d \in Both PROVE ClientInv(d)' /\ LoadInv(d)' /\ QuietInv(d)'
    <3>1. Covered(d)' = Covered(d) /\ Asked(at'[d]) = Asked(at[d])
      BY <2>1 DEF Covered
    <3> QED BY <2>1, <3>1 DEF ClientsInv, ClientInv, LoadInv, QuietInv
  <2> QED BY <2>2, <2>3 DEF ClientsInv
<1> QED BY <1>1, <1>2, <1>3, <1>4 DEF ClientsNext

(* In every reachable state of the clients, a load under way has all the   *)
(* tables asked for so far cached and monitored, a handle that is not      *)
(* suspended has all of them, and without a failure every monitor is known *)
(* by its cookie (client.go).                                              *)
THEOREM ClientsInvariant == ClientsSpec => []ClientsInv
<1>1. ClientsInit => ClientsInv
  BY ClientsInitInv
<1>2. ClientsInv /\ [ClientsNext]_clientVars => ClientsInv'
  BY ClientsNextInv
<1> QED BY <1>1, <1>2, PTL DEF ClientsSpec

(* For any tables and any failures: Connect hands out both clients or      *)
(* leaves none open, each is closed at most once, a ready handle has every *)
(* wanted table of both databases in its caches, and without a failure     *)
(* SuspendMonitors can cancel every monitor that a server holds.           *)
THEOREM ClientsAreSound == ClientsSpec => []ClientsHold
<1>1. ClientsInv => ClientsHold
  <2> SUFFICES ASSUME ClientsInv PROVE ClientsHold
    OBVIOUS
  <2>1. TypeInv /\ OperInv /\ \A d \in Both : ClientInv(d) /\ LoadInv(d) /\ QuietInv(d)
    BY DEF ClientsInv
  <2>2. ClientsTypeOK
    <3>1. \A d \in Both : closings[d] <= 1
      BY <2>1 DEF ClientInv
    <3> QED BY <2>1, <3>1 DEF ClientsTypeOK, TypeInv
  <2>3. ConnectAllOrNothing
    BY <2>1 DEF ConnectAllOrNothing, ClientInv
  <2>4. ReadyIsWhole
    <3> SUFFICES ASSUME handed, Ready, NEW d \in Both PROVE rows[d] = Wanted
      BY DEF ReadyIsWhole
    <3>1. Wanted \subseteq rows[d]
      BY <2>1 DEF Ready, LoadInv
    <3> QED BY <2>1, <3>1 DEF TypeInv
  <2>5. NoOrphanMonitor
    BY <2>1 DEF NoOrphanMonitor, QuietInv, ClientInv
  <2> QED BY <2>2, <2>3, <2>4, <2>5 DEF ClientsHold
<1> QED BY <1>1, ClientsInvariant, PTL
============================================================================
