----------------------------- MODULE EnrichCache -----------------------------
(***************************************************************************)
(* internal/enrich/cache.go and enrich.go: a bounded cache in front of a   *)
(* slow provider (OpenStack, Kubernetes).  Concurrent lookups of one key   *)
(* may all miss, ask, and store; Get unlocks before it removes an expired  *)
(* entry.  The cached information is the time the provider read it.        *)
(***************************************************************************)
EXTENDS Integers, FiniteSets, Functions

CONSTANTS
    Lookups, CacheKeys,
    MaxEntries,     \* maxCacheEntries
    CacheTTL,
    CallTime,       \* bound on the duration of a provider call
    CacheTime

VARIABLES
    entries,        \* key -> [info, expiresAt]
    time,
    look            \* look[l]: a running enrich call
cacheVars == <<entries, time, look>>

ASSUME CacheConstants == MaxEntries \in Nat \ {0} /\ {CacheTTL, CallTime, CacheTime} \subseteq Nat

NoLookup == [stage |-> "idle", key |-> "", info |-> 0, asked |-> 0]

CacheTypeOK ==
    /\ DOMAIN entries \subseteq CacheKeys /\ Cardinality(DOMAIN entries) <= MaxEntries
    /\ \A l \in Lookups : look[l].stage \in {"idle", "expired", "ask", "answer", "done"}

CacheInit == entries = <<>> /\ time = 0 /\ look = [l \in Lookups |-> NoLookup]

After(e) == time > e.expiresAt

\* Get under the read lock: a hit, a miss, or an entry to remove.
Get(l) ==
    /\ look[l].stage = "idle"
    /\ \E k \in CacheKeys :
          look' = [look EXCEPT ![l] =
             IF k \notin DOMAIN entries THEN [NoLookup EXCEPT !.stage = "ask", !.key = k]
             ELSE IF After(entries[k]) THEN [NoLookup EXCEPT !.stage = "expired", !.key = k]
             ELSE [stage |-> "done", key |-> k, info |-> entries[k].info, asked |-> time]]
    /\ UNCHANGED <<entries, time>>

\* Mutant: the entry is removed as it was read.
GetExpired_NoRecheck(l) ==
    /\ look[l].stage = "expired"
    /\ entries' = Restrict(entries, DOMAIN entries \ {look[l].key})
    /\ look' = [look EXCEPT ![l].stage = "ask"] /\ UNCHANGED time

\* Under the write lock: still there and still expired.
GetExpired(l) ==
    /\ look[l].stage = "expired"
    /\ LET k == look[l].key IN
       entries' = IF k \in DOMAIN entries /\ After(entries[k])
                  THEN Restrict(entries, DOMAIN entries \ {k}) ELSE entries
    /\ look' = [look EXCEPT ![l].stage = "ask"] /\ UNCHANGED time

\* The provider reads its data at some point of the call, and answers or fails.
Ask(l) ==
    /\ look[l].stage = "ask"
    /\ \/ look' = [look EXCEPT ![l].stage = "answer", ![l].info = time, ![l].asked = time]
       \/ look' = [look EXCEPT ![l] = NoLookup]
    /\ UNCHANGED <<entries, time>>

\* evictLocked: the possible key sets left, in a cache at its limit.
Evicted ==
    LET live == {k \in DOMAIN entries : ~ After(entries[k])}
    IN  IF Cardinality(live) < MaxEntries THEN {live}
        ELSE {s \in SUBSET live : Cardinality(s) = MaxEntries - 1}

\* Set, and the answer of enrich.
Set(l) ==
    LET k == look[l].key
        rooms == IF k \notin DOMAIN entries /\ Cardinality(DOMAIN entries) >= MaxEntries
                 THEN Evicted ELSE {DOMAIN entries}
        e == [info |-> look[l].info, expiresAt |-> time + CacheTTL]
    IN  /\ look[l].stage = "answer"
        /\ \E keys \in rooms :
              entries' = [x \in keys \cup {k} |-> IF x = k THEN e ELSE entries[x]]
        /\ look' = [look EXCEPT ![l].stage = "done", ![l].asked = time] /\ UNCHANGED time

Return(l) == look[l].stage = "done" /\ look' = [look EXCEPT ![l] = NoLookup] /\ UNCHANGED <<entries, time>>

\* A call that has reached the provider ends within CallTime.
CacheTick ==
    /\ time < CacheTime /\ time' = time + 1
    /\ \A l \in Lookups : /\ look[l].stage = "answer" => time < look[l].asked + CallTime
                          /\ look[l].stage # "done"
    /\ UNCHANGED <<entries, look>>

CacheNext ==
    \/ CacheTick
    \/ \E l \in Lookups : Get(l) \/ GetExpired(l) \/ Ask(l) \/ Set(l) \/ Return(l)

CacheSpec == CacheInit /\ [][CacheNext]_cacheVars

(* Information handed out is at most one lifetime and one provider call    *)
(* old, also when a slow answer overwrites a faster later one (Set).       *)
InfoAgeBounded ==
    \A l \in Lookups : look[l].stage = "done" => look[l].asked - look[l].info <= CacheTTL + CallTime

(* A lookup that found an expired entry never removes the fresh one another *)
(* lookup stored meanwhile (the second check of Get).                       *)
FreshSurvivesGet ==
    [][\A k \in DOMAIN entries \ DOMAIN entries' :
          \/ After(entries[k])
          \/ /\ Cardinality(DOMAIN entries) >= MaxEntries
             /\ DOMAIN entries' \ DOMAIN entries # {}]_cacheVars

=============================================================================
