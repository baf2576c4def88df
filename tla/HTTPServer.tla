----------------------------- MODULE HTTPServer -----------------------------
(***************************************************************************)
(* What surrounds every handler: internal/api (authentication and its      *)
(* throttle, deadline, recovery, stale marker), the metrics middleware of  *)
(* internal/telemetry, and the order main.go puts them in.  Requests run   *)
(* concurrently; the throttle is consulted, the credential is compared and *)
(* the failure is recorded in three separate steps.                        *)
(***************************************************************************)
EXTENDS Integers, Sequences, FiniteSets

CONSTANTS
    Calls,          \* requests
    IPs,            \* source addresses
    AuthFailureLimit, AuthFailureWindow, AuthThrottleMaxIPs,
    MaxTick         \* bound on time

VARIABLES
    clock,
    entries,        \* authThrottle.entries: IP -> [count, resets], or NoEntry
    call,           \* call -> its state
    wrong           \* observation: IP -> [n, from], the wrong credentials compared
                    \* for it since from, that is in its window

httpVars == <<clock, entries, call, wrong>>

NoEntry == [count |-> 0, resets |-> -1]
Kinds == {"read", "mutate"}
NoCall == [stage |-> "idle", ip |-> "none", kind |-> "read", cred |-> "none",
           actor |-> "none", status |-> "none", counted |-> "none"]

ASSUME HttpConstants ==
    /\ IsFiniteSet(Calls) /\ IsFiniteSet(IPs) /\ MaxTick \in Nat
    /\ {AuthFailureLimit, AuthFailureWindow, AuthThrottleMaxIPs} \subseteq Nat \ {0}

HttpInit ==
    /\ clock = 0 /\ entries = [i \in IPs |-> NoEntry]
    /\ call = [c \in Calls |-> NoCall]
    /\ wrong = [i \in IPs |-> [n |-> 0, from |-> 0]]

Tracked == {i \in IPs : entries[i] # NoEntry}
Live(i) == clock < entries[i].resets

---------------------------------------------------------------------------
(* The throttle *)

\* Mutant: the limit itself is still allowed.
Locked_Above(i) == entries[i].count > AuthFailureLimit

Locked(i) == entries[i].count >= AuthFailureLimit

\* blocked drops an entry whose window is over.
AfterBlocked(i) == IF i \in Tracked /\ ~ Live(i) THEN [entries EXCEPT ![i] = NoEntry] ELSE entries
Blocked(i) == i \in Tracked /\ Live(i) /\ Locked(i)

Swept == [i \in IPs |-> IF Live(i) THEN entries[i] ELSE NoEntry]

\* At the limit, and nothing to sweep.
Full == Cardinality(Tracked) >= AuthThrottleMaxIPs /\ Swept = entries

\* fail: count in the running window, open a new one, or drop the sample.
AfterFail(i) ==
    IF i \in Tracked /\ Live(i) THEN [entries EXCEPT ![i] = [entries[i] EXCEPT !.count = entries[i].count + 1]]
    ELSE IF Full THEN entries
    ELSE LET room == IF Cardinality(Tracked) >= AuthThrottleMaxIPs THEN Swept ELSE entries
         IN [room EXCEPT ![i] = [count |-> 1, resets |-> clock + AuthFailureWindow]]

\* Observation, apart from entries: the addresses whose window is open, and what a
\* wrong credential adds (nothing for a new address when others fill the limit).
Watched == {i \in IPs : wrong[i].n > 0 /\ clock < wrong[i].from + AuthFailureWindow}
AfterWrong(i) ==
    CASE i \in Watched -> [wrong EXCEPT ![i] = [n |-> wrong[i].n + 1, from |-> wrong[i].from]]
      [] i \notin Watched /\ Cardinality(Watched) < AuthThrottleMaxIPs ->
           [wrong EXCEPT ![i] = [n |-> 1, from |-> clock]]
      [] OTHER -> wrong

---------------------------------------------------------------------------
(* The chain *)

\* main.go's slice; each wraps the ones before it.
Wrappers == <<"recover", "metrics", "deadline", "auth">>

\* An outcome on its way out through a wrapper: recovery turns a panic into a
\* 500, metrics counts what returns through it.
Through(w, acc) ==
    CASE w = "recover" /\ acc.out = "panic" -> [acc EXCEPT !.out = "500"]
      [] w = "metrics" /\ acc.out \notin {"panic", "abort"} -> [acc EXCEPT !.counted = acc.out]
      [] OTHER -> acc

Outward(outcome) ==
    Through(Wrappers[4], Through(Wrappers[3], Through(Wrappers[2], Through(Wrappers[1],
        [out |-> outcome, counted |-> "none"]))))

\* GET, HEAD, OPTIONS and paths outside /api/ pass.
requiresAuth(kind) == kind = "mutate"

Arrive(c, i, k, cr) ==
    /\ call[c].stage = "idle"
    /\ LET q == [NoCall EXCEPT !.ip = i, !.kind = k, !.cred = cr] IN
       IF ~ requiresAuth(k)
       THEN call' = [call EXCEPT ![c] = [q EXCEPT !.stage = "serve"]] /\ UNCHANGED entries
       ELSE /\ entries' = AfterBlocked(i)
            /\ call' = [call EXCEPT ![c] = IF Blocked(i) THEN [q EXCEPT !.stage = "done", !.status = "429"]
                                            ELSE [q EXCEPT !.stage = "lookup"]]
    /\ UNCHANGED <<clock, wrong>>

\* lookupActor, then succeed or fail.
Lookup(c) ==
    LET q == call[c] IN
    /\ q.stage = "lookup"
    /\ IF q.cred = "good"
       THEN /\ entries' = [entries EXCEPT ![q.ip] = NoEntry]
            /\ call' = [call EXCEPT ![c] = [q EXCEPT !.stage = "serve", !.actor = "token"]]
            /\ wrong' = [wrong EXCEPT ![q.ip] = [n |-> 0, from |-> 0]]
       ELSE /\ entries' = AfterFail(q.ip)
            /\ call' = [call EXCEPT ![c] = [q EXCEPT !.stage = "done", !.status = "401"]]
            /\ wrong' = AfterWrong(q.ip)
    /\ UNCHANGED clock

\* The handler runs: it answers, panics, or aborts the response on purpose.
\* counted is the status northwatch_http_requests_total is raised for.
Handle(c, outcome) ==
    LET o == Outward(outcome) IN
    /\ call[c].stage = "serve"
    /\ call' = [call EXCEPT ![c] = [call[c] EXCEPT !.stage = "done", !.counted = o.counted,
                       !.status = IF o.out \in {"panic", "abort"} THEN "dropped" ELSE o.out]]
    /\ UNCHANGED <<clock, entries, wrong>>

\* The connection serves its next request.
Finish(c) ==
    /\ call[c].stage = "done" /\ call' = [call EXCEPT ![c] = NoCall]
    /\ UNCHANGED <<clock, entries, wrong>>

Second == /\ clock < MaxTick /\ clock' = clock + 1
          /\ UNCHANGED <<entries, call, wrong>>

HttpNext ==
    \/ Second
    \/ \E c \in Calls :
         \/ \E i \in IPs, k \in Kinds, cr \in {"good", "bad"} : Arrive(c, i, k, cr)
         \/ Lookup(c) \/ Finish(c)
         \/ \E o \in {"200", "panic", "abort"} : Handle(c, o)

HttpSpec == HttpInit /\ [][HttpNext]_httpVars

---------------------------------------------------------------------------

\* The tracking table keeps within its limit, whoever floods it (auth.go:97-99).
HttpTypeOK ==
    /\ Cardinality(Tracked) <= AuthThrottleMaxIPs
    /\ \A i \in Tracked : entries[i].count >= 1 /\ entries[i].resets <= clock + AuthFailureWindow
    /\ \A c \in Calls : call[c].stage \in {"idle", "lookup", "serve", "done"}

(* Between two successes of an address, at most AuthFailureLimit wrong     *)
(* credentials are compared for it in a window, plus one for every other   *)
(* request that had passed the check before (auth.go:61-77).  The throttle *)
(* promises no more: a success starts the count anew (auth.go:163-167),    *)
(* and while AuthThrottleMaxIPs other addresses have open windows a new    *)
(* address is not counted, so it may guess without bound (auth.go:150-155).*)
GuessesBounded ==
    \A i \in IPs : wrong[i].n <= AuthFailureLimit + Cardinality(Calls) - 1

\* No mutation reaches its handler without the name of the token that
\* authenticated it, the name the audit log records (auth.go:20-27, 193-199).
MutationsAreNamed ==
    \A c \in Calls : call[c].stage = "serve" /\ call[c].kind = "mutate" => call[c].actor # "none"

\* Every answer the mux gives is counted under the status the client saw, a
\* recovered panic included, and only a deliberate abort drops a connection
\* (main.go:340-343, recover.go:9-18).
AnswersAreCounted ==
    \A c \in Calls : call[c].stage = "done" /\ call[c].status \notin {"401", "429"} =>
        call[c].counted = IF call[c].status = "dropped" THEN "none" ELSE call[c].status

(* The HTTP chain: the wrong credentials of a counted address between two  *)
(* successes are bounded although check and count are two steps, a         *)
(* mutation carries its user's name, and every answered request is counted.*)
HttpHolds == HttpTypeOK /\ GuessesBounded /\ MutationsAreNamed /\ AnswersAreCounted
=============================================================================
