----------------------------- MODULE RateLimiter -----------------------------
(***************************************************************************)
(* The token bucket of internal/write/rate_limit.go that Preview, DryRun,  *)
(* Apply and Rollback ask before they do anything.  Time is counted in     *)
(* ticks, Minute ticks to the minute; the bucket holds Rate tokens, and    *)
(* the refill is rounded down, the remainder being lost.                   *)
(***************************************************************************)
EXTENDS Integers, Sequences

CONSTANTS
    Rate,      \* --write-rate-limit, operations per minute
    Minute,    \* ticks per minute
    MaxTime    \* bound on the clock

VARIABLES
    now,         \* the monotonic clock
    tokens, lastRefill,
    grants,      \* observation: when each granted request came
    denied       \* observation: the last request was refused at this instant

vars == <<now, tokens, lastRefill, grants, denied>>

ASSUME RateConstants == {Rate, Minute} \subseteq Nat \ {0} /\ MaxTime \in Nat

Init == now = 0 /\ tokens = Rate /\ lastRefill = 0 /\ grants = <<>> /\ denied = FALSE

Least(a, b) == IF a < b THEN a ELSE b

\* Tokens after the refill, and the time it is accounted to.
Refill   == ((now - lastRefill) * Rate) \div Minute
Refilled == Least(tokens + Refill, Rate)

\* Mutant: the refill time is only moved when the bucket was empty.
RefillTime_WhenEmpty == IF Refill > 0 /\ tokens = 0 THEN now ELSE lastRefill

RefillTime == IF Refill > 0 THEN now ELSE lastRefill

\* One call of allow, under the limiter's mutex.
Allow ==
    /\ lastRefill' = RefillTime
    /\ IF Refilled > 0
       THEN tokens' = Refilled - 1 /\ grants' = Append(grants, now) /\ denied' = FALSE
       ELSE tokens' = Refilled /\ denied' = TRUE /\ UNCHANGED grants
    /\ UNCHANGED now

Tick == now < MaxTime /\ now' = now + 1 /\ denied' = FALSE /\ UNCHANGED <<tokens, lastRefill, grants>>

Next == Allow \/ Tick
Spec == Init /\ [][Next]_vars

---------------------------------------------------------------------------

\* The bucket never holds more than Rate tokens; grants are in time order.
TypeOK ==
    /\ now \in Nat /\ tokens \in 0..Rate /\ lastRefill \in 0..now
    /\ grants \in Seq(0..now) /\ denied \in BOOLEAN

(* The blast radius: any span of time admits at most one bucket, what the  *)
(* rate refills during it, and the one token that was being earned when    *)
(* the span began, whatever the rounding does (rate_limit.go:26-48).       *)
SpanBound ==
    \A i, j \in DOMAIN grants : i <= j =>
        j - i + 1 <= Rate + 1 + ((grants[j] - grants[i]) * Rate) \div Minute

(* Nobody is refused without a reason: a refusal means that a request was  *)
(* granted less than a token's time ago, so a client that waits one        *)
(* Minute / Rate is served (rate_limit.go:32-43).                          *)
RefusedOnlyWhenBusy ==
    denied => \E i \in DOMAIN grants : (now - grants[i]) * Rate < Minute

==============================================================================
