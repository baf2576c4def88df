---------------------------- MODULE StoresProofs ----------------------------
(***************************************************************************)
(* Theorems of the bounded stores, for every capacity, lifetime, rate and  *)
(* number of clients, and of the priorities that failover plans write.     *)
(*                                                                         *)
(* Each store has an inductive invariant that ties what it keeps to what   *)
(* was done to it: the limiter's tokens to the operations admitted         *)
(* (OwedInv, SpentInv), the ring to the end of the log of all additions    *)
(* (LogInv), an entry's expiry to the moment its information was read      *)
(* (EntryInv), a trace's date to the clock (TraceInv), a list to the       *)
(* lookups it was joined from and a flight to the requests that wait for   *)
(* it (ReportInv).                                                         *)
(*                                                                         *)
(* A failover plan is judged when it is committed, by what its builder     *)
(* read.  HAInv therefore says of every plan which operations its kind     *)
(* stands for, as a function of the rows it has seen (PlanInv), and of     *)
(* every row that only Evacuate and Restore wrote, that the server, the    *)
(* cache and every plan on its way hold one of two values (DrainInv).      *)
(***************************************************************************)
EXTENDS Stores, HAFailover, HistoryStoreProofs, SequenceTheorems

---------------------------------------------------------------------------
(* The write limiter *)

(* Arithmetic of the refill *)

\* What \div rounds down to.
LEMMA DivBounds ==
    ASSUME NEW a \in Nat, NEW m \in Nat \ {0}
    PROVE  a \div m \in Nat /\ (a \div m) * m <= a /\ a < (a \div m) * m + m
OBVIOUS

LEMMA TimesMonotone ==
    ASSUME NEW a \in Int, NEW b \in Int, a <= b, NEW c \in Nat
    PROVE  a * c <= b * c
OBVIOUS

LEMMA DivLeast ==
    ASSUME NEW a \in Int, NEW m \in Nat \ {0}, NEW q \in Int, q * m <= a
    PROVE  q <= a \div m
<1>1. a \div m \in Int /\ a < (a \div m) * m + m
  OBVIOUS
<1>2. SUFFICES ASSUME q > a \div m PROVE FALSE
  BY <1>1
<1> DEFINE d == a \div m
<1>3. q >= d + 1
  BY <1>1, <1>2
<1> HIDE DEF d
<1>4. d \in Int /\ a < d * m + m
  BY <1>1 DEF d
<1>5. q * m >= (d + 1) * m
  BY <1>3, <1>4
<1> QED BY <1>4, <1>5

----------------------------------------------------------------------------
(* The inductive invariant of the limiter *)

\* What has been granted since grant i, and what may be granted at once, beyond a
\* bucket and a token, was refilled since then.
OwedInv ==
    \A i \in DOMAIN grants :
        (Len(grants) - i + tokens - Rate) * Minute <= (lastRefill - grants[i]) * Rate

\* Only a grant empties the bucket.
SpentInv == tokens = Rate \/ \E i \in DOMAIN grants : grants[i] >= lastRefill

LimiterInv == TypeOK /\ OwedInv /\ SpentInv /\ SpanBound /\ RefusedOnlyWhenBusy

LEMMA RateFacts == Rate \in Nat /\ Rate >= 1 /\ Minute \in Nat /\ Minute >= 1
BY RateConstants

LEMMA LimiterInitInv == Init => LimiterInv
<1> SUFFICES ASSUME Init PROVE LimiterInv
  OBVIOUS
<1>1. now = 0 /\ tokens = Rate /\ lastRefill = 0 /\ grants = <<>> /\ denied = FALSE
  BY DEF Init
<1>2. grants \in Seq(0..now) /\ DOMAIN grants = {}
  BY <1>1
<1>3. now \in Nat /\ tokens \in 0..Rate /\ lastRefill \in 0..now
  BY <1>1, RateFacts
<1>4. TypeOK
  BY <1>1, <1>2, <1>3, Zenon DEF TypeOK
<1> QED BY <1>1, <1>2, <1>4 DEF LimiterInv, OwedInv, SpentInv, SpanBound, RefusedOnlyWhenBusy

\* What one call computes before it decides.
LEMMA RefillFacts ==
    ASSUME LimiterInv
    PROVE  /\ Refill \in Nat /\ Refill * Minute <= (now - lastRefill) * Rate
           /\ Refill = 0 => (now - lastRefill) * Rate < Minute
           /\ RefillTime \in 0..now /\ RefillTime >= lastRefill
           /\ (now - RefillTime) * Rate < Minute
           /\ Refill * Minute <= (RefillTime - lastRefill) * Rate
           /\ Refilled \in 0..Rate /\ Refilled <= tokens + Refill
           /\ Refill > 0 => Refilled > 0 /\ RefillTime = now
           /\ Refill = 0 => Refilled = tokens /\ RefillTime = lastRefill
<1>1. now \in Nat /\ lastRefill \in 0..now /\ tokens \in 0..Rate
  BY DEF LimiterInv, TypeOK
<1>2. now - lastRefill \in Nat
  BY <1>1
<1>3. (now - lastRefill) * Rate \in Nat
  BY <1>2, RateFacts
<1>4. /\ Refill \in Nat /\ Refill * Minute <= (now - lastRefill) * Rate
      /\ (now - lastRefill) * Rate < Refill * Minute + Minute
  BY <1>3, RateFacts, DivBounds DEF Refill
<1> HIDE DEF Refill
<1>5. Refill = 0 => (now - lastRefill) * Rate < Minute
  BY <1>4, RateFacts
<1>6. RefillTime = IF Refill > 0 THEN now ELSE lastRefill
  BY DEF RefillTime
<1>7. /\ RefillTime \in 0..now /\ RefillTime >= lastRefill
      /\ (now - RefillTime) * Rate < Minute
      /\ Refill * Minute <= (RefillTime - lastRefill) * Rate
  <2>1. CASE Refill > 0
    BY <1>1, <1>4, <1>6, <2>1, RateFacts
  <2>2. CASE Refill = 0
    BY <1>1, <1>5, <1>6, <2>2, RateFacts
  <2> QED BY <1>4, <2>1, <2>2
<1>8. /\ Refilled \in 0..Rate /\ Refilled <= tokens + Refill
      /\ Refill > 0 => Refilled > 0
      /\ Refill = 0 => Refilled = tokens
  BY <1>1, <1>4, RateFacts DEF Refilled, Least
<1> QED BY <1>4, <1>5, <1>6, <1>7, <1>8

\* A call that is granted.
LEMMA GrantInv == ASSUME LimiterInv, Allow, Refilled > 0 PROVE LimiterInv'
<1>1. /\ lastRefill' = RefillTime /\ tokens' = Refilled - 1
      /\ grants' = Append(grants, now) /\ denied' = FALSE /\ now' = now
  BY DEF Allow
<1>2. now \in Nat /\ lastRefill \in 0..now /\ tokens \in 0..Rate /\ grants \in Seq(0..now)
  BY DEF LimiterInv, TypeOK
<1>3. /\ Len(grants) \in Nat /\ Len(grants') = Len(grants) + 1 /\ DOMAIN grants = 1..Len(grants)
      /\ DOMAIN grants' = 1..(Len(grants) + 1) /\ grants'[Len(grants) + 1] = now
      /\ \A i \in 1..Len(grants) : grants'[i] = grants[i] /\ grants[i] \in 0..now
      /\ grants' \in Seq(0..now)
  BY <1>1, <1>2, AppendProperties, LenProperties, ElementOfSeq
<1> DEFINE r == RefillTime  k == Refill  full == Refilled
<1>4. /\ k \in Nat /\ k * Minute <= (r - lastRefill) * Rate
      /\ r \in 0..now /\ (now - r) * Rate < Minute
      /\ full \in 0..Rate /\ full <= tokens + k /\ full > 0
      /\ lastRefill' = r /\ tokens' = full - 1
  BY <1>1, RefillFacts
<1> HIDE DEF r, k, full
<1>5. TypeOK'
  <2>1. now' \in Nat /\ tokens' \in 0..Rate /\ lastRefill' \in 0..now'
    BY <1>1, <1>2, <1>4, RateFacts
  <2>2. grants' \in Seq(0..now') /\ denied' \in BOOLEAN
    BY <1>1, <1>3
  <2> QED BY <2>1, <2>2 DEF TypeOK
<1>6. OwedInv'
  <2> SUFFICES ASSUME NEW i \in 1..(Len(grants) + 1)
               PROVE  (Len(grants') - i + tokens' - Rate) * Minute <= (lastRefill' - grants'[i]) * Rate
    BY <1>3 DEF OwedInv
  <2>1. CASE i = Len(grants) + 1
    <3>1. Len(grants') - i + tokens' - Rate <= -1
      BY <1>3, <1>4, <2>1, RateFacts
    <3>2. (Len(grants') - i + tokens' - Rate) * Minute <= - Minute
      <4> DEFINE q == Len(grants') - i + tokens' - Rate
      <4>1. q \in Int /\ q <= -1
        BY <1>3, <1>4, <3>1, RateFacts
      <4> HIDE DEF q
      <4> QED BY <4>1, RateFacts DEF q
    <3>3. (r - now) * Rate > - Minute
      BY <1>2, <1>4, RateFacts
    <3>4. lastRefill' - grants'[i] = r - now
      BY <1>3, <1>4, <2>1
    <3> DEFINE A == (Len(grants') - i + tokens' - Rate) * Minute  B == (r - now) * Rate
    <3>5. A \in Int /\ B \in Int /\ A <= - Minute /\ B > - Minute
      BY <1>2, <1>3, <1>4, <3>2, <3>3, RateFacts
    <3> HIDE DEF A, B
    <3>6. A <= B
      BY <3>5, RateFacts
    <3> QED BY <3>4, <3>6 DEF A, B
  <2>2. CASE i \in 1..Len(grants)
    <3> DEFINE q == Len(grants) - i + tokens - Rate
               p == Len(grants') - i + tokens' - Rate
               g == grants[i]
    <3>1. q \in Int /\ p \in Int /\ p <= q + k /\ g \in Int /\ grants'[i] = g
      BY <1>2, <1>3, <1>4, <2>2, RateFacts
    <3>2. q * Minute <= (lastRefill - g) * Rate
      BY <1>3, <2>2 DEF LimiterInv, OwedInv
    <3> HIDE DEF p, q, g
    <3>3. p * Minute <= q * Minute + k * Minute
      <4>1. p * Minute <= (q + k) * Minute
        BY <1>4, <3>1, RateFacts
      <4> QED BY <1>4, <3>1, <4>1, RateFacts
    <3>4. (lastRefill - g) * Rate + (r - lastRefill) * Rate = (r - g) * Rate
      BY <1>2, <1>4, <3>1, RateFacts
    <3>5. p * Minute <= (r - g) * Rate
      <4> DEFINE A == (lastRefill - g) * Rate  B == (r - lastRefill) * Rate
                 C == p * Minute  D == q * Minute  E == k * Minute  F == (r - g) * Rate
      <4>1. A \in Int /\ B \in Int /\ C \in Int /\ D \in Int /\ E \in Int /\ F \in Int
        BY <1>2, <1>4, <3>1, RateFacts
      <4>2. C <= D + E /\ D <= A /\ E <= B /\ A + B = F
        BY <1>4, <3>2, <3>3, <3>4
      <4> HIDE DEF A, B, C, D, E, F
      <4>3. C <= F
        BY <4>1, <4>2
      <4> QED BY <4>3 DEF C, F
    <3> QED BY <1>4, <3>1, <3>5 DEF p
  <2> QED BY <1>3, <2>1, <2>2
<1>7. SpentInv'
  <2>1. Len(grants) + 1 \in DOMAIN grants' /\ grants'[Len(grants) + 1] >= lastRefill'
    BY <1>2, <1>3, <1>4
  <2> QED BY <2>1 DEF SpentInv
<1>8. SpanBound'
  <2> SUFFICES ASSUME NEW i \in 1..(Len(grants) + 1), NEW j \in 1..(Len(grants) + 1), i <= j
               PROVE  j - i + 1 <= Rate + 1 + ((grants'[j] - grants'[i]) * Rate) \div Minute
    BY <1>3 DEF SpanBound
  <2>1. CASE j \in 1..Len(grants)
    <3>1. i \in 1..Len(grants)
      BY <1>3, <2>1
    <3> QED BY <1>3, <2>1, <3>1 DEF LimiterInv, SpanBound
  <2>2. CASE j = Len(grants) + 1
    <3> DEFINE g == grants'[i]  q == j - i - Rate
    <3>1. g \in Int /\ g <= now /\ q \in Int /\ grants'[j] = now
      BY <1>2, <1>3, <2>2, RateFacts
    <3>2. (Len(grants') - i + tokens' - Rate) * Minute <= (lastRefill' - g) * Rate
      BY <1>3, <1>6 DEF OwedInv
    <3>3. (q + tokens') * Minute <= (r - g) * Rate
      BY <1>3, <1>4, <2>2, <3>2, RateFacts
    <3> HIDE DEF g, q
    <3>4. q * Minute <= (q + tokens') * Minute
      BY <1>4, <3>1, RateFacts
    <3>5. (r - g) * Rate <= (now - g) * Rate
      BY <1>2, <1>4, <3>1, RateFacts
    <3>6. q * Minute <= (now - g) * Rate
      <4> DEFINE A == q * Minute  B == (q + tokens') * Minute  C == (r - g) * Rate  D == (now - g) * Rate
      <4>1. A \in Int /\ B \in Int /\ C \in Int /\ D \in Int
        BY <1>2, <1>4, <3>1, RateFacts
      <4>2. A <= B /\ B <= C /\ C <= D
        BY <3>3, <3>4, <3>5
      <4> HIDE DEF A, B, C, D
      <4>3. A <= D
        BY <4>1, <4>2
      <4> QED BY <4>3 DEF A, D
    <3>7. q <= ((now - g) * Rate) \div Minute
      <4>1. (now - g) * Rate \in Int
        BY <1>2, <3>1, RateFacts
      <4> QED BY <3>1, <3>6, <4>1, DivLeast, RateFacts
    <3>8. ((now - g) * Rate) \div Minute \in Int
      BY <1>2, <3>1, RateFacts
    <3>9. j - i + 1 <= Rate + 1 + ((now - g) * Rate) \div Minute
      <4> DEFINE d == ((now - g) * Rate) \div Minute
      <4>1. d \in Int /\ j - i - Rate <= d
        BY <3>7, <3>8 DEF q
      <4> HIDE DEF d
      <4>2. j - i + 1 <= Rate + 1 + d
        BY <1>3, <4>1, RateFacts
      <4> QED BY <4>2 DEF d
    <3> QED BY <3>1, <3>9 DEF g
  <2> QED BY <1>3, <2>1, <2>2
<1>9. RefusedOnlyWhenBusy'
  BY <1>1 DEF RefusedOnlyWhenBusy
<1> QED BY <1>5, <1>6, <1>7, <1>8, <1>9 DEF LimiterInv

\* A call that is refused: nothing was refilled and the bucket is empty.
LEMMA RefuseInv == ASSUME LimiterInv, Allow, ~ (Refilled > 0) PROVE LimiterInv'
<1>1. Refill = 0 /\ Refilled = tokens /\ RefillTime = lastRefill /\ (now - lastRefill) * Rate < Minute
  BY RefillFacts
<1>2. /\ lastRefill' = lastRefill /\ tokens' = tokens /\ tokens = 0 /\ grants' = grants
      /\ denied' = TRUE /\ now' = now
  BY <1>1 DEF Allow, LimiterInv, TypeOK
<1>3. now \in Nat /\ lastRefill \in 0..now /\ grants \in Seq(0..now)
  BY DEF LimiterInv, TypeOK
<1>4. TypeOK' /\ OwedInv' /\ SpentInv' /\ SpanBound'
  BY <1>2 DEF LimiterInv, TypeOK, OwedInv, SpentInv, SpanBound
<1>5. RefusedOnlyWhenBusy'
  <2>1. PICK i \in DOMAIN grants : grants[i] >= lastRefill
    BY <1>2, RateFacts DEF LimiterInv, SpentInv
  <2>2. grants[i] \in 0..now
    BY <1>3, <2>1, ElementOfSeq, LenProperties
  <2>3. (now - grants[i]) * Rate <= (now - lastRefill) * Rate
    <3>1. now - grants[i] \in Int /\ now - lastRefill \in Int /\ now - grants[i] <= now - lastRefill
      BY <1>3, <2>1, <2>2
    <3> QED BY <3>1, RateFacts, TimesMonotone
  <2>4. (now - grants[i]) * Rate < Minute
    <3> DEFINE A == (now - grants[i]) * Rate  B == (now - lastRefill) * Rate
    <3>1. A \in Int /\ B \in Int /\ A <= B /\ B < Minute
      BY <1>1, <1>3, <2>2, <2>3, RateFacts
    <3> HIDE DEF A, B
    <3>2. A < Minute
      BY <3>1, RateFacts
    <3> QED BY <3>2 DEF A
  <2> QED BY <1>2, <2>1, <2>4 DEF RefusedOnlyWhenBusy
<1> QED BY <1>4, <1>5 DEF LimiterInv

LEMMA LimiterTickInv == ASSUME LimiterInv, Tick PROVE LimiterInv'
<1>1. now' = now + 1 /\ denied' = FALSE /\ UNCHANGED <<tokens, lastRefill, grants>>
  BY DEF Tick
<1>2. now \in Nat /\ lastRefill \in 0..now /\ tokens \in 0..Rate /\ grants \in Seq(0..now)
  BY DEF LimiterInv, TypeOK
<1>3. grants \in Seq(0..(now + 1))
  <2>1. 0..now \subseteq 0..(now + 1)
    BY <1>2
  <2> QED BY <1>2, <2>1
<1>4. TypeOK'
  <2>1. now' \in Nat /\ tokens' \in 0..Rate /\ lastRefill' \in 0..now'
    BY <1>1, <1>2
  <2>2. grants' \in Seq(0..now') /\ denied' \in BOOLEAN
    BY <1>1, <1>3
  <2> QED BY <2>1, <2>2 DEF TypeOK
<1>5. OwedInv' /\ SpentInv' /\ SpanBound' /\ RefusedOnlyWhenBusy'
  BY <1>1 DEF LimiterInv, OwedInv, SpentInv, SpanBound, RefusedOnlyWhenBusy
<1> QED BY <1>4, <1>5 DEF LimiterInv

THEOREM LimiterInvariant == Spec => []LimiterInv
<1>1. LimiterInv /\ [Next]_vars => LimiterInv'
  <2> SUFFICES ASSUME LimiterInv, [Next]_vars PROVE LimiterInv'
    OBVIOUS
  <2>1. CASE Allow
    BY <2>1, GrantInv, RefuseInv
  <2>2. CASE Tick
    BY <2>2, LimiterTickInv
  <2>3. CASE UNCHANGED vars
    BY <2>3 DEF vars, LimiterInv, TypeOK, OwedInv, SpentInv, SpanBound, RefusedOnlyWhenBusy
  <2> QED BY <2>1, <2>2, <2>3 DEF Next
<1> QED BY LimiterInitInv, <1>1, PTL DEF Spec

---------------------------------------------------------------------------
(* The ring of changes *)

LEMMA RingFacts ==
    /\ MaxSize \in Nat /\ MaxSize >= 1 /\ MaxAge \in Nat /\ Skew \in Nat
    /\ RingTicks \in Nat /\ RingAdds \in Nat
BY RingConstants

\* Indices run at most once round the ring.
LEMMA ModWraps ==
    ASSUME NEW M \in Nat, M >= 1, NEW x \in 0..(2 * M - 1)
    PROVE  x % M = IF x < M THEN x ELSE x - M
<1>1. x = M * (x \div M) + (x % M) /\ x % M \in 0..(M - 1) /\ x \div M \in Int
  OBVIOUS
<1> DEFINE d == x \div M
           r == x % M
<1>2. d \in Int /\ r \in 0..(M - 1) /\ x = M * d + r
  BY <1>1
<1> HIDE DEF d, r
<1>3. CASE d = 0
  BY <1>2, <1>3 DEF r
<1>4. CASE d = 1
  BY <1>2, <1>4 DEF r
<1>5. CASE d >= 2
  <2>1. M * d >= M * 2
    BY <1>2, <1>5
  <2> QED BY <1>2, <2>1
<1>6. CASE d <= -1
  <2>1. M * d <= M * (-1)
    BY <1>2, <1>6
  <2> QED BY <1>2, <2>1
<1> QED BY <1>2, <1>3, <1>4, <1>5, <1>6

Wrap(x) == IF x < MaxSize THEN x ELSE x - MaxSize

LEMMA RingIndex ==
    ASSUME NEW x \in Int, 0 <= x, x <= 2 * MaxSize - 1
    PROVE  /\ Slot(x) = Wrap(x)
           /\ Slot(x) \in 0..(MaxSize - 1)
<1>1. MaxSize \in Nat /\ MaxSize >= 1 /\ x \in 0..(2 * MaxSize - 1)
  BY RingFacts
<1>2. Slot(x) = IF x < MaxSize THEN x ELSE x - MaxSize
  BY <1>1, ModWraps DEF Slot
<1> QED BY <1>1, <1>2 DEF Wrap

(* The ring holds the end of the log of additions; what it has let go of   *)
(* among the latest MaxSize is past its age, and numbers rise.             *)
LogInv ==
    /\ adds \in Seq(Change) /\ seen \in 0..RingAdds /\ count <= Len(adds)
    /\ \A i \in 1..count : buf[Slot(start + i - 1)] = adds[Len(adds) - count + i]
    /\ \A j \in 1..Len(adds) :
          j > Len(adds) - MaxSize /\ j <= Len(adds) - count => adds[j].at < clock - MaxAge
    /\ \A j \in 1..Len(adds) : adds[j].n <= seen
    /\ \A i, j \in 1..Len(adds) : i < j => adds[i].n < adds[j].n

RingInv == RingTypeOK /\ LogInv

LEMMA ChangeFields == \A c \in Change : c.at \in Int /\ c.n \in Int
<1> SUFFICES ASSUME NEW c \in Change PROVE c.at \in Int /\ c.n \in Int
  OBVIOUS
<1>1. c.at \in 0..RingTicks /\ c.n \in 0..RingAdds
  BY DEF Change
<1> QED BY <1>1, RingFacts

LEMMA RingInitInv == RingInit => RingInv
<1> SUFFICES ASSUME RingInit PROVE RingInv
  OBVIOUS
<1> USE RingFacts DEF RingInit
<1>1. NoChange \in Change
  <2>1. 0 \in 0..RingTicks /\ 0 \in 0..RingAdds
    BY RingFacts
  <2> QED BY <2>1 DEF NoChange, Change
<1>2. adds \in Seq(Change) /\ Len(adds) = 0
  OBVIOUS
<1>3. RingTypeOK
  BY <1>1, <1>2 DEF RingTypeOK
<1>4. LogInv
  BY <1>2 DEF LogInv
<1> QED BY <1>3, <1>4 DEF RingInv

LEMMA RingTypes ==
    ASSUME RingInv
    PROVE  /\ buf \in [0..(MaxSize - 1) -> Change] /\ start \in Int /\ 0 <= start /\ start < MaxSize
           /\ count \in Int /\ 0 <= count /\ count <= MaxSize /\ clock \in Nat
           /\ adds \in Seq(Change) /\ Len(adds) \in Nat /\ count <= Len(adds)
           /\ seen \in Nat /\ seen <= RingAdds
BY RingFacts DEF RingInv, RingTypeOK, LogInv

\* What is stored, as a sequence.
LEMMA StoredFacts ==
    ASSUME RingInv
    PROVE  /\ Stored \in Seq(Change) /\ Len(Stored) = count
           /\ \A i \in 1..count : /\ Stored[i] = buf[Slot(start + i - 1)] /\ Stored[i] \in Change
                                  /\ Stored[i] = adds[Len(adds) - count + i]
<1>1. \A i \in 1..count : buf[Slot(start + i - 1)] \in Change
  <2> SUFFICES ASSUME NEW i \in 1..count PROVE buf[Slot(start + i - 1)] \in Change
    OBVIOUS
  <2>1. start + i - 1 \in Int /\ 0 <= start + i - 1 /\ start + i - 1 <= 2 * MaxSize - 1
    BY RingTypes, RingFacts
  <2>2. Slot(start + i - 1) \in 0..(MaxSize - 1)
    BY <2>1, RingIndex
  <2> QED BY <2>2, RingTypes
<1>2. \A i \in 1..count : Stored[i] = buf[Slot(start + i - 1)]
  BY DEF Stored
<1>3. Stored \in Seq(Change) /\ Len(Stored) = count
  <2>1. count \in Nat
    BY RingTypes
  <2>2. Stored \in [1..count -> Change]
    BY <1>1 DEF Stored
  <2> QED BY <2>1, <2>2
<1> QED BY <1>1, <1>2, <1>3 DEF RingInv, LogInv

\* Young changes among the latest are still in the ring, in their order.
LEMMA ExactFromLog == ASSUME RingInv PROVE QueryIsExact
<1> DEFINE len == Len(adds)
           off == len - count
<1>0. DOMAIN adds = 1..len /\ len \in Nat /\ count <= len /\ \A j \in 1..len : adds[j] \in Change
  BY RingTypes
<1>0a. /\ \A j \in 1..len : j > len - MaxSize /\ j <= off => adds[j].at < clock - MaxAge
       /\ \A i, j \in 1..len : i < j => adds[i].n < adds[j].n
  BY DEF RingInv, LogInv
<1>0b. Recent = {j \in 1..len : j > len - MaxSize}
  BY <1>0 DEF Recent
<1>1. /\ count \in Int /\ 0 <= count /\ count <= MaxSize /\ off \in Int /\ off >= 0
      /\ MaxSize \in Nat /\ off = len - count
  BY <1>0, RingTypes, RingFacts
<1>2. \A i \in 1..count : Stored[i] = adds[off + i]
  BY StoredFacts
<1> HIDE DEF len, off
<1>3. ASSUME NEW dp, NEW since \in Int
      PROVE  {Stored[i] : i \in Query(dp, since)} =
             {adds[j] : j \in {x \in Recent : Asked(adds[x], dp, since)}}
  <2>1. ASSUME NEW i \in Query(dp, since)
        PROVE  off + i \in {x \in Recent : Asked(adds[x], dp, since)} /\ Stored[i] = adds[off + i]
    <3>1. i \in 1..count /\ Asked(Stored[i], dp, since)
      BY DEF Query, Asked
    <3>2. off + i \in 1..len /\ off + i > len - MaxSize
      BY <1>0, <1>1, <3>1
    <3>3. off + i \in Recent
      BY <1>0b, <3>2
    <3> QED BY <1>2, <3>1, <3>3
  <2>2. ASSUME NEW j \in Recent, Asked(adds[j], dp, since)
        PROVE  j - off \in Query(dp, since) /\ Stored[j - off] = adds[j]
    <3>1. j \in 1..len /\ j > len - MaxSize
      BY <1>0b
    <3>2. adds[j].at \in Int /\ clock \in Nat /\ MaxAge \in Nat
      <4>1. adds[j] \in Change
        BY <1>0, <3>1
      <4>2. adds[j].at \in 0..RingTicks
        BY <4>1 DEF Change
      <4> QED BY <4>2, RingTypes, RingFacts
    <3>3. ~ (adds[j].at < clock - MaxAge)
      <4>1. adds[j].at >= clock - MaxAge
        BY <2>2 DEF Asked
      <4> QED BY <3>2, <4>1
    <3>4. j > off
      BY <1>0, <1>0a, <1>1, <3>1, <3>3
    <3>5. j - off \in 1..count /\ off + (j - off) = j
      BY <1>0, <1>1, <3>1, <3>4
    <3>6. Stored[j - off] = adds[j]
      BY <1>2, <3>5
    <3> QED BY <2>2, <3>5, <3>6 DEF Query, Asked
  <2>3. {Stored[i] : i \in Query(dp, since)} \subseteq {adds[j] : j \in {x \in Recent : Asked(adds[x], dp, since)}}
    BY <2>1
  <2>4. {adds[j] : j \in {x \in Recent : Asked(adds[x], dp, since)}} \subseteq {Stored[i] : i \in Query(dp, since)}
    BY <2>2
  <2> QED BY <2>3, <2>4
<1>4. ASSUME NEW i \in 1..count, NEW j \in 1..count, i < j PROVE Stored[i].n < Stored[j].n
  <2>1. off + i \in 1..len /\ off + j \in 1..len /\ off + i < off + j
    BY <1>0, <1>1, <1>4
  <2> QED BY <1>0a, <1>2, <2>1
<1>5. 0..clock \subseteq Int
  BY RingTypes
<1> QED BY <1>3, <1>4, <1>5 DEF QueryIsExact

---------------------------------------------------------------------------
\* pruneAgeLocked stops at the first entry that is young enough.
LEMMA ExpiredFacts ==
    ASSUME NEW b, NEW from \in Int, NEW size \in Nat
    PROVE  /\ Expired(b, from, size) \in 0..size
           /\ \A i \in 0..(Expired(b, from, size) - 1) : b[Slot(from + i)].at < clock - MaxAge
           /\ Expired(b, from, size) < size =>
                 ~ (b[Slot(from + Expired(b, from, size))].at < clock - MaxAge)
<1> DEFINE old(i) == b[Slot(from + i)].at < clock - MaxAge
           Right(k) == (\A i \in 0..(k - 1) : old(i)) /\ (k < size => ~ old(k))
           young == {i \in 0..(size - 1) : ~ old(i)}
<1>1. Expired(b, from, size) = CHOOSE k \in 0..size : Right(k)
  BY DEF Expired
<1>2. \E k \in 0..size : Right(k)
  <2>1. CASE young = {}
    <3>1. \A i \in 0..(size - 1) : old(i)
      BY <2>1
    <3>2. Right(size) /\ size \in 0..size
      BY <3>1
    <3> QED BY <3>2
  <2>2. CASE young # {}
    <3>1. young \in SUBSET Int /\ IsFiniteSet(young)
      <4>1. young \subseteq 0..(size - 1) /\ 0..(size - 1) \subseteq Int /\ 0 \in Int /\ size - 1 \in Int
        OBVIOUS
      <4>2. IsFiniteSet(0..(size - 1))
        BY <4>1, FS_Interval, Zenon
      <4> HIDE DEF young
      <4> QED BY <4>1, <4>2, FS_Subset
    <3>2. PICK k \in young : \A y \in young : k <= y
      <4> HIDE DEF young
      <4> QED BY <2>2, <3>1, SmallestExists
    <3>3. k \in 0..(size - 1) /\ ~ old(k)
      BY <3>2
    <3>4. ASSUME NEW i \in 0..(k - 1) PROVE old(i)
      <4>1. i \in 0..(size - 1) /\ ~ (k <= i)
        BY <3>3
      <4> QED BY <3>2, <4>1
    <3> HIDE DEF old
    <3> QED BY <3>3, <3>4
  <2> QED BY <2>1, <2>2
<1> DEFINE c == CHOOSE k \in 0..size : Right(k)
<1>3. c \in 0..size /\ Right(c)
  <2> HIDE DEF Right
  <2> QED BY <1>2
<1> QED BY <1>1, <1>3

(* What Add makes of a ring: the entries with the new one, then the latest *)
(* of them, then those after the leading run of expired ones.              *)
LEMMA AddFacts ==
    ASSUME RingInv, NEW e \in Change, Add(e)
    PROVE  \E size \in 1..MaxSize, skip \in 0..MaxSize, q \in Seq(Change) :
              /\ size = IF count < MaxSize THEN count + 1 ELSE count
              /\ Len(q) = size /\ skip <= size
              /\ \A i \in 1..size :
                    q[i] = IF i = size THEN e ELSE Stored[IF count < MaxSize THEN i ELSE i + 1]
              /\ \A i \in 1..skip : q[i].at < clock - MaxAge
              /\ skip < size => ~ (q[skip + 1].at < clock - MaxAge)
              /\ buf' \in [0..(MaxSize - 1) -> Change] /\ start' \in 0..(MaxSize - 1)
              /\ count' = size - skip
              /\ \A i \in 1..count' : buf'[Slot(start' + i - 1)] = q[skip + i]
<1> DEFINE w == Slot(start + count)
           b == [buf EXCEPT ![w] = e]
           from == IF count < MaxSize THEN start ELSE Slot(start + 1)
           size == IF count < MaxSize THEN count + 1 ELSE count
           skip == Expired(b, from, size)
           q == [i \in 1..size |-> b[Slot(from + i - 1)]]
<1>1. buf' = b /\ start' = Slot(from + skip) /\ count' = size - skip
  BY DEF Add
<1>2. /\ start \in Int /\ 0 <= start /\ start < MaxSize /\ count \in Int /\ 0 <= count /\ count <= MaxSize
      /\ buf \in [0..(MaxSize - 1) -> Change] /\ MaxSize \in Nat /\ MaxSize >= 1 /\ clock \in Nat
  BY RingTypes, RingFacts
<1>3. /\ w = Wrap(start + count)
      /\ w \in 0..(MaxSize - 1)
  BY <1>2, RingIndex
<1>4. /\ from \in Int /\ 0 <= from /\ from < MaxSize
      /\ count = MaxSize => from = Wrap(start + 1)
      /\ count < MaxSize => from = start
  <2>1. Slot(start + 1) = Wrap(start + 1)
    BY <1>2, RingIndex
  <2> QED BY <1>2, <2>1 DEF Wrap
<1>5. size \in Nat /\ 1 <= size /\ size <= MaxSize
      /\ size = IF count < MaxSize THEN count + 1 ELSE count
  BY <1>2
<1>6. b \in [0..(MaxSize - 1) -> Change] /\ b[w] = e /\ \A x \in 0..(MaxSize - 1) : x # w => b[x] = buf[x]
  BY <1>2, <1>3
<1> HIDE DEF w, b, from, size
<1>7. /\ skip \in 0..size
      /\ \A i \in 0..(skip - 1) : b[Slot(from + i)].at < clock - MaxAge
      /\ skip < size => ~ (b[Slot(from + skip)].at < clock - MaxAge)
  BY <1>4, <1>5, ExpiredFacts
<1> HIDE DEF skip
<1>8. \A i \in 0..size : /\ Slot(from + i) = Wrap(from + i)
                          /\ Slot(from + i) \in 0..(MaxSize - 1)
  <2> SUFFICES ASSUME NEW i \in 0..size
               PROVE  /\ Slot(from + i) = Wrap(from + i)
                      /\ Slot(from + i) \in 0..(MaxSize - 1)
    OBVIOUS
  <2>1. from + i \in Int /\ 0 <= from + i /\ from + i <= 2 * MaxSize - 1
    BY <1>2, <1>4, <1>5
  <2> QED BY <2>1, RingIndex
<1>9. ASSUME NEW i \in 1..size
      PROVE  /\ q[i] = b[Slot(from + i - 1)] /\ q[i] \in Change
             /\ from + i - 1 = from + (i - 1) /\ i - 1 \in 0..size
  <2>1. from + i - 1 = from + (i - 1) /\ i - 1 \in 0..size /\ i \in Int
    BY <1>4, <1>5
  <2>2. Slot(from + i - 1) \in 0..(MaxSize - 1)
    BY <1>8, <2>1
  <2>3. q[i] = b[Slot(from + i - 1)]
    OBVIOUS
  <2> HIDE DEF q
  <2> QED BY <1>6, <2>1, <2>2, <2>3
<1>10. q \in Seq(Change) /\ Len(q) = size
  <2>1. q \in [1..size -> Change]
    BY <1>9
  <2> HIDE DEF q
  <2>2. q \in Seq(Change)
    BY <1>5, <2>1
  <2>3. DOMAIN q = 1..size
    BY <2>1
  <2> QED BY <1>5, <2>2, <2>3
<1> HIDE DEF q
<1>11. ASSUME NEW i \in 1..size
       PROVE  q[i] = IF i = size THEN e ELSE Stored[IF count < MaxSize THEN i ELSE i + 1]
  <2>1. Slot(from + i - 1) = Wrap(from + i - 1)
    <3>1. i - 1 \in 0..size /\ from + i - 1 = from + (i - 1) /\ from + (i - 1) \in Int
      BY <1>4, <1>9
    <3> QED BY <1>8, <3>1
  <2>2. CASE i = size
    <3>1. Slot(from + i - 1) = w
      BY <1>2, <1>3, <1>4, <1>5, <2>1, <2>2 DEF Wrap
    <3> QED BY <1>6, <1>9, <2>2, <3>1
  <2>3. CASE i # size /\ count < MaxSize
    <3>1. i \in 1..count
      BY <1>2, <1>5, <2>3
    <3>2. Slot(from + i - 1) # w /\ Slot(from + i - 1) \in 0..(MaxSize - 1)
      BY <1>2, <1>3, <1>4, <1>5, <2>1, <2>3, <3>1 DEF Wrap
    <3>3. q[i] = buf[Slot(start + i - 1)]
      BY <1>4, <1>6, <1>9, <2>3, <3>2
    <3>4. Stored[i] = buf[Slot(start + i - 1)]
      BY <3>1, StoredFacts
    <3> QED BY <2>3, <3>3, <3>4
  <2>4. CASE i # size /\ ~ (count < MaxSize)
    <3>1. count = MaxSize /\ size = MaxSize /\ i + 1 \in 1..count /\ i \in Int
      BY <1>2, <1>5, <2>4
    <3>2. Slot(start + (i + 1) - 1) =
             Wrap(start + (i + 1) - 1)
      <4>1. start + (i + 1) - 1 \in Int /\ 0 <= start + (i + 1) - 1 /\ start + (i + 1) - 1 <= 2 * MaxSize - 1
        BY <1>2, <3>1
      <4> QED BY <4>1, RingIndex
    <3>3. Slot(from + i - 1) = Slot(start + (i + 1) - 1) /\ Slot(from + i - 1) # w
          /\ Slot(from + i - 1) \in 0..(MaxSize - 1)
      <4> DEFINE x == Slot(from + i - 1)
                 y == Slot(start + (i + 1) - 1)
      <4>1. x = Wrap(from + i - 1)
        BY <2>1
      <4>2. y = Wrap(start + (i + 1) - 1)
        BY <3>2
      <4> HIDE DEF x, y
      <4>3. x = y /\ x # w /\ x \in 0..(MaxSize - 1)
        BY <1>2, <1>3, <1>4, <2>4, <3>1, <4>1, <4>2 DEF Wrap
      <4> QED BY <4>3 DEF x, y
    <3>4. q[i] = buf[Slot(start + (i + 1) - 1)]
      BY <1>6, <1>9, <3>3
    <3>5. Stored[i + 1] = buf[Slot(start + (i + 1) - 1)]
      BY <3>1, StoredFacts
    <3> QED BY <2>4, <3>4, <3>5
  <2> QED BY <2>2, <2>3, <2>4
<1>12. ASSUME NEW i \in 1..skip PROVE q[i].at < clock - MaxAge
  <2>1. i \in 1..size /\ i - 1 \in 0..(skip - 1)
    BY <1>5, <1>7
  <2> QED BY <1>7, <1>9, <2>1
<1>13. ASSUME skip < size PROVE ~ (q[skip + 1].at < clock - MaxAge)
  <2>1. skip + 1 \in 1..size /\ (skip + 1) - 1 = skip
    BY <1>5, <1>7, <1>13
  <2>2. q[skip + 1] = b[Slot(from + skip)]
    BY <1>9, <2>1
  <2> QED BY <1>7, <1>13, <2>2
<1>14. start' \in 0..(MaxSize - 1) /\ start' = Wrap(from + skip)
  BY <1>1, <1>7, <1>8
<1>15. ASSUME NEW i \in 1..count' PROVE buf'[Slot(start' + i - 1)] = q[skip + i]
  <2>1. i \in Int /\ skip \in Int /\ skip + i \in 1..size /\ start' \in Int /\ i - 1 \in Int /\ skip + (i - 1) \in 0..size
    BY <1>1, <1>5, <1>7, <1>14
  <2>2. Slot(start' + i - 1) = Wrap(start' + i - 1)
    <3>1. start' + i - 1 \in Int /\ 0 <= start' + i - 1 /\ start' + i - 1 <= 2 * MaxSize - 1
      BY <1>2, <1>5, <1>7, <1>14, <2>1
    <3> QED BY <3>1, RingIndex
  <2> DEFINE x == Slot(start' + i - 1)
             y == Slot(from + (skip + i) - 1)
             z == Slot(from + (skip + (i - 1)))
  <2>3. x = Wrap(start' + i - 1)
    BY <2>2
  <2>4. z = Wrap(from + (skip + (i - 1)))
    BY <1>8, <2>1
  <2>5. y = z
    <3>1. from + (skip + i) - 1 = from + (skip + (i - 1))
      BY <1>4, <2>1
    <3> QED BY <3>1
  <2>6. q[skip + i] = b[y]
    BY <1>9, <2>1
  <2> HIDE DEF x, y, z
  <2>7. x = z
    BY <1>2, <1>4, <1>5, <1>7, <1>14, <2>1, <2>3, <2>4 DEF Wrap
  <2> QED BY <1>1, <2>5, <2>6, <2>7 DEF x
<1>16. size \in 1..MaxSize /\ skip \in 0..MaxSize /\ skip <= size /\ size = IF count < MaxSize THEN count + 1 ELSE count
  BY <1>2, <1>5, <1>7
<1>17. buf' \in [0..(MaxSize - 1) -> Change]
  BY <1>1, <1>6
<1> QED BY <1>1, <1>10, <1>11, <1>12, <1>13, <1>14, <1>15, <1>16, <1>17

LEMMA AddInv ==
    ASSUME RingInv, NEW e \in Change, Add(e), adds' = Append(adds, e), seen' = seen + 1,
           seen < RingAdds, e.n = seen + 1, UNCHANGED <<clock, held>>
    PROVE  RingInv'
<1>1. PICK size \in 1..MaxSize, skip \in 0..MaxSize, q \in Seq(Change) :
              /\ size = IF count < MaxSize THEN count + 1 ELSE count
              /\ Len(q) = size /\ skip <= size
              /\ \A i \in 1..size :
                    q[i] = IF i = size THEN e ELSE Stored[IF count < MaxSize THEN i ELSE i + 1]
              /\ \A i \in 1..skip : q[i].at < clock - MaxAge
              /\ skip < size => ~ (q[skip + 1].at < clock - MaxAge)
              /\ buf' \in [0..(MaxSize - 1) -> Change] /\ start' \in 0..(MaxSize - 1)
              /\ count' = size - skip
              /\ \A i \in 1..count' : buf'[Slot(start' + i - 1)] = q[skip + i]
  BY AddFacts
<1> DEFINE len == Len(adds)
<1>2. /\ count \in Int /\ 0 <= count /\ count <= MaxSize /\ clock \in Nat /\ adds \in Seq(Change)
      /\ len \in Nat /\ count <= len /\ seen \in Nat /\ MaxSize \in Nat /\ MaxSize >= 1
      /\ size \in Int /\ 1 <= size /\ size <= MaxSize /\ skip \in Int /\ 0 <= skip
  BY RingTypes, RingFacts
<1>3. /\ adds' \in Seq(Change) /\ Len(adds') = len + 1 /\ adds'[len + 1] = e
      /\ \A j \in 1..len : adds'[j] = adds[j]
  BY <1>2
<1>4. \A i \in 1..count : Stored[i] = adds[len - count + i]
  BY StoredFacts
<1>5. \A j \in 1..len : j > len - MaxSize /\ j <= len - count => adds[j].at < clock - MaxAge
  BY DEF RingInv, LogInv
<1>6. \A j \in 1..len : adds[j].n <= seen /\ adds[j].n \in Int
  <2>1. \A j \in 1..len : adds[j] \in Change
    BY <1>2
  <2>2. \A j \in 1..len : adds[j].n <= seen
    BY DEF RingInv, LogInv
  <2> QED BY <2>1, <2>2, ChangeFields
<1>7. \A i, j \in 1..len : i < j => adds[i].n < adds[j].n
  BY DEF RingInv, LogInv
<1>7a. size = IF count < MaxSize THEN count + 1 ELSE count
  BY <1>1
<1> HIDE DEF len
\* Before the pruning, the ring holds the end of the new log.
<1>8. ASSUME NEW i \in 1..size PROVE q[i] = adds'[(len + 1 - size) + i]
  <2>1. CASE i = size
    <3>1. (len + 1 - size) + i = len + 1
      BY <1>2, <2>1
    <3> QED BY <1>1, <1>3, <2>1, <3>1
  <2>2. CASE i # size /\ count < MaxSize
    <3>1. i \in 1..count /\ (len + 1 - size) + i = len - count + i /\ len - count + i \in 1..len
      BY <1>2, <1>7a, <2>2
    <3>2. q[i] = Stored[i]
      BY <1>1, <2>2, Zenon
    <3> QED BY <1>3, <1>4, <3>1, <3>2, Zenon
  <2>3. CASE i # size /\ ~ (count < MaxSize)
    <3>1. i + 1 \in 1..count /\ (len + 1 - size) + i = len - count + (i + 1) /\ len - count + (i + 1) \in 1..len
      BY <1>2, <1>7a, <2>3
    <3>2. q[i] = Stored[i + 1]
      BY <1>1, <2>3, Zenon
    <3> QED BY <1>3, <1>4, <3>1, <3>2, Zenon
  <2> QED BY <2>1, <2>2, <2>3
<1>9. count' \in Int /\ 0 <= count' /\ count' <= MaxSize /\ count' <= len + 1 /\ count' = size - skip
      /\ size <= len + 1
  <2>1. count' = size - skip /\ skip <= size
    BY <1>1
  <2> QED BY <1>2, <1>7a, <2>1
<1>10. ASSUME NEW i \in 1..count'
       PROVE  buf'[Slot(start' + i - 1)] = adds'[len + 1 - count' + i]
  <2>1. skip + i \in 1..size /\ (len + 1 - size) + (skip + i) = len + 1 - count' + i
    BY <1>2, <1>9
  <2> QED BY <1>1, <1>8, <2>1
<1>11. ASSUME NEW j \in 1..(len + 1), j > len + 1 - MaxSize, j <= len + 1 - count'
       PROVE  adds'[j].at < clock - MaxAge
  <2>1. CASE j <= len + 1 - size
    <3>1. j \in 1..len /\ j > len - MaxSize /\ j <= len - count
      BY <1>2, <1>7a, <1>11, <2>1
    <3> QED BY <1>3, <1>5, <3>1
  <2>2. CASE j > len + 1 - size
    <3>1. j - (len + 1 - size) \in 1..skip /\ j - (len + 1 - size) \in 1..size
          /\ (len + 1 - size) + (j - (len + 1 - size)) = j
      BY <1>1, <1>2, <1>9, <1>11, <2>2
    <3> QED BY <1>1, <1>8, <3>1
  <2>3. j \in Int /\ len + 1 - size \in Int
    BY <1>2
  <2>4. j <= len + 1 - size \/ j > len + 1 - size
    BY <2>3
  <2> QED BY <2>1, <2>2, <2>4
<1>12. \A j \in 1..(len + 1) : adds'[j].n <= seen + 1
  <2> SUFFICES ASSUME NEW j \in 1..(len + 1) PROVE adds'[j].n <= seen + 1
    OBVIOUS
  <2>1. CASE j = len + 1
    BY <1>2, <1>3, <2>1
  <2>2. CASE j # len + 1
    <3>1. j \in 1..len
      BY <1>2, <2>2
    <3> QED BY <1>2, <1>3, <1>6, <3>1
  <2> QED BY <2>1, <2>2
<1>13. ASSUME NEW i \in 1..(len + 1), NEW j \in 1..(len + 1), i < j PROVE adds'[i].n < adds'[j].n
  <2>1. i \in 1..len
    BY <1>2, <1>13
  <2>2. CASE j = len + 1
    BY <1>2, <1>3, <1>6, <2>1, <2>2
  <2>3. CASE j # len + 1
    <3>1. j \in 1..len
      BY <1>2, <2>3
    <3> QED BY <1>3, <1>7, <1>13, <2>1, <3>1
  <2> QED BY <2>2, <2>3
<1>14. seen' \in 0..RingAdds /\ clock' = clock /\ held' = held
  BY <1>2, RingFacts
<1>15. LogInv'
  <2> DEFINE new == Len(adds')
  <2>1. new = len + 1
    BY <1>3
  <2> HIDE DEF new
  <2>2. \A i \in 1..count' : buf'[Slot(start' + i - 1)] = adds'[new - count' + i]
    <3>1. \A i \in 1..count' : new - count' + i = len + 1 - count' + i
      BY <1>2, <1>9, <2>1
    <3> QED BY <1>10, <3>1
  <2>3. \A j \in 1..new : j > new - MaxSize /\ j <= new - count' => adds'[j].at < clock' - MaxAge
    <3>1. \A j \in 1..(len + 1) : j > len + 1 - MaxSize /\ j <= len + 1 - count' => adds'[j].at < clock - MaxAge
      BY <1>11
    <3>2. clock' = clock
      OBVIOUS
    <3>3. \A j \in 1..new : j \in 1..(len + 1)
             /\ (j > new - MaxSize => j > len + 1 - MaxSize) /\ (j <= new - count' => j <= len + 1 - count')
      BY <1>2, <1>9, <2>1
    <3> QED BY <3>1, <3>2, <3>3, Zenon
  <2>4. (\A j \in 1..new : adds'[j].n <= seen') /\ \A i, j \in 1..new : i < j => adds'[i].n < adds'[j].n
    BY <1>12, <1>13, <2>1
  <2>5. count' <= new
    BY <1>9, <2>1
  <2> QED BY <1>3, <1>14, <2>2, <2>3, <2>4, <2>5 DEF LogInv, new
<1>16. RingTypeOK'
  BY <1>1, <1>2, <1>3, <1>9 DEF RingInv, RingTypeOK
<1> QED BY <1>15, <1>16 DEF RingInv

\* What the collector takes while the monitors run is a change, and is added.
LEMMA CollectAdds ==
    ASSUME RingInv, Collect, ~ held
    PROVE  \E e \in Change : e.n = seen + 1 /\ Add(e) /\ adds' = Append(adds, e)
<1>1. clock \in Int /\ clock <= RingTicks /\ Skew \in Int /\ RingTicks \in Nat /\ RingAdds \in Nat
  BY RingFacts DEF RingInv, RingTypeOK
<1>2. seen + 1 \in 0..RingAdds
  <2>1. seen \in Nat /\ seen < RingAdds
    BY RingTypes DEF Collect
  <2> QED BY <1>1, <2>1
<1> DEFINE e(stamp, row, old) == eventToFlowChange(stamp, row, old, seen + 1)
<1>3. \E stamp \in Int, row, old \in Datapaths \cup {""} :
         /\ stamp <= clock /\ stamp >= 0 /\ Add(e(stamp, row, old)) /\ adds' = Append(adds, e(stamp, row, old))
  <2>1. \A stamp \in (clock - Skew)..clock : stamp \in Int /\ stamp <= clock
    BY <1>1
  <2> QED BY <2>1 DEF Collect
<1>3a. \A x \in Int : x <= clock /\ x >= 0 => x \in 0..RingTicks
  BY <1>1
<1>4. PICK stamp \in Int, row \in Datapaths \cup {""}, old \in Datapaths \cup {""} :
         /\ stamp <= clock /\ stamp >= 0 /\ Add(e(stamp, row, old)) /\ adds' = Append(adds, e(stamp, row, old))
  BY <1>3
<1>5. stamp \in 0..RingTicks
  <2>1. stamp \in Int /\ stamp <= clock /\ stamp >= 0
    BY <1>4
  <2> QED BY <1>3a, <2>1
<1>6. e(stamp, row, old) \in Change /\ e(stamp, row, old).n = seen + 1
  BY <1>2, <1>5 DEF eventToFlowChange, Change
<1> QED BY <1>4, <1>6

LEMMA CollectInv == ASSUME RingInv, Collect PROVE RingInv'
<1>1. seen < RingAdds /\ seen' = seen + 1 /\ UNCHANGED <<clock, held>> /\ seen \in Nat /\ RingAdds \in Nat
  BY RingTypes, RingFacts DEF Collect
<1>2. CASE held
  <2>1. UNCHANGED <<buf, start, count, adds>>
    BY <1>2 DEF Collect
  <2>2. seen' \in 0..RingAdds
    BY <1>1
  <2>3. \A j \in 1..Len(adds) : adds[j].n <= seen /\ adds[j].n \in Int
    <3>1. \A j \in 1..Len(adds) : adds[j] \in Change
      BY RingTypes
    <3>2. \A j \in 1..Len(adds) : adds[j].n <= seen
      BY DEF RingInv, LogInv
    <3> QED BY <3>1, <3>2, ChangeFields
  <2>4. \A j \in 1..Len(adds) : adds[j].n <= seen + 1
    BY <1>1, <2>3
  <2>5. LogInv'
    BY <1>1, <2>1, <2>2, <2>4 DEF RingInv, LogInv
  <2>6. RingTypeOK'
    BY <1>1, <2>1 DEF RingInv, RingTypeOK
  <2> QED BY <2>5, <2>6 DEF RingInv
<1>3. CASE ~ held
  BY <1>1, <1>3, CollectAdds, AddInv
<1> QED BY <1>2, <1>3

LEMMA RingClockInv == ASSUME RingInv, RingTick \/ Hold PROVE RingInv'
<1>1. UNCHANGED <<buf, start, count, adds, seen>> /\ clock \in Nat /\ clock' \in Nat /\ clock <= clock'
      /\ clock' \in 0..RingTicks /\ held' \in BOOLEAN
  <2>1. clock \in 0..RingTicks /\ held \in BOOLEAN /\ UNCHANGED <<buf, start, count, adds, seen>>
    BY DEF RingInv, RingTypeOK, RingTick, Hold
  <2>2. held' \in BOOLEAN
    BY <2>1 DEF RingTick, Hold
  <2> QED BY <2>1, <2>2, RingFacts DEF RingTick, Hold
<1>2. \A j \in 1..Len(adds) : adds[j].at \in Int
  <2>1. \A j \in 1..Len(adds) : adds[j] \in Change
    BY RingTypes
  <2> QED BY <2>1, ChangeFields
<1>3. \A j \in 1..Len(adds) : adds[j].at < clock - MaxAge => adds[j].at < clock' - MaxAge
  BY <1>1, <1>2, RingFacts
<1>4. LogInv'
  BY <1>1, <1>3 DEF RingInv, LogInv
<1>5. RingTypeOK'
  BY <1>1 DEF RingInv, RingTypeOK
<1> QED BY <1>4, <1>5 DEF RingInv

LEMMA RingNextInv == RingInv /\ [RingNext]_ringVars => RingInv'
<1> SUFFICES ASSUME RingInv, [RingNext]_ringVars PROVE RingInv'
  OBVIOUS
<1>1. CASE RingNext
  BY <1>1, CollectInv, RingClockInv DEF RingNext
<1>2. CASE UNCHANGED ringVars
  BY <1>2 DEF ringVars, RingInv, RingTypeOK, LogInv
<1> QED BY <1>1, <1>2

(* The ring of changes is what its type says and answers every query with  *)
(* exactly the young changes of the latest MaxSize, for every capacity,    *)
(* age, delay and set of datapaths.                                        *)
THEOREM RingInvariant == RingSpec => [](RingTypeOK /\ QueryIsExact)
<1>1. RingSpec => []RingInv
  BY RingInitInv, RingNextInv, PTL DEF RingSpec
<1>2. RingInv => RingTypeOK /\ QueryIsExact
  BY ExactFromLog DEF RingInv
<1> QED BY <1>1, <1>2, PTL

\* Add is the abstract Put, or leaves the queue as it was.
LEMMA AddIsPut ==
    ASSUME RingInv, NEW e \in Change, Add(e), clock' = clock
    PROVE  Stored' = Log!Live(Log!Latest(Append(Stored, e)), clock)
<1>1. PICK size \in 1..MaxSize, skip \in 0..MaxSize, q \in Seq(Change) :
              /\ size = IF count < MaxSize THEN count + 1 ELSE count
              /\ Len(q) = size /\ skip <= size
              /\ \A i \in 1..size :
                    q[i] = IF i = size THEN e ELSE Stored[IF count < MaxSize THEN i ELSE i + 1]
              /\ \A i \in 1..skip : q[i].at < clock - MaxAge
              /\ skip < size => ~ (q[skip + 1].at < clock - MaxAge)
              /\ buf' \in [0..(MaxSize - 1) -> Change] /\ start' \in 0..(MaxSize - 1)
              /\ count' = size - skip
              /\ \A i \in 1..count' : buf'[Slot(start' + i - 1)] = q[skip + i]
  BY AddFacts
<1>2. /\ count \in Int /\ 0 <= count /\ count <= MaxSize /\ clock \in Nat /\ MaxAge \in Nat
      /\ MaxSize \in Nat /\ MaxSize >= 1
      /\ size \in Int /\ 1 <= size /\ size <= MaxSize /\ skip \in Int /\ 0 <= skip
  BY RingTypes, RingFacts
<1>3. Stored \in Seq(Change) /\ Len(Stored) = count
  BY StoredFacts
<1> DEFINE s == Append(Stored, e)
<1>4. /\ s \in Seq(Change) /\ Len(s) = count + 1 /\ s[count + 1] = e
      /\ \A i \in 1..count : s[i] = Stored[i]
  BY <1>2, <1>3
<1> HIDE DEF s
<1>5. Log!Latest(s) = q
  <2> DEFINE m == IF Len(s) > MaxSize THEN Len(s) - MaxSize + 1 ELSE 1
  <2>1. Log!Latest(s) = SubSeq(s, m, Len(s))
    BY DEF Log!Latest
  <2>2. m = (count + 1) - size + 1 /\ m \in Int /\ m >= 1
    <3>0. Len(s) = count + 1
      BY <1>4
    <3>1. m = IF count + 1 > MaxSize THEN count + 1 - MaxSize + 1 ELSE 1
      BY <1>2, <3>0
    <3>2. size = IF count < MaxSize THEN count + 1 ELSE count
      BY <1>1
    <3> HIDE DEF m
    <3> QED BY <1>2, <3>1, <3>2
  <2> HIDE DEF m
  <2>3. SubSeq(s, m, Len(s)) = [i \in 1..size |-> s[i + m - 1]]
    <3>1. SubSeq(s, m, Len(s)) = [i \in 1..(1 + Len(s) - m) |-> s[i + m - 1]]
      BY <2>2
    <3>2. 1 + Len(s) - m = size
      BY <1>2, <1>4, <2>2
    <3> QED BY <3>1, <3>2
  <2>4. ASSUME NEW i \in 1..size PROVE s[i + m - 1] = q[i]
    <3>1. CASE i = size
      <4>1. i + m - 1 = count + 1
        BY <1>2, <2>2, <3>1
      <4> QED BY <1>1, <1>4, <3>1, <4>1
    <3>2. CASE i # size /\ count < MaxSize
      <4>1. i + m - 1 = i /\ i \in 1..count
        BY <1>1, <1>2, <2>2, <3>2
      <4> QED BY <1>1, <1>4, <3>2, <4>1
    <3>3. CASE i # size /\ ~ (count < MaxSize)
      <4>1. i + m - 1 = i + 1 /\ i + 1 \in 1..count
        BY <1>1, <1>2, <2>2, <3>3
      <4> QED BY <1>1, <1>4, <3>3, <4>1
    <3> QED BY <3>1, <3>2, <3>3
  <2>5. q = [i \in 1..size |-> q[i]]
    BY <1>1
  <2> QED BY <2>1, <2>3, <2>4, <2>5
<1>6. DOMAIN q = 1..size /\ \A i \in 1..size : q[i].at \in Int
  <2>1. DOMAIN q = 1..size /\ \A i \in 1..size : q[i] \in Change
    BY <1>1
  <2> QED BY <2>1, ChangeFields
<1>7. Stored' = [i \in 1..(size - skip) |-> q[skip + i]]
  <2>1. Stored' = [i \in 1..count' |-> buf'[Slot(start' + i - 1)]]
    BY DEF Stored
  <2> QED BY <1>1, <2>1
<1> DEFINE live == {i \in DOMAIN q : q[i].at >= clock - MaxAge}
<1>8. Log!Live(q, clock) = IF live = {} THEN <<>>
                           ELSE SubSeq(q, CHOOSE i \in live : \A j \in live : i <= j, Len(q))
  BY DEF Log!Live
<1>9. \A i \in live : i \in 1..size /\ ~ (i <= skip)
  BY <1>1, <1>2, <1>6
<1>10. CASE skip = size
  <2>1. live = {}
    BY <1>2, <1>9, <1>10
  <2>2. size - skip = 0
    BY <1>2, <1>10
  <2>3. Stored' = <<>>
    BY <1>7, <2>2
  <2> QED BY <1>5, <1>8, <2>1, <2>3 DEF s
<1>11. CASE skip < size
  <2>1. skip + 1 \in live
    BY <1>1, <1>2, <1>6, <1>11
  <2>2. \A j \in live : skip + 1 <= j
    BY <1>2, <1>9
  <2> DEFINE c == CHOOSE i \in live : \A j \in live : i <= j
  <2>3. c \in live /\ \A j \in live : c <= j
    <3> HIDE DEF live
    <3> QED BY <2>1, <2>2
  <2>4. c = skip + 1
    <3>1. c \in Int /\ c <= skip + 1 /\ skip + 1 <= c
      BY <1>9, <2>1, <2>2, <2>3
    <3> HIDE DEF c
    <3> QED BY <1>2, <3>1
  <2>5. Log!Live(q, clock) = SubSeq(q, c, Len(q))
    BY <1>8, <2>1
  <2> HIDE DEF c, live
  <2>6. SubSeq(q, skip + 1, size) = [i \in 1..(size - skip) |-> q[skip + i]]
    <3>1. SubSeq(q, skip + 1, size) = [i \in 1..(1 + size - (skip + 1)) |-> q[i + (skip + 1) - 1]]
      BY <1>1, <1>2, <1>11
    <3>2. 1 + size - (skip + 1) = size - skip /\ \A i \in 1..(size - skip) : i + (skip + 1) - 1 = skip + i
      BY <1>2
    <3> QED BY <3>1, <3>2
  <2> QED BY <1>1, <1>5, <1>7, <2>4, <2>5, <2>6 DEF s
<1> QED BY <1>1, <1>2, <1>10, <1>11

(* The ring implements BoundedQueue: overwriting, wrapping and pruning     *)
(* keep the order and let go only of what that queue lets go.              *)
THEOREM RingImplementsQueue == RingSpec => RingIsAQueue
<1>1. RingInit => Log!Init
  <2> SUFFICES ASSUME RingInit PROVE Log!Init
    OBVIOUS
  <2>1. count = 0 /\ clock \in Nat
    BY DEF RingInit
  <2>2. Stored = <<>>
    BY <2>1 DEF Stored
  <2> QED BY <2>1, <2>2 DEF Log!Init
<1>2. RingInv /\ [RingNext]_ringVars => [Log!Put \/ Log!Pass]_<<Stored, clock>>
  <2> SUFFICES ASSUME RingInv, [RingNext]_ringVars PROVE [Log!Put \/ Log!Pass]_<<Stored, clock>>
    OBVIOUS
  <2>1. CASE UNCHANGED <<buf, start, count>>
    <3>1. Stored' = Stored
      BY <2>1 DEF Stored
    <3>2. clock' = clock \/ clock' > clock
      <4>1. clock' = clock \/ clock' = clock + 1
        BY DEF RingNext, Collect, RingTick, Hold, ringVars
      <4>2. clock \in Nat
        BY RingTypes
      <4> QED BY <4>1, <4>2
    <3> QED BY <3>1, <3>2 DEF Log!Pass
  <2>2. CASE Collect /\ ~ held
    <3>1. PICK e \in Change : Add(e)
      BY <2>2, CollectAdds
    <3>2. clock' = clock
      BY <2>2 DEF Collect
    <3>4. Stored' = Log!Live(Log!Latest(Append(Stored, e)), clock)
      BY <3>1, <3>2, AddIsPut
    <3>5. CASE Stored' = Stored
      BY <3>2, <3>5
    <3>6. CASE Stored' # Stored
      BY <3>2, <3>4, <3>6 DEF Log!Put
    <3> QED BY <3>5, <3>6
  <2> QED BY <2>1, <2>2 DEF RingNext, Collect, RingTick, Hold, ringVars
<1>3. RingSpec => []RingInv
  BY RingInitInv, RingNextInv, PTL DEF RingSpec
<1> QED BY <1>1, <1>2, <1>3, PTL DEF RingSpec, RingIsAQueue, Log!Spec

---------------------------------------------------------------------------
(* The enrichment cache *)

LookRec == [stage : {"idle", "expired", "ask", "answer", "done"}, key : CacheKeys \cup {""},
            info : Nat, asked : Nat]

\* What a lookup carries, and how old the answer of a provider can be by now.
LookInv ==
    /\ look \in [Lookups -> LookRec] /\ time \in Nat
    /\ \A l \in Lookups :
          /\ look[l].stage \in {"expired", "ask", "answer"} => look[l].key \in CacheKeys
          /\ look[l].stage = "answer" => look[l].info = look[l].asked /\ time <= look[l].asked + CallTime

(* An entry expires at most one lifetime and one call after its            *)
(* information was read, whichever of several answers was stored last.     *)
EntryInv ==
    /\ IsFiniteSet(DOMAIN entries)
    /\ entries \in [DOMAIN entries -> [info : Nat, expiresAt : Nat]]
    /\ \A k \in DOMAIN entries : entries[k].expiresAt <= entries[k].info + CacheTTL + CallTime

CacheInv == CacheTypeOK /\ LookInv /\ EntryInv /\ InfoAgeBounded

LEMMA CacheFacts ==
    /\ MaxEntries \in Nat /\ MaxEntries >= 1
    /\ CacheTTL \in Nat /\ CallTime \in Nat /\ CacheTime \in Nat
BY CacheConstants

LEMMA CacheInitInv == CacheInit => CacheInv
<1> SUFFICES ASSUME CacheInit PROVE CacheInv
  OBVIOUS
<1>1. DOMAIN entries = {} /\ look = [l \in Lookups |-> NoLookup] /\ time = 0
  BY DEF CacheInit
<1>2. IsFiniteSet({}) /\ Cardinality({}) = 0
  BY FS_EmptySet
<1>3. EntryInv
  BY <1>1, <1>2 DEF EntryInv, CacheInit
<1>4. LookInv /\ InfoAgeBounded
  BY <1>1, CacheFacts DEF LookInv, LookRec, NoLookup, InfoAgeBounded
<1>5. CacheTypeOK
  <2>1. \A l \in Lookups : look[l].stage = "idle"
    BY <1>1 DEF NoLookup
  <2>2. Cardinality(DOMAIN entries) <= MaxEntries
    BY <1>1, <1>2, CacheFacts
  <2> QED BY <1>1, <2>1, <2>2 DEF CacheTypeOK
<1> QED BY <1>3, <1>4, <1>5 DEF CacheInv

\* A step of one lookup that leaves the entries alone.
LEMMA LookKeeps ==
    ASSUME CacheInv, NEW l \in Lookups, NEW r \in LookRec,
           look' = [look EXCEPT ![l] = r], UNCHANGED <<entries, time>>,
           r.stage \in {"expired", "ask", "answer"} => r.key \in CacheKeys,
           r.stage = "answer" => r.info = r.asked /\ time <= r.asked + CallTime,
           r.stage = "done" => r.asked - r.info <= CacheTTL + CallTime
    PROVE  CacheInv'
<1>1. look' \in [Lookups -> LookRec] /\ look'[l] = r /\ \A m \in Lookups : m # l => look'[m] = look[m]
  BY DEF CacheInv, LookInv
<1>2. LookInv'
  BY <1>1 DEF CacheInv, LookInv
<1>3. EntryInv'
  BY DEF CacheInv, EntryInv
<1>4. InfoAgeBounded'
  BY <1>1 DEF CacheInv, InfoAgeBounded
<1>5. \A m \in Lookups : look'[m].stage \in {"idle", "expired", "ask", "answer", "done"}
  BY <1>1 DEF LookRec
<1>6. CacheTypeOK'
  BY <1>5 DEF CacheInv, CacheTypeOK
<1> QED BY <1>2, <1>3, <1>4, <1>6 DEF CacheInv

LEMMA GetInv == ASSUME CacheInv, NEW l \in Lookups, Get(l) PROVE CacheInv'
<1>1. PICK k \in CacheKeys : look' = [look EXCEPT ![l] =
             IF k \notin DOMAIN entries THEN [NoLookup EXCEPT !.stage = "ask", !.key = k]
             ELSE IF After(entries[k]) THEN [NoLookup EXCEPT !.stage = "expired", !.key = k]
             ELSE [stage |-> "done", key |-> k, info |-> entries[k].info, asked |-> time]]
  BY DEF Get
<1>2. UNCHANGED <<entries, time>> /\ time \in Nat
  BY DEF Get, CacheInv, LookInv
<1>3. CASE k \notin DOMAIN entries
  <2> DEFINE r == [NoLookup EXCEPT !.stage = "ask", !.key = k]
  <2>1. r \in LookRec /\ r.stage = "ask" /\ r.key = k
    BY DEF NoLookup, LookRec
  <2>2. look' = [look EXCEPT ![l] = r]
    BY <1>1, <1>3
  <2> HIDE DEF r
  <2> QED BY <1>2, <2>1, <2>2, LookKeeps
<1>4. CASE k \in DOMAIN entries /\ After(entries[k])
  <2> DEFINE r == [NoLookup EXCEPT !.stage = "expired", !.key = k]
  <2>1. r \in LookRec /\ r.stage = "expired" /\ r.key = k
    BY DEF NoLookup, LookRec
  <2>2. look' = [look EXCEPT ![l] = r]
    BY <1>1, <1>4
  <2> HIDE DEF r
  <2> QED BY <1>2, <2>1, <2>2, LookKeeps
<1>5. CASE k \in DOMAIN entries /\ ~ After(entries[k])
  <2> DEFINE r == [stage |-> "done", key |-> k, info |-> entries[k].info, asked |-> time]
  <2>1. entries[k] \in [info : Nat, expiresAt : Nat] /\ entries[k].expiresAt <= entries[k].info + CacheTTL + CallTime
    BY <1>5 DEF CacheInv, EntryInv
  <2>2. r \in LookRec /\ r.stage = "done" /\ r.asked = time /\ r.info = entries[k].info
    BY <1>2, <2>1 DEF LookRec
  <2>3. time <= entries[k].expiresAt
    BY <1>2, <1>5, <2>1 DEF After
  <2>4. look' = [look EXCEPT ![l] = r]
    BY <1>1, <1>5
  <2> HIDE DEF r
  <2>5. r.asked - r.info <= CacheTTL + CallTime
    BY <1>2, <2>1, <2>2, <2>3, CacheFacts
  <2> QED BY <1>2, <2>2, <2>4, <2>5, LookKeeps
<1> QED BY <1>3, <1>4, <1>5

LEMMA AskInv == ASSUME CacheInv, NEW l \in Lookups, Ask(l) \/ Return(l) PROVE CacheInv'
<1>1. UNCHANGED <<entries, time>> /\ time \in Nat /\ look[l] \in LookRec
  BY DEF Ask, Return, CacheInv, LookInv
<1>2. CASE look' = [look EXCEPT ![l] = NoLookup]
  <2>1. NoLookup \in LookRec /\ NoLookup.stage = "idle"
    BY DEF NoLookup, LookRec
  <2> QED BY <1>1, <1>2, <2>1, LookKeeps
<1>3. CASE look[l].stage = "ask" /\ look' = [look EXCEPT ![l].stage = "answer", ![l].info = time, ![l].asked = time]
  <2> DEFINE r == [look[l] EXCEPT !.stage = "answer", !.info = time, !.asked = time]
  <2>1. look' = [look EXCEPT ![l] = r]
    BY <1>3 DEF CacheInv, LookInv
  <2>2. r \in LookRec /\ r.stage = "answer" /\ r.info = time /\ r.asked = time /\ r.key = look[l].key
    BY <1>1 DEF LookRec
  <2>3. look[l].key \in CacheKeys
    BY <1>3 DEF CacheInv, LookInv
  <2> HIDE DEF r
  <2>4. r.info = r.asked /\ time <= r.asked + CallTime
    BY <1>1, <2>2, CacheFacts
  <2> QED BY <1>1, <2>1, <2>2, <2>3, <2>4, LookKeeps
<1> QED BY <1>2, <1>3 DEF Ask, Return

\* What the entries may become: fewer, or one set to a fresh answer.
LEMMA EntriesShrink ==
    ASSUME CacheInv, NEW keys \in SUBSET DOMAIN entries
    PROVE  /\ IsFiniteSet(keys) /\ Cardinality(keys) <= Cardinality(DOMAIN entries)
           /\ Cardinality(keys) \in Nat /\ keys \subseteq CacheKeys
BY FS_Subset, FS_CardinalityType DEF CacheInv, EntryInv, CacheTypeOK

LEMMA GetExpiredInv == ASSUME CacheInv, NEW l \in Lookups, GetExpired(l) PROVE CacheInv'
<1>1. /\ time' = time /\ time \in Nat /\ look[l] \in LookRec /\ look[l].stage = "expired"
      /\ look[l].key \in CacheKeys
      /\ look' = [look EXCEPT ![l].stage = "ask"]
  BY DEF GetExpired, CacheInv, LookInv
<1>2. PICK keys \in SUBSET DOMAIN entries : entries' = [x \in keys |-> entries[x]]
  <2>1. CASE entries' = entries
    BY <2>1 DEF CacheInv, EntryInv
  <2>2. CASE entries' = Restrict(entries, DOMAIN entries \ {look[l].key})
    BY <2>2 DEF Restrict
  <2> QED BY <2>1, <2>2 DEF GetExpired
<1>3. DOMAIN entries' = keys /\ \A k \in keys : entries'[k] = entries[k]
  BY <1>2
<1>4. EntryInv'
  BY <1>2, <1>3, EntriesShrink DEF CacheInv, EntryInv
<1> DEFINE r == [look[l] EXCEPT !.stage = "ask"]
<1>5. look' = [look EXCEPT ![l] = r] /\ r \in LookRec /\ r.stage = "ask" /\ r.key = look[l].key
  BY <1>1 DEF CacheInv, LookInv, LookRec
<1> HIDE DEF r
<1>6. look' \in [Lookups -> LookRec] /\ look'[l] = r /\ \A m \in Lookups : m # l => look'[m] = look[m]
  BY <1>5 DEF CacheInv, LookInv
<1>7. LookInv' /\ InfoAgeBounded'
  BY <1>1, <1>5, <1>6 DEF CacheInv, LookInv, InfoAgeBounded
<1>8. \A m \in Lookups : look'[m].stage \in {"idle", "expired", "ask", "answer", "done"}
  BY <1>6 DEF LookRec
<1>9. Cardinality(DOMAIN entries') <= MaxEntries /\ DOMAIN entries' \subseteq CacheKeys
  <2>1. Cardinality(DOMAIN entries) <= MaxEntries /\ Cardinality(DOMAIN entries) \in Nat
    BY FS_CardinalityType DEF CacheInv, CacheTypeOK, EntryInv
  <2> QED BY <1>3, <2>1, EntriesShrink, CacheFacts
<1> QED BY <1>4, <1>7, <1>8, <1>9 DEF CacheInv, CacheTypeOK

LEMMA SetInv == ASSUME CacheInv, NEW l \in Lookups, Set(l) PROVE CacheInv'
<1> DEFINE k == look[l].key
           e == [info |-> look[l].info, expiresAt |-> time + CacheTTL]
           n == Cardinality(DOMAIN entries)
           live == {x \in DOMAIN entries : ~ After(entries[x])}
<1>1. /\ time' = time /\ time \in Nat /\ look[l] \in LookRec /\ look[l].stage = "answer"
      /\ k \in CacheKeys /\ look[l].info = look[l].asked /\ time <= look[l].asked + CallTime
      /\ look' = [look EXCEPT ![l].stage = "done", ![l].asked = time]
  BY DEF Set, CacheInv, LookInv
<1>2. IsFiniteSet(DOMAIN entries) /\ n \in Nat /\ n <= MaxEntries
  BY FS_CardinalityType DEF CacheInv, CacheTypeOK, EntryInv
<1>3. PICK keys : /\ keys \in IF k \notin DOMAIN entries /\ n >= MaxEntries THEN Evicted ELSE {DOMAIN entries}
                  /\ entries' = [x \in keys \cup {k} |-> IF x = k THEN e ELSE entries[x]]
  BY DEF Set
<1>4. /\ keys \subseteq DOMAIN entries
      /\ Cardinality(keys) < MaxEntries \/ (k \in keys /\ keys = DOMAIN entries)
  <2>1. CASE k \notin DOMAIN entries /\ n >= MaxEntries
    <3>1. keys \in Evicted
      BY <1>3, <2>1
    <3>2. CASE Cardinality(live) < MaxEntries
      <4>1. keys = live
        BY <3>1, <3>2 DEF Evicted
      <4> QED BY <3>2, <4>1
    <3>3. CASE ~ (Cardinality(live) < MaxEntries)
      <4>1. keys \in SUBSET live /\ Cardinality(keys) = MaxEntries - 1
        BY <3>1, <3>3 DEF Evicted
      <4> QED BY <4>1, CacheFacts
    <3> QED BY <3>2, <3>3
  <2>2. CASE ~ (k \notin DOMAIN entries /\ n >= MaxEntries)
    <3>1. keys = DOMAIN entries
      BY <1>3, <2>2
    <3> QED BY <1>2, <2>2, <3>1, CacheFacts
  <2> QED BY <2>1, <2>2
<1>5. /\ IsFiniteSet(keys) /\ Cardinality(keys) \in Nat /\ keys \subseteq CacheKeys
  BY <1>4, EntriesShrink
<1>6. DOMAIN entries' = keys \cup {k} /\ IsFiniteSet(keys \cup {k}) /\ Cardinality(keys \cup {k}) <= MaxEntries
  <2>1. DOMAIN entries' = keys \cup {k}
    BY <1>3
  <2>2. IsFiniteSet(keys \cup {k})
        /\ Cardinality(keys \cup {k}) = IF k \in keys THEN Cardinality(keys) ELSE Cardinality(keys) + 1
    BY <1>5, FS_AddElement
  <2>3. CASE Cardinality(keys) < MaxEntries
    BY <1>5, <2>1, <2>2, <2>3, CacheFacts
  <2>4. CASE k \in keys /\ keys = DOMAIN entries
    BY <1>2, <2>1, <2>2, <2>4
  <2> QED BY <1>4, <2>3, <2>4
<1>7. e \in [info : Nat, expiresAt : Nat] /\ e.expiresAt <= e.info + CacheTTL + CallTime
  <2>0. look[l].info \in Nat /\ look[l].asked \in Nat
    BY <1>1 DEF LookRec
  <2>1. look[l].info \in Nat /\ time + CacheTTL \in Nat /\ time + CacheTTL <= look[l].info + CacheTTL + CallTime
    BY <1>1, <2>0, CacheFacts
  <2> QED BY <2>1
<1> HIDE DEF e
<1>8. EntryInv'
  <2>1. \A x \in keys \cup {k} : entries'[x] = IF x = k THEN e ELSE entries[x]
    BY <1>3
  <2>2. \A x \in keys \cup {k} : /\ entries'[x] \in [info : Nat, expiresAt : Nat]
                                 /\ entries'[x].expiresAt <= entries'[x].info + CacheTTL + CallTime
    BY <1>4, <1>7, <2>1 DEF CacheInv, EntryInv
  <2>3. entries' = [x \in DOMAIN entries' |-> entries'[x]]
    BY <1>3
  <2> QED BY <1>6, <2>2, <2>3 DEF EntryInv
<1> DEFINE r == [look[l] EXCEPT !.stage = "done", !.asked = time]
<1>9. look' = [look EXCEPT ![l] = r] /\ r \in LookRec /\ r.stage = "done" /\ r.asked = time /\ r.info = look[l].info
  BY <1>1 DEF CacheInv, LookInv, LookRec
<1> HIDE DEF r
<1>10. look' \in [Lookups -> LookRec] /\ look'[l] = r /\ \A m \in Lookups : m # l => look'[m] = look[m]
  BY <1>9 DEF CacheInv, LookInv
<1>11. r.asked - r.info <= CacheTTL + CallTime
  <2>1. look[l].info \in Nat /\ time <= look[l].info + CallTime
    BY <1>1 DEF LookRec
  <2> QED BY <1>1, <1>9, <2>1, CacheFacts
<1>12. LookInv' /\ InfoAgeBounded'
  BY <1>1, <1>9, <1>10, <1>11 DEF CacheInv, LookInv, InfoAgeBounded
<1>13. \A m \in Lookups : look'[m].stage \in {"idle", "expired", "ask", "answer", "done"}
  BY <1>10 DEF LookRec
<1>14. CacheTypeOK'
  BY <1>1, <1>5, <1>6, <1>13 DEF CacheTypeOK
<1> QED BY <1>8, <1>12, <1>14 DEF CacheInv

LEMMA CacheTickInv == ASSUME CacheInv, CacheTick PROVE CacheInv'
<1>1. time \in Nat /\ time' = time + 1 /\ UNCHANGED <<entries, look>>
      /\ \A l \in Lookups : look[l].stage = "answer" => time < look[l].asked + CallTime
  BY DEF CacheTick, CacheInv, LookInv
<1>2. \A l \in Lookups : look[l].asked \in Nat
  BY DEF CacheInv, LookInv, LookRec
<1>3. \A l \in Lookups : look[l].stage = "answer" => time + 1 <= look[l].asked + CallTime
  BY <1>1, <1>2, CacheFacts
<1>4. LookInv'
  BY <1>1, <1>3 DEF CacheInv, LookInv
<1> QED BY <1>1, <1>4 DEF CacheInv, CacheTypeOK, EntryInv, InfoAgeBounded

(* The enrichment cache stays within its bound, and no lookup is answered  *)
(* with information older than a lifetime and a call, for any number of    *)
(* concurrent lookups, keys and entries.                                   *)
THEOREM CacheInvariant == CacheSpec => []CacheInv
<1>1. CacheInv /\ [CacheNext]_cacheVars => CacheInv'
  <2> SUFFICES ASSUME CacheInv, [CacheNext]_cacheVars PROVE CacheInv'
    OBVIOUS
  <2>1. CASE CacheNext
    BY <2>1, CacheTickInv, GetInv, GetExpiredInv, AskInv, SetInv DEF CacheNext
  <2>2. CASE UNCHANGED cacheVars
    BY <2>2 DEF cacheVars, CacheInv, CacheTypeOK, LookInv, EntryInv, InfoAgeBounded
  <2> QED BY <2>1, <2>2
<1> QED BY <1>1, CacheInitInv, PTL DEF CacheSpec

(* Get removes expired entries only and Set evicts only in a full cache    *)
(* that gains a key.                                                       *)
THEOREM FreshSurvives == CacheSpec => FreshSurvivesGet
<1> DEFINE Kept == \A k \in DOMAIN entries \ DOMAIN entries' :
          \/ After(entries[k])
          \/ /\ Cardinality(DOMAIN entries) >= MaxEntries
             /\ DOMAIN entries' \ DOMAIN entries # {}
<1>1. [CacheNext]_cacheVars => [Kept]_cacheVars
  <2> SUFFICES ASSUME CacheNext PROVE Kept
    OBVIOUS
  <2>1. CASE UNCHANGED entries
    BY <2>1
  <2>2. ASSUME NEW l \in Lookups, GetExpired(l) PROVE Kept
    <3>1. CASE entries' = entries
      BY <3>1
    <3>2. CASE /\ look[l].key \in DOMAIN entries /\ After(entries[look[l].key])
               /\ entries' = Restrict(entries, DOMAIN entries \ {look[l].key})
      <4>1. DOMAIN entries' = DOMAIN entries \ {look[l].key}
        BY <3>2 DEF Restrict
      <4> QED BY <3>2, <4>1
    <3> QED BY <2>2, <3>1, <3>2 DEF GetExpired
  <2>3. ASSUME NEW l \in Lookups, Set(l) PROVE Kept
    <3> DEFINE k == look[l].key
    <3>1. CASE k \notin DOMAIN entries /\ Cardinality(DOMAIN entries) >= MaxEntries
      <4>1. k \in DOMAIN entries'
        BY <2>3 DEF Set
      <4> QED BY <3>1, <4>1
    <3>2. CASE ~ (k \notin DOMAIN entries /\ Cardinality(DOMAIN entries) >= MaxEntries)
      <4>1. DOMAIN entries' = DOMAIN entries \cup {k}
        BY <2>3, <3>2 DEF Set
      <4> QED BY <4>1
    <3> QED BY <3>1, <3>2
  <2> QED BY <2>1, <2>2, <2>3 DEF CacheNext, CacheTick, Get, Ask, Return
<1> QED BY <1>1, PTL DEF CacheSpec, FreshSurvivesGet

---------------------------------------------------------------------------
(* Saved traces and persisted events *)

\* Traces are dated in the past, events are numbered below the next.
TraceInv ==
    /\ TraceTypeOK /\ at \in Nat /\ storesSince \in Nat
    /\ IsFiniteSet(DOMAIN traces) /\ traces \in [DOMAIN traces -> Nat]
    /\ \A k \in DOMAIN traces : traces[k] <= at
    /\ nextEvent \in Nat /\ nextEvent >= 1 /\ events \in [DOMAIN events -> Nat]

LEMMA TraceFacts ==
    /\ MaxTraces \in Nat /\ MaxTraces >= 1 /\ CleanupEvery \in Nat /\ CleanupEvery >= 1
    /\ TraceAge \in Nat /\ EventMax \in Nat /\ Retention \in Nat /\ Delay \in Nat
    /\ MaxEvents \in Nat /\ TraceTime \in Nat
BY TraceConstants

LEMMA TraceInitInv == TraceInit => TraceInv
<1> SUFFICES ASSUME TraceInit PROVE TraceInv
  OBVIOUS
<1>1. DOMAIN traces = {} /\ DOMAIN events = {} /\ at = 0 /\ storesSince = 0 /\ nextEvent = 1
  BY DEF TraceInit
<1>2. IsFiniteSet({}) /\ Cardinality({}) = 0
  BY FS_EmptySet
<1>3. traces \in [DOMAIN traces -> Nat] /\ events \in [DOMAIN events -> Nat]
  BY <1>1 DEF TraceInit
<1>4. TraceTypeOK
  BY <1>1, <1>2, TraceFacts DEF TraceTypeOK
<1> QED BY <1>1, <1>2, <1>3, <1>4 DEF TraceInv

\* What Store chooses from: the young ones, and room where the id is new.
LEMMA StoreRoom ==
    ASSUME TraceInv, NEW id \in TraceIds, Store(id)
    PROVE  \E ids \in SUBSET DOMAIN traces :
              /\ traces' = [k \in ids \cup {id} |-> IF k = id THEN at ELSE traces[k]]
              /\ Cardinality(ids) < MaxTraces \/ id \in ids
              /\ \/ Young(traces) \subseteq ids
                 \/ /\ Cardinality(Young(traces)) >= MaxTraces
                    /\ \E k \in Young(traces) : /\ ids = Young(traces) \ {k}
                                                /\ \A j \in ids : traces[k] <= traces[j]
<1> DEFINE kept == IF storesSince + 1 >= CleanupEvery THEN Young(traces) ELSE DOMAIN traces
           young == kept \cap Young(traces)
<1>1. PICK ids \in IF id \in kept THEN {kept} ELSE evictOldest(kept) :
              traces' = [k \in ids \cup {id} |-> IF k = id THEN at ELSE traces[k]]
  BY DEF Store
<1>2. Young(traces) \subseteq kept /\ kept \subseteq DOMAIN traces /\ young = Young(traces)
  BY DEF Young
<1>3. /\ IsFiniteSet(kept) /\ IsFiniteSet(young) /\ Cardinality(kept) \in Nat /\ Cardinality(young) \in Nat
  BY <1>2, FS_Subset, FS_CardinalityType DEF TraceInv
<1>4. CASE id \in kept
  BY <1>1, <1>2, <1>4
<1>5. CASE id \notin kept /\ Cardinality(kept) < MaxTraces
  <2>1. ids = kept
    BY <1>1, <1>5 DEF evictOldest
  <2> QED BY <1>1, <1>2, <1>5, <2>1
<1>6. CASE id \notin kept /\ ~ (Cardinality(kept) < MaxTraces) /\ Cardinality(young) < MaxTraces
  <2>1. ids = young
    BY <1>1, <1>6 DEF evictOldest
  <2> QED BY <1>1, <1>2, <1>6, <2>1
<1>7. CASE id \notin kept /\ ~ (Cardinality(kept) < MaxTraces) /\ ~ (Cardinality(young) < MaxTraces)
  <2>1. PICK k \in Oldest(young, traces) : ids = young \ {k}
    BY <1>1, <1>7 DEF evictOldest
  <2>2. k \in young /\ \A j \in young : traces[k] <= traces[j]
    BY <2>1 DEF Oldest
  <2>3. Cardinality(ids) = Cardinality(young) - 1
    BY <1>3, <2>1, <2>2, FS_RemoveElement
  <2>4. Cardinality(young) <= MaxTraces
    <3>1. Cardinality(young) <= Cardinality(DOMAIN traces)
      BY <1>2, FS_Subset DEF TraceInv
    <3>2. Cardinality(DOMAIN traces) <= MaxTraces /\ Cardinality(DOMAIN traces) \in Nat
      BY FS_CardinalityType DEF TraceInv, TraceTypeOK
    <3> QED BY <1>3, <3>1, <3>2, TraceFacts
  <2>5. Cardinality(ids) < MaxTraces /\ Cardinality(young) >= MaxTraces
    BY <1>3, <1>7, <2>3, <2>4, TraceFacts
  <2>6. ids \in SUBSET DOMAIN traces /\ \A j \in ids : traces[k] <= traces[j]
    BY <1>2, <2>1, <2>2
  <2> HIDE DEF kept, young
  <2> QED BY <1>1, <1>2, <2>1, <2>2, <2>5, <2>6
<1> QED BY <1>4, <1>5, <1>6, <1>7

LEMMA TraceStoreInv == ASSUME TraceInv, NEW id \in TraceIds, Store(id) PROVE TraceInv'
<1>1. PICK ids \in SUBSET DOMAIN traces :
              /\ traces' = [k \in ids \cup {id} |-> IF k = id THEN at ELSE traces[k]]
              /\ Cardinality(ids) < MaxTraces \/ id \in ids
              /\ \/ Young(traces) \subseteq ids
                 \/ /\ Cardinality(Young(traces)) >= MaxTraces
                    /\ \E k \in Young(traces) : /\ ids = Young(traces) \ {k}
                                                /\ \A j \in ids : traces[k] <= traces[j]
  BY StoreRoom
<1>2. /\ IsFiniteSet(ids) /\ Cardinality(ids) \in Nat /\ Cardinality(ids) <= MaxTraces
  <2>1. IsFiniteSet(ids) /\ Cardinality(ids) <= Cardinality(DOMAIN traces)
    BY FS_Subset DEF TraceInv
  <2>2. Cardinality(DOMAIN traces) <= MaxTraces /\ Cardinality(DOMAIN traces) \in Nat /\ Cardinality(ids) \in Nat
    BY <2>1, FS_CardinalityType DEF TraceInv, TraceTypeOK
  <2> QED BY <2>1, <2>2, TraceFacts
<1>3. IsFiniteSet(ids \cup {id})
      /\ Cardinality(ids \cup {id}) = IF id \in ids THEN Cardinality(ids) ELSE Cardinality(ids) + 1
  BY <1>2, FS_AddElement
<1>4. Cardinality(ids \cup {id}) <= MaxTraces
  BY <1>1, <1>2, <1>3, TraceFacts
<1>5. DOMAIN traces' = ids \cup {id} /\ UNCHANGED <<events, nextEvent, at>>
  BY <1>1 DEF Store
<1>6. DOMAIN traces' \subseteq TraceIds
  BY <1>5 DEF TraceInv, TraceTypeOK
<1>7. storesSince' \in 0..CleanupEvery - 1 /\ storesSince' \in Nat
  BY TraceFacts DEF Store, TraceInv, TraceTypeOK
<1>8. \A k \in ids \cup {id} : traces'[k] \in Nat /\ traces'[k] <= at
  BY <1>1 DEF TraceInv
<1>9. traces' \in [DOMAIN traces' -> Nat] /\ \A k \in DOMAIN traces' : traces'[k] <= at'
  BY <1>1, <1>5, <1>8
<1> QED BY <1>3, <1>4, <1>5, <1>6, <1>7, <1>9 DEF TraceInv, TraceTypeOK

LEMMA EventStepInv == ASSUME TraceInv, InsertEvents \/ PruneTick PROVE TraceInv'
<1>1. UNCHANGED <<traces, storesSince, at>>
  BY DEF InsertEvents, PruneTick
<1>2. /\ nextEvent' \in Nat /\ nextEvent' >= 1 /\ events' \in [DOMAIN events' -> Nat]
      /\ DOMAIN events' \subseteq 1..(nextEvent' - 1)
  <2>1. /\ nextEvent \in Nat /\ nextEvent >= 1 /\ at \in Nat /\ DOMAIN events \subseteq 1..(nextEvent - 1)
        /\ events \in [DOMAIN events -> Nat]
    BY DEF TraceInv, TraceTypeOK
  <2>2. CASE InsertEvents
    <3>1. PICK ts \in Max({0, at - Delay})..at :
             events' = [e \in DOMAIN events \cup {nextEvent} |-> IF e = nextEvent THEN ts ELSE events[e]]
      BY <2>2 DEF InsertEvents
    <3>2. ts \in Nat
      <4>1. {0, at - Delay} \in SUBSET Int /\ {0, at - Delay} # {}
        BY <2>1, TraceFacts
      <4>2. IsFiniteSet({0, at - Delay})
        <5>1. IsFiniteSet({0}) /\ {0, at - Delay} = {0} \cup {at - Delay}
          BY FS_Singleton
        <5> QED BY <5>1, FS_AddElement
      <4>3. Max({0, at - Delay}) \in Int /\ 0 <= Max({0, at - Delay})
        BY <4>1, <4>2, MaxIsLargest
      <4> QED BY <2>1, <4>3
    <3>3. nextEvent' = nextEvent + 1
      BY <2>2 DEF InsertEvents
    <3>4. DOMAIN events' = DOMAIN events \cup {nextEvent}
      BY <3>1
    <3>5. \A e \in DOMAIN events' : events'[e] \in Nat
      BY <2>1, <3>1, <3>2
    <3>6. events' \in [DOMAIN events' -> Nat]
      BY <3>1, <3>4, <3>5
    <3> QED BY <2>1, <3>3, <3>4, <3>6
  <2>3. CASE PruneTick
    <3>1. nextEvent' = nextEvent
      BY <2>3 DEF PruneTick
    <3>2. PICK ids : ids = PruneEventsByCount(PruneEvents)
      OBVIOUS
    <3>3. ids \subseteq DOMAIN events
      BY <3>2 DEF PruneEventsByCount, PruneEvents
    <3>4. events' = [e \in ids |-> events[e]]
      BY <2>3, <3>2 DEF PruneTick, Restrict
    <3> QED BY <2>1, <3>1, <3>3, <3>4
  <2> QED BY <2>2, <2>3
<1> QED BY <1>1, <1>2 DEF TraceInv, TraceTypeOK

LEMMA TraceTickInv == ASSUME TraceInv, TraceTick PROVE TraceInv'
<1>1. at' = at + 1 /\ UNCHANGED <<traces, storesSince, serial, events, nextEvent>> /\ at \in Nat
  BY DEF TraceTick, TraceInv
<1>2. \A k \in DOMAIN traces : traces[k] \in Nat /\ traces[k] <= at + 1
  BY <1>1 DEF TraceInv
<1> QED BY <1>1, <1>2 DEF TraceInv, TraceTypeOK

(* The saved traces stay within their number and the sweep counter within  *)
(* its period, for every number of ids, limit and period.                  *)
THEOREM TraceInvariant == TraceSpec => []TraceInv
<1>1. TraceInv /\ [TraceNext \/ EventNext]_traceVars => TraceInv'
  <2> SUFFICES ASSUME TraceInv, [TraceNext \/ EventNext]_traceVars PROVE TraceInv'
    OBVIOUS
  <2>1. CASE TraceNext \/ EventNext
    <3>1. ASSUME NEW id \in TraceIds, Store(id) PROVE TraceInv'
      BY <3>1, TraceStoreInv
    <3>2. CASE InsertEvents \/ PruneTick
      BY <3>2, EventStepInv
    <3>3. CASE TraceTick
      BY <3>3, TraceTickInv
    <3> QED BY <2>1, <3>1, <3>2, <3>3 DEF TraceNext, EventNext
  <2>2. CASE UNCHANGED traceVars
    BY <2>2 DEF traceVars, TraceInv, TraceTypeOK
  <2> QED BY <2>1, <2>2
<1> QED BY <1>1, TraceInitInv, PTL DEF TraceSpec

(* A young trace makes room only in a store full of traces at least as new. *)
THEOREM OldestGoes == TraceSpec => OldestTraceMakesRoom
<1> DEFINE Room == \A id \in Young(traces) \ DOMAIN traces' :
          /\ Cardinality(Young(traces)) >= MaxTraces
          /\ \A k \in DOMAIN traces' : traces'[k] >= traces[id]
<1>1. TraceInv /\ [TraceNext \/ EventNext]_traceVars => [Room]_traces
  <2> SUFFICES ASSUME TraceInv, TraceNext \/ EventNext, ~ UNCHANGED traces PROVE Room
    BY DEF traceVars
  <2>1. PICK new \in TraceIds : Store(new)
    BY DEF TraceNext, EventNext, InsertEvents, PruneTick, TraceTick
  <2>2. PICK ids \in SUBSET DOMAIN traces :
              /\ traces' = [k \in ids \cup {new} |-> IF k = new THEN at ELSE traces[k]]
              /\ \/ Young(traces) \subseteq ids
                 \/ /\ Cardinality(Young(traces)) >= MaxTraces
                    /\ \E k \in Young(traces) : /\ ids = Young(traces) \ {k}
                                                /\ \A j \in ids : traces[k] <= traces[j]
    BY <2>1, StoreRoom
  <2>3. SUFFICES ASSUME NEW id \in Young(traces) \ DOMAIN traces'
                 PROVE  /\ Cardinality(Young(traces)) >= MaxTraces
                        /\ \A k \in DOMAIN traces' : traces'[k] >= traces[id]
    OBVIOUS
  <2>4. DOMAIN traces' = ids \cup {new}
    BY <2>2
  <2>5. id \notin ids /\ id \in DOMAIN traces
    BY <2>4 DEF Young
  <2>6. Cardinality(Young(traces)) >= MaxTraces /\ \A j \in ids : traces[id] <= traces[j]
    BY <2>2, <2>3, <2>5
  <2>7. traces[id] \in Nat /\ traces[id] <= at /\ at \in Nat /\ \A j \in ids : traces[j] \in Nat
    BY <2>5 DEF TraceInv
  <2>8. \A k \in DOMAIN traces' : traces'[k] = IF k = new THEN at ELSE traces[k]
    BY <2>2, <2>4
  <2> QED BY <2>4, <2>6, <2>7, <2>8
<1> QED BY <1>1, TraceInvariant, PTL DEF TraceSpec, OldestTraceMakesRoom

(* Dropping all but the K largest of a finite set keeps K above whatever   *)
(* it drops.                                                               *)
LEMMA LargestKept ==
    ASSUME NEW S \in SUBSET Int, IsFiniteSet(S), NEW K \in Nat, K > 0, NEW e \in S,
           ~ (Cardinality({f \in S : f > e}) < K)
    PROVE  Cardinality({f \in {g \in S : Cardinality({h \in S : h > g}) < K} : f > e}) >= K
<1> DEFINE Above(x) == {f \in S : f > x}
           T == {g \in S : Cardinality({h \in S : h > g}) < K}
<1>1. \A x \in S : /\ Above(x) \in SUBSET S /\ IsFiniteSet(Above(x)) /\ Cardinality(Above(x)) \in Nat
  BY FS_Subset, FS_CardinalityType
<1>2. T \in SUBSET S /\ IsFiniteSet(T) /\ Cardinality(T) \in Nat
  BY FS_Subset, FS_CardinalityType
<1>3. \A x \in S : x \in T <=> Cardinality(Above(x)) < K
  OBVIOUS
<1>4. ~ (Cardinality(Above(e)) < K)
  OBVIOUS
<1>5. ASSUME NEW x \in S, NEW y \in S, x <= y PROVE Cardinality(Above(y)) <= Cardinality(Above(x))
  <2>1. x \in Int /\ y \in Int /\ S \subseteq Int
    OBVIOUS
  <2>2. ASSUME NEW z \in Above(y) PROVE z \in Above(x)
    <3>1. z \in S /\ z \in Int /\ z > y
      BY <2>1
    <3>2. z > x
      BY <1>5, <2>1, <3>1
    <3> QED BY <3>1, <3>2
  <2> HIDE DEF Above
  <2> QED BY <1>1, <2>2, FS_Subset
<1>6. \A x \in T : x > e
  <2> SUFFICES ASSUME NEW x \in T, ~ (x > e) PROVE FALSE
    OBVIOUS
  <2>1. x \in S /\ x \in Int /\ e \in Int
    BY <1>2
  <2>2. x <= e
    BY <2>1
  <2> HIDE DEF Above, T
  <2>3. Cardinality(Above(e)) <= Cardinality(Above(x)) /\ Cardinality(Above(x)) < K
    BY <1>3, <1>5, <2>1, <2>2
  <2> QED BY <1>1, <1>4, <2>1, <2>3
<1>7. {f \in T : f > e} = T /\ T \subseteq Above(e)
  BY <1>2, <1>6
<1>8. ASSUME ~ (Cardinality(T) >= K) PROVE FALSE
  <2> DEFINE R == Above(e) \ T
  <2>1. Cardinality(Above(e)) > Cardinality(T)
    <3> HIDE DEF Above, T
    <3> QED BY <1>1, <1>2, <1>4, <1>8
  <2>2. R # {}
    <3>1. Above(e) # T
      <4> HIDE DEF Above, T
      <4> QED BY <1>1, <1>2, <2>1
    <3> HIDE DEF Above, T
    <3> QED BY <1>7, <3>1
  <2>3. R \in SUBSET Int /\ IsFiniteSet(R)
    <3>1. R \subseteq Above(e) /\ Above(e) \subseteq Int
      OBVIOUS
    <3> HIDE DEF Above, T
    <3> QED BY <1>1, <3>1, FS_Subset
  <2>4. PICK m \in R : \A y \in R : y <= m
    <3> HIDE DEF R
    <3> QED BY <2>2, <2>3, LargestExists
  <2>5. m \in S /\ m > e /\ m \notin T /\ m \in Int /\ e \in Int
    BY <2>4
  <2>6. ASSUME NEW f \in Above(m) PROVE f \in T
    <3>1. f \in S /\ f > m /\ f \in Int
      BY <2>5
    <3>2. f > e
      BY <2>5, <3>1
    <3>3. f \in Above(e)
      BY <3>1, <3>2
    <3>4. ~ (f <= m)
      BY <2>5, <3>1
    <3> QED BY <2>4, <3>3, <3>4
  <2>7. Cardinality(Above(m)) <= Cardinality(T)
    <3> HIDE DEF Above, T
    <3> QED BY <1>2, <2>6, FS_Subset
  <2>8. Cardinality(Above(m)) < K
    <3> HIDE DEF Above, T
    <3> QED BY <1>1, <1>2, <1>8, <2>5, <2>7
  <2> QED BY <1>3, <2>5, <2>8
<1> HIDE DEF T
<1>9. Cardinality({f \in T : f > e}) >= K
  BY <1>7, <1>8
<1> QED BY <1>9 DEF T

(* A pruned event is past its retention, or EventMax later ones stay.      *)
THEOREM EventsKept == TraceSpec => EventsKeptWhileWanted
<1> DEFINE Wanted == \A e \in DOMAIN events \ DOMAIN events' :
          \/ events[e] < at - Retention
          \/ Cardinality({f \in DOMAIN events' : f > e}) >= EventMax /\ EventMax > 0
<1>1. TraceInv /\ [TraceNext \/ EventNext]_traceVars => [Wanted]_events
  <2> SUFFICES ASSUME TraceInv, TraceNext \/ EventNext, ~ UNCHANGED events,
                      NEW e \in DOMAIN events \ DOMAIN events'
               PROVE  \/ events[e] < at - Retention
                      \/ Cardinality({f \in DOMAIN events' : f > e}) >= EventMax /\ EventMax > 0
    BY DEF traceVars
  <2>1. PruneTick \/ InsertEvents
    BY DEF TraceNext, EventNext, Store, TraceTick
  <2>2. ~ InsertEvents
    BY DEF InsertEvents
  <2> DEFINE P == PruneEvents
  <2>3. DOMAIN events' = PruneEventsByCount(P)
    BY <2>1, <2>2 DEF PruneTick, Restrict
  <2>4. P \subseteq DOMAIN events /\ DOMAIN events \subseteq 1..(nextEvent - 1) /\ nextEvent \in Nat
    BY DEF PruneEvents, TraceInv, TraceTypeOK
  <2>5. P \in SUBSET Int /\ IsFiniteSet(P)
    <3>1. IsFiniteSet(1..(nextEvent - 1))
      BY <2>4, FS_Interval
    <3> QED BY <2>4, <3>1, FS_Subset
  <2>6. CASE e \notin P
    <3>1. events[e] \in Nat /\ at \in Nat /\ ~ (events[e] >= at - Retention)
      BY <2>6 DEF PruneEvents, TraceInv
    <3> QED BY <3>1, TraceFacts
  <2>7. CASE e \in P
    <3>1. EventMax > 0 /\ ~ (Cardinality({f \in P : f > e}) < EventMax)
      BY <2>3, <2>7, TraceFacts DEF PruneEventsByCount
    <3>2. DOMAIN events' = {g \in P : Cardinality({h \in P : h > g}) < EventMax}
      BY <2>3, <3>1, TraceFacts DEF PruneEventsByCount
    <3> HIDE DEF P
    <3>3. Cardinality({f \in DOMAIN events' : f > e}) >= EventMax
      BY <2>5, <2>7, <3>1, <3>2, LargestKept, TraceFacts
    <3> QED BY <3>1, <3>3
  <2> QED BY <2>6, <2>7
<1> QED BY <1>1, TraceInvariant, PTL DEF TraceSpec, EventsKeptWhileWanted

---------------------------------------------------------------------------
(* Inventory and health reports *)

ReqRec    == [stage : {"idle", "miss", "wait", "done"}, now : Nat, read : Int, flag : BOOLEAN]
FlightRec == [by : Requests \cup {"none"}, now : Int, read : Int, flag : BOOLEAN]

\* A kept list was made from lookups that were fresh when it was made.
InventoryInv ==
    /\ list \in [at : Int, chassis : Int, lookups : Int] /\ list.at \in -1..tick
    /\ list.at # -1 => list.chassis = list.at /\ list.lookups \in 0..list.at /\ list.at - list.lookups < TTL
    /\ shown \in [chassis : Int, lookups : Int]

(* A flight is young and reads after it began, so who waits for it asked   *)
(* no longer than a flight after the read; a copy is dated before its read. *)
HealthInv ==
    /\ req \in [Requests -> ReqRec] /\ \A r \in Requests : req[r].now <= tick
    /\ flight \in FlightRec
    /\ flight.by = "none" => flight = NoFlight
    /\ flight.by # "none" => /\ flight.now \in 0..tick /\ tick <= flight.now + FlightTime
                             /\ flight.read # -1 => flight.read \in flight.now..tick
    /\ \A r \in Requests : req[r].stage = "miss" => req[r].now = tick
    /\ health \in [at : Int, read : Int, flag : BOOLEAN]
    /\ health.at # -1 => health.at \in 0..tick /\ health.at <= health.read

\* A counter above its baseline has gone up since.
CounterInv ==
    /\ linked \in BOOLEAN /\ rises \in BOOLEAN
    /\ prev # -1 /\ counter > prev => rises

ReportInv ==
    /\ ReportTypeOK /\ InventoryInv /\ HealthInv /\ CounterInv
    /\ InventoryAgeBounded /\ HealthAgeBounded

LEMMA ReportFacts ==
    /\ TTL \in Nat /\ TTL >= 1 /\ HealthTTL \in Nat /\ HealthTTL >= 1
    /\ FlightTime \in Nat /\ FlightTime >= 1 /\ MaxCount \in Nat /\ ReportTime \in Nat
    /\ "none" \notin Requests
BY ReportConstants

LEMMA ReportInitInv == ReportInit => ReportInv
<1> SUFFICES ASSUME ReportInit PROVE ReportInv
  OBVIOUS
<1> USE ReportFacts DEF ReportInit, NoList, NoHealth, NoFlight, NoReq
<1>1. ReportTypeOK
  BY DEF ReportTypeOK
<1>2. InventoryInv /\ InventoryAgeBounded
  BY DEF InventoryInv, InventoryAgeBounded
<1>3. HealthInv
  BY DEF HealthInv, ReqRec, FlightRec
<1>4. CounterInv /\ HealthAgeBounded
  BY DEF CounterInv, HealthAgeBounded
<1> QED BY <1>1, <1>2, <1>3, <1>4 DEF ReportInv

\* The inventory leaves the health copy alone, and the other way round.
LEMMA InventoryKeeps ==
    ASSUME ReportInv, UNCHANGED <<tick, healthVars>>, lookups' \in -1..tick,
           InventoryInv', InventoryAgeBounded'
    PROVE  ReportInv'
BY DEF ReportInv, ReportTypeOK, HealthInv, CounterInv, HealthAgeBounded, healthVars

LEMMA HealthKeeps ==
    ASSUME ReportInv, UNCHANGED <<tick, invVars>>,
           counter' \in 0..MaxCount, prev' \in -1..MaxCount, HealthInv', CounterInv', HealthAgeBounded',
           flight'.by = "none" => \A r \in Requests : req'[r].stage # "wait"
    PROVE  ReportInv'
<1>1. ReportTypeOK'
  BY DEF ReportInv, ReportTypeOK, HealthInv, ReqRec, FlightRec, invVars
<1>2. InventoryInv' /\ InventoryAgeBounded'
  BY DEF ReportInv, InventoryInv, InventoryAgeBounded, invVars
<1> QED BY <1>1, <1>2 DEF ReportInv

LEMMA LoadedFacts ==
    ASSUME ReportInv PROVE Loaded \in 0..tick /\ tick - Loaded < TTL
BY ReportFacts DEF ReportInv, ReportTypeOK, Loaded, Fresh

LEMMA ListInv == ASSUME ReportInv, List PROVE ReportInv'
<1>1. UNCHANGED <<tick, healthVars>> /\ shown' = [chassis |-> tick - list'.chassis, lookups |-> tick - list'.lookups]
  BY DEF List
<1>2. tick \in Nat /\ lookups \in -1..tick /\ list.at \in -1..tick
  BY ReportFacts DEF ReportInv, ReportTypeOK, InventoryInv
<1>3. CASE Fresh(list.at)
  <2>1. list' = list /\ lookups' = lookups /\ list.at # -1 /\ tick - list.at < TTL
    BY <1>3 DEF List, Fresh
  <2>2. list.chassis = list.at /\ list.lookups \in 0..list.at /\ list.at - list.lookups < TTL
    BY <2>1 DEF ReportInv, InventoryInv
  <2>3. InventoryInv'
    BY <1>1, <1>2, <2>1, <2>2 DEF ReportInv, InventoryInv
  <2>4. InventoryAgeBounded'
    BY <1>1, <1>2, <2>1, <2>2, ReportFacts DEF InventoryAgeBounded
  <2> QED BY <1>1, <1>2, <2>1, <2>3, <2>4, InventoryKeeps
<1>4. CASE ~ Fresh(list.at)
  <2>1. lookups' = Loaded /\ list' = [at |-> tick, chassis |-> tick, lookups |-> Loaded]
    BY <1>4 DEF List
  <2>2. InventoryInv'
    BY <1>1, <1>2, <2>1, LoadedFacts DEF InventoryInv
  <2>3. InventoryAgeBounded'
    BY <1>1, <1>2, <2>1, LoadedFacts, ReportFacts DEF InventoryAgeBounded
  <2> QED BY <1>1, <1>2, <2>1, <2>2, <2>3, LoadedFacts, InventoryKeeps
<1> QED BY <1>3, <1>4

LEMMA DetailInv == ASSUME ReportInv, Detail PROVE ReportInv'
<1>1. UNCHANGED <<tick, healthVars, list>> /\ lookups' = Loaded
      /\ shown' = [chassis |-> 0, lookups |-> tick - Loaded]
  BY DEF Detail
<1>2. tick \in Nat
  BY ReportFacts DEF ReportInv, ReportTypeOK
<1>3. InventoryInv'
  BY <1>1, <1>2, LoadedFacts DEF ReportInv, InventoryInv
<1>4. InventoryAgeBounded'
  BY <1>1, <1>2, LoadedFacts, ReportFacts DEF InventoryAgeBounded
<1> QED BY <1>1, <1>2, <1>3, <1>4, LoadedFacts, InventoryKeeps

\* The interface, its counter and its chassis.
LEMMA CounterStepInv ==
    ASSUME ReportInv, Count \/ ResetCounter \/ Connect PROVE ReportInv'
<1>1. UNCHANGED <<tick, invVars, prev, health, req, flight>>
  BY DEF Count, ResetCounter, Connect
<1>2. HealthInv' /\ HealthAgeBounded'
  BY <1>1 DEF ReportInv, HealthInv, HealthAgeBounded
<1>3. counter \in 0..MaxCount /\ prev \in -1..MaxCount
      /\ (flight'.by = "none" => \A r \in Requests : req'[r].stage # "wait")
  BY <1>1 DEF ReportInv, ReportTypeOK
<1>4. CASE Count
  <2>1. CounterInv'
    BY <1>1, <1>4 DEF Count, ReportInv, CounterInv
  <2> QED BY <1>1, <1>2, <1>3, <1>4, <2>1, HealthKeeps, ReportFacts DEF Count
<1>5. CASE ResetCounter
  <2>1. CounterInv'
    BY <1>1, <1>3, <1>5 DEF ResetCounter, ReportInv, CounterInv
  <2> QED BY <1>1, <1>2, <1>3, <1>5, <2>1, HealthKeeps, ReportFacts DEF ResetCounter
<1>6. CASE Connect
  <2>1. CounterInv'
    BY <1>1, <1>6 DEF Connect, ReportInv, CounterInv
  <2> QED BY <1>1, <1>2, <1>3, <1>6, <2>1, HealthKeeps, ReportFacts DEF Connect
<1> QED BY <1>4, <1>5, <1>6

LEMMA AggregateInv == ASSUME ReportInv, Aggregate PROVE ReportInv'
<1>1. /\ UNCHANGED <<tick, invVars, counter, linked, health, req>>
      /\ flight.by # "none" /\ flight.read = -1
      /\ flight' = [flight EXCEPT !.read = tick, !.flag = linked /\ prev # -1 /\ anyIncreased]
      /\ prev' = IF linked THEN counter ELSE -1
      /\ rises' = IF flight'.flag \/ linked THEN FALSE ELSE rises
  BY DEF Aggregate
<1>2. /\ flight \in FlightRec /\ flight.now \in 0..tick /\ tick <= flight.now + FlightTime
      /\ tick \in Nat /\ counter \in 0..MaxCount
  BY <1>1, ReportFacts DEF ReportInv, ReportTypeOK, HealthInv
<1>3. flight' \in FlightRec /\ flight'.by = flight.by /\ flight'.now = flight.now /\ flight'.read = tick
  <2> DEFINE f == linked /\ prev # -1 /\ anyIncreased
  <2>1. f \in BOOLEAN /\ flight' = [flight EXCEPT !.read = tick, !.flag = f]
    BY <1>1
  <2> HIDE DEF f
  <2>2. /\ DOMAIN flight = {"by", "now", "read", "flag"} /\ flight.by \in Requests \cup {"none"}
        /\ flight.now \in Int /\ tick \in Int
    BY <1>2 DEF FlightRec
  <2>3. flight' = [by |-> flight.by, now |-> flight.now, read |-> tick, flag |-> f]
    BY <1>2, <2>1 DEF FlightRec
  <2> QED BY <2>1, <2>2, <2>3 DEF FlightRec
<1>4. HealthInv'
  BY <1>1, <1>2, <1>3 DEF ReportInv, HealthInv
<1>5. CounterInv'
  <2>1. CASE linked
    BY <1>1, <1>2, <2>1 DEF ReportInv, CounterInv
  <2>2. CASE ~ linked
    BY <1>1, <2>2 DEF ReportInv, CounterInv
  <2> QED BY <2>1, <2>2
<1>6. HealthAgeBounded'
  BY <1>1 DEF ReportInv, HealthAgeBounded
<1>7. counter' \in 0..MaxCount /\ prev' \in -1..MaxCount
  BY <1>1, <1>2, ReportFacts
<1> QED BY <1>1, <1>3, <1>4, <1>5, <1>6, <1>7, HealthKeeps

LEMMA HealthStoreInv == ASSUME ReportInv, HealthStore PROVE ReportInv'
<1>1. /\ UNCHANGED <<tick, invVars, counter, prev, linked, rises>> /\ flight.read # -1
      /\ health' = [at |-> flight.now, read |-> flight.read, flag |-> flight.flag]
      /\ req' = [r \in Requests |-> IF req[r].stage = "wait"
                   THEN [req[r] EXCEPT !.stage = "done", !.read = flight.read, !.flag = flight.flag]
                   ELSE req[r]]
      /\ flight' = NoFlight
  BY DEF HealthStore, StoredAt
<1>2. /\ flight \in FlightRec /\ flight.now \in 0..tick /\ tick <= flight.now + FlightTime
      /\ tick \in Nat /\ flight.read \in flight.now..tick
  <2>1. NoFlight.read = -1
    BY DEF NoFlight
  <2>2. flight.by # "none"
    BY <1>1, <2>1 DEF ReportInv, HealthInv
  <2>3. flight \in FlightRec /\ flight.now \in 0..tick /\ tick <= flight.now + FlightTime
    BY <2>2 DEF ReportInv, HealthInv
  <2>4. flight.read \in flight.now..tick
    BY <1>1, <2>2 DEF ReportInv, HealthInv
  <2>5. tick \in Nat
    BY ReportFacts DEF ReportInv, ReportTypeOK
  <2> QED BY <2>3, <2>4, <2>5
<1>3. req \in [Requests -> ReqRec] /\ \A r \in Requests : req[r].now \in Nat /\ req[r].now <= tick
  BY DEF ReportInv, HealthInv, ReqRec
<1>4. ASSUME NEW r \in Requests
      PROVE  /\ req'[r] \in ReqRec /\ req'[r].now = req[r].now /\ req'[r].stage # "wait"
             /\ req'[r].stage = "miss" => req[r].stage = "miss"
             /\ req'[r].stage = "done" /\ req[r].stage # "wait" => req'[r] = req[r]
             /\ req[r].stage = "wait" => req'[r].read = flight.read
  <2>1. CASE req[r].stage = "wait"
    BY <1>1, <1>2, <1>3, <2>1 DEF ReqRec, FlightRec
  <2>2. CASE req[r].stage # "wait"
    BY <1>1, <1>3, <2>2
  <2> QED BY <2>1, <2>2
<1>5. req' \in [Requests -> ReqRec]
  BY <1>1, <1>4
<1>6. flight' \in FlightRec /\ flight'.by = "none"
  <2>1. NoFlight \in FlightRec /\ NoFlight.by = "none"
    BY DEF NoFlight, FlightRec
  <2> QED BY <1>1, <2>1
<1>7. health' \in [at : Int, read : Int, flag : BOOLEAN] /\ health'.at \in 0..tick /\ health'.at <= health'.read
  <2>1. flight.flag \in BOOLEAN /\ flight.now \in Int /\ flight.read \in Int
    BY <1>2 DEF FlightRec
  <2>2. health' \in [at : Int, read : Int, flag : BOOLEAN]
    BY <1>1, <2>1
  <2>3. health'.at = flight.now /\ health'.read = flight.read
    BY <1>1
  <2>4. flight.now \in 0..tick /\ flight.now <= flight.read
    BY <1>2, <2>1
  <2> QED BY <2>2, <2>3, <2>4
<1>8. HealthInv'
  BY <1>1, <1>3, <1>4, <1>5, <1>6, <1>7 DEF ReportInv, HealthInv
<1>9. HealthAgeBounded'
  <2> SUFFICES ASSUME NEW r \in Requests, req'[r].stage = "done"
               PROVE  \/ req'[r].now - req'[r].read < HealthTTL
                      \/ req'[r].now - req'[r].read <= FlightTime
    BY DEF HealthAgeBounded
  <2>1. CASE req[r].stage = "wait"
    BY <1>2, <1>3, <1>4, <2>1, ReportFacts
  <2>2. CASE req[r].stage # "wait"
    BY <1>4, <2>2 DEF ReportInv, HealthAgeBounded
  <2> QED BY <2>1, <2>2
<1>10. CounterInv'
  BY <1>1 DEF ReportInv, CounterInv
<1>11. counter' \in 0..MaxCount /\ prev' \in -1..MaxCount
  BY <1>1 DEF ReportInv, ReportTypeOK
<1> QED BY <1>1, <1>4, <1>8, <1>9, <1>10, <1>11, HealthKeeps

\* The steps of one request.
LEMMA RequestInv ==
    ASSUME ReportInv, NEW r \in Requests, HealthGet(r) \/ HealthFly(r) \/ HealthReturn(r)
    PROVE  ReportInv'
<1>1. UNCHANGED <<tick, invVars, counter, prev, linked, rises, health>>
  BY DEF HealthGet, HealthFly, HealthReturn
<1>2. /\ tick \in Nat /\ req \in [Requests -> ReqRec] /\ flight \in FlightRec
      /\ \A q \in Requests : req[q].now \in Nat /\ req[q].now <= tick
      /\ \A q \in Requests : req[q].stage = "miss" => req[q].now = tick
  BY ReportFacts DEF ReportInv, ReportTypeOK, HealthInv, ReqRec
<1>3. CounterInv' /\ counter' \in 0..MaxCount /\ prev' \in -1..MaxCount
  BY <1>1 DEF ReportInv, CounterInv, ReportTypeOK
<1>4. CASE HealthGet(r)
  <2> DEFINE new == req'[r]
  <2>1. /\ flight' = flight /\ \A q \in Requests : q # r => req'[q] = req[q]
        /\ req' \in [Requests -> ReqRec]
        /\ new.now = tick /\ new.stage \in {"done", "miss"}
        /\ new.stage = "done" => health.at # -1 /\ tick - health.at < HealthTTL /\ new.read = health.read
    <3>1. CASE health.at # -1 /\ tick - health.at < HealthTTL
      <4>1. req' = [req EXCEPT ![r] = [stage |-> "done", now |-> tick, read |-> health.read, flag |-> health.flag]]
        BY <1>4, <3>1 DEF HealthGet
      <4>2. health.read \in Int /\ health.flag \in BOOLEAN
        BY DEF ReportInv, HealthInv
      <4> QED BY <1>2, <1>4, <3>1, <4>1, <4>2 DEF HealthGet, ReqRec
    <3>2. CASE ~ (health.at # -1 /\ tick - health.at < HealthTTL)
      <4>1. req' = [req EXCEPT ![r] = [stage |-> "miss", now |-> tick, read |-> 0, flag |-> FALSE]]
        BY <1>4, <3>2 DEF HealthGet
      <4> QED BY <1>2, <1>4, <4>1 DEF HealthGet, ReqRec
    <3> QED BY <3>1, <3>2
  <2>2. HealthInv'
    BY <1>1, <1>2, <2>1 DEF ReportInv, HealthInv
  <2>3. HealthAgeBounded'
    <3> SUFFICES ASSUME NEW q \in Requests, req'[q].stage = "done"
                 PROVE  \/ req'[q].now - req'[q].read < HealthTTL
                        \/ req'[q].now - req'[q].read <= FlightTime
      BY DEF HealthAgeBounded
    <3>1. CASE q = r
      <4>1. health.at \in 0..tick /\ health.at <= health.read /\ health.read \in Int
        BY <2>1, <3>1 DEF ReportInv, HealthInv
      <4> QED BY <1>2, <2>1, <3>1, <4>1, ReportFacts
    <3>2. CASE q # r
      BY <2>1, <3>2 DEF ReportInv, HealthAgeBounded
    <3> QED BY <3>1, <3>2
  <2>4. flight'.by = "none" => \A q \in Requests : req'[q].stage # "wait"
    BY <2>1 DEF ReportInv, ReportTypeOK
  <2> QED BY <1>1, <1>3, <2>2, <2>3, <2>4, HealthKeeps
<1>5. CASE HealthFly(r)
  <2>1. req[r].stage = "miss" /\ req' = [req EXCEPT ![r].stage = "wait"] /\ req[r].now = tick
    BY <1>2, <1>5 DEF HealthFly
  <2>2. /\ req' \in [Requests -> ReqRec]
        /\ \A q \in Requests : q # r => req'[q] = req[q]
        /\ req'[r].now = tick /\ req'[r].stage = "wait"
    BY <1>2, <2>1 DEF ReqRec
  <2>3. /\ flight' \in FlightRec /\ flight'.by # "none"
        /\ flight'.now \in 0..tick /\ tick <= flight'.now + FlightTime
        /\ flight'.read # -1 => flight'.read \in flight'.now..tick
    <3>1. CASE flight.by = "none"
      <4>1. flight' = [by |-> r, now |-> tick, read |-> -1, flag |-> FALSE]
        BY <1>5, <2>1, <3>1 DEF HealthFly
      <4> QED BY <1>2, <4>1, ReportFacts DEF FlightRec
    <3>2. CASE flight.by # "none"
      BY <1>5, <3>2 DEF HealthFly, ReportInv, HealthInv
    <3> QED BY <3>1, <3>2
  <2>4. HealthInv'
    BY <1>1, <1>2, <2>2, <2>3 DEF ReportInv, HealthInv
  <2>5. HealthAgeBounded'
    BY <2>2 DEF ReportInv, HealthAgeBounded
  <2> QED BY <1>1, <1>3, <2>3, <2>4, <2>5, HealthKeeps
<1>6. CASE HealthReturn(r)
  <2>1. req' = [req EXCEPT ![r] = NoReq] /\ flight' = flight
    BY <1>6 DEF HealthReturn
  <2>2. /\ req' \in [Requests -> ReqRec]
        /\ \A q \in Requests : q # r => req'[q] = req[q]
        /\ req'[r].now = 0 /\ req'[r].stage = "idle"
    BY <1>2, <2>1 DEF ReqRec, NoReq
  <2>3. HealthInv'
    BY <1>1, <1>2, <2>1, <2>2 DEF ReportInv, HealthInv
  <2>4. HealthAgeBounded'
    BY <2>2 DEF ReportInv, HealthAgeBounded
  <2>5. flight'.by = "none" => \A q \in Requests : req'[q].stage # "wait"
    BY <2>1, <2>2 DEF ReportInv, ReportTypeOK
  <2> QED BY <1>1, <1>3, <2>3, <2>4, <2>5, HealthKeeps
<1> QED BY <1>4, <1>5, <1>6

LEMMA ReportTickInv == ASSUME ReportInv, ReportTick PROVE ReportInv'
<1>1. /\ UNCHANGED <<invVars, healthVars>> /\ tick < ReportTime /\ tick' = tick + 1
      /\ flight.by # "none" => tick < flight.now + FlightTime
      /\ \A r \in Requests : req[r].stage # "miss"
  BY DEF ReportTick
<1>2. tick \in Nat
  BY ReportFacts DEF ReportInv, ReportTypeOK
<1>3. ReportTypeOK'
  BY <1>1, <1>2, ReportFacts DEF ReportInv, ReportTypeOK, invVars, healthVars
<1>4. InventoryInv' /\ InventoryAgeBounded'
  BY <1>1, <1>2 DEF ReportInv, InventoryInv, InventoryAgeBounded, invVars
<1>5. HealthInv'
  <2>1. \A r \in Requests : req[r].now \in Nat
    BY DEF ReportInv, HealthInv, ReqRec
  <2>2. flight.now \in Int /\ FlightTime \in Nat
    BY ReportFacts DEF ReportInv, HealthInv, FlightRec
  <2> QED BY <1>1, <1>2, <2>1, <2>2 DEF ReportInv, HealthInv, healthVars
<1>6. CounterInv' /\ HealthAgeBounded'
  BY <1>1 DEF ReportInv, CounterInv, HealthAgeBounded, healthVars
<1> QED BY <1>3, <1>4, <1>5, <1>6 DEF ReportInv

THEOREM ReportInvariant == ReportSpec => []ReportInv
<1>1. ReportInv /\ [InventoryNext \/ HealthNext]_reportVars => ReportInv'
  <2> SUFFICES ASSUME ReportInv, [InventoryNext \/ HealthNext]_reportVars PROVE ReportInv'
    OBVIOUS
  <2>1. CASE List \/ Detail \/ ReportTick
    BY <2>1, ListInv, DetailInv, ReportTickInv
  <2>2. CASE Count \/ ResetCounter \/ Connect \/ Aggregate \/ HealthStore
    BY <2>2, CounterStepInv, AggregateInv, HealthStoreInv
  <2>3. CASE \E r \in Requests : HealthGet(r) \/ HealthFly(r) \/ HealthReturn(r)
    BY <2>3, RequestInv
  <2>4. CASE UNCHANGED reportVars
    BY <2>4 DEF reportVars, invVars, healthVars, ReportInv, ReportTypeOK, InventoryInv, HealthInv,
                CounterInv, InventoryAgeBounded, HealthAgeBounded
  <2> QED BY <2>1, <2>2, <2>3, <2>4 DEF InventoryNext, HealthNext
<1> QED BY ReportInitInv, <1>1, PTL DEF ReportSpec

THEOREM ErrorsAreReal == ReportSpec => NoFalseError
<1>1. ASSUME ReportInv, [InventoryNext \/ HealthNext]_reportVars, flight'.flag, ~ flight.flag
      PROVE  rises
  <2>1. CASE Aggregate
    <3>1. flight'.flag = (linked /\ prev # -1 /\ counter > prev)
      BY <2>1 DEF Aggregate, anyIncreased, ReportInv, HealthInv, FlightRec
    <3> QED BY <1>1, <3>1 DEF ReportInv, CounterInv
  <2>2. CASE ~ Aggregate
    <3>1. CASE HealthStore
      BY <1>1, <3>1 DEF HealthStore, NoFlight
    <3>2. CASE \E r \in Requests : HealthFly(r)
      BY <1>1, <3>2 DEF HealthFly
    <3>3. CASE flight' = flight
      BY <1>1, <3>3
    <3>4. HealthStore \/ (\E r \in Requests : HealthFly(r)) \/ flight' = flight
      BY <1>1, <2>2 DEF InventoryNext, HealthNext, List, Detail, ReportTick, Count, ResetCounter, Connect,
           HealthGet, HealthReturn, reportVars, healthVars
    <3> QED BY <3>1, <3>2, <3>3, <3>4
  <2> QED BY <2>1, <2>2
<1> QED BY <1>1, ReportInvariant, PTL DEF ReportSpec, NoFalseError

---------------------------------------------------------------------------
(* The stores together *)

(* Every bounded store keeps its bounds and answers what it promises.      *)
THEOREM StoresInvariant ==
    Spec /\ RingSpec /\ CacheSpec /\ TraceSpec /\ ReportSpec => []StoresHold
<1>1. LimiterInv => TypeOK /\ SpanBound /\ RefusedOnlyWhenBusy
  BY DEF LimiterInv
<1>2. CacheInv => CacheTypeOK /\ InfoAgeBounded
  BY DEF CacheInv
<1>3. TraceInv => TraceTypeOK
  BY DEF TraceInv
<1>4. ReportInv => ReportTypeOK /\ InventoryAgeBounded /\ HealthAgeBounded
  BY DEF ReportInv
<1>5. LimiterInv /\ RingTypeOK /\ QueryIsExact /\ CacheInv /\ TraceInv /\ ReportInv => StoresHold
  BY <1>1, <1>2, <1>3, <1>4 DEF StoresHold
<1> QED BY <1>5, LimiterInvariant, RingInvariant, CacheInvariant, TraceInvariant, ReportInvariant, PTL

(* No step of a store loses what the store promises to keep, and the ring  *)
(* implements the abstract queue.                                          *)
THEOREM StoresStepsHold ==
    RingSpec /\ CacheSpec /\ TraceSpec /\ ReportSpec => StoresSteps
BY RingImplementsQueue, FreshSurvives, OldestGoes, EventsKept, ErrorsAreReal, PTL DEF StoresSteps

---------------------------------------------------------------------------
(* The gateway failover *)

Partial(R) == UNION {[S -> R] : S \in SUBSET HARows}

PlanSet == [stage  : {"free", "built", "stored"},
            kind   : {"swap", "bump", "drain", "restore", "none"},
            on     : HAChassis \cup {"none"}, name : Names \cup {"none"},
            ops    : Partial(OpRec), before : Partial(PrioRow), seen : Partial(PrioRow)]

PlansTyped == plan \in [Plans -> PlanSet]

HATypeInv ==
    /\ nb \in [HARows -> PrioRow] /\ cache \in [HARows -> PrioRow]
    /\ PlansTyped
    /\ writes \in 0..MaxWrites /\ requests \in 0..MaxRequests /\ pure \subseteq HARows

\* The two values of a row that was drained and restored only.
Kept(r)    == [prio |-> InitPrio[r], mark |-> NoMark]
Drained(r) == [prio |-> 0, mark |-> InitPrio[r]]
Two(r)     == {Kept(r), Drained(r)}

(* What Evacuate, Restore, a swap and a bump do, by what was read.         *)
IsDrain(ops, view, c) ==
    /\ DOMAIN ops = {s \in HARows : Host[s] = c /\ view[s].prio # 0}
    /\ \A r \in DOMAIN ops : ops[r] = [prio |-> 0, mark |-> view[r].prio, ids |-> TRUE]

IsRestore(ops, view, c) ==
    /\ DOMAIN ops = {s \in HARows : Host[s] = c /\ view[s].prio = 0}
    /\ \A r \in DOMAIN ops :
         ops[r] = [prio |-> IF view[r].mark > 0 THEN view[r].mark ELSE 1,
                   mark |-> NoMark, ids |-> TRUE]

\* Row a had the largest priority of group g.
Led(a, g, view) == a \in MembersOf(g) /\ \A s \in MembersOf(g) : view[s].prio <= view[a].prio

IsSwap(ops, view, g, a, t) ==
    /\ Led(a, g, view) /\ t \in MembersOf(g) /\ t # a
    /\ DOMAIN ops = {a, t}
    /\ ops[t] = PrioOnly(view[a].prio) /\ ops[a] = PrioOnly(view[t].prio)

IsBump(ops, view, g, t) ==
    /\ Led(t, g, view) /\ DOMAIN ops = {t}
    /\ ops[t] = PrioOnly(IF view[t].prio + 1 > MaxPrio THEN view[t].prio - 1
                         ELSE view[t].prio + 1)

\* The group is one the request may mean, and the target is on the chassis.
Means(p, g, t) ==
    /\ plan[p].name \in Names
    /\ g \in ResolveGroup(plan[p].name, plan[p].on) /\ Host[t] = plan[p].on

(* Every plan on its way has the operations of its kind.                   *)
PlanInv(p) ==
    \/ plan[p] = NoPlan
    \/ /\ plan[p].stage # "free"
       /\ plan[p].seen \in [HARows -> PrioRow]
       /\ \/ /\ plan[p].kind = "drain" /\ plan[p].name = "none"
             /\ IsDrain(plan[p].ops, plan[p].seen, plan[p].on)
          \/ /\ plan[p].kind = "restore" /\ plan[p].name = "none"
             /\ IsRestore(plan[p].ops, plan[p].seen, plan[p].on)
          \/ /\ plan[p].kind = "swap"
             /\ \E g \in HAGroups, a, t \in HARows :
                  Means(p, g, t) /\ IsSwap(plan[p].ops, plan[p].seen, g, a, t)
          \/ /\ plan[p].kind = "bump"
             /\ \E g \in HAGroups, t \in HARows :
                  Means(p, g, t) /\ IsBump(plan[p].ops, plan[p].seen, g, t)

(* A row only drained and restored holds one of its two values, in every   *)
(* copy of it that a later request or commit may write back.               *)
DrainInv ==
    \A r \in pure :
      /\ nb[r] \in Two(r) /\ cache[r] \in Two(r)
      /\ \A p \in Plans : r \in DOMAIN plan[p].seen => plan[p].seen[r] \in Two(r)

HAInv == HATypeInv /\ (\A p \in Plans : PlanInv(p)) /\ DrainInv

---------------------------------------------------------------------------
(* Constants, rows and partial functions *)

LEMMA Deployment ==
    /\ MaxPrio \in Nat /\ MaxWrites \in Nat /\ MaxRequests \in Nat
    /\ \A r \in HARows : /\ InitPrio[r] \in 1..MaxPrio /\ MaxPrio >= 1
                         /\ Host[r] \in HAChassis /\ Group[r] \in HAGroups
    /\ IsFiniteSet(HAGroups) /\ "none" \notin Names
BY HAConstants DEF HAConstants

LEMMA PartialIn ==
    ASSUME NEW R, NEW S \in SUBSET HARows, NEW f \in [S -> R]
    PROVE  f \in Partial(R)
BY DEF Partial

LEMMA PartialOut ==
    ASSUME NEW R, NEW f \in Partial(R)
    PROVE  /\ DOMAIN f \subseteq HARows
           /\ \A r \in DOMAIN f : f[r] \in R
BY DEF Partial

LEMMA Nothing ==
    ASSUME NEW R
    PROVE  <<>> \in Partial(R) /\ DOMAIN <<>> = {}
<1>1. DOMAIN <<>> = {}
  OBVIOUS
<1>2. <<>> = [r \in {} |-> 0]
  BY <1>1
<1>3. <<>> \in [{} -> R]
  BY <1>2
<1> QED BY <1>1, <1>3, PartialIn

LEMMA NoPlanSet ==
    /\ NoPlan \in PlanSet /\ NoPlan.stage = "free" /\ NoPlan.kind = "none"
    /\ NoPlan.name = "none" /\ NoPlan.on = "none"
    /\ DOMAIN NoPlan.ops = {} /\ DOMAIN NoPlan.seen = {} /\ DOMAIN NoPlan.before = {}
<1>1. <<>> \in Partial(OpRec) /\ <<>> \in Partial(PrioRow) /\ DOMAIN <<>> = {}
  BY Nothing
<1> QED BY <1>1 DEF NoPlan, PlanSet

LEMMA PlanFields ==
    ASSUME NEW x \in PlanSet
    PROVE  /\ x.stage \in {"free", "built", "stored"}
           /\ x.kind \in {"swap", "bump", "drain", "restore", "none"}
           /\ x.on \in HAChassis \cup {"none"} /\ x.name \in Names \cup {"none"}
           /\ x.ops \in Partial(OpRec) /\ x.before \in Partial(PrioRow)
           /\ x.seen \in Partial(PrioRow)
BY DEF PlanSet

LEMMA RowFields ==
    ASSUME NEW x \in PrioRow
    PROVE  /\ x.prio \in 0..MaxPrio /\ x.prio \in Int
           /\ x.mark \in {NoMark} \cup 0..MaxPrio /\ x.mark \in Int
           /\ x = [prio |-> x.prio, mark |-> x.mark]
BY Deployment DEF PrioRow, NoMark

LEMMA OpFields ==
    ASSUME NEW o \in OpRec
    PROVE  /\ o.prio \in 0..MaxPrio /\ o.mark \in {NoMark} \cup 0..MaxPrio
           /\ o.ids \in BOOLEAN
BY DEF OpRec

LEMMA PrioOnlyOp ==
    ASSUME NEW n \in 0..MaxPrio
    PROVE  /\ PrioOnly(n) \in OpRec /\ PrioOnly(n).prio = n /\ ~ PrioOnly(n).ids
BY DEF PrioOnly, OpRec

\* A commit writes rows of the right type.
LEMMA WrittenRow ==
    ASSUME NEW x \in PrioRow, NEW o \in OpRec
    PROVE  /\ Written(x, o) \in PrioRow /\ Written(x, o).prio = o.prio
           /\ o.ids => Written(x, o).mark = o.mark
BY RowFields, OpFields DEF Written, PrioRow

\* The invariant says more than the type invariant of the run.
LEMMA TypeImplied == HATypeInv => HATypeOK
<1> SUFFICES ASSUME HATypeInv PROVE HATypeOK
  OBVIOUS
<1>1. ASSUME NEW p \in Plans PROVE IsPlan(plan[p])
  <2>1. plan[p] \in PlanSet
    BY DEF HATypeInv, PlansTyped
  <2> QED BY <2>1, PlanFields, PartialOut DEF IsPlan
<1> QED BY <1>1 DEF HATypeOK, HATypeInv

---------------------------------------------------------------------------
(* The two values of a row that was only drained and restored *)

LEMMA TwoValues ==
    ASSUME NEW r \in HARows, NEW x \in Two(r)
    PROVE  /\ x \in PrioRow
           /\ x.prio # 0 => x.prio = InitPrio[r]
           /\ x.prio = 0 => x.mark = InitPrio[r]
           /\ InitPrio[r] # 0 /\ InitPrio[r] > 0
BY Deployment DEF Two, Kept, Drained, PrioRow, NoMark

\* Draining or restoring a row that was read in one of them gives the other.
LEMMA DrainKeepsTwo ==
    ASSUME NEW r \in HARows, NEW x \in Two(r), NEW y, NEW o,
           \/ x.prio # 0 /\ o = [prio |-> 0, mark |-> x.prio, ids |-> TRUE]
           \/ x.prio = 0 /\ o = [prio |-> IF x.mark > 0 THEN x.mark ELSE 1,
                                 mark |-> NoMark, ids |-> TRUE]
    PROVE  Written(y, o) \in Two(r)
<1>1. CASE x.prio # 0 /\ o = [prio |-> 0, mark |-> x.prio, ids |-> TRUE]
  <2>1. Written(y, o) = [prio |-> 0, mark |-> InitPrio[r]]
    BY <1>1, TwoValues DEF Written
  <2> QED BY <2>1 DEF Two, Drained
<1>2. CASE x.prio = 0 /\ o = [prio |-> IF x.mark > 0 THEN x.mark ELSE 1,
                              mark |-> NoMark, ids |-> TRUE]
  <2>1. x.mark = InitPrio[r] /\ x.mark > 0
    BY <1>2, TwoValues
  <2>2. Written(y, o) = [prio |-> InitPrio[r], mark |-> NoMark]
    BY <1>2, <2>1 DEF Written
  <2> QED BY <2>2 DEF Two, Kept
<1> QED BY <1>1, <1>2

---------------------------------------------------------------------------
(* Initial states *)

LEMMA HAInitInv == HAInit => HAInv
<1> SUFFICES ASSUME HAInit PROVE HAInv
  OBVIOUS
<1>1. PICK drained \in DrainedBefore :
        nb = [r \in HARows |-> IF Host[r] \in drained
                               THEN [prio |-> 0, mark |-> InitPrio[r]]
                               ELSE [prio |-> InitPrio[r], mark |-> NoMark]]
  BY DEF HAInit
<1>2. \A r \in HARows : nb[r] \in Two(r)
  BY <1>1 DEF Two, Kept, Drained
<1>3. \A r \in HARows : nb[r] \in PrioRow
  BY <1>2, TwoValues
<1>4. nb \in [HARows -> PrioRow] /\ cache = nb
  BY <1>1, <1>3 DEF HAInit
<1>5. \A p \in Plans : plan[p] = NoPlan
  BY DEF HAInit
<1>6. PlansTyped
  BY NoPlanSet DEF HAInit, PlansTyped
<1>7. HATypeInv
  <2>1. writes \in 0..MaxWrites /\ requests \in 0..MaxRequests /\ pure \subseteq HARows
    BY Deployment DEF HAInit
  <2>2. cache \in [HARows -> PrioRow]
    BY <1>4
  <2> QED BY <1>4, <1>6, <2>1, <2>2, Zenon DEF HATypeInv
<1>8. DrainInv
  <2>1. \A p \in Plans : DOMAIN plan[p].seen = {}
    BY <1>5, NoPlanSet
  <2>2. pure = HARows
    BY DEF HAInit
  <2> QED BY <2>1, <2>2, <1>2, <1>4 DEF DrainInv
<1> QED BY <1>5, <1>7, <1>8 DEF HAInv, PlanInv

---------------------------------------------------------------------------
(* Building a plan *)

\* The plan a request builds.
NewPlan(kind, c, name, ops) ==
    [stage |-> "built", kind |-> kind, on |-> c, name |-> name,
     ops |-> ops, before |-> <<>>, seen |-> cache]

LEMMA FreshFields ==
    ASSUME HATypeInv, NEW kind \in {"swap", "bump", "drain", "restore"}, NEW c \in HAChassis,
           NEW name \in Names \cup {"none"}, NEW ops \in Partial(OpRec),
           NEW x, x = NewPlan(kind, c, name, ops)
    PROVE  /\ x \in PlanSet /\ x.stage = "built" /\ x.kind = kind /\ x.on = c
           /\ x.name = name /\ x.ops = ops /\ x.seen = cache
           /\ cache \in [HARows -> PrioRow]
<1>1. cache \in [HARows -> PrioRow]
  BY DEF HATypeInv
<1>2. cache \in Partial(PrioRow)
  BY <1>1, PartialIn
<1>3. <<>> \in Partial(PrioRow)
  BY Nothing
<1> QED BY <1>1, <1>2, <1>3 DEF NewPlan, PlanSet

\* The other plans are left alone.
LEMMA BuiltInv ==
    ASSUME HAInv, NEW p \in Plans, NEW kind \in {"swap", "bump", "drain", "restore"},
           NEW c \in HAChassis, NEW name \in Names \cup {"none"}, NEW ops \in Partial(OpRec),
           Built(p, kind, c, name, ops), PlanInv(p)'
    PROVE  HAInv'
<1>1. plan' = [plan EXCEPT ![p] = NewPlan(kind, c, name, ops)]
  BY DEF Built, NewPlan
<1>2. UNCHANGED <<nb, cache, writes, pure>> /\ requests' = requests + 1 /\ requests < MaxRequests
  BY DEF Built, Asks
<1>3. HATypeInv /\ PlansTyped
  BY DEF HAInv, HATypeInv
<1>4. PICK x : x = NewPlan(kind, c, name, ops)
  OBVIOUS
<1>5. x \in PlanSet /\ x.seen = cache /\ cache \in [HARows -> PrioRow]
  BY <1>3, <1>4, FreshFields
<1>6. plan' \in [Plans -> PlanSet] /\ plan'[p] = x /\ \A q \in Plans \ {p} : plan'[q] = plan[q]
  BY <1>1, <1>3, <1>4, <1>5 DEF PlansTyped
<1>7. HATypeInv'
  BY <1>2, <1>3, <1>6, Deployment DEF HATypeInv, PlansTyped
<1>8. ASSUME NEW q \in Plans PROVE PlanInv(q)'
  <2>1. CASE q = p
    BY <2>1
  <2>2. CASE q # p
    <3>1. plan'[q] = plan[q] /\ PlanInv(q)
      BY <2>2, <1>6 DEF HAInv
    <3> QED BY <3>1 DEF PlanInv, Means
  <2> QED BY <2>1, <2>2
<1>9. DrainInv'
  <2>1. ASSUME NEW r \in pure, NEW q \in Plans, r \in DOMAIN plan'[q].seen
        PROVE  plan'[q].seen[r] \in Two(r)
    BY <2>1, <1>5, <1>6 DEF HAInv, DrainInv
  <2> QED BY <2>1, <1>2 DEF HAInv, DrainInv, Two, Kept, Drained
<1> QED BY <1>7, <1>8, <1>9 DEF HAInv

LEMMA EvacuateInv ==
    ASSUME HAInv, NEW p \in Plans, NEW c \in HAChassis, Evacuate(p, c)
    PROVE  HAInv'
<1>1. Built(p, "drain", c, "none", DrainOps(c))
  BY DEF Evacuate
<1>2. HATypeInv /\ cache \in [HARows -> PrioRow]
  BY DEF HAInv, HATypeInv
<1>3. PICK ops : ops = DrainOps(c)
  OBVIOUS
<1>4. IsDrain(ops, cache, c)
  BY <1>3 DEF IsDrain, DrainOps
<1>5. ops \in Partial(OpRec)
  <2>1. ASSUME NEW r \in DOMAIN ops PROVE r \in HARows /\ ops[r] \in OpRec
    <3>1. r \in HARows /\ cache[r] \in PrioRow
      BY <1>2, <1>4 DEF IsDrain
    <3>2. cache[r].prio \in 0..MaxPrio /\ 0 \in 0..MaxPrio
      BY <3>1, RowFields, Deployment
    <3>3. ops[r] = [prio |-> 0, mark |-> cache[r].prio, ids |-> TRUE]
      BY <1>4 DEF IsDrain
    <3> QED BY <3>1, <3>2, <3>3 DEF OpRec
  <2>2. ops \in [DOMAIN ops -> OpRec]
    BY <1>3, <2>1 DEF DrainOps
  <2> QED BY <2>1, <2>2, PartialIn
<1>6. plan'[p] = NewPlan("drain", c, "none", ops)
  BY <1>1, <1>3 DEF Built, NewPlan, HAInv, HATypeInv, PlansTyped
<1>7. PlanInv(p)'
  <2>1. PICK x : x = plan'[p]
    OBVIOUS
  <2>2. /\ x.stage = "built" /\ x.kind = "drain" /\ x.on = c
        /\ x.name = "none" /\ x.ops = ops /\ x.seen = cache
    BY <2>1, <1>2, <1>5, <1>6, FreshFields
  <2> QED BY <2>1, <2>2, <1>2, <1>4 DEF PlanInv
<1> QED BY <1>1, <1>3, <1>5, <1>7, BuiltInv

LEMMA RestoreInv ==
    ASSUME HAInv, NEW p \in Plans, NEW c \in HAChassis, Restore(p, c)
    PROVE  HAInv'
<1>1. Built(p, "restore", c, "none", RestoreOps(c))
  BY DEF Restore
<1>2. HATypeInv /\ cache \in [HARows -> PrioRow]
  BY DEF HAInv, HATypeInv
<1>3. PICK ops : ops = RestoreOps(c)
  OBVIOUS
<1>4. IsRestore(ops, cache, c)
  BY <1>3 DEF IsRestore, RestoreOps
<1>5. ops \in Partial(OpRec)
  <2>1. ASSUME NEW r \in DOMAIN ops PROVE r \in HARows /\ ops[r] \in OpRec
    <3>1. r \in HARows /\ cache[r] \in PrioRow
      BY <1>2, <1>4 DEF IsRestore
    <3>2. PICK n : n = IF cache[r].mark > 0 THEN cache[r].mark ELSE 1
      OBVIOUS
    <3>3. n \in 0..MaxPrio
      BY <3>1, <3>2, RowFields, Deployment DEF NoMark
    <3>4. ops[r] = [prio |-> n, mark |-> NoMark, ids |-> TRUE]
      BY <1>4, <3>2 DEF IsRestore
    <3> QED BY <3>1, <3>3, <3>4 DEF OpRec
  <2>2. ops \in [DOMAIN ops -> OpRec]
    BY <1>3, <2>1 DEF RestoreOps
  <2> QED BY <2>1, <2>2, PartialIn
<1>6. plan'[p] = NewPlan("restore", c, "none", ops)
  BY <1>1, <1>3 DEF Built, NewPlan, HAInv, HATypeInv, PlansTyped
<1>7. PlanInv(p)'
  <2>1. PICK x : x = plan'[p]
    OBVIOUS
  <2>2. /\ x.stage = "built" /\ x.kind = "restore" /\ x.on = c
        /\ x.name = "none" /\ x.ops = ops /\ x.seen = cache
    BY <2>1, <1>2, <1>5, <1>6, FreshFields
  <2> QED BY <2>1, <2>2, <1>2, <1>4 DEF PlanInv
<1> QED BY <1>1, <1>3, <1>5, <1>7, BuiltInv

\* Every group a request may mean is one of the deployment.
LEMMA ResolvesToGroup ==
    ASSUME NEW n, NEW c, NEW g \in ResolveGroup(n, c)
    PROVE  g \in HAGroups
BY DEF ResolveGroup, DisambiguateViaSB

LEMMA FailoverInv ==
    ASSUME HAInv, NEW p \in Plans, NEW n \in Names, NEW c \in HAChassis, Failover(p, n, c)
    PROVE  HAInv'
<1>1. HATypeInv /\ cache \in [HARows -> PrioRow]
  BY DEF HAInv, HATypeInv
<1>2. PICK g \in ResolveGroup(n, c) :
        \E a \in Leaders(g), t \in {r \in MembersOf(g) : Host[r] = c} :
          IF t = a THEN Built(p, "bump", c, n, BumpOp(t))
          ELSE Built(p, "swap", c, n, SwapOps(a, t))
  BY DEF Failover
<1>3. PICK a \in Leaders(g), t \in {r \in MembersOf(g) : Host[r] = c} :
        IF t = a THEN Built(p, "bump", c, n, BumpOp(t))
        ELSE Built(p, "swap", c, n, SwapOps(a, t))
  BY <1>2
<1>4. /\ g \in HAGroups /\ a \in HARows /\ t \in HARows /\ Host[t] = c
      /\ t \in MembersOf(g) /\ Led(a, g, cache)
  BY <1>2, <1>3, ResolvesToGroup DEF Leaders, MembersOf, Led
<1>5. cache[a].prio \in 0..MaxPrio /\ cache[t].prio \in 0..MaxPrio /\ MaxPrio \in Nat /\ MaxPrio >= 1
  BY <1>1, <1>4, RowFields, Deployment
<1>6. CASE t = a
  <2>1. Built(p, "bump", c, n, BumpOp(t))
    BY <1>3, <1>6
  <2>2. PICK m : m = IF cache[t].prio + 1 > MaxPrio THEN cache[t].prio - 1 ELSE cache[t].prio + 1
    OBVIOUS
  <2>3. m \in 0..MaxPrio
    BY <1>5, <2>2
  <2>4. PICK ops : ops = BumpOp(t)
    OBVIOUS
  <2>5. ops = [r \in {t} |-> PrioOnly(m)]
    BY <2>2, <2>4 DEF BumpOp
  <2>6. ops \in Partial(OpRec)
    BY <2>3, <2>5, <1>4, PrioOnlyOp, PartialIn
  <2>7. IsBump(ops, cache, g, t)
    BY <2>2, <2>5, <1>4, <1>6 DEF IsBump
  <2>8. plan'[p] = NewPlan("bump", c, n, ops)
    BY <2>1, <2>4 DEF Built, NewPlan, HAInv, HATypeInv, PlansTyped
  <2>9. PlanInv(p)'
    <3>1. PICK x : x = plan'[p]
      OBVIOUS
    <3>2. /\ x.stage = "built" /\ x.kind = "bump" /\ x.on = c
          /\ x.name = n /\ x.ops = ops /\ x.seen = cache
      BY <3>1, <1>1, <2>6, <2>8, FreshFields
    <3>3. Means(p, g, t)'
      BY <3>1, <3>2, <1>2, <1>4 DEF Means
    <3> QED BY <3>1, <3>2, <3>3, <2>7, <1>1, <1>4 DEF PlanInv
  <2> QED BY <2>1, <2>4, <2>6, <2>9, BuiltInv
<1>7. CASE t # a
  <2>1. Built(p, "swap", c, n, SwapOps(a, t))
    BY <1>3, <1>7
  <2>2. PICK ops : ops = SwapOps(a, t)
    OBVIOUS
  <2>3. /\ DOMAIN ops = {a, t}
        /\ ops[t] = PrioOnly(cache[a].prio) /\ ops[a] = PrioOnly(cache[t].prio)
    BY <2>2, <1>7 DEF SwapOps
  <2>4. ops \in [{a, t} -> OpRec]
    BY <2>2, <2>3, <1>5, PrioOnlyOp DEF SwapOps
  <2>5. ops \in Partial(OpRec)
    BY <2>4, <1>4, PartialIn
  <2>6. IsSwap(ops, cache, g, a, t)
    BY <2>3, <1>4, <1>7 DEF IsSwap
  <2>7. plan'[p] = NewPlan("swap", c, n, ops)
    BY <2>1, <2>2 DEF Built, NewPlan, HAInv, HATypeInv, PlansTyped
  <2>8. PlanInv(p)'
    <3>1. PICK x : x = plan'[p]
      OBVIOUS
    <3>2. /\ x.stage = "built" /\ x.kind = "swap" /\ x.on = c
          /\ x.name = n /\ x.ops = ops /\ x.seen = cache
      BY <3>1, <1>1, <2>5, <2>7, FreshFields
    <3>3. Means(p, g, t)'
      BY <3>1, <3>2, <1>2, <1>4 DEF Means
    <3> QED BY <3>1, <3>2, <3>3, <2>6, <1>1, <1>4 DEF PlanInv
  <2> QED BY <2>1, <2>2, <2>5, <2>8, BuiltInv
<1> QED BY <1>6, <1>7

---------------------------------------------------------------------------
(* Preview, commit, other writers, monitor updates *)

LEMMA PreviewInv ==
    ASSUME HAInv, NEW p \in Plans, PreviewDiff(p)
    PROVE  HAInv'
<1>1. UNCHANGED <<nb, cache, writes, requests, pure>>
  BY DEF PreviewDiff
<1>2. HATypeInv /\ PlansTyped /\ plan[p] \in PlanSet /\ cache \in [HARows -> PrioRow]
  BY DEF HAInv, HATypeInv, PlansTyped
<1>3. PICK b : b = [r \in DOMAIN plan[p].ops |-> cache[r]]
  OBVIOUS
<1>4. b \in Partial(PrioRow)
  <2>1. DOMAIN plan[p].ops \subseteq HARows
    BY <1>2, PlanFields, PartialOut
  <2>2. b \in [DOMAIN plan[p].ops -> PrioRow]
    BY <1>2, <1>3, <2>1
  <2> QED BY <2>1, <2>2, PartialIn
<1>5. PICK x : x = [[plan[p] EXCEPT !.stage = "stored"] EXCEPT !.before = b]
  OBVIOUS
<1>6. /\ x.stage = "stored" /\ x.kind = plan[p].kind /\ x.on = plan[p].on
      /\ x.name = plan[p].name /\ x.ops = plan[p].ops /\ x.seen = plan[p].seen
      /\ x \in PlanSet
  BY <1>2, <1>4, <1>5 DEF PlanSet
<1>7. plan' = [plan EXCEPT ![p] = x]
  BY <1>2, <1>3, <1>5 DEF PreviewDiff, PlansTyped
<1>8. /\ plan' \in [Plans -> PlanSet] /\ plan'[p] = x
      /\ \A q \in Plans \ {p} : plan'[q] = plan[q]
  BY <1>2, <1>6, <1>7 DEF PlansTyped
<1>9. HATypeInv'
  BY <1>1, <1>2, <1>8 DEF HATypeInv, PlansTyped
<1>10. ASSUME NEW q \in Plans PROVE PlanInv(q)'
  <2>1. PlanInv(q)
    BY DEF HAInv
  <2>2. CASE q # p
    BY <1>8, <2>1, <2>2 DEF PlanInv, Means
  <2>3. CASE q = p
    <3>1. plan[p] # NoPlan /\ plan[p].stage # "free"
      BY NoPlanSet DEF PreviewDiff
    <3>2. \A g, t : Means(p, g, t) <=> Means(p, g, t)'
      BY <1>6, <1>8 DEF Means
    <3> QED BY <2>1, <2>3, <3>1, <3>2, <1>6, <1>8 DEF PlanInv
  <2> QED BY <2>2, <2>3
<1>11. DrainInv'
  <2>1. \A q \in Plans : plan'[q].seen = plan[q].seen
    BY <1>6, <1>8
  <2> QED BY <1>1, <2>1 DEF HAInv, DrainInv, Two, Kept, Drained
<1> QED BY <1>9, <1>10, <1>11 DEF HAInv

\* What a step leaves to prove that takes a plan away or leaves the plans alone.
LEMMA PlansStay ==
    ASSUME HAInv, NEW q \in Plans, plan'[q] = plan[q] \/ plan'[q] = NoPlan
    PROVE  PlanInv(q)' /\ (plan'[q].seen = plan[q].seen \/ DOMAIN plan'[q].seen = {})
BY NoPlanSet DEF HAInv, PlanInv, Means

\* Committing a drain or a restore keeps the two values of a row.
LEMMA CommitKeepsTwo ==
    ASSUME HAInv, NEW p \in Plans, plan[p].stage = "stored",
           plan[p].kind \in {"drain", "restore"},
           NEW r \in pure, r \in DOMAIN plan[p].ops, NEW y
    PROVE  Written(y, plan[p].ops[r]) \in Two(r)
<1>1. /\ plan[p].seen \in [HARows -> PrioRow] /\ r \in HARows
      /\ plan[p].seen[r] \in Two(r) /\ plan[p] # NoPlan
  BY NoPlanSet DEF HAInv, HATypeInv, PlanInv, DrainInv
<1>2. CASE plan[p].kind = "drain"
  <2>1. IsDrain(plan[p].ops, plan[p].seen, plan[p].on)
    BY <1>1, <1>2 DEF HAInv, PlanInv
  <2>2. /\ plan[p].seen[r].prio # 0
        /\ plan[p].ops[r] = [prio |-> 0, mark |-> plan[p].seen[r].prio, ids |-> TRUE]
    BY <2>1 DEF IsDrain
  <2> QED BY <1>1, <2>2, DrainKeepsTwo
<1>3. CASE plan[p].kind = "restore"
  <2>1. IsRestore(plan[p].ops, plan[p].seen, plan[p].on)
    BY <1>1, <1>3 DEF HAInv, PlanInv
  <2>2. /\ plan[p].seen[r].prio = 0
        /\ plan[p].ops[r] = [prio |-> IF plan[p].seen[r].mark > 0 THEN plan[p].seen[r].mark ELSE 1,
                             mark |-> NoMark, ids |-> TRUE]
    BY <2>1 DEF IsRestore
  <2> QED BY <1>1, <2>2, DrainKeepsTwo
<1> QED BY <1>2, <1>3

LEMMA ApplyInv ==
    ASSUME HAInv, NEW p \in Plans, Apply(p)
    PROVE  HAInv'
<1>1. UNCHANGED <<cache, writes, requests>> /\ plan[p].stage = "stored"
  BY DEF Apply
<1>2. /\ HATypeInv /\ PlansTyped /\ plan[p] \in PlanSet /\ nb \in [HARows -> PrioRow]
      /\ pure \subseteq HARows
  BY DEF HAInv, HATypeInv, PlansTyped
<1>3. plan' = [plan EXCEPT ![p] = NoPlan]
  BY DEF Apply
<1>4. plan' \in [Plans -> PlanSet] /\ \A q \in Plans : plan'[q] = plan[q] \/ plan'[q] = NoPlan
  BY <1>2, <1>3, NoPlanSet DEF PlansTyped
<1>5. PICK ops : ops = plan[p].ops
  OBVIOUS
<1>6. DOMAIN ops \subseteq HARows /\ \A r \in DOMAIN ops : ops[r] \in OpRec
  BY <1>2, <1>5, PlanFields, PartialOut
<1>7. /\ nb' \in [HARows -> PrioRow] /\ pure' \subseteq pure
      /\ \A r \in pure' : nb'[r] \in Two(r)
  <2>1. CASE ~ WaitsHold(p)
    <3>1. nb' = nb /\ pure' = pure
      BY <2>1 DEF Apply
    <3> QED BY <3>1, <1>2 DEF HAInv, DrainInv
  <2>2. CASE WaitsHold(p)
    <3>1. nb' = [r \in HARows |-> IF r \in DOMAIN ops THEN Written(nb[r], ops[r]) ELSE nb[r]]
      BY <2>2, <1>5 DEF Apply
    <3>2. pure' = IF plan[p].kind \in {"drain", "restore"} THEN pure ELSE pure \ DOMAIN ops
      BY <2>2, <1>5 DEF Apply
    <3>3. \A r \in DOMAIN ops : Written(nb[r], ops[r]) \in PrioRow
      BY <1>2, <1>6, WrittenRow
    <3>4. nb' \in [HARows -> PrioRow]
      BY <3>1, <3>3, <1>2
    <3>5. ASSUME NEW r \in pure' PROVE nb'[r] \in Two(r)
      <4>1. r \in pure /\ r \in HARows /\ nb[r] \in Two(r)
        BY <3>2, <1>2 DEF HAInv, DrainInv
      <4>2. CASE r \notin DOMAIN ops
        BY <4>1, <4>2, <3>1
      <4>3. CASE r \in DOMAIN ops
        <5>1. plan[p].kind \in {"drain", "restore"}
          BY <3>2, <3>5, <4>3
        <5>2. Written(nb[r], ops[r]) \in Two(r)
          BY <5>1, <4>1, <4>3, <1>1, <1>5, CommitKeepsTwo
        <5> QED BY <5>2, <4>1, <4>3, <3>1
      <4> QED BY <4>2, <4>3
    <3> QED BY <3>2, <3>4, <3>5
  <2> QED BY <2>1, <2>2
<1>8. HATypeInv'
  BY <1>1, <1>2, <1>4, <1>7 DEF HATypeInv, PlansTyped
<1>9. DrainInv'
  <2>1. \A q \in Plans : plan'[q].seen = plan[q].seen \/ DOMAIN plan'[q].seen = {}
    BY <1>4, PlansStay
  <2>2. \A r : Two(r)' = Two(r)
    BY DEF Two, Kept, Drained
  <2> QED BY <1>1, <1>7, <2>1, <2>2 DEF HAInv, DrainInv
<1> QED BY <1>4, <1>8, <1>9, PlansStay DEF HAInv

LEMMA OtherWriterInv ==
    ASSUME HAInv, NEW r \in HARows, OtherWriter(r)
    PROVE  HAInv'
<1>1. UNCHANGED <<cache, plan, requests>> /\ pure' = pure \ {r}
      /\ writes' = writes + 1 /\ writes < MaxWrites
  BY DEF OtherWriter
<1>2. HATypeInv /\ nb \in [HARows -> PrioRow]
  BY DEF HAInv, HATypeInv
<1>3. PICK k \in 0..MaxPrio, m \in {nb[r].mark, 0} : nb' = [nb EXCEPT ![r] = [prio |-> k, mark |-> m]]
  BY DEF OtherWriter
<1>4. [prio |-> k, mark |-> m] \in PrioRow
  BY <1>2, <1>3, RowFields, Deployment DEF PrioRow
<1>5. nb' \in [HARows -> PrioRow] /\ \A s \in HARows \ {r} : nb'[s] = nb[s]
  BY <1>2, <1>3, <1>4
<1>6. HATypeInv'
  BY <1>1, <1>2, <1>5, Deployment DEF HATypeInv, PlansTyped
<1>7. DrainInv'
  <2>1. \A s : Two(s)' = Two(s)
    BY DEF Two, Kept, Drained
  <2> QED BY <1>1, <1>2, <1>5, <2>1 DEF HAInv, DrainInv, HATypeInv
<1> QED BY <1>1, <1>6, <1>7, PlansStay DEF HAInv

LEMMA MonitorUpdateInv ==
    ASSUME HAInv, NEW g \in HAGroups, MonitorUpdate(g)
    PROVE  HAInv'
<1>1. /\ UNCHANGED <<nb, plan, writes, requests, pure>>
      /\ cache' = [r \in HARows |-> IF Group[r] = g THEN nb[r] ELSE cache[r]]
  BY DEF MonitorUpdate
<1>2. HATypeInv'
  BY <1>1 DEF HAInv, HATypeInv, PlansTyped
<1>3. DrainInv'
  <2>1. \A s : Two(s)' = Two(s)
    BY DEF Two, Kept, Drained
  <2> QED BY <1>1, <2>1 DEF HAInv, DrainInv, HATypeInv
<1> QED BY <1>1, <1>2, <1>3, PlansStay DEF HAInv

LEMMA NextInv ==
    ASSUME HAInv, [HANext]_haVars
    PROVE  HAInv'
<1>1. CASE \E p \in Plans, c \in HAChassis : Evacuate(p, c) \/ Restore(p, c)
  BY <1>1, EvacuateInv, RestoreInv
<1>2. CASE \E p \in Plans, n \in Names, c \in HAChassis : Failover(p, n, c)
  BY <1>2, FailoverInv
<1>3. CASE \E p \in Plans : PreviewDiff(p) \/ Apply(p)
  BY <1>3, PreviewInv, ApplyInv
<1>4. CASE \E r \in HARows : OtherWriter(r)
  BY <1>4, OtherWriterInv
<1>5. CASE \E g \in HAGroups : MonitorUpdate(g)
  BY <1>5, MonitorUpdateInv
<1>6. CASE UNCHANGED haVars
  <2>1. UNCHANGED <<nb, cache, plan, writes, requests, pure>>
    BY <1>6 DEF haVars
  <2>2. HATypeInv'
    BY <2>1 DEF HAInv, HATypeInv, PlansTyped
  <2>3. DrainInv'
    BY <2>1 DEF HAInv, DrainInv, Two, Kept, Drained
  <2> QED BY <2>1, <2>2, <2>3, PlansStay DEF HAInv
<1> QED BY <1>1, <1>2, <1>3, <1>4, <1>5, <1>6 DEF HANext

(* In every reachable state a plan on its way has the operations that its  *)
(* kind makes of the rows the request read, and a row that only Evacuate   *)
(* and Restore wrote holds its original priority or remembers it, at the   *)
(* server, in the cache and in every plan (failover.go).                   *)
THEOREM FailoverInvariant == HASpec => []HAInv
<1>1. HAInit => HAInv
  BY HAInitInv
<1>2. HAInv /\ [HANext]_haVars => HAInv'
  BY NextInv
<1> QED BY <1>1, <1>2, PTL DEF HASpec

---------------------------------------------------------------------------
(* What the invariant says of a reachable state *)

\* A request means a group of the name given, or, when no group bears it,
\* the only holder of the target or an SB match.
LEMMA ResolvedRight ==
    ASSUME NEW n \in Names, NEW c, NEW g \in ResolveGroup(n, c)
    PROVE  \/ NameOf[g] = n
           \/ /\ \A h \in HAGroups : NameOf[h] # n
              /\ \/ \A s \in HARows : Host[s] = c => Group[s] = g
                 \/ NameKey(g) = SbKey(n)
<1> SUFFICES ASSUME NameOf[g] # n PROVE /\ \A h \in HAGroups : NameOf[h] # n
                                        /\ \/ \A s \in HARows : Host[s] = c => Group[s] = g
                                           \/ NameKey(g) = SbKey(n)
  OBVIOUS
<1>1. PICK holders : holders = {h \in HAGroups : \E r \in MembersOf(h) : Host[r] = c}
  OBVIOUS
<1>2. {h \in HAGroups : NameOf[h] = n} = {}
  BY DEF ResolveGroup
<1>n. \A h \in HAGroups : NameOf[h] # n
  BY <1>2
<1>3. g \in IF Cardinality(holders) = 1 THEN holders ELSE DisambiguateViaSB(n, holders)
  BY <1>1, <1>2 DEF ResolveGroup
<1>4. CASE Cardinality(holders) = 1
  <2>1. IsFiniteSet(holders)
    BY <1>1, Deployment, FS_Subset
  <2>2. PICK h : holders = {h}
    BY <1>4, <2>1, FS_Singleton
  <2>3. g = h
    BY <1>3, <1>4, <2>2
  <2>4. ASSUME NEW s \in HARows, Host[s] = c PROVE Group[s] \in holders
    BY <1>1, <2>4, Deployment DEF MembersOf
  <2> QED BY <1>n, <2>2, <2>3, <2>4
<1>5. CASE Cardinality(holders) # 1
  BY <1>n, <1>3, <1>5 DEF DisambiguateViaSB
<1> QED BY <1>4, <1>5

LEMMA HoldsImplied == HAInv => FailoverHolds
<1> SUFFICES ASSUME HAInv PROVE FailoverHolds
  OBVIOUS
<1>1. HATypeOK
  BY TypeImplied DEF HAInv
<1>2. DrainRemembers
  BY DEF HAInv, DrainInv, DrainRemembers, Two, Kept, Drained
<1>3. MovesOneGroup
  <2> SUFFICES ASSUME NEW p \in Plans, plan[p].kind \in {"swap", "bump"}
               PROVE  \E g \in HAGroups :
                        /\ DOMAIN plan[p].ops \subseteq MembersOf(g)
                        /\ \E t \in DOMAIN plan[p].ops : Host[t] = plan[p].on
                        /\ \/ NameOf[g] = plan[p].name
                           \/ /\ \A h \in HAGroups : NameOf[h] # plan[p].name
                              /\ \/ \A s \in HARows : Host[s] = plan[p].on => Group[s] = g
                                 \/ NameKey(g) = SbKey(plan[p].name)
    BY DEF MovesOneGroup
  <2>1. plan[p] # NoPlan
    BY DEF NoPlan
  <2>2. PICK g \in HAGroups : /\ g \in ResolveGroup(plan[p].name, plan[p].on)
                              /\ DOMAIN plan[p].ops \subseteq MembersOf(g)
                              /\ \E t \in DOMAIN plan[p].ops : Host[t] = plan[p].on
                              /\ plan[p].name \in Names
    <3>1. CASE plan[p].kind = "swap"
      <4>1. PICK g \in HAGroups, a, t \in HARows :
              Means(p, g, t) /\ IsSwap(plan[p].ops, plan[p].seen, g, a, t)
        BY <2>1, <3>1 DEF HAInv, PlanInv
      <4> QED BY <4>1 DEF Means, IsSwap, Led
    <3>2. CASE plan[p].kind = "bump"
      <4>1. PICK g \in HAGroups, t \in HARows :
              Means(p, g, t) /\ IsBump(plan[p].ops, plan[p].seen, g, t)
        BY <2>1, <3>2 DEF HAInv, PlanInv
      <4> QED BY <4>1 DEF Means, IsBump, Led
    <3> QED BY <3>1, <3>2
  <2> QED BY <2>2, ResolvedRight
<1> QED BY <1>1, <1>2, <1>3 DEF FailoverHolds

(* For every deployment: a row that only Evacuate and Restore wrote is at  *)
(* its original priority or at 0 with that priority remembered, and a      *)
(* failover changes one group of the target: one of the name given, or,    *)
(* when no group bears it, the only one of the target or one with the      *)
(* chassis of the Southbound group of that name.                           *)
THEOREM FailoversHold == HASpec => []FailoverHolds
BY FailoverInvariant, HoldsImplied, PTL

---------------------------------------------------------------------------
(* What a commit does *)

\* A plan only ends by Apply, and a commit writes exactly its operations.
LEMMA CommitWrites ==
    ASSUME HAInv, [HANext]_haVars, NEW p \in Plans, Commits(p)
    PROVE  /\ \A r \in DOMAIN plan[p].ops : /\ r \in HARows
                                            /\ nb'[r].prio = plan[p].ops[r].prio
           /\ \A r \in HARows \ DOMAIN plan[p].ops : nb'[r] = nb[r]
           /\ plan[p] # NoPlan /\ nb \in [HARows -> PrioRow]
<1>1. plan[p].stage = "stored" /\ plan'[p] = NoPlan /\ WaitsHold(p) /\ plan'[p] # plan[p]
  BY NoPlanSet DEF Commits
<1>2. plan \in [Plans -> PlanSet] /\ nb \in [HARows -> PrioRow] /\ plan[p] \in PlanSet
  BY DEF HAInv, HATypeInv, PlansTyped
<1>3. Apply(p)
  <2>1. ASSUME NEW q \in Plans, NEW kind, NEW c, NEW n, NEW ops, Built(q, kind, c, n, ops)
        PROVE  FALSE
    <3>1. q # p
      BY <2>1, <1>1, NoPlanSet DEF Built, Asks
    <3> QED BY <2>1, <3>1, <1>1, <1>2 DEF Built
  <2>2. ASSUME NEW q \in Plans, PreviewDiff(q) PROVE FALSE
    <3>1. q # p
      BY <2>2, <1>1 DEF PreviewDiff
    <3> QED BY <2>2, <3>1, <1>1, <1>2 DEF PreviewDiff
  <2>3. ASSUME NEW q \in Plans, q # p, Apply(q) PROVE FALSE
    BY <2>3, <1>1, <1>2 DEF Apply
  <2>4. ASSUME NEW q \in Plans, NEW n, NEW c, Failover(q, n, c) PROVE FALSE
    BY <2>4, <2>1 DEF Failover
  <2>5. ASSUME NEW q \in Plans, NEW c, Evacuate(q, c) \/ Restore(q, c) PROVE FALSE
    BY <2>5, <2>1 DEF Evacuate, Restore
  <2>6. plan' # plan
    BY <1>1
  <2> QED BY <2>2, <2>3, <2>4, <2>5, <2>6 DEF HANext, OtherWriter, MonitorUpdate, haVars
<1>4. nb' = [r \in HARows |-> IF r \in DOMAIN plan[p].ops
                              THEN Written(nb[r], plan[p].ops[r]) ELSE nb[r]]
  BY <1>1, <1>3 DEF Apply
<1>5. DOMAIN plan[p].ops \subseteq HARows
  BY <1>2, PlanFields, PartialOut
<1>6. \A r \in DOMAIN plan[p].ops : Written(nb[r], plan[p].ops[r]).prio = plan[p].ops[r].prio
  BY DEF Written
<1> QED BY <1>1, <1>2, <1>4, <1>5, <1>6

\* The plan of a swap that commits.
LEMMA SwapCommit ==
    ASSUME HAInv, [HANext]_haVars, NEW p \in Plans, Commits(p), plan[p].kind = "swap"
    PROVE  \E g \in HAGroups, a, t \in HARows :
             /\ Means(p, g, t) /\ IsSwap(plan[p].ops, plan[p].seen, g, a, t)
             /\ nb'[t].prio = plan[p].seen[a].prio /\ nb'[a].prio = plan[p].seen[t].prio
<1>1. PICK g \in HAGroups, a, t \in HARows :
        Means(p, g, t) /\ IsSwap(plan[p].ops, plan[p].seen, g, a, t)
  BY CommitWrites DEF HAInv, PlanInv
<1>2. nb'[t].prio = plan[p].ops[t].prio /\ nb'[a].prio = plan[p].ops[a].prio
  BY <1>1, CommitWrites DEF IsSwap
<1>3. \A n : PrioOnly(n).prio = n
  BY DEF PrioOnly
<1>4. nb'[t].prio = plan[p].seen[a].prio /\ nb'[a].prio = plan[p].seen[t].prio
  BY <1>1, <1>2, <1>3 DEF IsSwap
<1> QED BY <1>1, <1>4

\* The two forms of the target's lead, for one commit.
LEMMA SwapLeads ==
    ASSUME HAInv, [HANext]_haVars, NEW p \in Plans, Commits(p), plan[p].kind = "swap"
    PROVE  \E g \in {Group[s] : s \in DOMAIN plan[p].ops} :
             \E t \in MembersOf(g) \cap DOMAIN plan[p].ops :
               /\ Host[t] = plan[p].on
               /\ \A r \in MembersOf(g) \cap (Unmoved(p) \cup {t}) : nb'[r].prio <= nb'[t].prio
<1>1. PICK g \in HAGroups, a, t \in HARows :
        /\ Means(p, g, t) /\ IsSwap(plan[p].ops, plan[p].seen, g, a, t)
        /\ nb'[t].prio = plan[p].seen[a].prio /\ nb'[a].prio = plan[p].seen[t].prio
  BY SwapCommit
<1>2. plan[p].seen \in [HARows -> PrioRow] /\ \A r \in HARows : plan[p].seen[r].prio \in Int
  <2>1. plan[p].seen \in [HARows -> PrioRow]
    BY CommitWrites DEF HAInv, PlanInv
  <2> QED BY <2>1, RowFields
<1>3. t \in MembersOf(g) \cap DOMAIN plan[p].ops /\ Host[t] = plan[p].on /\ Group[t] = g
  BY <1>1 DEF IsSwap, Means, MembersOf
<1>4. ASSUME NEW r \in MembersOf(g), r \in Unmoved(p) \cup {t}
      PROVE  nb'[r].prio <= nb'[t].prio
  <2>1. r \in HARows /\ plan[p].seen[r].prio <= plan[p].seen[a].prio
    BY <1>1 DEF MembersOf, IsSwap, Led
  <2>2. CASE r = t
    BY <2>2, <1>1, <1>2
  <2>3. CASE r = a
    BY <2>3, <1>1, <1>2, <1>3 DEF IsSwap, Led
  <2>4. CASE r # t /\ r # a
    <3>1. nb'[r] = nb[r] /\ nb[r] = plan[p].seen[r]
      BY <1>1, <1>4, <2>1, <2>4, CommitWrites DEF IsSwap, Unmoved
    <3> QED BY <3>1, <2>1, <1>1
  <2> QED BY <2>2, <2>3, <2>4
<1> QED BY <1>3, <1>4

LEMMA BumpLeads ==
    ASSUME HAInv, [HANext]_haVars, NEW p \in Plans, Commits(p), plan[p].kind = "bump"
    PROVE  \E g \in {Group[s] : s \in DOMAIN plan[p].ops} :
             \E t \in MembersOf(g) \cap DOMAIN plan[p].ops :
               /\ Host[t] = plan[p].on
               /\ \/ plan[p].seen[t].prio = MaxPrio
                  \/ \A r \in MembersOf(g) \cap (Unmoved(p) \cup {t}) : nb'[r].prio <= nb'[t].prio
<1>1. PICK g \in HAGroups, t \in HARows :
        Means(p, g, t) /\ IsBump(plan[p].ops, plan[p].seen, g, t)
  BY CommitWrites DEF HAInv, PlanInv
<1>2. /\ plan[p].seen \in [HARows -> PrioRow]
      /\ \A r \in HARows : plan[p].seen[r].prio \in 0..MaxPrio
  <2>1. plan[p].seen \in [HARows -> PrioRow]
    BY CommitWrites DEF HAInv, PlanInv
  <2> QED BY <2>1, RowFields
<1>3. t \in MembersOf(g) \cap DOMAIN plan[p].ops /\ Host[t] = plan[p].on /\ Group[t] = g
  BY <1>1 DEF IsBump, Led, Means, MembersOf
<1>4. ASSUME plan[p].seen[t].prio # MaxPrio,
             NEW r \in MembersOf(g), r \in Unmoved(p) \cup {t}
      PROVE  nb'[r].prio <= nb'[t].prio
  <2>1. /\ r \in HARows /\ plan[p].seen[r].prio <= plan[p].seen[t].prio
        /\ plan[p].seen[r].prio \in Int /\ plan[p].seen[t].prio \in Int
    BY <1>1, <1>2, Deployment DEF MembersOf, IsBump, Led
  <2>2. nb'[t].prio = plan[p].seen[t].prio + 1
    <3>1. nb'[t].prio = plan[p].ops[t].prio
      BY <1>3, CommitWrites
    <3>2. ~ (plan[p].seen[t].prio + 1 > MaxPrio)
      BY <1>2, <1>4, Deployment
    <3> QED BY <3>1, <3>2, <1>1 DEF IsBump, PrioOnly
  <2>3. CASE r = t
    BY <2>1, <2>2, <2>3
  <2>4. CASE r # t
    <3>1. nb'[r] = nb[r] /\ nb[r] = plan[p].seen[r]
      BY <1>1, <1>4, <2>1, <2>4, CommitWrites DEF IsBump, Unmoved
    <3> QED BY <3>1, <2>1, <2>2
  <2> QED BY <2>3, <2>4
<1> QED BY <1>3, <1>4

LEMMA DrainCommit ==
    ASSUME HAInv, [HANext]_haVars, NEW p \in Plans, Commits(p), plan[p].kind = "drain",
           NEW r \in Unmoved(p), Host[r] = plan[p].on
    PROVE  nb'[r].prio = 0
<1>1. IsDrain(plan[p].ops, plan[p].seen, plan[p].on)
  BY CommitWrites DEF HAInv, PlanInv
<1>2. r \in HARows /\ nb[r] = plan[p].seen[r]
  BY DEF Unmoved
<1>3. CASE r \in DOMAIN plan[p].ops
  <2>1. plan[p].ops[r] = [prio |-> 0, mark |-> plan[p].seen[r].prio, ids |-> TRUE]
    BY <1>1, <1>3 DEF IsDrain
  <2>2. plan[p].ops[r].prio = 0
    BY <2>1
  <2> QED BY <1>3, <2>2, CommitWrites
<1>4. CASE r \notin DOMAIN plan[p].ops
  <2>1. plan[p].seen[r].prio = 0
    BY <1>1, <1>2, <1>4 DEF IsDrain
  <2>2. nb'[r] = nb[r]
    BY <1>2, <1>4, CommitWrites
  <2> QED BY <2>1, <2>2, <1>2
<1> QED BY <1>3, <1>4

LEMMA SwapCommitExchanges ==
    ASSUME HAInv, [HANext]_haVars, NEW p \in Plans, Commits(p), plan[p].kind = "swap",
           DOMAIN plan[p].ops \subseteq Unmoved(p),
           NEW r \in DOMAIN plan[p].ops, NEW s \in DOMAIN plan[p].ops, r # s
    PROVE  nb'[r].prio = nb[s].prio
<1>1. PICK g \in HAGroups, a, t \in HARows :
        /\ Means(p, g, t) /\ IsSwap(plan[p].ops, plan[p].seen, g, a, t)
        /\ nb'[t].prio = plan[p].seen[a].prio /\ nb'[a].prio = plan[p].seen[t].prio
  BY SwapCommit
<1>2. nb[a] = plan[p].seen[a] /\ nb[t] = plan[p].seen[t]
  BY <1>1 DEF IsSwap, Unmoved
<1>3. (r = a /\ s = t) \/ (r = t /\ s = a)
  BY <1>1 DEF IsSwap
<1> QED BY <1>1, <1>2, <1>3

(* For every deployment and every interleaving: a committed failover makes *)
(* the target lead, a committed Evacuate leaves the chassis at 0 in every  *)
(* group, and a committed swap exchanges two priorities, for the rows that *)
(* did not move since the request read them.                               *)
THEOREM CommitsDoWhatWasAsked == HASpec => FailoverSteps
<1>1. HAInv /\ [HANext]_haVars =>
        [\A p \in Plans : Commits(p) /\ plan[p].kind \in {"swap", "bump"} =>
           \E g \in {Group[s] : s \in DOMAIN plan[p].ops} :
             \E t \in MembersOf(g) \cap DOMAIN plan[p].ops :
               /\ Host[t] = plan[p].on
               /\ \/ plan[p].kind = "bump" /\ plan[p].seen[t].prio = MaxPrio
                  \/ \A r \in MembersOf(g) \cap (Unmoved(p) \cup {t}) :
                       nb'[r].prio <= nb'[t].prio]_haVars
  BY SwapLeads, BumpLeads
<1>2. HAInv /\ [HANext]_haVars =>
        [\A p \in Plans : Commits(p) /\ plan[p].kind = "drain" =>
           \A r \in Unmoved(p) : Host[r] = plan[p].on => nb'[r].prio = 0]_haVars
  BY DrainCommit
<1>3. HAInv /\ [HANext]_haVars =>
        [\A p \in Plans :
           (Commits(p) /\ plan[p].kind = "swap" /\ DOMAIN plan[p].ops \subseteq Unmoved(p)) =>
             \A r, s \in DOMAIN plan[p].ops : r # s => nb'[r].prio = nb[s].prio]_haVars
  BY SwapCommitExchanges
<1>4. HASpec => TargetLeads
  BY <1>1, FailoverInvariant, PTL DEF HASpec, TargetLeads
<1>5. HASpec => DrainIsComplete
  BY <1>2, FailoverInvariant, PTL DEF HASpec, DrainIsComplete
<1>6. HASpec => SwapExchanges
  BY <1>3, FailoverInvariant, PTL DEF HASpec, SwapExchanges
<1> QED BY <1>4, <1>5, <1>6 DEF FailoverSteps
=============================================================================
