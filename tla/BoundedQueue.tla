---------------------------- MODULE BoundedQueue ----------------------------
(***************************************************************************)
(* What the two change logs promise (internal/flowdiff/store.go and        *)
(* internal/telemetry/propagation_store.go): the latest Capacity entries   *)
(* in the order they came, without a leading run of expired ones.          *)
(***************************************************************************)
EXTENDS Integers, Sequences

CONSTANTS Capacity, MaxAge, Entries
VARIABLES queue, time

Latest(s) == SubSeq(s, IF Len(s) > Capacity THEN Len(s) - Capacity + 1 ELSE 1, Len(s))
Live(s, t) ==
    LET live == {i \in DOMAIN s : s[i].at >= t - MaxAge}
    IN  IF live = {} THEN <<>>
        ELSE SubSeq(s, CHOOSE i \in live : \A j \in live : i <= j, Len(s))

Init == queue = <<>> /\ time \in Nat
Put  == /\ queue' # queue
        /\ \E e \in Entries : queue' = Live(Latest(Append(queue, e)), time)
        /\ UNCHANGED time
Pass == time' > time /\ UNCHANGED queue

Spec == Init /\ [][Put \/ Pass]_<<queue, time>>

=============================================================================
