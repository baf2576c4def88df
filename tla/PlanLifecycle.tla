--------------------------- MODULE PlanLifecycle ---------------------------
(***************************************************************************)
(* What the write workflow promises about a plan, whatever the requests    *)
(* around it do: a previewed plan is on offer until one apply claims it or *)
(* it is retired (cancelled, expired, lost in a restart); only a claimed   *)
(* plan can be committed to the database, and a committed or retired plan  *)
(* never comes back.  WriteEngine implements this specification.           *)
(***************************************************************************)
CONSTANT Plans

VARIABLE status

States == {"absent", "offered", "claimed", "committed", "retired"}

Init == status = [p \in Plans |-> "absent"]

Move(p, from, to) == status[p] = from /\ status' = [status EXCEPT ![p] = to]

Offer(p)  == Move(p, "absent", "offered")
Claim(p)  == Move(p, "offered", "claimed")
Commit(p) == Move(p, "claimed", "committed")

\* One request retires one plan; cleanup and a restart retire several at once.
Retire ==
    \E S \in (SUBSET {p \in Plans : status[p] \in {"offered", "claimed"}}) \ {{}} :
        status' = [p \in Plans |-> IF p \in S THEN "retired" ELSE status[p]]

Next == Retire \/ \E p \in Plans : Offer(p) \/ Claim(p) \/ Commit(p)

Spec == Init /\ [][Next]_status
=============================================================================
