------------------------------ MODULE ACLAudit ------------------------------
(***************************************************************************)
(* internal/debug/acl_audit.go: ACLs that share an attachment (switch or   *)
(* port group), a direction and a tier are compared pairwise, the higher   *)
(* priority first, and reported as redundant, shadowing or conflicting.    *)
(* The comparison is textual: a match is cut at every "&&".                *)
(*                                                                         *)
(* s.acl[a] is an ACL [prio, action, lane, match], where lane stands for   *)
(* (direction, tier) and a match is the sequence of its atoms with the     *)
(* positions that are followed by "||" instead of "&&".  s.attach[x] lists *)
(* the ACLs of the switch or port group x; a listed ACL may be missing.    *)
(***************************************************************************)
EXTENDS Integers, Sequences, FiniteSets, SequencesExt

CONSTANT MaxFindings        \* maxACLFindings

ASSUME MaxFindingsAssumption == MaxFindings \in Nat \ {0}

Match(atoms, or) == [atoms |-> atoms, or |-> or]
Always == Match(<<"1">>, {})

\* What the caches hold; "1" is a match and no conjunct of another.
IsRuleSet(s) ==
    /\ \A a \in DOMAIN s.acl :
         /\ s.acl[a].prio \in Int /\ s.acl[a].match = Match(s.acl[a].match.atoms, s.acl[a].match.or)
         /\ s.acl[a].match.atoms \in Seq(ToSet(s.acl[a].match.atoms)) \ {<<>>}
         /\ "1" \in ToSet(s.acl[a].match.atoms) => s.acl[a].match = Always
    /\ \A x \in DOMAIN s.attach : s.attach[x] \in Seq(ToSet(s.attach[x]))

\* The maximal runs of positions of m in which `joined' holds of each but the last.
Runs(m, joined) ==
    {r \in (1..Len(m.atoms)) \X (1..Len(m.atoms)) :
        /\ r[1] <= r[2]
        /\ \A k \in r[1]..(r[2] - 1) : k \in joined
        /\ r[1] = 1 \/ r[1] - 1 \notin joined
        /\ r[2] = Len(m.atoms) \/ r[2] \notin joined}

\* parseConjuncts: the pieces between "&&"; "||" stays inside a piece.
parseConjuncts(m) ==
    LET pieces == Runs(m, m.or)
    IN  [p \in pieces |-> SubSeq(m.atoms, p[1], p[2])]
Texts(c) == {c[p] : p \in DOMAIN c}

isSubsetOfConjuncts(a, b) == DOMAIN a # {} /\ Texts(a) \subseteq Texts(b)
countCommonConjuncts(a, b) == Cardinality({p \in DOMAIN a : a[p] \in Texts(b)})

\* Mutant: one shared conjunct is enough to contain the other match.
matchRelation_Overlap(a, b) ==
    IF a = b THEN "equal"
    ELSE IF countCommonConjuncts(parseConjuncts(a), parseConjuncts(b)) > 0
         THEN "superset" ELSE "disjoint"

\* The order of the tests matters: the first that applies wins.
matchRelation(a, b) ==
    LET ca == parseConjuncts(a)
        cb == parseConjuncts(b)
        common == countCommonConjuncts(ca, cb)
    IN  CASE a = b -> "equal"
          [] a # b /\ a = Always -> "superset"
          [] a # b /\ a # Always /\ b = Always -> "subset"
          [] a # b /\ Always \notin {a, b} /\ isSubsetOfConjuncts(ca, cb) -> "superset"
          [] a # b /\ Always \notin {a, b} /\ ~ isSubsetOfConjuncts(ca, cb)
                /\ isSubsetOfConjuncts(cb, ca) -> "subset"
          [] OTHER -> IF common > 0 /\ common < Cardinality(DOMAIN ca)
                                   /\ common < Cardinality(DOMAIN cb)
                      THEN "conflict" ELSE "disjoint"

\* compareACLs: the finding about the pair, "none" when there is none.
compareACLs(hi, lo) ==
    LET rel == matchRelation(hi.match, lo.match)
    IN  CASE rel = "equal" -> IF hi.action = lo.action THEN "redundant" ELSE "shadow"
          [] rel = "superset" /\ hi.prio > lo.prio ->
                IF hi.action # lo.action THEN "shadow" ELSE "none"
          [] rel = "conflict" -> "conflict"
          [] OTHER -> "none"

Bucket(s, x, lane) ==
    {a \in ToSet(s.attach[x]) : a \in DOMAIN s.acl /\ s.acl[a].lane = lane}

Lanes(s)  == {s.acl[a].lane : a \in DOMAIN s.acl}
Groups(s) == {<<x, l>> : x \in DOMAIN s.attach, l \in Lanes(s)}

\* sort.Slice is not stable: equal priorities come out in any order.
SortedBuckets(s, g) ==
    {o \in SetToSeqs(Bucket(s, g[1], g[2])) :
        \A i, j \in DOMAIN o : i < j => s.acl[o[i]].prio >= s.acl[o[j]].prio}

\* The findings of one group in the order o.
GroupFindings(s, o) ==
    {f \in {[hi |-> o[p[1]], lo |-> o[p[2]], kind |-> compareACLs(s.acl[o[p[1]]], s.acl[o[p[2]]])] :
                p \in {q \in (DOMAIN o) \X (DOMAIN o) : q[1] < q[2]}} :
        f.kind # "none"}

\* How many findings all groups can have together, over all their orders.
TotalCounts(s) ==
    FoldLeft(LAMBDA sums, g : {n + Cardinality(GroupFindings(s, o)) :
                                 n \in sums, o \in SortedBuckets(s, g)},
             {0}, SetToSeq(Groups(s)))

(* Audit: the loops stop at the MaxFindings-th finding, which also sets    *)
(* the truncated flag.  Which findings survive depends on the order of the *)
(* groups, a map iteration; how many does not.                             *)
Audit(s) ==
    {[truncated |-> n >= MaxFindings, found |-> n,
      count |-> IF n >= MaxFindings THEN MaxFindings ELSE n] : n \in TotalCounts(s)}

-----------------------------------------------------------------------------
\* What a match means: some disjunct has all its atoms true of the packet.
Hits(m, pkt) ==
    LET and == (1..Len(m.atoms)) \ m.or
    IN  \E d \in Runs(m, and) : \A k \in d[1]..d[2] : m.atoms[k] = "1" \/ m.atoms[k] \in pkt

Atoms(s) == (UNION {ToSet(s.acl[a].match.atoms) : a \in DOMAIN s.acl}) \ {"1"}

\* A conjunction of comparisons: no "||" (an atom has no parentheses either).
Plain(m) == m.or = {}

(* A finding that an ACL is shadowed by, or redundant with, another of its *)
(* switch or port group, direction and tier is right about the traffic,    *)
(* whatever the atoms mean: the other matches every packet it matches.     *)
(* Its priority is higher; or it is equal, and then the two match the same *)
(* packets and either may decide (acl_audit.go:169-201 does not compare    *)
(* the priorities of equal matches; docs/how-to/audit-acls.md:18 speaks of *)
(* a higher one).  Matches with "||" are left out: the textual cut is      *)
(* wrong about them.                                                       *)
ShadowedNeverDecides(s) ==
    \A g \in Groups(s) : \A o \in SortedBuckets(s, g) : \A f \in GroupFindings(s, o) :
        LET hi == s.acl[f.hi]
            lo == s.acl[f.lo]
        IN  (f.kind # "conflict" /\ Plain(hi.match) /\ Plain(lo.match))
            => /\ hi.lane = lo.lane /\ hi.prio >= lo.prio
               /\ \A pkt \in SUBSET Atoms(s) :
                    /\ Hits(lo.match, pkt) => Hits(hi.match, pkt)
                    /\ hi.prio = lo.prio => (Hits(lo.match, pkt) <=> Hits(hi.match, pkt))

(* The audit finds every plain pair in which the lower ACL can never       *)
(* decide whatever the atoms mean and the actions differ, in any order of  *)
(* equal priorities.  A pair that is shadowed because of what the atoms    *)
(* mean (ip over ip4, an address in a wider prefix, the same conjunct in   *)
(* parentheses) is not found: matchRelation compares texts                 *)
(* (acl_audit.go:254-285).                                                 *)
TextualShadowIsFound(s) ==
    \A g \in Groups(s) : \A a, b \in Bucket(s, g[1], g[2]) :
        LET hi == s.acl[a]
            lo == s.acl[b]
        IN  (/\ hi.prio > lo.prio /\ hi.action # lo.action
             /\ Plain(hi.match) /\ Plain(lo.match)
             /\ \A pkt \in SUBSET Atoms(s) : Hits(lo.match, pkt) => Hits(hi.match, pkt))
            => \A o \in SortedBuckets(s, g) :
                 [hi |-> a, lo |-> b, kind |-> "shadow"] \in GroupFindings(s, o)

(* The size of the report does not depend on the order in which equal      *)
(* priorities come out of the sort, it respects the limit, and a report    *)
(* that is not marked truncated holds every finding.                       *)
ReportSizeIsStable(s) ==
    /\ Cardinality(Audit(s)) = 1
    /\ \A r \in Audit(s) : r.count <= MaxFindings /\ (~ r.truncated => r.count = r.found)
=============================================================================
