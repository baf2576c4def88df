------------------------------- MODULE Impact -------------------------------
(***************************************************************************)
(* internal/impact: what an NB row takes along when it is deleted.  The    *)
(* references of the schema are walked depth first from the row, under a   *)
(* limit on the depth and on the rows visited; then the rows that refer to *)
(* it, one level, and the SB rows that realize it.                         *)
(*                                                                         *)
(* g.table[r] is the table of row r and g.exists the rows a read finds: a  *)
(* reference may dangle.  g.refs[r] is the set of rows r refers to; a      *)
(* column holds the ones of its target table.  g.order lists all rows, the *)
(* order in which a column or a table lists them.  g.dps is the sequence   *)
(* of datapaths of the root with the number of port bindings on each.      *)
(***************************************************************************)
EXTENDS Integers, Sequences, FiniteSets, SequencesExt

Edge(target, type) == [target |-> target, type |-> type]

(* NBRefs, columns in their order, tables by their initials.  Leaf stands  *)
(* for tables that are only referred to, and strongly: QoS, routes, ...    *)
NBRefs ==
    ("LS"  :> <<Edge("LSP", "strong"), Edge("ACL", "strong"), Edge("Leaf", "strong"),
                Edge("LBG", "strong"), Edge("LB", "weak"), Edge("DNS", "weak"),
                Edge("Copp", "weak")>>) @@
    ("LR"  :> <<Edge("LRP", "strong"), Edge("NAT", "strong"), Edge("Leaf", "strong"),
                Edge("LBG", "strong"), Edge("LB", "weak"), Edge("Copp", "weak")>>) @@
    ("LSP" :> <<Edge("HAG", "strong")>>) @@
    ("LRP" :> <<Edge("Leaf", "strong"), Edge("HAG", "strong")>>) @@
    ("HAG" :> <<Edge("HAC", "strong")>>) @@
    ("PG"  :> <<Edge("ACL", "strong"), Edge("LSP", "weak")>>) @@
    ("LB"  :> <<Edge("HC", "strong")>>) @@
    ("LBG" :> <<Edge("LB", "weak")>>)

\* ReverseRefs: the tables with a column that refers to the key.
ReverseRefs ==
    ("LSP" :> <<"PG">>) @@ ("LB" :> <<"LS", "LR", "LBG">>) @@ ("DNS" :> <<"LS">>)
    @@ ("DHCP" :> <<"LSP">>) @@ ("AddrSet" :> <<"NAT">>)

EdgesOf(t) == IF t \in DOMAIN NBRefs THEN NBRefs[t] ELSE <<>>

\* extractUUIDs: the rows a column of r holds, in order.
extractUUIDs(g, r, e) == SelectSeq(g.order, LAMBDA c : c \in g.refs[r] /\ g.table[c] = e.target)

\* The tree so far: nodes in the order they are appended, rows seen, the flag.
Node(r, up, depth, type) == [row |-> r, up |-> up, depth |-> depth, type |-> type]

Visited(t) == Cardinality(t.seen) + Cardinality(t.sb)

\* visited[childUUID] = true comes before the read.
Enter(t, c) == [t EXCEPT !.seen = @ \cup {c}]

RECURSIVE resolveForward(_, _, _, _, _)

\* One child of a column: skip, stop at the limit, or descend.
visitChild(g, lim, t, r, depth, e, c) ==
    IF c \in t.seen \/ Visited(t) >= lim.entities
    THEN [t EXCEPT !.truncated = @ \/ Visited(t) >= lim.entities]
    ELSE LET in == Enter(t, c)
         IN  IF c \notin g.exists THEN in
             ELSE resolveForward(g, lim,
                    [in EXCEPT !.nodes = @ \cup {Node(c, r, depth + 1, e.type)}], c, depth + 1)

\* Mutant: the depth limit cuts without a word.
resolveForward_Silent(g, lim, t, r, depth) ==
    IF depth >= lim.depth THEN t
    ELSE FoldLeft(LAMBDA a, e :
                    FoldLeft(LAMBDA b, c : visitChild(g, lim, b, r, depth, e, c),
                             a, extractUUIDs(g, r, e)),
                  t, EdgesOf(g.table[r]))

resolveForward(g, lim, t, r, depth) ==
    IF depth >= lim.depth THEN [t EXCEPT !.truncated = TRUE]
    ELSE FoldLeft(LAMBDA a, e :
                    FoldLeft(LAMBDA b, c : visitChild(g, lim, b, r, depth, e, c),
                             a, extractUUIDs(g, r, e)),
                  t, EdgesOf(g.table[r]))

\* resolveReverse: rows whose column holds the root; returns at the limit.
Referrers(g, r) ==
    FlattenSeq([i \in DOMAIN (IF g.table[r] \in DOMAIN ReverseRefs THEN ReverseRefs[g.table[r]] ELSE <<>>) |->
        SelectSeq(g.order, LAMBDA m : /\ m \in g.exists /\ r \in g.refs[m]
                                      /\ g.table[m] = ReverseRefs[g.table[r]][i])])
resolveReverse(g, lim, t0, r) ==
    FoldLeft(LAMBDA t, m :
        IF t.stop \/ m \in t.seen THEN t
        ELSE IF Visited(t) >= lim.entities
             THEN [t EXCEPT !.truncated = TRUE, !.stop = TRUE]
        ELSE [Enter(t, m) EXCEPT !.nodes = @ \cup {Node(m, r, 1, "reverse")}],
      [t0 EXCEPT !.stop = FALSE], Referrers(g, r))

\* How many of the k port bindings of a datapath just added still fit.
Room(lim, t, d, k) == IF Visited(t) + 1 + k <= lim.entities THEN k ELSE lim.entities - Visited(t) - 1

(* resolveSBCorrelation: each datapath of the root and the port bindings   *)
(* on it while there is room; a full set ends the datapaths, too.  The     *)
(* i-th binding of datapath d is <<d, i>>, the datapath itself <<d, 0>>.   *)
resolveSBCorrelation(g, lim, t0) ==
    FoldLeft(LAMBDA t, d :
        IF t.stop \/ Visited(t) >= lim.entities
        THEN [t EXCEPT !.truncated = TRUE, !.stop = TRUE]
        ELSE LET k == Room(lim, t, d, g.dps[d])
             IN  [t EXCEPT !.sb = @ \cup {<<d, i>> : i \in 0..k},
                           !.truncated = @ \/ k < g.dps[d]],
      [t0 EXCEPT !.stop = FALSE], [i \in DOMAIN g.dps |-> i])

\* Resolve, for a root that exists in a known table of the NB.
Resolve(g, lim, r) ==
    LET root == [nodes |-> {}, seen |-> {r}, sb |-> {}, truncated |-> FALSE, stop |-> FALSE]
        fwd  == resolveForward(g, lim, root, r, 0)
        rev  == resolveReverse(g, lim, fwd, r)
    IN  IF g.table[r] \in {"LS", "LR"} THEN resolveSBCorrelation(g, lim, rev) ELSE rev

\* computeSummary and walkSummary: the root is not counted.
computeSummary(t) ==
    [total |-> Cardinality(t.nodes) + Cardinality(t.sb), truncated |-> t.truncated]

-----------------------------------------------------------------------------
\* Reference: what is reachable along the schema's references, any depth.
FollowedFrom(g, r) == {c \in g.refs[r] : \E i \in DOMAIN EdgesOf(g.table[r]) :
                                            EdgesOf(g.table[r])[i].target = g.table[c]}
RECURSIVE Reached(_, _)
Reached(g, R) ==
    LET more == UNION {FollowedFrom(g, r) \cap g.exists : r \in R} \ R
    IN  IF more = {} THEN R ELSE Reached(g, R \cup more)

Rows(t) == {n.row : n \in t.nodes}

(* A tree that is not marked as truncated is complete: it has every row    *)
(* reachable from the root, at whatever depth, every row that refers to    *)
(* the root, and every SB row.  A row first met at the depth limit is not  *)
(* silently cut off from the rows behind it.                               *)
UntruncatedIsComplete(g, lim, r) ==
    LET t == Resolve(g, lim, r)
    IN  ~ t.truncated =>
            /\ (Reached(g, {r}) \ {r}) \cup ToSet(Referrers(g, r)) \subseteq Rows(t) \cup {r}
            /\ g.table[r] \in {"LS", "LR"} =>
                  \A d \in DOMAIN g.dps : \A i \in 0..g.dps[d] : <<d, i>> \in t.sb

(* A row reached along several references appears once, so the totals of   *)
(* the summary count rows; only existing rows appear, the root never does; *)
(* and the tree respects the limits of depth and size.                     *)
EachRowOnce(g, lim, r) ==
    LET t == Resolve(g, lim, r)
    IN  /\ computeSummary(t).total = Cardinality(Rows(t)) + Cardinality(t.sb)
        /\ r \notin Rows(t)
        /\ Rows(t) \subseteq g.exists
        /\ computeSummary(t).total < lim.entities
        /\ \A n \in t.nodes : n.depth <= lim.depth

\* Length of the longest chain of references that starts in a table.
RECURSIVE LongestFrom(_)
LongestFrom(t) ==
    LET next == {EdgesOf(t)[i].target : i \in DOMAIN EdgesOf(t)}
        len  == {LongestFrom(u) : u \in next}
    IN  IF next = {} THEN 0 ELSE 1 + CHOOSE k \in len : \A l \in len : l <= k

(* The two tables of the schema's references fit each other and the        *)
(* default limits: no chain is longer than the depth the walk may go       *)
(* (defaultMaxDepth), so that limit never cuts a real tree, and deleting a *)
(* row of a table that is the target of a weak reference shows every table *)
(* that holds one.  Copp, to which switches and routers refer weakly, is   *)
(* missing from ReverseRefs.                                               *)
SchemaTablesFit(depth) ==
    \A t \in DOMAIN NBRefs :
        /\ LongestFrom(t) < depth
        /\ \A i \in DOMAIN NBRefs[t] :
              LET e == NBRefs[t][i]
              IN  e.type = "weak" /\ e.target # "Copp" =>
                    e.target \in DOMAIN ReverseRefs /\ t \in ToSet(ReverseRefs[e.target])
=============================================================================
