--------------------------- MODULE AnalysesProofs ---------------------------
(***************************************************************************)
(* Theorems of the analyses, for every state of the caches, and of the     *)
(* requests that read a changing database in several steps.                *)
(*                                                                         *)
(* An analysis is a function of what the caches hold; its theorem follows  *)
(* from what the definitions compute: the elected gateway is alive, the    *)
(* text of plain matches decides what they hit, the search for a router    *)
(* follows the diagram.  A request has an inductive invariant that ties    *)
(* what it has read to what was true at some time since it began.          *)
(***************************************************************************)
EXTENDS Analyses, FiniteSetTheorems, SequenceTheorems, WellFoundedInduction, TLAPS

(* The smallest and the largest number of a set *)

\* A set of natural numbers that is not empty has a least element.
LEMMA SetHasMin ==
    ASSUME NEW S \in SUBSET Nat, S # {}
    PROVE  Min(S) \in S /\ \A y \in S : Min(S) <= y
<1>1. PICK x \in S : \A y \in S : ~ (<<y, x>> \in OpToRel(<, Nat))
  BY ONLY S \in SUBSET Nat, S # {}, NatLessThanWellFounded, WFMin, Zenon
<1>2. \A y \in S : ~ (y < x)
  BY <1>1 DEF OpToRel
<1>3. \A y \in S : x <= y
  BY <1>2
<1> QED BY <1>3 DEF Min

\* A bounded choice of numbers has a largest one.
LEMMA SetHasTop ==
    ASSUME NEW S, S # {}, NEW v, NEW N \in Nat, \A i \in S : v[i] \in 0..N
    PROVE  \E i \in S : \A j \in S : v[j] <= v[i]
<1>1. PICK G : G = {N - v[i] : i \in S}
  OBVIOUS
<1>2. G \in SUBSET Nat /\ G # {}
  BY <1>1
<1>3. Min(G) \in G /\ \A y \in G : Min(G) <= y
  BY <1>2, SetHasMin
<1>4. PICK k \in S : Min(G) = N - v[k]
  BY <1>1, <1>3
<1>5. ASSUME NEW j \in S PROVE v[j] <= v[k]
  <2>1. N - v[k] <= N - v[j]
    BY <1>1, <1>3, <1>4
  <2>2. v[k] \in Int /\ v[j] \in Int
    OBVIOUS
  <2> QED BY <2>1, <2>2
<1> QED BY <1>5

---------------------------------------------------------------------------
(* Gateway health *)

\* The elected member is alive, and its chassis is there.
LEMMA ElectedIsAlive ==
    ASSUME NEW s, IsIndex(s), NEW g \in Gateways, AliveMembers(s, g) # {}
    PROVE  \E i \in AliveMembers(s, g) :
             /\ Desired(s, g) = Order[g][i] /\ Order[g][i] \in Chassis
             /\ Alive(s, Order[g][i])
             /\ \A j \in AliveMembers(s, g) : s.prio[g][j] <= s.prio[g][i]
<1> DEFINE cands == AliveMembers(s, g)
           top == {i \in cands : \A j \in cands : s.prio[g][j] <= s.prio[g][i]}
<1>1. Order[g] \in Seq(Chassis)
  BY GatewayConstants
<1>2. cands \subseteq DOMAIN Order[g] /\ DOMAIN Order[g] \subseteq Nat
  BY <1>1 DEF AliveMembers
<1>3. \A i \in cands : s.prio[g][i] \in 0..MaxHAPriority
  BY <1>2 DEF IsIndex
<1>4. top # {}
  <2>1. MaxHAPriority \in Nat
    BY GatewayConstants
  <2> HIDE DEF cands
  <2>2. \E i \in cands : \A j \in cands : s.prio[g][j] <= s.prio[g][i]
    BY <1>3, <2>1, SetHasTop DEF cands
  <2> QED BY <2>2
<1>5. Min(top) \in top
  BY <1>2, <1>4, SetHasMin
<1>6. Desired(s, g) = MemberChassis(s, g, Min(top))
  BY DEF Desired
<1>7. Min(top) \in cands /\ \A j \in cands : s.prio[g][j] <= s.prio[g][Min(top)]
  BY <1>5
<1>8. MemberChassis(s, g, Min(top)) # NoChassis /\ Alive(s, Order[g][Min(top)])
  BY <1>7 DEF AliveMembers
<1>9. MemberChassis(s, g, Min(top)) = Order[g][Min(top)]
  BY <1>8 DEF MemberChassis
<1>10. Order[g][Min(top)] \in Chassis
  BY <1>1, <1>2, <1>7
<1> QED BY <1>6, <1>7, <1>8, <1>9, <1>10

LEMMA DesiredCases ==
    ASSUME NEW s, IsIndex(s), NEW g \in Gateways
    PROVE  Desired(s, g) = NoChassis <=> AliveMembers(s, g) = {}
BY ElectedIsAlive, GatewayConstants DEF Desired

\* StatusMatchesOverall: the order of the checks never hides an error.
LEMMA StatusIsRight == ASSUME NEW s PROVE StatusMatchesOverall(s)
<1> SUFFICES ASSUME NEW g \in Gateways
             PROVE  Status(s, g) \in {"ok", "unmanaged", "degraded"} <=> Overall(s, g) # "error"
  BY DEF StatusMatchesOverall
<1>1. Overall(s, g) = "error" <=> (Orphan(s, g)
        \/ (Managed(g) /\ (Desired(s, g) = NoChassis \/ s.owner[g] # Desired(s, g))))
  BY DEF Overall, OwnerCheck, ElectionCheck
<1> QED BY <1>1 DEF Status

\* StaleOwnerIsError: what is elected is alive, so a stale owner is not.
LEMMA StaleOwnerErrs == ASSUME NEW s, IsIndex(s) PROVE StaleOwnerIsError(s)
<1> SUFFICES ASSUME NEW g \in Gateways, Managed(g), StaleOwner(s, g)
             PROVE  Overall(s, g) = "error" /\ Status(s, g) # "degraded"
  BY DEF StaleOwnerIsError
<1>1. ~ Orphan(s, g) /\ IsStale(s, s.owner[g])
  BY DEF StaleOwner, OwnerPresent
<1>2. Desired(s, g) = NoChassis \/ s.owner[g] # Desired(s, g)
  BY <1>1, ElectedIsAlive, DesiredCases DEF Alive
<1> QED BY <1>1, <1>2 DEF Overall, ElectionCheck, Status, StaleOwner

\* SettledIsHealthy: the one member of highest priority is elected.
LEMMA SettledIsFine == ASSUME NEW s, IsIndex(s) PROVE SettledIsHealthy(s)
<1> SUFFICES ASSUME NEW g \in Gateways, \A c \in Chassis : c \in s.present /\ s.priv[c].cfg = s.nbCfg,
                    NEW i \in DOMAIN Order[g], s.owner[g] = Order[g][i],
                    \A j \in DOMAIN Order[g] \ {i} : s.prio[g][j] < s.prio[g][i]
             PROVE  Status(s, g) = "ok" /\ Overall(s, g) # "error"
  BY DEF SettledIsHealthy
<1>1. Order[g] \in Seq(Chassis)
  BY GatewayConstants
<1>2. \A j \in DOMAIN Order[g] : Order[g][j] \in Chassis
  BY <1>1
<1>3. \A c \in Chassis : ~ IsStale(s, c)
  <2> TAKE c \in Chassis
  <2>1. s.priv[c].cfg \in Nat
    BY DEF IsIndex
  <2>2. s.priv[c] # NoPriv
    BY <2>1 DEF NoPriv
  <2> QED BY <2>2 DEF IsStale
<1>4. NoChassis \notin Chassis
  BY GatewayConstants
<1>5. AliveMembers(s, g) = DOMAIN Order[g]
  BY <1>2, <1>3, <1>4 DEF AliveMembers, MemberChassis, Alive
<1>6. PICK k \in DOMAIN Order[g] : Desired(s, g) = Order[g][k]
                                   /\ \A j \in DOMAIN Order[g] : s.prio[g][j] <= s.prio[g][k]
  BY <1>5, ElectedIsAlive
<1>7. k = i
  <2>1. s.prio[g][i] \in Int /\ s.prio[g][k] \in Int
    BY DEF IsIndex
  <2>2. s.prio[g][i] <= s.prio[g][k]
    BY <1>6
  <2> QED BY <2>1, <2>2
<1>8. s.owner[g] = Desired(s, g) /\ Desired(s, g) # NoChassis /\ ~ Orphan(s, g)
  BY <1>2, <1>4, <1>6, <1>7 DEF Orphan
<1>9. Managed(g)
  BY <1>1 DEF Managed
<1>10. ~ StaleOwner(s, g)
  BY <1>2, <1>3 DEF StaleOwner
<1> QED BY <1>8, <1>9, <1>10 DEF Status, Overall, OwnerCheck, ElectionCheck

\* A finite set has more than one element when it has two different ones.
LEMMA MoreThanOne ==
    ASSUME NEW S, IsFiniteSet(S)
    PROVE  Cardinality(S) > 1 <=> \E x, y \in S : x # y
<1>1. Cardinality(S) \in Nat
  BY FS_CardinalityType
<1>2. ASSUME NEW x \in S, NEW y \in S, x # y PROVE Cardinality(S) > 1
  <2>1. IsFiniteSet(S \ {x}) /\ Cardinality(S \ {x}) = Cardinality(S) - 1
    BY FS_RemoveElement
  <2>2. Cardinality(S \ {x}) # 0
    BY <1>2, <2>1, FS_EmptySet
  <2>3. Cardinality(S \ {x}) \in Nat
    BY <2>1, FS_CardinalityType
  <2> QED BY <1>1, <2>1, <2>2, <2>3
<1>3. ASSUME \A x, y \in S : x = y PROVE Cardinality(S) <= 1
  <2>1. CASE S = {}
    BY <2>1, FS_EmptySet
  <2>2. CASE S # {}
    <3>1. PICK x : S = {x}
      BY <1>3, <2>2
    <3> QED BY <3>1, FS_Singleton
  <2> QED BY <2>1, <2>2
<1> QED BY <1>1, <1>2, <1>3

\* SplitIsReported: counting owners finds the addresses with two of them.
LEMMA SplitIsFound == ASSUME NEW s, IsIndex(s) PROVE SplitIsReported(s)
<1> DEFINE All == UNION {ServedIPs(g) : g \in Gateways}
           Serving(ip) == {h \in Gateways : ip \in ServedIPs(h) /\ ~ Orphan(s, h)}
           Owners(ip) == {s.owner[g] : g \in Serving(ip)}
           Split(ip) == \E g, h \in Gateways : /\ ip \in ServedIPs(g) \cap ServedIPs(h)
                                               /\ {s.owner[g], s.owner[h]} \subseteq Chassis
                                               /\ s.owner[g] # s.owner[h]
<1>1. \A g \in Gateways : Orphan(s, g) <=> s.owner[g] \notin Chassis
  BY GatewayConstants DEF IsIndex, Orphan
<1>2. ASSUME NEW ip PROVE Cardinality(Owners(ip)) > 1 <=> Split(ip)
  <2>1. IsFiniteSet(Serving(ip))
    BY GatewayConstants, FS_Subset
  <2> HIDE DEF Serving
  <2>2. IsFiniteSet(Owners(ip))
    <3> DEFINE f == [h \in Serving(ip) |-> s.owner[h]]
    <3>1. f \in Surjection(Serving(ip), Owners(ip))
      BY DEF Surjection
    <3> QED BY <2>1, <3>1, FS_Surjection
  <2> HIDE DEF Owners
  <2>3. Cardinality(Owners(ip)) > 1 <=> \E x, y \in Owners(ip) : x # y
    BY <2>2, MoreThanOne
  <2> USE DEF Owners, Serving
  <2>4. (\E x, y \in Owners(ip) : x # y) <=> Split(ip)
    BY <1>1
  <2> QED BY <2>3, <2>4
<1>3. Conflicts(s) = {ip \in All : Cardinality(Owners(ip)) > 1}
  BY DEF Conflicts
<1>4. SplitIsReported(s) <=> Conflicts(s) = {ip \in All : Split(ip)}
  BY DEF SplitIsReported
<1> HIDE DEF All, Owners, Split
<1> QED BY <1>2, <1>3, <1>4

(* Gateway health (gateway/analyzer.go), for any chassis, members and      *)
(* priorities: status and severity agree, a stale owner is an error, a     *)
(* settled gateway is healthy, and exactly the split addresses are shown.  *)
THEOREM GatewayIsRight == IsInput => GatewayAnswers
BY StatusIsRight, StaleOwnerErrs, SettledIsFine, SplitIsFound DEF IsInput, GatewayAnswers

---------------------------------------------------------------------------
(* Next hops *)

\* What First finds is a port of the router that is in the set.
LEMMA FirstIsOurs ==
    ASSUME NEW s, IsRoute(s), NEW ports, First(s, ports) # Nil
    PROVE  /\ First(s, ports) \in ports
           /\ First(s, ports) \in s.rows \cap ToSet(s.lrps)
<1> DEFINE hits == {i \in routerLRPs(s) : s.lrps[i] \in ports}
<1>1. s.lrps \in Seq(ToSet(s.lrps))
  BY DEF IsRoute
<1>2. hits \in SUBSET Nat /\ hits \subseteq DOMAIN s.lrps
  BY <1>1 DEF routerLRPs
<1>3. hits # {} /\ First(s, ports) = s.lrps[Min(hits)]
  BY DEF First
<1>4. Min(hits) \in hits
  BY <1>2, <1>3, SetHasMin
<1>5. s.lrps[Min(hits)] \in ports /\ s.lrps[Min(hits)] \in s.rows /\ Min(hits) \in DOMAIN s.lrps
  BY <1>2, <1>4 DEF routerLRPs
<1> QED BY <1>3, <1>5 DEF ToSet

\* Rows that are found have the address and a port among the candidates,
\* unless the router has no ports.
LEMMA FoundRows ==
    ASSUME NEW s, IsRoute(s), NEW rows, NEW b \in Lookup(rows, s)
    PROVE  /\ b \in rows /\ canonicalIP(b.ip) = canonicalIP(s.hop)
           /\ \/ b.port \in candidatePorts(s) /\ b.port \in s.rows \cap ToSet(s.lrps)
              \/ candidatePorts(s) = {}
<1> DEFINE on(p) == {x \in Matching(rows, s) : x.port = p}
           port == First(s, {p \in candidatePorts(s) : on(p) # {}})
<1>1. CASE port # Nil
  <2>1. Lookup(rows, s) = on(port)
    BY <1>1 DEF Lookup
  <2>2. port \in candidatePorts(s) /\ port \in s.rows \cap ToSet(s.lrps)
    BY <1>1, FirstIsOurs
  <2> QED BY <2>1, <2>2 DEF Matching
<1>2. CASE port = Nil
  <2>1. candidatePorts(s) = {} /\ b \in Matching(rows, s)
    BY <1>2 DEF Lookup
  <2> QED BY <2>1 DEF Matching
<1> QED BY <1>1, <1>2

LEMMA BindingIsOwn == ASSUME NEW s, IsRoute(s) PROVE BindingIsOfThisRouter(s)
<1> SUFFICES ASSUME NEW h \in analyzeNextHop(s), NEW b \in {h.dyn, h.stat} \ {Nil}
             PROVE  b.port \in s.rows \cap ToSet(s.lrps) \/ routerLRPs(s) = {}
  BY DEF BindingIsOfThisRouter, Analyze
<1>1. b \in Lookup(s.macs, s) \/ b \in Lookup(s.stats, s)
  BY DEF analyzeNextHop, OrNil
<1>2. candidatePorts(s) = {} => routerLRPs(s) = {}
  BY DEF candidatePorts
<1> QED BY <1>1, <1>2, FoundRows

LEMMA HealthyIsFresh == ASSUME NEW s, IsRoute(s) PROVE HealthyIsRefreshed(s)
<1> SUFFICES ASSUME NEW h \in analyzeNextHop(s), Severity(h.status) = "healthy", h.dyn # Nil, h.stat = Nil
             PROVE  LET applies == IF s.opt # Nil /\ s.opt >= 0 THEN s.opt ELSE s.global
                    IN  /\ applies # Nil /\ applies > 0
                        /\ h.dyn.ts > 0 => s.now - h.dyn.ts <= applies
  BY DEF HealthyIsRefreshed, Analyze
<1>1. h.status = classify(s, h.dyn, h.stat) /\ h.dyn \in Lookup(s.macs, s)
  BY DEF analyzeNextHop, OrNil
<1>2. h.dyn.ts \in Int /\ s.now \in Int
  BY <1>1, FoundRows DEF IsRoute
<1>3. /\ threshold(s) > 0
      /\ ~ (h.dyn.ts > 0 /\ Age(s, h.dyn) > threshold(s))
  BY <1>1 DEF classify, Severity
<1>4. /\ s.opt \in Int \/ s.opt = Nil
      /\ s.global \in Int \/ s.global = Nil
  BY DEF IsRoute
<1>5. CASE s.opt # Nil /\ s.opt >= 0
  <2>1. threshold(s) = s.opt /\ s.opt \in Int
    BY <1>4, <1>5 DEF threshold, parseThreshold
  <2> QED BY <1>2, <1>3, <1>5, <2>1 DEF Age
<1>6. CASE ~ (s.opt # Nil /\ s.opt >= 0)
  <2>1. threshold(s) = s.global /\ s.global \in Int /\ s.global # Nil
    BY <1>3, <1>4, <1>6 DEF threshold, parseThreshold
  <2> QED BY <1>2, <1>3, <1>6, <2>1 DEF Age
<1> QED BY <1>5, <1>6

LEMMA ConflictIsLocal == ASSUME NEW s, IsRoute(s) PROVE ConflictIsOnThePort(s)
<1> SUFFICES ASSUME NEW h \in analyzeNextHop(s), h.status = "mac-conflict", resolveEgressLRP(s) # Nil
             PROVE  h.dyn.port = h.stat.port /\ canonicalIP(h.dyn.ip) = canonicalIP(h.stat.ip)
  BY DEF ConflictIsOnThePort, Analyze
<1>1. /\ h.status = classify(s, h.dyn, h.stat)
      /\ h.dyn # Nil => h.dyn \in Lookup(s.macs, s)
      /\ h.stat # Nil => h.stat \in Lookup(s.stats, s)
  BY DEF analyzeNextHop, OrNil
<1>2. h.dyn # Nil /\ h.stat # Nil
  BY <1>1 DEF classify
<1>3. candidatePorts(s) = {resolveEgressLRP(s)}
  BY DEF candidatePorts
<1> QED BY <1>1, <1>2, <1>3, FoundRows

---------------------------------------------------------------------------
(* Port diagnosis and connectivity *)

\* The fold of addCheck.
LEMMA WorstIs ==
    ASSUME NEW sevs, NEW a, NEW b, NEW c
    PROVE  Worst(sevs, <<a, b, c>>) = IF a \in sevs THEN a ELSE IF b \in sevs THEN b ELSE c
<1> DEFINE levels == <<a, b, c>>
           Best(i) == /\ levels[i] \in sevs \/ i = Len(levels)
                      /\ \A j \in 1..(i - 1) : levels[j] \notin sevs
<1>1. DOMAIN levels = {1, 2, 3} /\ Len(levels) = 3 /\ levels[1] = a /\ levels[2] = b /\ levels[3] = c
  OBVIOUS
<1> HIDE DEF levels
<1>2. Best(1) <=> a \in sevs
  BY <1>1
<1>3. Best(2) <=> a \notin sevs /\ b \in sevs
  BY <1>1
<1>4. Best(3) <=> a \notin sevs /\ b \notin sevs
  BY <1>1
<1>5. Worst(sevs, levels) = levels[CHOOSE i \in DOMAIN levels : Best(i)]
  BY DEF Worst
<1> HIDE DEF Best
<1>6. CASE a \in sevs
  <2>1. (CHOOSE i \in DOMAIN levels : Best(i)) = 1
    BY <1>1, <1>2, <1>3, <1>4, <1>6
  <2> QED BY <1>1, <1>5, <1>6, <2>1 DEF levels
<1>7. CASE a \notin sevs /\ b \in sevs
  <2>1. (CHOOSE i \in DOMAIN levels : Best(i)) = 2
    BY <1>1, <1>2, <1>3, <1>4, <1>7
  <2> QED BY <1>1, <1>5, <1>7, <2>1 DEF levels
<1>8. CASE a \notin sevs /\ b \notin sevs
  <2>1. (CHOOSE i \in DOMAIN levels : Best(i)) = 3
    BY <1>1, <1>2, <1>3, <1>4, <1>8
  <2> QED BY <1>1, <1>5, <1>8, <2>1 DEF levels
<1> QED BY <1>6, <1>7, <1>8

\* The search for a connecting router follows the diagram.
LEMMA RouterIsShared ==
    ASSUME NEW db, IsNetwork(db), NEW p, NEW q
    PROVE  findConnectingRouter(db, db.sw[p], db.sw[q]) <=> SharesRouter(db, p, q)
<1>1. ASSUME findConnectingRouter(db, db.sw[p], db.sw[q]) PROVE SharesRouter(db, p, q)
  <2>1. PICK l \in findRouterPortsOnSwitch(db, db.sw[p]), m \in findRouterPortsOnSwitch(db, db.sw[q]) :
               findParentRouter(db, l) # None /\ findParentRouter(db, l) = findParentRouter(db, m)
    BY <1>1 DEF findConnectingRouter
  <2>2. PICK r \in db.lsp : db.sw[r] = db.sw[p] /\ db.type[r] = "router" /\ db.peer[r] = l
    BY <2>1 DEF findRouterPortsOnSwitch
  <2>3. PICK t \in db.lsp : db.sw[t] = db.sw[q] /\ db.type[t] = "router" /\ db.peer[t] = m
    BY <2>1 DEF findRouterPortsOnSwitch
  <2>4. /\ l \in db.lrp /\ m \in db.lrp
        /\ db.router[l] # None /\ db.router[l] = db.router[m]
    BY <2>1 DEF findParentRouter
  <2>5. db.sw[p] # None /\ db.sw[q] # None
    BY <1>1 DEF findConnectingRouter
  <2> QED BY <2>2, <2>3, <2>4, <2>5 DEF SharesRouter, SharesSegment
<1>2. ASSUME SharesRouter(db, p, q) PROVE findConnectingRouter(db, db.sw[p], db.sw[q])
  <2>1. PICK r \in db.lsp, t \in db.lsp :
            /\ db.type[r] = "router" /\ db.peer[r] \in db.lrp
            /\ db.type[t] = "router" /\ db.peer[t] \in db.lrp
            /\ db.sw[r] # None /\ db.sw[t] # None
            /\ SharesSegment(db, r, p) /\ SharesSegment(db, t, q)
            /\ db.router[db.peer[r]] # None
            /\ db.router[db.peer[r]] = db.router[db.peer[t]]
    BY <1>2 DEF SharesRouter
  <2>2. db.peer[r] # None /\ db.peer[t] # None
    BY <2>1 DEF IsNetwork
  <2>3. /\ db.peer[r] \in findRouterPortsOnSwitch(db, db.sw[p])
        /\ db.peer[t] \in findRouterPortsOnSwitch(db, db.sw[q])
    BY <2>1, <2>2 DEF findRouterPortsOnSwitch, SharesSegment
  <2>4. /\ findParentRouter(db, db.peer[r]) # None
        /\ findParentRouter(db, db.peer[r]) = findParentRouter(db, db.peer[t])
    BY <2>1 DEF findParentRouter
  <2>5. db.sw[p] # None /\ db.sw[q] # None
    BY <2>1 DEF SharesSegment
  <2> QED BY <2>3, <2>4, <2>5 DEF findConnectingRouter
<1> QED BY <1>1, <1>2

LEMMA SegmentOrRouter ==
    ASSUME NEW db, IsNetwork(db), NEW p, NEW q
    PROVE  /\ L2Check(db, p, q) = "pass" <=> SharesSegment(db, p, q) \/ SharesRouter(db, p, q)
           /\ L2Check(db, p, q) \in {"pass", "fail"}
BY RouterIsShared DEF L2Check, SharesSegment

\* The other checks of the connectivity report, and its verdicts.
OtherChecks(db, p, q) ==
    {checkACLs(db, p, q), checkPhysicalRealization(db, p), checkPhysicalRealization(db, q),
     checkEncapTunnel(db, p, q)}

LEMMA Verdicts ==
    ASSUME NEW db, NEW p \in db.lsp, NEW q \in db.lsp
    PROVE  Check(db, p, q) =
             {Worst({L2Check(db, p, q), l3} \cup OtherChecks(db, p, q), <<"fail", "warning", "pass">>) :
                l3 \in checkL3Connectivity(db, p, q)}
<1>1. \A l3 : {L2Check(db, p, q), l3, checkACLs(db, p, q), checkPhysicalRealization(db, p),
               checkPhysicalRealization(db, q), checkEncapTunnel(db, p, q)}
              = {L2Check(db, p, q), l3} \cup OtherChecks(db, p, q)
  BY DEF OtherChecks
<1> QED BY <1>1 DEF Check

\* The outcome is fail for a failed layer-2 check or an unplaced VIF only.
LEMMA FailsWhen ==
    ASSUME NEW db, NEW p \in db.lsp, NEW q \in db.lsp
    PROVE  Check(db, p, q) = {"fail"} <=>
             \/ L2Check(db, p, q) = "fail"
             \/ checkPhysicalRealization(db, p) = "fail" \/ checkPhysicalRealization(db, q) = "fail"
<1> DEFINE rest == OtherChecks(db, p, q)
           l2 == L2Check(db, p, q)
           outcome(l3) == Worst({l2, l3} \cup rest, <<"fail", "warning", "pass">>)
<1>1. \A l3 \in checkL3Connectivity(db, p, q) : l3 # "fail"
  BY DEF checkL3Connectivity
<1>2. checkL3Connectivity(db, p, q) # {}
  BY DEF checkL3Connectivity
<1>3. \A l3 : outcome(l3) = IF "fail" \in {l2, l3} \cup rest THEN "fail"
                           ELSE IF "warning" \in {l2, l3} \cup rest THEN "warning" ELSE "pass"
  BY WorstIs
<1>4. "fail" \in rest <=> checkPhysicalRealization(db, p) = "fail" \/ checkPhysicalRealization(db, q) = "fail"
  BY DEF OtherChecks, checkACLs, checkEncapTunnel
<1>5. Check(db, p, q) = {outcome(l3) : l3 \in checkL3Connectivity(db, p, q)}
  BY Verdicts
<1>6. \A l3 \in checkL3Connectivity(db, p, q) :
         outcome(l3) = "fail" <=> l2 = "fail" \/ "fail" \in rest
  BY <1>1, <1>3
<1> HIDE DEF outcome, rest, l2
<1>7. Check(db, p, q) = {"fail"} <=> l2 = "fail" \/ "fail" \in rest
  BY <1>2, <1>5, <1>6
<1> QED BY <1>4, <1>7 DEF rest, l2

\* A VIF that is bound nowhere is an error of its diagnosis.
LEMMA UnplacedIsError ==
    ASSUME NEW db, NEW p, checkPhysicalRealization(db, p) = "fail"
    PROVE  diagnose(db, p) = "error"
<1>1. db.type[p] = "" /\ db.pb[p].chassis = None
  BY DEF checkPhysicalRealization
<1>2. db.pb[p].exists => checkChassisHealth(db, p) = "error"
  BY <1>1 DEF checkChassisHealth
<1>3. ~ db.pb[p].exists => checkBinding(db, p) = "error"
  BY <1>1 DEF checkBinding
<1> QED BY <1>2, <1>3, WorstIs DEF diagnose

LEMMA FailureIsExplained ==
    ASSUME NEW db, IsNetwork(db), NEW p, NEW q PROVE FailureHasACause(db, p, q)
<1> SUFFICES ASSUME Check(db, p, q) = {"fail"}, p \in db.lsp, q \in db.lsp,
                    SharesSegment(db, p, q) \/ SharesRouter(db, p, q)
             PROVE  /\ "error" \in {DiagnosePort(db, p), DiagnosePort(db, q)}
                    /\ DiagnoseAll(db).error > 0
  BY DEF FailureHasACause, DiagnosePort
<1>1. PICK x \in {p, q} : checkPhysicalRealization(db, x) = "fail"
  BY FailsWhen, SegmentOrRouter
<1>2. x \in db.lsp /\ diagnose(db, x) = "error"
  BY <1>1, UnplacedIsError
<1> DEFINE Bad == {y \in db.lsp : diagnose(db, y) = "error"}
<1>3. IsFiniteSet(Bad)
  BY FS_Subset DEF IsNetwork
<1>4. Cardinality(Bad) \in Nat /\ Cardinality(Bad) # 0
  BY <1>2, <1>3, FS_CardinalityType, FS_EmptySet
<1>5. DiagnoseAll(db).error = Cardinality(Bad)
  BY DEF DiagnoseAll
<1> HIDE DEF Bad
<1>6. DiagnoseAll(db).error > 0
  BY <1>4, <1>5
<1> QED BY <1>1, <1>2, <1>6 DEF DiagnosePort

LEMMA PassIsLinked ==
    ASSUME NEW db, IsNetwork(db), NEW p, NEW q PROVE PassIsConnected(db, p, q)
<1>1. CASE p \notin db.lsp \/ q \notin db.lsp
  BY <1>1 DEF PassIsConnected, Check
<1>2. CASE p \in db.lsp /\ q \in db.lsp
  BY <1>2, FailsWhen, SegmentOrRouter DEF PassIsConnected
<1> QED BY <1>1, <1>2

LEMMA VerdictIsFair ==
    ASSUME NEW db, NEW p, NEW q PROVE VerdictIsSymmetric(db, p, q)
<1>1. CASE p \notin db.lsp \/ q \notin db.lsp
  BY <1>1 DEF VerdictIsSymmetric, Check
<1>2. CASE p \in db.lsp /\ q \in db.lsp
  <2>1. findConnectingRouter(db, db.sw[p], db.sw[q]) <=> findConnectingRouter(db, db.sw[q], db.sw[p])
    BY DEF findConnectingRouter
  <2>2. L2Check(db, p, q) = L2Check(db, q, p)
    BY <2>1 DEF L2Check
  <2>3. checkL3Connectivity(db, p, q) = checkL3Connectivity(db, q, p)
    BY <2>1 DEF checkL3Connectivity
  <2>4. checkACLs(db, p, q) = checkACLs(db, q, p)
    <3>1. {db.sw[p], db.sw[q]} = {db.sw[q], db.sw[p]} /\ {p, q} = {q, p}
      OBVIOUS
    <3> DEFINE owners == ({db.sw[p], db.sw[q]} \ {None})
                         \cup {g \in DOMAIN db.pgroup : {p, q} \cap db.pgroup[g] # {}}
    <3>2. checkACLs(db, p, q) = IF \E o \in owners : <<o, p>> \in db.deny \/ <<o, q>> \in db.deny
                                THEN "warning" ELSE "pass"
      BY DEF checkACLs
    <3>3. checkACLs(db, q, p) = IF \E o \in owners : <<o, q>> \in db.deny \/ <<o, p>> \in db.deny
                                THEN "warning" ELSE "pass"
      BY <3>1 DEF checkACLs
    <3> HIDE DEF owners
    <3>4. (\E o \in owners : <<o, p>> \in db.deny \/ <<o, q>> \in db.deny)
            <=> (\E o \in owners : <<o, q>> \in db.deny \/ <<o, p>> \in db.deny)
      BY Zenon
    <3> QED BY <3>2, <3>3, <3>4
  <2>5. checkEncapTunnel(db, p, q) = checkEncapTunnel(db, q, p)
    <3>1. {db.pb[p].chassis, db.pb[q].chassis} = {db.pb[q].chassis, db.pb[p].chassis}
      OBVIOUS
    <3> QED BY <3>1 DEF checkEncapTunnel
  <2>6. OtherChecks(db, p, q) = OtherChecks(db, q, p)
    BY <2>4, <2>5 DEF OtherChecks
  <2>7. Check(db, p, q) =
          {Worst({L2Check(db, p, q), l3} \cup OtherChecks(db, p, q), <<"fail", "warning", "pass">>) :
             l3 \in checkL3Connectivity(db, p, q)}
    BY <1>2, Verdicts
  <2>8. Check(db, q, p) =
          {Worst({L2Check(db, q, p), l3} \cup OtherChecks(db, q, p), <<"fail", "warning", "pass">>) :
             l3 \in checkL3Connectivity(db, q, p)}
    BY <1>2, Verdicts
  <2> QED BY <2>2, <2>3, <2>6, <2>7, <2>8 DEF VerdictIsSymmetric
<1> QED BY <1>1, <1>2

---------------------------------------------------------------------------
(* Correlation *)

LEMMA RoundTrips == ASSUME NEW n, IsJoined(n) PROVE ChainsRoundTrip(n)
<1>1. ASSUME NEW p \in n.lsp, LSPDetail(n, p).pb # Nobody
      PROVE  PortBindingDetail(n, LSPDetail(n, p).pb) = LSPDetail(n, p)
  <2>1. LSPDetail(n, p).pb = findPortBinding(n, p)
    BY DEF LSPDetail, lspChain, Chain
  <2>2. findPortBinding(n, p) = p
    BY <1>1, <2>1 DEF findPortBinding
  <2> QED BY <1>1, <2>1, <2>2 DEF PortBindingDetail, LSPDetail, lspChain
<1>2. ASSUME NEW p \in n.lrp, p \in DOMAIN n.pb, p \notin n.lsp
      PROVE  PortBindingDetail(n, LRPDetail(n, p).pb) = LRPDetail(n, p)
  <2>1. LRPDetail(n, p).pb = p
    BY <1>2 DEF LRPDetail, lrpChain, Chain
  <2> QED BY <1>2, <2>1 DEF PortBindingDetail, LRPDetail, lrpChain
<1>3. ASSUME NEW p \in n.lsp, NEW c \in SwitchDetail(n, n.parent[p])
      PROVE  [c EXCEPT !.parent = n.parent[p]] = LSPDetail(n, c.lsp)
  <2>1. PICK q \in n.lsp : n.parent[q] = n.parent[p] /\ c = lspChain(n, q)
    BY <1>3 DEF SwitchDetail
  <2>2. c.lsp = q
    BY <2>1 DEF lspChain, Chain
  <2> QED BY <2>1, <2>2 DEF LSPDetail
<1>4. ASSUME NEW p \in n.lrp, NEW c \in RouterDetail(n, n.parent[p])
      PROVE  [c EXCEPT !.parent = n.parent[p]] = LRPDetail(n, c.lrp)
  <2>1. PICK q \in n.lrp : n.parent[q] = n.parent[p] /\ c = lrpChain(n, q)
    BY <1>4 DEF RouterDetail
  <2>2. c.lrp = q
    BY <2>1 DEF lrpChain, Chain
  <2> QED BY <2>1, <2>2 DEF LRPDetail
<1> QED BY <1>1, <1>2, <1>3, <1>4 DEF ChainsRoundTrip

\* A port whose chain leads to a chassis is bound there.
LEMMA ChainToChassis ==
    ASSUME NEW n, IsJoined(n), NEW u \in DOMAIN n.chassis, NEW p, LSPDetail(n, p).at.chassis = u
    PROVE  /\ p \in DOMAIN n.pb /\ n.pb[p].chassis = u
           /\ LSPDetail(n, p).at.encaps = n.chassis[u].encaps \cap n.encap
<1>1. u # Nobody
  BY DEF IsJoined
<1>2. LSPDetail(n, p).at = IF findPortBinding(n, p) = Nobody THEN NoDetails
                           ELSE resolveBindingDetails(n, n.pb[findPortBinding(n, p)])
  BY DEF LSPDetail, lspChain, Chain
<1>3. findPortBinding(n, p) = p /\ p \in DOMAIN n.pb
  BY <1>1, <1>2 DEF findPortBinding, NoDetails
<1>4. p # Nobody
  BY <1>3 DEF IsJoined
<1>5. LSPDetail(n, p).at = resolveBindingDetails(n, n.pb[p])
  BY <1>2, <1>3, <1>4
<1>6. BoundChassis(n, n.pb[p]) = u
  BY <1>5 DEF resolveBindingDetails
<1>7. n.pb[p].chassis = u
  BY <1>1, <1>6 DEF BoundChassis
<1> QED BY <1>1, <1>3, <1>5, <1>6, <1>7 DEF resolveBindingDetails

LEMMA ViewsAgree == ASSUME NEW n, IsJoined(n) PROVE ViewsAgreeOnChassis(n)
<1> SUFFICES ASSUME NEW u \in DOMAIN n.chassis
             PROVE  /\ Cardinality(ChassisDetail(n, u)) = summarize(n, u).ports.total
                    /\ \A p \in n.lsp : LSPDetail(n, p).at.chassis = u => p \in ChassisDetail(n, u)
                    /\ \A p \in n.lsp : LSPDetail(n, p).at.chassis = u =>
                            LSPDetail(n, p).at.encaps = summarize(n, u).encaps
  BY DEF ViewsAgreeOnChassis
<1>1. u # Nobody
  BY DEF IsJoined
<1>2. ChassisDetail(n, u) = portsByChassis(n, u)
  BY <1>1 DEF ChassisDetail, portsByChassis
<1>3. summarize(n, u).ports.total = Cardinality(portsByChassis(n, u))
      /\ summarize(n, u).encaps = n.chassis[u].encaps \cap n.encap
  BY DEF summarize, summarizePorts
<1>4. ASSUME NEW p \in n.lsp, LSPDetail(n, p).at.chassis = u
      PROVE  p \in ChassisDetail(n, u) /\ LSPDetail(n, p).at.encaps = n.chassis[u].encaps \cap n.encap
  <2>1. /\ p \in DOMAIN n.pb /\ n.pb[p].chassis = u
        /\ LSPDetail(n, p).at.encaps = n.chassis[u].encaps \cap n.encap
    BY <1>4, ChainToChassis
  <2> QED BY <2>1 DEF ChassisDetail
<1> QED BY <1>2, <1>3, <1>4

LEMMA HereIsHere == ASSUME NEW n, IsJoined(n) PROVE BoundHereIsInventoried(n)
<1> SUFFICES ASSUME NEW p \in DOMAIN n.pb, NEW u \in DOMAIN n.chassis
             PROVE  ForInterface(n, n.chassis[u].name, p, "up").here <=> p \in portsByChassis(n, u)
  BY DEF BoundHereIsInventoried
<1>1. p # Nobody /\ u # Nobody
  BY DEF IsJoined
<1>2. ForInterface(n, n.chassis[u].name, p, "up").here = resolveChassis(n, n.pb[p], n.chassis[u].name).here
  BY <1>1 DEF ForInterface
<1>3. CASE n.pb[p].chassis \in DOMAIN n.chassis
  <2>1. n.pb[p].chassis # Nobody /\ BoundChassis(n, n.pb[p]) = n.pb[p].chassis
    BY <1>3 DEF BoundChassis, IsJoined
  <2>2. resolveChassis(n, n.pb[p], n.chassis[u].name).here
          = (n.chassis[n.pb[p].chassis].name = n.chassis[u].name)
    BY <2>1 DEF resolveChassis
  <2>3. n.chassis[n.pb[p].chassis].name = n.chassis[u].name <=> n.pb[p].chassis = u
    BY <1>3 DEF IsJoined
  <2> QED BY <1>2, <2>1, <2>2, <2>3 DEF portsByChassis
<1>4. CASE n.pb[p].chassis \notin DOMAIN n.chassis
  <2>1. resolveChassis(n, n.pb[p], n.chassis[u].name).here = FALSE
    BY <1>4 DEF resolveChassis, BoundChassis
  <2> QED BY <1>2, <1>4, <2>1 DEF portsByChassis
<1> QED BY <1>3, <1>4

(* Connectivity (debug/connectivity.go) and correlation (correlate,        *)
(* inventory, ovscorrelate), for any network: a failure has a cause that   *)
(* the diagnosis shows, a pass means a shared switch or router, the        *)
(* verdict is symmetric, and the views agree on ports and chassis.         *)
THEOREM PortsAreRight == IsInput => PortAnswers
BY FailureIsExplained, PassIsLinked, VerdictIsFair, RoundTrips, ViewsAgree, HereIsHere
   DEF IsInput, PortAnswers

---------------------------------------------------------------------------
(* The ACL audit *)

\* A match as the caches hold it: atoms, of which "1" stands alone.
IsMatch(m) ==
    /\ m = Match(m.atoms, m.or) /\ m.atoms \in Seq(ToSet(m.atoms)) \ {<<>>}
    /\ "1" \in ToSet(m.atoms) => m = Always

LEMMA MatchFacts ==
    ASSUME NEW m, IsMatch(m)
    PROVE  /\ Len(m.atoms) \in Nat \ {0} /\ DOMAIN m.atoms = 1..Len(m.atoms)
           /\ ToSet(m.atoms) = {m.atoms[i] : i \in 1..Len(m.atoms)}
<1>1. m.atoms \in Seq(ToSet(m.atoms)) /\ m.atoms # <<>>
  BY DEF IsMatch
<1>2. Len(m.atoms) \in Nat \ {0} /\ DOMAIN m.atoms = 1..Len(m.atoms)
  BY <1>1
<1> QED BY <1>2 DEF ToSet

LEMMA OneElement == ASSUME NEW T, NEW q \in Seq(T), Len(q) = 1 PROVE q = <<q[1]>>
OBVIOUS

\* Without "||" every atom is a conjunct of its own.
LEMMA PlainTexts ==
    ASSUME NEW m, IsMatch(m), Plain(m)
    PROVE  /\ Texts(parseConjuncts(m)) = {<<x>> : x \in ToSet(m.atoms)}
           /\ DOMAIN parseConjuncts(m) # {}
<1> DEFINE N == Len(m.atoms)
           pieces == {<<i, i>> : i \in 1..N}
<1>1. N \in Nat \ {0} /\ m.or = {} /\ ToSet(m.atoms) = {m.atoms[i] : i \in 1..N}
  BY MatchFacts DEF Plain
<1>2. Runs(m, {}) = pieces
  <2>1. ASSUME NEW r \in Runs(m, {}) PROVE r \in pieces
    <3>1. /\ r \in (1..N) \X (1..N) /\ r[1] <= r[2]
          /\ \A k \in r[1]..(r[2] - 1) : k \in {}
      BY <2>1 DEF Runs
    <3>2. r[1] \in Int /\ r[2] \in Int /\ r = <<r[1], r[2]>>
      BY <1>1, <3>1
    <3>3. r[1] = r[2]
      BY <3>1, <3>2
    <3> QED BY <3>1, <3>2, <3>3
  <2>2. ASSUME NEW i \in 1..N PROVE <<i, i>> \in Runs(m, {})
    BY <1>1, <2>2 DEF Runs
  <2> QED BY <2>1, <2>2
<1>3. parseConjuncts(m) = [p \in pieces |-> SubSeq(m.atoms, p[1], p[2])]
  BY <1>1, <1>2 DEF parseConjuncts
<1>4. ASSUME NEW i \in 1..N PROVE SubSeq(m.atoms, i, i) = <<m.atoms[i]>>
  <2>1. m.atoms \in Seq(ToSet(m.atoms)) /\ i \in 1..Len(m.atoms)
    BY <1>4 DEF IsMatch
  <2>2. i \in 1..(Len(m.atoms) + 1) /\ i \in (i - 1)..Len(m.atoms) /\ i - i + 1 = 1
    BY <1>1, <2>1
  <2>3. /\ SubSeq(m.atoms, i, i) \in Seq(ToSet(m.atoms)) /\ Len(SubSeq(m.atoms, i, i)) = 1
        /\ SubSeq(m.atoms, i, i)[1] = m.atoms[i]
    <3>1. /\ SubSeq(m.atoms, i, i) \in Seq(ToSet(m.atoms))
          /\ Len(SubSeq(m.atoms, i, i)) = i - i + 1
          /\ \A k \in 1..(i - i + 1) : SubSeq(m.atoms, i, i)[k] = m.atoms[i + k - 1]
      BY <2>1, <2>2, SubSeqProperties
    <3>2. i + 1 - 1 = i /\ i \in Int
      BY <2>2
    <3> QED BY <2>2, <3>1, <3>2
  <2> QED BY <2>3, OneElement
<1>5. DOMAIN parseConjuncts(m) = pieces /\ pieces # {}
  <2>1. 1 \in 1..N
    BY <1>1
  <2> QED BY <1>3, <2>1
<1>6. \A i \in 1..N : parseConjuncts(m)[<<i, i>>] = <<m.atoms[i]>>
  BY <1>3, <1>4
<1> HIDE DEF N
<1>7. Texts(parseConjuncts(m)) = {<<m.atoms[i]>> : i \in 1..N}
  <2>1. \A p \in pieces : \E i \in 1..N : p = <<i, i>>
    OBVIOUS
  <2>2. \A i \in 1..N : <<i, i>> \in pieces
    OBVIOUS
  <2>3. PICK pc : pc = parseConjuncts(m)
    OBVIOUS
  <2>4. DOMAIN pc = pieces /\ \A i \in 1..N : pc[<<i, i>>] = <<m.atoms[i]>>
    BY <1>5, <1>6, <2>3
  <2>5. Texts(pc) = {pc[p] : p \in pieces}
    BY <2>4 DEF Texts
  <2> HIDE DEF pieces
  <2>6. ASSUME NEW p \in pieces PROVE \E i \in 1..N : pc[p] = <<m.atoms[i]>>
    BY <2>1, <2>4
  <2>7. ASSUME NEW i \in 1..N PROVE \E p \in pieces : pc[p] = <<m.atoms[i]>>
    BY <2>2, <2>4
  <2>8. {pc[p] : p \in pieces} = {<<m.atoms[i]>> : i \in 1..N}
    BY <2>6, <2>7, SMTT(30)
  <2> QED BY <2>3, <2>5, <2>8, Zenon
<1> QED BY <1>1, <1>5, <1>7

\* Without "||" a match hits the packets that have all of its atoms.
LEMMA PlainHits ==
    ASSUME NEW m, IsMatch(m), Plain(m), NEW pkt
    PROVE  Hits(m, pkt) <=> \A x \in ToSet(m.atoms) : x = "1" \/ x \in pkt
<1> DEFINE N == Len(m.atoms)
<1>1. N \in Nat \ {0} /\ m.or = {} /\ ToSet(m.atoms) = {m.atoms[i] : i \in 1..N}
  BY MatchFacts DEF Plain
<1>2. (1..N) \ m.or = 1..N
  BY <1>1
<1>3. Runs(m, 1..N) = {<<1, N>>}
  <2>1. ASSUME NEW r \in Runs(m, 1..N) PROVE r = <<1, N>>
    <3>1. /\ r \in (1..N) \X (1..N)
          /\ r[1] = 1 \/ r[1] - 1 \notin 1..N
          /\ r[2] = N \/ r[2] \notin 1..N
      BY <2>1 DEF Runs
    <3>2. r[1] \in 1..N /\ r[2] \in 1..N /\ r = <<r[1], r[2]>>
      BY <3>1
    <3>3. r[1] = 1
      BY <1>1, <3>1, <3>2
    <3>4. r[2] = N
      BY <3>1, <3>2
    <3> QED BY <3>2, <3>3, <3>4
  <2>2. <<1, N>> \in Runs(m, 1..N)
    <3>1. <<1, N>> \in (1..N) \X (1..N) /\ 1 <= N
      BY <1>1
    <3>2. \A k \in 1..(N - 1) : k \in 1..N
      BY <1>1
    <3> QED BY <3>1, <3>2 DEF Runs
  <2> QED BY <2>1, <2>2
<1>4. Hits(m, pkt) <=> \A k \in 1..N : m.atoms[k] = "1" \/ m.atoms[k] \in pkt
  <2>1. Hits(m, pkt) <=> \E d \in Runs(m, (1..N) \ m.or) : \A k \in d[1]..d[2] :
                              m.atoms[k] = "1" \/ m.atoms[k] \in pkt
    BY DEF Hits
  <2>2. Runs(m, (1..N) \ m.or) = {<<1, N>>}
    BY <1>2, <1>3
  <2> HIDE DEF N
  <2>3. \A d \in {<<1, N>>} : d[1] = 1 /\ d[2] = N
    OBVIOUS
  <2> QED BY <2>1, <2>2, <2>3
<1> HIDE DEF N
<1> QED BY <1>1, <1>4

\* One match contains another when its atoms are among the other's.
LEMMA ContainsIs ==
    ASSUME NEW a, IsMatch(a), Plain(a), NEW b, IsMatch(b), Plain(b)
    PROVE  isSubsetOfConjuncts(parseConjuncts(a), parseConjuncts(b))
             <=> ToSet(a.atoms) \subseteq ToSet(b.atoms)
<1>1. \A x, y : <<x>> = <<y>> => x = y
  OBVIOUS
<1>2. {<<x>> : x \in ToSet(a.atoms)} \subseteq {<<x>> : x \in ToSet(b.atoms)}
        <=> ToSet(a.atoms) \subseteq ToSet(b.atoms)
  <2>1. \A x : <<x>> \in {<<y>> : y \in ToSet(b.atoms)} <=> x \in ToSet(b.atoms)
    BY <1>1
  <2> QED BY <2>1
<1> QED BY <1>2, PlainTexts DEF isSubsetOfConjuncts

LEMMA AlwaysFacts == Always.atoms = <<"1">> /\ ToSet(Always.atoms) = {"1"} /\ Always.or = {}
<1>1. Always.atoms = <<"1">> /\ Always.or = {}
  BY DEF Always, Match
<1> QED BY <1>1 DEF ToSet

\* The relation of two plain matches is the one of what they hit.
LEMMA RelationIsRight ==
    ASSUME NEW a, IsMatch(a), Plain(a), NEW b, IsMatch(b), Plain(b)
    PROVE  /\ matchRelation(a, b) \in {"equal", "superset"} =>
                \A pkt : Hits(b, pkt) => Hits(a, pkt)
           /\ matchRelation(a, b) = "equal" => a = b
           /\ (\A pkt \in SUBSET (ToSet(b.atoms) \ {"1"}) : Hits(b, pkt) => Hits(a, pkt)) =>
                matchRelation(a, b) \in {"equal", "superset"}
<1> DEFINE sub == isSubsetOfConjuncts(parseConjuncts(a), parseConjuncts(b))
<1>1. /\ matchRelation(a, b) = "equal" <=> a = b
      /\ matchRelation(a, b) = "superset" <=> a # b /\ (a = Always \/ (b # Always /\ sub))
  BY DEF matchRelation
<1>2. sub <=> ToSet(a.atoms) \subseteq ToSet(b.atoms)
  BY ContainsIs
<1> HIDE DEF sub
<1>3. ASSUME matchRelation(a, b) \in {"equal", "superset"}, NEW pkt, Hits(b, pkt) PROVE Hits(a, pkt)
  <2>1. \A x \in ToSet(b.atoms) : x = "1" \/ x \in pkt
    BY <1>3, PlainHits
  <2>2. \A x \in ToSet(a.atoms) : x = "1" \/ x \in pkt
    BY <1>1, <1>2, <1>3, <2>1, AlwaysFacts
  <2> QED BY <2>2, PlainHits
<1>4. ASSUME \A pkt \in SUBSET (ToSet(b.atoms) \ {"1"}) : Hits(b, pkt) => Hits(a, pkt), a # b, a # Always
      PROVE  b # Always /\ sub
  <2>1. PICK pkt : pkt = ToSet(b.atoms) \ {"1"}
    OBVIOUS
  <2>2. Hits(b, pkt)
    BY <2>1, PlainHits
  <2>3. \A x \in ToSet(a.atoms) : x = "1" \/ x \in pkt
    BY <1>4, <2>1, <2>2, PlainHits
  <2>4. "1" \notin ToSet(a.atoms)
    BY <1>4 DEF IsMatch
  <2>5. ToSet(a.atoms) \subseteq pkt
    BY <2>3, <2>4
  <2>6. a.atoms[1] \in ToSet(a.atoms)
    <3>1. Len(a.atoms) \in Nat \ {0} /\ ToSet(a.atoms) = {a.atoms[i] : i \in 1..Len(a.atoms)}
      BY MatchFacts
    <3>2. 1 \in 1..Len(a.atoms)
      BY <3>1
    <3> QED BY <3>1, <3>2
  <2> QED BY <1>2, <2>1, <2>5, <2>6, AlwaysFacts
<1> QED BY <1>1, <1>3, <1>4

\* The members of a sorted bucket.
LEMMA InBucket ==
    ASSUME NEW s, NEW g, NEW o \in SortedBuckets(s, g), NEW i \in DOMAIN o
    PROVE  o[i] \in Bucket(s, g[1], g[2]) /\ DOMAIN o = 1..Cardinality(Bucket(s, g[1], g[2]))
BY DEF SortedBuckets, SetToSeqs

LEMMA RuleFacts ==
    ASSUME NEW s, IsRuleSet(s), NEW a \in DOMAIN s.acl
    PROVE  s.acl[a].prio \in Int /\ IsMatch(s.acl[a].match)
BY DEF IsRuleSet, IsMatch

LEMMA ShadowIsTrue == ASSUME NEW s, IsRuleSet(s) PROVE ShadowedNeverDecides(s)
<1> SUFFICES ASSUME NEW g \in Groups(s), NEW o \in SortedBuckets(s, g), NEW f \in GroupFindings(s, o),
                    f.kind # "conflict",
                    Plain(s.acl[f.hi].match), Plain(s.acl[f.lo].match)
             PROVE  /\ s.acl[f.hi].lane = s.acl[f.lo].lane
                    /\ s.acl[f.hi].prio >= s.acl[f.lo].prio
                    /\ \A pkt : Hits(s.acl[f.lo].match, pkt) => Hits(s.acl[f.hi].match, pkt)
                    /\ s.acl[f.hi].prio = s.acl[f.lo].prio => s.acl[f.hi].match = s.acl[f.lo].match
  BY DEF ShadowedNeverDecides
<1>1. PICK i \in DOMAIN o, j \in DOMAIN o : f.hi = o[i] /\ f.lo = o[j] /\ i < j
  BY DEF GroupFindings
<1>2. f.kind = compareACLs(s.acl[f.hi], s.acl[f.lo]) /\ f.kind # "none"
  BY DEF GroupFindings
<1>3. f.hi \in Bucket(s, g[1], g[2]) /\ f.lo \in Bucket(s, g[1], g[2])
  BY <1>1, InBucket
<1>4. /\ f.hi \in DOMAIN s.acl /\ f.lo \in DOMAIN s.acl
      /\ s.acl[f.hi].lane = s.acl[f.lo].lane
  BY <1>3 DEF Bucket
<1>5. \/ matchRelation(s.acl[f.hi].match, s.acl[f.lo].match) = "equal"
      \/ /\ matchRelation(s.acl[f.hi].match, s.acl[f.lo].match) = "superset"
         /\ s.acl[f.hi].prio > s.acl[f.lo].prio
  BY <1>2 DEF compareACLs
<1>6. /\ IsMatch(s.acl[f.hi].match) /\ IsMatch(s.acl[f.lo].match)
      /\ s.acl[f.hi].prio \in Int /\ s.acl[f.lo].prio \in Int
  BY <1>4, RuleFacts
<1>7. s.acl[f.hi].prio >= s.acl[f.lo].prio
  BY <1>1 DEF SortedBuckets
<1>8. \A pkt : Hits(s.acl[f.lo].match, pkt) => Hits(s.acl[f.hi].match, pkt)
  BY <1>5, <1>6, RelationIsRight
<1>9. ASSUME s.acl[f.hi].prio = s.acl[f.lo].prio PROVE s.acl[f.hi].match = s.acl[f.lo].match
  <2>1. ~ (s.acl[f.hi].prio > s.acl[f.lo].prio)
    BY <1>6, <1>9
  <2> QED BY <1>5, <1>6, <2>1, RelationIsRight
<1> QED BY <1>4, <1>7, <1>8, <1>9

\* A sorted bucket lists each of its ACLs.
LEMMA BucketIsListed ==
    ASSUME NEW s, IsRuleSet(s), NEW g \in Groups(s), NEW o \in SortedBuckets(s, g),
           NEW a \in Bucket(s, g[1], g[2])
    PROVE  \E i \in DOMAIN o : o[i] = a
<1> DEFINE B == Bucket(s, g[1], g[2])
           N == Cardinality(B)
<1>1. g[1] \in DOMAIN s.attach
  BY DEF Groups
<1>2. IsFiniteSet(ToSet(s.attach[g[1]]))
  <2>1. s.attach[g[1]] \in Seq(ToSet(s.attach[g[1]]))
    BY <1>1 DEF IsRuleSet
  <2>2. Len(s.attach[g[1]]) \in Nat /\ DOMAIN s.attach[g[1]] = 1..Len(s.attach[g[1]])
    BY <2>1
  <2>3. IsFiniteSet(DOMAIN s.attach[g[1]])
    BY <2>2, FS_Interval
  <2>4. s.attach[g[1]] \in Surjection(DOMAIN s.attach[g[1]], ToSet(s.attach[g[1]]))
    BY <2>1, <2>2 DEF Surjection, ToSet
  <2> QED BY <2>3, <2>4, FS_Surjection
<1>3. IsFiniteSet(B)
  BY <1>2, FS_Subset DEF Bucket
<1>4. N \in Nat
  BY <1>3, FS_CardinalityType
<1>5. o \in [1..N -> B] /\ \A i, j \in 1..N : i # j => o[i] # o[j]
  BY DEF SortedBuckets, SetToSeqs
<1> HIDE DEF B
<1>6. o \in Injection(1..N, B)
  BY <1>5 DEF Injection, IsInjective
<1>7. Cardinality(1..N) = N
  BY <1>4, FS_Interval
<1>8. o \in Surjection(1..N, B)
  BY <1>3, <1>6, <1>7, FS_Injection
<1> QED BY <1>5, <1>8 DEF Surjection, B

LEMMA ShadowIsFound == ASSUME NEW s, IsRuleSet(s) PROVE TextualShadowIsFound(s)
<1> SUFFICES ASSUME NEW g \in Groups(s), NEW a \in Bucket(s, g[1], g[2]), NEW b \in Bucket(s, g[1], g[2]),
                    s.acl[a].prio > s.acl[b].prio, s.acl[a].action # s.acl[b].action,
                    Plain(s.acl[a].match), Plain(s.acl[b].match),
                    \A pkt \in SUBSET Atoms(s) : Hits(s.acl[b].match, pkt) => Hits(s.acl[a].match, pkt),
                    NEW o \in SortedBuckets(s, g)
             PROVE  [hi |-> a, lo |-> b, kind |-> "shadow"] \in GroupFindings(s, o)
  BY DEF TextualShadowIsFound
<1>1. a \in DOMAIN s.acl /\ b \in DOMAIN s.acl
  BY DEF Bucket
<1>2. /\ s.acl[a].prio \in Int /\ s.acl[b].prio \in Int
      /\ IsMatch(s.acl[a].match) /\ IsMatch(s.acl[b].match)
  BY <1>1, RuleFacts
<1>3. PICK i \in DOMAIN o : o[i] = a
  BY BucketIsListed
<1>4. PICK j \in DOMAIN o : o[j] = b
  BY BucketIsListed
<1>5. i \in Int /\ j \in Int
  <2>1. DOMAIN o = 1..Cardinality(Bucket(s, g[1], g[2]))
    BY InBucket
  <2> QED BY <2>1
<1>6. \A k, l \in DOMAIN o : k < l => s.acl[o[k]].prio >= s.acl[o[l]].prio
  BY DEF SortedBuckets
<1>7. i < j
  <2>1. i # j
    BY <1>2, <1>3, <1>4
  <2>2. ~ (j < i)
    BY <1>2, <1>3, <1>4, <1>6
  <2> QED BY <1>5, <2>1, <2>2
<1>8. ToSet(s.acl[b].match.atoms) \ {"1"} \subseteq Atoms(s)
  <2>1. ToSet(s.acl[b].match.atoms) \in {ToSet(s.acl[x].match.atoms) : x \in DOMAIN s.acl}
    BY <1>1
  <2> QED BY <2>1 DEF Atoms
<1>9. matchRelation(s.acl[a].match, s.acl[b].match) \in {"equal", "superset"}
  BY <1>2, <1>8, RelationIsRight
<1>10. compareACLs(s.acl[a], s.acl[b]) = "shadow"
  BY <1>9 DEF compareACLs
<1>11. <<i, j>> \in {q \in (DOMAIN o) \X (DOMAIN o) : q[1] < q[2]}
  BY <1>7
<1> QED BY <1>3, <1>4, <1>10, <1>11 DEF GroupFindings

(* The ACL audit (debug/acl_audit.go) and the next hops (router/           *)
(* nexthop.go), for any rules and routes: whatever the atoms mean, a plain *)
(* match called shadowed never decides before the other, and what is       *)
(* shadowed whatever they mean is found; and a binding is of the route's   *)
(* own router, refreshed when healthy, compared on its port.               *)
THEOREM PolicyIsRight == IsInput => PolicyAnswers
BY ShadowIsTrue, ShadowIsFound, BindingIsOwn, HealthyIsFresh, ConflictIsLocal
   DEF IsInput, PolicyAnswers

---------------------------------------------------------------------------
(* The requests that read in several steps *)

---------------------------------------------------------------------------
(* Validation *)

(* The cache is the database unless it was seen not to be; a row that was  *)
(* always there is there; what is past the shape check has the shape.      *)
ValidationInv ==
    /\ always \subseteq target
    /\ vpc \in {"shape", "ready", "refs1", "refs2", "end"}
    /\ vpc \in {"refs1", "refs2"} /\ ~ unsettled => nbRows = target
    /\ vpc # "end" <=> verdict = "none"
    /\ vpc \in {"ready", "refs1", "refs2"} \/ verdict = "ok" =>
          ValidateSingleDatabase /\ \A i \in DOMAIN ops : ValidateOperation(ops[i])
    /\ NoFalseMissing

LEMMA ValidationInitInv == ValidationInit => ValidationInv
BY DEF ValidationInit, ValidationInv, NoFalseMissing

LEMMA EventInv ==
    ASSUME ValidationInv, vpc # "end", UNCHANGED <<ops, vpc, authoritative, verdict>>,
           unsettled' = (unsettled \/ nbRows' # target'),
           (target' = target /\ always' = always) \/ always' = always \cap target'
    PROVE  ValidationInv'
<1>1. verdict = "none" /\ verdict' = "none"
  BY DEF ValidationInv
<1>2. always' \subseteq target'
  BY DEF ValidationInv
<1>3. ValidateSingleDatabase' = ValidateSingleDatabase /\ \A i \in DOMAIN ops : ValidateOperation(ops[i])' = ValidateOperation(ops[i])
  BY DEF ValidateSingleDatabase, ValidateOperation, ValidateFields, Get, Database, DeleteOnly
<1> QED BY <1>1, <1>2, <1>3 DEF ValidationInv, NoFalseMissing

LEMMA ValidationStepInv == ASSUME ValidationInv, [ValidationNext]_validationVars PROVE ValidationInv'
<1>1. CASE RowChanges \/ UpdateArrives \/ Purge \/ CacheRestored
  <2>1. vpc # "end" /\ UNCHANGED <<ops, vpc, authoritative, verdict>>
        /\ unsettled' = (unsettled \/ nbRows' # target')
    BY <1>1 DEF RowChanges, UpdateArrives, Purge, CacheRestored, Event, Settled
  <2>2. (target' = target /\ always' = always) \/ always' = always \cap target'
    BY <1>1 DEF RowChanges, UpdateArrives, Purge, CacheRestored
  <2> QED BY <2>1, <2>2, EventInv
<1>2. CASE Shape
  <2>1. UNCHANGED <<ops, authoritative, unsettled, target, nbRows, always>> /\ vpc = "shape"
    BY <1>2 DEF Shape, Cache
  <2>2. \/ vpc' = "end" /\ verdict' \in {"shape", "mixed"}
        \/ vpc' = "ready" /\ verdict' = verdict /\ ValidateSingleDatabase
           /\ \A i \in DOMAIN ops : ValidateOperation(ops[i])
    BY <1>2 DEF Shape
  <2>3. ValidateSingleDatabase' = ValidateSingleDatabase /\ \A i \in DOMAIN ops : ValidateOperation(ops[i])' = ValidateOperation(ops[i])
    BY <2>1 DEF ValidateSingleDatabase, ValidateOperation, ValidateFields, Get, Database, DeleteOnly
  <2> QED BY <2>1, <2>2, <2>3 DEF ValidationInv, NoFalseMissing
<1>3. CASE ReadReady
  <2>1. /\ UNCHANGED <<ops, verdict, target, nbRows, always>> /\ vpc = "ready" /\ vpc' = "refs1"
        /\ unsettled' = (nbRows # target)
    BY <1>3 DEF ReadReady, Cache
  <2>2. ValidateSingleDatabase' = ValidateSingleDatabase /\ \A i \in DOMAIN ops : ValidateOperation(ops[i])' = ValidateOperation(ops[i])
    BY <2>1 DEF ValidateSingleDatabase, ValidateOperation, ValidateFields, Get, Database, DeleteOnly
  <2>3. verdict = "none"
    BY <2>1 DEF ValidationInv
  <2> QED BY <2>1, <2>2, <2>3 DEF ValidationInv, NoFalseMissing
<1>4. CASE CheckReferences
  <2>1. PICK i \in DOMAIN ops :
          /\ vpc = (IF i = 1 THEN "refs1" ELSE "refs2")
          /\ LET v == IF Database(ops[i].table) = "sb" THEN "ok" ELSE ValidateReferences(ops[i])
             IN  IF v # "ok" THEN verdict' = v /\ vpc' = "end"
                 ELSE IF i = Len(ops) THEN verdict' = "ok" /\ vpc' = "end"
                 ELSE vpc' = "refs2" /\ UNCHANGED verdict
          /\ UNCHANGED <<ops, authoritative, unsettled, Cache>>
    BY <1>4 DEF CheckReferences
  <2>2. UNCHANGED <<ops, authoritative, unsettled, target, nbRows, always>> /\ vpc \in {"refs1", "refs2"}
    BY <2>1 DEF Cache
  <2>3. \/ vpc' = "end" /\ verdict' \in {"duplicate", "range", "ok"}
        \/ vpc' = "end" /\ verdict' = "missing" /\ authoritative /\ MissingRef(ops[i])
        \/ vpc' = "refs2" /\ verdict' = verdict
    BY <2>1 DEF ValidateReferences
  <2>4. ValidateSingleDatabase' = ValidateSingleDatabase /\ \A j \in DOMAIN ops : ValidateOperation(ops[j])' = ValidateOperation(ops[j])
    BY <2>2 DEF ValidateSingleDatabase, ValidateOperation, ValidateFields, Get, Database, DeleteOnly
  <2>5. verdict = "none"
    BY <2>2 DEF ValidationInv
  <2>6. MissingRef(ops[i]) /\ (\A j \in DOMAIN ops : ops[j].value \in always \cup {0}) => unsettled
    BY <2>2 DEF MissingRef, checkRefExists, ValidationInv
  <2>7. NoFalseMissing'
    BY <2>2, <2>3, <2>5, <2>6 DEF NoFalseMissing
  <2> QED BY <2>2, <2>3, <2>4, <2>5, <2>7 DEF ValidationInv
<1>5. CASE UNCHANGED validationVars
  <2>1. UNCHANGED <<ops, target, nbRows, vpc, authoritative, verdict, always, unsettled>>
    BY <1>5 DEF validationVars
  <2>2. ValidateSingleDatabase' = ValidateSingleDatabase /\ \A j \in DOMAIN ops : ValidateOperation(ops[j])' = ValidateOperation(ops[j])
    BY <2>1 DEF ValidateSingleDatabase, ValidateOperation, ValidateFields, Get, Database, DeleteOnly
  <2> QED BY <2>1, <2>2 DEF ValidationInv, NoFalseMissing
<1> QED BY <1>1, <1>2, <1>3, <1>4, <1>5 DEF ValidationNext

\* One database: any two operations agree on it.
LEMMA AcceptedFollows == ValidationInv => AcceptedIsOneTransaction
<1> SUFFICES ASSUME ValidationInv, verdict = "ok", NEW i \in DOMAIN ops, NEW j \in DOMAIN ops
             PROVE  /\ (ops[i].table \in NbTables) = (ops[j].table \in NbTables)
                    /\ ops[i].table \notin NbTables => ops[i].action = "delete"
  BY DEF AcceptedIsOneTransaction
<1>1. ValidateSingleDatabase /\ ValidateOperation(ops[i])
  BY DEF ValidationInv
<1> DEFINE D == {Database(ops[k].table) : k \in DOMAIN ops}
<1>2. D \subseteq {"nb", "sb"} /\ Database(ops[i].table) \in D /\ Database(ops[j].table) \in D
  BY DEF Database
<1>3. IsFiniteSet(D) /\ Cardinality(D) \in Nat
  <2>1. IsFiniteSet({"nb", "sb"})
    <3>1. IsFiniteSet({"nb"})
      BY FS_Singleton
    <3>2. IsFiniteSet({"nb"} \cup {"sb"})
      BY <3>1, FS_AddElement
    <3>3. {"nb", "sb"} = {"nb"} \cup {"sb"}
      OBVIOUS
    <3> QED BY <3>2, <3>3
  <2> HIDE DEF D
  <2>2. IsFiniteSet(D)
    BY <1>2, <2>1, FS_Subset
  <2> QED BY <2>2, FS_CardinalityType
<1>4. Cardinality(D) <= 1
  BY <1>1 DEF ValidateSingleDatabase
<1> HIDE DEF D
<1>5. Database(ops[i].table) = Database(ops[j].table)
  <2>1. Cardinality(D) = 1
    <3>1. Cardinality(D) # 0
      BY <1>2, <1>3, FS_EmptySet
    <3> QED BY <1>3, <1>4, <3>1
  <2>2. \E x : D = {x}
    BY <1>3, <2>1, FS_Singleton
  <2> QED BY <1>2, <2>2
<1>6. (ops[i].table \in NbTables) = (ops[j].table \in NbTables)
  BY <1>5 DEF Database
<1>7. ops[i].table \notin NbTables => ops[i].action = "delete"
  BY <1>1 DEF ValidateOperation, DeleteOnly
<1> QED BY <1>6, <1>7

---------------------------------------------------------------------------
(* The stale-entry report *)

Ports == Lsps \cup Lrps
BindingRows == {<<k, e>> : k \in {"port", "cr"}, e \in Ports}

LEMMA BindingShape ==
    /\ \A e \in Ports : BindingsOf(e) \subseteq BindingRows /\ \A b \in BindingsOf(e) : b[2] = e
    /\ \A b \in BindingRows : b[1] # "fdb" /\ b[2] \in Ports
    /\ \A b : Fdb(b)[1] = "fdb" /\ Fdb(b)[2] = b[2]
<1>1. \A e \in Ports : BindingsOf(e) \subseteq BindingRows /\ \A b \in BindingsOf(e) : b[2] = e
  <2> SUFFICES ASSUME NEW e \in Ports, NEW b \in BindingsOf(e) PROVE b \in BindingRows /\ b[2] = e
    OBVIOUS
  <2>1. b = <<"port", e>> \/ b = <<"cr", e>>
    BY DEF BindingsOf
  <2> QED BY <2>1 DEF BindingRows
<1>2. \A b \in BindingRows : b[1] # "fdb" /\ b[2] \in Ports
  BY DEF BindingRows
<1>3. \A b : Fdb(b)[1] = "fdb" /\ Fdb(b)[2] = b[2]
  BY DEF Fdb
<1> QED BY <1>1, <1>2, <1>3

(* A binding or an FDB row that has not lapsed is justified, and a binding *)
(* that the report has listed stays so until it lapses; its name is known  *)
(* once its ports are listed, unless the cache trailed.                    *)
StaleEntriesInv ==
    /\ pos \in 1..7 /\ bound \subseteq BindingRows /\ nbDb \subseteq Ports
    /\ \A f \in fdb : f[1] = "fdb" /\ (f \in lapsed \/ \E b \in bound : Fdb(b) = f)
    /\ \A b \in bound : b \in lapsed \/ (b[2] \in nbDb /\ b \in BindingsOf(b[2]))
    /\ pos = 2 => got \subseteq fdb
    /\ pos <= 2 => wrong = {}
    /\ pos \in {1, 3, 7} => got = {}
    /\ pos \in 4..6 => got \subseteq BindingRows /\ \A b \in got : b \in lapsed \/ b \in bound
    /\ pos \in 5..6 /\ ~ trailing => \A b \in got : b \in lapsed \/ b[2] \notin Lsps \/ b \in names
    /\ pos = 6 /\ ~ trailing => \A b \in got : b \in lapsed \/ b[2] \notin Lrps \/ b \in names
    /\ OrphansLapsed

LEMMA ListsFacts ==
    /\ Len(Lists) = 6
    /\ Lists[1] = "fdb" /\ Lists[2] = "keys" /\ Lists[3] = "bindings" /\ Lists[4] = "lsps"
    /\ Lists[5] = "lrps" /\ Lists[6] = "orphans"
BY DEF Lists

LEMMA AtFacts ==
    ASSUME StaleEntriesInv, NEW s, At(s)
    PROVE  /\ pos' = pos + 1 /\ UNCHANGED <<nbDb, nbCache, bound, fdb, sb, changes, lapsed>>
           /\ s = "fdb" => pos = 1
           /\ s = "keys" => pos = 2
           /\ s = "bindings" => pos = 3
           /\ s = "lsps" => pos = 4
           /\ s = "lrps" => pos = 5
           /\ s = "orphans" => pos = 6
<1>1. pos \in 1..7 /\ pos <= 6 /\ Lists[pos] = s
  BY ListsFacts DEF At, StaleEntriesInv
<1>2. pos \in {1, 2, 3, 4, 5, 6}
  BY <1>1
<1>3. pos' = pos + 1 /\ UNCHANGED <<nbDb, nbCache, bound, fdb, sb, changes, lapsed>>
  BY DEF At
<1> QED BY <1>1, <1>2, <1>3, ListsFacts

LEMMA StaleInitInv == StaleEntriesInit => StaleEntriesInv
BY DEF StaleEntriesInit, StaleEntriesInv, OrphansLapsed

\* A step of the databases: what the report holds stays right.
LEMMA DatabaseInv ==
    ASSUME StaleEntriesInv, UNCHANGED Reading,
           nbDb' \subseteq Ports, bound' \subseteq BindingRows, fdb \subseteq fdb',
           \A f \in fdb' : f[1] = "fdb" /\ (f \in lapsed' \/ \E b \in bound' : Fdb(b) = f),
           \A b \in bound' : b \in lapsed' \/ (b[2] \in nbDb' /\ b \in BindingsOf(b[2])),
           \A b \in got : b \in lapsed => b \in lapsed',
           pos \in 4..6 => \A b \in got : b \in bound => b \in lapsed' \/ b \in bound'
    PROVE  StaleEntriesInv'
<1>0. UNCHANGED <<pos, got, names, blind, trailing, wrong>>
  BY DEF Reading
<1>1. pos \in 4..6 => \A b \in got : b \in lapsed' \/ b \in bound'
  BY DEF StaleEntriesInv
<1>2. pos \in 5..6 /\ ~ trailing => \A b \in got : b \in lapsed' \/ b[2] \notin Lsps \/ b \in names
  BY DEF StaleEntriesInv
<1>3. pos = 6 /\ ~ trailing => \A b \in got : b \in lapsed' \/ b[2] \notin Lrps \/ b \in names
  BY DEF StaleEntriesInv
<1>4. /\ pos \in 1..7 /\ (pos = 2 => got \subseteq fdb) /\ (pos \in {1, 3, 7} => got = {})
      /\ pos \in 4..6 => got \subseteq BindingRows
      /\ pos <= 2 => wrong = {}
      /\ OrphansLapsed
  BY DEF StaleEntriesInv
<1>5. OrphansLapsed'
  BY <1>0, <1>4 DEF OrphansLapsed
<1> QED BY <1>0, <1>1, <1>2, <1>3, <1>4, <1>5 DEF StaleEntriesInv

LEMMA PortChangeInv == ASSUME StaleEntriesInv, PortChange PROVE StaleEntriesInv'
<1>1. PICK e \in Lsps \cup Lrps :
         IF e \in nbDb THEN nbDb' = nbDb \ {e} /\ lapsed' = lapsed \cup (BindingsOf(e) \cap bound)
         ELSE nbDb' = nbDb \cup {e} /\ UNCHANGED lapsed
  BY DEF PortChange
<1>2. UNCHANGED <<nbCache, bound, fdb, Reading, got, pos>>
  BY DEF PortChange, Reading
<1>3. lapsed \subseteq lapsed' /\ nbDb' \subseteq Ports
  BY <1>1 DEF StaleEntriesInv, Ports
<1>4. /\ bound \subseteq BindingRows
      /\ \A f \in fdb : f[1] = "fdb" /\ (f \in lapsed \/ \E b \in bound : Fdb(b) = f)
      /\ \A b \in bound : b \in lapsed \/ (b[2] \in nbDb /\ b \in BindingsOf(b[2]))
  BY DEF StaleEntriesInv
<1>5. ASSUME NEW b \in bound PROVE b \in lapsed' \/ (b[2] \in nbDb' /\ b \in BindingsOf(b[2]))
  <2>1. CASE b \in lapsed
    BY <1>3, <2>1
  <2>2. CASE b[2] \in nbDb /\ b \in BindingsOf(b[2]) /\ b[2] = e
    <3>1. b \in BindingsOf(e) \cap bound /\ e \in nbDb
      BY <2>2
    <3> QED BY <1>1, <3>1
  <2>3. CASE b[2] \in nbDb /\ b \in BindingsOf(b[2]) /\ b[2] # e
    <3>1. b[2] \in nbDb'
      BY <1>1, <2>3
    <3> QED BY <2>3, <3>1
  <2> QED BY <1>4, <2>1, <2>2, <2>3
<1> QED BY <1>2, <1>3, <1>4, <1>5, DatabaseInv

LEMMA NorthdInv == ASSUME StaleEntriesInv, Northd PROVE StaleEntriesInv'
<1>1. UNCHANGED <<nbDb, nbCache, fdb, Reading, got, pos>>
  BY DEF Northd, Reading
<1>2. /\ bound \subseteq BindingRows /\ nbDb \subseteq Ports
      /\ \A f \in fdb : f[1] = "fdb" /\ (f \in lapsed \/ \E b \in bound : Fdb(b) = f)
      /\ \A b \in bound : b \in lapsed \/ (b[2] \in nbDb /\ b \in BindingsOf(b[2]))
  BY DEF StaleEntriesInv
<1>3. CASE \E e \in nbDb : /\ ~ BindingsOf(e) \subseteq bound /\ bound' = bound \cup BindingsOf(e)
                          /\ lapsed' = lapsed \ (BindingsOf(e) \ (bound \cup got))
  <2>1. PICK e \in nbDb : bound' = bound \cup BindingsOf(e) /\ lapsed' = lapsed \ (BindingsOf(e) \ (bound \cup got))
    BY <1>3
  <2>2. BindingsOf(e) \subseteq BindingRows /\ \A b \in BindingsOf(e) : b[2] = e /\ b[1] # "fdb"
    BY <1>2, BindingShape
  <2>3. bound' \subseteq BindingRows
    BY <1>2, <2>1, <2>2
  <2>4. ASSUME NEW f \in fdb PROVE f[1] = "fdb" /\ (f \in lapsed' \/ \E b \in bound' : Fdb(b) = f)
    BY <1>2, <2>1, <2>2
  <2>5. ASSUME NEW b \in bound' PROVE b \in lapsed' \/ (b[2] \in nbDb /\ b \in BindingsOf(b[2]))
    <3>1. CASE b \in BindingsOf(e)
      BY <2>2, <3>1
    <3>2. CASE b \in bound
      BY <1>2, <2>1, <3>2
    <3> QED BY <2>1, <3>1, <3>2
  <2> QED BY <1>1, <1>2, <2>1, <2>3, <2>4, <2>5, DatabaseInv
<1>4. CASE \E e \in (Lsps \cup Lrps) \ nbDb :
            /\ BindingsOf(e) \cap bound # {} /\ bound' = bound \ BindingsOf(e)
            /\ lapsed' = lapsed \cup ({Fdb(b) : b \in BindingsOf(e)} \cap fdb)
  <2>1. PICK e \in Ports \ nbDb : bound' = bound \ BindingsOf(e)
                                 /\ lapsed' = lapsed \cup ({Fdb(b) : b \in BindingsOf(e)} \cap fdb)
    BY <1>4 DEF Ports
  <2>2. \A b \in BindingsOf(e) : b[2] = e
    BY BindingShape
  <2>3. ASSUME NEW f \in fdb PROVE f[1] = "fdb" /\ (f \in lapsed' \/ \E b \in bound' : Fdb(b) = f)
    <3>1. CASE f \in lapsed
      BY <1>2, <2>1, <3>1
    <3>2. ASSUME NEW b \in bound, Fdb(b) = f PROVE f \in lapsed' \/ \E c \in bound' : Fdb(c) = f
      BY <2>1, <3>2
    <3> QED BY <1>2, <3>1, <3>2
  <2>4. ASSUME NEW b \in bound, b \notin lapsed PROVE b \in bound'
    BY <1>2, <2>1, <2>2, <2>4
  <2>5. bound' \subseteq bound /\ lapsed \subseteq lapsed'
    BY <2>1
  <2> QED BY <1>1, <1>2, <2>3, <2>4, <2>5, DatabaseInv
<1> QED BY <1>3, <1>4 DEF Northd

LEMMA LearnInv == ASSUME StaleEntriesInv, Learn PROVE StaleEntriesInv'
<1>1. PICK b \in bound : fdb' = fdb \cup {Fdb(b)} /\ UNCHANGED <<nbDb, nbCache, bound, sb, changes, lapsed, Reading>>
  BY DEF Learn
<1>2. UNCHANGED <<nbDb, bound, lapsed, pos, got, Reading>>
  BY <1>1 DEF Reading
<1>3. /\ bound \subseteq BindingRows /\ nbDb \subseteq Ports
      /\ \A f \in fdb : f[1] = "fdb" /\ (f \in lapsed \/ \E c \in bound : Fdb(c) = f)
      /\ \A c \in bound : c \in lapsed \/ (c[2] \in nbDb /\ c \in BindingsOf(c[2]))
  BY DEF StaleEntriesInv
<1>4. \A f \in fdb' : f[1] = "fdb" /\ (f \in lapsed \/ \E c \in bound : Fdb(c) = f)
  BY <1>1, <1>3, BindingShape
<1> QED BY <1>1, <1>2, <1>3, <1>4, DatabaseInv

\* The report's own steps.
LEMMA ListInv ==
    ASSUME StaleEntriesInv, ListFdb \/ detectOrphanedFDB \/ ListBindings PROVE StaleEntriesInv'
<1>0. /\ pos \in 1..7 /\ bound \subseteq BindingRows /\ nbDb \subseteq Ports
      /\ \A f \in fdb : f[1] = "fdb" /\ (f \in lapsed \/ \E b \in bound : Fdb(b) = f)
      /\ \A b \in bound : b \in lapsed \/ (b[2] \in nbDb /\ b \in BindingsOf(b[2]))
      /\ pos = 2 => got \subseteq fdb
      /\ pos <= 2 => wrong = {}
      /\ OrphansLapsed
  BY DEF StaleEntriesInv
<1>r. \A t, rows : Listed(t, rows) \subseteq rows /\ (t \in sb => Listed(t, rows) = rows)
  BY DEF Listed
<1>1. CASE ListFdb
  <2>1. /\ pos = 1 /\ pos' = 2 /\ UNCHANGED <<nbDb, bound, fdb, lapsed, names, blind, trailing, wrong>>
        /\ got' \subseteq fdb
    BY <1>1, <1>r, AtFacts DEF ListFdb
  <2>2. wrong' = {} /\ OrphansLapsed'
    BY <1>0, <2>1 DEF OrphansLapsed
  <2> QED BY <1>0, <2>1, <2>2 DEF StaleEntriesInv
<1>2. CASE detectOrphanedFDB
  <2>1. /\ pos = 2 /\ pos' = 3 /\ UNCHANGED <<nbDb, bound, fdb, lapsed, names, trailing>> /\ got' = {}
        /\ blind' = ("Port_Binding" \notin sb)
        /\ wrong' = (got \ {Fdb(b) : b \in Listed("Port_Binding", bound)}) \ lapsed
    BY <1>2, AtFacts DEF detectOrphanedFDB
  <2>2. ASSUME NEW x \in wrong' PROVE x[1] = "fdb" /\ blind'
    <3>1. x \in fdb /\ x \notin lapsed
      BY <1>0, <2>1
    <3>2. x[1] = "fdb" /\ x \in {Fdb(b) : b \in bound}
      BY <1>0, <3>1
    <3>3. "Port_Binding" \notin sb
      BY <1>r, <2>1, <3>2
    <3> QED BY <2>1, <3>2, <3>3
  <2>3. OrphansLapsed'
    BY <2>2 DEF OrphansLapsed
  <2> QED BY <1>0, <2>1, <2>3 DEF StaleEntriesInv
<1>3. CASE ListBindings
  <2>1. /\ pos = 3 /\ pos' = 4 /\ UNCHANGED <<nbDb, bound, fdb, lapsed, names, blind, trailing, wrong>>
        /\ got' \subseteq bound
    BY <1>3, <1>r, AtFacts DEF ListBindings
  <2>2. OrphansLapsed'
    BY <1>0, <2>1 DEF OrphansLapsed
  <2> QED BY <1>0, <2>1, <2>2 DEF StaleEntriesInv
<1> QED BY <1>1, <1>2, <1>3

LEMMA ListPortsInv ==
    ASSUME StaleEntriesInv, ListPorts("lsps", Lsps) \/ ListPorts("lrps", Lrps) PROVE StaleEntriesInv'
<1>0. /\ bound \subseteq BindingRows /\ nbDb \subseteq Ports
      /\ \A f \in fdb : f[1] = "fdb" /\ (f \in lapsed \/ \E b \in bound : Fdb(b) = f)
      /\ \A b \in bound : b \in lapsed \/ (b[2] \in nbDb /\ b \in BindingsOf(b[2]))
  BY DEF StaleEntriesInv
<1>1. ASSUME NEW s, NEW kind, ListPorts(s, kind), s \in {"lsps", "lrps"}, trailing' = FALSE, NEW b \in got
      PROVE  b \in lapsed \/ b[2] \notin kind \/ b \in names'
  <2>1. pos \in {4, 5}
    BY <1>1, AtFacts DEF ListPorts
  <2>2. b \in lapsed \/ b \in bound
    BY <2>1 DEF StaleEntriesInv
  <2>3. nbCache = nbDb /\ names' = names \cup UNION {BindingsOf(e) : e \in kind \cap nbCache}
    BY <1>1 DEF ListPorts
  <2>4. CASE b \notin lapsed /\ b[2] \in kind
    <3>1. b[2] \in nbDb /\ b \in BindingsOf(b[2])
      BY <1>0, <2>2, <2>4
    <3>2. b[2] \in kind \cap nbCache
      BY <2>3, <2>4, <3>1
    <3> QED BY <2>3, <3>1, <3>2
  <2> QED BY <2>4
<1>2. ASSUME NEW s, NEW kind, ListPorts(s, kind), s \in {"lsps", "lrps"}
      PROVE  /\ UNCHANGED <<nbDb, bound, fdb, lapsed, got, wrong>> /\ pos' = pos + 1 /\ pos \in {4, 5}
             /\ names \subseteq names' /\ trailing' = (trailing \/ nbCache # nbDb)
             /\ got \subseteq BindingRows /\ (\A b \in got : b \in lapsed \/ b \in bound) /\ OrphansLapsed'
  <2>1. /\ UNCHANGED <<nbDb, bound, fdb, lapsed, got, blind, wrong>> /\ pos' = pos + 1 /\ pos \in {4, 5}
        /\ names \subseteq names' /\ trailing' = (trailing \/ nbCache # nbDb)
    BY <1>2, AtFacts DEF ListPorts
  <2>2. OrphansLapsed'
    BY <2>1 DEF StaleEntriesInv, OrphansLapsed
  <2> QED BY <2>1, <2>2 DEF StaleEntriesInv
<1>3. CASE ListPorts("lsps", Lsps)
  <2>1. pos = 4 /\ pos' = 5
    BY <1>3, AtFacts DEF ListPorts
  <2>2. ~ trailing' => \A b \in got : b \in lapsed \/ b[2] \notin Lsps \/ b \in names'
    BY <1>1, <1>2, <1>3
  <2> QED BY <1>0, <1>2, <1>3, <2>1, <2>2 DEF StaleEntriesInv
<1>4. CASE ListPorts("lrps", Lrps)
  <2>1. pos = 5 /\ pos' = 6
    BY <1>4, AtFacts DEF ListPorts
  <2>2. ~ trailing' => \A b \in got : b \in lapsed \/ b[2] \notin Lrps \/ b \in names'
    BY <1>1, <1>2, <1>4
  <2>3. ~ trailing => \A b \in got : b \in lapsed \/ b[2] \notin Lsps \/ b \in names
    BY <2>1 DEF StaleEntriesInv
  <2>4. ~ trailing' => \A b \in got : b \in lapsed \/ b[2] \notin Lsps \/ b \in names'
    BY <1>2, <1>4, <2>3
  <2> QED BY <1>0, <1>2, <1>4, <2>1, <2>2, <2>4 DEF StaleEntriesInv
<1> QED BY <1>3, <1>4

LEMMA OrphansInv == ASSUME StaleEntriesInv, detectOrphanedPortBindings PROVE StaleEntriesInv'
<1>1. /\ pos = 6 /\ pos' = 7 /\ UNCHANGED <<nbDb, bound, fdb, lapsed, blind, trailing>> /\ got' = {}
      /\ wrong' = wrong \cup ({b \in got \ names : ~ Exempt(b)} \ lapsed)
  BY AtFacts DEF detectOrphanedPortBindings
<1>2. /\ bound \subseteq BindingRows /\ nbDb \subseteq Ports
      /\ \A f \in fdb : f[1] = "fdb" /\ (f \in lapsed \/ \E b \in bound : Fdb(b) = f)
      /\ \A b \in bound : b \in lapsed \/ (b[2] \in nbDb /\ b \in BindingsOf(b[2]))
      /\ got \subseteq BindingRows /\ OrphansLapsed
      /\ ~ trailing => \A b \in got : b \in lapsed \/ b[2] \notin Lsps \/ b \in names
      /\ ~ trailing => \A b \in got : b \in lapsed \/ b[2] \notin Lrps \/ b \in names
  BY <1>1 DEF StaleEntriesInv
<1>3. ASSUME NEW x \in wrong' PROVE IF x[1] = "fdb" THEN blind' ELSE trailing'
  <2>1. CASE x \in wrong
    BY <1>1, <1>2, <2>1 DEF OrphansLapsed
  <2>2. CASE x \in got /\ x \notin names /\ x \notin lapsed
    <3>1. x[1] # "fdb" /\ x[2] \in Lsps \cup Lrps
      BY <1>2, <2>2, BindingShape DEF Ports
    <3>2. trailing
      BY <1>2, <2>2, <3>1
    <3> QED BY <1>1, <3>1, <3>2
  <2> QED BY <1>1, <2>1, <2>2
<1>4. OrphansLapsed'
  BY <1>3 DEF OrphansLapsed
<1> QED BY <1>1, <1>2, <1>4 DEF StaleEntriesInv

LEMMA StaleEntriesStepInv ==
    ASSUME StaleEntriesInv, [StaleEntriesNext]_staleVars PROVE StaleEntriesInv'
<1>1. CASE Deliver \/ PurgeCaches \/ (\E t \in {"FDB", "Port_Binding"} : Reload(t)) \/ UNCHANGED staleVars
  <2>1. UNCHANGED <<nbDb, bound, fdb, lapsed, Reading, pos, got>>
    BY <1>1 DEF Deliver, PurgeCaches, Reload, staleVars, Reading
  <2> QED BY <2>1, DatabaseInv DEF StaleEntriesInv
<1> QED BY <1>1, PortChangeInv, NorthdInv, LearnInv, ListInv, ListPortsInv, OrphansInv
        DEF StaleEntriesNext

---------------------------------------------------------------------------
(* Snapshot files *)

RowIds  == ParentRows \cup ChildRows \cup NewerRows
SnapRow == [t : SnapTables, id : RowIds, refs : SUBSET (ChildRows \cup NewerRows)]

LEMMA LiveRows == ASSUME NEW L \in ClosedStates PROVE L \subseteq SnapRow
<1> DEFINE Of(t, ids) == {[t |-> t, id |-> i, refs |-> {}] : i \in ids}
           Refs == UNION {[P -> SUBSET (ChildRows \cup NewerRows)] : P \in SUBSET ParentRows}
           Of1(rs) == {[t |-> "parent", id |-> i, refs |-> rs[i]] : i \in DOMAIN rs}
<1>a. PICK p \in {Of1(rs) : rs \in Refs}, c \in SUBSET ChildRows, n \in SUBSET NewerRows :
          L = p \cup Of("child", c) \cup Of("newer", n)
  <2>1. L \in LiveStates
    BY DEF ClosedStates
  <2>2. LiveStates = {p \cup Of("child", c) \cup Of("newer", n) :
                        p \in {Of1(rs) : rs \in Refs}, c \in SUBSET ChildRows, n \in SUBSET NewerRows}
    BY DEF LiveStates
  <2> HIDE DEF Of1, Refs, Of
  <2> QED BY <2>1, <2>2
<1>1. PICK rs \in Refs : p = Of1(rs)
  OBVIOUS
<1>2. PICK P \in SUBSET ParentRows : rs \in [P -> SUBSET (ChildRows \cup NewerRows)]
  OBVIOUS
<1>3. ASSUME NEW i \in DOMAIN rs PROVE [t |-> "parent", id |-> i, refs |-> rs[i]] \in SnapRow
  BY <1>2 DEF SnapRow, SnapTables, RowIds
<1>4. ASSUME NEW i \in ChildRows PROVE [t |-> "child", id |-> i, refs |-> {}] \in SnapRow
  BY DEF SnapRow, SnapTables, RowIds
<1>5. ASSUME NEW i \in NewerRows PROVE [t |-> "newer", id |-> i, refs |-> {}] \in SnapRow
  BY DEF SnapRow, SnapTables, RowIds
<1>6. Of1(rs) \subseteq SnapRow /\ Of("child", c) \subseteq SnapRow /\ Of("newer", n) \subseteq SnapRow
  BY <1>3, <1>4, <1>5
<1> QED BY <1>a, <1>1, <1>6

LEMMA PrunedRow ==
    ASSUME NEW r \in SnapRow, NEW present
    PROVE  /\ Pruned(r, present) \in SnapRow /\ Pruned(r, present).t = r.t
           /\ Pruned(r, present).id = r.id /\ Pruned(r, present).refs = r.refs \cap present
BY DEF Pruned, SnapRow

\* What loadDump makes of a file refers to nothing that it left out.
LEMMA PrunedIsClosed ==
    ASSUME NEW rows \in SUBSET SnapRow
    PROVE  LET out == {Pruned(r, IdsOf(rows)) : r \in rows}
           IN  out \subseteq SnapRow /\ Closed(out) /\ IdsOf(out) = IdsOf(rows)
<1> DEFINE out == {Pruned(r, IdsOf(rows)) : r \in rows}
<1>1. \A r \in rows : /\ Pruned(r, IdsOf(rows)) \in SnapRow /\ Pruned(r, IdsOf(rows)).id = r.id
                      /\ Pruned(r, IdsOf(rows)).refs = r.refs \cap IdsOf(rows)
  BY PrunedRow
<1>2. IdsOf(out) = IdsOf(rows)
  <2>1. \A i : i \in IdsOf(out) <=> \E r \in rows : i = Pruned(r, IdsOf(rows)).id
    BY DEF IdsOf
  <2>2. \A i : i \in IdsOf(rows) <=> \E r \in rows : i = r.id
    BY DEF IdsOf
  <2>3. \A i : i \in IdsOf(out) <=> i \in IdsOf(rows)
    BY <1>1, <2>1, <2>2
  <2> HIDE DEF out
  <2> QED BY <2>3
<1>3. \A x \in out : x.refs \subseteq IdsOf(rows)
  BY <1>1
<1>4. Closed(out)
  BY <1>2, <1>3 DEF Closed
<1> QED BY <1>1, <1>2, <1>4

\* The rows that nobody touched, of the tables that the file has and this build knows.
Mine == {r \in stable : r.t \in known \cap file.origin}
Keeps(rows) == \A r \in Mine : \E x \in rows : x.t = r.t /\ x.id = r.id /\ r.refs \cap IdsOf(Mine) \subseteq x.refs

(* What is unread or stable has been read as it is; a file keeps the       *)
(* stable rows with their references among each other; a server has what   *)
(* loadDump made of the file.                                              *)
SnapFileInv ==
    /\ live \subseteq SnapRow /\ stable \subseteq live /\ dump \subseteq SnapRow /\ unread \subseteq SnapTables
    /\ \A r \in stable : r.t \in unread \/ r \in dump
    /\ file = NoFile => serving = "no"
    /\ file # NoFile => unread = {} /\ file.rows \subseteq SnapRow /\ Keeps(file.rows)
    /\ serving \in {"no", "dir", "nb", "up", "failed", "closed"}
    /\ loaded = IF serving \in {"nb", "up"} THEN LoadRows ELSE {}
    /\ refused = FALSE
    /\ serving \in {"no", "failed", "closed"} => open = {} /\ ~ sockDir
    /\ serving = "dir" => open = {} /\ sockDir
    /\ serving = "nb" => open = {"nb"} /\ sockDir
    /\ serving = "up" => open = {"nb", "sb"} /\ sockDir

LEMMA LoadRowsFacts ==
    ASSUME SnapFileInv, file # NoFile
    PROVE  LoadRows \subseteq SnapRow /\ Closed(LoadRows) /\ Keeps(LoadRows)
<1> DEFINE rows == {x \in file.rows : x.t \in known}
<1>1. rows \in SUBSET SnapRow /\ file.rows \subseteq SnapRow /\ Keeps(file.rows)
  BY DEF SnapFileInv
<1>2. LoadRows = {Pruned(r, IdsOf(rows)) : r \in rows}
  BY DEF LoadRows
<1>3. LoadRows \subseteq SnapRow /\ Closed(LoadRows)
  <2> HIDE DEF rows
  <2> QED BY <1>1, <1>2, PrunedIsClosed
<1>4. ASSUME NEW r \in Mine
      PROVE  \E x \in rows : x.t = r.t /\ x.id = r.id /\ r.refs \cap IdsOf(Mine) \subseteq x.refs
  <2>1. PICK x \in file.rows : x.t = r.t /\ x.id = r.id /\ r.refs \cap IdsOf(Mine) \subseteq x.refs
    BY <1>1 DEF Keeps
  <2>2. x \in rows
    BY <2>1 DEF Mine
  <2> QED BY <2>1, <2>2
<1>5. IdsOf(Mine) \subseteq IdsOf(rows)
  <2> SUFFICES ASSUME NEW i \in IdsOf(Mine) PROVE i \in IdsOf(rows)
    OBVIOUS
  <2>1. PICK r \in Mine : i = r.id
    BY DEF IdsOf
  <2>2. PICK x \in rows : x.id = r.id
    BY <1>4
  <2> HIDE DEF rows
  <2> QED BY <2>1, <2>2 DEF IdsOf
<1> HIDE DEF rows
<1>6. Keeps(LoadRows)
  <2> SUFFICES ASSUME NEW r \in Mine
               PROVE  \E y \in LoadRows : y.t = r.t /\ y.id = r.id /\ r.refs \cap IdsOf(Mine) \subseteq y.refs
    BY DEF Keeps
  <2>1. PICK x \in rows : x.t = r.t /\ x.id = r.id /\ r.refs \cap IdsOf(Mine) \subseteq x.refs
    BY <1>4
  <2> DEFINE y == Pruned(x, IdsOf(rows))
  <2>2. y \in LoadRows
    BY <1>2
  <2>3. y.t = x.t /\ y.id = x.id /\ y.refs = x.refs \cap IdsOf(rows)
    BY <1>1, PrunedRow
  <2> HIDE DEF y
  <2>4. r.refs \cap IdsOf(Mine) \subseteq y.refs
    BY <1>5, <2>1, <2>3
  <2> QED BY <2>1, <2>2, <2>3, <2>4
<1> QED BY <1>3, <1>6

LEMMA FileInitInv == FileInit => SnapFileInv
<1> SUFFICES ASSUME FileInit PROVE SnapFileInv
  OBVIOUS
<1>1. live \subseteq SnapRow
  BY LiveRows DEF FileInit
<1>2. \A r \in SnapRow : r.t \in SnapTables
  BY DEF SnapRow
<1>3. /\ unread = SnapTables /\ dump = {} /\ stable = live /\ file = NoFile /\ serving = "no"
      /\ open = {} /\ sockDir = FALSE /\ loaded = {} /\ refused = FALSE
  BY DEF FileInit
<1> QED BY <1>1, <1>2, <1>3 DEF SnapFileInv

\* Nothing but the database and the dump changes before a file is made.
LEMMA CaptureInv == ASSUME SnapFileInv, Churn \/ ReadTable PROVE SnapFileInv'
<1>0. /\ live \subseteq SnapRow /\ stable \subseteq live /\ dump \subseteq SnapRow /\ unread \subseteq SnapTables
      /\ \A r \in stable : r.t \in unread \/ r \in dump
  BY DEF SnapFileInv
<1>1. unread # {} /\ UNCHANGED <<file, known, serving, open, sockDir, loaded, refused>>
  BY DEF Churn, ReadTable
<1>2. file = NoFile /\ serving = "no"
  BY <1>1 DEF SnapFileInv
<1>3. live' \subseteq SnapRow /\ stable' \subseteq live' /\ dump' \subseteq SnapRow /\ unread' \subseteq SnapTables
      /\ \A r \in stable' : r.t \in unread' \/ r \in dump'
  <2>1. CASE Churn
    <3>1. live' \in ClosedStates /\ stable' = stable \cap live' /\ UNCHANGED <<unread, dump>>
      BY <2>1 DEF Churn
    <3>2. live' \subseteq SnapRow
      BY <3>1, LiveRows
    <3> QED BY <1>0, <3>1, <3>2
  <2>2. CASE ReadTable
    <3>1. PICK t \in unread : unread' = unread \ {t} /\ dump' = dump \cup {r \in live : r.t = t}
      BY <2>2 DEF ReadTable
    <3>2. UNCHANGED <<live, stable>>
      BY <2>2 DEF ReadTable
    <3> QED BY <1>0, <3>1, <3>2
  <2> QED BY <2>1, <2>2
<1>4. LoadRows' = LoadRows
  BY <1>1 DEF LoadRows
<1> QED BY <1>1, <1>2, <1>3, <1>4 DEF SnapFileInv

\* A file of the dump, whole or of the tables that history keeps, has the stable rows.
LEMMA MakeFileInv == ASSUME SnapFileInv, MakeFile PROVE SnapFileInv'
<1>0. /\ unread = {} /\ file = NoFile /\ serving = "no"
      /\ UNCHANGED <<live, unread, dump, stable, known, serving, open, sockDir, loaded, refused>>
  BY DEF MakeFile, SnapFileInv
<1>1. stable \subseteq dump /\ dump \subseteq SnapRow /\ stable \subseteq SnapRow
  BY <1>0 DEF SnapFileInv
<1>2. file'.rows \subseteq SnapRow /\ file' # NoFile /\ Keeps(file.rows)'
  <2> DEFINE M == {r \in stable : r.t \in known \cap file'.origin}
  <2>0. Mine' = M /\ M \subseteq stable
    BY <1>0 DEF Mine
  <2>1. CASE file'.rows = dump /\ file'.version # 0
    <3>1. file' # NoFile
      BY <2>1 DEF NoFile
    <3>2. Keeps(file.rows)'
      <4> SUFFICES ASSUME NEW r \in M
                   PROVE  \E x \in dump : x.t = r.t /\ x.id = r.id /\ r.refs \cap IdsOf(M) \subseteq x.refs
        BY <2>0, <2>1 DEF Keeps, IdsOf
      <4> QED BY <1>1, <2>0
    <3> QED BY <1>1, <2>1, <3>1, <3>2
  <2>2. ASSUME NEW kept \in SUBSET SnapTables, file'.version # 0, file'.origin = kept,
               file'.rows = BuildFromRows({r \in dump : r.t \in kept})
        PROVE  file'.rows \subseteq SnapRow /\ file' # NoFile /\ Keeps(file.rows)'
    <3> DEFINE rows == {r \in dump : r.t \in kept}
               inside == {x \in rows : x.t \in known}
    <3>1. file' # NoFile
      BY <2>2 DEF NoFile
    <3>2. file'.rows = {Pruned(r, IdsOf(rows)) : r \in inside}
      BY <2>2 DEF BuildFromRows
    <3>3. file'.rows \subseteq SnapRow
      <4>1. \A r \in inside : Pruned(r, IdsOf(rows)) \in SnapRow
        BY <1>1, PrunedRow
      <4> HIDE DEF inside, rows
      <4> QED BY <3>2, <4>1
    <3>4. M \subseteq inside /\ M \subseteq rows
      BY <1>1, <2>2
    <3>5. IdsOf(M) \subseteq IdsOf(rows)
      <4> HIDE DEF M, rows
      <4> QED BY <3>4 DEF IdsOf
    <3>6. Keeps(file.rows)'
      <4> SUFFICES ASSUME NEW r \in M
                   PROVE  \E x \in file'.rows : x.t = r.t /\ x.id = r.id /\ r.refs \cap IdsOf(M) \subseteq x.refs
        BY <2>0 DEF Keeps, IdsOf
      <4> DEFINE x == Pruned(r, IdsOf(rows))
      <4>1. x \in file'.rows
        BY <3>2, <3>4
      <4>2. x.t = r.t /\ x.id = r.id /\ x.refs = r.refs \cap IdsOf(rows)
        BY <1>1, <2>0, PrunedRow
      <4> HIDE DEF x, M, rows
      <4>3. r.refs \cap IdsOf(M) \subseteq x.refs
        BY <3>5, <4>2
      <4> QED BY <4>1, <4>2, <4>3
    <3> QED BY <3>1, <3>3, <3>6
  <2>3. CASE file' = [version |-> Version, schema |-> "nb", rows |-> dump, origin |-> SnapTables]
    BY <2>1, <2>3 DEF Version
  <2>4. ASSUME NEW kept \in SUBSET SnapTables,
               file' = [version |-> Version, schema |-> "nb", origin |-> kept,
                        rows |-> BuildFromRows({r \in dump : r.t \in kept})]
        PROVE  file'.rows \subseteq SnapRow /\ file' # NoFile /\ Keeps(file.rows)'
    <3>1. file'.version # 0 /\ file'.origin = kept /\ file'.rows = BuildFromRows({r \in dump : r.t \in kept})
      BY <2>4 DEF Version
    <3> QED BY <2>2, <3>1
  <2>5. CASE file' \in {[version |-> Version + 1, schema |-> "nb", rows |-> dump, origin |-> SnapTables],
                     [version |-> Version, schema |-> "other", rows |-> dump, origin |-> SnapTables]}
    <3>1. file'.rows = dump /\ file'.version # 0
      BY <2>5 DEF Version
    <3> QED BY <2>1, <3>1
  <2> QED BY <2>3, <2>4, <2>5 DEF MakeFile
<1>3. loaded' = {}
  BY <1>0 DEF SnapFileInv
<1> QED BY <1>0, <1>1, <1>2, <1>3 DEF SnapFileInv

\* Serving leaves the capture and the file alone.
LEMMA ServeKeeps ==
    ASSUME SnapFileInv, file # NoFile, UNCHANGED <<live, unread, dump, stable, file, known>>,
           serving' \in {"no", "dir", "nb", "up", "failed", "closed"},
           loaded' = IF serving' \in {"nb", "up"} THEN LoadRows ELSE {},
           refused' = FALSE,
           serving' \in {"no", "failed", "closed"} => open' = {} /\ ~ sockDir',
           serving' = "dir" => open' = {} /\ sockDir',
           serving' = "nb" => open' = {"nb"} /\ sockDir',
           serving' = "up" => open' = {"nb", "sb"} /\ sockDir'
    PROVE  SnapFileInv'
<1>1. LoadRows' = LoadRows /\ Mine' = Mine
  BY DEF LoadRows, Mine
<1>2. Keeps(file.rows)' <=> Keeps(file.rows)
  BY <1>1 DEF Keeps, IdsOf
<1> QED BY <1>1, <1>2 DEF SnapFileInv

LEMMA ServeInv == ASSUME SnapFileInv, Load \/ ServeDump \/ Close PROVE SnapFileInv'
<1>1. UNCHANGED <<live, unread, dump, stable, file, known>>
  BY DEF Load, ServeDump, Close
<1>2. file # NoFile
  BY DEF Load, ServeDump, Close, SnapFileInv
<1>3. Closed(LoadRows)
  BY <1>2, LoadRowsFacts
<1>4. CASE Load
  <2>1. serving = "no" /\ UNCHANGED <<open, loaded, refused>>
    BY <1>4 DEF Load
  <2>2. (serving' = "dir" /\ sockDir' = TRUE) \/ (serving' = "failed" /\ sockDir' = sockDir)
    BY <1>4 DEF Load
  <2>3. loaded = {} /\ refused = FALSE /\ open = {} /\ ~ sockDir
    BY <2>1 DEF SnapFileInv
  <2>4. CASE serving' = "dir" /\ sockDir' = TRUE
    BY <1>1, <1>2, <2>1, <2>3, <2>4, ServeKeeps
  <2>5. CASE serving' = "failed" /\ sockDir' = sockDir
    <3>1. ~ sockDir'
      BY <2>3, <2>5
    <3> QED BY <1>1, <1>2, <2>1, <2>3, <2>5, <3>1, ServeKeeps
  <2> QED BY <2>2, <2>4, <2>5
<1>5. CASE ServeDump
  <2>0. serving \in {"dir", "nb"} /\ refused = FALSE /\ sockDir
        /\ (serving = "dir" => open = {}) /\ (serving = "nb" => open = {"nb"} /\ loaded = LoadRows)
    BY <1>5 DEF ServeDump, SnapFileInv
  <2>1. \/ /\ open' = open \cup {Db(serving)} /\ serving' = Next1(serving)
           /\ loaded' = (IF serving = "dir" THEN LoadRows ELSE loaded) /\ UNCHANGED <<sockDir, refused>>
        \/ serving' = "failed" /\ open' = {} /\ sockDir' = FALSE /\ refused' = FALSE /\ loaded' = {}
    BY <1>3, <1>5 DEF ServeDump, Abandon
  <2>2. CASE serving' = "failed" /\ open' = {} /\ sockDir' = FALSE /\ refused' = FALSE /\ loaded' = {}
    BY <1>1, <1>2, <2>2, ServeKeeps
  <2>3. CASE /\ open' = open \cup {Db(serving)} /\ serving' = Next1(serving)
             /\ loaded' = (IF serving = "dir" THEN LoadRows ELSE loaded) /\ UNCHANGED <<sockDir, refused>>
    <3>1. loaded' = LoadRows
      BY <2>0, <2>3
    <3>2. \/ serving' = "nb" /\ open' = {"nb"}
          \/ serving' = "up" /\ open' = {"nb", "sb"}
      BY <2>0, <2>3 DEF Db, Next1
    <3> QED BY <1>1, <1>2, <2>0, <2>3, <3>1, <3>2, ServeKeeps
  <2> QED BY <2>1, <2>2, <2>3
<1>6. CASE Close
  <2>1. serving' = "closed" /\ open' = {} /\ sockDir' = FALSE /\ loaded' = {} /\ refused' = refused
    BY <1>6 DEF Close
  <2>2. refused = FALSE
    BY DEF SnapFileInv
  <2> QED BY <1>1, <1>2, <2>1, <2>2, ServeKeeps
<1> QED BY <1>4, <1>5, <1>6

LEMMA SnapFileStepInv == ASSUME SnapFileInv, [FileNext]_fileVars PROVE SnapFileInv'
<1>1. CASE UNCHANGED fileVars
  <2>1. UNCHANGED <<live, unread, dump, stable, file, known, serving, open, sockDir, loaded, refused>>
    BY <1>1 DEF fileVars
  <2>2. LoadRows' = LoadRows /\ Mine' = Mine
    BY <2>1 DEF LoadRows, Mine
  <2>3. Keeps(file.rows)' <=> Keeps(file.rows)
    BY <2>1, <2>2 DEF Keeps, IdsOf
  <2> QED BY <2>1, <2>2, <2>3 DEF SnapFileInv
<1> QED BY <1>1, CaptureInv, MakeFileInv, ServeInv DEF FileNext

LEMMA SnapFileFollows == SnapFileInv => ReplayIsClosed /\ StableRowsSurvive /\ ServeAllOrNothing
<1> SUFFICES ASSUME SnapFileInv PROVE ReplayIsClosed /\ StableRowsSurvive /\ ServeAllOrNothing
  OBVIOUS
<1>1. ServeAllOrNothing
  BY DEF SnapFileInv, ServeAllOrNothing
<1>2. serving \in {"nb", "up"} => /\ loaded = LoadRows /\ Closed(LoadRows) /\ Keeps(LoadRows)
  BY LoadRowsFacts DEF SnapFileInv
<1>3. ReplayIsClosed
  <2>1. Closed({})
    BY DEF Closed
  <2> QED BY <1>2, <2>1 DEF ReplayIsClosed, SnapFileInv
<1>4. StableRowsSurvive
  <2>1. StableRowsSurvive <=>
          (serving = "up" => \A r \in Mine : \E x \in loaded : x.id = r.id /\ r.refs \cap IdsOf(Mine) \subseteq x.refs)
    BY DEF StableRowsSurvive, Mine
  <2> QED BY <1>2, <2>1 DEF Keeps
<1> QED BY <1>1, <1>3, <1>4

---------------------------------------------------------------------------

\* validateOps refuses and accepts for the right reasons, whatever the cache does meanwhile.
THEOREM ValidationInvariant == ValidationSpec => [](NoFalseMissing /\ AcceptedIsOneTransaction)
<1>1. ValidationInv => NoFalseMissing /\ AcceptedIsOneTransaction
  BY AcceptedFollows DEF ValidationInv
<1> QED BY <1>1, ValidationInitInv, ValidationStepInv, PTL DEF ValidationSpec

\* Capture and Serve, for any rows and any changes between the reads of the tables.
THEOREM SnapshotFileInvariant == FileSpec => [](ReplayIsClosed /\ StableRowsSurvive /\ ServeAllOrNothing)
BY FileInitInv, SnapFileStepInv, SnapFileFollows, PTL DEF FileSpec

\* The stale-entry report, for any ports, any delay of ovn-northd and of the cache, and any purge.
THEOREM StaleEntriesInvariant == StaleEntriesSpec => []OrphansLapsed
<1>1. StaleEntriesInv => OrphansLapsed
  BY DEF StaleEntriesInv, OrphansLapsed
<1> QED BY <1>1, StaleInitInv, StaleEntriesStepInv, PTL DEF StaleEntriesSpec

(* The three readers together, as the analyses run checks them: no false   *)
(* "missing" and no request of two transactions, closed and whole replays, *)
(* and no false orphan but for a cache that was purged or trailing.        *)
THEOREM ReadersInvariant == ValidationSpec /\ FileSpec /\ StaleEntriesSpec => []ReadersHold
<1>1. NoFalseMissing /\ AcceptedIsOneTransaction /\ (ReplayIsClosed /\ StableRowsSurvive /\ ServeAllOrNothing)
      /\ OrphansLapsed => ReadersHold
  BY DEF ReadersHold
<1> QED BY <1>1, ValidationInvariant, SnapshotFileInvariant, StaleEntriesInvariant, PTL
=============================================================================
